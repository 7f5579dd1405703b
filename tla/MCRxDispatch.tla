---------------------------- MODULE MCRxDispatch ----------------------------
(* A beat of 3 bytes with a 2-byte header keeps the code's proportions (64  *)
(* and 42: a header takes more than half of a beat). Frames whose payload   *)
(* ends in the first beat, at a beat's end, in the carry, and before        *)
(* padding of a byte or of whole beats; and the frames no rule takes.       *)
EXTENDS RxDispatch

MCFrame(n, p, port) ==
    [flen |-> n, plen |-> p, ports |-> {port}, udp |-> TRUE, l3bad |-> FALSE,
     l4ok |-> TRUE, bad |-> FALSE]

MCFrames ==
    {MCFrame(3, 1, "ECHO"), MCFrame(4, 2, "ECHO"), MCFrame(6, 4, "ECHO"),
     MCFrame(7, 2, "ECHO"), MCFrame(9, 7, "ECHO"), MCFrame(3, 2, "ECHO"),
     MCFrame(5, 3, "SOCK"), MCFrame(7, 5, "SOCK"), MCFrame(9, 4, "SOCK"),
     [MCFrame(6, 1, "CHK") EXCEPT !.ports = {"SOCK", "CHK"}], MCFrame(4, 0, "ECHO"),
     [MCFrame(6, 4, "ECHO") EXCEPT !.bad = TRUE],
     [MCFrame(5, 3, "ECHO") EXCEPT !.l4ok = FALSE]}
=============================================================================
