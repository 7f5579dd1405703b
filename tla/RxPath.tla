------------------------------- MODULE RxPath -------------------------------
(***************************************************************************)
(* The receive path of zircon_nic_core up to the dispatcher: the MAC-side  *)
(* frame FIFO, the lockstep broadcast into the packet branch (length and   *)
(* checksum unit, packet FIFO, len FIFO) and the header branch             *)
(* (truncation, header FIFO, parser, record FIFO), and the way rx_dispatch *)
(* pops the three FIFO heads together.                                     *)
(*                                                                         *)
(* A frame is a number of beats. It gets its number when its first beat    *)
(* crosses the broadcast; every beat and every record carries the number,  *)
(* which the hardware does not have: there, the n-th len record and the    *)
(* n-th header record belong to the n-th frame only because nothing is     *)
(* ever lost, duplicated or reordered between the two branches.            *)
(***************************************************************************)
EXTENDS Integers, Sequences

CONSTANTS
    RX_FIFO_BEATS,    \* depth of the MAC-side frame FIFO
    PKT_FIFO_BEATS,   \* depth of the packet FIFO; also the records of the record FIFO
    HDR_FIFO_BEATS,   \* truncated headers buffered ahead of the parser
    LEN_PIPE,         \* beats in flight between the length unit and the packet FIFO
    MaxFrames,        \* bound: frames that reach the MAC-side FIFO
    MaxResets         \* bound: resets of the MAC receive side

ASSUME RxPathAssumption ==
    /\ RX_FIFO_BEATS \in Nat \ {0}
    /\ PKT_FIFO_BEATS \in Nat \ {0}
    /\ HDR_FIFO_BEATS \in Nat \ {0}
    /\ LEN_PIPE \in Nat
    /\ MaxFrames \in Nat
    /\ MaxResets \in Nat
    /\ RX_FIFO_BEATS <= PKT_FIFO_BEATS
    /\ LEN_PIPE <= PKT_FIFO_BEATS

VARIABLES
    macIn,     \* beats stored of the frame arriving from the MAC
    macDrop,   \* the rest of the arriving frame is being discarded
    macOcc,    \* beats in the MAC-side FIFO, the arriving frame's included
    macq,      \* its committed frames: [beats, bad, cut]; cut is the truth behind bad
    rdBeats,   \* beats of the head frame that already left it
    arrived,   \* frames that ended at the MAC side
    resets,    \* MAC-side resets so far
    started,   \* frames whose first beat crossed the broadcast
    pktq,      \* packet FIFO: beats [id, last, cut]
    lenq,      \* len FIFO: records [id, beats, bad]
    hdrq,      \* header FIFO: frame numbers
    parse,     \* the frame in the parser, 0 when it has none
    recq,      \* record FIFO: frame numbers
    metaErr,   \* a len record met a full len FIFO (STATUS.RX_META_ERR)
    disp,      \* rx_dispatch: the frame it holds
    out        \* the last frame that left whole: [beats, bad], and how many did

macVars == <<macIn, macDrop, macOcc, arrived>>
pktVars == <<pktq, lenq, metaErr>>
hdrVars == <<hdrq, parse, recq>>
vars == <<macIn, macDrop, macOcc, macq, rdBeats, arrived, resets, started,
          pktq, lenq, hdrq, parse, recq, metaErr, disp, out>>

\* Depths the instances are given.
LenFifoDepth == 2 * PKT_FIFO_BEATS
RecFifoDepth == PKT_FIFO_BEATS

Idle == [state |-> "IDLE", pkt |-> 0, len |-> 0, rec |-> 0,
         beats |-> 0, bad |-> FALSE, got |-> 0]

Init ==
    /\ macIn = 0 /\ macDrop = FALSE /\ macOcc = 0 /\ macq = <<>> /\ rdBeats = 0
    /\ arrived = 0 /\ resets = 0 /\ started = 0
    /\ pktq = <<>> /\ lenq = <<>> /\ hdrq = <<>> /\ parse = 0 /\ recq = <<>>
    /\ metaErr = FALSE /\ disp = Idle
    /\ out = [n |-> 0, beats |-> 0, bad |-> FALSE]

-----------------------------------------------------------------------------
(* MAC side: the frame FIFO never back-pressures the MAC.                  *)

MacFull == macDrop \/ macOcc = RX_FIFO_BEATS

\* A beat that is not the frame's last: stored, or the frame is given up.
MacBeat ==
    /\ arrived < MaxFrames
    /\ IF MacFull
       THEN macDrop' = TRUE /\ macIn' = 0 /\ macOcc' = macOcc - macIn
       ELSE macDrop' = FALSE /\ macIn' = macIn + 1 /\ macOcc' = macOcc + 1
    /\ UNCHANGED <<macq, rdBeats, arrived, resets, started, disp, out, pktVars, hdrVars>>

\* The last beat of a good frame that fits commits the frame.
MacCommit ==
    /\ arrived < MaxFrames
    /\ ~MacFull
    /\ macq' = Append(macq, [beats |-> macIn + 1, bad |-> FALSE, cut |-> FALSE])
    /\ macOcc' = macOcc + 1
    /\ macIn' = 0
    /\ arrived' = arrived + 1
    /\ UNCHANGED <<macDrop, rdBeats, resets, started, disp, out, pktVars, hdrVars>>

\* The last beat of a frame marked bad, or of one that did not fit, rolls it back.
MacReject ==
    /\ arrived < MaxFrames
    /\ macOcc' = macOcc - macIn
    /\ macIn' = 0
    /\ macDrop' = FALSE
    /\ arrived' = arrived + 1
    /\ UNCHANGED <<macq, rdBeats, resets, started, disp, out, pktVars, hdrVars>>

\* Fault seed: the frame being read out ends without its bad mark.
MacResetUnmarked ==
    /\ resets < MaxResets
    /\ resets' = resets + 1
    /\ macq' = IF rdBeats > 0 THEN <<[beats |-> rdBeats + 1, bad |-> FALSE, cut |-> TRUE]>>
                                ELSE <<>>
    /\ macOcc' = IF rdBeats > 0 THEN 1 ELSE 0
    /\ macIn' = 0
    /\ macDrop' = FALSE
    /\ UNCHANGED <<rdBeats, arrived, started, disp, out, pktVars, hdrVars>>

\* A MAC-side reset empties the FIFO. A frame being read out is ended by one
\* terminate beat (tlast, tuser = bad); the FIFO restarts clean.
MacReset ==
    /\ resets < MaxResets
    /\ resets' = resets + 1
    /\ macq' = IF rdBeats > 0 THEN <<[beats |-> rdBeats + 1, bad |-> TRUE, cut |-> TRUE]>>
                                ELSE <<>>
    /\ macOcc' = IF rdBeats > 0 THEN 1 ELSE 0
    /\ macIn' = 0
    /\ macDrop' = FALSE
    /\ UNCHANGED <<rdBeats, arrived, started, disp, out, pktVars, hdrVars>>

-----------------------------------------------------------------------------
(* The broadcast and the two branches.                                     *)

First == rdBeats = 0
Last == rdBeats + 1 = Head(macq).beats
FrameId == IF First THEN started + 1 ELSE started

\* Fault seed: a packet branch that holds less than the frames it is given.
PacketReadyShort == Len(pktq) < RX_FIFO_BEATS - 1

\* hdr_trunc passes the first beat (TRUNC_BYTES = one beat) and consumes the rest.
HeaderReady == First => Len(hdrq) < HDR_FIFO_BEATS
PacketReady == Len(pktq) < PKT_FIFO_BEATS + LEN_PIPE

\* Fault seed: the len record does not carry the terminate beat's mark.
PushLenUnmarked(r) ==
    IF Len(lenq) < LenFifoDepth
    THEN lenq' = Append(lenq, [r EXCEPT !.bad = FALSE]) /\ UNCHANGED metaErr
    ELSE metaErr' = TRUE /\ UNCHANGED lenq

\* The length unit's record output has no ready: a full FIFO loses the record.
PushLen(r) ==
    IF Len(lenq) < LenFifoDepth
    THEN lenq' = Append(lenq, r) /\ UNCHANGED metaErr
    ELSE metaErr' = TRUE /\ UNCHANGED lenq

\* One beat crosses the broadcast when both branches take it.
BroadcastBeat ==
    /\ macq # <<>>
    /\ PacketReady
    /\ HeaderReady
    /\ started' = FrameId
    /\ pktq' = Append(pktq, [id |-> FrameId, last |-> Last, cut |-> Last /\ Head(macq).cut])
    /\ hdrq' = IF First THEN Append(hdrq, FrameId) ELSE hdrq
    /\ IF Last
       THEN /\ PushLen([id |-> FrameId, beats |-> rdBeats + 1, bad |-> Head(macq).bad])
            /\ macq' = Tail(macq)
            /\ rdBeats' = 0
       ELSE /\ rdBeats' = rdBeats + 1
            /\ UNCHANGED <<macq, lenq, metaErr>>
    /\ macOcc' = macOcc - 1
    /\ UNCHANGED <<macIn, macDrop, arrived, resets, parse, recq, disp, out>>

\* The parser takes the next truncated header.
ParseStart ==
    /\ parse = 0
    /\ hdrq # <<>>
    /\ parse' = Head(hdrq)
    /\ hdrq' = Tail(hdrq)
    /\ UNCHANGED <<macVars, macq, rdBeats, resets, started, pktVars, recq, disp, out>>

\* Fault seed: a record that meets a full FIFO is dropped instead of held.
ParseDoneLossy ==
    /\ parse # 0
    /\ recq' = IF Len(recq) < RecFifoDepth THEN Append(recq, parse) ELSE recq
    /\ parse' = 0
    /\ UNCHANGED <<macVars, macq, rdBeats, resets, started, pktVars, hdrq, disp, out>>

\* rx_meta_capture pushes the record with the block's last beat; a full record
\* FIFO holds the parser.
ParseDone ==
    /\ parse # 0
    /\ Len(recq) < RecFifoDepth
    /\ recq' = Append(recq, parse)
    /\ parse' = 0
    /\ UNCHANGED <<macVars, macq, rdBeats, resets, started, pktVars, hdrq, disp, out>>

-----------------------------------------------------------------------------
(* rx_dispatch, reduced to which heads it takes and when.                  *)

\* The packet FIFO is store and forward: its head is valid once the head
\* frame is complete.
PktValid == \E i \in DOMAIN pktq : pktq[i].last
HeadsValid == PktValid /\ lenq # <<>> /\ recq # <<>>

\* IDLE to EVAL: the heads are captured, len and header record are popped.
DispatchCommit ==
    /\ disp.state = "IDLE"
    /\ HeadsValid
    /\ disp' = [state |-> "FWD", pkt |-> Head(pktq).id, len |-> Head(lenq).id,
                rec |-> Head(recq), beats |-> Head(lenq).beats, bad |-> Head(lenq).bad,
                got |-> 0]
    /\ lenq' = Tail(lenq)
    /\ recq' = Tail(recq)
    /\ UNCHANGED <<macVars, macq, rdBeats, resets, started, pktq, metaErr, hdrq, parse, out>>

\* FWD: one beat of the frame leaves the packet FIFO; tlast ends the frame.
DispatchBeat ==
    /\ disp.state = "FWD"
    /\ PktValid
    /\ pktq' = Tail(pktq)
    /\ IF Head(pktq).last
       THEN /\ disp' = Idle
            /\ out' = [n |-> out.n + 1, beats |-> disp.got + 1, bad |-> disp.bad]
       ELSE /\ disp' = [disp EXCEPT !.got = @ + 1]
            /\ UNCHANGED out
    /\ UNCHANGED <<macVars, macq, rdBeats, resets, started, lenq, metaErr, hdrVars>>

Next ==
    \/ MacBeat \/ MacCommit \/ MacReject \/ MacReset
    \/ BroadcastBeat \/ ParseStart \/ ParseDone
    \/ DispatchCommit \/ DispatchBeat

\* The core clock runs: every enabled handshake of the core side happens. The
\* MAC side owes nothing.
Fairness ==
    /\ WF_vars(BroadcastBeat)
    /\ WF_vars(ParseStart)
    /\ WF_vars(ParseDone)
    /\ WF_vars(DispatchCommit)
    /\ WF_vars(DispatchBeat)

Spec == Init /\ [][Next]_vars /\ Fairness

-----------------------------------------------------------------------------
Frame == [beats : Nat, bad : BOOLEAN, cut : BOOLEAN]
Beat == [id : Nat, last : BOOLEAN, cut : BOOLEAN]
LenRec == [id : Nat, beats : Nat, bad : BOOLEAN]

MacTypeOK ==
    /\ macIn \in Nat /\ macDrop \in BOOLEAN /\ macOcc \in Int
    /\ macq \in Seq(Frame) /\ rdBeats \in Nat
    /\ arrived \in Nat /\ resets \in Nat

PktTypeOK ==
    /\ started \in Nat
    /\ pktq \in Seq(Beat) /\ lenq \in Seq(LenRec) /\ metaErr \in BOOLEAN

HdrTypeOK ==
    /\ hdrq \in Seq(Nat) /\ parse \in Nat /\ recq \in Seq(Nat)
    /\ Len(hdrq) <= HDR_FIFO_BEATS
    /\ Len(recq) <= RecFifoDepth

DispTypeOK ==
    /\ disp \in [state : {"IDLE", "FWD"}, pkt : Nat, len : Nat, rec : Nat,
                 beats : Nat, bad : BOOLEAN, got : Nat]
    /\ out \in [n : Nat, beats : Nat, bad : BOOLEAN]

\* Every variable has its type (rx_dispatch.sv and the FIFOs it reads), and the
\* header branch's FIFOs hold no more than their depth.
TypeOK == MacTypeOK /\ PktTypeOK /\ HdrTypeOK /\ DispTypeOK

\* The frame rx_dispatch classifies and forwards, the len record it used for the
\* length and the checksum, and the header record it used for the addresses
\* belong to the same frame, whatever was dropped, cut or stalled before.
Aligned ==
    disp.state = "FWD" => disp.pkt = disp.len /\ disp.len = disp.rec

\* "An overflow (which cannot happen) would set STATUS.RX_META_ERR": no len
\* record is ever lost, although their FIFO has no back-pressure.
NoMetaErr == ~metaErr

\* The len record's length is the number of beats the frame has left plus those
\* already forwarded: forwarding ends exactly where the length unit counted.
LenMatchesFrame ==
    disp.state = "FWD" =>
        LET left == disp.beats - disp.got
        IN /\ left \in 1 .. Len(pktq)
           /\ pktq[left].last
           /\ \A i \in 1 .. left - 1 : ~pktq[i].last

\* A frame cut short by a MAC-side reset, and no other, is dispatched as bad
\* (RX_BAD_FRAME), however late its terminate beat was noticed.
CutIsBad ==
    disp.state = "FWD" =>
        \A i \in DOMAIN pktq :
            pktq[i].last /\ pktq[i].id = disp.pkt => (pktq[i].cut <=> disp.bad)

\* What is forwarded is what was received, as long and as good.
DispatchedWhole == LenMatchesFrame /\ CutIsBad

\* No circular wait between the two branches: every frame that crossed the
\* broadcast is dispatched to its end.
NoWedge == \A k \in 1 .. MaxFrames : started >= k ~> out.n >= k

\* What the path promises, as a queue of whole frames: those the dispatcher has
\* or is owed, by the length unit's count, then those still ahead of it.
Queue == INSTANCE RxFrameQueue WITH
    q <- (IF disp.state = "FWD" THEN <<[beats |-> disp.beats, bad |-> disp.bad]>> ELSE <<>>)
         \o [i \in DOMAIN lenq |-> [beats |-> lenq[i].beats, bad |-> lenq[i].bad]]
         \o [i \in DOMAIN macq |-> [beats |-> macq[i].beats, bad |-> macq[i].bad]],
    delivered <- out

\* The two branches and their records implement one queue of whole frames.
ImplementsQueue == Queue!Spec
=============================================================================
