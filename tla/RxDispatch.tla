----------------------------- MODULE RxDispatch -----------------------------
(***************************************************************************)
(* rx_dispatch clock cycle by clock cycle: it takes the frame whose three  *)
(* records are at the FIFO heads, classifies it in five cycles, pops its   *)
(* records, and forwards it through one output register shared by the RAW, *)
(* SOCK, ECHO and CHK ports. With it, the echo payload FIFO, its free-room *)
(* status and the echo-metadata FIFO, which the transmit side empties when *)
(* it pleases.                                                             *)
(*                                                                         *)
(* A byte is its offset in the frame (1 is the first); Garbage stands for  *)
(* whatever is on the bus past the frame's end, Desc for a descriptor      *)
(* beat. A frame's record holds what classification reads of it. Registers *)
(* nothing reads before they are written again are blanked when they die.  *)
(***************************************************************************)
EXTENDS Integers, Sequences

CONSTANTS
    KEEP_W,               \* bytes of a beat (64)
    STRIP,                \* header bytes removed from a payload (42)
    ECHO_MARGIN,          \* beats of room asked for beyond the payload (4)
    RX_PATH_FIFO_BEATS,   \* depth of the echo payload FIFO
    ECHO_META_DEPTH,      \* depth of the echo-metadata FIFO
    Frames                \* the frames that may arrive: see FrameType

FrameType == [flen : Nat, plen : Nat, ports : SUBSET {"ECHO", "SOCK", "CHK"},
              udp : BOOLEAN, l3bad : BOOLEAN, l4ok : BOOLEAN, bad : BOOLEAN]

ASSUME RxDispatchAssumption ==
    /\ KEEP_W \in Nat /\ STRIP \in Nat
    /\ 0 < STRIP /\ STRIP < KEEP_W /\ KEEP_W <= 2 * STRIP
    /\ ECHO_MARGIN \in Nat
    /\ RX_PATH_FIFO_BEATS \in Nat
    /\ ECHO_META_DEPTH \in Nat \ {0}
    /\ Frames \subseteq FrameType
    /\ \A f \in Frames : f.flen > 0

CARRY == KEEP_W - STRIP
Garbage == 0
Desc == -1
None == [flen |-> 0]
NoBytes == <<>>
Zeros(n) == [i \in 1 .. n |-> Garbage]
NoClass == [cand |-> FALSE, echo |-> FALSE, sock |-> FALSE]
NoOutput == [valid |-> FALSE, port |-> "RAW", bytes |-> NoBytes, last |-> FALSE, want |-> NoBytes]

VARIABLES
    state,     \* the FSM
    frame,     \* the frame being classified or forwarded; None in IDLE
    beat,      \* its beats taken from the packet FIFO
    cls,       \* classification registers: rule_cand, port_echo, port_sock
    route,     \* route_reg
    desc,      \* raw_desc_reg
    first,     \* the next input beat is the frame's first
    rem,       \* payload bytes still to emit
    carry,     \* last CARRY bytes of the previous input beat
    o,         \* the output register: valid, port, bytes, last; want is what its
               \* frame should deliver in all
    sent,      \* bytes its frame delivered before it
    echoq,     \* echo payload FIFO: one tlast flag per beat
    depth,     \* its depth status, one cycle late
    free,      \* echo_free_beats, one more cycle late
    emeta,     \* records in the echo-metadata FIFO
    owed       \* echo payloads gone to tx_buffer whose record is not popped yet

frameVars == <<frame, beat, first, rem, carry>>
clsVars == <<cls, route, desc>>
vars == <<state, frame, beat, cls, route, desc, first, rem, carry, o, sent,
          echoq, depth, free, emeta, owed>>

Init ==
    /\ state = "IDLE" /\ frame = None /\ beat = 0
    /\ cls = NoClass
    /\ route = "RAW" /\ desc = FALSE
    /\ first = FALSE /\ rem = 0 /\ carry = Zeros(CARRY)
    /\ o = NoOutput /\ sent = 0
    /\ echoq = <<>> /\ depth = 0 /\ free = 0 /\ emeta = 0 /\ owed = 0

-----------------------------------------------------------------------------
(* The frame's beats on the bus.                                           *)

Min2(a, b) == IF a < b THEN a ELSE b
Beats(n) == (n + KEEP_W - 1) \div KEEP_W

\* Byte i of the bus in the frame's k-th beat.
BusByte(k, i) ==
    LET p == (k - 1) * KEEP_W + i
    IN IF p <= frame.flen THEN p ELSE Garbage

InBeat == beat + 1
InLast == InBeat = Beats(frame.flen)

\* A RAW beat keeps the frame's own bytes; a stripped one is the carry followed
\* by the first STRIP bytes of the input beat, cut to the payload bytes left.
RawBytes == [i \in 1 .. Min2(KEEP_W, frame.flen - beat * KEEP_W) |-> BusByte(InBeat, i)]
Stripped == carry \o [i \in 1 .. STRIP |-> BusByte(InBeat, i)]
RemBeat == Min2(rem, KEEP_W)
PayloadBytes == SubSeq(Stripped, 1, RemBeat)
FlushBytes == SubSeq(carry \o Zeros(STRIP), 1, RemBeat)
NextCarry == [i \in 1 .. CARRY |-> BusByte(InBeat, STRIP + i)]

\* What the frame should deliver on its port, once classified.
Want ==
    IF route = "RAW"
    THEN (IF desc THEN <<Desc>> ELSE <<>>) \o [i \in 1 .. frame.flen |-> i]
    ELSE (IF route = "SOCK" THEN <<Desc>> ELSE <<>>) \o [i \in 1 .. frame.plen |-> STRIP + i]

-----------------------------------------------------------------------------
(* The output register and what is behind it. RAW and SOCK feed            *)
(* drop-when-full FIFOs and CHK feeds udp_chk: all three always ready.     *)

DownReady == o.port = "ECHO" => Len(echoq) < RX_PATH_FIFO_BEATS
OFree == ~o.valid \/ DownReady
Taken == o.valid /\ DownReady

\* A store-and-forward FIFO gives beats of complete frames only.
EchoValid == \E i \in DOMAIN echoq : echoq[i]

Load(bytes, last) ==
    o' = [valid |-> TRUE, port |-> route, bytes |-> bytes, last |-> last, want |-> Want]
NoLoad == o' = IF DownReady THEN NoOutput ELSE o

\* What every cycle does besides the FSM: the output register's beat reaches its
\* FIFO, the transmit side may take a beat of an echo payload and the record of
\* one it has whole, and the free-room status follows, late.
Cycle(pushMeta) ==
    /\ sent' = CASE ~Taken -> sent
                 [] Taken /\ ~o.last -> sent + Len(o.bytes)
                 [] Taken /\ o.last -> 0
    /\ \E take, pop \in BOOLEAN :
          /\ take => EchoValid
          /\ pop => owed > 0 /\ emeta > 0
          /\ echoq' = (IF take THEN Tail(echoq) ELSE echoq)
                      \o (IF Taken /\ o.port = "ECHO" THEN <<o.last>> ELSE <<>>)
          /\ owed' = owed + (IF take /\ Head(echoq) THEN 1 ELSE 0) - (IF pop THEN 1 ELSE 0)
          /\ emeta' = emeta + (IF pushMeta THEN 1 ELSE 0) - (IF pop THEN 1 ELSE 0)
    /\ depth' = Len(echoq)
    /\ free' = RX_PATH_FIFO_BEATS - depth

Quiet == Cycle(FALSE)

-----------------------------------------------------------------------------
(* Capture and classification.                                             *)

\* IDLE until all three heads are valid.
IdleWait ==
    /\ state = "IDLE"
    /\ NoLoad /\ Quiet
    /\ UNCHANGED <<state, frameVars, clsVars>>

Capture ==
    /\ state = "IDLE"
    /\ state' = "PAD"
    /\ frame' \in Frames
    /\ NoLoad /\ Quiet
    /\ UNCHANGED <<beat, first, rem, carry, clsVars>>

\* The address, length and flag rules, and the ports, as the registers are set
\* this very cycle (the enables are read here and nowhere else).
Candidate == frame.udp /\ frame.plen # 0 /\ frame.flen >= STRIP + frame.plen

Pad ==
    /\ state = "PAD" /\ state' = "SUM"
    /\ \E echoEn, sockEn, chkEn \in BOOLEAN :
          LET echo == echoEn /\ "ECHO" \in frame.ports
              sock == sockEn /\ "SOCK" \in frame.ports
              chk == chkEn /\ "CHK" \in frame.ports
          IN cls' = [cand |-> Candidate /\ (echo \/ sock \/ chk) /\ ~frame.l3bad,
                     echo |-> echo, sock |-> sock]
    /\ NoLoad /\ Quiet
    /\ UNCHANGED <<route, desc, frameVars>>

\* SUM and ADJ compute the checksum verdict, which the frame carries.
SumAdj ==
    /\ state \in {"SUM", "ADJ"}
    /\ state' = IF state = "SUM" THEN "ADJ" ELSE "CLS"
    /\ NoLoad /\ Quiet
    /\ UNCHANGED <<frameVars, clsVars>>

\* Fault seed: room is asked for the payload's bytes, not for a started beat.
EchoRoomFloor ==
    /\ frame.plen \div KEEP_W <= free
    /\ emeta < ECHO_META_DEPTH

\* Fault seed: the metadata FIFO is not asked.
EchoRoomNoMeta == Beats(frame.plen) + ECHO_MARGIN <= free

EchoRoom ==
    /\ Beats(frame.plen) + ECHO_MARGIN <= free
    /\ emeta < ECHO_META_DEPTH

Ruled == cls.cand /\ frame.l4ok

Classify ==
    /\ state = "CLS" /\ state' = "EVAL"
    /\ \E rxEn, rawDesc \in BOOLEAN :
          /\ route' = CASE frame.bad \/ ~rxEn -> "DROP"
                        [] ~frame.bad /\ rxEn /\ Ruled /\ cls.echo ->
                               IF EchoRoom THEN "ECHO" ELSE "DROP"
                        [] ~frame.bad /\ rxEn /\ Ruled /\ ~cls.echo ->
                               IF cls.sock THEN "SOCK" ELSE "CHK"
                        [] OTHER -> "RAW"
          /\ desc' = (rawDesc /\ route' = "RAW")
    /\ cls' = NoClass
    /\ NoLoad /\ Quiet
    /\ UNCHANGED frameVars

-----------------------------------------------------------------------------
(* Commit and forwarding.                                                  *)

CanCommit == route # "ECHO" \/ emeta < ECHO_META_DEPTH

\* Both records are popped; an echo request's record is pushed before its payload.
Commit ==
    /\ state = "EVAL" /\ CanCommit
    /\ state' = IF route = "SOCK" \/ (route = "RAW" /\ desc) THEN "DESC" ELSE "FWD"
    /\ first' = TRUE
    /\ rem' = frame.plen
    /\ NoLoad
    /\ Cycle(route = "ECHO")
    /\ UNCHANGED <<frame, beat, carry, clsVars>>

Descriptor ==
    /\ state = "DESC" /\ OFree
    /\ state' = "FWD"
    /\ Load(<<Desc>>, FALSE)
    /\ Quiet
    /\ UNCHANGED <<frameVars, clsVars>>

\* The input beat is taken; after the last one the frame is gone.
TakeBeat(next) ==
    /\ first' = FALSE
    /\ carry' = IF InLast /\ next = "IDLE" THEN Zeros(CARRY) ELSE NextCarry
    /\ state' = IF InLast THEN next ELSE "FWD"
    /\ beat' = IF InLast THEN 0 ELSE InBeat
    /\ frame' = IF InLast /\ next = "IDLE" THEN None ELSE frame

ForwardRaw ==
    /\ state = "FWD" /\ route = "RAW" /\ OFree
    /\ TakeBeat("IDLE")
    /\ Load(RawBytes, InLast)
    /\ Quiet
    /\ UNCHANGED <<rem, clsVars>>

ForwardDrop ==
    /\ state = "FWD" /\ route = "DROP"
    /\ TakeBeat("IDLE")
    /\ rem' = IF first THEN rem ELSE IF rem > KEEP_W THEN rem - KEEP_W ELSE 0
    /\ NoLoad /\ Quiet
    /\ UNCHANGED clsVars

Strips == route \in {"ECHO", "SOCK", "CHK"}

\* The first beat only fills the carry; past the payload the rest is drained.
StripSkip ==
    /\ state = "FWD" /\ Strips /\ (first \/ rem = 0)
    /\ TakeBeat(IF rem # 0 THEN "FLUSH" ELSE "IDLE")
    /\ NoLoad /\ Quiet
    /\ UNCHANGED <<rem, clsVars>>

\* Fault seed: the flush is skipped when exactly one beat is left.
StripBeatNoFlush ==
    /\ state = "FWD" /\ Strips /\ ~first /\ rem # 0 /\ OFree
    /\ TakeBeat("IDLE")
    /\ Load(PayloadBytes, rem <= KEEP_W)
    /\ rem' = IF rem > KEEP_W THEN rem - KEEP_W ELSE 0
    /\ Quiet
    /\ UNCHANGED clsVars

StripBeat ==
    /\ state = "FWD" /\ Strips /\ ~first /\ rem # 0 /\ OFree
    /\ TakeBeat(IF rem > KEEP_W THEN "FLUSH" ELSE "IDLE")
    /\ Load(PayloadBytes, rem <= KEEP_W)
    /\ rem' = IF rem > KEEP_W THEN rem - KEEP_W ELSE 0
    /\ Quiet
    /\ UNCHANGED clsVars

Flush ==
    /\ state = "FLUSH" /\ OFree
    /\ state' = "IDLE"
    /\ Load(FlushBytes, TRUE)
    /\ rem' = 0
    /\ frame' = None
    /\ carry' = Zeros(CARRY)
    /\ Quiet
    /\ UNCHANGED <<beat, first, clsVars>>

\* The output register is not free, the packet FIFO's output has a bubble, or the
\* commit waits for the echo-metadata FIFO.
Waits ==
    \/ state = "FWD"
    \/ state \in {"DESC", "FLUSH"} /\ ~OFree
    \/ state = "EVAL" /\ ~CanCommit

Stall ==
    /\ Waits
    /\ NoLoad /\ Quiet
    /\ UNCHANGED <<state, frameVars, clsVars>>

Next ==
    \/ IdleWait \/ Capture \/ Pad \/ SumAdj \/ Classify
    \/ Commit \/ Descriptor
    \/ ForwardRaw \/ ForwardDrop \/ StripSkip \/ StripBeat \/ Flush \/ Stall

\* The clock runs and the packet FIFO does not stall for ever. The transmit side
\* owes nothing: it may never take an echo payload.
Forward == ForwardRaw \/ ForwardDrop \/ StripSkip \/ StripBeat
Fairness ==
    /\ WF_vars(Pad) /\ WF_vars(SumAdj) /\ WF_vars(Classify)
    /\ WF_vars(Commit) /\ WF_vars(Descriptor) /\ WF_vars(Forward) /\ WF_vars(Flush)

Spec == Init /\ [][Next]_vars /\ Fairness

-----------------------------------------------------------------------------
\* Every register has its type.
TypeOK ==
    /\ state \in {"IDLE", "PAD", "SUM", "ADJ", "CLS", "EVAL", "DESC", "FWD", "FLUSH"}
    /\ frame \in Frames \cup {None} /\ beat \in Nat
    /\ cls \in [cand : BOOLEAN, echo : BOOLEAN, sock : BOOLEAN]
    /\ route \in {"RAW", "ECHO", "SOCK", "CHK", "DROP"} /\ desc \in BOOLEAN
    /\ first \in BOOLEAN /\ rem \in Nat /\ Len(carry) = CARRY
    /\ o.port \in {"RAW", "ECHO", "SOCK", "CHK"} /\ o.valid \in BOOLEAN
    /\ echoq \in Seq(BOOLEAN) /\ Len(echoq) <= RX_PATH_FIFO_BEATS
    /\ depth \in 0 .. RX_PATH_FIFO_BEATS /\ free \in 0 .. RX_PATH_FIFO_BEATS
    /\ emeta \in 0 .. ECHO_META_DEPTH /\ owed \in Nat

\* Each port gets the frame's bytes and no others: the whole frame on RAW, the
\* UDP payload (bytes 42 .. 42+plen-1, after a descriptor on SOCK) elsewhere,
\* whatever the frame's length, its padding and its trailing bytes; tlast is on
\* the last byte and nowhere else.
PayloadExact ==
    /\ o.valid => LET upto == sent + Len(o.bytes)
                  IN /\ upto <= Len(o.want)
                     /\ o.bytes = SubSeq(o.want, sent + 1, upto)
                     /\ o.last <=> upto = Len(o.want)
    /\ state = "IDLE" /\ ~o.valid => sent = 0

\* The echo FIFO "never fills: dispatch checks the room first", from a status
\* that is two cycles old: the output register never waits for it, and dispatch
\* never waits in EVAL for the metadata FIFO it found free in CLS.
NeverStalls ==
    /\ OFree
    /\ state = "EVAL" => CanCommit

\* The transmit side never holds a payload whose record has not been pushed.
RecordBeforePayload == owed <= emeta

\* A payload that was given way never waits in the middle, for the FIFO or for the
\* record's, and its echo record is there before it.
EchoReady == NeverStalls /\ RecordBeforePayload

\* No head-of-line blocking: every frame is dispatched, even if the transmit
\* side never takes an echo payload again.
NeverBlocked == state = "PAD" ~> state = "IDLE"
=============================================================================
