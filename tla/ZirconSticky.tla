----------------------------- MODULE ZirconSticky -----------------------------
(***************************************************************************)
(* The sticky error bits of zircon_regs: the event counters in the clock   *)
(* of the MAC (mac_rx for STATUS, mac_tx for LAT_STATUS), their crossing   *)
(* as whole words (zircon_cdc_snapshot), the comparison that turns a moved *)
(* counter into a bit, STAT_CLR, and the write that clears bits. A step is *)
(* one cycle of one of the two clocks.                                     *)
(***************************************************************************)
EXTENDS Integers, Sequences

CONSTANTS
    StatusBits,    \* RX_FIFO_OVF, RX_PACK_STALL, RX_PACK_OVF
    LatBits,       \* STALE, LOST, OVF
    CNT_MOD,       \* 2^32 (2^16 for the packer's): width of a counter
    CDC_DEPTH,     \* words in the crossing
    MaxEvents,     \* bound: events of a bit
    MaxClears      \* bound: STAT_CLR writes

\* What the constants have to be (assumed in StatsBlocks).
ZirconStickyAssumption ==
    /\ StatusBits \cap LatBits = {}
    /\ CNT_MOD \in Nat \ {0} /\ CDC_DEPTH \in Nat \ {0}
    /\ MaxEvents \in Nat /\ MaxClears \in Nat

Bits == StatusBits \cup LatBits

VARIABLES
    src,       \* the counters and, not in the hardware, the events ever: [cnt, ev]
    fifo,      \* words on their way
    word,      \* the register file's copy
    prev,      \* the copy of the cycle before
    sticky,    \* the bits that are set
    clrUi,     \* clr_toggle_reg
    clrSrc,    \* its copy in the MAC's clock
    clears,    \* STAT_CLR writes
    known      \* per bit, the events its register knew of when last cleared

vars == <<src, fifo, word, prev, sticky, clrUi, clrSrc, clears, known>>

NoEvents == [b \in Bits |-> [cnt |-> 0, ev |-> 0]]

Init ==
    /\ src = NoEvents /\ fifo = <<>> /\ word = NoEvents /\ prev = NoEvents
    /\ sticky = {}
    /\ clrUi = FALSE /\ clrSrc = FALSE /\ clears = 0
    /\ known = [b \in Bits |-> 0]

-----------------------------------------------------------------------------
(* The MAC's clock.                                                        *)

\* Any of the counters moves, or STAT_CLR zeroes them all (an event of that very
\* cycle is not counted anywhere).
CountEvents ==
    /\ \E e \in SUBSET {b \in Bits : src[b].ev < MaxEvents} :
          /\ e # {} \/ clrSrc # clrUi
          /\ src' = [b \in Bits |->
                [cnt |-> IF clrSrc # clrUi THEN 0
                         ELSE IF b \in e THEN (src[b].cnt + 1) % CNT_MOD ELSE src[b].cnt,
                 ev |-> IF b \in e /\ clrSrc = clrUi THEN src[b].ev + 1 ELSE src[b].ev]]
    /\ clrSrc' = clrUi
    /\ UNCHANGED <<fifo, word, prev, sticky, clrUi, clears, known>>

\* The crossing takes a word whenever it has room: words in between are skipped.
CrossIn ==
    /\ Len(fifo) < CDC_DEPTH
    /\ src # IF fifo = <<>> THEN word ELSE fifo[Len(fifo)]
    /\ fifo' = Append(fifo, src)
    /\ UNCHANGED <<src, word, prev, sticky, clrUi, clrSrc, clears, known>>

-----------------------------------------------------------------------------
(* The register file's clock.                                              *)

\* "the counter moved (ignoring the transition to 0 caused by STAT_CLR)".
Moved == {b \in Bits : word[b].cnt # prev[b].cnt /\ word[b].cnt # 0}

\* Fault seed: the bits of STATUS are written as one register, as those of
\* LAT_STATUS are.
StatusAfterWhole(w) ==
    IF w = {} THEN (sticky \cup Moved) \cap StatusBits
    ELSE (sticky \cap StatusBits) \ w

\* A write to STATUS clears the bits it names, a bit set in the same cycle too.
StatusAfter(w) == ((sticky \cup Moved) \cap StatusBits) \ w

\* A write to LAT_STATUS replaces the register by its old value less the bits it
\* names.
LatAfter(written, w) ==
    IF written THEN (sticky \cap LatBits) \ w
    ELSE (sticky \cup Moved) \cap LatBits

\* One cycle: at most one register is written; the next word may arrive.
RegCycle ==
    /\ \/ \* no write, or one to another register
          /\ sticky' = StatusAfter({}) \cup LatAfter(FALSE, {})
          /\ UNCHANGED <<clrUi, clears, known>>
       \/ \E w \in (SUBSET StatusBits) \ {{}} :
             /\ sticky' = StatusAfter(w) \cup LatAfter(FALSE, {})
             /\ known' = [b \in Bits |-> IF b \in w THEN word[b].ev ELSE known[b]]
             /\ UNCHANGED <<clrUi, clears>>
       \/ \E w \in (SUBSET LatBits) \ {{}} :
             /\ sticky' = StatusAfter({}) \cup LatAfter(TRUE, w)
             /\ known' = [b \in Bits |-> IF b \in w THEN word[b].ev ELSE known[b]]
             /\ UNCHANGED <<clrUi, clears>>
       \/ \* STAT_CLR: the toggle has crossed before it is written again
          /\ clears < MaxClears /\ clrSrc = clrUi
          /\ clrUi' = ~clrUi /\ clears' = clears + 1
          /\ sticky' = StatusAfter({}) \cup LatAfter(FALSE, {})
          /\ UNCHANGED known
    /\ prev' = word
    /\ \/ fifo # <<>> /\ word' = Head(fifo) /\ fifo' = Tail(fifo)
       \/ UNCHANGED <<word, fifo>>
    /\ UNCHANGED <<src, clrSrc>>

Next == CountEvents \/ CrossIn \/ RegCycle

Spec == Init /\ [][Next]_vars

-----------------------------------------------------------------------------
Words == [Bits -> [cnt : 0 .. CNT_MOD - 1, ev : 0 .. MaxEvents]]

\* The register file has seen an event newer than the last write that named its
\* bit.
Unseen(b) == prev[b].ev > known[b]

\* The counters have their width, and a bit is set only by an event newer than the
\* write that cleared it: the zeros of STAT_CLR, which cross like any other value,
\* set nothing.
NoFalseAlarm ==
    /\ src \in Words /\ word \in Words /\ prev \in Words
    /\ \A b \in sticky : prev[b].ev > known[b]

\* "The MAC-side receive FIFO dropped a frame": an event that reached the register
\* file is in its bit until software clears that bit, although words are skipped
\* and other bits are cleared at the same time, as long as no STAT_CLR is written.
StatusNotLost == clears = 0 => \A b \in StatusBits : Unseen(b) => b \in sticky

\* "LAT_STATUS b0 STALE, b1 LOST, b2 OVF (sticky, W1C; counters below moved)".
LatNotLost == clears = 0 => \A b \in LatBits : Unseen(b) => b \in sticky
=============================================================================
