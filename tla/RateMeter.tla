------------------------------ MODULE RateMeter ------------------------------
(***************************************************************************)
(* rate_meter core cycle by core cycle, with the counters it samples: the  *)
(* receive counts of the core clock and the transmit counts of the MAC's   *)
(* clock, which restart at 0 when the MAC's transmit side is reset and     *)
(* reach the meter as a coherent word, late and with words skipped.        *)
(***************************************************************************)
EXTENDS Integers

CONSTANTS
    WINDOW,       \* cycles of a window (one second)
    PRIME,        \* cycles before the first window (127)
    PKTS_MOD,     \* 2^32: width of the packet counts
    FrameBytes,   \* sizes of frames
    MaxBytes,     \* bound: bytes counted on each side
    MaxRestarts,  \* bound: resets of the MAC's transmit side
    MaxSeq        \* bound: windows

\* What the constants have to be (assumed in StatsBlocks).
RateMeterAssumption ==
    /\ WINDOW \in Nat /\ WINDOW >= 2 /\ PRIME \in Nat \ {0} /\ PKTS_MOD \in Nat \ {0}
    /\ FrameBytes \subseteq Nat \ {0}
    /\ MaxBytes \in Nat /\ MaxRestarts \in Nat /\ MaxSeq \in Nat

VARIABLES
    rx, tx,        \* cumulative counts [pkts, bytes], each in its clock
    txView,        \* the transmit counts as they reached the core clock
    cnt,           \* cnt_reg
    tick,          \* tick_reg
    prime,         \* prime_cnt_reg; PRIME once primed
    prev,          \* the counts at the last tick, [rx, tx]
    out,           \* the published window, [rx, tx]
    seq,           \* windows published
    unseen,        \* the transmit counts restarted and the core does not know
    wnd,           \* what the meter saw in the running window, [rx, tx]: since the
                   \* last tick, or since a restart that came later
    restarted,     \* a restart was seen in the running window
    last,          \* wnd of the window published last
    hidden,        \* in that window the counts restarted and passed their old value
    restarts

vars == <<rx, tx, txView, cnt, tick, prime, prev, out, seq, unseen, wnd,
          restarted, last, hidden, restarts>>

Zero == [pkts |-> 0, bytes |-> 0]
Both == [rx |-> Zero, tx |-> Zero]

Init ==
    /\ rx = Zero /\ tx = Zero /\ txView = Zero
    /\ cnt = 0 /\ tick = FALSE /\ prime = 0
    /\ prev = Both /\ out = Both /\ seq = 0
    /\ unseen = FALSE /\ wnd = Both /\ restarted = FALSE
    /\ last = Both /\ hidden = FALSE /\ restarts = 0

-----------------------------------------------------------------------------
Primed == prime = PRIME

Add(c, n) == IF n = 0 THEN c ELSE [pkts |-> (c.pkts + 1) % PKTS_MOD, bytes |-> c.bytes + n]

\* What a side's counts grew by.
Growth(from, to) ==
    [pkts |-> (to.pkts - from.pkts) % PKTS_MOD, bytes |-> to.bytes - from.bytes]

Sum(c, d) == [pkts |-> (c.pkts + d.pkts) % PKTS_MOD, bytes |-> c.bytes + d.bytes]

\* "A counter that went backwards was reset: report its count since then".
Difference(cum, before) ==
    IF cum.bytes < before.bytes THEN cum
    ELSE [pkts |-> (cum.pkts - before.pkts) % PKTS_MOD, bytes |-> cum.bytes - before.bytes]

\* The frames that end in this cycle. A restart of the transmit side zeroes its
\* counts; the core sees a newer word (fresh), or not yet.
Traffic(fresh) ==
    /\ \E n \in FrameBytes \cup {0} : rx.bytes + n <= MaxBytes /\ rx' = Add(rx, n)
    /\ txView' = IF fresh THEN tx ELSE txView
    /\ \/ \E n \in FrameBytes \cup {0} : tx.bytes + n <= MaxBytes /\ tx' = Add(tx, n)
          /\ unseen' = (unseen /\ ~fresh)
          /\ UNCHANGED restarts
       \/ /\ restarts < MaxRestarts
          /\ restarts' = restarts + 1
          /\ tx' = Zero /\ unseen' = TRUE

Window ==
    /\ tick' = (Primed /\ cnt = WINDOW - 2)
    /\ cnt' = IF ~Primed THEN cnt ELSE (cnt + 1) % WINDOW

\* The reference of the first window is taken when priming ends.
Priming == prime' = IF Primed THEN prime ELSE prime + 1

\* Fault seed: the reference is only taken at a tick.
ReferenceTickOnly == tick

Reference == tick \/ prime = PRIME - 1

Latch ==
    LET now == [rx |-> rx, tx |-> txView]
    IN /\ prev' = IF Reference THEN now ELSE prev
       /\ IF tick
          THEN /\ out' = [rx |-> Difference(now.rx, prev.rx), tx |-> Difference(now.tx, prev.tx)]
               /\ seq' = seq + 1
               /\ last' = wnd
               /\ hidden' = (restarted /\ now.tx.bytes >= prev.tx.bytes)
          ELSE UNCHANGED <<out, seq, last, hidden>>

\* A window begins where the last one ended, the first one when priming ends.
Begins == tick \/ (prime # PRIME /\ prime' = PRIME)

\* The meter's view of the counts changes at the clock edge.
Seen(fresh) ==
    LET start == IF Begins THEN Both ELSE wnd
        anew == unseen /\ fresh
    IN /\ wnd' = [rx |-> Sum(start.rx, Growth(rx, rx')),
                  tx |-> IF anew THEN txView' ELSE Sum(start.tx, Growth(txView, txView'))]
       /\ restarted' = (anew \/ (restarted /\ ~Begins))

Cycle ==
    /\ seq < MaxSeq
    /\ Window /\ Priming /\ Latch
    /\ \E fresh \in BOOLEAN : Traffic(fresh) /\ Seen(fresh)

Next == Cycle

Spec == Init /\ [][Next]_vars

-----------------------------------------------------------------------------
Counts == [pkts : 0 .. PKTS_MOD - 1, bytes : 0 .. MaxBytes]

\* Every register has its type; the window counter never runs past its window.
TypeOK ==
    /\ rx \in Counts /\ tx \in Counts /\ txView \in Counts
    /\ cnt \in 0 .. WINDOW - 1 /\ tick \in BOOLEAN /\ prime \in 0 .. PRIME
    /\ prev \in [rx : Counts, tx : Counts] /\ out \in [rx : Counts, tx : Counts]
    /\ seq \in 0 .. MaxSeq

\* Each published window has exactly the frames received between two ticks, the
\* first one between the end of priming and the first tick: no frame is counted
\* in two windows or in none.
RxWindowExact == out.rx = last.rx

\* The same of the frames sent, although their counts cross late, restart, and
\* restart in the middle of a window: a restart that left the byte count lower
\* than at the last tick is always noticed.
TxWindowExact == ~hidden => out.tx = last.tx

WindowsExact == RxWindowExact /\ TxWindowExact
=============================================================================
