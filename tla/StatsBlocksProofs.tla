-------------------------- MODULE StatsBlocksProofs --------------------------
(*******************************************************************************)
(* The statistics blocks: sticky bits, rate meter, reads by the register file  *)
(* and latency statistics, for every number of counters, bits, banks and bins, *)
(* every counter width, window, FIFO depth and event count. Each block has an  *)
(* invariant of its own; StatsBlocks runs one block and leaves the variables   *)
(* of the others alone.                                                        *)
(*   - Sticky bits: the words on their way from the MAC clock are ordered      *)
(*     (Follows), and a set bit has an event after the write that cleared it.  *)
(*   - Rate meter: what a window will report is the growth since the last      *)
(*     publication, modulo the width of the frame count (Since).               *)
(*   - Reads: the accesses answered, in flight and still planned are one plan  *)
(*     (Paired), and each answer, wherever it is, is that plan's (Answered).   *)
(*   - Latency statistics: a request is on its way, served or acknowledged,    *)
(*     one at a time, and the firmware polls meanwhile (Phases, Words); while  *)
(*     a snapshot is served the banks rest and every word passed is theirs     *)
(*     (Copied), no count goes down before the image is taken (Recent), every  *)
(*     bank not being swept adds up (Sums), and a bank swept for a clear has   *)
(*     only samples of the geometry set before it (Clean).                     *)
(*******************************************************************************)
EXTENDS StatsBlocks, TLAPS, FiniteSetTheorems, NaturalsInduction, WellFoundedInduction

(* The sticky bits.                                                         *)

\* Word y is not older than word x: no bit has fewer events, and one with no more
\* events has the same count, or 0 after a clear.
Follows(x, y) ==
    \A b \in Sticky!Bits : /\ x[b].ev <= y[b].ev
                           /\ x[b].ev = y[b].ev => y[b].cnt \in {x[b].cnt, 0}

\* The words are in the order they were taken, from the register file's last one back
\* to the MAC's, and each set bit has an event the firmware has not acknowledged.
StickyInv ==
    /\ src \in Sticky!Words /\ word \in Sticky!Words /\ prev \in Sticky!Words
    /\ fifo \in Seq(Sticky!Words)
    /\ sticky \subseteq Sticky!Bits /\ known \in [Sticky!Bits -> Nat]
    /\ clears \in Nat /\ clrUi \in BOOLEAN /\ clrSrc \in BOOLEAN
    /\ Follows(prev, word)
    /\ IF fifo = <<>> THEN Follows(word, src)
       ELSE /\ Follows(word, fifo[1]) /\ Follows(fifo[Len(fifo)], src)
            /\ \A i \in 1 .. Len(fifo) - 1 : Follows(fifo[i], fifo[i + 1])
    /\ \A b \in Sticky!Bits : known[b] <= prev[b].ev
    /\ \A b \in sticky : prev[b].ev > known[b]

\* Until the counters are first cleared, a count is the number of its events, and an
\* event of STATUS not acknowledged has set its bit.
CountsAll(x) == \A b \in Sticky!Bits : x[b].cnt = x[b].ev

NeverCleared ==
    clears = 0 =>
        /\ clrUi = FALSE /\ clrSrc = FALSE
        /\ CountsAll(src) /\ CountsAll(word) /\ CountsAll(prev)
        /\ \A i \in 1 .. Len(fifo) : CountsAll(fifo[i])
        /\ \A b \in StatusBits : Sticky!Unseen(b) => b \in sticky

-----------------------------------------------------------------------------
(* The rate meter.                                                          *)

\* The frames and bytes of one direction, the count of frames modulo its width.
Side == [pkts : 0 .. PKTS_MOD - 1, bytes : Nat]

\* The window w has what was counted between from and to.
Grown(from, to) == to.bytes >= from.bytes
Since(w, from, to) == to.bytes >= from.bytes /\ w = Meter!Growth(from, to)

\* Once primed, both windows have what was counted since the tick before; the transmit
\* side as far as the register file has seen it, from zero after a restart.
MeterInv ==
    /\ rx \in Side /\ tx \in Side /\ txView \in Side
    /\ prev.rx \in Side /\ prev.tx \in Side /\ wnd.rx \in Side /\ wnd.tx \in Side
    /\ prime \in 0 .. PRIME /\ tick \in BOOLEAN /\ unseen \in BOOLEAN /\ restarted \in BOOLEAN
    /\ cnt \in 0 .. WINDOW - 1
    /\ tick => prime = PRIME
    /\ ~unseen => tx.bytes >= txView.bytes
    /\ prime = PRIME =>
         /\ Since(wnd.rx, prev.rx, rx)
         /\ restarted => wnd.tx = txView
         /\ ~restarted => Since(wnd.tx, prev.tx, txView)
    /\ Meter!WindowsExact

-----------------------------------------------------------------------------
(* The reads.                                                               *)

\* Accesses of the read in progress that the bus has accepted.
Accepted == Reads!Accesses - Len(sw.todo)

\* The k-th access of a read is to address a.
Planned(k, a) ==
    CASE sw.kind[1] = "lo" -> a = IF k = 1 THEN Reads!Lo(sw.kind[2]) ELSE Reads!Hi(sw.kind[2])
      [] sw.kind[1] = "seq" -> IF k = 1 THEN a = Reads!Seq0 ELSE a[1] = "rate"
      [] sw.kind[1] = "sh" -> a = Reads!Shadow(k)

\* What the k-th access should answer: the halves of the number as it was at the start
\* of the read, the window's number, the words of the snapshot in order.
Answer(k) ==
    CASE sw.kind[1] = "lo" -> IF k = 1 THEN start % HALF ELSE start \div HALF
      [] sw.kind[1] = "seq" -> start
      [] sw.kind[1] = "sh" -> k

Addresses ==
    {Reads!Lo(c) : c \in Counters} \cup {Reads!Hi(c) : c \in Counters} \cup {Reads!Seq0}
        \cup {Reads!Rate(w) : w \in RateWords} \cup {Reads!Shadow(i) : i \in 1 .. 2}

Kinds == {Reads!NoAddr, Reads!Seq0, Reads!Shadow(1)} \cup {Reads!Lo(c) : c \in Counters}

ReadsTyped ==
    /\ live \in [Counters -> Nat] /\ window \in Nat
    /\ hold \in [Counters -> Nat] /\ rateHold \in Nat
    /\ rValid \in BOOLEAN /\ shPend \in BOOLEAN /\ rready \in BOOLEAN
    /\ rData \in Nat /\ ramQ \in Nat /\ start \in Nat
    /\ sw.kind \in Kinds /\ sw.got \in Seq(Nat)
    /\ sw.todo \in Seq(Addresses)
    /\ sw = [kind |-> sw.kind, todo |-> sw.todo, got |-> sw.got]

Quiet == ar = Reads!NoAddr /\ ~rValid /\ ~shPend

\* Each access accepted has its answer: with the firmware, in the response register, or
\* a cycle behind in the snapshot RAM; the address on the bus is the next one planned.
Paired ==
    /\ Accepted \in 0 .. Reads!Accesses
    /\ Accepted = Len(sw.got) + Reads!Count(rValid) + Reads!Count(shPend)
    /\ ~(rValid /\ shPend)
    /\ \A i \in 1 .. Len(sw.todo) : Planned(Accepted + i, sw.todo[i])
    /\ ar # Reads!NoAddr => sw.todo # <<>> /\ ar = sw.todo[1]

\* The answers are right wherever they are, and the hold registers keep the other half.
Answered ==
    /\ \A i \in 1 .. Len(sw.got) : sw.got[i] = Answer(i)
    /\ rValid => rData = Answer(Len(sw.got) + 1)
    /\ shPend => sw.kind[1] = "sh" /\ ramQ = Len(sw.got) + 1
    /\ sw.kind[1] = "lo" /\ Accepted >= 1 => hold[sw.kind[2]] = start \div HALF
    /\ sw.kind[1] = "seq" /\ Accepted >= 1 => rateHold = start

\* A read of a window gets its number before any word of it, and ends with the number.
NumberFirst ==
    sw.kind[1] = "seq" =>
        /\ sw.got = <<>> => Accepted <= 1 /\ (ar # Reads!NoAddr => ar = Reads!Seq0)
        /\ Reads!SameSeq(sw.got) => Len(sw.got) = 1 /\ Quiet

ReadsInv ==
    /\ ReadsTyped
    /\ sw.kind = Reads!NoAddr => sw = Reads!Rest /\ Quiet
    /\ sw.kind # Reads!NoAddr => Paired /\ Answered /\ NumberFirst

\* Each invariant is claimed of the block that runs.
StickyHolds == block = "sticky" => StickyInv
BitsKept == block = "sticky" => NeverCleared
MeterHolds == block = "rate" => MeterInv
ReadsHold == block = "reads" => ReadsInv

-----------------------------------------------------------------------------
LEMMA FollowsItself == ASSUME NEW x \in Sticky!Words PROVE Follows(x, x)
BY DEF Follows, Sticky!Words

LEMMA FollowsOn ==
    ASSUME NEW x \in Sticky!Words, NEW y \in Sticky!Words, NEW z \in Sticky!Words,
           Follows(x, y), Follows(y, z)
    PROVE  Follows(x, z)
BY DEF Follows, Sticky!Words

\* The last word that left the MAC's clock.
LastWord == IF fifo = <<>> THEN word ELSE fifo[Len(fifo)]

LEMMA EventsStep ==
    ASSUME StickyInv, Sticky!CountEvents
    PROVE  StickyInv' /\ Follows(src, src') /\ src' \in Sticky!Words
<1> USE DEF StickyInv
<1>1. PICK e \in SUBSET {b \in Sticky!Bits : src[b].ev < MaxEvents} :
        src' = [b \in Sticky!Bits |->
                [cnt |-> IF clrSrc # clrUi THEN 0
                         ELSE IF b \in e THEN (src[b].cnt + 1) % CNT_MOD ELSE src[b].cnt,
                 ev |-> IF b \in e /\ clrSrc = clrUi THEN src[b].ev + 1 ELSE src[b].ev]]
  BY DEF Sticky!CountEvents
<1>2. ASSUME NEW b \in Sticky!Bits
      PROVE  /\ src'[b] \in [cnt : 0 .. CNT_MOD - 1, ev : 0 .. MaxEvents]
             /\ src[b].ev <= src'[b].ev
             /\ src[b].ev = src'[b].ev => src'[b].cnt \in {src[b].cnt, 0}
  <2>1. src[b] \in [cnt : 0 .. CNT_MOD - 1, ev : 0 .. MaxEvents]
    BY DEF Sticky!Words
  <2>2. CNT_MOD \in Nat \ {0} /\ MaxEvents \in Nat
    BY StatsAssumption DEF Sticky!ZirconStickyAssumption
  <2>3. (src[b].cnt + 1) % CNT_MOD \in 0 .. CNT_MOD - 1
    BY <2>1, <2>2
  <2> QED BY <1>1, <2>1, <2>2, <2>3
<1>3. src' \in Sticky!Words
  BY <1>1, <1>2 DEF Sticky!Words
<1>4. Follows(src, src')
  BY <1>2 DEF Follows
<1>5. UNCHANGED <<fifo, word, prev, sticky, clrUi, clears, known>> /\ clrSrc' \in BOOLEAN
  BY DEF Sticky!CountEvents
<1>6. LastWord \in Sticky!Words /\ Follows(LastWord, src)
  BY DEF LastWord
<1>7. Follows(LastWord, src')
  BY <1>3, <1>4, <1>6, FollowsOn
<1> HIDE DEF StickyInv
<1>8. StickyInv'
  BY <1>3, <1>5, <1>7 DEF StickyInv, LastWord, Follows
<1> QED BY <1>3, <1>4, <1>8

LEMMA CrossStep == ASSUME StickyInv, Sticky!CrossIn PROVE StickyInv'
<1> DEFINE n == Len(fifo)
<1>1. /\ fifo' = Append(fifo, src) /\ UNCHANGED <<src, word, prev, sticky, clrUi, clrSrc, clears, known>>
  BY DEF Sticky!CrossIn
<1>2. fifo \in Seq(Sticky!Words) /\ src \in Sticky!Words
  BY DEF StickyInv
<1>3. /\ fifo' \in Seq(Sticky!Words) /\ fifo' # <<>> /\ Len(fifo') = n + 1 /\ fifo'[n + 1] = src
      /\ \A i \in 1 .. n : fifo'[i] = fifo[i]
  BY <1>1, <1>2
<1>4. Follows(src, src)
  BY <1>2, FollowsItself
<1>5. Follows(word, fifo'[1])
  BY <1>1, <1>2, <1>3 DEF StickyInv
<1>6. \A i \in 1 .. Len(fifo') - 1 : Follows(fifo'[i], fifo'[i + 1])
  <2> SUFFICES ASSUME NEW i \in 1 .. n PROVE Follows(fifo'[i], fifo'[i + 1])
    BY <1>2, <1>3
  <2>1. CASE i = n
    BY <1>2, <1>3, <2>1 DEF StickyInv
  <2>2. CASE i < n
    BY <1>2, <1>3, <2>2 DEF StickyInv
  <2> QED BY <1>2, <2>1, <2>2
<1> QED BY <1>1, <1>2, <1>3, <1>4, <1>5, <1>6 DEF StickyInv, Follows

\* A counter that moved, and not to 0, counted an event.
LEMMA MovedIsNews ==
    ASSUME StickyInv, NEW b \in Sticky!Moved
    PROVE  b \in Sticky!Bits /\ word[b].ev > prev[b].ev
<1>1. b \in Sticky!Bits /\ word[b].cnt # prev[b].cnt /\ word[b].cnt # 0
  BY DEF Sticky!Moved
<1>2. /\ word[b].ev \in Int /\ prev[b].ev \in Int
      /\ prev[b].ev <= word[b].ev
      /\ prev[b].ev = word[b].ev => word[b].cnt \in {prev[b].cnt, 0}
  BY <1>1 DEF StickyInv, Follows, Sticky!Words
<1> QED BY <1>1, <1>2

\* What one cycle of the register file does to a bit, whatever is written.
LEMMA RegBits ==
    ASSUME StickyInv, Sticky!RegCycle
    PROVE  /\ sticky' \subseteq Sticky!Bits /\ known' \in [Sticky!Bits -> Nat]
           /\ \A b \in Sticky!Bits : known'[b] \in {known[b], word[b].ev}
           /\ \A b \in sticky' : /\ b \in sticky \cup Sticky!Moved
                                 /\ known'[b] = known[b]
           /\ \A b \in StatusBits : /\ b \in sticky \cup Sticky!Moved
                                    /\ known'[b] = known[b]
                                    => b \in sticky' \/ known'[b] = word[b].ev
           /\ prev' = word /\ UNCHANGED <<src, clrSrc>>
<1>1. /\ Sticky!Moved \subseteq Sticky!Bits /\ sticky \subseteq Sticky!Bits
      /\ known \in [Sticky!Bits -> Nat] /\ \A b \in Sticky!Bits : word[b].ev \in Nat
      /\ StatusBits \subseteq Sticky!Bits /\ LatBits \subseteq Sticky!Bits
      /\ StatusBits \cap LatBits = {}
  <2>1. StatusBits \cap LatBits = {}
    BY StatsAssumption DEF Sticky!ZirconStickyAssumption
  <2> QED BY <2>1 DEF Sticky!Moved, StickyInv, Sticky!Words, Sticky!Bits
<1>2. prev' = word /\ UNCHANGED <<src, clrSrc>>
  BY DEF Sticky!RegCycle
<1>3. CASE /\ sticky' = Sticky!StatusAfter({}) \cup Sticky!LatAfter(FALSE, {})
           /\ UNCHANGED known
  BY <1>1, <1>2, <1>3 DEF Sticky!StatusAfter, Sticky!LatAfter, Sticky!Bits
<1>4. ASSUME NEW w \in SUBSET StatusBits,
             sticky' = Sticky!StatusAfter(w) \cup Sticky!LatAfter(FALSE, {}),
             known' = [b \in Sticky!Bits |-> IF b \in w THEN word[b].ev ELSE known[b]]
      PROVE  /\ sticky' \subseteq Sticky!Bits /\ known' \in [Sticky!Bits -> Nat]
             /\ \A b \in Sticky!Bits : known'[b] \in {known[b], word[b].ev}
             /\ \A b \in sticky' : b \in sticky \cup Sticky!Moved /\ known'[b] = known[b]
             /\ \A b \in StatusBits : b \in sticky \cup Sticky!Moved
                                      => b \in sticky' \/ known'[b] = word[b].ev
  BY <1>1, <1>4 DEF Sticky!StatusAfter, Sticky!LatAfter, Sticky!Bits
<1>5. ASSUME NEW w \in SUBSET LatBits,
             sticky' = Sticky!StatusAfter({}) \cup Sticky!LatAfter(TRUE, w),
             known' = [b \in Sticky!Bits |-> IF b \in w THEN word[b].ev ELSE known[b]]
      PROVE  /\ sticky' \subseteq Sticky!Bits /\ known' \in [Sticky!Bits -> Nat]
             /\ \A b \in Sticky!Bits : known'[b] \in {known[b], word[b].ev}
             /\ \A b \in sticky' : b \in sticky \cup Sticky!Moved /\ known'[b] = known[b]
             /\ \A b \in StatusBits : b \in sticky \cup Sticky!Moved => b \in sticky'
  BY <1>1, <1>5 DEF Sticky!StatusAfter, Sticky!LatAfter, Sticky!Bits
<1> QED BY <1>2, <1>3, <1>4, <1>5 DEF Sticky!RegCycle

\* The words stay in order when one arrives.
LEMMA WordsInOrder ==
    ASSUME StickyInv, Sticky!RegCycle
    PROVE  /\ word' \in Sticky!Words /\ Follows(word, word')
           /\ fifo' \in Seq(Sticky!Words)
           /\ IF fifo' = <<>> THEN Follows(word', src)
              ELSE /\ Follows(word', fifo'[1]) /\ Follows(fifo'[Len(fifo')], src)
                   /\ \A i \in 1 .. Len(fifo') - 1 : Follows(fifo'[i], fifo'[i + 1])
<1>1. fifo \in Seq(Sticky!Words) /\ word \in Sticky!Words /\ Follows(word, word)
  BY FollowsItself DEF StickyInv
<1>2. CASE UNCHANGED <<word, fifo>>
  BY <1>1, <1>2 DEF StickyInv
<1>3. CASE fifo # <<>> /\ word' = Head(fifo) /\ fifo' = Tail(fifo)
  <2>1. /\ word' = fifo[1] /\ fifo' \in Seq(Sticky!Words) /\ Len(fifo') = Len(fifo) - 1
        /\ \A i \in 1 .. Len(fifo) - 1 : fifo'[i] = fifo[i + 1]
        /\ Len(fifo) \in Nat \ {0} /\ word' \in Sticky!Words
    BY <1>1, <1>3
  <2>2. /\ Follows(word, fifo[1]) /\ Follows(fifo[Len(fifo)], src)
        /\ \A i \in 1 .. Len(fifo) - 1 : Follows(fifo[i], fifo[i + 1])
    BY <1>3 DEF StickyInv
  <2>3. CASE Len(fifo) = 1
    <3>1. fifo' = <<>>
      BY <2>1, <2>3
    <3> QED BY <2>1, <2>2, <2>3, <3>1
  <2>4. CASE Len(fifo) > 1
    <3>1. fifo' # <<>> /\ fifo'[1] = fifo[2] /\ fifo'[Len(fifo')] = fifo[Len(fifo)]
      BY <2>1, <2>4
    <3>2. Follows(fifo[1], fifo[2])
      BY <2>2, <2>4
    <3>3. ASSUME NEW i \in 1 .. Len(fifo') - 1 PROVE Follows(fifo'[i], fifo'[i + 1])
      BY <2>1, <2>2, <2>4
    <3> QED BY <2>1, <2>2, <3>1, <3>2, <3>3
  <2> QED BY <2>1, <2>3, <2>4
<1> QED BY <1>2, <1>3 DEF Sticky!RegCycle

LEMMA RegStep == ASSUME StickyInv, Sticky!RegCycle PROVE StickyInv'
<1>1. /\ sticky' \subseteq Sticky!Bits /\ known' \in [Sticky!Bits -> Nat]
      /\ prev' = word /\ UNCHANGED <<src, clrSrc>>
  BY RegBits
<1>2. ASSUME NEW b \in Sticky!Bits
      PROVE  /\ prev[b].ev \in Nat /\ word[b].ev \in Nat /\ known[b] \in Nat
             /\ prev[b].ev <= word[b].ev /\ known[b] <= prev[b].ev
             /\ b \in sticky => prev[b].ev > known[b]
  BY DEF StickyInv, Sticky!Words, Follows
<1>3. ASSUME NEW b \in Sticky!Bits PROVE known'[b] <= prev'[b].ev
  <2>1. known'[b] \in {known[b], word[b].ev}
    BY RegBits
  <2> QED BY <1>1, <1>2, <2>1
<1>4. ASSUME NEW b \in sticky' PROVE prev'[b].ev > known'[b]
  <2>1. b \in Sticky!Bits /\ b \in sticky \cup Sticky!Moved /\ known'[b] = known[b]
    BY <1>1, RegBits
  <2>2. b \in Sticky!Moved => word[b].ev > prev[b].ev
    BY MovedIsNews
  <2> QED BY <1>1, <1>2, <2>1, <2>2
<1>5. clears' \in Nat /\ clrUi' \in BOOLEAN /\ clrSrc' \in BOOLEAN
  <2>1. clears \in Nat /\ clrUi \in BOOLEAN /\ clrSrc \in BOOLEAN
    BY DEF StickyInv
  <2>2. /\ UNCHANGED <<clrUi, clears>> \/ (clrUi' = ~clrUi /\ clears' = clears + 1)
        /\ clrSrc' = clrSrc
    BY DEF Sticky!RegCycle
  <2>3. clears' \in Nat
    BY <2>1, <2>2
  <2>4. clrUi' \in BOOLEAN
    BY <2>1, <2>2, Zenon
  <2> QED BY <2>1, <2>2, <2>3, <2>4
<1>6. src \in Sticky!Words /\ word \in Sticky!Words
  BY DEF StickyInv
<1> QED BY <1>1, <1>3, <1>4, <1>5, <1>6, WordsInOrder DEF StickyInv

-----------------------------------------------------------------------------
(* No STATUS bit is lost while no counter makes a full turn.                *)

LEMMA EventsCounted ==
    ASSUME MaxEvents < CNT_MOD, StickyInv, NeverCleared, Sticky!CountEvents
    PROVE  NeverCleared'
<1>1. SUFFICES ASSUME clears = 0 PROVE NeverCleared'
  BY DEF NeverCleared, Sticky!CountEvents
<1>2. PICK e \in SUBSET {b \in Sticky!Bits : src[b].ev < MaxEvents} :
        src' = [b \in Sticky!Bits |->
                [cnt |-> IF clrSrc # clrUi THEN 0
                         ELSE IF b \in e THEN (src[b].cnt + 1) % CNT_MOD ELSE src[b].cnt,
                 ev |-> IF b \in e /\ clrSrc = clrUi THEN src[b].ev + 1 ELSE src[b].ev]]
  BY DEF Sticky!CountEvents
<1>3. clrUi = FALSE /\ clrSrc = FALSE /\ CountsAll(src)
  BY <1>1 DEF NeverCleared
<1>4. ASSUME NEW b \in Sticky!Bits PROVE src'[b].cnt = src'[b].ev
  <2>1. src[b] \in [cnt : 0 .. CNT_MOD - 1, ev : 0 .. MaxEvents] /\ src[b].cnt = src[b].ev
    BY <1>3 DEF StickyInv, Sticky!Words, CountsAll
  <2>2. CNT_MOD \in Nat \ {0} /\ MaxEvents \in Nat
    BY StatsAssumption DEF Sticky!ZirconStickyAssumption
  <2>3. CASE b \in e
    <3>1. src[b].ev + 1 \in 0 .. CNT_MOD - 1
      BY <1>2, <2>1, <2>2, <2>3
    <3>2. (src[b].cnt + 1) % CNT_MOD = src[b].ev + 1
      BY <2>1, <2>2, <3>1
    <3> QED BY <1>2, <1>3, <2>3, <3>2
  <2>4. CASE b \notin e
    BY <1>2, <1>3, <2>1, <2>4
  <2> QED BY <2>3, <2>4
<1>5. /\ UNCHANGED <<fifo, word, prev, sticky, clrUi, clears, known>> /\ clrSrc' = clrUi
  BY DEF Sticky!CountEvents
<1>6. CountsAll(src')
  BY <1>4 DEF CountsAll
<1> QED BY <1>1, <1>3, <1>5, <1>6 DEF NeverCleared, CountsAll, Sticky!Unseen

LEMMA CrossingCounted == ASSUME StickyInv, NeverCleared, Sticky!CrossIn PROVE NeverCleared'
<1>1. /\ fifo' = Append(fifo, src) /\ UNCHANGED <<src, word, prev, sticky, clrUi, clrSrc, clears, known>>
      /\ fifo \in Seq(Sticky!Words)
  BY DEF Sticky!CrossIn, StickyInv
<1>2. /\ Len(fifo') = Len(fifo) + 1 /\ fifo'[Len(fifo) + 1] = src
      /\ \A i \in 1 .. Len(fifo) : fifo'[i] = fifo[i]
  BY <1>1
<1>3. SUFFICES ASSUME clears = 0 PROVE NeverCleared'
  BY <1>1 DEF NeverCleared
<1>4. ASSUME NEW i \in 1 .. Len(fifo') PROVE CountsAll(fifo'[i])
  <2>1. CASE i = Len(fifo) + 1
    BY <1>2, <1>3, <2>1 DEF NeverCleared
  <2>2. CASE i # Len(fifo) + 1
    <3>1. i \in 1 .. Len(fifo)
      BY <1>1, <1>2, <2>2
    <3> QED BY <1>2, <1>3, <3>1 DEF NeverCleared
  <2> QED BY <2>1, <2>2
<1> QED BY <1>1, <1>3, <1>4 DEF NeverCleared, CountsAll, Sticky!Unseen

LEMMA RegCounted == ASSUME StickyInv, NeverCleared, Sticky!RegCycle PROVE NeverCleared'
<1>1. clears \in Nat /\ (UNCHANGED <<clrUi, clears>> \/ clears' = clears + 1)
  BY DEF StickyInv, Sticky!RegCycle
<1>2. SUFFICES ASSUME clears' = 0 PROVE NeverCleared'
  BY DEF NeverCleared
<1>3. clears = 0 /\ clrUi' = clrUi
  BY <1>1, <1>2
<1>4. /\ clrUi = FALSE /\ clrSrc = FALSE
      /\ CountsAll(src) /\ CountsAll(word) /\ CountsAll(prev)
      /\ \A i \in 1 .. Len(fifo) : CountsAll(fifo[i])
  BY <1>3 DEF NeverCleared
<1>5. prev' = word /\ UNCHANGED <<src, clrSrc>> /\ fifo \in Seq(Sticky!Words)
  BY DEF Sticky!RegCycle, StickyInv
<1>6. CountsAll(word') /\ \A i \in 1 .. Len(fifo') : CountsAll(fifo'[i])
  <2>1. CASE UNCHANGED <<word, fifo>>
    BY <1>4, <2>1
  <2>2. CASE fifo # <<>> /\ word' = Head(fifo) /\ fifo' = Tail(fifo)
    <3>1. /\ word' = fifo[1] /\ 1 \in 1 .. Len(fifo) /\ Len(fifo') = Len(fifo) - 1
          /\ \A i \in 1 .. Len(fifo) - 1 : fifo'[i] = fifo[i + 1] /\ i + 1 \in 1 .. Len(fifo)
      BY <1>5, <2>2
    <3> QED BY <1>4, <3>1
  <2> QED BY <2>1, <2>2 DEF Sticky!RegCycle
<1>7. ASSUME NEW b \in StatusBits, word[b].ev > known'[b] PROVE b \in sticky'
  <2>1. b \in Sticky!Bits
    BY DEF Sticky!Bits
  <2>2. /\ prev[b].ev \in Nat /\ word[b].ev \in Nat /\ known[b] \in Nat
        /\ known[b] <= prev[b].ev /\ prev[b].ev <= word[b].ev
    BY <2>1 DEF StickyInv, Sticky!Words, Follows
  <2>3. known'[b] = known[b]
    <3>1. known'[b] \in {known[b], word[b].ev}
      BY <2>1, RegBits
    <3> QED BY <1>7, <2>2, <3>1
  <2>4. CASE prev[b].ev > known[b]
    <3>1. b \in sticky
      BY <1>3, <2>4 DEF NeverCleared, Sticky!Unseen
    <3> QED BY <1>7, <2>2, <2>3, <3>1, RegBits
  <2>5. CASE prev[b].ev = known[b]
    <3>1. word[b].cnt = word[b].ev /\ prev[b].cnt = prev[b].ev
      BY <1>4, <2>1 DEF CountsAll
    <3>2. b \in Sticky!Moved
      BY <1>7, <2>1, <2>2, <2>3, <2>5, <3>1 DEF Sticky!Moved
    <3> QED BY <1>7, <2>2, <2>3, <3>2, RegBits
  <2> QED BY <2>2, <2>4, <2>5
<1> QED BY <1>2, <1>3, <1>4, <1>5, <1>6, <1>7 DEF NeverCleared, CountsAll, Sticky!Unseen

-----------------------------------------------------------------------------
(* The rate meter: what the counts grow by, modulo their width.             *)

LEMMA MeterConsts ==
    /\ PKTS_MOD \in Nat \ {0} /\ PRIME \in Nat \ {0} /\ WINDOW \in Nat /\ WINDOW >= 2
    /\ FrameBytes \subseteq Nat \ {0}
BY StatsAssumption DEF Meter!RateMeterAssumption

LEMMA Wrapped ==
    ASSUME NEW C \in Nat \ {0}, NEW y \in (0 - C) .. C - 1
    PROVE  y % C = IF y >= 0 THEN y ELSE y + C
OBVIOUS

LEMMA Stepped ==
    ASSUME NEW C \in Nat \ {0}, NEW x \in 0 .. C - 1, NEW d \in 0 .. C
    PROVE  (x + d) % C = IF x + d < C THEN x + d ELSE x + d - C
OBVIOUS

\* Growth goes on where it stopped.
LEMMA GrowthAdds ==
    ASSUME NEW C \in Nat \ {0}, NEW a \in 0 .. C - 1, NEW b \in 0 .. C - 1, NEW c \in 0 .. C - 1
    PROVE  /\ (((b - a) % C) + ((c - b) % C)) % C = (c - a) % C
           /\ (a + ((c - a) % C)) % C = c
           /\ (0 + ((b - a) % C)) % C = (b - a) % C
           /\ (b - a) % C \in 0 .. C - 1
<1> DEFINE x == (b - a) % C
           y == (c - b) % C
           z == (c - a) % C
<1>1. /\ x = IF b - a >= 0 THEN b - a ELSE b - a + C
      /\ y = IF c - b >= 0 THEN c - b ELSE c - b + C
      /\ z = IF c - a >= 0 THEN c - a ELSE c - a + C
  <2>1. b - a \in (0 - C) .. C - 1 /\ c - b \in (0 - C) .. C - 1 /\ c - a \in (0 - C) .. C - 1
    OBVIOUS
  <2> QED BY <2>1, Wrapped
<1> HIDE DEF x, y, z
<1>2. x \in 0 .. C - 1 /\ y \in 0 .. C - 1 /\ z \in 0 .. C - 1
  BY <1>1
<1>3. /\ (x + y) % C = IF x + y < C THEN x + y ELSE x + y - C
      /\ (a + z) % C = IF a + z < C THEN a + z ELSE a + z - C
      /\ (0 + x) % C = IF 0 + x < C THEN 0 + x ELSE 0 + x - C
  <2>1. 0 \in 0 .. C - 1 /\ x \in 0 .. C /\ y \in 0 .. C /\ z \in 0 .. C
    BY <1>2
  <2> QED BY <1>2, <2>1, Stepped
<1>4. (x + y) % C = z /\ (a + z) % C = c /\ (0 + x) % C = x
  BY <1>1, <1>2, <1>3
<1> QED BY <1>2, <1>4 DEF x, y, z

LEMMA SumsOfGrowth ==
    ASSUME NEW a \in Side, NEW b \in Side, NEW c \in Side
    PROVE  /\ Meter!Sum(Meter!Growth(a, b), Meter!Growth(b, c)) = Meter!Growth(a, c)
           /\ Meter!Sum(a, Meter!Growth(a, c)) = c
           /\ Meter!Sum(Meter!Zero, Meter!Growth(a, b)) = Meter!Growth(a, b)
           /\ b.bytes >= a.bytes => Meter!Growth(a, b) \in Side
<1>1. /\ a.pkts \in 0 .. PKTS_MOD - 1 /\ b.pkts \in 0 .. PKTS_MOD - 1 /\ c.pkts \in 0 .. PKTS_MOD - 1
      /\ a.bytes \in Nat /\ b.bytes \in Nat /\ c.bytes \in Nat
      /\ c = [pkts |-> c.pkts, bytes |-> c.bytes]
  BY DEF Side
<1>2. /\ (((b.pkts - a.pkts) % PKTS_MOD) + ((c.pkts - b.pkts) % PKTS_MOD)) % PKTS_MOD = (c.pkts - a.pkts) % PKTS_MOD
      /\ (a.pkts + ((c.pkts - a.pkts) % PKTS_MOD)) % PKTS_MOD = c.pkts
      /\ (0 + ((b.pkts - a.pkts) % PKTS_MOD)) % PKTS_MOD = (b.pkts - a.pkts) % PKTS_MOD
      /\ (b.pkts - a.pkts) % PKTS_MOD \in 0 .. PKTS_MOD - 1
  BY <1>1, MeterConsts, GrowthAdds
<1>3. /\ (b.bytes - a.bytes) + (c.bytes - b.bytes) = c.bytes - a.bytes
      /\ a.bytes + (c.bytes - a.bytes) = c.bytes
      /\ 0 + (b.bytes - a.bytes) = b.bytes - a.bytes
      /\ b.bytes >= a.bytes => b.bytes - a.bytes \in Nat
  BY <1>1
<1>4. Meter!Sum(Meter!Growth(a, b), Meter!Growth(b, c)) = Meter!Growth(a, c)
  BY <1>2, <1>3 DEF Meter!Sum, Meter!Growth
<1>5. Meter!Sum(a, Meter!Growth(a, c)) = c
  BY <1>1, <1>2, <1>3 DEF Meter!Sum, Meter!Growth
<1>6. Meter!Sum(Meter!Zero, Meter!Growth(a, b)) = Meter!Growth(a, b)
  BY <1>2, <1>3 DEF Meter!Sum, Meter!Growth, Meter!Zero
<1>7. b.bytes >= a.bytes => Meter!Growth(a, b) \in Side
  BY <1>2, <1>3 DEF Meter!Growth, Side
<1> QED BY <1>4, <1>5, <1>6, <1>7

\* What the counts of both sides do in a cycle.
Moves(fresh) ==
    /\ rx' \in Side /\ tx' \in Side /\ txView' \in Side
    /\ rx'.bytes >= rx.bytes
    /\ unseen' \in BOOLEAN
    /\ ~unseen' => tx'.bytes >= txView'.bytes
    /\ ~(unseen /\ fresh) => txView'.bytes >= txView.bytes

LEMMA Added ==
    ASSUME NEW c \in Side, NEW n \in FrameBytes \cup {0}
    PROVE  Meter!Add(c, n) \in Side /\ Meter!Add(c, n).bytes >= c.bytes
<1>1. c.pkts \in 0 .. PKTS_MOD - 1 /\ c.bytes \in Nat /\ n \in Nat
  BY MeterConsts DEF Side
<1>2. (c.pkts + 1) % PKTS_MOD \in 0 .. PKTS_MOD - 1
  BY <1>1, MeterConsts
<1> QED BY <1>1, <1>2 DEF Side, Meter!Add

LEMMA TrafficMoves ==
    ASSUME MeterInv, NEW fresh \in BOOLEAN, Meter!Traffic(fresh)
    PROVE  Moves(fresh)
<1>1. /\ rx \in Side /\ tx \in Side /\ txView \in Side /\ unseen \in BOOLEAN
      /\ ~unseen => tx.bytes >= txView.bytes
  BY DEF MeterInv
<1>2. /\ \E n \in FrameBytes \cup {0} : rx' = Meter!Add(rx, n)
      /\ txView' = IF fresh THEN tx ELSE txView
  BY DEF Meter!Traffic
<1>3. rx' \in Side /\ rx'.bytes >= rx.bytes
  BY <1>1, <1>2, Added
<1>4. /\ tx.bytes \in Nat /\ txView.bytes \in Nat /\ txView' \in Side
      /\ ~(unseen /\ fresh) => txView'.bytes >= txView.bytes
  BY <1>1, <1>2 DEF Side
<1>5. CASE \E n \in FrameBytes \cup {0} : tx' = Meter!Add(tx, n) /\ unseen' = (unseen /\ ~fresh)
  <2>1. tx' \in Side /\ tx'.bytes >= tx.bytes /\ tx'.bytes \in Nat
    <3>1. PICK n \in FrameBytes \cup {0} : tx' = Meter!Add(tx, n)
      BY <1>5
    <3> QED BY <1>1, <3>1, Added DEF Side
  <2>2. unseen' \in BOOLEAN /\ (~unseen' => ~unseen \/ fresh)
    BY <1>5
  <2>3. ~unseen' => tx'.bytes >= txView'.bytes
    BY <1>1, <1>2, <1>4, <2>1, <2>2
  <2> QED BY <1>3, <1>4, <2>1, <2>2, <2>3 DEF Moves
<1>6. CASE tx' = Meter!Zero /\ unseen' = TRUE
  <2>1. tx' \in Side
    BY <1>6, MeterConsts DEF Meter!Zero, Side
  <2> QED BY <1>3, <1>4, <1>6, <2>1 DEF Moves
<1> QED BY <1>5, <1>6 DEF Meter!Traffic

LEMMA Difference ==
    ASSUME NEW from \in Side, NEW to \in Side
    PROVE  /\ to.bytes >= from.bytes => Meter!Difference(to, from) = Meter!Growth(from, to)
           /\ to.bytes < from.bytes => Meter!Difference(to, from) = to
<1>1. to.bytes \in Nat /\ from.bytes \in Nat
  BY DEF Side
<1> QED BY <1>1 DEF Meter!Difference, Meter!Growth

LEMMA RegistersStep ==
    ASSUME MeterInv, Meter!Window, Meter!Priming
    PROVE  /\ prime' \in 0 .. PRIME /\ tick' \in BOOLEAN /\ cnt' \in 0 .. WINDOW - 1
           /\ tick' => prime' = PRIME
           /\ prime' = PRIME => prime = PRIME \/ (prime # PRIME /\ prime = PRIME - 1)
           /\ prime = PRIME - 1 => prime # PRIME /\ prime' = PRIME
<1>1. prime \in 0 .. PRIME /\ cnt \in 0 .. WINDOW - 1
  BY DEF MeterInv
<1>2. prime' = IF prime = PRIME THEN prime ELSE prime + 1
  BY DEF Meter!Priming, Meter!Primed
<1>3. cnt' \in 0 .. WINDOW - 1
  <2>1. (cnt + 1) % WINDOW \in 0 .. WINDOW - 1
    BY <1>1, MeterConsts
  <2> QED BY <1>1, <2>1 DEF Meter!Window
<1>4. tick' = (prime = PRIME /\ cnt = WINDOW - 2)
  BY DEF Meter!Window, Meter!Primed
<1>5. tick' \in BOOLEAN /\ (tick' => prime = PRIME)
  BY <1>4, Zenon
<1>6. /\ prime' \in 0 .. PRIME
      /\ prime' = PRIME => prime = PRIME \/ (prime # PRIME /\ prime = PRIME - 1)
      /\ prime = PRIME - 1 => prime # PRIME /\ prime' = PRIME
  BY <1>1, <1>2, MeterConsts
<1> QED BY <1>2, <1>3, <1>5, <1>6

\* A tick publishes what was seen since the last one.
LEMMA PublishStep ==
    ASSUME MeterInv, Meter!Latch
    PROVE  Meter!WindowsExact'
<1>1. CASE ~tick
  <2>1. UNCHANGED <<out, last, hidden>>
    BY <1>1 DEF Meter!Latch
  <2> QED BY <2>1 DEF MeterInv, Meter!WindowsExact, Meter!RxWindowExact, Meter!TxWindowExact
<1>2. CASE tick
  <2>1. /\ out'.rx = Meter!Difference(rx, prev.rx) /\ out'.tx = Meter!Difference(txView, prev.tx)
        /\ last' = wnd
        /\ hidden' = (restarted /\ txView.bytes >= prev.tx.bytes)
    BY <1>2 DEF Meter!Latch
  <2>2. /\ rx \in Side /\ txView \in Side /\ prev.rx \in Side /\ prev.tx \in Side
        /\ restarted \in BOOLEAN /\ prime = PRIME
    BY <1>2 DEF MeterInv
  <2>3. /\ Since(wnd.rx, prev.rx, rx)
        /\ restarted => wnd.tx = txView
        /\ ~restarted => Since(wnd.tx, prev.tx, txView)
    BY <2>2 DEF MeterInv
  <2>4. out'.rx = last'.rx
    BY <2>1, <2>2, <2>3, Difference DEF Since
  <2>5. ~hidden' => out'.tx = last'.tx
    <3>1. ASSUME restarted, ~(txView.bytes >= prev.tx.bytes) PROVE out'.tx = last'.tx
      <4>1. txView.bytes < prev.tx.bytes
        BY <2>2, <3>1 DEF Side
      <4> QED BY <2>1, <2>2, <2>3, <3>1, <4>1, Difference
    <3>2. ASSUME ~restarted PROVE out'.tx = last'.tx
      BY <2>1, <2>2, <2>3, <3>2, Difference DEF Since
    <3> QED BY <2>1, <3>1, <3>2
  <2> QED BY <2>4, <2>5 DEF Meter!WindowsExact, Meter!RxWindowExact, Meter!TxWindowExact
<1> QED BY <1>1, <1>2

LEMMA MeterStepKept ==
    ASSUME MeterInv, Meter!Cycle
    PROVE  MeterInv'
<1>1. Meter!Window /\ Meter!Priming /\ Meter!Latch
  BY DEF Meter!Cycle
<1>2. PICK fresh \in BOOLEAN : Meter!Traffic(fresh) /\ Meter!Seen(fresh)
  BY DEF Meter!Cycle
<1>3. Moves(fresh)
  BY <1>2, TrafficMoves
<1> DEFINE anew == unseen /\ fresh
           begin == IF Meter!Begins THEN Meter!Both ELSE wnd
<1>4. /\ wnd'.rx = Meter!Sum(begin.rx, Meter!Growth(rx, rx'))
      /\ wnd'.tx = IF anew THEN txView' ELSE Meter!Sum(begin.tx, Meter!Growth(txView, txView'))
      /\ restarted' = (anew \/ (restarted /\ ~Meter!Begins))
  BY <1>2 DEF Meter!Seen
<1>5. /\ rx \in Side /\ tx \in Side /\ txView \in Side /\ prev.rx \in Side /\ prev.tx \in Side
      /\ wnd.rx \in Side /\ wnd.tx \in Side /\ restarted \in BOOLEAN /\ unseen \in BOOLEAN
      /\ tick => prime = PRIME
  BY DEF MeterInv
<1>6. /\ rx' \in Side /\ txView' \in Side /\ rx'.bytes >= rx.bytes
      /\ ~anew => txView'.bytes >= txView.bytes
  BY <1>3 DEF Moves
<1>7. restarted' \in BOOLEAN
  BY <1>4, Zenon
<1>8. begin.rx \in Side /\ begin.tx \in Side
  BY <1>5, MeterConsts DEF Meter!Both, Meter!Zero, Side
<1>9. ASSUME NEW a \in Side, NEW g \in Side PROVE Meter!Sum(a, g) \in Side
  <2>1. /\ a.pkts \in 0 .. PKTS_MOD - 1 /\ g.pkts \in 0 .. PKTS_MOD - 1
        /\ a.bytes \in Nat /\ g.bytes \in Nat
    BY DEF Side
  <2>2. (a.pkts + g.pkts) % PKTS_MOD \in 0 .. PKTS_MOD - 1
    BY <2>1, MeterConsts
  <2> QED BY <2>1, <2>2 DEF Meter!Sum, Side
<1>10. wnd'.rx \in Side /\ wnd'.tx \in Side
  <2>1. Meter!Growth(rx, rx') \in Side /\ (~anew => Meter!Growth(txView, txView') \in Side)
    BY <1>5, <1>6, SumsOfGrowth
  <2> QED BY <1>4, <1>6, <1>8, <1>9, <2>1
<1>11. /\ prime' \in 0 .. PRIME /\ tick' \in BOOLEAN /\ cnt' \in 0 .. WINDOW - 1
       /\ tick' => prime' = PRIME
       /\ prime' = PRIME => prime = PRIME \/ (prime # PRIME /\ prime = PRIME - 1)
       /\ prime = PRIME - 1 => prime # PRIME /\ prime' = PRIME
  BY <1>1, RegistersStep
<1>12. prev'.rx \in Side /\ prev'.tx \in Side
  BY <1>1, <1>5 DEF Meter!Latch
<1>13. ASSUME prime' = PRIME
       PROVE  /\ Since(wnd'.rx, prev'.rx, rx')
              /\ restarted' => wnd'.tx = txView'
              /\ ~restarted' => Since(wnd'.tx, prev'.tx, txView')
  <2>1. CASE Meter!Begins
    <3>1. tick \/ prime = PRIME - 1
      BY <1>11, <1>13, <2>1 DEF Meter!Begins
    <3>2. prev'.rx = rx /\ prev'.tx = txView
      BY <1>1, <3>1 DEF Meter!Latch, Meter!Reference
    <3>3. begin.rx = Meter!Zero /\ begin.tx = Meter!Zero
      BY <2>1 DEF Meter!Both
    <3>4. wnd'.rx = Meter!Growth(rx, rx')
      BY <1>4, <1>5, <1>6, <3>3, SumsOfGrowth
    <3>5. ~anew => wnd'.tx = Meter!Growth(txView, txView')
      BY <1>4, <1>5, <1>6, <3>3, SumsOfGrowth
    <3> QED BY <1>4, <1>6, <2>1, <3>2, <3>4, <3>5 DEF Since
  <2>2. CASE ~Meter!Begins
    <3>1. prime = PRIME /\ ~tick /\ prime # PRIME - 1
      BY <1>11, <1>13, <2>2, MeterConsts DEF Meter!Begins
    <3>2. prev' = prev
      BY <1>1, <3>1 DEF Meter!Latch, Meter!Reference
    <3>3. /\ Since(wnd.rx, prev.rx, rx)
          /\ restarted => wnd.tx = txView
          /\ ~restarted => Since(wnd.tx, prev.tx, txView)
      BY <3>1 DEF MeterInv
    <3>4. /\ rx.bytes \in Nat /\ rx'.bytes \in Nat /\ prev.rx.bytes \in Nat
          /\ txView.bytes \in Nat /\ txView'.bytes \in Nat /\ prev.tx.bytes \in Nat
      BY <1>5, <1>6 DEF Side
    <3>5. wnd'.rx = Meter!Growth(prev.rx, rx')
      BY <1>4, <1>5, <1>6, <2>2, <3>3, SumsOfGrowth DEF Since
    <3>6. ASSUME ~anew, restarted PROVE wnd'.tx = txView'
      BY <1>4, <1>5, <1>6, <2>2, <3>3, <3>6, SumsOfGrowth
    <3>7. ASSUME ~anew, ~restarted PROVE Since(wnd'.tx, prev.tx, txView')
      <4>1. wnd'.tx = Meter!Growth(prev.tx, txView')
        BY <1>4, <1>5, <1>6, <2>2, <3>3, <3>7, SumsOfGrowth DEF Since
      <4> QED BY <1>6, <3>3, <3>4, <3>7, <4>1 DEF Since
    <3>8. Since(wnd'.rx, prev'.rx, rx')
      BY <1>6, <3>2, <3>3, <3>4, <3>5 DEF Since
    <3> QED BY <1>4, <2>2, <3>2, <3>6, <3>7, <3>8
  <2> QED BY <2>1, <2>2
<1>14. Meter!WindowsExact'
  BY <1>1, PublishStep
<1> QED BY <1>3, <1>7, <1>10, <1>11, <1>12, <1>13, <1>14 DEF MeterInv, Moves

-----------------------------------------------------------------------------
(* The reads. An address is told by its first part.                         *)

LEMMA ReadsConsts == HALF \in Nat \ {0}
BY StatsAssumption DEF Reads!ZirconReadsAssumption

LEMMA AddressKinds ==
    ASSUME NEW a \in Addresses
    PROVE  /\ a # Reads!NoAddr
           /\ a[1] \in {"lo", "hi", "seq", "rate", "sh"}
           /\ a[1] = "lo" => a = Reads!Lo(a[2]) /\ a[2] \in Counters
           /\ a[1] = "hi" => a = Reads!Hi(a[2]) /\ a[2] \in Counters
           /\ a[1] = "seq" => a = Reads!Seq0
           /\ a[1] = "sh" => a[2] \in Nat
BY DEF Addresses, Reads!Lo, Reads!Hi, Reads!Seq0, Reads!Rate, Reads!Shadow, Reads!NoAddr

LEMMA ReadKinds ==
    ASSUME NEW k \in Kinds
    PROVE  /\ k[1] \in {"none", "lo", "seq", "sh"}
           /\ k[1] = "none" <=> k = Reads!NoAddr
           /\ k[1] = "seq" <=> k = Reads!Seq0
           /\ k[1] = "lo" => k = Reads!Lo(k[2]) /\ k[2] \in Counters
           /\ k[1] = "sh" => k = Reads!Shadow(1)
BY DEF Kinds, Reads!Lo, Reads!Seq0, Reads!Shadow, Reads!NoAddr

LEMMA AddressParts ==
    /\ \A c : Reads!Lo(c)[1] = "lo" /\ Reads!Lo(c)[2] = c /\ Reads!Hi(c)[1] = "hi" /\ Reads!Hi(c)[2] = c
    /\ Reads!Seq0[1] = "seq" /\ Reads!NoAddr[1] = "none"
    /\ \A i : Reads!Shadow(i)[1] = "sh" /\ Reads!Shadow(i)[2] = i
BY DEF Reads!Lo, Reads!Hi, Reads!Seq0, Reads!Shadow, Reads!NoAddr

\* The two halves of a number make the number.
LEMMA Halves ==
    ASSUME NEW n \in Nat, NEW h \in Nat \ {0}
    PROVE  (n \div h) * h + (n % h) = n /\ n \div h \in Nat /\ n % h \in Nat
OBVIOUS

LEMMA StartStep == ASSUME ReadsInv, Reads!StartRead PROVE ReadsInv'
<1>1. /\ sw.kind = Reads!NoAddr /\ Quiet
      /\ UNCHANGED <<live, window, hold, rateHold, ar, rValid, rData, shPend, ramQ, rready, start, lastSeq>>
      /\ \/ \E c \in Counters : sw' = [kind |-> Reads!Lo(c), todo |-> <<Reads!Lo(c), Reads!Hi(c)>>, got |-> <<>>]
         \/ \E q \in [1 .. 2 -> RateWords] :
               sw' = [kind |-> Reads!Seq0, todo |-> <<Reads!Seq0, Reads!Rate(q[1]), Reads!Rate(q[2])>>, got |-> <<>>]
         \/ sw' = [kind |-> Reads!Shadow(1), todo |-> <<Reads!Shadow(1), Reads!Shadow(2)>>, got |-> <<>>]
  BY DEF Reads!StartRead, Reads!Orders, Reads!regVars, ReadsInv, Reads!Rest
<1>2. ReadsTyped /\ ar = Reads!NoAddr /\ rValid = FALSE /\ shPend = FALSE
  BY <1>1 DEF ReadsInv, ReadsTyped, Quiet
<1>3. /\ sw'.kind \in Kinds /\ sw'.kind # Reads!NoAddr /\ sw'.got = <<>>
      /\ sw'.todo \in Seq(Addresses)
      /\ sw' = [kind |-> sw'.kind, todo |-> sw'.todo, got |-> sw'.got]
      /\ Accepted' = 0 /\ Reads!Accesses' \in {2, 3}
      /\ \A i \in 1 .. Len(sw'.todo) : Planned(i, sw.todo[i])'
  <2>1. CASE \E c \in Counters : sw' = [kind |-> Reads!Lo(c), todo |-> <<Reads!Lo(c), Reads!Hi(c)>>, got |-> <<>>]
    <3>1. PICK c \in Counters : sw' = [kind |-> Reads!Lo(c), todo |-> <<Reads!Lo(c), Reads!Hi(c)>>, got |-> <<>>]
      BY <2>1
    <3>2. /\ Reads!Lo(c) \in Addresses /\ Reads!Hi(c) \in Addresses /\ Reads!Lo(c) \in Kinds
          /\ Reads!Lo(c) # Reads!Seq0 /\ Reads!Lo(c) # Reads!NoAddr
          /\ Reads!Lo(c)[1] = "lo" /\ Reads!Lo(c)[2] = c
      BY DEF Addresses, Kinds, Reads!Lo, Reads!Hi, Reads!Seq0, Reads!NoAddr
    <3>3. /\ sw'.kind = Reads!Lo(c) /\ sw'.todo = <<Reads!Lo(c), Reads!Hi(c)>> /\ sw'.got = <<>>
      BY <3>1
    <3>4. /\ sw' = [kind |-> sw'.kind, todo |-> sw'.todo, got |-> sw'.got]
          /\ sw'.todo \in Seq(Addresses) /\ Len(sw'.todo) = 2
      <4>1. sw' = [kind |-> sw'.kind, todo |-> sw'.todo, got |-> sw'.got]
        BY <3>1
      <4>2. sw'.todo \in Seq(Addresses) /\ Len(sw'.todo) = 2
        BY <3>2, <3>3
      <4> QED BY <4>1, <4>2
    <3>5. Accepted' = 0 /\ Reads!Accesses' = 2
      BY <3>2, <3>3, <3>4 DEF Accepted, Reads!Accesses
    <3>6. ASSUME NEW i \in 1 .. 2 PROVE Planned(i, sw.todo[i])'
      <4>1. sw'.kind[1] = "lo" /\ sw'.kind[2] = c /\ sw'.todo[1] = Reads!Lo(c) /\ sw'.todo[2] = Reads!Hi(c)
        BY <3>2, <3>3
      <4>2. i \in {1, 2}
        OBVIOUS
      <4> QED BY <4>1, <4>2 DEF Planned
    <3> QED BY <3>2, <3>3, <3>4, <3>5, <3>6
  <2>2. CASE \E q \in [1 .. 2 -> RateWords] :
               sw' = [kind |-> Reads!Seq0, todo |-> <<Reads!Seq0, Reads!Rate(q[1]), Reads!Rate(q[2])>>, got |-> <<>>]
    <3>1. PICK q \in [1 .. 2 -> RateWords] :
               sw' = [kind |-> Reads!Seq0, todo |-> <<Reads!Seq0, Reads!Rate(q[1]), Reads!Rate(q[2])>>, got |-> <<>>]
      BY <2>2
    <3>2. /\ Reads!Seq0 \in Addresses /\ Reads!Rate(q[1]) \in Addresses /\ Reads!Rate(q[2]) \in Addresses
          /\ Reads!Seq0 \in Kinds /\ Reads!Seq0 # Reads!NoAddr /\ Reads!Seq0[1] = "seq"
          /\ Reads!Rate(q[1])[1] = "rate" /\ Reads!Rate(q[2])[1] = "rate"
      BY DEF Addresses, Kinds, Reads!Rate, Reads!Seq0, Reads!NoAddr
    <3>3. /\ sw'.kind = Reads!Seq0 /\ sw'.got = <<>>
          /\ sw'.todo = <<Reads!Seq0, Reads!Rate(q[1]), Reads!Rate(q[2])>>
      BY <3>1
    <3>4. /\ sw' = [kind |-> sw'.kind, todo |-> sw'.todo, got |-> sw'.got]
          /\ sw'.todo \in Seq(Addresses) /\ Len(sw'.todo) = 3
      <4>1. sw' = [kind |-> sw'.kind, todo |-> sw'.todo, got |-> sw'.got]
        BY <3>1
      <4>2. sw'.todo \in Seq(Addresses) /\ Len(sw'.todo) = 3
        BY <3>2, <3>3
      <4> QED BY <4>1, <4>2
    <3>5. Accepted' = 0 /\ Reads!Accesses' = 3
      BY <3>2, <3>3, <3>4 DEF Accepted, Reads!Accesses
    <3>6. ASSUME NEW i \in 1 .. 3 PROVE Planned(i, sw.todo[i])'
      <4>1. sw'.kind[1] = "seq" /\ sw'.todo[1] = Reads!Seq0 /\ sw'.todo[2][1] = "rate" /\ sw'.todo[3][1] = "rate"
        BY <3>2, <3>3
      <4>2. i \in {1, 2, 3}
        OBVIOUS
      <4> QED BY <4>1, <4>2 DEF Planned
    <3> QED BY <3>2, <3>3, <3>4, <3>5, <3>6
  <2>3. CASE sw' = [kind |-> Reads!Shadow(1), todo |-> <<Reads!Shadow(1), Reads!Shadow(2)>>, got |-> <<>>]
    <3>2. /\ Reads!Shadow(1) \in Addresses /\ Reads!Shadow(2) \in Addresses /\ Reads!Shadow(1) \in Kinds
          /\ Reads!Shadow(1) # Reads!Seq0 /\ Reads!Shadow(1) # Reads!NoAddr
          /\ Reads!Shadow(1)[1] = "sh"
      BY DEF Addresses, Kinds, Reads!Shadow, Reads!Seq0, Reads!NoAddr
    <3>3. /\ sw'.kind = Reads!Shadow(1) /\ sw'.todo = <<Reads!Shadow(1), Reads!Shadow(2)>> /\ sw'.got = <<>>
      BY <2>3
    <3>4. /\ sw' = [kind |-> sw'.kind, todo |-> sw'.todo, got |-> sw'.got]
          /\ sw'.todo \in Seq(Addresses) /\ Len(sw'.todo) = 2
      <4>1. sw' = [kind |-> sw'.kind, todo |-> sw'.todo, got |-> sw'.got]
        BY <2>3
      <4>2. sw'.todo \in Seq(Addresses) /\ Len(sw'.todo) = 2
        BY <3>2, <3>3
      <4> QED BY <4>1, <4>2
    <3>5. Accepted' = 0 /\ Reads!Accesses' = 2
      BY <3>2, <3>3, <3>4 DEF Accepted, Reads!Accesses
    <3>6. ASSUME NEW i \in 1 .. 2 PROVE Planned(i, sw.todo[i])'
      <4>1. sw'.kind[1] = "sh" /\ sw'.todo[1] = Reads!Shadow(1) /\ sw'.todo[2] = Reads!Shadow(2)
        BY <3>2, <3>3
      <4>2. i \in {1, 2}
        OBVIOUS
      <4> QED BY <4>1, <4>2 DEF Planned
    <3> QED BY <3>2, <3>3, <3>4, <3>5, <3>6
  <2> QED BY <1>1, <2>1, <2>2, <2>3
<1>4. ReadsTyped'
  BY <1>1, <1>2, <1>3 DEF ReadsTyped
<1>5. Paired'
  BY <1>1, <1>2, <1>3 DEF Paired, Reads!Count
<1>6. Answered' /\ NumberFirst'
  BY <1>1, <1>2, <1>3 DEF Answered, NumberFirst, Reads!SameSeq
<1> QED BY <1>3, <1>4, <1>5, <1>6 DEF ReadsInv

LEMMA ArriveStep == ASSUME ReadsInv, Reads!WordArrives PROVE ReadsInv'
<1>1. /\ live' \in [Counters -> Nat] /\ window' \in Nat
      /\ UNCHANGED <<hold, rateHold, ar, rValid, rData, shPend, ramQ, rready, sw, start, lastSeq>>
  <2>1. live \in [Counters -> Nat] /\ window \in Nat
    BY DEF ReadsInv, ReadsTyped
  <2>2. UNCHANGED <<hold, rateHold, ar, rValid, rData, shPend, ramQ, rready, sw, start, lastSeq>>
    BY DEF Reads!WordArrives, Reads!regVars
  <2>3. \/ UNCHANGED window /\ \E c \in Counters : live' = [live EXCEPT ![c] = @ + 1]
        \/ UNCHANGED live /\ window' = window + 1
    BY DEF Reads!WordArrives
  <2> QED BY <2>1, <2>2, <2>3
<1>2. ReadsTyped'
  BY <1>1 DEF ReadsInv, ReadsTyped
<1>3. (sw.kind = Reads!NoAddr => sw = Reads!Rest /\ Quiet)'
  BY <1>1 DEF ReadsInv, Quiet
<1>4. (sw.kind # Reads!NoAddr => Paired)'
  BY <1>1 DEF ReadsInv, Paired, Accepted, Planned, Reads!Accesses
<1>5. (sw.kind # Reads!NoAddr => Answered)'
  BY <1>1 DEF ReadsInv, Answered, Accepted, Answer, Reads!Accesses
<1>6. (sw.kind # Reads!NoAddr => NumberFirst)'
  BY <1>1 DEF ReadsInv, NumberFirst, Quiet, Accepted, Reads!Accesses, Reads!SameSeq
<1> QED BY <1>2, <1>3, <1>4, <1>5, <1>6 DEF ReadsInv

LEMMA FinishStep == ASSUME ReadsInv, Reads!FinishRead PROVE ReadsInv'
<1>1. /\ sw' = Reads!Rest /\ start' = 0
      /\ UNCHANGED <<live, window, hold, rateHold, ar, rValid, rData, shPend, ramQ, rready>>
      /\ sw # Reads!Rest /\ (Len(sw.got) = Reads!Accesses \/ Reads!SameSeq(sw.got))
  BY DEF Reads!FinishRead, Reads!Complete, Reads!regVars
<1>2. ReadsTyped /\ sw.kind # Reads!NoAddr /\ Paired /\ NumberFirst
  BY <1>1 DEF ReadsInv
<1>3. Quiet
  <2>1. CASE Len(sw.got) = Reads!Accesses
    <3>1. /\ Len(sw.todo) \in Nat /\ Len(sw.got) \in Nat /\ Reads!Accesses \in Nat
          /\ Reads!Count(rValid) \in {0, 1} /\ Reads!Count(shPend) \in {0, 1}
      BY <1>2 DEF ReadsTyped, Reads!Accesses, Reads!Count
    <3>2. Reads!Count(rValid) = 0 /\ Reads!Count(shPend) = 0 /\ Len(sw.todo) = 0
      BY <1>2, <2>1, <3>1 DEF Paired, Accepted
    <3>3. sw.todo = <<>>
      BY <1>2, <3>2 DEF ReadsTyped
    <3> QED BY <1>2, <3>2, <3>3 DEF Paired, Quiet, Reads!Count
  <2>2. CASE Reads!SameSeq(sw.got)
    BY <1>2, <2>2, AddressParts DEF NumberFirst, Reads!SameSeq
  <2> QED BY <1>1, <2>1, <2>2
<1>4. ReadsTyped'
  BY <1>1, <1>2 DEF ReadsTyped, Reads!Rest, Kinds
<1> QED BY <1>1, <1>3, <1>4 DEF ReadsInv, Reads!Rest, Quiet

-----------------------------------------------------------------------------
(* One cycle of the bus.                                                    *)

\* The access of the cycle, if one is accepted, is the next one planned, and no
\* response is under way.
LEMMA AcceptedNext ==
    ASSUME ReadsInv, sw.kind # Reads!NoAddr, Reads!DoRead
    PROVE  /\ ~rValid /\ ~shPend /\ sw.todo # <<>> /\ ar = sw.todo[1] /\ ar \in Addresses
           /\ Accepted = Len(sw.got) /\ Planned(Accepted + 1, ar)
           /\ Tail(sw.todo) \in Seq(Addresses) /\ Len(Tail(sw.todo)) = Len(sw.todo) - 1
           /\ \A i \in 1 .. Len(Tail(sw.todo)) : Tail(sw.todo)[i] = sw.todo[i + 1]
<1>1. ReadsTyped /\ Paired
  BY DEF ReadsInv
<1>2. ~rValid /\ ~shPend /\ sw.todo # <<>> /\ ar = sw.todo[1]
  BY <1>1 DEF Reads!DoRead, Paired
<1>3. sw.todo \in Seq(Addresses) /\ sw.got \in Seq(Nat)
  BY <1>1 DEF ReadsTyped
<1>4. Accepted = Len(sw.got) /\ Planned(Accepted + 1, ar)
  <2>1. Accepted = Len(sw.got)
    BY <1>1, <1>2, <1>3 DEF Paired, Reads!Count
  <2>2. 1 \in 1 .. Len(sw.todo)
    BY <1>2, <1>3
  <2>3. Planned(Accepted + 1, sw.todo[1])
    BY <1>1, <2>2 DEF Paired
  <2> QED BY <1>2, <2>1, <2>3
<1> QED BY <1>2, <1>3, <1>4

\* What a cycle of the bus leaves alone, and the accesses left.
LEMMA BusFrame ==
    ASSUME ReadsInv, NEW issue \in BOOLEAN, NEW ready \in BOOLEAN, Reads!BusCycle(issue, ready)
    PROVE  /\ sw.kind # Reads!NoAddr /\ ReadsTyped /\ Paired /\ Answered /\ NumberFirst
           /\ ~Reads!SameSeq(sw.got)
           /\ sw'.kind = sw.kind /\ sw'.todo = Reads!Left
           /\ sw'.got = IF Reads!Taken THEN Append(sw.got, rData) ELSE sw.got
           /\ sw' = [kind |-> sw.kind, todo |-> sw'.todo, got |-> sw'.got]
           /\ UNCHANGED <<live, window, lastSeq>> /\ rready' = ready
<1>1. sw # Reads!Rest /\ ~Reads!SameSeq(sw.got)
  BY DEF Reads!BusCycle, Reads!Complete
<1>2. sw.kind # Reads!NoAddr /\ ReadsTyped /\ Paired /\ Answered /\ NumberFirst
  BY <1>1 DEF ReadsInv
<1>3. /\ sw' = [sw EXCEPT !.todo = Reads!Left, !.got = IF Reads!Taken THEN Append(@, rData) ELSE @]
      /\ UNCHANGED <<live, window, lastSeq>> /\ rready' = ready
  BY DEF Reads!BusCycle, Reads!Master
<1>4. sw = [kind |-> sw.kind, todo |-> sw.todo, got |-> sw.got]
  BY <1>2 DEF ReadsTyped
<1> DEFINE g == IF Reads!Taken THEN Append(sw.got, rData) ELSE sw.got
<1>5. sw' = [kind |-> sw.kind, todo |-> Reads!Left, got |-> g]
  BY <1>3, <1>4
<1> HIDE DEF g
<1>6. sw'.kind = sw.kind /\ sw'.todo = Reads!Left /\ sw'.got = g
  BY <1>5
<1> QED BY <1>1, <1>2, <1>3, <1>5, <1>6 DEF g

\* What the registers answer to the access that is accepted.
LEMMA AnswerRead ==
    ASSUME ReadsInv, NEW issue \in BOOLEAN, NEW ready \in BOOLEAN, Reads!BusCycle(issue, ready),
           Reads!DoRead, NEW k \in Nat, k = Accepted + 1
    PROVE  /\ hold' \in [Counters -> Nat] /\ rateHold' \in Nat /\ start' \in Nat
           /\ Reads!IsShadow <=> sw.kind[1] = "sh"
           /\ Reads!IsShadow => ar[2] = k
           /\ ~Reads!IsShadow => Reads!ReadValue = Answer(k)' /\ Reads!ReadValue \in Nat
           /\ sw.kind[1] = "lo" => hold'[sw.kind[2]] = start' \div HALF
           /\ sw.kind[1] = "seq" => rateHold' = start'
           /\ Accepted >= 1 => start' = start
<1>1. /\ sw.kind # Reads!NoAddr /\ ReadsTyped /\ Paired /\ Answered /\ sw'.kind = sw.kind
  BY BusFrame
<1>2. /\ ar \in Addresses /\ Planned(Accepted + 1, ar) /\ Accepted = Len(sw.got)
  BY <1>1, AcceptedNext
<1>3. /\ live \in [Counters -> Nat] /\ window \in Nat /\ hold \in [Counters -> Nat] /\ rateHold \in Nat
      /\ start \in Nat /\ sw.kind \in Kinds /\ Accepted \in Nat /\ HALF \in Nat \ {0}
  BY <1>1, <1>2, ReadsConsts DEF ReadsTyped
<1>4. /\ hold' = IF ar[1] = "lo" THEN [hold EXCEPT ![ar[2]] = live[ar[2]] \div HALF] ELSE hold
      /\ rateHold' = IF ar[1] = "seq" THEN window ELSE rateHold
      /\ start' = CASE ar[1] = "lo" -> live[ar[2]]
                    [] ar[1] = "seq" -> window
                    [] OTHER -> start
  BY DEF Reads!BusCycle, Reads!HoldWords, Reads!Master
<1>5. ar # Reads!NoAddr
  BY <1>2, AddressKinds
<1>6. CASE sw.kind[1] = "lo"
  <2>1. /\ sw.kind[2] \in Counters /\ sw.kind = Reads!Lo(sw.kind[2])
    BY <1>3, <1>6, ReadKinds
  <2> DEFINE c == sw.kind[2]
  <2>2. ar = IF Accepted + 1 = 1 THEN Reads!Lo(c) ELSE Reads!Hi(c)
    BY <1>2, <1>6 DEF Planned
  <2>3. CASE Accepted = 0
    <3>1. ar[1] = "lo" /\ ar[2] = c
      BY <1>3, <2>2, <2>3, AddressParts
    <3>2. /\ hold' = [hold EXCEPT ![c] = live[c] \div HALF] /\ rateHold' = rateHold
          /\ start' = live[c] /\ Reads!ReadValue = live[c] % HALF /\ ~Reads!IsShadow
      BY <1>4, <3>1 DEF Reads!ReadValue, Reads!IsShadow
    <3>3. live[c] \in Nat /\ live[c] \div HALF \in Nat /\ live[c] % HALF \in Nat
      BY <1>3, <2>1, Halves
    <3>4. Answer(k)' = start' % HALF
      BY <1>1, <1>3, <1>6, <2>3 DEF Answer
    <3> QED BY <1>3, <1>6, <2>1, <2>3, <3>2, <3>3, <3>4
  <2>4. CASE Accepted # 0
    <3>1. ar[1] = "hi" /\ ar[2] = c /\ Accepted >= 1
      BY <1>3, <2>2, <2>4, AddressParts
    <3>2. /\ hold' = hold /\ rateHold' = rateHold
          /\ start' = start /\ Reads!ReadValue = hold[c] /\ ~Reads!IsShadow
      BY <1>4, <3>1 DEF Reads!ReadValue, Reads!IsShadow
    <3>3. hold[c] = start \div HALF
      BY <1>1, <1>6, <3>1 DEF Answered
    <3>4. Answer(k)' = start' \div HALF
      BY <1>1, <1>3, <1>6, <2>4 DEF Answer
    <3> QED BY <1>3, <1>6, <2>1, <2>4, <3>2, <3>3, <3>4
  <2> QED BY <2>3, <2>4
<1>7. CASE sw.kind[1] = "seq"
  <2>1. IF Accepted + 1 = 1 THEN ar = Reads!Seq0 ELSE ar[1] = "rate"
    BY <1>2, <1>7 DEF Planned
  <2>2. Answer(k)' = start'
    BY <1>1, <1>7 DEF Answer
  <2>3. CASE Accepted = 0
    <3>1. ar[1] = "seq"
      BY <1>3, <2>1, <2>3, AddressParts
    <3>2. /\ hold' = hold /\ rateHold' = window
          /\ start' = window /\ Reads!ReadValue = window /\ ~Reads!IsShadow
      BY <1>4, <3>1 DEF Reads!ReadValue, Reads!IsShadow
    <3> QED BY <1>3, <1>7, <2>2, <2>3, <3>2
  <2>4. CASE Accepted # 0
    <3>1. ar[1] = "rate" /\ Accepted >= 1
      BY <1>3, <2>1, <2>4
    <3>2. /\ hold' = hold /\ rateHold' = rateHold
          /\ start' = start /\ Reads!ReadValue = rateHold /\ ~Reads!IsShadow
      BY <1>4, <3>1 DEF Reads!ReadValue, Reads!IsShadow
    <3>3. rateHold = start
      BY <1>1, <1>7, <3>1 DEF Answered
    <3> QED BY <1>3, <1>7, <2>2, <2>4, <3>2, <3>3
  <2> QED BY <2>3, <2>4
<1>8. CASE sw.kind[1] = "sh"
  <2>1. ar = Reads!Shadow(Accepted + 1)
    BY <1>2, <1>8 DEF Planned
  <2>2. ar[1] = "sh" /\ ar[2] = k
    BY <2>1, AddressParts
  <2>3. hold' = hold /\ rateHold' = rateHold /\ start' = start /\ Reads!IsShadow
    BY <1>4, <1>5, <2>2 DEF Reads!IsShadow
  <2> QED BY <1>3, <1>8, <2>2, <2>3
<1> QED BY <1>1, <1>3, <1>6, <1>7, <1>8, ReadKinds

\* A cycle accepts an access, hands the snapshot RAM's answer on, delivers an answer,
\* or changes nothing but the address.
Accepts ==
    /\ Reads!DoRead /\ sw'.todo = Tail(sw.todo) /\ sw'.got = sw.got
    /\ IF Reads!IsShadow THEN shPend' = TRUE /\ rValid' = FALSE /\ ramQ' = ar[2]
       ELSE shPend' = FALSE /\ rValid' = TRUE /\ rData' = Reads!ReadValue

Quietly == ~Reads!DoRead /\ sw'.todo = sw.todo /\ UNCHANGED <<hold, rateHold, start>> /\ shPend' = FALSE

HandsOn == Quietly /\ shPend /\ ~rValid /\ rValid' = TRUE /\ rData' = ramQ /\ sw'.got = sw.got

Delivers == Quietly /\ ~shPend /\ rValid /\ rValid' = FALSE /\ sw'.got = Append(sw.got, rData)

Idles == Quietly /\ ~shPend /\ rValid' = rValid /\ rData' = rData /\ sw'.got = sw.got

LEMMA BusOutcomes ==
    ASSUME ReadsInv, NEW issue \in BOOLEAN, NEW ready \in BOOLEAN, Reads!BusCycle(issue, ready)
    PROVE  Accepts \/ HandsOn \/ Delivers \/ Idles
<1>1. /\ sw.kind # Reads!NoAddr /\ ReadsTyped /\ Paired
      /\ sw'.todo = Reads!Left
      /\ sw'.got = IF Reads!Taken THEN Append(sw.got, rData) ELSE sw.got
  BY BusFrame
<1>2. rValid \in BOOLEAN /\ shPend \in BOOLEAN /\ ~(rValid /\ shPend)
  BY <1>1 DEF ReadsTyped, Paired
<1>3. /\ shPend' = (Reads!DoRead /\ Reads!IsShadow)
      /\ rValid' = ((rValid /\ ~Reads!Taken) \/ shPend \/ (Reads!DoRead /\ ~Reads!IsShadow))
      /\ rData' = IF Reads!DoRead /\ ~Reads!IsShadow THEN Reads!ReadValue
                  ELSE IF shPend THEN ramQ ELSE rData
      /\ ramQ' = IF Reads!IsShadow THEN ar[2] ELSE 0
  BY DEF Reads!BusCycle, Reads!Response, Reads!RamRead
<1>4. /\ hold' = IF Reads!DoRead /\ ar[1] = "lo" THEN [hold EXCEPT ![ar[2]] = live[ar[2]] \div HALF] ELSE hold
      /\ rateHold' = IF Reads!DoRead /\ ar[1] = "seq" THEN window ELSE rateHold
      /\ start' = CASE Reads!DoRead /\ ar[1] = "lo" -> live[ar[2]]
                    [] Reads!DoRead /\ ar[1] = "seq" -> window
                    [] OTHER -> start
  BY DEF Reads!BusCycle, Reads!HoldWords, Reads!Master
<1>5. CASE Reads!DoRead
  <2>1. ~rValid /\ ~shPend
    BY <1>1, <1>5, AcceptedNext
  <2>2. ~Reads!Taken /\ Reads!Left = Tail(sw.todo)
    BY <1>5, <2>1 DEF Reads!Taken, Reads!Left
  <2>3. IF Reads!IsShadow THEN shPend' = TRUE /\ rValid' = FALSE
        ELSE shPend' = FALSE /\ rValid' = TRUE
    BY <1>3, <1>5, <2>1, <2>2
  <2> QED BY <1>1, <1>3, <1>5, <2>2, <2>3 DEF Accepts
<1>6. CASE ~Reads!DoRead
  <2>1. Quietly
    <3>1. hold' = hold /\ rateHold' = rateHold /\ start' = start
      BY <1>4, <1>6
    <3>2. sw'.todo = sw.todo
      BY <1>1, <1>6 DEF Reads!Left
    <3>3. shPend' = FALSE
      BY <1>3, <1>6, Zenon
    <3> QED BY <1>6, <3>1, <3>2, <3>3 DEF Quietly
  <2>2. rValid' = ((rValid /\ ~Reads!Taken) \/ shPend) /\ rData' = IF shPend THEN ramQ ELSE rData
    BY <1>3, <1>6, Zenon
  <2>3. CASE shPend
    <3>1. ~rValid /\ ~Reads!Taken
      BY <1>2, <2>3 DEF Reads!Taken
    <3> QED BY <1>1, <2>1, <2>2, <2>3, <3>1 DEF HandsOn
  <2>4. CASE ~shPend /\ Reads!Taken
    <3>1. rValid
      BY <2>4 DEF Reads!Taken
    <3> QED BY <1>1, <2>1, <2>2, <2>4, <3>1 DEF Delivers
  <2>5. CASE ~shPend /\ ~Reads!Taken
    <3>1. rValid' = rValid
      BY <1>2, <2>2, <2>5, Zenon
    <3> QED BY <1>1, <2>1, <2>2, <2>5, <3>1 DEF Idles
  <2> QED BY <2>3, <2>4, <2>5
<1> QED BY <1>5, <1>6

\* The address a cycle leaves on the bus.
LEMMA BusAddress ==
    ASSUME ReadsInv, NEW issue \in BOOLEAN, NEW ready \in BOOLEAN, Reads!BusCycle(issue, ready)
    PROVE  \/ ar' = ar /\ ar # Reads!NoAddr /\ ~Reads!DoRead
           \/ ar' = sw'.todo[1] /\ sw'.todo # <<>> /\ Reads!MayIssue
           \/ ar' = Reads!NoAddr
<1>1. ar' = CASE ar # Reads!NoAddr /\ ~Reads!DoRead -> ar
              [] issue /\ Reads!MayIssue /\ ~Reads!Complete -> Head(Reads!Left)
              [] OTHER -> Reads!NoAddr
  BY DEF Reads!BusCycle, Reads!Master
<1>2. sw'.todo = Reads!Left
  BY BusFrame
<1>3. Reads!MayIssue => Reads!Left # <<>>
  BY DEF Reads!MayIssue
<1> QED BY <1>1, <1>2, <1>3

LEMMA BusTyped ==
    ASSUME ReadsInv, NEW issue \in BOOLEAN, NEW ready \in BOOLEAN, Reads!BusCycle(issue, ready)
    PROVE  ReadsTyped'
<1>1. /\ sw.kind # Reads!NoAddr /\ ReadsTyped
      /\ sw'.kind = sw.kind
      /\ sw' = [kind |-> sw.kind, todo |-> sw'.todo, got |-> sw'.got]
      /\ UNCHANGED <<live, window, lastSeq>> /\ rready' = ready
  BY BusFrame
<1>2. ramQ' \in Nat
  <2>1. ramQ' = IF Reads!IsShadow THEN ar[2] ELSE 0
    BY DEF Reads!BusCycle, Reads!RamRead
  <2>2. CASE Reads!IsShadow
    <3>1. ar = sw.todo[1] /\ sw.todo # <<>> /\ sw.todo \in Seq(Addresses)
      BY <1>1, <2>2 DEF ReadsInv, Paired, ReadsTyped, Reads!IsShadow
    <3>2. ar \in Addresses
      BY <3>1
    <3> QED BY <2>1, <2>2, <3>2, AddressKinds DEF Reads!IsShadow
  <2> QED BY <2>1, <2>2
<1>3. CASE Accepts
  <2>1. /\ Accepted = Len(sw.got) /\ Tail(sw.todo) \in Seq(Addresses)
    BY <1>1, <1>3, AcceptedNext DEF Accepts
  <2>2. Accepted + 1 \in Nat
    BY <1>1, <2>1 DEF ReadsTyped
  <2>3. /\ hold' \in [Counters -> Nat] /\ rateHold' \in Nat /\ start' \in Nat
        /\ ~Reads!IsShadow => Reads!ReadValue \in Nat
    <3>1. Reads!DoRead
      BY <1>3 DEF Accepts
    <3> QED BY <2>2, <3>1, AnswerRead
  <2>4. rData' \in Nat
    <3>1. Reads!IsShadow => rData' = rData
      <4>1. Reads!IsShadow => ~shPend
        BY <1>1, <1>3, AcceptedNext DEF Accepts
      <4> QED BY <4>1 DEF Reads!BusCycle, Reads!Response
    <3> QED BY <1>1, <1>3, <2>3, <3>1 DEF Accepts, ReadsTyped
  <2>5. rValid' \in BOOLEAN /\ shPend' \in BOOLEAN
    BY <1>3 DEF Accepts
  <2> QED BY <1>1, <1>2, <1>3, <2>1, <2>3, <2>4, <2>5 DEF Accepts, ReadsTyped
<1>4. CASE ~Accepts
  <2>1. HandsOn \/ Delivers \/ Idles
    BY <1>4, BusOutcomes
  <2>2. /\ Quietly /\ rValid' \in BOOLEAN /\ sw'.got \in Seq(Nat)
    <3>1. sw.got \in Seq(Nat) /\ rData \in Nat /\ rValid \in BOOLEAN
      BY <1>1 DEF ReadsTyped
    <3>2. CASE HandsOn
      BY <3>1, <3>2 DEF HandsOn
    <3>3. CASE Delivers
      <4>1. sw'.got = Append(sw.got, rData) /\ Quietly /\ rValid' = FALSE
        BY <3>3 DEF Delivers
      <4>2. Append(sw.got, rData) \in Seq(Nat)
        BY <3>1
      <4> QED BY <4>1, <4>2
    <3>4. CASE Idles
      BY <3>1, <3>4 DEF Idles
    <3> QED BY <2>1, <3>2, <3>3, <3>4
  <2>3. rData' \in Nat
    <3>1. ~Reads!DoRead /\ rData' = IF shPend THEN ramQ ELSE rData
      BY <2>2 DEF Quietly, Reads!BusCycle, Reads!Response
    <3> QED BY <1>1, <3>1 DEF ReadsTyped
  <2> QED BY <1>1, <1>2, <2>2, <2>3 DEF Quietly, ReadsTyped
<1> QED BY <1>3, <1>4

LEMMA BusCounts ==
    ASSUME ReadsInv, NEW issue \in BOOLEAN, NEW ready \in BOOLEAN, Reads!BusCycle(issue, ready)
    PROVE  /\ Reads!Accesses' = Reads!Accesses
           /\ Accepts => /\ Accepted' = Accepted + 1 /\ Accepted = Len(sw.got)
                         /\ Len(sw'.todo) = Len(sw.todo) - 1
           /\ ~Accepts => Accepted' = Accepted /\ sw'.todo = sw.todo
           /\ Reads!Accesses \in {2, 3} /\ Accepted \in Nat /\ Len(sw.got) \in Nat /\ Len(sw.todo) \in Nat
<1>1. sw.kind # Reads!NoAddr /\ ReadsTyped /\ Paired /\ sw'.kind = sw.kind
  BY BusFrame
<1>2. Reads!Accesses' = Reads!Accesses /\ Reads!Accesses \in {2, 3}
  BY <1>1 DEF Reads!Accesses
<1>3. Accepted \in Nat /\ Len(sw.got) \in Nat /\ Len(sw.todo) \in Nat
  BY <1>1 DEF Paired, ReadsTyped
<1>4. ASSUME Accepts
      PROVE  /\ Accepted' = Accepted + 1 /\ Accepted = Len(sw.got)
             /\ Len(sw'.todo) = Len(sw.todo) - 1
  <2>1. Reads!DoRead /\ sw'.todo = Tail(sw.todo)
    BY <1>4 DEF Accepts
  <2>2. Accepted = Len(sw.got) /\ Len(Tail(sw.todo)) = Len(sw.todo) - 1
    BY <1>1, <2>1, AcceptedNext
  <2>3. Accepted = Reads!Accesses - Len(sw.todo) /\ Accepted' = Reads!Accesses' - Len(sw'.todo)
    BY DEF Accepted
  <2>4. Len(sw'.todo) = Len(sw.todo) - 1
    BY <2>1, <2>2
  <2>5. Accepted' = Accepted + 1
    BY <1>2, <1>3, <2>3, <2>4
  <2> QED BY <2>2, <2>4, <2>5
<1>5. ASSUME ~Accepts PROVE Accepted' = Accepted /\ sw'.todo = sw.todo
  <2>1. sw'.todo = sw.todo
    BY <1>5, BusOutcomes DEF HandsOn, Delivers, Idles, Quietly
  <2> QED BY <1>2, <2>1 DEF Accepted
<1> QED BY <1>2, <1>3, <1>4, <1>5

LEMMA BusPaired ==
    ASSUME ReadsInv, NEW issue \in BOOLEAN, NEW ready \in BOOLEAN, Reads!BusCycle(issue, ready)
    PROVE  Paired'
<1>1. /\ sw.kind # Reads!NoAddr /\ ReadsTyped /\ Paired /\ sw'.kind = sw.kind
  BY BusFrame
<1>2. /\ Reads!Accesses' = Reads!Accesses
      /\ Accepts => /\ Accepted' = Accepted + 1 /\ Accepted = Len(sw.got)
                    /\ Len(sw'.todo) = Len(sw.todo) - 1
      /\ ~Accepts => Accepted' = Accepted /\ sw'.todo = sw.todo
      /\ Reads!Accesses \in {2, 3} /\ Accepted \in Nat /\ Len(sw.got) \in Nat /\ Len(sw.todo) \in Nat
  BY BusCounts
<1>3. ar' # Reads!NoAddr => sw'.todo # <<>> /\ ar' = sw'.todo[1]
  <2>1. ar # Reads!NoAddr => sw.todo # <<>> /\ ar = sw.todo[1]
    BY <1>1 DEF Paired
  <2>2. ar # Reads!NoAddr /\ ~Reads!DoRead => sw'.todo = sw.todo
    BY <1>2 DEF Accepts
  <2> QED BY <2>1, <2>2, BusAddress
<1>4. CASE Accepts
  <2>1. /\ Reads!DoRead /\ sw'.todo = Tail(sw.todo) /\ sw'.got = sw.got
        /\ Reads!Count(rValid)' + Reads!Count(shPend)' = 1 /\ ~(rValid' /\ shPend')
        /\ Reads!Count(rValid)' \in Nat /\ Reads!Count(shPend)' \in Nat
    BY <1>4 DEF Accepts, Reads!Count
  <2>2. Accepted' = Len(sw'.got) + Reads!Count(rValid)' + Reads!Count(shPend)'
    BY <1>2, <1>4, <2>1
  <2>3. ASSUME NEW i \in 1 .. Len(sw'.todo) PROVE Planned(Accepted + i, sw.todo[i])'
    <3>1. sw'.todo[i] = sw.todo[i + 1] /\ i + 1 \in 1 .. Len(sw.todo)
      BY <1>1, <1>2, <1>4, <2>1, AcceptedNext
    <3>2. Planned(Accepted + (i + 1), sw.todo[i + 1])
      BY <1>1, <3>1 DEF Paired
    <3>3. Accepted + (i + 1) = Accepted' + i
      BY <1>2, <1>4
    <3> QED BY <1>1, <3>1, <3>2, <3>3 DEF Planned
  <2>4. Accepted' \in 0 .. Reads!Accesses'
    <3>1. Len(sw'.todo) \in Nat
      BY <1>1, <2>1, AcceptedNext
    <3>2. Accepted' = Reads!Accesses' - Len(sw'.todo)
      BY DEF Accepted
    <3> QED BY <1>2, <1>4, <3>1, <3>2
  <2> QED BY <1>3, <2>1, <2>2, <2>3, <2>4 DEF Paired
<1>5. CASE ~Accepts
  <2>1. /\ rValid \in BOOLEAN /\ shPend \in BOOLEAN /\ sw.got \in Seq(Nat) /\ rData \in Nat
        /\ Accepted = Len(sw.got) + Reads!Count(rValid) + Reads!Count(shPend)
        /\ ~(rValid /\ shPend) /\ Accepted \in 0 .. Reads!Accesses
        /\ \A i \in 1 .. Len(sw.todo) : Planned(Accepted + i, sw.todo[i])
    BY <1>1 DEF ReadsTyped, Paired
  <2>2. /\ Len(sw'.got) + Reads!Count(rValid)' + Reads!Count(shPend)'
             = Len(sw.got) + Reads!Count(rValid) + Reads!Count(shPend)
        /\ ~(rValid' /\ shPend')
    <3>1. CASE HandsOn
      BY <2>1, <3>1 DEF HandsOn, Quietly, Reads!Count
    <3>2. CASE Delivers
      <4>1. sw'.got = Append(sw.got, rData) /\ shPend' = FALSE /\ rValid' = FALSE /\ rValid /\ ~shPend
        BY <3>2 DEF Delivers, Quietly
      <4>2. Len(sw'.got) = Len(sw.got) + 1
        BY <2>1, <4>1
      <4> QED BY <1>2, <4>1, <4>2 DEF Reads!Count
    <3>3. CASE Idles
      BY <2>1, <3>3 DEF Idles, Quietly, Reads!Count
    <3> QED BY <1>5, <3>1, <3>2, <3>3, BusOutcomes
  <2>3. ASSUME NEW i \in 1 .. Len(sw'.todo) PROVE Planned(Accepted + i, sw.todo[i])'
    <3>1. Planned(Accepted + i, sw.todo[i])
      BY <1>2, <1>5, <2>1
    <3> QED BY <1>1, <1>2, <1>5, <3>1 DEF Planned
  <2> QED BY <1>2, <1>3, <1>5, <2>1, <2>2, <2>3 DEF Paired
<1> QED BY <1>4, <1>5

LEMMA BusAnswered ==
    ASSUME ReadsInv, NEW issue \in BOOLEAN, NEW ready \in BOOLEAN, Reads!BusCycle(issue, ready)
    PROVE  Answered'
<1>1. /\ sw.kind # Reads!NoAddr /\ ReadsTyped /\ Paired /\ Answered /\ sw'.kind = sw.kind
  BY BusFrame
<1>2. /\ Accepts => Accepted' = Accepted + 1 /\ Accepted = Len(sw.got)
      /\ ~Accepts => Accepted' = Accepted
      /\ Accepted \in Nat /\ Len(sw.got) \in Nat
  BY BusCounts
<1>3. ASSUME NEW i, start' = start PROVE Answer(i)' = Answer(i)
  BY <1>1, <1>3 DEF Answer
<1>4. CASE Accepts
  <2>0. PICK k \in Nat : k = Accepted + 1
    BY <1>2
  <2>1. k = Accepted + 1 /\ k = Len(sw.got) + 1 /\ k = Len(sw'.got) + 1 /\ Reads!DoRead /\ sw'.got = sw.got
    BY <1>2, <1>4, <2>0 DEF Accepts
  <2>2. /\ Reads!IsShadow <=> sw.kind[1] = "sh"
        /\ Reads!IsShadow => ar[2] = k
        /\ ~Reads!IsShadow => Reads!ReadValue = Answer(k)'
        /\ sw.kind[1] = "lo" => hold'[sw.kind[2]] = start' \div HALF
        /\ sw.kind[1] = "seq" => rateHold' = start'
        /\ Accepted >= 1 => start' = start
    BY <2>1, AnswerRead
  <2>3. ASSUME NEW i \in 1 .. Len(sw'.got) PROVE (sw.got[i] = Answer(i))'
    <3>1. sw.got[i] = Answer(i) /\ Accepted >= 1
      BY <1>1, <1>2, <1>4, <2>1 DEF Answered
    <3> QED BY <1>3, <2>1, <2>2, <3>1
  <2>4. rValid' => rData' = Answer(k)'
    BY <1>4, <2>2 DEF Accepts
  <2>5. shPend' => sw'.kind[1] = "sh" /\ ramQ' = k
    BY <1>1, <1>4, <2>2 DEF Accepts
  <2>6. (rValid => rData = Answer(Len(sw.got) + 1))'
    <3>1. k = Len(sw.got)' + 1
      BY <2>1
    <3>2. Answer(k)' = Answer(Len(sw.got) + 1)'
      BY <3>1 DEF Answer
    <3> QED BY <2>4, <3>2
  <2> QED BY <1>1, <2>1, <2>2, <2>3, <2>5, <2>6 DEF Answered
<1>5. CASE ~Accepts
  <2>1. /\ Quietly /\ (HandsOn \/ Delivers \/ Idles)
    BY <1>5, BusOutcomes DEF HandsOn, Delivers, Idles
  <2>2. /\ hold' = hold /\ rateHold' = rateHold /\ start' = start /\ shPend' = FALSE /\ Accepted' = Accepted
    BY <1>2, <1>5, <2>1 DEF Quietly
  <2>3. /\ \A i \in 1 .. Len(sw.got) : sw.got[i] = Answer(i)
        /\ rValid => rData = Answer(Len(sw.got) + 1)
        /\ shPend => sw.kind[1] = "sh" /\ ramQ = Len(sw.got) + 1
        /\ sw.kind[1] = "lo" /\ Accepted >= 1 => hold[sw.kind[2]] = start \div HALF
        /\ sw.kind[1] = "seq" /\ Accepted >= 1 => rateHold = start
    BY <1>1 DEF Answered
  <2>4. (\A i \in 1 .. Len(sw.got) : sw.got[i] = Answer(i))'
    <3>1. CASE sw'.got = sw.got
      <4>1. ASSUME NEW i \in 1 .. Len(sw'.got) PROVE (sw.got[i] = Answer(i))'
        BY <1>3, <2>2, <2>3, <3>1
      <4> QED BY <4>1
    <3>2. CASE Delivers
      <4>1. sw'.got = Append(sw.got, rData) /\ rData = Answer(Len(sw.got) + 1) /\ sw.got \in Seq(Nat) /\ rData \in Nat
        BY <1>1, <2>3, <3>2 DEF Delivers, ReadsTyped
      <4>2. ASSUME NEW i \in 1 .. Len(sw'.got) PROVE (sw.got[i] = Answer(i))'
        <5>1. Answer(i)' = Answer(i)
          BY <1>3, <2>2
        <5>2. CASE i = Len(sw.got) + 1
          BY <4>1, <5>1, <5>2
        <5>3. CASE i # Len(sw.got) + 1
          <6>1. i \in 1 .. Len(sw.got) /\ sw'.got[i] = sw.got[i]
            BY <4>1, <5>3
          <6> QED BY <2>3, <5>1, <6>1
        <5> QED BY <5>2, <5>3
      <4> QED BY <4>2
    <3> QED BY <2>1, <3>1, <3>2 DEF HandsOn, Idles
  <2>5. (rValid => rData = Answer(Len(sw.got) + 1))'
    <3>1. CASE HandsOn
      <4>1. rData' = Len(sw.got) + 1 /\ sw.kind[1] = "sh" /\ sw'.got = sw.got
        BY <2>3, <3>1 DEF HandsOn
      <4> QED BY <1>1, <4>1 DEF Answer
    <3>2. CASE Delivers
      BY <3>2 DEF Delivers
    <3>3. CASE Idles
      <4>1. rValid' = rValid /\ rData' = rData /\ sw'.got = sw.got
        BY <3>3 DEF Idles
      <4> QED BY <1>1, <2>2, <2>3, <4>1 DEF Answer
    <3> QED BY <2>1, <3>1, <3>2, <3>3
  <2> QED BY <1>1, <2>2, <2>3, <2>4, <2>5 DEF Answered
<1> QED BY <1>4, <1>5

LEMMA BusNumberFirst ==
    ASSUME ReadsInv, NEW issue \in BOOLEAN, NEW ready \in BOOLEAN, Reads!BusCycle(issue, ready)
    PROVE  NumberFirst'
<1>1. /\ sw.kind # Reads!NoAddr /\ ReadsTyped /\ Paired /\ NumberFirst /\ sw'.kind = sw.kind
      /\ ~Reads!SameSeq(sw.got) /\ lastSeq' = lastSeq /\ sw'.todo = Reads!Left
      /\ sw'.got = IF Reads!Taken THEN Append(sw.got, rData) ELSE sw.got
  BY BusFrame
<1>2. SUFFICES ASSUME sw.kind[1] = "seq"
               PROVE  /\ sw'.got = <<>> => Accepted' <= 1 /\ (ar' # Reads!NoAddr => ar' = Reads!Seq0)
                      /\ Reads!SameSeq(sw.got)' => Len(sw'.got) = 1 /\ Quiet'
  BY <1>1 DEF NumberFirst
<1>3. /\ sw.kind = Reads!Seq0 /\ sw.got \in Seq(Nat) /\ sw.todo \in Seq(Addresses) /\ rData \in Nat
  BY <1>1, <1>2, ReadKinds DEF ReadsTyped
<1>4. /\ Accepts => Accepted' = Accepted + 1 /\ Accepted = Len(sw.got)
      /\ ~Accepts => Accepted' = Accepted /\ sw'.todo = sw.todo
      /\ Accepted \in Nat /\ Len(sw.got) \in Nat
  BY BusCounts
<1>5. sw.got = <<>> => Accepted <= 1 /\ (ar # Reads!NoAddr => ar = Reads!Seq0)
  BY <1>1, <1>2 DEF NumberFirst
<1>6. sw'.got = <<>> => sw.got = <<>>
  <2>1. Append(sw.got, rData) # <<>>
    BY <1>3
  <2> QED BY <1>1, <2>1
<1>7. Reads!MayIssue /\ sw.got = <<>> => Reads!Left[1] = Reads!Seq0
  BY <1>3 DEF Reads!MayIssue
<1>8. ASSUME sw'.got = <<>> PROVE Accepted' <= 1 /\ (ar' # Reads!NoAddr => ar' = Reads!Seq0)
  <2>1. sw.got = <<>> /\ Accepted <= 1 /\ (ar # Reads!NoAddr => ar = Reads!Seq0)
    BY <1>5, <1>6, <1>8
  <2>2. Accepted' <= 1
    BY <1>4, <2>1
  <2>3. ar' # Reads!NoAddr => ar' = Reads!Seq0
    BY <1>1, <1>7, <2>1, BusAddress
  <2> QED BY <2>2, <2>3
<1>9. ASSUME Reads!SameSeq(sw.got)' PROVE Len(sw'.got) = 1 /\ Quiet'
  <2>1. sw'.got # <<>> /\ sw'.got[1] = lastSeq
    BY <1>1, <1>9 DEF Reads!SameSeq
  <2>2. sw.got = <<>>
    <3>1. ASSUME sw.got # <<>> PROVE FALSE
      <4>1. sw'.got[1] = sw.got[1]
        BY <1>1, <1>3, <3>1
      <4> QED BY <1>1, <1>3, <2>1, <3>1, <4>1 DEF Reads!SameSeq
    <3> QED BY <3>1
  <2>3. Reads!Taken /\ rValid /\ Len(sw'.got) = 1
    BY <1>1, <1>3, <2>1, <2>2 DEF Reads!Taken
  <2>4. ~Accepts
    BY <1>1, <2>3, AcceptedNext DEF Accepts
  <2>5. Delivers
    <3>1. ~HandsOn /\ ~Idles
      BY <2>1, <2>2 DEF HandsOn, Idles
    <3> QED BY <2>4, <3>1, BusOutcomes
  <2>6. ~rValid' /\ ~shPend' /\ ~Reads!DoRead
    BY <2>5 DEF Delivers, Quietly
  <2>7. Accepted = 1 /\ ~shPend
    BY <1>1, <2>2, <2>3 DEF Paired, Reads!Count
  <2>8. sw.todo # <<>> => sw.todo[1][1] = "rate"
    <3>1. sw.todo # <<>> => 1 \in 1 .. Len(sw.todo)
      BY <1>3
    <3>2. sw.todo # <<>> => Planned(Accepted + 1, sw.todo[1])
      BY <1>1, <3>1 DEF Paired
    <3> QED BY <1>2, <2>7, <3>2 DEF Planned
  <2>9. sw.todo # <<>> => sw.todo[1] # Reads!Seq0
    BY <2>8, AddressParts
  <2>10. ar = Reads!NoAddr
    BY <1>1, <1>5, <2>2, <2>9 DEF Paired
  <2>11. Reads!Left = sw.todo /\ ~(Reads!MayIssue /\ sw'.todo # <<>>)
    BY <1>1, <1>4, <1>7, <2>2, <2>4, <2>9
  <2>12. ar' = Reads!NoAddr
    BY <2>10, <2>11, BusAddress
  <2> QED BY <2>3, <2>6, <2>12 DEF Quiet
<1> QED BY <1>8, <1>9

LEMMA BusStep ==
    ASSUME ReadsInv, NEW issue \in BOOLEAN, NEW ready \in BOOLEAN, Reads!BusCycle(issue, ready)
    PROVE  ReadsInv'
<1>1. sw.kind # Reads!NoAddr /\ sw'.kind = sw.kind
  BY BusFrame
<1>2. ReadsTyped' /\ Paired' /\ Answered' /\ NumberFirst'
  BY BusTyped, BusPaired, BusAnswered, BusNumberFirst
<1> QED BY <1>1, <1>2 DEF ReadsInv

LEMMA ReadsRight == ReadsInv => Reads!NotTorn /\ Reads!OneWindow /\ Reads!ResponsePaired
<1> SUFFICES ASSUME ReadsInv PROVE Reads!NotTorn /\ Reads!OneWindow /\ Reads!ResponsePaired
  OBVIOUS
<1>1. sw # Reads!Rest => sw.kind # Reads!NoAddr /\ ReadsTyped /\ Paired /\ Answered
  BY DEF ReadsInv
<1>2. Reads!NotTorn
  <2> SUFFICES ASSUME Reads!Complete, sw.kind[1] = "lo"
               PROVE  sw.got[2] * HALF + sw.got[1] = start
    BY DEF Reads!NotTorn
  <2>1. ReadsTyped /\ Answered /\ sw.kind # Reads!Seq0
    BY <1>1, AddressParts DEF Reads!Complete
  <2>2. Len(sw.got) = 2
    BY <2>1 DEF Reads!Complete, Reads!SameSeq, Reads!Accesses
  <2>3. sw.got[1] = Answer(1) /\ sw.got[2] = Answer(2)
    BY <2>1, <2>2 DEF Answered
  <2>4. sw.got[1] = start % HALF /\ sw.got[2] = start \div HALF
    BY <2>3 DEF Answer
  <2>5. start \in Nat
    BY <2>1 DEF ReadsTyped
  <2> QED BY <2>4, <2>5, Halves, ReadsConsts
<1>3. Reads!OneWindow
  <2> SUFFICES ASSUME Reads!Complete, sw.kind = Reads!Seq0, NEW i \in 1 .. Len(sw.got)
               PROVE  sw.got[i] = start
    BY DEF Reads!OneWindow
  <2>1. sw.got[i] = Answer(i)
    BY <1>1 DEF Reads!Complete, Answered
  <2> QED BY <2>1, AddressParts DEF Answer
<1>4. Reads!ResponsePaired
  <2> SUFFICES ASSUME sw # Reads!Rest
               PROVE  /\ Reads!Accesses - Len(sw.todo) = Len(sw.got) + Reads!Count(rValid) + Reads!Count(shPend)
                      /\ sw.kind[1] = "sh" => \A i \in 1 .. Len(sw.got) : sw.got[i] = i
    BY DEF Reads!ResponsePaired
  <2>1. sw.kind[1] = "sh" => \A i : Answer(i) = i
    BY DEF Answer
  <2> QED BY <1>1, <2>1 DEF Paired, Answered, Accepted
<1> QED BY <1>2, <1>3, <1>4

-----------------------------------------------------------------------------
(* The initial states and the steps of the whole.                           *)

LEMMA StickyBegins == Init => StickyHolds /\ BitsKept
<1> SUFFICES ASSUME Init, block = "sticky" PROVE StickyInv /\ NeverCleared
  BY DEF StickyHolds, BitsKept
<1>1. Sticky!Init
  BY DEF Init
<1>2. Sticky!NoEvents \in Sticky!Words /\ CountsAll(Sticky!NoEvents)
  <2>1. CNT_MOD \in Nat \ {0} /\ MaxEvents \in Nat
    BY StatsAssumption DEF Sticky!ZirconStickyAssumption
  <2> QED BY <2>1 DEF Sticky!NoEvents, Sticky!Words, CountsAll
<1>3. StickyInv
  <2>1. Follows(Sticky!NoEvents, Sticky!NoEvents) /\ <<>> \in Seq(Sticky!Words)
    BY <1>2, FollowsItself
  <2>2. \A b \in Sticky!Bits : Sticky!NoEvents[b].ev = 0
    BY DEF Sticky!NoEvents
  <2>3. /\ src = Sticky!NoEvents /\ word = Sticky!NoEvents /\ prev = Sticky!NoEvents
        /\ fifo = <<>> /\ sticky = {} /\ clears = 0 /\ clrUi = FALSE /\ clrSrc = FALSE
        /\ known \in [Sticky!Bits -> Nat] /\ \A b \in Sticky!Bits : known[b] = 0
    BY <1>1 DEF Sticky!Init
  <2> HIDE DEF Sticky!NoEvents
  <2>4. \A b \in Sticky!Bits : known[b] <= prev[b].ev
    BY <2>2, <2>3
  <2> QED BY <1>2, <2>1, <2>3, <2>4 DEF StickyInv
<1>4. NeverCleared
  BY <1>1, <1>2 DEF Sticky!Init, NeverCleared, Sticky!Unseen, Sticky!NoEvents, Sticky!Bits
<1> QED BY <1>3, <1>4

LEMMA MeterBegins == Init => MeterHolds
<1> SUFFICES ASSUME Init, block = "rate" PROVE MeterInv
  BY DEF MeterHolds
<1>1. Meter!Init
  BY DEF Init
<1>2. Meter!Zero \in Side /\ Meter!Both.rx = Meter!Zero /\ Meter!Both.tx = Meter!Zero
  BY MeterConsts DEF Meter!Zero, Meter!Both, Side
<1>3. Meter!WindowsExact
  BY <1>1 DEF Meter!Init, Meter!WindowsExact, Meter!RxWindowExact, Meter!TxWindowExact
<1>4. prime = 0 /\ PRIME # 0 /\ 0 \in 0 .. PRIME /\ 0 \in 0 .. WINDOW - 1 /\ Meter!Zero.bytes >= Meter!Zero.bytes
  BY <1>1, <1>2, MeterConsts DEF Meter!Init, Side
<1> QED BY <1>1, <1>2, <1>3, <1>4 DEF MeterInv, Meter!Init

LEMMA ReadsBegin == Init => ReadsHold
<1> SUFFICES ASSUME Init, block = "reads" PROVE ReadsInv
  BY DEF ReadsHold
<1>1. Reads!Init
  BY DEF Init
<1>2. ReadsTyped
  <2>1. /\ sw.kind = Reads!NoAddr /\ sw.got = <<>> /\ sw.todo = <<>>
        /\ sw = [kind |-> sw.kind, todo |-> sw.todo, got |-> sw.got]
    BY <1>1 DEF Reads!Init, Reads!Rest
  <2>2. sw.kind \in Kinds /\ sw.got \in Seq(Nat) /\ sw.todo \in Seq(Addresses)
    BY <2>1 DEF Kinds
  <2> QED BY <1>1, <2>1, <2>2 DEF Reads!Init, ReadsTyped
<1> QED BY <1>1, <1>2 DEF Reads!Init, ReadsInv, Reads!Rest, Quiet

\* A step of one block leaves the variables of the others.
LEMMA StickyOnlyStep ==
    ASSUME [Next]_svars, block' = "sticky"
    PROVE  /\ block = "sticky"
           /\ Sticky!Next \/ UNCHANGED <<src, fifo, word, prev, sticky, clrUi, clrSrc, clears, known>>
BY DEF Next, svars, MeterStep, StickyStep, LatStep, LatMoves, ReadsStep, stickyOnly

LEMMA MeterOnlyStep ==
    ASSUME [Next]_svars, block' = "rate"
    PROVE  /\ block = "rate"
           /\ \/ Meter!Next
              \/ UNCHANGED <<rx, tx, txView, cnt, tick, prime, prev, out, seq, unseen, wnd,
                             restarted, last, hidden, restarts>>
BY DEF Next, svars, MeterStep, StickyStep, LatStep, LatMoves, ReadsStep, rateOnly

LEMMA ReadsOnlyStep ==
    ASSUME [Next]_svars, block' = "reads"
    PROVE  /\ block = "reads"
           /\ \/ Reads!Next
              \/ UNCHANGED <<live, window, hold, rateHold, ar, rValid, rData, shPend, ramQ,
                             rready, sw, start, lastSeq, reads>>
BY DEF Next, svars, MeterStep, StickyStep, LatStep, LatMoves, ReadsStep, readsOnly

LEMMA StickyKept == StickyHolds /\ [Next]_svars => StickyHolds'
<1> SUFFICES ASSUME StickyHolds, [Next]_svars, block' = "sticky" PROVE StickyInv'
  BY DEF StickyHolds
<1>1. StickyInv
  BY StickyOnlyStep DEF StickyHolds
<1>2. CASE UNCHANGED <<src, fifo, word, prev, sticky, clrUi, clrSrc, clears, known>>
  BY <1>1, <1>2 DEF StickyInv, Follows
<1>3. CASE Sticky!Next
  BY <1>1, <1>3, EventsStep, CrossStep, RegStep DEF Sticky!Next
<1> QED BY <1>2, <1>3, StickyOnlyStep

LEMMA BitsStay ==
    ASSUME MaxEvents < CNT_MOD
    PROVE  StickyHolds /\ BitsKept /\ [Next]_svars => BitsKept'
<1> SUFFICES ASSUME StickyHolds, BitsKept, [Next]_svars, block' = "sticky" PROVE NeverCleared'
  BY DEF BitsKept
<1>1. StickyInv /\ NeverCleared
  BY StickyOnlyStep DEF StickyHolds, BitsKept
<1>2. CASE UNCHANGED <<src, fifo, word, prev, sticky, clrUi, clrSrc, clears, known>>
  BY <1>1, <1>2 DEF NeverCleared, CountsAll, Sticky!Unseen
<1>3. CASE Sticky!Next
  BY <1>1, <1>3, EventsCounted, CrossingCounted, RegCounted DEF Sticky!Next
<1> QED BY <1>2, <1>3, StickyOnlyStep

LEMMA MeterKept == MeterHolds /\ [Next]_svars => MeterHolds'
<1> SUFFICES ASSUME MeterHolds, [Next]_svars, block' = "rate" PROVE MeterInv'
  BY DEF MeterHolds
<1>1. MeterInv
  BY MeterOnlyStep DEF MeterHolds
<1>2. CASE UNCHANGED <<rx, tx, txView, cnt, tick, prime, prev, out, seq, unseen, wnd,
                       restarted, last, hidden, restarts>>
  BY <1>1, <1>2 DEF MeterInv, Meter!WindowsExact, Meter!RxWindowExact, Meter!TxWindowExact
<1>3. CASE Meter!Next
  BY <1>1, <1>3, MeterStepKept DEF Meter!Next
<1> QED BY <1>2, <1>3, MeterOnlyStep

LEMMA ReadsKept == ReadsHold /\ [Next]_svars => ReadsHold'
<1> SUFFICES ASSUME ReadsHold, [Next]_svars, block' = "reads" PROVE ReadsInv'
  BY DEF ReadsHold
<1>1. ReadsInv
  BY ReadsOnlyStep DEF ReadsHold
<1>2. CASE UNCHANGED <<live, window, hold, rateHold, ar, rValid, rData, shPend, ramQ,
                       rready, sw, start, lastSeq, reads>>
  <2>1. ReadsTyped'
    BY <1>1, <1>2 DEF ReadsInv, ReadsTyped
  <2>2. (sw.kind = Reads!NoAddr => sw = Reads!Rest /\ Quiet)'
    BY <1>1, <1>2 DEF ReadsInv, Quiet
  <2>3. (sw.kind # Reads!NoAddr => Paired)'
    BY <1>1, <1>2 DEF ReadsInv, Paired, Accepted, Planned, Reads!Accesses
  <2>4. (sw.kind # Reads!NoAddr => Answered)'
    BY <1>1, <1>2 DEF ReadsInv, Answered, Accepted, Answer, Reads!Accesses
  <2>5. (sw.kind # Reads!NoAddr => NumberFirst)'
    BY <1>1, <1>2 DEF ReadsInv, NumberFirst, Quiet, Accepted, Reads!Accesses, Reads!SameSeq
  <2> QED BY <2>1, <2>2, <2>3, <2>4, <2>5 DEF ReadsInv
<1>3. CASE Reads!Next
  BY <1>1, <1>3, StartStep, ArriveStep, FinishStep, BusStep DEF Reads!Next
<1> QED BY <1>2, <1>3, ReadsOnlyStep

-----------------------------------------------------------------------------
(* The latency statistics.                                                  *)

\* A command is written, being served or acknowledged on its way back; the firmware
\* polls all that time, so two of these never hold at once.
Requested == ui.req # seen.req
Serving == seen.req # ack
Crossing == ack # ackUi

\* A word written before the request.
Old(w) == w.req = seen.req

BinWords == 0 .. 2 * NBINS - 1
EngineStates == {"CLR", "IDLE", "P1", "P2", "P3", "P4", "CMD", "SNAP_SC", "SNAP_BIN", "ACK"}

FirmwareType == [pc : {"idle", "width", "write", "poll", "read"}, op : {"none", "clear", "snap"},
                 clr : Lat!Toggles]

FirmTyped ==
    /\ ui \in Lat!WordType /\ cfg \in Lat!WordType /\ cfgq \in Seq(Lat!WordType)
    /\ seen \in [req : BOOLEAN, snap : BOOLEAN, clr : Lat!Toggles]
    /\ ack \in BOOLEAN /\ ackUi \in BOOLEAN
    /\ sw \in FirmwareType

EngineTyped ==
    /\ state \in EngineStates
    /\ cmd \in [req : BOOLEAN, snap : BOOLEAN, clr : Lat!Toggles]
    /\ sweep \in [bank : Lat!Banks, idx : Nat]
    /\ state = "CLR" => sweep.idx \in Lat!Bins
    /\ state = "SNAP_SC" => sweep.idx \in Lat!Scalars
    /\ state = "SNAP_BIN" => sweep.idx \in BinWords
    /\ wr \in [valid : BOOLEAN, bank : Lat!Banks, idx : BinWords, val : Nat]
    /\ smp \in [bank : Lat!Banks, bin : Lat!Bins, base : Nat, width : Nat, q : Nat]
    /\ live \in [Lat!Banks -> Lat!BankType]
    /\ image \in [Lat!Banks -> Lat!BankType] /\ atWrite \in [Lat!Banks -> Lat!BankType]
    /\ shadow \in [Lat!Banks -> [sc : [Lat!Scalars -> Nat], bins : [BinWords -> Nat]]]

\* The handshake.
Phases ==
    /\ Requested => ~Serving /\ ~Crossing
    /\ Serving => ~Crossing
    /\ Requested \/ Serving \/ Crossing => sw.pc = "poll"
    /\ sw.pc \in {"write", "poll", "read"} =>
         \/ sw.op = "snap" /\ sw.clr = Lat!Off
         \/ sw.op = "clear" /\ sw.clr # Lat!Off
    /\ sw.pc = "read" => sw.op = "snap"

\* What the request asks for is what the firmware does.
Asked ==
    /\ ~Requested => ui.snap = seen.snap /\ ui.clr = seen.clr
    /\ Requested => /\ (ui.snap # seen.snap) <=> sw.op = "snap"
                    /\ \A b \in Lat!Banks : (ui.clr[b] # seen.clr[b]) <=> sw.clr[b]

\* The request is the last word sent, and until the firmware writes again the only one.
Words ==
    /\ ~Requested => Old(cfg) /\ \A i \in 1 .. Len(cfgq) : Old(cfgq[i])
    /\ ~Requested /\ sw.pc \in {"poll", "read"} => cfgq = <<>> /\ cfg = ui
    /\ Requested =>
         /\ \A i \in 1 .. Len(cfgq) - 1 : Old(cfgq[i])
         /\ cfgq # <<>> => Old(cfg)
         /\ Lat!LastSent = ui \/ Old(Lat!LastSent)

\* The engine serves the request it took; its first sweep, after reset, serves none.
Served ==
    /\ state = "CMD" => Requested /\ cfg = ui
    /\ state \in {"SNAP_SC", "SNAP_BIN", "ACK"} => Serving
    /\ Serving =>
         /\ state \in {"CLR", "SNAP_SC", "SNAP_BIN", "ACK"}
         /\ cmd.req = seen.req
         /\ sw.op = "snap" => state # "CLR"
         /\ sw.op = "clear" => state \in {"CLR", "ACK"}
         /\ state = "CLR" => ~cmd.snap /\ cmd.clr = sw.clr
    /\ state = "CLR" /\ ~Serving =>
         /\ cmd.req = ack /\ ~cmd.snap
         /\ \A b \in Lat!Banks : live[b].cnt = 0 /\ live[b].imp = 0 /\ live[b].geos = {}
    /\ wr.valid => state \in {"SNAP_SC", "SNAP_BIN", "ACK"}

\* A snapshot command has been taken and is not read to the end.
Taken == sw.op = "snap" /\ sw.pc \in {"poll", "read"} /\ ~Requested

ScDone(b, w) ==
    \/ state \notin {"SNAP_SC", "SNAP_BIN"} \/ b < sweep.bank
    \/ b = sweep.bank /\ (state = "SNAP_SC" => w < sweep.idx)

BinDone(b, i) ==
    \/ state \notin {"SNAP_SC", "SNAP_BIN"} \/ b < sweep.bank
    \/ b = sweep.bank /\ state = "SNAP_BIN" /\ i < sweep.idx

ImageWord(b, w) ==
    CASE w = Lat!COUNT -> image[b].cnt
      [] w = Lat!IMPLAUSIBLE -> image[b].imp
      [] w = Lat!BIN_BASE -> ui.base
      [] w = Lat!BIN_WIDTH -> ui.width

\* What the shadow has in bin word i of bank b once the pending word is written.
BinShown(b, i) ==
    IF wr.valid /\ wr.bank = b /\ wr.idx = i THEN wr.val ELSE shadow[b].bins[i]

\* The copy: the banks rest until it is acknowledged, and each word passed is right.
Copied ==
    Taken =>
        /\ Serving => live = image
        /\ \A b \in Lat!Banks, w \in Lat!Scalars :
              ScDone(b, w) => shadow[b].sc[w] = ImageWord(b, w)
        /\ \A b \in Lat!Banks, i \in BinWords :
              BinDone(b, i) => BinShown(b, i) = image[b].bins[i \div 2]

\* No count goes down between the write of a snapshot command and its image.
NotBelow(banks, from) ==
    \A b \in Lat!Banks : banks[b].cnt >= from[b].cnt /\ banks[b].imp >= from[b].imp

Recent ==
    /\ sw.op = "snap" /\ sw.pc = "poll" /\ Requested => NotBelow(live, atWrite)
    /\ Taken => NotBelow(image, atWrite)

\* The bank in the middle of being cleared.
Clearing(b) == state = "CLR" /\ b = sweep.bank /\ cmd.clr[b]

AddsUp(bank) == Lat!Total(bank.bins) = bank.cnt

\* Every other bank adds up, and the pipeline's count is still the bin's.
Sums ==
    /\ \A b \in Lat!Banks : Clearing(b) \/ AddsUp(live[b])
    /\ state = "P4" => smp.q = live[smp.bank].bins[smp.bin]
    /\ Taken => \A b \in Lat!Banks : AddsUp(image[b])

\* A clear command was taken, and its firmware call has not returned.
Cleared == sw.op = "clear" /\ sw.pc = "poll" /\ ~Requested

Clean ==
    Cleared =>
        /\ \A b \in Lat!Banks :
              sw.clr[b] /\ ~(Serving /\ state = "CLR" /\ b >= sweep.bank)
                => live[b].geos \subseteq {<<ui.base, ui.width>>}
        /\ state \in {"P2", "P3", "P4"} => smp.base = ui.base
        /\ state \in {"P3", "P4"} => smp.width = ui.width

LatInv ==
    /\ FirmTyped /\ EngineTyped /\ Phases /\ Asked /\ Words
    /\ Served /\ Copied /\ Recent /\ Sums /\ Clean

LatHolds == block = "lat" => LatInv

-----------------------------------------------------------------------------
(* The sum of the bins.                                                     *)

LEMMA LeastNumber ==
    ASSUME NEW T, T \subseteq Nat, T # {}
    PROVE  \E x \in T : \A y \in T : x <= y
<1> DEFINE R == OpToRel(<, Nat)
<1>1. IsWellFoundedOn(R, Nat)
  BY NatLessThanWellFounded
<1>2. \A x, y \in Nat : y < x => <<y, x>> \in R
  BY DEF OpToRel
<1> HIDE DEF R
<1>3. PICK x \in T : \A y \in T : ~ (<<y, x>> \in R)
  BY <1>1, WFMin
<1>4. \A y \in T : ~(y < x)
  BY <1>2, <1>3
<1> QED BY <1>3, <1>4

\* Induction, said of a set.
LEMMA SetInduction ==
    ASSUME NEW S, 0 \in S, \A n \in Nat : n \in S => n + 1 \in S
    PROVE  Nat \subseteq S
<1> DEFINE T == Nat \ S
<1>1. ASSUME T # {} PROVE FALSE
  <2>1. PICK x \in T : \A y \in T : x <= y
    BY <1>1, LeastNumber
  <2>2. x # 0 /\ x - 1 \in Nat /\ x - 1 \notin T
    BY <2>1
  <2> QED BY <2>1, <2>2
<1> QED BY <1>1

Tallies == [Lat!Bins -> Nat]
AnyOf(s) == CHOOSE x \in s : TRUE

\* h is the sum of f over each set of bins.
SumFrom(h, f, s) == IF s = {} THEN 0 ELSE f[AnyOf(s)] + h[s \ {AnyOf(s)}]
SumTable(h, f) == h = [s \in SUBSET Lat!Bins |-> SumFrom(h, f, s)]

LEMMA BinSets ==
    ASSUME NEW s \in SUBSET Lat!Bins
    PROVE  /\ IsFiniteSet(s) /\ Cardinality(s) \in Nat
           /\ Cardinality(s) = 0 <=> s = {}
           /\ s # {} => /\ AnyOf(s) \in s /\ s \ {AnyOf(s)} \in SUBSET Lat!Bins
                        /\ Cardinality(s \ {AnyOf(s)}) = Cardinality(s) - 1
<1>1. NBINS \in Nat
  BY StatsAssumption DEF Lat!LatencyStatsAssumption
<1>2. IsFiniteSet(Lat!Bins)
  BY <1>1, FS_Interval DEF Lat!Bins
<1>3. IsFiniteSet(s) /\ Cardinality(s) \in Nat
  BY <1>2, FS_Subset, FS_CardinalityType
<1>4. Cardinality(s) = 0 <=> s = {}
  BY <1>3, FS_EmptySet
<1>5. s # {} => AnyOf(s) \in s
  BY DEF AnyOf
<1>6. s # {} => Cardinality(s \ {AnyOf(s)}) = Cardinality(s) - 1
  BY <1>3, <1>5, FS_RemoveElement
<1> QED BY <1>3, <1>4, <1>5, <1>6

\* The sums exist: they are those of the sets of at most n bins, for every n.
LEMMA SumsExist ==
    ASSUME NEW f \in Tallies
    PROVE  \E h : SumTable(h, f)
<1> DEFINE Upto(n, h) ==
             \A s \in SUBSET Lat!Bins :
                Cardinality(s) <= n => h[s] \in Nat /\ h[s] = SumFrom(h, f, s)
           S == {n \in Nat : \E h : Upto(n, h)}
<1>1. 0 \in S
  <2> DEFINE h == [s \in SUBSET Lat!Bins |-> 0]
  <2>1. ASSUME NEW s \in SUBSET Lat!Bins, Cardinality(s) <= 0
        PROVE  h[s] \in Nat /\ h[s] = SumFrom(h, f, s)
    <3>1. Cardinality(s) \in Nat /\ (Cardinality(s) = 0 <=> s = {})
      BY BinSets
    <3> QED BY <2>1, <3>1 DEF SumFrom
  <2> HIDE DEF h
  <2>2. Upto(0, h)
    BY <2>1
  <2> QED BY <2>2
<1>2. ASSUME NEW n \in Nat, n \in S PROVE n + 1 \in S
  <2>1. PICK g : Upto(n, g)
    BY <1>2
  <2> DEFINE h == [s \in SUBSET Lat!Bins |->
                     IF Cardinality(s) <= n THEN g[s] ELSE f[AnyOf(s)] + g[s \ {AnyOf(s)}]]
  <2>2. ASSUME NEW s \in SUBSET Lat!Bins, Cardinality(s) <= n + 1
        PROVE  h[s] \in Nat /\ h[s] = SumFrom(h, f, s)
    <3>1. Cardinality(s) \in Nat /\ (Cardinality(s) = 0 <=> s = {})
      BY BinSets
    <3>2. s # {} => /\ AnyOf(s) \in Lat!Bins /\ s \ {AnyOf(s)} \in SUBSET Lat!Bins
                    /\ Cardinality(s \ {AnyOf(s)}) <= n /\ f[AnyOf(s)] \in Nat
      BY <2>2, BinSets DEF Tallies
    <3>3. s # {} => h[s \ {AnyOf(s)}] = g[s \ {AnyOf(s)}] /\ g[s \ {AnyOf(s)}] \in Nat
      BY <2>1, <3>2
    <3>4. CASE Cardinality(s) <= n
      <4>1. h[s] = g[s]
        BY <3>4
      <4> QED BY <2>1, <3>3, <3>4, <4>1 DEF SumFrom
    <3>5. CASE ~(Cardinality(s) <= n)
      <4>1. s # {} /\ h[s] = f[AnyOf(s)] + g[s \ {AnyOf(s)}]
        BY <3>1, <3>5
      <4> HIDE DEF h
      <4> QED BY <3>2, <3>3, <4>1 DEF SumFrom
    <3> QED BY <3>4, <3>5
  <2> HIDE DEF h
  <2>3. Upto(n + 1, h)
    BY <2>2
  <2> QED BY <2>3
<1>3. Nat \subseteq S
  <2> HIDE DEF S
  <2> QED BY <1>1, <1>2, SetInduction
<1>4. Cardinality(Lat!Bins) \in Nat /\ Lat!Bins \in SUBSET Lat!Bins
  BY BinSets
<1>5. PICK g : Upto(Cardinality(Lat!Bins), g)
  BY <1>3, <1>4
<1> DEFINE h == [s \in SUBSET Lat!Bins |-> g[s]]
<1>6. ASSUME NEW s \in SUBSET Lat!Bins
      PROVE  h[s] = SumFrom(h, f, s)
  <2>1. Cardinality(s) <= Cardinality(Lat!Bins)
    BY BinSets, FS_Subset, <1>4
  <2>2. g[s] = SumFrom(g, f, s)
    BY <1>5, <2>1
  <2>3. s \ {AnyOf(s)} \in SUBSET Lat!Bins
    OBVIOUS
  <2> QED BY <2>2, <2>3 DEF SumFrom
<1>7. h = [s \in SUBSET Lat!Bins |-> h[s]]
  OBVIOUS
<1>8. SumTable(h, f)
  <2> HIDE DEF h
  <2> QED BY <1>6, <1>7 DEF SumTable
<1> QED BY <1>8

LEMMA TotalIs ==
    ASSUME NEW f \in Tallies
    PROVE  \E h : SumTable(h, f) /\ Lat!Total(f) = h[Lat!Bins]
<1>1. DOMAIN f = Lat!Bins
  BY DEF Tallies
<1>2. Lat!Total(f) = (CHOOSE h : SumTable(h, f))[Lat!Bins]
  BY <1>1 DEF Lat!Total, Lat!FoldFunction, Lat!FoldFunctionOnSet, Lat!MapThenFoldSet, SumTable, SumFrom, AnyOf
<1> QED BY <1>2, SumsExist

LEMMA SumValue ==
    ASSUME NEW f \in Tallies, NEW h, SumTable(h, f), NEW s \in SUBSET Lat!Bins
    PROVE  h[s] = SumFrom(h, f, s)
BY DEF SumTable

\* One more in a bin is one more in the sum of every set that has it.
LEMMA SumBumped ==
    ASSUME NEW f \in Tallies, NEW g \in Tallies, NEW i \in Lat!Bins,
           \A x \in Lat!Bins : g[x] = f[x] + (IF x = i THEN 1 ELSE 0),
           NEW hf, NEW hg, SumTable(hf, f), SumTable(hg, g)
    PROVE  hf[Lat!Bins] \in Nat /\ hg[Lat!Bins] = hf[Lat!Bins] + 1
<1> DEFINE Right(s) == hf[s] \in Nat /\ hg[s] = hf[s] + (IF i \in s THEN 1 ELSE 0)
           S == {n \in Nat : \A s \in SUBSET Lat!Bins : Cardinality(s) = n => Right(s)}
<1>1. 0 \in S
  <2> SUFFICES ASSUME NEW s \in SUBSET Lat!Bins, Cardinality(s) = 0 PROVE Right(s)
    OBVIOUS
  <2>1. s = {}
    BY BinSets
  <2>2. hf[s] = SumFrom(hf, f, s)
    BY SumValue
  <2>3. hg[s] = SumFrom(hg, g, s)
    BY SumValue
  <2> QED BY <2>1, <2>2, <2>3 DEF SumFrom
<1>2. ASSUME NEW n \in Nat, n \in S PROVE n + 1 \in S
  <2> SUFFICES ASSUME NEW s \in SUBSET Lat!Bins, Cardinality(s) = n + 1 PROVE Right(s)
    OBVIOUS
  <2> DEFINE x == AnyOf(s)
             r == s \ {x}
  <2>1. /\ s # {} /\ x \in s /\ r \in SUBSET Lat!Bins /\ Cardinality(r) = n
    BY BinSets
  <2> HIDE DEF x
  <2>2. Right(r)
    BY <1>2, <2>1
  <2>3. hf[s] = f[x] + hf[r] /\ hg[s] = g[x] + hg[r]
    <3>1. hf[s] = SumFrom(hf, f, s)
      BY SumValue
    <3>2. hg[s] = SumFrom(hg, g, s)
      BY SumValue
    <3> QED BY <2>1, <3>1, <3>2 DEF SumFrom, x
  <2>4. f[x] \in Nat /\ g[x] = f[x] + (IF x = i THEN 1 ELSE 0)
    BY <2>1 DEF Tallies
  <2> HIDE DEF r
  <2>5. i \in s <=> i \in r \/ i = x
    BY <2>1 DEF r
  <2>6. i = x => i \notin r
    BY DEF r
  <2> QED BY <2>2, <2>3, <2>4, <2>5, <2>6
<1>3. Nat \subseteq S
  <2> HIDE DEF S
  <2> QED BY <1>1, <1>2, SetInduction
<1>4. Cardinality(Lat!Bins) \in Nat /\ Lat!Bins \in SUBSET Lat!Bins
  BY BinSets
<1> QED BY <1>3, <1>4

LEMMA TotalBumped ==
    ASSUME NEW f \in Tallies, NEW i \in Lat!Bins
    PROVE  Lat!Total([f EXCEPT ![i] = @ + 1]) = Lat!Total(f) + 1
<1> DEFINE g == [f EXCEPT ![i] = @ + 1]
<1>1. g \in Tallies
  BY DEF Tallies
<1>2. \A x \in Lat!Bins : g[x] = f[x] + (IF x = i THEN 1 ELSE 0)
  BY DEF Tallies
<1> HIDE DEF g
<1>3. PICK hf : SumTable(hf, f) /\ Lat!Total(f) = hf[Lat!Bins]
  BY TotalIs
<1>4. PICK hg : SumTable(hg, g) /\ Lat!Total(g) = hg[Lat!Bins]
  BY <1>1, TotalIs
<1>5. hg[Lat!Bins] = hf[Lat!Bins] + 1
  BY <1>1, <1>2, <1>3, <1>4, SumBumped
<1> QED BY <1>3, <1>4, <1>5 DEF g

LEMMA TotalOfNone == Lat!Total([i \in Lat!Bins |-> 0]) = 0
<1> DEFINE f == [i \in Lat!Bins |-> 0]
           S(h) == {n \in Nat : \A s \in SUBSET Lat!Bins : Cardinality(s) = n => h[s] = 0}
<1>1. f \in Tallies /\ \A i \in Lat!Bins : f[i] = 0
  BY DEF Tallies
<1> HIDE DEF f
<1>2. PICK h : SumTable(h, f) /\ Lat!Total(f) = h[Lat!Bins]
  BY <1>1, TotalIs
<1>3. 0 \in S(h)
  BY <1>1, <1>2, SumValue, BinSets DEF SumFrom
<1>4. ASSUME NEW n \in Nat, n \in S(h) PROVE n + 1 \in S(h)
  <2> SUFFICES ASSUME NEW s \in SUBSET Lat!Bins, Cardinality(s) = n + 1 PROVE h[s] = 0
    OBVIOUS
  <2>1. /\ s # {} /\ AnyOf(s) \in s /\ s \ {AnyOf(s)} \in SUBSET Lat!Bins
        /\ Cardinality(s \ {AnyOf(s)}) = n
    BY BinSets
  <2>2. h[s \ {AnyOf(s)}] = 0
    BY <1>4, <2>1
  <2>3. h[s] = f[AnyOf(s)] + h[s \ {AnyOf(s)}]
    BY <1>1, <1>2, <2>1, SumValue DEF SumFrom
  <2>4. f[AnyOf(s)] = 0
    BY <1>1, <2>1
  <2> QED BY <2>2, <2>3, <2>4
<1>5. Nat \subseteq S(h)
  <2> HIDE DEF S
  <2> QED BY <1>3, <1>4, SetInduction
<1>6. Cardinality(Lat!Bins) \in Nat /\ Lat!Bins \in SUBSET Lat!Bins
  BY BinSets
<1>7. h[Lat!Bins] = 0
  BY <1>5, <1>6
<1> QED BY <1>2, <1>7 DEF f

-----------------------------------------------------------------------------
(* The firmware's steps.                                                    *)

\* The engine and the banks rest.
EngineRests == UNCHANGED <<state, sweep, wr, cmd, smp, live, shadow>>

\* BUSY is up exactly while a request is on its way, served or acknowledged.
LEMMA BusyIs == ASSUME LatInv PROVE Lat!Busy <=> Requested \/ Serving \/ Crossing
<1>1. /\ ui.req \in BOOLEAN /\ seen.req \in BOOLEAN /\ ack \in BOOLEAN /\ ackUi \in BOOLEAN
  BY DEF LatInv, FirmTyped, Lat!WordType
<1>2. /\ Requested => ~Serving /\ ~Crossing
      /\ Serving => ~Crossing
  BY DEF LatInv, Phases
<1> QED BY <1>1, <1>2 DEF Lat!Busy, Requested, Serving, Crossing

\* The copy is as right as it was when nothing of it moves.
LEMMA CopyStays ==
    ASSUME Copied, UNCHANGED <<state, sweep, wr, live, shadow>>, Serving' => Serving,
           Taken' => Taken /\ UNCHANGED <<image, ui>>
    PROVE  Copied'
<1> SUFFICES ASSUME Taken'
             PROVE  /\ Serving' => live' = image'
                    /\ \A b \in Lat!Banks, w \in Lat!Scalars :
                          ScDone(b, w)' => shadow'[b].sc[w] = ImageWord(b, w)'
                    /\ \A b \in Lat!Banks, i \in BinWords :
                          BinDone(b, i)' => BinShown(b, i)' = image'[b].bins[i \div 2]
  BY DEF Copied
<1>1. Taken /\ UNCHANGED <<image, ui>>
  OBVIOUS
<1>2. \A b, w : (ScDone(b, w)' <=> ScDone(b, w)) /\ ImageWord(b, w)' = ImageWord(b, w)
  BY <1>1 DEF ScDone, ImageWord
<1>3. \A b, i : (BinDone(b, i)' <=> BinDone(b, i)) /\ BinShown(b, i)' = BinShown(b, i)
  BY <1>1 DEF BinDone, BinShown
<1> QED BY <1>1, <1>2, <1>3 DEF Copied

\* Steps of the firmware that ask for nothing; the one that starts the reads is the
\* end of a poll.
LEMMA FirmwareMoves ==
    ASSUME LatInv, EngineRests, UNCHANGED <<ackUi, cfgq, cfg, seen, ack>>,
           ~Requested, ~Serving, ~Crossing,
           ui' \in Lat!WordType, ui'.req = ui.req, ui'.snap = ui.snap, ui'.clr = ui.clr,
           sw' \in FirmwareType, sw'.pc # "poll",
           sw'.pc = "write" => \/ sw'.op = "snap" /\ sw'.clr = Lat!Off
                               \/ sw'.op = "clear" /\ sw'.clr # Lat!Off,
           sw'.pc = "read" => /\ sw.pc = "poll" /\ sw.op = "snap" /\ sw'.op = "snap"
                              /\ sw'.clr = sw.clr /\ ui' = ui /\ UNCHANGED <<image, atWrite>>,
           image' \in [Lat!Banks -> Lat!BankType], atWrite' \in [Lat!Banks -> Lat!BankType]
    PROVE  LatInv'
<1> USE DEF LatInv
<1>1. FirmTyped'
  BY DEF FirmTyped, FirmwareType
<1>2. EngineTyped'
  BY DEF EngineTyped, EngineRests
<1>3. ~Requested' /\ ~Serving' /\ ~Crossing'
  BY DEF Requested, Serving, Crossing
<1>4. Phases'
  BY <1>3 DEF Phases
<1>5. Asked'
  BY <1>3 DEF Asked
<1>6. Words'
  BY <1>3 DEF Words, Old
<1>7. Served'
  BY <1>3 DEF Served, EngineRests
<1>8. Taken' => Taken /\ UNCHANGED <<image, atWrite, ui>>
  BY DEF Taken
<1>9. Copied'
  BY <1>3, <1>8, CopyStays DEF EngineRests, Serving
<1>10. Recent'
  BY <1>8 DEF Recent, EngineRests, NotBelow
<1>11. Sums'
  BY <1>8 DEF Sums, EngineRests, Clearing, AddsUp
<1>12. Clean'
  BY DEF Clean, Cleared
<1> QED BY <1>1, <1>2, <1>4, <1>5, <1>6, <1>7, <1>9, <1>10, <1>11, <1>12

LEMMA NothingAsked ==
    ASSUME LatInv, sw.pc # "poll" \/ ~Lat!Busy
    PROVE  ~Requested /\ ~Serving /\ ~Crossing
BY BusyIs DEF LatInv, Phases

LEMMA SetBaseStep == ASSUME LatInv, Lat!SetBase PROVE LatInv'
<1>1. /\ sw.pc = "idle" /\ sw' = [sw EXCEPT !.pc = "width"]
      /\ ui' = [ui EXCEPT !.base = @ + 1]
      /\ UNCHANGED <<ackUi, atWrite, cfgq, cfg, seen, ack, image>> /\ EngineRests
  BY DEF Lat!SetBase, Lat!cdcVars, Lat!cmdVars, EngineRests
<1>2. ~Requested /\ ~Serving /\ ~Crossing
  BY <1>1, NothingAsked
<1>3. ui \in Lat!WordType /\ sw \in FirmwareType
  BY DEF LatInv, FirmTyped, FirmwareType
<1>4. image \in [Lat!Banks -> Lat!BankType] /\ atWrite \in [Lat!Banks -> Lat!BankType]
  BY DEF LatInv, EngineTyped
<1>5. ui' \in Lat!WordType /\ ui'.req = ui.req /\ ui'.snap = ui.snap /\ ui'.clr = ui.clr
  BY <1>1, <1>3 DEF Lat!WordType
<1>6. sw' \in FirmwareType /\ sw'.pc = "width"
  BY <1>1, <1>3 DEF FirmwareType
<1> QED BY <1>1, <1>2, <1>4, <1>5, <1>6, FirmwareMoves

LEMMA SetWidthStep == ASSUME LatInv, Lat!SetWidth PROVE LatInv'
<1>1. /\ sw.pc = "width" /\ sw' = Lat!Resting
      /\ ui' = [ui EXCEPT !.width = @ + 1]
      /\ UNCHANGED <<ackUi, atWrite, cfgq, cfg, seen, ack, image>> /\ EngineRests
  BY DEF Lat!SetWidth, Lat!cdcVars, Lat!cmdVars, EngineRests
<1>2. ~Requested /\ ~Serving /\ ~Crossing
  BY <1>1, NothingAsked
<1>3. ui \in Lat!WordType
  BY DEF LatInv, FirmTyped
<1>4. image \in [Lat!Banks -> Lat!BankType] /\ atWrite \in [Lat!Banks -> Lat!BankType]
  BY DEF LatInv, EngineTyped
<1>5. ui' \in Lat!WordType /\ ui'.req = ui.req /\ ui'.snap = ui.snap /\ ui'.clr = ui.clr
  BY <1>1, <1>3 DEF Lat!WordType
<1>6. sw' \in FirmwareType /\ sw'.pc = "idle"
  BY <1>1 DEF FirmwareType, Lat!Resting, Lat!Off, Lat!Toggles
<1> QED BY <1>1, <1>2, <1>4, <1>5, <1>6, FirmwareMoves

LEMMA CallStep == ASSUME LatInv, Lat!Call PROVE LatInv'
<1>1. /\ sw.pc = "idle"
      /\ \/ \E c \in [Lat!Banks -> BOOLEAN] :
              c # Lat!Off /\ sw' = [pc |-> "write", op |-> "clear", clr |-> c]
         \/ sw' = [pc |-> "write", op |-> "snap", clr |-> Lat!Off]
      /\ UNCHANGED <<ui, ackUi, atWrite, cfgq, cfg, seen, ack, image>> /\ EngineRests
  BY DEF Lat!Call, Lat!cdcVars, Lat!cmdVars, EngineRests
<1>2. ~Requested /\ ~Serving /\ ~Crossing
  BY <1>1, NothingAsked
<1>3. ui \in Lat!WordType
  BY DEF LatInv, FirmTyped
<1>4. image \in [Lat!Banks -> Lat!BankType] /\ atWrite \in [Lat!Banks -> Lat!BankType]
  BY DEF LatInv, EngineTyped
<1>5. /\ sw' \in FirmwareType /\ sw'.pc = "write"
      /\ \/ sw'.op = "snap" /\ sw'.clr = Lat!Off
         \/ sw'.op = "clear" /\ sw'.clr # Lat!Off
  <2>1. ASSUME NEW c \in [Lat!Banks -> BOOLEAN], c # Lat!Off,
               sw' = [pc |-> "write", op |-> "clear", clr |-> c]
        PROVE  sw' \in FirmwareType /\ sw'.pc = "write" /\ sw'.op = "clear" /\ sw'.clr # Lat!Off
    BY <2>1 DEF FirmwareType, Lat!Toggles
  <2>2. ASSUME sw' = [pc |-> "write", op |-> "snap", clr |-> Lat!Off]
        PROVE  sw' \in FirmwareType /\ sw'.pc = "write" /\ sw'.op = "snap" /\ sw'.clr = Lat!Off
    BY <2>2 DEF FirmwareType, Lat!Toggles, Lat!Off
  <2> QED BY <1>1, <2>1, <2>2
<1> QED BY <1>1, <1>2, <1>3, <1>4, <1>5, FirmwareMoves

LEMMA PollDoneStep == ASSUME LatInv, Lat!PollDone PROVE LatInv'
<1>1. /\ sw.pc = "poll" /\ ~Lat!Busy
      /\ sw' = IF sw.op = "snap" THEN [sw EXCEPT !.pc = "read"] ELSE Lat!Resting
      /\ UNCHANGED <<ui, ackUi, atWrite, cfgq, cfg, seen, ack, image>> /\ EngineRests
  BY DEF Lat!PollDone, Lat!cdcVars, Lat!cmdVars, EngineRests
<1>2. ~Requested /\ ~Serving /\ ~Crossing
  BY <1>1, NothingAsked
<1>3. ui \in Lat!WordType /\ sw \in FirmwareType
  BY DEF LatInv, FirmTyped, FirmwareType
<1>4. image \in [Lat!Banks -> Lat!BankType] /\ atWrite \in [Lat!Banks -> Lat!BankType]
  BY DEF LatInv, EngineTyped
<1>5. CASE sw.op = "snap"
  <2>1. sw' \in FirmwareType /\ sw'.pc = "read" /\ sw'.op = "snap" /\ sw'.clr = sw.clr
    BY <1>1, <1>3, <1>5 DEF FirmwareType
  <2> QED BY <1>1, <1>2, <1>3, <1>4, <1>5, <2>1, FirmwareMoves
<1>6. CASE sw.op # "snap"
  <2>1. sw' \in FirmwareType /\ sw'.pc = "idle"
    BY <1>1, <1>6 DEF FirmwareType, Lat!Resting, Lat!Off, Lat!Toggles
  <2> QED BY <1>1, <1>2, <1>3, <1>4, <2>1, FirmwareMoves
<1> QED BY <1>5, <1>6

LEMMA ReadDoneStep == ASSUME LatInv, Lat!ReadDone PROVE LatInv'
<1>1. /\ sw.pc = "read" /\ sw' = Lat!Resting
      /\ atWrite' = Lat!Empty /\ image' = Lat!Empty
      /\ UNCHANGED <<ui, ackUi, cfgq, cfg, seen, ack>> /\ EngineRests
  BY DEF Lat!ReadDone, Lat!cdcVars, EngineRests
<1>2. ~Requested /\ ~Serving /\ ~Crossing
  BY <1>1, NothingAsked
<1>3. ui \in Lat!WordType
  BY DEF LatInv, FirmTyped
<1>4. Lat!Empty \in [Lat!Banks -> Lat!BankType]
  BY DEF Lat!Empty, Lat!EmptyBank, Lat!BankType
<1>5. sw' \in FirmwareType /\ sw'.pc = "idle"
  BY <1>1 DEF FirmwareType, Lat!Resting, Lat!Off, Lat!Toggles
<1> QED BY <1>1, <1>2, <1>3, <1>4, <1>5, FirmwareMoves

LEMMA WriteCommandStep == ASSUME LatInv, Lat!WriteCommand PROVE LatInv'
<1>1. /\ sw.pc = "write" /\ ~Lat!Busy /\ sw' = [sw EXCEPT !.pc = "poll"]
      /\ ui' = [ui EXCEPT !.req = ~@,
                          !.snap = IF sw.op = "snap" THEN ~@ ELSE @,
                          !.clr = [b \in Lat!Banks |-> @[b] # sw.clr[b]]]
      /\ atWrite' = IF sw.op = "snap" THEN live ELSE Lat!Empty
      /\ UNCHANGED <<ackUi, cfgq, cfg, seen, ack, image>> /\ EngineRests
  BY DEF Lat!WriteCommand, Lat!cdcVars, Lat!cmdVars, EngineRests
<1>2. ~Requested /\ ~Serving /\ ~Crossing
  BY <1>1, NothingAsked
<1>3. ui \in Lat!WordType /\ sw \in FirmwareType
  BY DEF LatInv, FirmTyped, FirmwareType
<1>4. /\ ui'.req = ~ui.req
      /\ ui'.snap = (IF sw.op = "snap" THEN ~ui.snap ELSE ui.snap)
      /\ ui'.clr = [b \in Lat!Banks |-> ui.clr[b] # sw.clr[b]]
      /\ ui' \in Lat!WordType
  BY <1>1, <1>3 DEF Lat!WordType, FirmwareType, Lat!Toggles
<1>5. sw' \in FirmwareType /\ sw'.pc = "poll" /\ sw'.op = sw.op /\ sw'.clr = sw.clr
  BY <1>1, <1>3 DEF FirmwareType
<1>6. live \in [Lat!Banks -> Lat!BankType] /\ Lat!Empty \in [Lat!Banks -> Lat!BankType]
  BY DEF LatInv, EngineTyped, Lat!Empty, Lat!EmptyBank, Lat!BankType
<1>7. Requested' /\ ~Serving' /\ ~Crossing'
  BY <1>1, <1>2, <1>3, <1>4 DEF Requested, Serving, Crossing, Lat!WordType
<1> USE DEF LatInv
<1>8. FirmTyped'
  BY <1>1, <1>4, <1>5 DEF FirmTyped, FirmwareType
<1>9. EngineTyped'
  BY <1>1, <1>6 DEF EngineTyped, EngineRests
<1>10. Phases'
  BY <1>1, <1>5, <1>7 DEF Phases
<1>11. Asked'
  <2>1. ui.snap = seen.snap /\ ui.clr = seen.clr
    BY <1>2 DEF Asked
  <2>2. ui.snap \in BOOLEAN /\ ui.clr \in [Lat!Banks -> BOOLEAN] /\ sw.clr \in [Lat!Banks -> BOOLEAN]
    BY <1>3 DEF Lat!WordType, FirmwareType, Lat!Toggles
  <2>3. (ui'.snap # seen'.snap) <=> sw'.op = "snap"
    BY <1>1, <1>4, <1>5, <2>1, <2>2
  <2>4. ASSUME NEW b \in Lat!Banks PROVE (ui'.clr[b] # seen'.clr[b]) <=> sw'.clr[b]
    BY <1>1, <1>4, <1>5, <2>1, <2>2
  <2> QED BY <1>7, <2>3, <2>4 DEF Asked
<1>12. Words'
  <2>1. Old(cfg) /\ \A i \in 1 .. Len(cfgq) : Old(cfgq[i])
    BY <1>2 DEF Words
  <2>2. cfgq \in Seq(Lat!WordType)
    BY DEF FirmTyped
  <2>3. Old(Lat!LastSent)
    BY <2>1, <2>2 DEF Lat!LastSent
  <2> QED BY <1>1, <1>7, <2>1, <2>2, <2>3 DEF Words, Old, Lat!LastSent
<1>13. Served'
  BY <1>1, <1>2, <1>7 DEF Served, EngineRests
<1>14. ~Taken' /\ ~Cleared'
  BY <1>7 DEF Taken, Cleared
<1>15. Recent'
  BY <1>1, <1>5, <1>6, <1>14 DEF Recent, NotBelow, Lat!BankType, EngineRests
<1>16. Sums'
  BY <1>1, <1>14 DEF Sums, EngineRests, Clearing, AddsUp
<1> QED BY <1>8, <1>9, <1>10, <1>11, <1>12, <1>13, <1>14, <1>15, <1>16 DEF Copied, Clean

-----------------------------------------------------------------------------
(* The crossings.                                                           *)

LEMMA CrossingRests ==
    ASSUME LatInv, EngineRests, UNCHANGED <<ui, sw, atWrite, image, seen, ack>>,
           Crossing' => Crossing
    PROVE  (EngineTyped /\ Phases /\ Asked /\ Copied /\ Recent /\ Sums /\ Clean)'
<1> USE DEF LatInv
<1>1. EngineTyped'
  BY DEF EngineTyped, EngineRests
<1>2. Requested' = Requested /\ Serving' = Serving
  BY DEF Requested, Serving
<1>3. (Taken' <=> Taken) /\ (Cleared' <=> Cleared)
  BY <1>2 DEF Taken, Cleared
<1>4. Phases' /\ Asked'
  BY <1>2 DEF Phases, Asked
<1>5. Copied'
  BY <1>2, <1>3, CopyStays DEF EngineRests
<1>6. Recent' /\ Sums'
  BY <1>2, <1>3 DEF Recent, Sums, EngineRests, NotBelow, Clearing, AddsUp
<1>7. Clean'
  BY <1>2, <1>3 DEF Clean, EngineRests
<1> QED BY <1>1, <1>4, <1>5, <1>6, <1>7

LEMMA CfgSampleStep == ASSUME LatInv, Lat!CfgSample PROVE LatInv'
<1> USE DEF LatInv
<1>1. /\ ui # Lat!LastSent /\ cfgq' = Append(cfgq, ui)
      /\ UNCHANGED <<ui, ackUi, sw, atWrite, image, cfg, seen, ack>> /\ EngineRests
  BY DEF Lat!CfgSample, Lat!uiVars, Lat!cmdVars, EngineRests
<1>2. (EngineTyped /\ Phases /\ Asked /\ Copied /\ Recent /\ Sums /\ Clean)'
  BY <1>1, CrossingRests DEF Crossing
<1>3. cfgq \in Seq(Lat!WordType) /\ ui \in Lat!WordType
  BY DEF FirmTyped
<1>4. /\ cfgq' \in Seq(Lat!WordType) /\ cfgq' # <<>> /\ Len(cfgq') = Len(cfgq) + 1
      /\ cfgq'[Len(cfgq')] = ui
      /\ \A i \in 1 .. Len(cfgq) : cfgq'[i] = cfgq[i]
  BY <1>1, <1>3
<1>5. FirmTyped'
  BY <1>1, <1>4 DEF FirmTyped
<1>6. Requested' = Requested /\ Serving' = Serving
  BY <1>1 DEF Requested, Serving
<1>7. Words'
  <2>1. CASE ~Requested
    <3>1. sw.pc \notin {"poll", "read"}
      BY <1>1, <2>1 DEF Words, Lat!LastSent
    <3>2. Old(cfg) /\ Old(ui) /\ \A i \in 1 .. Len(cfgq) : Old(cfgq[i])
      BY <2>1 DEF Words, Old, Requested
    <3> QED BY <1>1, <1>3, <1>4, <1>6, <2>1, <3>1, <3>2 DEF Words, Old
  <2>2. CASE Requested
    <3>1. Old(Lat!LastSent) /\ Lat!LastSent' = ui
      BY <1>1, <1>4, <2>2 DEF Words, Lat!LastSent
    <3>2. Old(cfg) /\ \A i \in 1 .. Len(cfgq) : Old(cfgq[i])
      BY <1>3, <2>2, <3>1 DEF Words, Lat!LastSent
    <3> QED BY <1>1, <1>3, <1>4, <1>6, <2>2, <3>1, <3>2 DEF Words, Old
  <2> QED BY <2>1, <2>2
<1>8. Served'
  BY <1>1, <1>6 DEF Served, EngineRests
<1> QED BY <1>2, <1>5, <1>7, <1>8

LEMMA CfgDeliverStep == ASSUME LatInv, Lat!CfgDeliver PROVE LatInv'
<1> USE DEF LatInv
<1>1. /\ cfgq # <<>> /\ cfg' = Head(cfgq) /\ cfgq' = Tail(cfgq)
      /\ UNCHANGED <<ui, ackUi, sw, atWrite, image, seen, ack>> /\ EngineRests
  BY DEF Lat!CfgDeliver, Lat!uiVars, Lat!cmdVars, EngineRests
<1>2. (EngineTyped /\ Phases /\ Asked /\ Copied /\ Recent /\ Sums /\ Clean)'
  BY <1>1, CrossingRests DEF Crossing
<1>3. cfgq \in Seq(Lat!WordType)
  BY DEF FirmTyped
<1>4. /\ Len(cfgq) \in Nat \ {0} /\ cfg' = cfgq[1] /\ cfg' \in Lat!WordType
      /\ cfgq' \in Seq(Lat!WordType) /\ Len(cfgq') = Len(cfgq) - 1
      /\ \A i \in 1 .. Len(cfgq) - 1 : cfgq'[i] = cfgq[i + 1]
      /\ Lat!LastSent = cfgq[Len(cfgq)]
  BY <1>1, <1>3 DEF Lat!LastSent
<1>5. FirmTyped'
  BY <1>1, <1>4 DEF FirmTyped
<1>6. Requested' = Requested /\ Serving' = Serving
  BY <1>1 DEF Requested, Serving
<1>7. Lat!LastSent' = Lat!LastSent
  <2>1. CASE Len(cfgq) = 1
    BY <1>4, <2>1 DEF Lat!LastSent
  <2>2. CASE Len(cfgq) # 1
    <3>1. cfgq' # <<>> /\ cfgq'[Len(cfgq')] = cfgq[Len(cfgq)]
      BY <1>4, <2>2
    <3> QED BY <1>4, <3>1 DEF Lat!LastSent
  <2> QED BY <2>1, <2>2
<1>8. Words'
  <2>1. CASE ~Requested
    <3>1. sw.pc \notin {"poll", "read"}
      BY <1>1, <2>1 DEF Words
    <3>2. \A i \in 1 .. Len(cfgq) : Old(cfgq[i])
      BY <2>1 DEF Words
    <3>3. Old(cfgq[1]) /\ \A i \in 1 .. Len(cfgq') : Old(cfgq'[i])
      BY <1>4, <3>2
    <3> QED BY <1>1, <1>4, <1>6, <2>1, <3>1, <3>3 DEF Words, Old
  <2>2. CASE Requested
    <3>1. /\ \A i \in 1 .. Len(cfgq) - 1 : Old(cfgq[i])
          /\ Lat!LastSent = ui \/ Old(Lat!LastSent)
      BY <2>2 DEF Words
    <3>2. \A i \in 1 .. Len(cfgq') - 1 : Old(cfgq'[i])
      BY <1>4, <3>1
    <3>3. cfgq' # <<>> => Old(cfgq[1])
      <4>1. cfgq' # <<>> => Len(cfgq) > 1
        BY <1>4
      <4> QED BY <1>4, <3>1, <4>1
    <3> QED BY <1>1, <1>4, <1>6, <1>7, <2>2, <3>1, <3>2, <3>3 DEF Words, Old
  <2> QED BY <2>1, <2>2
<1>9. state # "CMD"
  BY <1>1 DEF Served, Words, Old, Requested
<1>10. Served'
  BY <1>1, <1>6, <1>9 DEF Served, EngineRests
<1> QED BY <1>2, <1>5, <1>8, <1>10

LEMMA AckCrossStep == ASSUME LatInv, Lat!AckCross PROVE LatInv'
<1> USE DEF LatInv
<1>1. /\ ackUi' = ack
      /\ UNCHANGED <<ui, sw, atWrite, cfgq, cfg, seen, ack, image>> /\ EngineRests
  BY DEF Lat!AckCross, Lat!cdcVars, Lat!cmdVars, EngineRests
<1>2. ~Crossing'
  BY <1>1 DEF Crossing
<1>3. (EngineTyped /\ Phases /\ Asked /\ Copied /\ Recent /\ Sums /\ Clean)'
  BY <1>1, <1>2, CrossingRests
<1>4. FirmTyped'
  BY <1>1 DEF FirmTyped
<1>5. Requested' = Requested /\ Serving' = Serving
  BY <1>1 DEF Requested, Serving
<1>6. Words' /\ Served'
  BY <1>1, <1>5 DEF Words, Old, Served, Lat!LastSent, EngineRests
<1> QED BY <1>3, <1>4, <1>6

-----------------------------------------------------------------------------
(* The engine's steps.                                                      *)

\* The registers, the crossings and the handshake rest.
HandshakeRests == UNCHANGED <<ui, sw, ackUi, atWrite, cfgq, cfg, seen, ack>>

LEMMA EngineAlone ==
    ASSUME LatInv, HandshakeRests
    PROVE  /\ (FirmTyped /\ Phases /\ Asked /\ Words)'
           /\ Requested' = Requested /\ Serving' = Serving
           /\ (Taken' <=> Taken) /\ (Cleared' <=> Cleared)
<1> USE DEF LatInv
<1>1. Requested' = Requested /\ Serving' = Serving /\ Crossing' = Crossing
  BY DEF HandshakeRests, Requested, Serving, Crossing
<1>2. FirmTyped'
  BY DEF FirmTyped, HandshakeRests
<1>3. Phases' /\ Asked'
  BY <1>1 DEF Phases, Asked, HandshakeRests
<1>4. Words'
  BY <1>1 DEF Words, Old, Lat!LastSent, HandshakeRests
<1>5. (Taken' <=> Taken) /\ (Cleared' <=> Cleared)
  BY <1>1 DEF Taken, Cleared, HandshakeRests
<1> QED BY <1>1, <1>2, <1>3, <1>4, <1>5

\* Outside the service of a request the shadow takes no word, and what was copied stays.
LEMMA CopyRests ==
    ASSUME LatInv, HandshakeRests, UNCHANGED <<image, shadow>>,
           state \notin {"SNAP_SC", "SNAP_BIN", "ACK"}, ~wr.valid,
           state' \notin {"SNAP_SC", "SNAP_BIN", "ACK"}, ~wr'.valid,
           Taken => ~Serving
    PROVE  Copied'
<1>1. Serving' = Serving /\ (Taken' <=> Taken)
  BY EngineAlone
<1> SUFFICES ASSUME Taken
             PROVE  /\ \A b \in Lat!Banks, w \in Lat!Scalars : shadow'[b].sc[w] = ImageWord(b, w)'
                    /\ \A b \in Lat!Banks, i \in BinWords :
                          BinShown(b, i)' = image'[b].bins[i \div 2]
  BY <1>1 DEF Copied
<1>2. /\ \A b \in Lat!Banks, w \in Lat!Scalars : shadow[b].sc[w] = ImageWord(b, w)
      /\ \A b \in Lat!Banks, i \in BinWords : BinShown(b, i) = image[b].bins[i \div 2]
  BY DEF LatInv, Copied, ScDone, BinDone
<1>3. \A b, w : ImageWord(b, w)' = ImageWord(b, w)
  BY DEF ImageWord, HandshakeRests
<1>4. \A b, i : BinShown(b, i)' = BinShown(b, i)
  BY DEF BinShown
<1> QED BY <1>2, <1>3, <1>4

\* While a sample is counted or a command waits, the engine serves nothing.
LEMMA NoService ==
    ASSUME LatInv, state \in {"IDLE", "P1", "P2", "P3", "P4", "CMD"}
    PROVE  ~Serving /\ ~wr.valid /\ Lat!ShadowBin = shadow
BY DEF LatInv, Served, Lat!ShadowBin

LEMMA LatConsts ==
    /\ LAT_BANKS \in Nat \ {0} /\ NBINS \in Nat \ {0}
    /\ 0 \in Lat!Banks /\ 0 \in Lat!Bins /\ 0 \in BinWords /\ 0 \in Lat!Scalars
    /\ Lat!Banks \subseteq Nat /\ Lat!Bins \subseteq Nat /\ BinWords \subseteq Nat
BY StatsAssumption DEF Lat!LatencyStatsAssumption, Lat!Banks, Lat!Bins, BinWords, Lat!Scalars

\* The registers of the pipeline: a cycle that moves nothing but the sample.
LEMMA PipelineStep ==
    ASSUME LatInv, HandshakeRests, UNCHANGED <<sweep, wr, cmd, image, live, shadow>>,
           state \in {"P1", "P2", "P3"}, state' \in {"P2", "P3", "P4"},
           smp' \in [bank : Lat!Banks, bin : Lat!Bins, base : Nat, width : Nat, q : Nat],
           state' = "P4" => smp'.q = live[smp'.bank].bins[smp'.bin],
           Cleared => smp'.base = ui.base /\ (state' \in {"P3", "P4"} => smp'.width = ui.width)
    PROVE  LatInv'
<1>1. /\ (FirmTyped /\ Phases /\ Asked /\ Words)'
      /\ Requested' = Requested /\ Serving' = Serving
      /\ (Taken' <=> Taken) /\ (Cleared' <=> Cleared)
  BY EngineAlone
<1>2. ~Serving /\ ~wr.valid
  BY NoService
<1>3. Copied'
  BY <1>2, CopyRests
<1> USE DEF LatInv
<1>4. EngineTyped'
  BY DEF EngineTyped, EngineStates, HandshakeRests
<1>5. Served'
  BY <1>1, <1>2 DEF Served
<1>6. Recent' /\ Sums'
  BY <1>1 DEF Recent, Sums, NotBelow, Clearing, AddsUp, HandshakeRests
<1>7. Clean'
  <2> SUFFICES ASSUME Cleared PROVE Clean'
    BY <1>1 DEF Clean
  <2>1. \A b \in Lat!Banks : sw.clr[b] => live[b].geos \subseteq {<<ui.base, ui.width>>}
    BY <1>2 DEF Clean
  <2> QED BY <2>1 DEF Clean, HandshakeRests
<1> QED BY <1>1, <1>3, <1>4, <1>5, <1>6, <1>7

LEMMA SubtractBaseStep == ASSUME LatInv, Lat!SubtractBase PROVE LatInv'
<1>1. /\ state = "P1" /\ state' = "P2" /\ smp' = [smp EXCEPT !.base = cfg.base]
      /\ HandshakeRests /\ UNCHANGED <<sweep, wr, cmd, image, live, shadow>>
  BY DEF Lat!SubtractBase, Lat!uiVars, Lat!cdcVars, Lat!cmdVars, HandshakeRests
<1>2. /\ smp \in [bank : Lat!Banks, bin : Lat!Bins, base : Nat, width : Nat, q : Nat]
      /\ cfg.base \in Nat
  BY DEF LatInv, EngineTyped, FirmTyped, Lat!WordType
<1>3. /\ smp' \in [bank : Lat!Banks, bin : Lat!Bins, base : Nat, width : Nat, q : Nat]
      /\ smp'.base = cfg.base
  BY <1>1, <1>2
<1>4. Cleared => cfg = ui
  BY DEF LatInv, Words, Cleared
<1> QED BY <1>1, <1>3, <1>4, PipelineStep

LEMMA ShiftWidthStep == ASSUME LatInv, Lat!ShiftWidth PROVE LatInv'
<1>1. /\ state = "P2" /\ state' = "P3" /\ smp' = [smp EXCEPT !.width = cfg.width]
      /\ HandshakeRests /\ UNCHANGED <<sweep, wr, cmd, image, live, shadow>>
  BY DEF Lat!ShiftWidth, Lat!uiVars, Lat!cdcVars, Lat!cmdVars, HandshakeRests
<1>2. /\ smp \in [bank : Lat!Banks, bin : Lat!Bins, base : Nat, width : Nat, q : Nat]
      /\ cfg.width \in Nat
  BY DEF LatInv, EngineTyped, FirmTyped, Lat!WordType
<1>3. /\ smp' \in [bank : Lat!Banks, bin : Lat!Bins, base : Nat, width : Nat, q : Nat]
      /\ smp'.width = cfg.width /\ smp'.base = smp.base
  BY <1>1, <1>2
<1>4. Cleared => cfg = ui /\ smp.base = ui.base
  BY <1>1 DEF LatInv, Words, Clean, Cleared
<1> QED BY <1>1, <1>3, <1>4, PipelineStep

LEMMA ReadBinStep == ASSUME LatInv, Lat!ReadBin PROVE LatInv'
<1>1. /\ state = "P3" /\ state' = "P4"
      /\ smp' = [smp EXCEPT !.q = live[smp.bank].bins[smp.bin]]
      /\ HandshakeRests /\ UNCHANGED <<sweep, wr, cmd, image, live, shadow>>
  BY DEF Lat!ReadBin, Lat!uiVars, Lat!cdcVars, Lat!cmdVars, HandshakeRests
<1>2. /\ smp \in [bank : Lat!Banks, bin : Lat!Bins, base : Nat, width : Nat, q : Nat]
      /\ live[smp.bank].bins[smp.bin] \in Nat
  BY DEF LatInv, EngineTyped, Lat!BankType
<1>3. /\ smp' \in [bank : Lat!Banks, bin : Lat!Bins, base : Nat, width : Nat, q : Nat]
      /\ smp'.width = smp.width /\ smp'.base = smp.base
      /\ smp'.bank = smp.bank /\ smp'.bin = smp.bin
      /\ smp'.q = live[smp.bank].bins[smp.bin]
  BY <1>1, <1>2
<1>4. Cleared => smp.base = ui.base /\ smp.width = ui.width
  BY <1>1 DEF LatInv, Clean
<1> QED BY <1>1, <1>3, <1>4, PipelineStep

LEMMA TakeStep == ASSUME LatInv, Lat!Take PROVE LatInv'
<1>1. /\ state = "IDLE" /\ Lat!Pending /\ state' = "CMD" /\ sweep' = Lat!Start
      /\ wr' = Lat!NoWord /\ shadow' = Lat!ShadowBin
      /\ HandshakeRests /\ UNCHANGED <<cmd, image, live, smp>>
  BY DEF Lat!Take, Lat!uiVars, Lat!cdcVars, Lat!cmdVars, HandshakeRests
<1>2. /\ (FirmTyped /\ Phases /\ Asked /\ Words)'
      /\ Requested' = Requested /\ Serving' = Serving
      /\ (Taken' <=> Taken) /\ (Cleared' <=> Cleared)
  BY <1>1, EngineAlone
<1>3. ~Serving /\ ~wr.valid /\ shadow' = shadow
  BY <1>1, NoService
<1>4. ~wr'.valid /\ wr' \in [valid : BOOLEAN, bank : Lat!Banks, idx : BinWords, val : Nat]
  BY <1>1, LatConsts DEF Lat!NoWord
<1>5. sweep' \in [bank : Lat!Banks, idx : Nat]
  BY <1>1, LatConsts DEF Lat!Start
<1>6. Copied'
  BY <1>1, <1>3, <1>4, CopyRests
<1> USE DEF LatInv
<1>7. EngineTyped'
  BY <1>1, <1>3, <1>4, <1>5 DEF EngineTyped, EngineStates, HandshakeRests
<1>8. Requested /\ cfg = ui
  BY <1>1 DEF Lat!Pending, Words, Old, Lat!LastSent
<1>9. Served'
  BY <1>1, <1>2, <1>3, <1>4, <1>8 DEF Served, HandshakeRests
<1>10. Recent' /\ Sums'
  BY <1>1, <1>2 DEF Recent, Sums, NotBelow, Clearing, AddsUp, HandshakeRests
<1>11. Clean'
  BY <1>2, <1>8 DEF Clean, Cleared
<1> QED BY <1>2, <1>6, <1>7, <1>9, <1>10, <1>11

\* A sample raises the counts of one bank; what is counted in it stays counted.
LEMMA CountsRise ==
    ASSUME LatInv, HandshakeRests, image' = image, ~Serving, state # "CLR",
           state' # "CLR", live' \in [Lat!Banks -> Lat!BankType],
           NotBelow(live', live),
           \A b \in Lat!Banks : AddsUp(live'[b]),
           state' = "P4" => smp'.q = live'[smp'.bank].bins[smp'.bin]
    PROVE  Recent' /\ Sums'
<1>1. Requested' = Requested /\ Serving' = Serving /\ (Taken' <=> Taken)
  BY EngineAlone
<1>2. /\ live \in [Lat!Banks -> Lat!BankType] /\ atWrite \in [Lat!Banks -> Lat!BankType]
  BY DEF LatInv, EngineTyped
<1>3. NotBelow(live, atWrite) => NotBelow(live', atWrite)
  BY <1>2 DEF NotBelow, Lat!BankType
<1>4. Recent'
  BY <1>1, <1>3 DEF LatInv, Recent, NotBelow, HandshakeRests
<1>5. Sums'
  BY <1>1 DEF LatInv, Sums, Clearing, AddsUp
<1> QED BY <1>4, <1>5

LEMMA AcceptStep == ASSUME LatInv, Lat!Accept PROVE LatInv'
<1>1. /\ state = "IDLE" /\ sweep' = Lat!Start /\ wr' = Lat!NoWord /\ shadow' = Lat!ShadowBin
      /\ HandshakeRests /\ UNCHANGED <<cmd, image>>
  BY DEF Lat!Accept, Lat!uiVars, Lat!cdcVars, Lat!cmdVars, HandshakeRests
<1>2. PICK b \in Lat!Banks :
        \/ live' = [live EXCEPT ![b].imp = @ + 1] /\ state' = "IDLE" /\ smp' = smp
        \/ /\ \E i \in Lat!Bins : smp' = [Lat!NoSample EXCEPT !.bank = b, !.bin = i]
           /\ state' = "P1" /\ live' = live
  BY <1>1 DEF Lat!Accept
<1>3. /\ (FirmTyped /\ Phases /\ Asked /\ Words)'
      /\ Requested' = Requested /\ Serving' = Serving
      /\ (Taken' <=> Taken) /\ (Cleared' <=> Cleared)
  BY <1>1, EngineAlone
<1>4. ~Serving /\ ~wr.valid /\ shadow' = shadow
  BY <1>1, NoService
<1>5. ~wr'.valid /\ wr' \in [valid : BOOLEAN, bank : Lat!Banks, idx : BinWords, val : Nat]
  BY <1>1, LatConsts DEF Lat!NoWord
<1>6. sweep' \in [bank : Lat!Banks, idx : Nat]
  BY <1>1, LatConsts DEF Lat!Start
<1>7. state' \in {"IDLE", "P1"}
  BY <1>2
<1>8. Copied'
  BY <1>1, <1>4, <1>5, <1>7, CopyRests
<1>9. live \in [Lat!Banks -> Lat!BankType]
  BY DEF LatInv, EngineTyped
<1>10. /\ live' \in [Lat!Banks -> Lat!BankType]
       /\ \A c \in Lat!Banks : /\ live'[c].cnt = live[c].cnt /\ live'[c].imp >= live[c].imp
                               /\ live'[c].bins = live[c].bins /\ live'[c].geos = live[c].geos
  <2>1. CASE live' = live
    BY <1>9, <2>1 DEF Lat!BankType
  <2>2. CASE live' = [live EXCEPT ![b].imp = @ + 1]
    <3>1. live[b] \in Lat!BankType
      BY <1>9
    <3>2. /\ live'[b].imp = live[b].imp + 1 /\ live'[b].cnt = live[b].cnt
          /\ live'[b].bins = live[b].bins /\ live'[b].geos = live[b].geos
          /\ live'[b] \in Lat!BankType
      BY <1>9, <2>2, <3>1 DEF Lat!BankType
    <3>3. /\ live' \in [Lat!Banks -> Lat!BankType]
          /\ \A c \in Lat!Banks : c # b => live'[c] = live[c]
      BY <1>9, <2>2, <3>2
    <3>4. \A c \in Lat!Banks : live[c].imp \in Nat
      BY <1>9 DEF Lat!BankType
    <3> QED BY <3>2, <3>3, <3>4
  <2> QED BY <1>2, <2>1, <2>2
<1>11. smp' \in [bank : Lat!Banks, bin : Lat!Bins, base : Nat, width : Nat, q : Nat]
  <2>1. smp \in [bank : Lat!Banks, bin : Lat!Bins, base : Nat, width : Nat, q : Nat]
    BY DEF LatInv, EngineTyped
  <2>2. ASSUME NEW i \in Lat!Bins, smp' = [Lat!NoSample EXCEPT !.bank = b, !.bin = i]
        PROVE  smp' \in [bank : Lat!Banks, bin : Lat!Bins, base : Nat, width : Nat, q : Nat]
    BY <2>2 DEF Lat!NoSample
  <2> QED BY <1>2, <2>1, <2>2
<1>12. Recent' /\ Sums'
  <2>1. \A c \in Lat!Banks : AddsUp(live[c])
    BY <1>1 DEF LatInv, Sums, Clearing
  <2>2. \A c \in Lat!Banks : AddsUp(live'[c])
    BY <1>10, <2>1 DEF AddsUp
  <2>3. NotBelow(live', live)
    BY <1>9, <1>10 DEF NotBelow, Lat!BankType
  <2> QED BY <1>1, <1>4, <1>7, <1>10, <2>2, <2>3, CountsRise
<1>13. EngineTyped'
  BY <1>1, <1>4, <1>5, <1>6, <1>7, <1>10, <1>11 DEF LatInv, EngineTyped, EngineStates, HandshakeRests
<1>14. Served'
  BY <1>1, <1>3, <1>4, <1>5, <1>7 DEF Served
<1>15. Clean'
  <2>1. Cleared => \A c \in Lat!Banks : sw.clr[c] => live[c].geos \subseteq {<<ui.base, ui.width>>}
    BY <1>4 DEF LatInv, Clean
  <2> QED BY <1>1, <1>3, <1>4, <1>7, <1>10, <2>1 DEF Clean, HandshakeRests
<1> QED BY <1>3, <1>8, <1>12, <1>13, <1>14, <1>15 DEF LatInv

LEMMA CountStep == ASSUME LatInv, Lat!Count PROVE LatInv'
<1> DEFINE b == smp.bank
           i == smp.bin
           geo == <<smp.base, smp.width>>
<1>1. /\ state = "P4" /\ state' = "IDLE" /\ smp' = Lat!NoSample
      /\ live' = [live EXCEPT ![b].bins[i] = smp.q + 1, ![b].cnt = @ + 1,
                              ![b].geos = @ \cup {geo}]
      /\ HandshakeRests /\ UNCHANGED <<sweep, wr, cmd, image, shadow>>
  BY DEF Lat!Count, Lat!uiVars, Lat!cdcVars, Lat!cmdVars, HandshakeRests
<1>2. /\ live \in [Lat!Banks -> Lat!BankType]
      /\ smp \in [bank : Lat!Banks, bin : Lat!Bins, base : Nat, width : Nat, q : Nat]
      /\ smp.q = live[b].bins[i]
  BY <1>1 DEF LatInv, EngineTyped, Sums
<1>3. /\ (FirmTyped /\ Phases /\ Asked /\ Words)'
      /\ Requested' = Requested /\ Serving' = Serving
      /\ (Taken' <=> Taken) /\ (Cleared' <=> Cleared)
  BY <1>1, EngineAlone
<1>4. ~Serving /\ ~wr.valid
  BY <1>1, NoService
<1>5. Copied'
  BY <1>1, <1>4, CopyRests
<1>6. /\ b \in Lat!Banks /\ i \in Lat!Bins /\ geo \in Nat \X Nat
      /\ live[b] \in Lat!BankType
  BY <1>2
<1>7. /\ live'[b].cnt = live[b].cnt + 1 /\ live'[b].imp = live[b].imp
      /\ live'[b].bins = [live[b].bins EXCEPT ![i] = @ + 1]
      /\ live'[b].geos = live[b].geos \cup {geo}
      /\ live'[b] \in Lat!BankType
  BY <1>1, <1>2, <1>6 DEF Lat!BankType
<1>8. /\ live' \in [Lat!Banks -> Lat!BankType]
      /\ \A c \in Lat!Banks : c # b => live'[c] = live[c]
  BY <1>1, <1>2, <1>7
<1> HIDE DEF b, i, geo
<1>9. \A c \in Lat!Banks : AddsUp(live'[c])
  <2>1. \A c \in Lat!Banks : AddsUp(live[c])
    BY <1>1 DEF LatInv, Sums, Clearing
  <2>2. live[b].bins \in Tallies
    BY <1>6 DEF Lat!BankType, Tallies
  <2>3. Lat!Total(live'[b].bins) = Lat!Total(live[b].bins) + 1
    BY <1>6, <1>7, <2>2, TotalBumped
  <2>4. AddsUp(live'[b])
    BY <1>6, <1>7, <2>1, <2>3 DEF AddsUp
  <2> QED BY <1>8, <2>1, <2>4
<1>10. NotBelow(live', live)
  BY <1>2, <1>6, <1>7, <1>8 DEF NotBelow, Lat!BankType
<1>11. Recent' /\ Sums'
  BY <1>1, <1>4, <1>8, <1>9, <1>10, CountsRise
<1>12. smp' \in [bank : Lat!Banks, bin : Lat!Bins, base : Nat, width : Nat, q : Nat]
  BY <1>1, LatConsts DEF Lat!NoSample
<1>13. EngineTyped'
  BY <1>1, <1>8, <1>12 DEF LatInv, EngineTyped, EngineStates, HandshakeRests
<1>14. Served'
  BY <1>1, <1>3, <1>4 DEF Served
<1>15. Clean'
  <2>1. Cleared => /\ \A c \in Lat!Banks : sw.clr[c] => live[c].geos \subseteq {<<ui.base, ui.width>>}
                   /\ geo = <<ui.base, ui.width>>
    BY <1>1, <1>4 DEF LatInv, Clean, geo
  <2>2. Cleared => \A c \in Lat!Banks : sw.clr[c] => live'[c].geos \subseteq {<<ui.base, ui.width>>}
    BY <1>7, <1>8, <2>1
  <2> QED BY <1>1, <1>3, <2>2 DEF Clean, HandshakeRests
<1> QED BY <1>3, <1>5, <1>11, <1>13, <1>14, <1>15 DEF LatInv

\* The write port's cycle: the pending bin word is in the shadow after it.
ShadowWritten ==
    /\ shadow' \in [Lat!Banks -> [sc : [Lat!Scalars -> Nat], bins : [BinWords -> Nat]]]
    /\ \A b \in Lat!Banks, w \in Lat!Scalars : shadow'[b].sc[w] = shadow[b].sc[w]
    /\ \A b \in Lat!Banks, i \in BinWords : shadow'[b].bins[i] = BinShown(b, i)

LEMMA ShadowTakes ==
    ASSUME wr \in [valid : BOOLEAN, bank : Lat!Banks, idx : BinWords, val : Nat],
           shadow \in [Lat!Banks -> [sc : [Lat!Scalars -> Nat], bins : [BinWords -> Nat]]],
           shadow' = Lat!ShadowBin
    PROVE  ShadowWritten
<1>1. CASE ~wr.valid
  BY <1>1 DEF ShadowWritten, BinShown, Lat!ShadowBin
<1>2. CASE wr.valid
  <2>1. shadow' = [shadow EXCEPT ![wr.bank].bins[wr.idx] = wr.val]
    BY <1>2 DEF Lat!ShadowBin
  <2>2. /\ wr.bank \in Lat!Banks /\ wr.idx \in BinWords /\ wr.val \in Nat
        /\ shadow[wr.bank] \in [sc : [Lat!Scalars -> Nat], bins : [BinWords -> Nat]]
    OBVIOUS
  <2>3. /\ shadow'[wr.bank].sc = shadow[wr.bank].sc
        /\ shadow'[wr.bank].bins = [shadow[wr.bank].bins EXCEPT ![wr.idx] = wr.val]
        /\ shadow'[wr.bank] \in [sc : [Lat!Scalars -> Nat], bins : [BinWords -> Nat]]
    BY <2>1, <2>2
  <2>4. /\ shadow' \in [Lat!Banks -> [sc : [Lat!Scalars -> Nat], bins : [BinWords -> Nat]]]
        /\ \A b \in Lat!Banks : b # wr.bank => shadow'[b] = shadow[b]
    BY <2>1, <2>2, <2>3
  <2>5. \A i \in BinWords : shadow'[wr.bank].bins[i] = IF i = wr.idx THEN wr.val
                                                      ELSE shadow[wr.bank].bins[i]
    BY <2>2, <2>3
  <2>6. \A b \in Lat!Banks, w \in Lat!Scalars : shadow'[b].sc[w] = shadow[b].sc[w]
    BY <2>3, <2>4
  <2>7. \A b \in Lat!Banks, i \in BinWords : shadow'[b].bins[i] = BinShown(b, i)
    BY <1>2, <2>4, <2>5 DEF BinShown
  <2> QED BY <2>4, <2>6, <2>7 DEF ShadowWritten
<1> QED BY <1>1, <1>2

\* The request becomes the command served; its snapshot is of this cycle.
LEMMA LatchStep == ASSUME LatInv, Lat!Latch PROVE LatInv'
<1> DEFINE clr == [b \in Lat!Banks |-> cfg.clr[b] # seen.clr[b]]
           snap == cfg.snap # seen.snap
<1>1. /\ state = "CMD"
      /\ seen' = [req |-> cfg.req, snap |-> cfg.snap, clr |-> cfg.clr]
      /\ cmd' = [req |-> cfg.req, snap |-> snap, clr |-> clr]
      /\ image' = IF snap THEN live ELSE image
      /\ state' = CASE clr # Lat!Off -> "CLR" [] clr = Lat!Off /\ snap -> "SNAP_SC" [] OTHER -> "ACK"
      /\ sweep' = Lat!Start
      /\ UNCHANGED <<ui, sw, ackUi, atWrite, cfgq, cfg, ack, wr, smp, live, shadow>>
  BY DEF Lat!Latch, Lat!uiVars, Lat!cdcVars
<1>2. /\ Requested /\ cfg = ui /\ ~Serving /\ ~Crossing /\ sw.pc = "poll" /\ ~wr.valid
  BY <1>1 DEF LatInv, Served, Phases
<1>3. /\ ui \in Lat!WordType /\ sw \in FirmwareType
      /\ seen \in [req : BOOLEAN, snap : BOOLEAN, clr : Lat!Toggles]
      /\ ack \in BOOLEAN /\ ackUi \in BOOLEAN
  BY DEF LatInv, FirmTyped
<1>4. /\ \/ sw.op = "snap" /\ sw.clr = Lat!Off
         \/ sw.op = "clear" /\ sw.clr # Lat!Off
      /\ (ui.snap # seen.snap) <=> sw.op = "snap"
      /\ \A b \in Lat!Banks : (ui.clr[b] # seen.clr[b]) <=> sw.clr[b]
  BY <1>2 DEF LatInv, Phases, Asked
<1>5. clr = sw.clr
  <2>1. /\ ui.clr \in [Lat!Banks -> BOOLEAN] /\ seen.clr \in [Lat!Banks -> BOOLEAN]
        /\ sw.clr \in [Lat!Banks -> BOOLEAN]
    BY <1>3 DEF Lat!WordType, FirmwareType, Lat!Toggles
  <2>2. \A b \in Lat!Banks : (ui.clr[b] # seen.clr[b]) = sw.clr[b]
    BY <1>4, <2>1
  <2>3. sw.clr = [b \in Lat!Banks |-> sw.clr[b]]
    BY <2>1
  <2> QED BY <1>2, <2>2, <2>3
<1>6. snap <=> sw.op = "snap"
  BY <1>2, <1>4
<1>7. snap \in BOOLEAN /\ clr \in Lat!Toggles /\ sw.clr \in Lat!Toggles
  BY <1>3, <1>5 DEF FirmwareType
<1> HIDE DEF snap, clr
<1>8. ~Requested' /\ Serving' /\ ~Crossing'
  <2>1. seen'.req = ui.req
    BY <1>1, <1>2
  <2>2. seen.req = ack /\ ack = ackUi /\ ui.req # seen.req
    BY <1>2 DEF Serving, Crossing, Requested
  <2> QED BY <1>1, <2>1, <2>2 DEF Serving, Crossing, Requested
<1>9. /\ sw.op = "snap" => state' = "SNAP_SC" /\ image' = live
      /\ sw.op = "clear" => state' = "CLR" /\ image' = image
  BY <1>1, <1>4, <1>5, <1>6
<1>10. FirmTyped'
  <2>1. seen' \in [req : BOOLEAN, snap : BOOLEAN, clr : Lat!Toggles]
    BY <1>1, <1>2, <1>3 DEF Lat!WordType
  <2> QED BY <1>1, <2>1 DEF LatInv, FirmTyped
<1>11. EngineTyped'
  <2>1. cmd' \in [req : BOOLEAN, snap : BOOLEAN, clr : Lat!Toggles]
    BY <1>1, <1>2, <1>3, <1>7 DEF Lat!WordType
  <2>2. sweep' \in [bank : Lat!Banks, idx : Nat] /\ sweep'.idx = 0
    BY <1>1, LatConsts DEF Lat!Start
  <2>3. state' \in {"CLR", "SNAP_SC"} /\ image' \in [Lat!Banks -> Lat!BankType]
    BY <1>4, <1>9 DEF LatInv, EngineTyped
  <2> QED BY <1>1, <2>1, <2>2, <2>3, LatConsts DEF LatInv, EngineTyped, EngineStates
<1>12. Phases'
  BY <1>1, <1>2, <1>8 DEF LatInv, Phases
<1>13. Asked'
  BY <1>1, <1>2, <1>8 DEF Asked
<1>14. Words'
  <2>1. cfgq = <<>>
    BY <1>2 DEF LatInv, Words, Old, Requested
  <2>2. seen'.req = ui.req
    BY <1>1, <1>2
  <2> QED BY <1>1, <1>2, <1>8, <2>1, <2>2 DEF Words, Old
<1>15. Served'
  <2>1. cmd'.req = seen'.req /\ cmd'.snap = snap /\ cmd'.clr = sw.clr
    BY <1>1, <1>5
  <2> QED BY <1>1, <1>2, <1>4, <1>6, <1>8, <1>9, <2>1 DEF Served
<1>16. Copied'
  <2> SUFFICES ASSUME Taken' PROVE Copied'
    BY DEF Copied
  <2>1. state' = "SNAP_SC" /\ live' = image' /\ sweep'.bank = 0 /\ sweep'.idx = 0
    BY <1>1, <1>9 DEF Taken, Lat!Start
  <2>2. \A b \in Lat!Banks, w \in Lat!Scalars : ~ScDone(b, w)'
    BY <2>1, LatConsts DEF ScDone, Lat!Banks, Lat!Scalars
  <2>3. \A b \in Lat!Banks, i \in BinWords : ~BinDone(b, i)'
    BY <2>1, LatConsts DEF BinDone, Lat!Banks
  <2> QED BY <2>1, <2>2, <2>3 DEF Copied
<1>17. Recent'
  BY <1>1, <1>2, <1>8, <1>9 DEF LatInv, Recent, NotBelow, Taken
<1>18. Sums'
  <2>1. \A b \in Lat!Banks : AddsUp(live[b])
    BY <1>1 DEF LatInv, Sums, Clearing
  <2>2. Taken' => image' = live
    BY <1>1, <1>9 DEF Taken
  <2> QED BY <1>1, <1>4, <1>9, <2>1, <2>2 DEF Sums, AddsUp
<1>19. Clean'
  <2> SUFFICES ASSUME Cleared' PROVE Clean'
    BY DEF Clean
  <2>1. state' = "CLR" /\ sweep'.bank = 0
    BY <1>1, <1>9 DEF Cleared, Lat!Start
  <2>2. \A b \in Lat!Banks : b >= 0
    BY DEF Lat!Banks
  <2> QED BY <1>8, <2>1, <2>2 DEF Clean
<1> QED BY <1>10, <1>11, <1>12, <1>13, <1>14, <1>15, <1>16, <1>17, <1>18, <1>19 DEF LatInv

LEMMA AckStep == ASSUME LatInv, Lat!Ack PROVE LatInv'
<1>1. /\ state = "ACK" /\ state' = "IDLE" /\ ack' = cmd.req
      /\ shadow' = Lat!ShadowBin /\ wr' = Lat!NoWord
      /\ UNCHANGED <<ui, sw, ackUi, atWrite, cfgq, cfg, sweep, seen, cmd, image, smp, live>>
  BY DEF Lat!Ack, Lat!uiVars, Lat!cdcVars
<1>2. Serving /\ ~Requested /\ ~Crossing /\ cmd.req = seen.req /\ sw.pc = "poll"
  BY <1>1 DEF LatInv, Served, Phases
<1>3. /\ seen.req \in BOOLEAN /\ ack \in BOOLEAN /\ ackUi \in BOOLEAN
      /\ wr \in [valid : BOOLEAN, bank : Lat!Banks, idx : BinWords, val : Nat]
      /\ shadow \in [Lat!Banks -> [sc : [Lat!Scalars -> Nat], bins : [BinWords -> Nat]]]
  BY DEF LatInv, FirmTyped, EngineTyped
<1>4. ~Requested' /\ ~Serving' /\ Crossing'
  BY <1>1, <1>2, <1>3 DEF Requested, Serving, Crossing
<1>5. /\ wr' \in [valid : BOOLEAN, bank : Lat!Banks, idx : BinWords, val : Nat]
      /\ ~wr'.valid
  BY <1>1, LatConsts DEF Lat!NoWord
<1>6. ShadowWritten
  BY <1>1, <1>3, ShadowTakes
<1>7. FirmTyped'
  BY <1>1, <1>2, <1>3 DEF LatInv, FirmTyped
<1>8. EngineTyped'
  BY <1>1, <1>5, <1>6 DEF LatInv, EngineTyped, EngineStates, ShadowWritten
<1>9. Phases'
  BY <1>1, <1>2, <1>4 DEF LatInv, Phases
<1>10. Asked' /\ Words'
  BY <1>1, <1>2, <1>4 DEF LatInv, Asked, Words, Old, Requested
<1>11. Served'
  BY <1>1, <1>4, <1>5 DEF Served
<1>12. Taken' <=> Taken
  BY <1>1, <1>2, <1>4 DEF Taken
<1>13. Copied'
  <2> SUFFICES ASSUME Taken PROVE Copied'
    BY <1>12 DEF Copied
  <2>1. /\ \A b \in Lat!Banks, w \in Lat!Scalars : shadow[b].sc[w] = ImageWord(b, w)
        /\ \A b \in Lat!Banks, i \in BinWords : BinShown(b, i) = image[b].bins[i \div 2]
    BY <1>1 DEF LatInv, Copied, ScDone, BinDone
  <2>2. \A b, w : ImageWord(b, w)' = ImageWord(b, w)
    BY <1>1 DEF ImageWord
  <2>3. \A b \in Lat!Banks, i \in BinWords : BinShown(b, i)' = BinShown(b, i)
    BY <1>5, <1>6 DEF ShadowWritten, BinShown
  <2>4. \A b \in Lat!Banks, w \in Lat!Scalars : shadow'[b].sc[w] = shadow[b].sc[w]
    BY <1>6 DEF ShadowWritten
  <2> QED BY <1>1, <1>4, <2>1, <2>2, <2>3, <2>4 DEF Copied
<1>14. Recent'
  BY <1>1, <1>4, <1>12 DEF LatInv, Recent, NotBelow
<1>15. Sums'
  BY <1>1, <1>12 DEF LatInv, Sums, AddsUp, Clearing
<1>16. Clean'
  BY <1>1, <1>2, <1>4 DEF LatInv, Clean, Cleared
<1> QED BY <1>7, <1>8, <1>9, <1>10, <1>11, <1>13, <1>14, <1>15, <1>16 DEF LatInv

\* A cycle of the sweep: nothing but the bank under it changes, and that one only
\* when it is being cleared.
LEMMA SweptBank ==
    ASSUME LatInv, state = "CLR", live' = Lat!Swept
    PROVE  /\ live' \in [Lat!Banks -> Lat!BankType]
           /\ \A b \in Lat!Banks : b # sweep.bank \/ ~cmd.clr[b] => live'[b] = live[b]
           /\ cmd.clr[sweep.bank] =>
                IF sweep.idx = NBINS - 1 THEN live'[sweep.bank] = Lat!EmptyBank
                ELSE /\ live'[sweep.bank].cnt = live[sweep.bank].cnt
                     /\ live'[sweep.bank].imp = live[sweep.bank].imp
                     /\ live'[sweep.bank].geos = live[sweep.bank].geos
<1> DEFINE s == sweep.bank
<1>1. /\ live \in [Lat!Banks -> Lat!BankType] /\ s \in Lat!Banks /\ sweep.idx \in Lat!Bins
  BY DEF LatInv, EngineTyped
<1> HIDE DEF s
<1>2. Lat!EmptyBank \in Lat!BankType
  BY DEF Lat!EmptyBank, Lat!BankType
<1>3. CASE ~cmd.clr[s]
  BY <1>1, <1>3 DEF Lat!Swept, s
<1>4. CASE cmd.clr[s] /\ sweep.idx = NBINS - 1
  <2>1. live' = [live EXCEPT ![s] = Lat!EmptyBank]
    BY <1>4 DEF Lat!Swept, s
  <2> QED BY <1>1, <1>2, <1>4, <2>1 DEF s
<1>5. CASE cmd.clr[s] /\ sweep.idx # NBINS - 1
  <2> DEFINE zeroed == [live[s] EXCEPT !.bins[sweep.idx] = 0]
  <2>1. live' = [live EXCEPT ![s] = zeroed]
    BY <1>5 DEF Lat!Swept, s
  <2>2. live[s] \in Lat!BankType
    BY <1>1
  <2>3. /\ zeroed \in Lat!BankType
        /\ zeroed.cnt = live[s].cnt /\ zeroed.imp = live[s].imp /\ zeroed.geos = live[s].geos
    BY <1>1, <2>2 DEF Lat!BankType
  <2> HIDE DEF zeroed
  <2> QED BY <1>1, <1>5, <2>1, <2>3 DEF s
<1> QED BY <1>3, <1>4, <1>5

LEMMA ClrSweepStep == ASSUME LatInv, Lat!ClrSweep PROVE LatInv'
<1> DEFINE s == sweep.bank
           ends == sweep.idx = NBINS - 1
<1>1. /\ state = "CLR" /\ live' = Lat!Swept
      /\ HandshakeRests /\ UNCHANGED <<wr, image, smp, shadow>>
  BY DEF Lat!ClrSweep, Lat!uiVars, Lat!cdcVars, HandshakeRests
<1>2. /\ sweep \in [bank : Lat!Banks, idx : Nat] /\ sweep.idx \in Lat!Bins /\ s \in Lat!Banks
      /\ cmd \in [req : BOOLEAN, snap : BOOLEAN, clr : Lat!Toggles]
      /\ live \in [Lat!Banks -> Lat!BankType]
  BY <1>1 DEF LatInv, EngineTyped
<1>3. /\ live' \in [Lat!Banks -> Lat!BankType]
      /\ \A b \in Lat!Banks : b # s \/ ~cmd.clr[b] => live'[b] = live[b]
      /\ cmd.clr[s] => IF ends THEN live'[s] = Lat!EmptyBank
                       ELSE /\ live'[s].cnt = live[s].cnt /\ live'[s].imp = live[s].imp
                            /\ live'[s].geos = live[s].geos
  BY <1>1, SweptBank
<1>4. /\ (FirmTyped /\ Phases /\ Asked /\ Words)'
      /\ Requested' = Requested /\ Serving' = Serving
      /\ (Taken' <=> Taken) /\ (Cleared' <=> Cleared)
  BY <1>1, EngineAlone
<1>5. ~wr.valid /\ ~cmd.snap
  BY <1>1 DEF LatInv, Served
<1>6. cmd.req # ack <=> Serving
  BY <1>1 DEF LatInv, Served, Serving
<1>7. /\ sweep' \in [bank : Lat!Banks, idx : Nat] /\ sweep'.idx \in Lat!Bins
      /\ cmd' \in [req : BOOLEAN, snap : BOOLEAN, clr : Lat!Toggles]
      /\ cmd'.req = cmd.req /\ cmd'.snap = cmd.snap
      /\ \/ /\ state' = "CLR" /\ cmd' = cmd
            /\ IF ends THEN sweep'.bank = s + 1 ELSE sweep'.bank = s
         \/ /\ ends /\ s = LAT_BANKS - 1
            /\ state' = IF Serving THEN "ACK" ELSE "IDLE"
  <2>1. CASE ~ends
    <3>1. sweep' = [sweep EXCEPT !.idx = @ + 1] /\ UNCHANGED <<state, cmd>> /\ sweep.idx < NBINS - 1
      BY <1>2, <2>1, LatConsts DEF Lat!ClrSweep, Lat!Bins
    <3>2. sweep' \in [bank : Lat!Banks, idx : Nat] /\ sweep'.idx = sweep.idx + 1 /\ sweep'.bank = s
      BY <1>2, <3>1
    <3>3. sweep'.idx \in Lat!Bins
      BY <1>2, <3>1, <3>2, LatConsts DEF Lat!Bins
    <3> QED BY <1>1, <1>2, <2>1, <3>1, <3>2, <3>3
  <2>2. CASE ends /\ ~Lat!LastBank
    <3>1. /\ sweep' = [bank |-> s + 1, idx |-> 0] /\ cmd' = cmd /\ state' = "CLR"
      BY <1>2, <2>2, LatConsts DEF Lat!ClrSweep, Lat!NextBank
    <3>2. s + 1 \in Lat!Banks
      BY <1>2, <2>2, LatConsts DEF Lat!LastBank, Lat!Banks
    <3> QED BY <1>2, <2>2, <3>1, <3>2, LatConsts
  <2>3. CASE ends /\ Lat!LastBank
    <3>1. /\ sweep' = [bank |-> 0, idx |-> 0] /\ cmd' = [cmd EXCEPT !.clr = Lat!Off]
          /\ state' = IF Serving THEN "ACK" ELSE "IDLE"
      BY <1>2, <1>5, <1>6, <2>3, LatConsts DEF Lat!ClrSweep, Lat!NextBank
    <3>2. /\ cmd' \in [req : BOOLEAN, snap : BOOLEAN, clr : Lat!Toggles]
          /\ cmd'.req = cmd.req /\ cmd'.snap = cmd.snap
      BY <1>2, <3>1 DEF Lat!Off, Lat!Toggles
    <3> QED BY <2>3, <3>1, <3>2, LatConsts DEF Lat!LastBank
  <2> QED BY <2>1, <2>2, <2>3
<1> HIDE DEF s, ends
<1>8. EngineTyped'
  BY <1>1, <1>3, <1>7 DEF LatInv, EngineTyped, EngineStates, HandshakeRests
<1>9. \A b \in Lat!Banks : \/ live'[b].cnt = live[b].cnt /\ live'[b].imp = live[b].imp
                              /\ live'[b].geos = live[b].geos
                           \/ live'[b] = Lat!EmptyBank
  BY <1>2, <1>3
<1>10. /\ Lat!EmptyBank.cnt = 0 /\ Lat!EmptyBank.imp = 0 /\ Lat!EmptyBank.geos = {}
       /\ AddsUp(Lat!EmptyBank)
  BY TotalOfNone DEF Lat!EmptyBank, AddsUp
<1>11. ~Serving => \A b \in Lat!Banks : /\ live[b].cnt = 0 /\ live[b].imp = 0 /\ live[b].geos = {}
                                        /\ live'[b].cnt = 0 /\ live'[b].imp = 0
                                        /\ live'[b].geos = {}
  BY <1>1, <1>9, <1>10 DEF LatInv, Served
<1>12. Serving => cmd.clr = sw.clr /\ sw.op # "snap" /\ cmd.req = seen.req
  BY <1>1 DEF LatInv, Served
<1>13. Served'
  BY <1>1, <1>4, <1>5, <1>6, <1>7, <1>11, <1>12 DEF Served, HandshakeRests
<1>14. Copied'
  <2>1. CASE Taken
    <3>1. ~Serving
      BY <1>12, <2>1 DEF Taken
    <3> QED BY <1>1, <1>5, <1>7, <3>1, CopyRests
  <2>2. CASE ~Taken
    BY <1>4, <2>2 DEF Copied
  <2> QED BY <2>1, <2>2
<1>15. Recent'
  <2>1. Requested => ~Serving
    BY DEF LatInv, Phases
  <2>2. Requested => (NotBelow(live, atWrite) => NotBelow(live', atWrite))
    BY <1>11, <2>1 DEF NotBelow
  <2> QED BY <1>1, <1>4, <2>2 DEF LatInv, Recent, NotBelow, HandshakeRests
<1>16. Sums'
  <2>1. ASSUME NEW b \in Lat!Banks PROVE Clearing(b)' \/ AddsUp(live'[b])
    <3>1. Clearing(b) \/ AddsUp(live[b])
      BY DEF LatInv, Sums
    <3>2. CASE b # s \/ ~cmd.clr[b]
      BY <1>1, <1>3, <3>1, <3>2 DEF Clearing, s
    <3>3. CASE b = s /\ cmd.clr[b] /\ ends
      BY <1>3, <1>10, <3>3
    <3>4. CASE b = s /\ cmd.clr[b] /\ ~ends
      BY <1>7, <3>4 DEF Clearing
    <3> QED BY <3>2, <3>3, <3>4
  <2> QED BY <1>1, <1>4, <1>7, <2>1 DEF LatInv, Sums, AddsUp
<1>17. Clean'
  <2> SUFFICES ASSUME Cleared, NEW b \in Lat!Banks, sw.clr[b],
                      ~(Serving /\ state' = "CLR" /\ b >= sweep'.bank)
               PROVE  live'[b].geos \subseteq {<<ui.base, ui.width>>}
    BY <1>1, <1>4, <1>7 DEF Clean, HandshakeRests
  <2>1. CASE ~Serving
    BY <1>11, <2>1
  <2>2. CASE Serving
    <3>1. b \in Int /\ s \in Int /\ b <= LAT_BANKS - 1
      BY <1>2, LatConsts DEF Lat!Banks
    <3>2. b <= s /\ (b = s => ends)
      BY <1>7, <2>2, <3>1, LatConsts
    <3>3. CASE b < s
      <4>1. live[b].geos \subseteq {<<ui.base, ui.width>>}
        BY <3>1, <3>3 DEF LatInv, Clean, s
      <4> QED BY <1>3, <3>1, <3>3, <4>1
    <3>4. CASE b = s
      BY <1>3, <1>10, <1>12, <2>2, <3>2, <3>4
    <3> QED BY <3>1, <3>2, <3>3, <3>4
  <2> QED BY <2>1, <2>2
<1> QED BY <1>4, <1>8, <1>13, <1>14, <1>15, <1>16, <1>17 DEF LatInv

\* While the banks are copied a snapshot is being served.
LEMMA Snapping ==
    ASSUME LatInv, state \in {"SNAP_SC", "SNAP_BIN"}
    PROVE  /\ Serving /\ Taken /\ ~Requested /\ ~Cleared /\ cfg = ui /\ live = image
           /\ sweep \in [bank : Lat!Banks, idx : Nat]
           /\ wr \in [valid : BOOLEAN, bank : Lat!Banks, idx : BinWords, val : Nat]
           /\ live \in [Lat!Banks -> Lat!BankType]
           /\ shadow \in [Lat!Banks -> [sc : [Lat!Scalars -> Nat], bins : [BinWords -> Nat]]]
           /\ cmd \in [req : BOOLEAN, snap : BOOLEAN, clr : Lat!Toggles]
           /\ cmd.req = seen.req
           /\ sw.op = "snap" /\ sw.pc = "poll"
<1>1. Serving
  BY DEF LatInv, Served
<1>2. ~Requested /\ sw.pc = "poll"
  BY <1>1 DEF LatInv, Phases
<1>3. sw.op = "snap" /\ cmd.req = seen.req
  BY <1>1, <1>2 DEF LatInv, Phases, Served
<1>4. Taken /\ ~Cleared
  BY <1>2, <1>3 DEF Taken, Cleared
<1>5. cfg = ui /\ live = image
  BY <1>1, <1>2, <1>4 DEF LatInv, Words, Copied
<1> QED BY <1>1, <1>2, <1>3, <1>4, <1>5 DEF LatInv, EngineTyped

\* A cycle of the copy moves only the sweep, the pending word and the shadow; the copy
\* is right after it when the words it passes are.
LEMMA CopyCycle ==
    ASSUME LatInv, state \in {"SNAP_SC", "SNAP_BIN"}, HandshakeRests, UNCHANGED <<image, smp, live>>,
           state' \in {"SNAP_SC", "SNAP_BIN", "ACK"},
           cmd' \in [req : BOOLEAN, snap : BOOLEAN, clr : Lat!Toggles], cmd'.req = cmd.req,
           sweep' \in [bank : Lat!Banks, idx : Nat],
           state' = "SNAP_SC" => sweep'.idx \in Lat!Scalars,
           state' = "SNAP_BIN" => sweep'.idx \in BinWords,
           wr' \in [valid : BOOLEAN, bank : Lat!Banks, idx : BinWords, val : Nat],
           shadow' \in [Lat!Banks -> [sc : [Lat!Scalars -> Nat], bins : [BinWords -> Nat]]],
           \A b \in Lat!Banks, w \in Lat!Scalars :
              ScDone(b, w)' => shadow'[b].sc[w] = ImageWord(b, w),
           \A b \in Lat!Banks, i \in BinWords :
              BinDone(b, i)' => BinShown(b, i)' = image[b].bins[i \div 2]
    PROVE  LatInv'
<1>1. /\ (FirmTyped /\ Phases /\ Asked /\ Words)'
      /\ Requested' = Requested /\ Serving' = Serving
      /\ (Taken' <=> Taken) /\ (Cleared' <=> Cleared)
  BY EngineAlone
<1>2. Serving /\ Taken /\ ~Requested /\ ~Cleared /\ cmd.req = seen.req /\ live = image
      /\ sw.op = "snap" /\ sw.pc = "poll"
  BY Snapping
<1>3. EngineTyped'
  BY DEF LatInv, EngineTyped, EngineStates, HandshakeRests
<1>4. Served'
  BY <1>1, <1>2 DEF Served, HandshakeRests
<1>5. \A b, w : ImageWord(b, w)' = ImageWord(b, w)
  BY DEF ImageWord, HandshakeRests
<1>6. Copied'
  BY <1>1, <1>2, <1>5 DEF Copied
<1>7. Recent' /\ Sums'
  BY <1>1, <1>2 DEF LatInv, Recent, Sums, NotBelow, Clearing, AddsUp, HandshakeRests
<1>8. Clean'
  BY <1>1, <1>2 DEF Clean
<1> QED BY <1>1, <1>3, <1>4, <1>6, <1>7, <1>8 DEF LatInv

LEMMA SnapScalarStep == ASSUME LatInv, Lat!SnapScalar PROVE LatInv'
<1> DEFINE s == sweep.bank
           k == sweep.idx
<1>1. /\ state = "SNAP_SC" /\ wr' = Lat!NoWord
      /\ HandshakeRests /\ UNCHANGED <<cmd, image, smp, live>>
  BY DEF Lat!SnapScalar, Lat!uiVars, Lat!cdcVars, Lat!cmdVars, HandshakeRests
<1>2. /\ Taken /\ cfg = ui /\ live = image
      /\ sweep \in [bank : Lat!Banks, idx : Nat]
      /\ wr \in [valid : BOOLEAN, bank : Lat!Banks, idx : BinWords, val : Nat]
      /\ live \in [Lat!Banks -> Lat!BankType]
      /\ shadow \in [Lat!Banks -> [sc : [Lat!Scalars -> Nat], bins : [BinWords -> Nat]]]
      /\ cmd \in [req : BOOLEAN, snap : BOOLEAN, clr : Lat!Toggles]
  BY <1>1, Snapping
<1>3. s \in Lat!Banks /\ k \in Lat!Scalars /\ ui.base \in Nat /\ ui.width \in Nat
  BY <1>1, <1>2 DEF LatInv, EngineTyped, FirmTyped, Lat!WordType
<1>4. /\ wr' \in [valid : BOOLEAN, bank : Lat!Banks, idx : BinWords, val : Nat] /\ ~wr'.valid
  BY <1>1, LatConsts DEF Lat!NoWord
<1>5. /\ \A b \in Lat!Banks, w \in Lat!Scalars : ScDone(b, w) => shadow[b].sc[w] = ImageWord(b, w)
      /\ \A b \in Lat!Banks, i \in BinWords : BinDone(b, i) => BinShown(b, i) = image[b].bins[i \div 2]
  BY <1>2 DEF LatInv, Copied
<1>6. CASE wr.valid
  <2>1. shadow' = Lat!ShadowBin /\ UNCHANGED <<state, sweep>>
    BY <1>6 DEF Lat!SnapScalar
  <2>2. ShadowWritten
    BY <1>2, <2>1, ShadowTakes
  <2>3. \A b \in Lat!Banks, w \in Lat!Scalars : (ScDone(b, w)' <=> ScDone(b, w))
    BY <2>1 DEF ScDone
  <2>4. \A b \in Lat!Banks, i \in BinWords : /\ BinDone(b, i)' <=> BinDone(b, i)
                                             /\ BinShown(b, i)' = BinShown(b, i)
    BY <1>4, <2>1, <2>2 DEF BinDone, BinShown, ShadowWritten
  <2>5. \A b \in Lat!Banks, w \in Lat!Scalars : ScDone(b, w)' => shadow'[b].sc[w] = ImageWord(b, w)
    BY <1>5, <2>2, <2>3 DEF ShadowWritten
  <2>6. \A b \in Lat!Banks, i \in BinWords :
           BinDone(b, i)' => BinShown(b, i)' = image[b].bins[i \div 2]
    BY <1>5, <2>4
  <2>7. shadow' \in [Lat!Banks -> [sc : [Lat!Scalars -> Nat], bins : [BinWords -> Nat]]]
    BY <2>2 DEF ShadowWritten
  <2> QED BY <1>1, <1>2, <1>3, <1>4, <2>1, <2>5, <2>6, <2>7, CopyCycle
<1>7. CASE ~wr.valid
  <2>1. /\ shadow' = [shadow EXCEPT ![s].sc[k] = Lat!ScalarWord(s, k)]
        /\ state' = (IF k = 3 THEN "SNAP_BIN" ELSE state)
        /\ sweep' = [sweep EXCEPT !.idx = IF k = 3 THEN 0 ELSE k + 1]
    BY <1>7 DEF Lat!SnapScalar, Lat!BIN_WIDTH
  <2>2. Lat!ScalarWord(s, k) = ImageWord(s, k) /\ ImageWord(s, k) \in Nat
    <3>1. k = 0 \/ k = 1 \/ k = 2 \/ k = 3
      BY <1>3 DEF Lat!Scalars
    <3>2. live[s].cnt \in Nat /\ live[s].imp \in Nat
      BY <1>2, <1>3 DEF Lat!BankType
    <3> QED BY <1>2, <1>3, <3>1, <3>2 DEF Lat!ScalarWord, ImageWord, Lat!COUNT, Lat!IMPLAUSIBLE,
               Lat!BIN_BASE, Lat!BIN_WIDTH
  <2>3. /\ sweep' \in [bank : Lat!Banks, idx : Nat] /\ sweep'.bank = s
        /\ sweep'.idx = (IF k = 3 THEN 0 ELSE k + 1)
    BY <1>2, <1>3, <2>1 DEF Lat!Scalars
  <2>4. /\ state' = "SNAP_SC" => sweep'.idx \in Lat!Scalars
        /\ state' = "SNAP_BIN" => sweep'.idx \in BinWords
        /\ state' \in {"SNAP_SC", "SNAP_BIN", "ACK"}
    BY <1>1, <1>3, <2>1, <2>3, LatConsts DEF Lat!Scalars
  <2> HIDE DEF s, k
  <2>5. /\ shadow[s] \in [sc : [Lat!Scalars -> Nat], bins : [BinWords -> Nat]]
        /\ shadow[s].sc \in [Lat!Scalars -> Nat]
    BY <1>2, <1>3
  <2>6. /\ shadow'[s].bins = shadow[s].bins
        /\ shadow'[s].sc = [shadow[s].sc EXCEPT ![k] = ImageWord(s, k)]
        /\ shadow'[s] \in [sc : [Lat!Scalars -> Nat], bins : [BinWords -> Nat]]
    BY <1>2, <1>3, <2>1, <2>2, <2>5
  <2>7. /\ shadow' \in [Lat!Banks -> [sc : [Lat!Scalars -> Nat], bins : [BinWords -> Nat]]]
        /\ \A b \in Lat!Banks : b # s => shadow'[b] = shadow[b]
    BY <1>2, <1>3, <2>1, <2>6
  <2>8. /\ shadow'[s].sc[k] = ImageWord(s, k)
        /\ \A w \in Lat!Scalars : w # k => shadow'[s].sc[w] = shadow[s].sc[w]
    BY <1>3, <2>5, <2>6
  <2>9. \A b \in Lat!Banks, w \in Lat!Scalars :
           ScDone(b, w)' => ScDone(b, w) \/ (b = s /\ w = k)
    BY <1>1, <1>3, <2>1, <2>3 DEF ScDone, Lat!Scalars, s, k
  <2>10. \A b \in Lat!Banks, w \in Lat!Scalars : ScDone(b, w)' => shadow'[b].sc[w] = ImageWord(b, w)
    BY <1>5, <2>7, <2>8, <2>9
  <2>11. \A b \in Lat!Banks, i \in BinWords :
            /\ BinDone(b, i)' => BinDone(b, i)
            /\ BinShown(b, i)' = BinShown(b, i)
    <3>1. \A b \in Lat!Banks, i \in BinWords : BinDone(b, i)' => BinDone(b, i)
      BY <1>1, <1>3, <2>1, <2>3, LatConsts DEF BinDone, BinWords, s
    <3>2. \A b \in Lat!Banks : shadow'[b].bins = shadow[b].bins
      BY <2>6, <2>7
    <3> QED BY <1>4, <1>7, <3>1, <3>2 DEF BinShown
  <2>12. \A b \in Lat!Banks, i \in BinWords :
            BinDone(b, i)' => BinShown(b, i)' = image[b].bins[i \div 2]
    BY <1>5, <2>11
  <2> QED BY <1>1, <1>2, <1>4, <2>3, <2>4, <2>7, <2>10, <2>12, CopyCycle
<1> QED BY <1>6, <1>7

LEMMA SnapBinStep == ASSUME LatInv, Lat!SnapBin PROVE LatInv'
<1> DEFINE s == sweep.bank
           k == sweep.idx
<1>1. /\ state = "SNAP_BIN" /\ shadow' = Lat!ShadowBin
      /\ wr' = [valid |-> TRUE, bank |-> s, idx |-> k, val |-> live[s].bins[k \div 2]]
      /\ HandshakeRests /\ UNCHANGED <<image, smp, live>>
  BY DEF Lat!SnapBin, Lat!uiVars, Lat!cdcVars, HandshakeRests
<1>2. /\ Taken /\ live = image
      /\ sweep \in [bank : Lat!Banks, idx : Nat]
      /\ wr \in [valid : BOOLEAN, bank : Lat!Banks, idx : BinWords, val : Nat]
      /\ live \in [Lat!Banks -> Lat!BankType]
      /\ shadow \in [Lat!Banks -> [sc : [Lat!Scalars -> Nat], bins : [BinWords -> Nat]]]
      /\ cmd \in [req : BOOLEAN, snap : BOOLEAN, clr : Lat!Toggles]
  BY <1>1, Snapping
<1>3. s \in Lat!Banks /\ k \in BinWords
  BY <1>1, <1>2 DEF LatInv, EngineTyped
<1>4. live[s].bins[k \div 2] \in Nat
  <2>1. k \div 2 \in Lat!Bins
    BY <1>3, LatConsts DEF BinWords, Lat!Bins
  <2> QED BY <1>2, <1>3, <2>1 DEF Lat!BankType
<1>5. wr' \in [valid : BOOLEAN, bank : Lat!Banks, idx : BinWords, val : Nat]
  BY <1>1, <1>3, <1>4
<1>6. ShadowWritten
  BY <1>1, <1>2, ShadowTakes
<1>7. /\ \A b \in Lat!Banks, w \in Lat!Scalars : ScDone(b, w) => shadow[b].sc[w] = ImageWord(b, w)
      /\ \A b \in Lat!Banks, i \in BinWords : BinDone(b, i) => BinShown(b, i) = image[b].bins[i \div 2]
  BY <1>2 DEF LatInv, Copied
<1>8. /\ sweep' \in [bank : Lat!Banks, idx : Nat]
      /\ cmd' \in [req : BOOLEAN, snap : BOOLEAN, clr : Lat!Toggles] /\ cmd'.req = cmd.req
      /\ \/ state' = "SNAP_BIN" /\ sweep'.bank = s /\ sweep'.idx = k + 1 /\ k < 2 * NBINS - 1
         \/ state' = "SNAP_SC" /\ sweep'.bank = s + 1 /\ sweep'.idx = 0 /\ k = 2 * NBINS - 1
         \/ state' = "ACK" /\ s = LAT_BANKS - 1 /\ k = 2 * NBINS - 1
  <2>1. CASE k < 2 * NBINS - 1
    <3>1. sweep' = [sweep EXCEPT !.idx = @ + 1] /\ UNCHANGED <<state, cmd>>
      BY <2>1 DEF Lat!SnapBin
    <3>2. sweep' \in [bank : Lat!Banks, idx : Nat] /\ sweep'.bank = s /\ sweep'.idx = k + 1
      <4>1. sweep.bank \in Lat!Banks /\ sweep.idx + 1 \in Nat
        BY <1>2
      <4>2. sweep' = [bank |-> s, idx |-> k + 1]
        BY <1>2, <3>1
      <4> QED BY <4>1, <4>2
    <3> QED BY <1>1, <1>2, <2>1, <3>1, <3>2
  <2>2. CASE k = 2 * NBINS - 1 /\ ~Lat!LastBank
    <3>1. sweep' = [bank |-> s + 1, idx |-> 0] /\ cmd' = cmd /\ state' = "SNAP_SC"
      BY <1>2, <2>2, LatConsts DEF Lat!SnapBin, Lat!NextBank
    <3>2. s + 1 \in Lat!Banks
      BY <1>3, <2>2, LatConsts DEF Lat!LastBank, Lat!Banks
    <3> QED BY <1>2, <2>2, <3>1, <3>2
  <2>3. CASE k = 2 * NBINS - 1 /\ Lat!LastBank
    <3>1. sweep' = [bank |-> 0, idx |-> 0] /\ cmd' = [cmd EXCEPT !.snap = FALSE] /\ state' = "ACK"
      BY <1>2, <2>3, LatConsts DEF Lat!SnapBin, Lat!NextBank
    <3> QED BY <1>2, <2>3, <3>1, LatConsts DEF Lat!LastBank
  <2> QED BY <1>3, <2>1, <2>2, <2>3, LatConsts DEF BinWords
<1>9. /\ state' = "SNAP_SC" => sweep'.idx \in Lat!Scalars
      /\ state' = "SNAP_BIN" => sweep'.idx \in BinWords
      /\ state' \in {"SNAP_SC", "SNAP_BIN", "ACK"}
  BY <1>3, <1>8, LatConsts DEF BinWords
<1>10. \A b \in Lat!Banks : b \in Int /\ b <= LAT_BANKS - 1
  BY LatConsts DEF Lat!Banks
<1>11. \A b \in Lat!Banks, w \in Lat!Scalars : ScDone(b, w)' => ScDone(b, w)
  BY <1>1, <1>3, <1>8, <1>10 DEF ScDone, Lat!Scalars
<1>12. ASSUME NEW b \in Lat!Banks, NEW i \in BinWords, BinDone(b, i)'
       PROVE  BinDone(b, i) \/ (b = s /\ i = k)
  <2>1. /\ b \in Int /\ b <= LAT_BANKS - 1 /\ s \in Int /\ k \in Int /\ i \in Int
        /\ i <= 2 * NBINS - 1 /\ NBINS \in Int
    <3>1. b \in Int /\ b <= LAT_BANKS - 1 /\ s \in Int /\ NBINS \in Int
      BY <1>3, LatConsts DEF Lat!Banks
    <3>2. k \in Int /\ i \in Int /\ i <= 2 * NBINS - 1
      BY <1>3, <3>1 DEF BinWords
    <3> QED BY <3>1, <3>2
  <2>2. CASE state' = "SNAP_BIN"
    <3>1. b < s \/ (b = s /\ i < k + 1)
      BY <1>8, <1>12, <2>2 DEF BinDone
    <3> QED BY <1>1, <2>1, <3>1 DEF BinDone
  <2>3. CASE state' = "SNAP_SC"
    <3>1. b < s + 1 /\ k = 2 * NBINS - 1
      BY <1>8, <1>12, <2>3 DEF BinDone
    <3> QED BY <1>1, <2>1, <3>1 DEF BinDone
  <2>4. CASE state' = "ACK"
    <3>1. b <= s /\ k = 2 * NBINS - 1
      BY <1>8, <2>1, <2>4
    <3> QED BY <1>1, <2>1, <3>1 DEF BinDone
  <2> QED BY <1>9, <2>2, <2>3, <2>4
<1> HIDE DEF s, k
<1>13. \A b \in Lat!Banks, w \in Lat!Scalars : ScDone(b, w)' => shadow'[b].sc[w] = ImageWord(b, w)
  BY <1>6, <1>7, <1>11 DEF ShadowWritten
<1>14. \A b \in Lat!Banks, i \in BinWords :
          BinShown(b, i)' = IF b = s /\ i = k THEN live[s].bins[k \div 2] ELSE BinShown(b, i)
  BY <1>1, <1>6 DEF BinShown, ShadowWritten
<1>15. \A b \in Lat!Banks, i \in BinWords :
          BinDone(b, i)' => BinShown(b, i)' = image[b].bins[i \div 2]
  BY <1>2, <1>7, <1>12, <1>14
<1>16. shadow' \in [Lat!Banks -> [sc : [Lat!Scalars -> Nat], bins : [BinWords -> Nat]]]
  BY <1>6 DEF ShadowWritten
<1> QED BY <1>1, <1>5, <1>8, <1>9, <1>13, <1>15, <1>16, CopyCycle

LEMMA LatBegins == Init => LatHolds
<1> SUFFICES ASSUME Lat!Init PROVE LatInv
  BY DEF Init, LatHolds
<1>1. /\ ui = Lat!Word /\ cfg = Lat!Word /\ cfgq = <<>> /\ ack = FALSE /\ ackUi = FALSE
      /\ sw = Lat!Resting /\ seen = [req |-> FALSE, snap |-> FALSE, clr |-> Lat!Off]
      /\ cmd = [req |-> FALSE, snap |-> FALSE, clr |-> [b \in Lat!Banks |-> TRUE]]
      /\ state = "CLR" /\ sweep = Lat!Start /\ wr = Lat!NoWord /\ smp = Lat!NoSample
      /\ live = Lat!Empty /\ image = Lat!Empty /\ atWrite = Lat!Empty /\ shadow = Lat!ShadowReset
  BY DEF Lat!Init
<1>2. Lat!Off \in Lat!Toggles
  BY DEF Lat!Off, Lat!Toggles
<1>3. FirmTyped
  <2>1. Lat!Word \in Lat!WordType
    BY <1>2 DEF Lat!WordType, Lat!Word
  <2>2. <<>> \in Seq(Lat!WordType)
    OBVIOUS
  <2>3. Lat!Resting \in FirmwareType
    BY <1>2 DEF FirmwareType, Lat!Resting
  <2> QED BY <1>1, <1>2, <2>1, <2>2, <2>3 DEF FirmTyped
<1>4. EngineTyped
  <2>1. cmd.clr \in Lat!Toggles
    BY <1>1 DEF Lat!Toggles
  <2>2. Lat!Empty \in [Lat!Banks -> Lat!BankType]
    BY DEF Lat!Empty, Lat!EmptyBank, Lat!BankType
  <2>3. Lat!ShadowReset \in [Lat!Banks -> [sc : [Lat!Scalars -> Nat], bins : [BinWords -> Nat]]]
    BY DEF Lat!ShadowReset, BinWords
  <2> QED BY <1>1, <2>1, <2>2, <2>3, LatConsts DEF EngineTyped, EngineStates, Lat!Start, Lat!NoWord, Lat!NoSample
<1>5. ~Requested /\ ~Serving /\ ~Crossing /\ sw.pc = "idle"
  BY <1>1 DEF Requested, Serving, Crossing, Lat!Word, Lat!Resting
<1>6. Phases /\ Copied /\ Clean /\ Recent
  BY <1>5 DEF Phases, Copied, Clean, Recent, Taken, Cleared
<1>7. Asked /\ Words
  <2>1. /\ ui.req = FALSE /\ ui.snap = FALSE /\ ui.clr = Lat!Off /\ cfg.req = FALSE
        /\ seen.req = FALSE /\ seen.snap = FALSE /\ seen.clr = Lat!Off /\ Len(cfgq) = 0
    BY <1>1 DEF Lat!Word
  <2>2. Asked
    BY <1>5, <2>1 DEF Asked
  <2>3. Old(cfg)
    BY <2>1 DEF Old
  <2>4. \A i \in 1 .. Len(cfgq) : FALSE
    BY <2>1
  <2> QED BY <1>5, <2>2, <2>3, <2>4 DEF Words
<1>8. Served
  BY <1>1, <1>5 DEF Served, Lat!NoWord, Lat!Empty, Lat!EmptyBank
<1>9. Sums
  <2>1. \A b \in Lat!Banks : AddsUp(live[b])
    BY <1>1, TotalOfNone DEF AddsUp, Lat!Empty, Lat!EmptyBank
  <2> QED BY <1>1, <1>5, <2>1 DEF Sums, Taken
<1> QED BY <1>3, <1>4, <1>6, <1>7, <1>8, <1>9 DEF LatInv

LEMMA LatOnlyStep ==
    ASSUME [Next]_svars, block' = "lat"
    PROVE  /\ block = "lat"
           /\ Lat!Next \/ UNCHANGED <<latOnly, live, sw>>
BY DEF Next, svars, MeterStep, StickyStep, LatStep, LatMoves, ReadsStep

LEMMA LatKept == LatHolds /\ [Next]_svars => LatHolds'
<1> SUFFICES ASSUME LatHolds, [Next]_svars, block' = "lat" PROVE LatInv'
  BY DEF LatHolds
<1>1. LatInv
  BY LatOnlyStep DEF LatHolds
<1>2. CASE UNCHANGED <<latOnly, live, sw>>
  <2>1. HandshakeRests /\ EngineRests /\ UNCHANGED <<image>>
    BY <1>2 DEF latOnly, HandshakeRests, EngineRests
  <2>2. (EngineTyped /\ Phases /\ Asked /\ Copied /\ Recent /\ Sums /\ Clean)'
    BY <1>1, <2>1, CrossingRests DEF HandshakeRests, Crossing
  <2>3. (FirmTyped /\ Words)' /\ Serving' = Serving /\ Requested' = Requested
    BY <1>1, <2>1, EngineAlone
  <2>4. Served'
    BY <1>1, <2>1, <2>3 DEF LatInv, Served, HandshakeRests, EngineRests
  <2> QED BY <2>2, <2>3, <2>4 DEF LatInv
<1>3. CASE Lat!Next
  BY <1>1, <1>3, SetBaseStep, SetWidthStep, CallStep, WriteCommandStep, PollDoneStep,
     ReadDoneStep, CfgSampleStep, CfgDeliverStep, AckCrossStep, AcceptStep, SubtractBaseStep,
     ShiftWidthStep, ReadBinStep, CountStep, TakeStep, LatchStep, ClrSweepStep, SnapScalarStep,
     SnapBinStep, AckStep
     DEF Lat!Next, Lat!Software, Lat!Engine
<1> QED BY <1>2, <1>3, LatOnlyStep

\* What the firmware reads is what the invariant says of a copy taken and at rest.
LEMMA SnapshotRight ==
    ASSUME LatInv
    PROVE  Lat!SnapshotCoherent /\ Lat!SnapshotFresh /\ Lat!BinsAddUp
<1>1. Lat!BinsAddUp
  BY DEF LatInv, Sums, Clearing, AddsUp, Lat!BinsAddUp
<1>2. ASSUME sw.pc = "read"
      PROVE  /\ ~wr.valid /\ state \notin {"SNAP_SC", "SNAP_BIN"}
             /\ \A b \in Lat!Banks :
                  /\ shadow[b].sc[Lat!COUNT] = image[b].cnt
                  /\ shadow[b].sc[Lat!IMPLAUSIBLE] = image[b].imp
                  /\ shadow[b].sc[Lat!BIN_BASE] = ui.base
                  /\ shadow[b].sc[Lat!BIN_WIDTH] = ui.width
                  /\ \A i \in BinWords : shadow[b].bins[i] = image[b].bins[i \div 2]
                  /\ Lat!Total(image[b].bins) = image[b].cnt
                  /\ image[b].cnt >= atWrite[b].cnt /\ image[b].imp >= atWrite[b].imp
  <2>1. ~Requested /\ ~Serving /\ Taken
    BY <1>2 DEF LatInv, Phases, Taken
  <2>2. ~wr.valid /\ state \notin {"SNAP_SC", "SNAP_BIN"}
    BY <2>1 DEF LatInv, Served
  <2>3. \A b \in Lat!Banks, w \in Lat!Scalars : shadow[b].sc[w] = ImageWord(b, w)
    BY <2>1, <2>2 DEF LatInv, Copied, ScDone
  <2>4. \A b \in Lat!Banks, i \in BinWords : shadow[b].bins[i] = image[b].bins[i \div 2]
    BY <2>1, <2>2 DEF LatInv, Copied, BinDone, BinShown
  <2>5. \A b \in Lat!Banks : /\ Lat!Total(image[b].bins) = image[b].cnt
                             /\ image[b].cnt >= atWrite[b].cnt /\ image[b].imp >= atWrite[b].imp
    BY <2>1 DEF LatInv, Sums, AddsUp, Recent, NotBelow
  <2>6. \A b \in Lat!Banks : /\ shadow[b].sc[Lat!COUNT] = image[b].cnt
                             /\ shadow[b].sc[Lat!IMPLAUSIBLE] = image[b].imp
                             /\ shadow[b].sc[Lat!BIN_BASE] = ui.base
                             /\ shadow[b].sc[Lat!BIN_WIDTH] = ui.width
    BY <2>3 DEF ImageWord, Lat!Scalars, Lat!COUNT, Lat!IMPLAUSIBLE, Lat!BIN_BASE, Lat!BIN_WIDTH
  <2> QED BY <2>2, <2>4, <2>5, <2>6
<1>3. ASSUME NEW i \in Lat!Bins
      PROVE  /\ 2 * i \in BinWords /\ 2 * i + 1 \in BinWords
             /\ (2 * i) \div 2 = i /\ (2 * i + 1) \div 2 = i
  BY LatConsts DEF Lat!Bins, BinWords
<1>4. Lat!SnapshotCoherent
  BY <1>2, <1>3 DEF Lat!SnapshotCoherent
<1>5. Lat!SnapshotFresh
  BY <1>2 DEF Lat!SnapshotFresh
<1> QED BY <1>1, <1>4, <1>5

-----------------------------------------------------------------------------
(* The theorems.                                                            *)

\* Whatever the clocks, the crossings and the firmware do, no sticky bit is set
\* without an event newer than the write that cleared it last.
THEOREM NoFalseAlarms == Spec => [](block = "sticky" => Sticky!NoFalseAlarm)
<1>1. Init => StickyHolds
  BY StickyBegins
<1>2. StickyHolds /\ [Next]_svars => StickyHolds'
  BY StickyKept
<1>3. StickyHolds => (block = "sticky" => Sticky!NoFalseAlarm)
  BY DEF StickyHolds, StickyInv, Sticky!NoFalseAlarm
<1> QED BY <1>1, <1>2, <1>3, PTL DEF Spec

\* And while no counter makes a full turn, no event of STATUS is lost either: the
\* comparison of two words cannot tell a full turn from no event.
THEOREM StickyBitsExact ==
    ASSUME MaxEvents < CNT_MOD
    PROVE  Spec => []StickyExact
<1>1. Init => StickyHolds /\ BitsKept
  BY StickyBegins
<1>2. StickyHolds /\ BitsKept /\ [Next]_svars => (StickyHolds /\ BitsKept)'
  BY StickyKept, BitsStay
<1>3. StickyHolds /\ BitsKept => StickyExact
  BY DEF StickyHolds, BitsKept, StickyInv, NeverCleared, StickyExact,
         Sticky!NoFalseAlarm, Sticky!StatusNotLost
<1> QED BY <1>1, <1>2, <1>3, PTL DEF Spec

\* Each window the rate meter publishes has exactly the frames between its ticks.
THEOREM WindowsAreExact == Spec => []WindowsExact
<1>1. Init => MeterHolds
  BY MeterBegins
<1>2. MeterHolds /\ [Next]_svars => MeterHolds'
  BY MeterKept
<1>3. MeterHolds => WindowsExact
  BY DEF MeterHolds, MeterInv, WindowsExact
<1> QED BY <1>1, <1>2, <1>3, PTL DEF Spec

\* No read of a value wider than a register is torn, and each access is answered
\* by its own response.
THEOREM ReadsAreExact == Spec => []ReadsExact
<1>1. Init => ReadsHold
  BY ReadsBegin
<1>2. ReadsHold /\ [Next]_svars => ReadsHold'
  BY ReadsKept
<1>3. ReadsHold => ReadsExact
  BY ReadsRight DEF ReadsHold, ReadsExact
<1> QED BY <1>1, <1>2, <1>3, PTL DEF Spec

\* A snapshot read after BUSY is one moment of the banks, not older than the command
\* that asked for it, and between samples the bins of a bank add up to its count.
THEOREM SnapshotsAreExact == Spec => []SnapshotExact
<1>1. Init => LatHolds
  BY LatBegins
<1>2. LatHolds /\ [Next]_svars => LatHolds'
  BY LatKept
<1>3. LatHolds => SnapshotExact
  BY SnapshotRight DEF LatHolds, SnapshotExact
<1> QED BY <1>1, <1>2, <1>3, PTL DEF Spec

\* A clear that returned leaves in the banks it cleared no sample binned with an earlier
\* geometry, or with BASE of one and WIDTH of another.
THEOREM ClearsSeparate == Spec => ClearSeparates
<1>1. Init => LatHolds
  BY LatBegins
<1>2. LatHolds /\ [Next]_svars => LatHolds'
  BY LatKept
<1>3. LatHolds /\ [Next]_svars => [block = "lat" => Lat!CleanClear]_svars
  <2> SUFFICES ASSUME LatHolds, [Next]_svars, block = "lat",
                      sw.pc = "poll", sw.op = "clear", sw'.pc = "idle",
                      NEW b \in Lat!Banks, sw.clr[b]
               PROVE  live[b].geos \subseteq {<<ui.base, ui.width>>}
    BY DEF Lat!CleanClear
  <2>1. LatInv
    BY DEF LatHolds
  <2>2. ~Lat!Busy
    BY DEF Next, svars, MeterStep, StickyStep, LatStep, LatMoves, ReadsStep, Lat!Next,
       Lat!Software, Lat!SetBase, Lat!SetWidth, Lat!Call, Lat!WriteCommand, Lat!PollDone,
       Lat!ReadDone, Lat!CfgSample, Lat!CfgDeliver, Lat!AckCross, Lat!Accept, Lat!Engine,
       Lat!SubtractBase, Lat!ShiftWidth, Lat!ReadBin, Lat!Count, Lat!Take, Lat!Latch,
       Lat!ClrSweep, Lat!SnapScalar, Lat!SnapBin, Lat!Ack, Lat!uiVars
  <2>3. ~Requested /\ ~Serving
    BY <2>1, <2>2, NothingAsked
  <2>4. Cleared
    BY <2>3 DEF Cleared
  <2> QED BY <2>1, <2>3, <2>4 DEF LatInv, Clean
<1>4. [][Next]_svars /\ []LatHolds => [][block = "lat" => Lat!CleanClear]_svars
  BY <1>3, PTL
<1> QED BY <1>1, <1>2, <1>4, PTL DEF Spec, ClearSeparates
=============================================================================
