-------------------------- MODULE PtpTxTaggerProofs --------------------------
(***************************************************************************)
(* What ptp_tx_tagger promises, for every table size, tag width and FIFO   *)
(* depth. The argument: a tag is the remainder of its age, so two recent   *)
(* tags with the same entry and the same tag[15:6] have the same age; each *)
(* tag is in one place only (record FIFO, MAC or stage A), so nobody else  *)
(* clears its entry; and the table keeps the TABLE youngest.               *)
(***************************************************************************)
EXTENDS PtpTxTagger, FiniteSetTheorems, SequenceTheorems, TLAPS

\* A positive multiple of m is not less than m.
LEMMA TimesMono ==
    ASSUME NEW m \in Nat \ {0}, NEW d \in Int, d >= 1
    PROVE  m * d >= m
<1> DEFINE e == d - 1
<1>1. e \in Nat /\ d = e + 1
  OBVIOUS
<1> HIDE DEF e
<1>2. m * d = m * e + m
  BY <1>1
<1>3. m * e >= 0
  BY <1>1
<1> QED BY <1>2, <1>3, <1>1

\* Quotient and remainder.
LEMMA DivMod ==
    ASSUME NEW x \in Int, NEW m \in Nat \ {0}
    PROVE  /\ x \div m \in Int /\ x % m \in 0 .. m - 1
           /\ x = m * (x \div m) + (x % m)
BY Z3

\* They are the only ones.
LEMMA DivModUnique ==
    ASSUME NEW x \in Int, NEW m \in Nat \ {0}, NEW q \in Int, NEW r \in 0 .. m - 1,
           x = m * q + r
    PROVE  x % m = r /\ x \div m = q
<1> DEFINE p == x \div m
           s == x % m
<1>1. p \in Int /\ s \in 0 .. m - 1 /\ x = m * p + s
  BY DivMod
<1>2. SUFFICES p = q
  BY <1>1, <1>2
<1> HIDE DEF p, s
<1>3. ~(p - q >= 1)
  <2> SUFFICES ASSUME p - q >= 1 PROVE FALSE
    OBVIOUS
  <2>1. m * (p - q) >= m
    BY <1>1, TimesMono
  <2>2. m * (p - q) = m * p - m * q
    BY <1>1
  <2> QED BY <2>1, <2>2, <1>1
<1>4. ~(q - p >= 1)
  <2> SUFFICES ASSUME q - p >= 1 PROVE FALSE
    OBVIOUS
  <2>1. m * (q - p) >= m
    BY <1>1, TimesMono
  <2>2. m * (q - p) = m * q - m * p
    BY <1>1
  <2> QED BY <2>1, <2>2, <1>1
<1> QED BY <1>1, <1>3, <1>4

-----------------------------------------------------------------------------
(* The tag of an age, and the entry of a tag.                              *)

TagOf(age) == age % TAGS

\* The sizes of the table and of the tag space.
LEMMA Sizes ==
    /\ TABLE \in Nat \ {0} /\ TAGS \in Nat \ {0} /\ TABLE < TAGS
    /\ TAGS = TABLE * (TAGS \div TABLE) /\ TAGS \div TABLE \in Int
<1>1. /\ TABLE \in Nat \ {0} /\ TAGS \in Nat \ {0} /\ TABLE < TAGS
      /\ TAGS % TABLE = 0
  BY PtpTxTaggerAssumption
<1> QED BY <1>1, DivMod

\* The entry of a tag is the remainder of its age.
LEMMA IndexOfTag ==
    ASSUME NEW age \in Nat
    PROVE  TagOf(age) \in 0 .. TAGS - 1 /\ Index(TagOf(age)) = age % TABLE
<1> DEFINE q == age \div TAGS
           t == age % TAGS
           k == TAGS \div TABLE
           j == t \div TABLE
           i == t % TABLE
<1>1. q \in Int /\ t \in 0 .. TAGS - 1 /\ age = TAGS * q + t
  BY DivMod, Sizes
<1> HIDE DEF q, t
<1>2. j \in Int /\ i \in 0 .. TABLE - 1 /\ t = TABLE * j + i
  BY DivMod, Sizes, <1>1
<1>3. TAGS = TABLE * k /\ k \in Int
  BY Sizes
<1>4. TagOf(age) = t /\ Index(TagOf(age)) = i
  BY DEF TagOf, Index, t
<1> HIDE DEF k, j, i
<1>5. age = TABLE * (k * q + j) + i
  <2>1. TAGS * q = TABLE * (k * q)
    BY <1>1, <1>3, Sizes
  <2>2. TABLE * (k * q + j) = TABLE * (k * q) + TABLE * j
    BY <1>1, <1>2, <1>3, Sizes
  <2>3. k * q + j \in Int
    BY <1>1, <1>2, <1>3
  <2> QED BY <2>1, <2>2, <1>1, <1>2, Sizes
<1>6. k * q + j \in Int
  BY <1>1, <1>2, <1>3
<1>7. age % TABLE = i
  BY <1>5, <1>6, <1>2, Sizes, DivModUnique
<1> QED BY <1>1, <1>4, <1>7

\* seq_reg + 1, wrapping, is the tag of the next age.
LEMMA NextTag ==
    ASSUME NEW age \in Nat
    PROVE  (TagOf(age) + 1) % TAGS = TagOf(age + 1)
<1> DEFINE q == age \div TAGS
           t == age % TAGS
<1>1. q \in Int /\ t \in 0 .. TAGS - 1 /\ age = TAGS * q + t
  BY DivMod, Sizes
<1> HIDE DEF q
<1>2. TagOf(age) = t
  BY DEF TagOf
<1> HIDE DEF t
<1>3. CASE t < TAGS - 1
  <2>1. (t + 1) % TAGS = t + 1
    <3>1. t + 1 \in 0 .. TAGS - 1 /\ t + 1 = TAGS * 0 + (t + 1)
      BY <1>1, <1>3, Sizes
    <3> QED BY <3>1, Sizes, DivModUnique
  <2>2. age + 1 = TAGS * q + (t + 1) /\ t + 1 \in 0 .. TAGS - 1
    BY <1>1, <1>3, Sizes
  <2>3. (age + 1) % TAGS = t + 1
    BY <2>2, <1>1, Sizes, DivModUnique
  <2> QED BY <2>1, <2>3, <1>2 DEF TagOf
<1>4. CASE t = TAGS - 1
  <2>1. (t + 1) % TAGS = 0
    <3>1. t + 1 = TAGS * 1 + 0 /\ 0 \in 0 .. TAGS - 1
      BY <1>4, Sizes
    <3> QED BY <3>1, Sizes, DivModUnique
  <2>2. age + 1 = TAGS * (q + 1) + 0 /\ 0 \in 0 .. TAGS - 1
    BY <1>1, <1>4, Sizes
  <2>3. (age + 1) % TAGS = 0
    BY <2>2, <1>1, Sizes, DivModUnique
  <2> QED BY <2>1, <2>3, <1>2 DEF TagOf
<1> QED BY <1>1, <1>3, <1>4, Sizes

\* Two ages less than m apart that leave the same remainder are the same.
LEMMA SameRemainder ==
    ASSUME NEW m \in Nat \ {0}, NEW x \in Nat, NEW y \in Nat,
           x % m = y % m, x - y < m, y - x < m
    PROVE  x = y
<1> DEFINE p == x \div m
           q == y \div m
           r == x % m
<1>1. p \in Int /\ q \in Int /\ r \in 0 .. m - 1 /\ x = m * p + r /\ y = m * q + r
  BY DivMod
<1> HIDE DEF p, q, r
<1>2. ~(p - q >= 1)
  <2> SUFFICES ASSUME p - q >= 1 PROVE FALSE
    OBVIOUS
  <2>1. m * (p - q) >= m /\ m * (p - q) = m * p - m * q
    BY <1>1, TimesMono
  <2> QED BY <2>1, <1>1
<1>3. ~(q - p >= 1)
  <2> SUFFICES ASSUME q - p >= 1 PROVE FALSE
    OBVIOUS
  <2>1. m * (q - p) >= m /\ m * (q - p) = m * q - m * p
    BY <1>1, TimesMono
  <2> QED BY <2>1, <1>1
<1> QED BY <1>1, <1>2, <1>3

\* Two recent ages with the same entry and the same tag[15:6] are the same.
LEMMA SameTag ==
    ASSUME NEW x \in Nat, NEW y \in Nat, x - y < TAGS, y - x < TAGS,
           x % TABLE = y % TABLE, High(TagOf(x)) = High(TagOf(y))
    PROVE  x = y
<1> DEFINE s == TagOf(x)
           t == TagOf(y)
<1>1. s \in 0 .. TAGS - 1 /\ t \in 0 .. TAGS - 1 /\ s % TABLE = t % TABLE
  BY IndexOfTag DEF Index
<1>2. s \div TABLE = t \div TABLE
  BY DEF High
<1> HIDE DEF s, t
<1>3. /\ s = TABLE * (s \div TABLE) + (s % TABLE)
      /\ t = TABLE * (t \div TABLE) + (t % TABLE)
  BY <1>1, Sizes, DivMod
<1>4. s = t
  BY <1>1, <1>2, <1>3
<1>5. x % TAGS = y % TAGS
  BY <1>4 DEF s, t, TagOf
<1> QED BY <1>5, Sizes, SameRemainder

\* An entry used TABLE tags ago is the one of this tag.
LEMMA TableApart ==
    ASSUME NEW x \in Nat, NEW y \in Nat, y - x = TABLE
    PROVE  x % TABLE = y % TABLE
<1> DEFINE q == x \div TABLE
           r == x % TABLE
<1>1. q \in Int /\ r \in 0 .. TABLE - 1 /\ x = TABLE * q + r
  BY DivMod, Sizes
<1>2. r = x % TABLE
  OBVIOUS
<1> DEFINE p == q + 1
<1> HIDE DEF q, r
<1>3. y = TABLE * p + r /\ p \in Int
  BY <1>1, Sizes
<1> HIDE DEF p
<1>4. y % TABLE = r
  BY <1>1, <1>3, Sizes, DivModUnique
<1> QED BY <1>2, <1>4

-----------------------------------------------------------------------------
(* The inductive invariant.                                                *)

\* A stamp or record carries the tag that was given at its age.
Mine(t) == t.tag = TagOf(t.age) /\ t.age < allocs

FrameOK ==
    /\ frame \in [n : Nat, want : BOOLEAN, left : 0 .. 2] /\ frames \in Nat
    /\ frame # None => frame.left \in {1, 2}
    /\ sof \in BOOLEAN /\ pushed \in BOOLEAN

\* The entries of the table are the youngest tags of their index.
EntryOK(i) ==
    /\ pend[i].age < allocs /\ allocs - pend[i].age <= TABLE
    /\ pend[i].age % TABLE = i
    /\ pend[i].hi = High(TagOf(pend[i].age))

TableOK ==
    /\ allocs \in Nat /\ seq = TagOf(allocs)
    /\ valid \subseteq 0 .. TABLE - 1
    /\ pend \in [0 .. TABLE - 1 -> Entry]
    /\ \A i \in valid : EntryOK(i)

PtpTyped == ptp \in Seq(Record) /\ Len(ptp) <= PTP_FIFO_DEPTH

\* Each tag is in one place: the record FIFO, the MAC or stage A.
PtpOK ==
    /\ \A i \in 1 .. Len(ptp) : ptp[i].op => Mine(ptp[i])
    /\ \A i, j \in 1 .. Len(ptp) : i < j /\ ptp[i].op /\ ptp[j].op => ptp[i].age # ptp[j].age

NotInFifo(age) == \A i \in 1 .. Len(ptp) : ptp[i].op => ptp[i].age # age

MacOK ==
    /\ mac \subseteq Stamp
    /\ \A t \in mac : Mine(t) /\ allocs - t.age < TAGS /\ NotInFifo(t.age)

Latch == [valid : BOOLEAN, vld : BOOLEAN, tag : 0 .. TAGS - 1, age : Nat, ent : Entry]

\* What stage A holds is still in the table, and a match is of the same tag.
StageOK ==
    /\ a \in Latch
    /\ a.valid => /\ Mine(a) /\ NotInFifo(a.age) /\ \A t \in mac : t.age # a.age
                  /\ a.vld => a.ent = pend[Index(a.tag)]
                  /\ Hit => HitIndex \in valid /\ a.age = a.ent.age

\* The table still has what may come back in time.
Kept(t) == Usable(t.age) => Index(t.tag) \in valid /\ pend[Index(t.tag)].age = t.age

KeptOK ==
    /\ \A t \in mac : Kept(t)
    /\ \A i \in 1 .. Len(ptp) : ptp[i].op => Kept(ptp[i])
    /\ a.valid /\ Usable(a.age) => Hit

IInv ==
    /\ FrameOK /\ RecordPrecedesFrame
    /\ TableOK /\ PtpTyped /\ PtpOK /\ MacOK /\ StageOK /\ KeptOK
    /\ CountTypeOK /\ Accounted

\* After configuration.
LEMMA InitHolds == Init => IInv
<1> SUFFICES ASSUME Init PROVE IInv
  OBVIOUS
<1> USE DEF Init
<1>1. FrameOK /\ RecordPrecedesFrame
  <2>1. frame \in [n : Nat, want : BOOLEAN, left : 0 .. 2]
    BY DEF None
  <2>2. FrameOK
    BY <2>1 DEF FrameOK
  <2>3. RecordPrecedesFrame
    BY DEF RecordPrecedesFrame, One
  <2> QED BY <2>2, <2>3
<1>2. TableOK
  <2>1. 0 = TABLE * 0 + 0 /\ 0 = TAGS * 0 + 0 /\ 0 \in 0 .. TAGS - 1
    BY Sizes
  <2>2. TagOf(0) = 0
    BY <2>1, Sizes, DivModUnique DEF TagOf
  <2> QED BY <2>2, Sizes DEF TableOK, Entry, NoEntry
<1>3. PtpTyped /\ PtpOK /\ MacOK
  BY PtpTxTaggerAssumption DEF PtpTyped, PtpOK, MacOK
<1>4. StageOK /\ KeptOK
  BY Sizes DEF StageOK, KeptOK, Latch, NoReturn, Entry, NoEntry
<1>5. CountTypeOK
  BY DEF CountTypeOK, Idle, NoErr
<1>6. Accounted
  <2>1. Cardinality({}) = 0
    BY FS_EmptySet
  <2>2. {i \in 1 .. 4 : pipe[i]} = {}
    BY DEF Idle
  <2>3. InPipe(pipe) = 0
    BY <2>1, <2>2 DEF InPipe
  <2>4. One(a.valid) = 0
    BY DEF One, NoReturn
  <2>5. Cardinality(valid) = 0
    BY <2>1
  <2> QED BY <2>3, <2>4, <2>5 DEF Accounted, TagsAccounted, ReturnsAccounted, NoErr
<1> QED BY <1>1, <1>2, <1>3, <1>4, <1>5, <1>6 DEF IInv

-----------------------------------------------------------------------------
(* The start-of-frame gate.                                                *)

\* The gate pushes one record per frame and opens behind it.
LEMMA GateStep ==
    ASSUME FrameOK, RecordPrecedesFrame, NEW mready \in BOOLEAN, SofGate(mready)
    PROVE  FrameOK' /\ RecordPrecedesFrame'
<1> DEFINE take == frame # None /\ Gate /\ mready
<1>1. FrameOK'
  <2>1. frame' \in [n : Nat, want : BOOLEAN, left : 0 .. 2] /\ (frame' # None => frame'.left \in {1, 2})
    <3>1. CASE frame = None \/ (take /\ frame.left = 1)
      <4>1. frame' \in NextFrame
        BY <3>1 DEF SofGate
      <4>2. None \in [n : Nat, want : BOOLEAN, left : 0 .. 2]
        BY DEF None
      <4>3. CASE frame' = None
        BY <4>2, <4>3
      <4>4. CASE frame' \in [n : {frames + 1}, want : BOOLEAN, left : {1, 2}]
        BY <4>4 DEF FrameOK
      <4> QED BY <4>1, <4>3, <4>4 DEF NextFrame
    <3>2. CASE ~(frame = None \/ (take /\ frame.left = 1))
      <4>1. frame' = IF take THEN [frame EXCEPT !.left = @ - 1] ELSE frame
        BY <3>2 DEF SofGate
      <4> QED BY <3>2, <4>1 DEF FrameOK, None
    <3> QED BY <3>1, <3>2
  <2>2. sof' \in BOOLEAN
    BY DEF SofGate, FrameOK
  <2>3. pushed' \in BOOLEAN
    BY DEF SofGate
  <2>4. frames' \in Nat
    BY <2>1 DEF SofGate, FrameOK
  <2> QED BY <2>1, <2>2, <2>3, <2>4 DEF FrameOK
<1>2. RecordPrecedesFrame'
  <2>1. take /\ sof => pushed
    BY DEF Gate
  <2>2. Push => ~pushed /\ sof /\ frame # None
    BY DEF Push
  <2>3. pushed => sof /\ frame # None
    BY DEF RecordPrecedesFrame
  <2>4. ahead = One(pushed) /\ ahead' = ahead + One(Push) - One(take /\ sof)
    BY DEF RecordPrecedesFrame, SofGate
  <2>5. pushed' = ((pushed \/ Push) /\ ~(take /\ sof))
    BY DEF SofGate
  <2>6. ahead' = One(pushed')
    <3>1. CASE take /\ sof
      <4>1. pushed /\ ~Push /\ ~pushed'
        BY <3>1, <2>1, <2>2, <2>5
      <4> QED BY <3>1, <4>1, <2>4 DEF One
    <3>2. CASE ~(take /\ sof) /\ Push
      <4>1. ~pushed /\ pushed'
        BY <3>2, <2>2, <2>5
      <4> QED BY <3>2, <4>1, <2>4 DEF One
    <3>3. CASE ~(take /\ sof) /\ ~Push
      <4>1. pushed' <=> pushed
        BY <3>3, <2>5
      <4> QED BY <3>3, <4>1, <2>4 DEF One
    <3> QED BY <3>1, <3>2, <3>3
  <2>7. ASSUME pushed' PROVE sof' /\ frame' # None
    <3>1. ~take /\ sof /\ frame # None
      BY <2>7, <2>2, <2>3, <2>5
    <3>2. sof' = sof /\ frame' = frame
      BY <3>1 DEF SofGate
    <3> QED BY <3>1, <3>2
  <2> QED BY <2>6, <2>7 DEF RecordPrecedesFrame
<1> QED BY <1>1, <1>2

-----------------------------------------------------------------------------
(* The table: what an allocation does, in a cycle or at a reset.           *)

Allocates ==
    /\ pend' = IF Alloc THEN [pend EXCEPT ![Index(seq)] = [hi |-> High(seq), age |-> allocs]] ELSE pend
    /\ seq' = IF Alloc THEN (seq + 1) % TAGS ELSE seq
    /\ allocs' = allocs + One(Alloc)

\* The entry of the next tag is replaced; the others grow older, and stay young
\* enough, since one of age TABLE would be the one replaced.
LEMMA Allocation ==
    ASSUME TableOK, Allocates
    PROVE  /\ allocs' \in Nat /\ seq' = TagOf(allocs') /\ pend' \in [0 .. TABLE - 1 -> Entry]
           /\ Index(seq) \in 0 .. TABLE - 1 /\ Index(seq) = allocs % TABLE
           /\ allocs <= allocs' /\ (Alloc => allocs' = allocs + 1)
           /\ (~Alloc => allocs' = allocs)
           /\ \A i \in 0 .. TABLE - 1 : ~(Alloc /\ i = Index(seq)) => pend'[i] = pend[i]
           /\ \A i \in valid : ~(Alloc /\ i = Index(seq)) => EntryOK(i)'
           /\ \A i \in 0 .. TABLE - 1 : Alloc /\ i = Index(seq) =>
                  pend'[i] = [hi |-> High(seq), age |-> allocs] /\ EntryOK(i)'
<1>1. allocs' \in Nat /\ allocs <= allocs' /\ (Alloc => allocs' = allocs + 1)
      /\ (~Alloc => allocs' = allocs)
  BY DEF TableOK, Allocates, One
<1>2. seq' = TagOf(allocs')
  <2>1. CASE Alloc
    BY <2>1, <1>1, NextTag DEF TableOK, Allocates
  <2>2. CASE ~Alloc
    BY <2>2, <1>1 DEF TableOK, Allocates
  <2> QED BY <2>1, <2>2
<1>3. seq \in 0 .. TAGS - 1 /\ Index(seq) = allocs % TABLE
  BY IndexOfTag DEF TableOK
<1>4. Index(seq) \in 0 .. TABLE - 1
  BY <1>3, DivMod, Sizes DEF TableOK
<1>5. High(seq) \in Nat
  <2>1. seq \div TABLE \in Int /\ seq % TABLE \in 0 .. TABLE - 1
        /\ seq = TABLE * (seq \div TABLE) + (seq % TABLE)
    <3>1. seq \in Int
      BY <1>3, Sizes
    <3> QED BY <3>1, DivMod, Sizes
  <2> DEFINE q == seq \div TABLE
             r == seq % TABLE
  <2>2. q \in Int /\ r \in 0 .. TABLE - 1 /\ seq = TABLE * q + r /\ High(seq) = q
    BY <2>1 DEF High
  <2> HIDE DEF q, r
  <2>3. ~(-q >= 1)
    <3> SUFFICES ASSUME -q >= 1 PROVE FALSE
      OBVIOUS
    <3>1. TABLE * (-q) >= TABLE /\ TABLE * (-q) = -(TABLE * q)
      BY <2>2, Sizes, TimesMono
    <3> QED BY <3>1, <2>2, <1>3, Sizes
  <2> QED BY <2>2, <2>3
<1>6. pend' \in [0 .. TABLE - 1 -> Entry]
  BY <1>4, <1>5 DEF TableOK, Allocates, Entry
<1>7. \A i \in 0 .. TABLE - 1 : ~(Alloc /\ i = Index(seq)) => pend'[i] = pend[i]
  BY <1>4 DEF TableOK, Allocates
<1>8. ASSUME NEW i \in 0 .. TABLE - 1, Alloc, i = Index(seq)
      PROVE  pend'[i] = [hi |-> High(seq), age |-> allocs] /\ EntryOK(i)'
  <2>1. pend'[i] = [hi |-> High(seq), age |-> allocs]
    BY <1>4, <1>8 DEF TableOK, Allocates
  <2>2. seq = TagOf(allocs) /\ allocs \in Nat
    BY DEF TableOK
  <2>3. TABLE >= 1
    BY Sizes
  <2>4. allocs' = allocs + 1
    BY <1>1, <1>8
  <2>5. pend'[i].age = allocs /\ pend'[i].hi = High(TagOf(allocs))
    BY <2>1, <2>2
  <2>6. allocs % TABLE = i
    BY <1>3, <1>8
  <2>7. EntryOK(i)'
    BY <2>2, <2>3, <2>4, <2>5, <2>6, Sizes DEF EntryOK
  <2> QED BY <2>1, <2>7
<1>9. ASSUME NEW i \in valid, ~(Alloc /\ i = Index(seq))
      PROVE  EntryOK(i)'
  <2> DEFINE e == pend[i].age
  <2>1. i \in 0 .. TABLE - 1 /\ EntryOK(i) /\ e \in Nat /\ allocs \in Nat
    BY DEF TableOK, Entry
  <2>2. pend'[i] = pend[i]
    BY <1>7, <1>9, <2>1
  <2>3. e < allocs /\ allocs - e <= TABLE /\ e % TABLE = i
    BY <2>1 DEF EntryOK
  <2>4. allocs' - e <= TABLE
    <3>1. CASE Alloc
      <4>1. allocs % TABLE # i
        BY <1>3, <1>9, <3>1
      <4>2. allocs - e # TABLE
        BY <4>1, <2>1, <2>3, TableApart
      <4> QED BY <4>2, <2>1, <2>3, <1>1, <3>1, Sizes
    <3>2. CASE ~Alloc
      BY <3>2, <2>3, <1>1
    <3> QED BY <3>1, <3>2
  <2>5. e < allocs'
    BY <1>1, <2>1, <2>3
  <2> QED BY <2>1, <2>2, <2>4, <2>5 DEF EntryOK
<1> QED BY <1>1, <1>2, <1>3, <1>4, <1>6, <1>7, <1>8, <1>9

\* Stage B and an allocation leave only young entries.
LEMMA TableStep ==
    ASSUME TableOK, PendingTable
    PROVE  TableOK' /\ Allocates
<1>1. Allocates
  BY DEF PendingTable, Allocates
<1>2. valid' = (valid \ (IF Hit THEN {HitIndex} ELSE {})) \cup (IF Alloc THEN {Index(seq)} ELSE {})
  BY DEF PendingTable
<1>3. valid' \subseteq 0 .. TABLE - 1
  BY <1>1, <1>2, Allocation DEF TableOK
<1>4. ASSUME NEW i \in valid' PROVE EntryOK(i)'
  <2>1. CASE Alloc /\ i = Index(seq)
    BY <1>1, <1>3, <2>1, Allocation
  <2>2. CASE ~(Alloc /\ i = Index(seq))
    <3>1. i \in valid
      BY <1>2, <2>2
    <3> QED BY <1>1, <2>2, <3>1, Allocation
  <2> QED BY <2>1, <2>2
<1>5. allocs' \in Nat /\ seq' = TagOf(allocs') /\ pend' \in [0 .. TABLE - 1 -> Entry]
  BY <1>1, Allocation
<1> QED BY <1>1, <1>3, <1>4, <1>5 DEF TableOK

-----------------------------------------------------------------------------
(* The record FIFO and the MAC.                                            *)

NewRecord == [op |-> frame.want, tag |-> IF frame.want THEN seq ELSE 0,
              age |-> IF frame.want THEN allocs ELSE 0]

Shift(pready) == IF pready /\ ptp # <<>> THEN 1 ELSE 0

\* The FIFO shifts by a popped record and grows by a pushed one.
LEMMA FifoStep ==
    ASSUME FrameOK, TableOK, PtpTyped, NEW pready \in BOOLEAN, NEW ret, PtpFifo(pready, ret)
    PROVE  /\ PtpTyped'
           /\ Shift(pready) \in 0 .. Len(ptp)
           /\ Len(ptp') = Len(ptp) - Shift(pready) + (IF Push THEN 1 ELSE 0)
           /\ \A i \in 1 .. Len(ptp) - Shift(pready) : ptp'[i] = ptp[i + Shift(pready)]
           /\ Push => ptp'[Len(ptp) - Shift(pready) + 1] = NewRecord
<1> DEFINE rest == IF pready /\ ptp # <<>> THEN Tail(ptp) ELSE ptp
           more == IF Push THEN <<NewRecord>> ELSE <<>>
           k == Shift(pready)
<1>1. ptp' = rest \o more
  BY DEF PtpFifo, NewRecord
<1>2. ptp \in Seq(Record) /\ Len(ptp) \in Nat /\ Len(ptp) <= PTP_FIFO_DEPTH
  BY LenProperties DEF PtpTyped
<1>3. NewRecord \in Record
  <2>1. seq \in 0 .. TAGS - 1 /\ 0 \in 0 .. TAGS - 1
    BY IndexOfTag, Sizes DEF TableOK
  <2> QED BY <2>1 DEF NewRecord, Record, FrameOK, TableOK
<1>4. /\ rest \in Seq(Record) /\ k \in 0 .. Len(ptp) /\ Len(rest) = Len(ptp) - k
      /\ \A i \in 1 .. Len(ptp) - k : rest[i] = ptp[i + k]
  <2>1. CASE pready /\ ptp # <<>>
    <3>1. Tail(ptp) \in Seq(Record) /\ Len(Tail(ptp)) = Len(ptp) - 1 /\ Len(ptp) >= 1
          /\ \A i \in 1 .. Len(Tail(ptp)) : Tail(ptp)[i] = ptp[i + 1]
      BY <1>2, <2>1, HeadTailProperties, EmptySeq
    <3>2. rest = Tail(ptp) /\ k = 1
      BY <2>1 DEF Shift
    <3> HIDE DEF rest, k
    <3>3. rest \in Seq(Record) /\ k \in 0 .. Len(ptp) /\ Len(rest) = Len(ptp) - k
      BY <3>1, <3>2, <1>2
    <3>4. ASSUME NEW i \in 1 .. Len(ptp) - k PROVE rest[i] = ptp[i + k]
      BY <3>1, <3>2, <1>2
    <3> QED BY <3>3, <3>4
  <2>2. CASE ~(pready /\ ptp # <<>>)
    <3>1. rest = ptp /\ k = 0
      BY <2>2 DEF Shift
    <3> HIDE DEF rest, k
    <3>2. ASSUME NEW i \in 1 .. Len(ptp) - k PROVE rest[i] = ptp[i + k]
      BY <3>1, <1>2
    <3> QED BY <3>1, <3>2, <1>2
  <2> QED BY <2>1, <2>2
<1>5. Push => Len(ptp) < PTP_FIFO_DEPTH
  BY DEF Push
<1> HIDE DEF rest, k
<1>6. CASE Push
  <2>1. ptp' = rest \o <<NewRecord>>
    BY <1>1, <1>6
  <2>2. /\ rest \o <<NewRecord>> \in Seq(Record)
        /\ Len(rest \o <<NewRecord>>) = Len(rest) + 1
        /\ \A i \in 1 .. Len(rest) : (rest \o <<NewRecord>>)[i] = rest[i]
        /\ (rest \o <<NewRecord>>)[Len(rest) + 1] = NewRecord
    BY <1>3, <1>4
  <2>3. PTP_FIFO_DEPTH \in Nat
    BY PtpTxTaggerAssumption
  <2>4. PtpTyped'
    BY <2>1, <2>2, <2>3, <1>2, <1>4, <1>5, <1>6 DEF PtpTyped
  <2> QED BY <2>1, <2>2, <2>4, <1>4, <1>6, <1>2 DEF k
<1>7. CASE ~Push
  <2>1. ptp' = rest
    BY <1>1, <1>4, <1>7
  <2>2. PtpTyped'
    BY <2>1, <1>2, <1>4, PtpTxTaggerAssumption DEF PtpTyped
  <2> QED BY <2>1, <2>2, <1>4, <1>7, <1>2 DEF k
<1> QED BY <1>6, <1>7

\* The record of an allocated tag is the tag's own.
LEMMA NewStamp ==
    ASSUME FrameOK, TableOK, Allocates, Push, NewRecord.op
    PROVE  /\ Alloc /\ NewRecord.age = allocs /\ NewRecord.tag = TagOf(allocs)
           /\ NewRecord.tag = seq /\ NewRecord.age < allocs'
<1>1. frame.want
  BY DEF NewRecord
<1>2. Alloc
  BY <1>1 DEF Alloc
<1>3. NewRecord.age = allocs /\ NewRecord.tag = seq
  BY <1>1 DEF NewRecord
<1> QED BY <1>2, <1>3, Allocation DEF TableOK

\* Every record keeps its tag, and a new one has a new age.
LEMMA PtpOKStep ==
    ASSUME FrameOK, TableOK, PtpTyped, PtpOK, Allocates,
           NEW pready \in BOOLEAN, NEW ret, PtpFifo(pready, ret)
    PROVE  PtpOK'
<1> DEFINE k == Shift(pready)
           n == Len(ptp)
           Old(i) == i \in 1 .. n - k
           New(i) == Push /\ i = n - k + 1
<1>1. n \in Nat /\ k \in 0 .. n
  BY FifoStep, LenProperties DEF PtpTyped
<1>2. /\ \A i \in 1 .. Len(ptp') : Old(i) \/ New(i)
      /\ \A i : Old(i) => ptp'[i] = ptp[i + k] /\ i + k \in 1 .. n
      /\ \A i : New(i) => ptp'[i] = NewRecord
  <2>1. /\ Len(ptp') = n - k + (IF Push THEN 1 ELSE 0)
        /\ \A i \in 1 .. n - k : ptp'[i] = ptp[i + k]
        /\ Push => ptp'[n - k + 1] = NewRecord
    BY FifoStep
  <2> HIDE DEF n, k
  <2> QED BY <2>1, <1>1
<1> HIDE DEF n, k
<1>3. allocs \in Nat /\ allocs' \in Nat /\ allocs <= allocs'
  BY Allocation DEF TableOK
<1>4. ptp \in [1 .. n -> Record]
  BY LenProperties DEF PtpTyped, n
<1>5. ASSUME NEW i \in 1 .. Len(ptp'), ptp'[i].op
      PROVE  Mine(ptp[i])'
  <2>1. CASE Old(i)
    <3>1. Mine(ptp[i + k]) /\ ptp[i + k].age \in Nat /\ ptp'[i] = ptp[i + k]
      BY <1>2, <1>4, <1>5, <2>1 DEF PtpOK, Record, n
    <3> QED BY <3>1, <1>3 DEF Mine
  <2>2. CASE New(i)
    <3>1. ptp'[i] = NewRecord /\ Push
      BY <1>2, <2>2
    <3>2. NewRecord.age = allocs /\ NewRecord.tag = TagOf(allocs) /\ NewRecord.age < allocs'
      BY <3>1, <1>5, NewStamp
    <3> QED BY <3>1, <3>2 DEF Mine
  <2> QED BY <1>2, <2>1, <2>2
<1>6. ASSUME NEW i \in 1 .. Len(ptp'), NEW j \in 1 .. Len(ptp'), i < j, ptp'[i].op, ptp'[j].op
      PROVE  ptp'[i].age # ptp'[j].age
  <2>1. Old(i)
    BY <1>2, <1>6, <1>1
  <2>2. ptp'[i] = ptp[i + k] /\ i + k \in 1 .. n
    BY <1>2, <2>1
  <2>3. CASE Old(j)
    <3>1. ptp'[j] = ptp[j + k] /\ j + k \in 1 .. n /\ i + k < j + k
      BY <1>1, <1>2, <1>6, <2>3
    <3> QED BY <2>2, <3>1, <1>6 DEF PtpOK, n
  <2>4. CASE New(j)
    <3>1. ptp'[j] = NewRecord /\ Push
      BY <1>2, <2>4
    <3>2. NewRecord.age = allocs
      BY <3>1, <1>6, NewStamp
    <3>3. ptp[i + k].age < allocs /\ ptp[i + k].age \in Nat
      BY <2>2, <1>4, <1>6 DEF PtpOK, Mine, Record, n
    <3> QED BY <3>1, <3>2, <3>3, <2>2, <1>3
  <2> QED BY <1>2, <2>3, <2>4
<1> QED BY <1>5, <1>6 DEF PtpOK

\* An age that is nowhere in the FIFO, or has just left it, does not come back.
LEMMA StaysOut ==
    ASSUME FrameOK, TableOK, PtpTyped, PtpOK, Allocates,
           NEW pready \in BOOLEAN, NEW ret, PtpFifo(pready, ret),
           NEW age \in Nat, age < allocs,
           \/ NotInFifo(age)
           \/ pready /\ ptp # <<>> /\ ptp[1].op /\ age = ptp[1].age
    PROVE  \A i \in 1 .. Len(ptp') : ptp'[i].op => ptp'[i].age # age
<1> DEFINE k == Shift(pready)
           n == Len(ptp)
<1>1. n \in Nat /\ k \in 0 .. n
  BY FifoStep, LenProperties DEF PtpTyped
<1>2. /\ Len(ptp') = n - k + (IF Push THEN 1 ELSE 0)
      /\ \A i \in 1 .. n - k : ptp'[i] = ptp[i + k]
      /\ Push => ptp'[n - k + 1] = NewRecord
  BY FifoStep
<1>3. pready /\ ptp # <<>> => k = 1
  BY DEF Shift
<1> HIDE DEF k
<1>4. ASSUME NEW i \in 1 .. Len(ptp'), ptp'[i].op
      PROVE  ptp'[i].age # age
  <2>1. CASE i \in 1 .. n - k
    <3>1. ptp'[i] = ptp[i + k] /\ i + k \in 1 .. n
      BY <1>1, <1>2, <2>1
    <3>2. CASE NotInFifo(age)
      BY <3>1, <3>2, <1>4 DEF NotInFifo
    <3>3. CASE pready /\ ptp # <<>> /\ ptp[1].op /\ age = ptp[1].age
      <4>1. 1 < i + k /\ 1 \in 1 .. n
        BY <1>1, <1>3, <2>1, <3>1, <3>3
      <4> QED BY <3>1, <3>3, <4>1, <1>4 DEF PtpOK
    <3> QED BY <3>2, <3>3
  <2>2. CASE Push /\ i = n - k + 1
    <3>1. ptp'[i] = NewRecord
      BY <1>2, <2>2
    <3>2. NewRecord.age = allocs
      BY <3>1, <2>2, <1>4, NewStamp
    <3> QED BY <3>1, <3>2 DEF TableOK
  <2>3. (i \in 1 .. n - k) \/ (Push /\ i = n - k + 1)
    BY <1>1, <1>2
  <2> QED BY <2>1, <2>2, <2>3
<1> QED BY <1>4

\* Where a timestamp the MAC may return came from.
LEMMA MacFrom ==
    ASSUME PtpTyped, NEW pready \in BOOLEAN, NEW ret, PtpFifo(pready, ret), NEW t \in mac'
    PROVE  /\ allocs' - t.age < TAGS
           /\ \/ t \in mac \ ret
              \/ /\ pready /\ ptp # <<>> /\ ptp[1].op /\ ptp[1] \in Record /\ 1 \in 1 .. Len(ptp)
                 /\ t = [tag |-> ptp[1].tag, age |-> ptp[1].age]
<1> DEFINE pop == pready /\ ptp # <<>>
<1>1. mac' = {u \in (mac \ ret) \cup (IF pop /\ Head(ptp).op
                                      THEN {[tag |-> Head(ptp).tag, age |-> Head(ptp).age]}
                                      ELSE {}) : allocs' - u.age < TAGS}
  BY DEF PtpFifo
<1>2. ASSUME ptp # <<>> PROVE Head(ptp) = ptp[1] /\ ptp[1] \in Record /\ 1 \in 1 .. Len(ptp)
  <2>1. ptp \in Seq(Record) /\ Len(ptp) \in Nat
    BY LenProperties DEF PtpTyped
  <2>2. Len(ptp) >= 1 /\ Head(ptp) = ptp[1]
    BY <2>1, <1>2, EmptySeq
  <2>3. 1 \in 1 .. Len(ptp)
    BY <2>1, <2>2
  <2>4. ptp[1] \in Record
    BY <2>1, <2>3, ElementOfSeq
  <2> QED BY <2>2, <2>3, <2>4
<1>3. allocs' - t.age < TAGS
  BY <1>1
<1>4. ASSUME t \notin mac \ ret
      PROVE  pop /\ Head(ptp).op /\ t = [tag |-> Head(ptp).tag, age |-> Head(ptp).age]
  <2>1. t \in IF pop /\ Head(ptp).op THEN {[tag |-> Head(ptp).tag, age |-> Head(ptp).age]} ELSE {}
    BY <1>1, <1>4
  <2>2. CASE pop /\ Head(ptp).op
    BY <2>1, <2>2
  <2>3. CASE ~(pop /\ Head(ptp).op)
    BY <2>1, <2>3
  <2> QED BY <2>2, <2>3
<1> QED BY <1>2, <1>3, <1>4

\* A timestamp of the MAC is out of the FIFO.
LEMMA MacStep ==
    ASSUME FrameOK, TableOK, PtpTyped, PtpOK, MacOK, Allocates,
           NEW pready \in BOOLEAN, NEW ret, PtpFifo(pready, ret)
    PROVE  MacOK'
<1>1. allocs \in Nat /\ allocs' \in Nat /\ allocs <= allocs'
  BY Allocation DEF TableOK
<1>2. ASSUME NEW t \in mac'
      PROVE  /\ t \in Stamp /\ t.tag = TagOf(t.age) /\ t.age < allocs'
             /\ allocs' - t.age < TAGS
             /\ \A i \in 1 .. Len(ptp') : ptp'[i].op => ptp'[i].age # t.age
  <2>1. allocs' - t.age < TAGS
    BY MacFrom
  <2>2. CASE t \in mac
    <3>1. t \in Stamp /\ t.tag = TagOf(t.age) /\ t.age < allocs /\ NotInFifo(t.age) /\ t.age \in Nat
      BY <2>2 DEF MacOK, Mine, Stamp
    <3>2. \A i \in 1 .. Len(ptp') : ptp'[i].op => ptp'[i].age # t.age
      BY <3>1, StaysOut
    <3> QED BY <2>1, <3>1, <3>2, <1>1
  <2>3. CASE t \notin mac
    <3>1. /\ pready /\ ptp # <<>> /\ ptp[1].op /\ ptp[1] \in Record /\ 1 \in 1 .. Len(ptp)
          /\ t = [tag |-> ptp[1].tag, age |-> ptp[1].age]
      BY <2>3, MacFrom
    <3>2. t \in Stamp /\ t.age \in Nat /\ t.age = ptp[1].age
      BY <3>1 DEF Stamp, Record
    <3>3. t.tag = TagOf(t.age) /\ t.age < allocs
      BY <3>1 DEF PtpOK, Mine
    <3>4. \A i \in 1 .. Len(ptp') : ptp'[i].op => ptp'[i].age # t.age
      BY <3>1, <3>2, <3>3, StaysOut
    <3> QED BY <2>1, <3>2, <3>3, <3>4, <1>1
  <2> QED BY <2>2, <2>3
<1> QED BY <1>2 DEF MacOK, Mine, NotInFifo

-----------------------------------------------------------------------------
(* Stage A.                                                                *)

Latched(t) == [valid |-> TRUE, vld |-> Index(t.tag) \in valid /\ ~(Alloc /\ Index(seq) = Index(t.tag)),
               tag |-> t.tag, age |-> t.age, ent |-> pend[Index(t.tag)]]

\* Stage A latches nothing or one timestamp of the MAC.
LEMMA StageCases ==
    ASSUME NEW ret \in Returns, StageA(ret)
    PROVE  \/ ret = {} /\ a' = NoReturn
           \/ \E t \in mac : ret = {t} /\ a' = Latched(t)
<1>1. CASE ret = {}
  BY <1>1 DEF StageA
<1>2. CASE ret # {}
  <2>1. PICK t \in mac : ret = {t}
    BY <1>2 DEF Returns
  <2>2. (CHOOSE u \in ret : TRUE) = t
    BY <2>1
  <2>3. a' = Latched(t)
    BY <1>2, <2>2 DEF StageA, Latched
  <2> QED BY <2>1, <2>3
<1> QED BY <1>1, <1>2

\* The entry read for a tag, if its tag[15:6] match, is the tag's own.
LEMMA OwnEntry ==
    ASSUME TableOK, MacOK, NEW t \in mac
    PROVE  /\ Index(t.tag) \in 0 .. TABLE - 1 /\ Index(t.tag) = t.age % TABLE /\ t.age \in Nat
           /\ Index(t.tag) \in valid /\ pend[Index(t.tag)].hi = High(t.tag)
              => pend[Index(t.tag)].age = t.age
           /\ Index(t.tag) \in valid /\ pend[Index(t.tag)].age = t.age
              => pend[Index(t.tag)].hi = High(t.tag)
<1> DEFINE i == Index(t.tag)
           e == pend[i].age
<1>1. t.age \in Nat /\ t.tag = TagOf(t.age) /\ t.age < allocs /\ allocs - t.age < TAGS
  BY DEF MacOK, Mine, Stamp
<1>2. i = t.age % TABLE
  BY <1>1, IndexOfTag
<1>3. i \in 0 .. TABLE - 1
  <2>1. t.age \in Int
    BY <1>1
  <2>2. t.age % TABLE \in 0 .. TABLE - 1
    BY <2>1, DivMod, Sizes
  <2> QED BY <2>2, <1>2
<1>4. ASSUME i \in valid
      PROVE  /\ e \in Nat /\ e < allocs /\ allocs - e <= TABLE
             /\ e % TABLE = i /\ pend[i].hi = High(TagOf(e))
  BY <1>3, <1>4 DEF TableOK, EntryOK, Entry
<1>5. ASSUME i \in valid, pend[i].hi = High(t.tag)
      PROVE  e = t.age
  <2>1. e \in Nat /\ e - t.age < TAGS /\ t.age - e < TAGS
    BY <1>1, <1>4, <1>5, Sizes DEF TableOK
  <2>2. e % TABLE = t.age % TABLE
    BY <1>2, <1>4, <1>5
  <2>3. High(TagOf(e)) = High(TagOf(t.age))
    BY <1>1, <1>4, <1>5
  <2> HIDE DEF e
  <2> QED BY <1>1, <2>1, <2>2, <2>3, SameTag
<1>6. ASSUME i \in valid, e = t.age
      PROVE  pend[i].hi = High(t.tag)
  BY <1>1, <1>4, <1>6
<1> QED BY <1>1, <1>2, <1>3, <1>5, <1>6

\* What stage A latches is there for stage B, unless allocated in this cycle.
LEMMA StageStep ==
    ASSUME FrameOK, TableOK, PtpTyped, PtpOK, MacOK, StageOK, PendingTable,
           NEW pready \in BOOLEAN, NEW ret \in Returns, PtpFifo(pready, ret), StageA(ret)
    PROVE  StageOK'
<1>1. Allocates
  BY TableStep
<1>2. CASE a' = NoReturn
  <2>1. NoReturn \in Latch
    BY Sizes DEF NoReturn, NoEntry, Latch, Entry
  <2>2. ~a'.valid
    BY <1>2 DEF NoReturn
  <2> QED BY <1>2, <2>1, <2>2 DEF StageOK
<1>3. ASSUME NEW t \in mac, ret = {t}, a' = Latched(t)
      PROVE  StageOK'
  <2> DEFINE i == Index(t.tag)
             seen == i \in valid /\ ~(Alloc /\ Index(seq) = i)
  <2>1. /\ a'.valid /\ (a'.vld <=> seen) /\ a'.tag = t.tag /\ a'.age = t.age /\ a'.ent = pend[i]
    BY <1>3 DEF Latched
  <2>2. t \in Stamp /\ t.tag = TagOf(t.age) /\ t.age < allocs /\ NotInFifo(t.age) /\ t.age \in Nat
    BY DEF MacOK, Mine, Stamp
  <2>3. i \in 0 .. TABLE - 1
    BY OwnEntry
  <2>4. a' \in Latch
    <3>1. seen \in BOOLEAN
      OBVIOUS
    <3>2. pend[i] \in Entry
      BY <2>3 DEF TableOK
    <3>3. a' = [valid |-> TRUE, vld |-> seen, tag |-> t.tag, age |-> t.age, ent |-> pend[i]]
      BY <1>3 DEF Latched
    <3> HIDE DEF seen, i
    <3> QED BY <3>1, <3>2, <3>3, <2>2 DEF Latch, Stamp
  <2>5. allocs <= allocs' /\ allocs \in Nat /\ allocs' \in Nat
    BY <1>1, Allocation DEF TableOK
  <2>6. Mine(a)'
    BY <2>1, <2>2, <2>5 DEF Mine
  <2>7. \A j \in 1 .. Len(ptp') : ptp'[j].op => ptp'[j].age # t.age
    BY <1>1, <2>2, StaysOut
  <2>8. ASSUME NEW u \in mac' PROVE u.age # t.age
    <3>1. CASE u \in mac /\ u # t
      <4>1. u \in Stamp /\ u.tag = TagOf(u.age)
        BY <3>1 DEF MacOK, Mine
      <4> QED BY <3>1, <4>1, <2>2 DEF Stamp
    <3>2. CASE ~(u \in mac /\ u # t)
      <4>1. ptp[1].op /\ 1 \in 1 .. Len(ptp) /\ u = [tag |-> ptp[1].tag, age |-> ptp[1].age]
        BY <3>2, <1>3, MacFrom
      <4> QED BY <4>1, <2>2 DEF NotInFifo
    <3> QED BY <3>1, <3>2
  <2>9. seen => pend'[i] = pend[i]
    BY <1>1, <2>3, Allocation
  <2>10. ASSUME seen, pend[i].hi = High(t.tag)
         PROVE  i \in valid' /\ t.age = pend[i].age
    <3>1. pend[i].age = t.age
      BY <2>10, OwnEntry
    <3>2. ~(Hit /\ HitIndex = i)
      <4> SUFFICES ASSUME Hit, HitIndex = i PROVE FALSE
        OBVIOUS
      <4>1. a.valid /\ a.vld /\ Index(a.tag) = i
        BY DEF Hit, HitIndex
      <4>2. a.ent = pend[i] /\ a.age = a.ent.age /\ t.age # a.age
        BY <4>1 DEF StageOK
      <4> QED BY <4>2, <3>1
    <3>3. i \in valid'
      BY <3>2, <2>10 DEF PendingTable
    <3> QED BY <3>1, <3>3
  <2>11. Hit' <=> seen /\ pend[i].hi = High(t.tag)
    BY <2>1 DEF Hit
  <2>12. HitIndex' = i
    BY <2>1 DEF HitIndex
  <2>13. a'.vld => a'.ent = pend'[Index(a'.tag)]
    BY <2>1, <2>9
  <2>14. Hit' => HitIndex' \in valid' /\ a'.age = a'.ent.age
    BY <2>1, <2>10, <2>11, <2>12
  <2>15. NotInFifo(a.age)'
    BY <2>1, <2>7 DEF NotInFifo
  <2>16. \A u \in mac' : u.age # a'.age
    BY <2>1, <2>8
  <2> HIDE DEF i, seen
  <2> QED BY <2>4, <2>6, <2>13, <2>14, <2>15, <2>16 DEF StageOK
<1> QED BY <1>2, <1>3, StageCases

-----------------------------------------------------------------------------
(* The table keeps what may come back in time.                             *)

\* An age that is recent after an allocation was recent before.
LEMMA Earlier ==
    ASSUME NEW x \in Nat, NEW y \in Nat, NEW age \in Nat, NEW t \in Nat, x <= y, y - age <= t
    PROVE  x - age <= t
OBVIOUS

\* An entry still useful is neither replaced nor cleared by another timestamp.
LEMMA StaysKept ==
    ASSUME TableOK, StageOK, PendingTable, floor' = floor, floor \in Nat,
           NEW age \in Nat, NEW tag, tag = TagOf(age), age < allocs,
           Usable(age) => Index(tag) \in valid /\ pend[Index(tag)].age = age,
           a.valid => a.age # age,
           floor' <= age, allocs' - age <= TABLE
    PROVE  /\ Index(tag) \in valid /\ pend[Index(tag)].age = age
           /\ ~(Alloc /\ Index(seq) = Index(tag))
           /\ Index(tag) \in valid' /\ pend'[Index(tag)].age = age
<1> DEFINE i == Index(tag)
<1>1. Allocates
  BY TableStep
<1>2. allocs \in Nat /\ allocs' \in Nat /\ allocs <= allocs'
  BY <1>1, Allocation DEF TableOK
<1>3. i = age % TABLE
  BY IndexOfTag
<1>4. i \in valid /\ pend[i].age = age /\ i \in 0 .. TABLE - 1
  <2>1. Usable(age)
    <3>1. TABLE \in Nat
      BY PtpTxTaggerAssumption
    <3>2. floor <= age
      OBVIOUS
    <3>3. allocs' - age <= TABLE
      OBVIOUS
    <3>4. allocs - age <= TABLE
      BY <3>1, <3>3, <1>2, Earlier
    <3> QED BY <3>2, <3>4 DEF Usable
  <2> QED BY <2>1 DEF TableOK
<1>5. ASSUME Alloc, Index(seq) = i PROVE FALSE
  <2>1. allocs' = allocs + 1 /\ allocs % TABLE = age % TABLE
    BY <1>1, <1>3, <1>5, Allocation
  <2>2. allocs - age < TABLE /\ age - allocs < TABLE
    BY <2>1, <1>2, Sizes
  <2>3. allocs = age
    BY <2>1, <2>2, <1>2, Sizes, SameRemainder
  <2> QED BY <2>3, <1>2
<1>6. pend'[i] = pend[i]
  BY <1>1, <1>4, <1>5, Allocation
<1>7. ~(Hit /\ HitIndex = i)
  <2> SUFFICES ASSUME Hit, HitIndex = i PROVE FALSE
    OBVIOUS
  <2>1. a.valid /\ a.vld /\ Index(a.tag) = i
    BY DEF Hit, HitIndex
  <2>2. a.ent = pend[i] /\ a.age = a.ent.age
    BY <2>1 DEF StageOK
  <2> QED BY <2>1, <2>2, <1>4
<1>8. i \in valid'
  BY <1>4, <1>7 DEF PendingTable
<1> QED BY <1>4, <1>5, <1>6, <1>8

\* So all entries still useful are kept.
LEMMA KeptStep ==
    ASSUME FrameOK, TableOK, PtpTyped, PtpOK, MacOK, StageOK, KeptOK, PendingTable,
           floor \in Nat, floor' = floor,
           NEW pready \in BOOLEAN, NEW ret \in Returns, PtpFifo(pready, ret), StageA(ret)
    PROVE  KeptOK'
<1>1. Allocates
  BY TableStep
<1>2. allocs \in Nat /\ allocs' \in Nat /\ allocs <= allocs'
  BY <1>1, Allocation DEF TableOK
<1>3. ASSUME NEW t \in mac, floor' <= t.age, allocs' - t.age <= TABLE
      PROVE  /\ Index(t.tag) \in valid /\ pend[Index(t.tag)].age = t.age
             /\ ~(Alloc /\ Index(seq) = Index(t.tag))
             /\ Index(t.tag) \in valid' /\ pend'[Index(t.tag)].age = t.age
  <2> DEFINE age == t.age
             tag == t.tag
  <2>1. age \in Nat /\ tag = TagOf(age) /\ age < allocs
    BY DEF MacOK, Mine, Stamp
  <2>2. Usable(age) => Index(tag) \in valid /\ pend[Index(tag)].age = age
    BY DEF KeptOK, Kept
  <2>3. a.valid => a.age # age
    BY DEF StageOK
  <2>4. floor' <= age /\ allocs' - age <= TABLE
    BY <1>3
  <2> HIDE DEF age, tag
  <2>5. /\ Index(tag) \in valid /\ pend[Index(tag)].age = age
        /\ ~(Alloc /\ Index(seq) = Index(tag))
        /\ Index(tag) \in valid' /\ pend'[Index(tag)].age = age
    BY <2>1, <2>2, <2>3, <2>4, StaysKept
  <2> QED BY <2>5 DEF age, tag
<1>4. ASSUME NEW j \in 1 .. Len(ptp), ptp[j].op, floor' <= ptp[j].age, allocs' - ptp[j].age <= TABLE
      PROVE  Index(ptp[j].tag) \in valid' /\ pend'[Index(ptp[j].tag)].age = ptp[j].age
  <2> DEFINE age == ptp[j].age
             tag == ptp[j].tag
  <2>1. ptp[j] \in Record
    BY ElementOfSeq DEF PtpTyped
  <2>2. age \in Nat /\ tag = TagOf(age) /\ age < allocs
    BY <2>1, <1>4 DEF PtpOK, Mine, Record
  <2>3. Usable(age) => Index(tag) \in valid /\ pend[Index(tag)].age = age
    BY <1>4 DEF KeptOK, Kept
  <2>4. a.valid => a.age # age
    BY <1>4 DEF StageOK, NotInFifo
  <2>5. floor' <= age /\ allocs' - age <= TABLE
    BY <1>4
  <2> HIDE DEF age, tag
  <2>6. Index(tag) \in valid' /\ pend'[Index(tag)].age = age
    BY <2>2, <2>3, <2>4, <2>5, StaysKept
  <2> QED BY <2>6 DEF age, tag
<1>5. ASSUME NEW i \in 1 .. Len(ptp'), ptp'[i].op, floor' <= ptp'[i].age,
             allocs' - ptp'[i].age <= TABLE
      PROVE  Index(ptp'[i].tag) \in valid' /\ pend'[Index(ptp'[i].tag)].age = ptp'[i].age
  <2> DEFINE k == Shift(pready)
             n == Len(ptp)
  <2>1. n \in Nat /\ k \in 0 .. n
    BY <1>1, FifoStep, LenProperties DEF PtpTyped
  <2>2. /\ Len(ptp') = n - k + (IF Push THEN 1 ELSE 0)
        /\ \A j \in 1 .. n - k : ptp'[j] = ptp[j + k]
        /\ Push => ptp'[n - k + 1] = NewRecord
    BY FifoStep
  <2> HIDE DEF k
  <2>3. CASE i \in 1 .. n - k
    <3>1. ptp'[i] = ptp[i + k] /\ i + k \in 1 .. Len(ptp)
      BY <2>1, <2>2, <2>3
    <3> DEFINE j == i + k
    <3>2. ptp'[i] = ptp[j] /\ j \in 1 .. Len(ptp)
      BY <3>1
    <3> HIDE DEF j
    <3>3. ptp[j].op /\ floor' <= ptp[j].age /\ allocs' - ptp[j].age <= TABLE
      BY <3>2, <1>5
    <3> QED BY <3>2, <3>3, <1>4
  <2>4. CASE Push /\ i = n - k + 1
    <3>1. ptp'[i] = NewRecord
      BY <2>2, <2>4
    <3>2. Alloc /\ NewRecord.age = allocs /\ NewRecord.tag = seq
      BY <3>1, <2>4, <1>1, <1>5, NewStamp
    <3>3. Index(seq) \in valid'
      BY <3>2 DEF PendingTable
    <3>4. pend'[Index(seq)] = [hi |-> High(seq), age |-> allocs]
      BY <3>2, <1>1, Allocation
    <3> QED BY <3>1, <3>2, <3>3, <3>4
  <2>5. (i \in 1 .. n - k) \/ (Push /\ i = n - k + 1)
    BY <2>1, <2>2
  <2> QED BY <2>3, <2>4, <2>5
<1>6. ASSUME NEW t \in mac' , floor' <= t.age, allocs' - t.age <= TABLE
      PROVE  Index(t.tag) \in valid' /\ pend'[Index(t.tag)].age = t.age
  <2>1. CASE t \in mac
    BY <2>1, <1>3, <1>6
  <2>2. CASE t \notin mac
    <3>1. ptp[1].op /\ 1 \in 1 .. Len(ptp) /\ t.tag = ptp[1].tag /\ t.age = ptp[1].age
      BY <2>2, MacFrom
    <3> QED BY <3>1, <1>4, <1>6
  <2> QED BY <2>1, <2>2
<1>7. ASSUME a'.valid, floor' <= a'.age, allocs' - a'.age <= TABLE
      PROVE  Hit'
  <2>1. PICK t \in mac : ret = {t} /\ a' = Latched(t)
    BY <1>7, StageCases DEF NoReturn
  <2>2. /\ a'.age = t.age /\ a'.tag = t.tag /\ a'.ent = pend[Index(t.tag)]
        /\ (a'.vld <=> Index(t.tag) \in valid /\ ~(Alloc /\ Index(seq) = Index(t.tag)))
    BY <2>1 DEF Latched
  <2>3. /\ Index(t.tag) \in valid /\ pend[Index(t.tag)].age = t.age
        /\ ~(Alloc /\ Index(seq) = Index(t.tag))
    BY <2>2, <1>3, <1>7
  <2>4. pend[Index(t.tag)].hi = High(t.tag)
    BY <2>3, OwnEntry
  <2> QED BY <2>2, <2>3, <2>4, <1>7 DEF Hit
<1> QED BY <1>5, <1>6, <1>7 DEF KeptOK, Kept, Usable

-----------------------------------------------------------------------------
(* The counters.                                                           *)

\* The number of pending tags, when an allocation and a match meet.
LEMMA PendingCount ==
    ASSUME TableOK, StageOK, PendingTable
    PROVE  /\ Cardinality(valid) \in Nat /\ Cardinality(valid') \in Nat
           /\ Cardinality(valid') = Cardinality(valid) - One(Hit) + One(Alloc) - One(Loses)
<1> DEFINE gone == valid \ (IF Hit THEN {HitIndex} ELSE {})
           i == Index(seq)
<1>1. IsFiniteSet(valid) /\ Cardinality(valid) \in Nat
  <2>1. IsFiniteSet(0 .. TABLE - 1)
    BY Sizes, FS_Interval
  <2>2. IsFiniteSet(valid)
    BY <2>1, FS_Subset DEF TableOK
  <2> QED BY <2>2, FS_CardinalityType
<1>2. IsFiniteSet(gone) /\ Cardinality(gone) = Cardinality(valid) - One(Hit)
  <2>1. CASE Hit
    <3>1. HitIndex \in valid
      BY <2>1 DEF StageOK, Hit
    <3>2. IsFiniteSet(valid \ {HitIndex}) /\ Cardinality(valid \ {HitIndex}) = Cardinality(valid) - 1
      BY <1>1, <3>1, FS_RemoveElement
    <3> QED BY <2>1, <3>2 DEF One
  <2>2. CASE ~Hit
    <3>1. gone = valid
      BY <2>2
    <3> QED BY <1>1, <2>2, <3>1 DEF One
  <2> QED BY <2>1, <2>2
<1>3. Cardinality(gone) \in Nat
  BY <1>2, FS_CardinalityType
<1>4. valid' = gone \cup (IF Alloc THEN {i} ELSE {})
  BY DEF PendingTable
<1>5. Loses <=> Alloc /\ i \in gone
  BY DEF Loses
<1> HIDE DEF gone, i
<1>6. CASE Alloc
  <2>1. valid' = gone \cup {i}
    BY <1>4, <1>6
  <2>2. Cardinality(gone \cup {i}) = IF i \in gone THEN Cardinality(gone) ELSE Cardinality(gone) + 1
    BY <1>2, FS_AddElement
  <2>3. CASE i \in gone
    <3>1. One(Alloc) = 1 /\ One(Loses) = 1
      BY <1>5, <1>6, <2>3 DEF One
    <3> QED BY <2>1, <2>2, <2>3, <3>1, <1>1, <1>2, <1>3
  <2>4. CASE i \notin gone
    <3>1. One(Alloc) = 1 /\ One(Loses) = 0
      BY <1>5, <1>6, <2>4 DEF One
    <3> QED BY <2>1, <2>2, <2>4, <3>1, <1>1, <1>2, <1>3
  <2> QED BY <2>3, <2>4
<1>7. CASE ~Alloc
  <2>1. valid' = gone
    BY <1>4, <1>7
  <2>2. One(Alloc) = 0 /\ One(Loses) = 0
    BY <1>5, <1>7 DEF One
  <2> QED BY <2>1, <2>2, <1>1, <1>2, <1>3
<1> QED BY <1>6, <1>7

\* How many of the first n stages are taken.
Taken(p, n) == {i \in 1 .. n : p[i]}

\* One stage more.
LEMMA OneMore ==
    ASSUME NEW p, NEW n \in Nat, IsFiniteSet(Taken(p, n))
    PROVE  /\ IsFiniteSet(Taken(p, n + 1))
           /\ Cardinality(Taken(p, n + 1)) = Cardinality(Taken(p, n)) + One(p[n + 1])
<1> DEFINE few == Taken(p, n)
           m == n + 1
<1>1. m \in Nat /\ m \notin few /\ Cardinality(few) \in Nat /\ IsFiniteSet(few)
  BY FS_CardinalityType DEF Taken
<1>2. Taken(p, m) = few \cup (IF p[m] THEN {m} ELSE {})
  BY DEF Taken
<1> HIDE DEF few, m
<1>3. CASE p[m]
  <2>1. Taken(p, m) = few \cup {m}
    BY <1>2, <1>3
  <2>2. IsFiniteSet(few \cup {m}) /\ Cardinality(few \cup {m}) = Cardinality(few) + 1
    BY <1>1, FS_AddElement
  <2> QED BY <1>3, <2>1, <2>2 DEF One, few, m
<1>4. CASE ~p[m]
  <2>1. Taken(p, m) = few
    BY <1>2, <1>4
  <2> QED BY <1>1, <1>4, <2>1 DEF One, few, m
<1> QED BY <1>3, <1>4

\* The samples in the pipeline, stage by stage.
LEMMA InPipeSum ==
    ASSUME NEW p
    PROVE  InPipe(p) = One(p[1]) + One(p[2]) + One(p[3]) + One(p[4])
<1>1. Taken(p, 0) = {}
  BY DEF Taken
<1>2. IsFiniteSet(Taken(p, 0)) /\ Cardinality(Taken(p, 0)) = 0
  BY <1>1, FS_EmptySet
<1>3. /\ IsFiniteSet(Taken(p, 1)) /\ Cardinality(Taken(p, 1)) = 0 + One(p[1])
  BY <1>2, OneMore
<1>4. /\ IsFiniteSet(Taken(p, 2)) /\ Cardinality(Taken(p, 2)) = 0 + One(p[1]) + One(p[2])
  BY <1>3, OneMore
<1>5. /\ IsFiniteSet(Taken(p, 3)) /\ Cardinality(Taken(p, 3)) = 0 + One(p[1]) + One(p[2]) + One(p[3])
  BY <1>4, OneMore
<1>6. Cardinality(Taken(p, 4)) = 0 + One(p[1]) + One(p[2]) + One(p[3]) + One(p[4])
  BY <1>5, OneMore
<1> QED BY <1>6 DEF InPipe, Taken, One

\* A match enters the pipeline and a sample leaves it.
LEMMA PipeStep ==
    ASSUME pipe \in [1 .. 4 -> BOOLEAN], Pipeline
    PROVE  /\ pipe' \in [1 .. 4 -> BOOLEAN]
           /\ InPipe(pipe) \in Nat /\ InPipe(pipe') \in Nat
           /\ InPipe(pipe') = InPipe(pipe) + One(Hit) - One(pipe[4])
<1>1. Hit \in BOOLEAN
  BY DEF Hit
<1>2. pipe' = <<Hit, pipe[1], pipe[2], pipe[3]>>
  BY DEF Pipeline
<1>3. pipe[1] \in BOOLEAN /\ pipe[2] \in BOOLEAN /\ pipe[3] \in BOOLEAN /\ pipe[4] \in BOOLEAN
  OBVIOUS
<1>4. pipe' \in [1 .. 4 -> BOOLEAN]
  BY <1>1, <1>2, <1>3
<1>5. pipe'[1] = Hit /\ pipe'[2] = pipe[1] /\ pipe'[3] = pipe[2] /\ pipe'[4] = pipe[3]
  BY <1>2
<1>6. InPipe(pipe) = One(pipe[1]) + One(pipe[2]) + One(pipe[3]) + One(pipe[4])
  BY InPipeSum
<1>7. InPipe(pipe') = One(Hit) + One(pipe[1]) + One(pipe[2]) + One(pipe[3])
  BY <1>5, InPipeSum
<1>8. /\ One(Hit) \in Nat /\ One(pipe[1]) \in Nat /\ One(pipe[2]) \in Nat
      /\ One(pipe[3]) \in Nat /\ One(pipe[4]) \in Nat
  BY DEF One
<1> QED BY <1>4, <1>6, <1>7, <1>8

\* Every counter moves with what it counts.
LEMMA CountersStep ==
    ASSUME TableOK, StageOK, CountTypeOK, Accounted, PendingTable, Pipeline,
           NEW clr \in BOOLEAN, NEW sready \in BOOLEAN, Counters(clr, sready)
    PROVE  /\ Accounted' /\ pipe' \in [1 .. 4 -> BOOLEAN]
           /\ err' \in [lost : Nat, stale : Nat, ovf : Nat]
           /\ open' \in Int /\ unmatched' \in Int /\ unsampled' \in Int
<1> DEFINE c == Cardinality(valid)
           d == Cardinality(valid')
           m == InPipe(pipe)
           n == InPipe(pipe')
           full == pipe[4] /\ ~sready
           sent == pipe[4] /\ sready
<1>1. c \in Nat /\ d \in Nat /\ d = c - One(Hit) + One(Alloc) - One(Loses)
  BY PendingCount
<1>2. m \in Nat /\ n \in Nat /\ n = m + One(Hit) - One(pipe[4]) /\ pipe' \in [1 .. 4 -> BOOLEAN]
  BY PipeStep DEF CountTypeOK
<1>3. One(pipe[4]) = One(full) + One(sent)
  BY DEF One, CountTypeOK
<1>4. One(a.valid) = One(Hit) + One(Misses)
  BY DEF One, Hit, Misses
<1>5. \A b : One(b) \in Nat
  BY DEF One
<1>6. /\ err \in [lost : Nat, stale : Nat, ovf : Nat]
      /\ open \in Int /\ unmatched \in Int /\ unsampled \in Int
  BY DEF CountTypeOK
<1>7. open = c + err.lost /\ unmatched = err.stale + One(a.valid) /\ unsampled = err.ovf + m
  BY DEF Accounted, TagsAccounted, ReturnsAccounted
<1>8. CASE clr
  <2>1. err' = NoErr /\ open' = d /\ unmatched' = One(a'.valid) /\ unsampled' = n
    BY <1>8 DEF Counters
  <2>2. err'.lost = 0 /\ err'.stale = 0 /\ err'.ovf = 0 /\ err' \in [lost : Nat, stale : Nat, ovf : Nat]
    BY <2>1 DEF NoErr
  <2> HIDE DEF c, d, m, n
  <2>3. open' = d + err'.lost /\ unmatched' = err'.stale + One(a'.valid) /\ unsampled' = err'.ovf + n
    BY <2>1, <2>2, <1>1, <1>2, <1>5
  <2>4. open' \in Int /\ unmatched' \in Int /\ unsampled' \in Int
    BY <2>1, <1>1, <1>2, <1>5
  <2> QED BY <2>2, <2>3, <2>4, <1>2 DEF Accounted, TagsAccounted, ReturnsAccounted, d, n
<1>9. CASE ~clr
  <2>1. /\ err' = [lost |-> err.lost + One(Loses), stale |-> err.stale + One(Misses),
                   ovf |-> err.ovf + One(full)]
        /\ open' = open + One(Alloc) - One(Hit)
        /\ unmatched' = unmatched + One(a'.valid) - One(Hit)
        /\ unsampled' = unsampled + One(Hit) - One(sent)
    BY <1>9 DEF Counters
  <2>2. /\ One(Loses) \in Nat /\ One(Misses) \in Nat /\ One(full) \in Nat /\ One(sent) \in Nat
        /\ One(Alloc) \in Nat /\ One(Hit) \in Nat /\ One(a'.valid) \in Nat
    BY <1>5
  <2> HIDE DEF c, d, m, n, full, sent
  <2>3. err' \in [lost : Nat, stale : Nat, ovf : Nat]
    BY <2>1, <2>2, <1>6
  <2>4. err'.lost = err.lost + One(Loses) /\ err'.stale = err.stale + One(Misses)
        /\ err'.ovf = err.ovf + One(full)
    BY <2>1
  <2>5. open' \in Int /\ unmatched' \in Int /\ unsampled' \in Int
    BY <2>1, <2>2, <1>6
  <2>6. err.lost \in Nat /\ err.stale \in Nat /\ err.ovf \in Nat
    BY <1>6
  <2>7. open' = d + err'.lost
    BY <2>1, <2>2, <2>4, <2>6, <1>1, <1>7
  <2>8. unmatched' = err'.stale + One(a'.valid)
    BY <2>1, <2>2, <2>4, <2>6, <1>4, <1>7
  <2>9. unsampled' = err'.ovf + n
    BY <2>1, <2>2, <2>4, <2>6, <1>2, <1>3, <1>7
  <2> QED BY <2>3, <2>5, <2>7, <2>8, <2>9, <1>2 DEF Accounted, TagsAccounted, ReturnsAccounted, d, n
<1> QED BY <1>8, <1>9

-----------------------------------------------------------------------------
(* The steps.                                                              *)

\* A clock cycle.
LEMMA CycleStep ==
    ASSUME IInv, Cycle
    PROVE  IInv'
<1> PICK mready \in Ready(frame # None /\ Gate), pready \in Ready(ptp # <<>>),
         sready \in Ready(pipe[4]), clr \in BOOLEAN, ret \in Returns :
         Clock(mready, pready, sready, clr, ret)
  BY DEF Cycle
<1>1. mready \in BOOLEAN /\ pready \in BOOLEAN /\ sready \in BOOLEAN
  BY DEF Ready
<1>2. /\ FrameOK /\ RecordPrecedesFrame /\ TableOK /\ PtpTyped /\ PtpOK /\ MacOK /\ StageOK
      /\ KeptOK /\ CountTypeOK /\ Accounted
  BY DEF IInv
<1>3. /\ SofGate(mready) /\ PendingTable /\ PtpFifo(pready, ret) /\ StageA(ret) /\ Pipeline
      /\ Counters(clr, sready) /\ floor' = floor /\ resets' = resets
  BY DEF Clock
<1>4. FrameOK' /\ RecordPrecedesFrame'
  BY <1>1, <1>2, <1>3, GateStep
<1>5. TableOK' /\ Allocates
  BY <1>2, <1>3, TableStep
<1>6. PtpTyped'
  BY <1>1, <1>2, <1>3, FifoStep
<1>7. PtpOK'
  BY <1>1, <1>2, <1>3, <1>5, PtpOKStep
<1>8. MacOK'
  BY <1>1, <1>2, <1>3, <1>5, MacStep
<1>9. StageOK'
  BY <1>1, <1>2, <1>3, StageStep
<1>10. floor \in Nat /\ resets \in Nat
  BY <1>2 DEF CountTypeOK
<1>11. KeptOK'
  BY <1>1, <1>2, <1>3, <1>10, KeptStep
<1>12. /\ Accounted' /\ pipe' \in [1 .. 4 -> BOOLEAN]
       /\ err' \in [lost : Nat, stale : Nat, ovf : Nat]
       /\ open' \in Int /\ unmatched' \in Int /\ unsampled' \in Int
  BY <1>1, <1>2, <1>3, CountersStep
<1>13. ahead' \in Int
  BY <1>4 DEF RecordPrecedesFrame, One
<1>14. CountTypeOK'
  BY <1>3, <1>10, <1>12, <1>13 DEF CountTypeOK
<1> QED BY <1>4, <1>5, <1>6, <1>7, <1>8, <1>9, <1>11, <1>12, <1>14 DEF IInv

\* A timestamp that never comes back.
LEMMA ForgetStep ==
    ASSUME IInv, MacForgets
    PROVE  IInv'
<1>1. /\ FrameOK /\ RecordPrecedesFrame /\ TableOK /\ PtpTyped /\ PtpOK /\ MacOK /\ StageOK
      /\ KeptOK /\ CountTypeOK /\ Accounted
  BY DEF IInv
<1>2. mac' \subseteq mac
  BY DEF MacForgets
<1>3. /\ frame' = frame /\ frames' = frames /\ sof' = sof /\ pushed' = pushed
      /\ seq' = seq /\ allocs' = allocs /\ valid' = valid /\ pend' = pend
      /\ ptp' = ptp /\ a' = a /\ pipe' = pipe
      /\ err' = err /\ open' = open /\ unmatched' = unmatched /\ unsampled' = unsampled
      /\ ahead' = ahead /\ floor' = floor /\ resets' = resets
  BY DEF MacForgets, table, counts
<1>4. FrameOK' /\ RecordPrecedesFrame'
  BY <1>1, <1>3 DEF FrameOK, RecordPrecedesFrame
<1>5. TableOK'
  BY <1>1, <1>3 DEF TableOK, EntryOK
<1>6. PtpTyped' /\ PtpOK'
  BY <1>1, <1>3 DEF PtpTyped, PtpOK, Mine
<1>7. MacOK'
  BY <1>1, <1>2, <1>3 DEF MacOK, Mine, NotInFifo
<1>8. Hit' <=> Hit
  BY <1>3 DEF Hit
<1>9. StageOK'
  BY <1>1, <1>2, <1>3, <1>8 DEF StageOK, Mine, NotInFifo, HitIndex
<1>10. KeptOK'
  BY <1>1, <1>2, <1>3, <1>8 DEF KeptOK, Kept, Usable
<1>11. CountTypeOK'
  BY <1>1, <1>3 DEF CountTypeOK
<1>12. Accounted'
  BY <1>1, <1>3 DEF Accounted, TagsAccounted, ReturnsAccounted
<1> QED BY <1>4, <1>5, <1>6, <1>7, <1>9, <1>10, <1>11, <1>12 DEF IInv

\* A reset of the MAC transmit domain.
LEMMA ResetStep ==
    ASSUME IInv, Reset
    PROVE  IInv'
<1>1. /\ FrameOK /\ TableOK /\ MacOK /\ CountTypeOK
  BY DEF IInv
<1>2. Allocates
  BY DEF Reset, Allocates
<1>3. /\ frame' = None /\ sof' = TRUE /\ pushed' = FALSE /\ ahead' = 0 /\ frames' = frames
      /\ ptp' = <<>> /\ valid' = {} /\ pipe' = Idle /\ a' = NoReturn
      /\ err' = NoErr /\ open' = 0 /\ unmatched' = 0 /\ unsampled' = 0
      /\ floor' = allocs' /\ resets' = resets + 1
      /\ mac' = {t \in mac : allocs' - t.age < TAGS}
  BY DEF Reset
<1>4. allocs \in Nat /\ allocs' \in Nat /\ allocs <= allocs' /\ seq' = TagOf(allocs')
      /\ pend' \in [0 .. TABLE - 1 -> Entry]
  BY <1>1, <1>2, Allocation DEF TableOK
<1>5. FrameOK'
  <2>1. None \in [n : Nat, want : BOOLEAN, left : 0 .. 2]
    BY DEF None
  <2> QED BY <2>1, <1>1, <1>3 DEF FrameOK
<1>6. RecordPrecedesFrame'
  BY <1>3 DEF RecordPrecedesFrame, One
<1>7. TableOK'
  BY <1>3, <1>4 DEF TableOK
<1>8. PtpTyped' /\ PtpOK'
  BY <1>3, PtpTxTaggerAssumption DEF PtpTyped, PtpOK
<1>9. ASSUME NEW t \in mac'
      PROVE  t \in Stamp /\ t.tag = TagOf(t.age) /\ t.age < allocs' /\ allocs' - t.age < TAGS
             /\ t.age < floor'
  <2>1. t \in mac /\ allocs' - t.age < TAGS
    BY <1>3
  <2>2. t \in Stamp /\ t.tag = TagOf(t.age) /\ t.age < allocs /\ t.age \in Nat
    BY <2>1, <1>1 DEF MacOK, Mine, Stamp
  <2> QED BY <2>1, <2>2, <1>3, <1>4
<1>10. MacOK'
  BY <1>3, <1>9 DEF MacOK, Mine, NotInFifo
<1>11. ~a'.valid
  BY <1>3 DEF NoReturn
<1>12. StageOK'
  <2>1. NoReturn \in Latch
    BY Sizes DEF NoReturn, NoEntry, Latch, Entry
  <2> QED BY <1>3, <1>11, <2>1 DEF StageOK
<1>13. KeptOK'
  <2>1. ASSUME NEW t \in mac' PROVE ~(floor' <= t.age)
    <3>1. t.age \in Nat /\ t.age < floor' /\ floor' \in Nat
      BY <1>3, <1>4, <1>9 DEF Stamp
    <3> QED BY <3>1
  <2> QED BY <2>1, <1>3, <1>11 DEF KeptOK, Kept, Usable
<1>14. CountTypeOK'
  BY <1>1, <1>3, <1>4 DEF CountTypeOK, Idle, NoErr
<1>15. Accounted'
  <2>1. Cardinality(valid') = 0
    BY <1>3, FS_EmptySet
  <2>2. InPipe(pipe') = 0
    <3>1. {i \in 1 .. 4 : pipe'[i]} = {}
      BY <1>3 DEF Idle
    <3> QED BY <3>1, FS_EmptySet DEF InPipe
  <2>3. One(a'.valid) = 0
    BY <1>11 DEF One
  <2> QED BY <1>3, <2>1, <2>2, <2>3 DEF Accounted, TagsAccounted, ReturnsAccounted, NoErr
<1> QED BY <1>5, <1>6, <1>7, <1>8, <1>10, <1>12, <1>13, <1>14, <1>15 DEF IInv

\* A step that changes nothing.
LEMMA StutterStep ==
    ASSUME IInv, UNCHANGED vars
    PROVE  IInv'
<1>1. /\ FrameOK /\ RecordPrecedesFrame /\ TableOK /\ PtpTyped /\ PtpOK /\ MacOK /\ StageOK
      /\ KeptOK /\ CountTypeOK /\ Accounted
  BY DEF IInv
<1>2. /\ frame' = frame /\ frames' = frames /\ sof' = sof /\ pushed' = pushed
      /\ seq' = seq /\ allocs' = allocs /\ valid' = valid /\ pend' = pend
      /\ ptp' = ptp /\ mac' = mac /\ a' = a /\ pipe' = pipe
      /\ err' = err /\ open' = open /\ unmatched' = unmatched /\ unsampled' = unsampled
      /\ ahead' = ahead /\ floor' = floor /\ resets' = resets
  BY DEF vars
<1>3. FrameOK' /\ RecordPrecedesFrame'
  BY <1>1, <1>2 DEF FrameOK, RecordPrecedesFrame
<1>4. TableOK'
  BY <1>1, <1>2 DEF TableOK, EntryOK
<1>5. PtpTyped' /\ PtpOK'
  BY <1>1, <1>2 DEF PtpTyped, PtpOK, Mine
<1>6. MacOK'
  BY <1>1, <1>2 DEF MacOK, Mine, NotInFifo
<1>7. Hit' <=> Hit
  BY <1>2 DEF Hit
<1>8. StageOK'
  BY <1>1, <1>2, <1>7 DEF StageOK, Mine, NotInFifo, HitIndex
<1>9. KeptOK'
  BY <1>1, <1>2, <1>7 DEF KeptOK, Kept, Usable
<1>10. CountTypeOK' /\ Accounted'
  BY <1>1, <1>2 DEF CountTypeOK, Accounted, TagsAccounted, ReturnsAccounted
<1> QED BY <1>3, <1>4, <1>5, <1>6, <1>8, <1>9, <1>10 DEF IInv

\* The invariant is inductive.
LEMMA StepHolds == IInv /\ [Next]_vars => IInv'
<1> SUFFICES ASSUME IInv, [Next]_vars PROVE IInv'
  OBVIOUS
<1>1. CASE Cycle
  BY <1>1, CycleStep
<1>2. CASE MacForgets
  BY <1>2, ForgetStep
<1>3. CASE Reset
  BY <1>3, ResetStep
<1>4. CASE UNCHANGED vars
  BY <1>4, StutterStep
<1> QED BY <1>1, <1>2, <1>3, <1>4 DEF Next

\* The inductive invariant holds in every state.
THEOREM TagsOfAge == Spec => []IInv
<1>1. Init => IInv
  BY InitHolds
<1>2. IInv /\ [Next]_vars => IInv'
  BY StepHolds
<1> QED BY <1>1, <1>2, PTL DEF Spec

-----------------------------------------------------------------------------
(* What follows from it.                                                   *)

\* ptp_tx_tagger: every register keeps its type, and the record FIFO its depth.
THEOREM TypeCorrect == Spec => []TypeOK
<1>1. ASSUME IInv PROVE TypeOK
  <2>1. FrameOK /\ TableOK /\ PtpTyped /\ MacOK /\ StageOK /\ CountTypeOK
    BY <1>1 DEF IInv
  <2>2. SourceTypeOK
    BY <2>1 DEF FrameOK, PtpTyped, SourceTypeOK
  <2>3. seq \in 0 .. TAGS - 1
    BY <2>1, IndexOfTag DEF TableOK
  <2>4. TableTypeOK
    BY <2>1, <2>3 DEF TableOK, MacOK, StageOK, Latch, TableTypeOK
  <2> QED BY <2>1, <2>2, <2>4 DEF TypeOK
<1> QED BY <1>1, TagsOfAge, PTL

\* ptp_tx_tagger's counters: no tag, timestamp or sample is forgotten or counted
\* twice, whatever meets in a cycle.
THEOREM TagsAndReturnsAccounted == Spec => []Accounted
<1>1. IInv => Accounted
  BY DEF IInv
<1> QED BY <1>1, TagsOfAge, PTL

\* Stage B of ptp_tx_tagger: a timestamp is matched with its own frame's entry
\* only, for every table and tag width, late timestamps of before a reset included.
THEOREM MatchesAreOwn == Spec => []MatchIsOwn
<1>1. IInv => MatchIsOwn
  BY DEF IInv, StageOK, Hit, MatchIsOwn
<1> QED BY <1>1, TagsOfAge, PTL

\* The pending table of ptp_tx_tagger: a timestamp that returns before TABLE
\* further tags were taken finds its entry.
THEOREM EntriesKept == Spec => []EntryKept
<1>1. ASSUME IInv PROVE EntryKept
  <2>1. KeptOK /\ PtpTyped
    BY <1>1 DEF IInv
  <2>2. ASSUME NEW t \in Waiting, Usable(t.age)
        PROVE  Index(t.tag) \in valid /\ pend[Index(t.tag)].age = t.age
    <3>1. CASE t \in mac
      BY <2>1, <2>2, <3>1 DEF KeptOK, Kept
    <3>2. CASE t \notin mac
      <4>1. PICK i \in DOMAIN ptp : ptp[i].op /\ t = [tag |-> ptp[i].tag, age |-> ptp[i].age]
        BY <3>2 DEF Waiting
      <4>2. i \in 1 .. Len(ptp)
        BY <4>1, <2>1, LenProperties DEF PtpTyped
      <4>3. t.tag = ptp[i].tag /\ t.age = ptp[i].age
        BY <4>1
      <4> QED BY <2>1, <2>2, <4>1, <4>2, <4>3 DEF KeptOK, Kept
    <3> QED BY <3>1, <3>2
  <2> QED BY <2>1, <2>2 DEF KeptOK, EntryKept
<1> QED BY <1>1, TagsOfAge, PTL

\* The start-of-frame gate of ptp_tx_tagger: exactly one record goes ahead of
\* every transmitted frame.
THEOREM RecordsPrecedeFrames == Spec => []RecordPrecedesFrame
<1>1. IInv => RecordPrecedesFrame
  BY DEF IInv
<1> QED BY <1>1, TagsOfAge, PTL
=============================================================================
