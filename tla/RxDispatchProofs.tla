--------------------------- MODULE RxDispatchProofs ---------------------------
(*******************************************************************************)
(* The dispatcher, for every beat width, header length, FIFO depth and set     *)
(* of frames: each port gets the bytes its route promises, and an echo         *)
(* payload never waits for room or for its record.                             *)
(*                                                                             *)
(* Neither claim is inductive. For the bytes, the invariant says where the     *)
(* frame is (Placed), what the carry register holds of it (Carried), and       *)
(* that what has been handed out ends at Pos, the place the state machine      *)
(* has reached in what the port should get (Delivered). For the room, the      *)
(* free-beats status is old: an admission counts the beats still to come of    *)
(* the payload in hand (Room), and the metadata records are counted against    *)
(* the ends of payloads wherever these are (Records).                          *)
(*******************************************************************************)
EXTENDS RxDispatch, FiniteSets, Functions, FiniteSetTheorems, TLAPS

States == {"IDLE", "PAD", "SUM", "ADJ", "CLS", "EVAL", "DESC", "FWD", "FLUSH"}
Ports == {"RAW", "ECHO", "SOCK", "CHK"}

OutputType ==
    [valid : BOOLEAN, port : Ports, bytes : Seq(Int), last : BOOLEAN, want : Seq(Int)]

FrontTyped ==
    /\ state \in States /\ route \in Ports \cup {"DROP"}
    /\ desc \in BOOLEAN /\ first \in BOOLEAN
    /\ beat \in Nat /\ rem \in Nat
    /\ cls \in [cand : BOOLEAN, echo : BOOLEAN, sock : BOOLEAN]
    /\ carry \in [1 .. CARRY -> Int]

RearTyped ==
    /\ sent \in Nat
    /\ o \in OutputType /\ (~o.valid => o = NoOutput)
    /\ echoq \in Seq(BOOLEAN) /\ depth \in Nat /\ free \in Int
    /\ emeta \in Nat /\ owed \in Nat

Typed == FrontTyped /\ RearTyped

Moving == state \in {"FWD", "FLUSH"}

\* What each state knows of the frame and its route, and of the beats taken.
Placed ==
    /\ state # "IDLE" => frame \in Frames
    /\ state # "FWD" => beat = 0
    /\ state = "FWD" => (first <=> beat = 0) /\ beat < Beats(frame.flen)
    /\ state \in {"SUM", "ADJ", "CLS"} /\ cls.cand => Candidate
    /\ state \in {"EVAL", "DESC"} \cup {"FWD", "FLUSH"} =>
         /\ Strips => Candidate
         /\ desc => route = "RAW"
    /\ state = "DESC" => route = "SOCK" \/ (route = "RAW" /\ desc)
    /\ state = "FLUSH" => Strips
    /\ state = "DESC" => first /\ rem = frame.plen

\* A stripped payload: the beats taken against the bytes left, and the bytes of the
\* beat before that wait in the carry.
Carried ==
    /\ state = "FWD" /\ Strips =>
         /\ rem <= frame.plen
         /\ beat = 0 => rem = frame.plen
         /\ beat # 0 /\ rem # 0 =>
              /\ frame.plen - rem = (beat - 1) * KEEP_W
              /\ \A i \in 1 .. CARRY : carry[i] = BusByte(beat, STRIP + i)
    /\ state = "FLUSH" =>
         /\ rem \in 1 .. CARRY /\ rem <= frame.plen
         /\ \A i \in 1 .. rem : carry[i] = STRIP + (frame.plen - rem) + i

\* The descriptor is the first byte of what its port gets.
Lead == IF route = "SOCK" \/ (route = "RAW" /\ desc) THEN 1 ELSE 0

\* How much of what the port should get has been loaded into the output, and whether
\* some has and more is to come.
Pos == Lead + (IF route = "RAW" THEN beat * KEEP_W ELSE frame.plen - rem)

Mid == Moving /\ route # "DROP" /\ Pos # 0 /\ (Strips => rem # 0)

\* The beat on offer is the next piece of what its port should get.
Exact ==
    o.valid => LET upto == sent + Len(o.bytes)
               IN /\ upto <= Len(o.want)
                  /\ o.bytes = SubSeq(o.want, sent + 1, upto)
                  /\ o.last <=> upto = Len(o.want)

\* Within a payload the output is as far as the state machine; outside one it is done.
Delivered ==
    /\ Exact
    /\ IF Mid
       THEN IF o.valid THEN ~o.last /\ o.want = Want /\ sent + Len(o.bytes) = Pos ELSE sent = Pos
       ELSE /\ o.valid => o.last
            /\ ~o.valid => sent = 0

-----------------------------------------------------------------------------(* Room for the echo, and its records.                                      *)

InOut == IF o.valid /\ o.port = "ECHO" THEN 1 ELSE 0

\* Beats of an echo payload that are still to come.
ToCome ==
    IF route # "ECHO" THEN 0
    ELSE CASE state = "EVAL" -> Beats(frame.plen)
           [] state \in {"FWD", "FLUSH"} -> Beats(rem)
           [] OTHER -> 0

\* The beats of the FIFO, the output and the payload fit, and what Classify counts
\* as free is never more than there is by the time it decides.
Room ==
    /\ Len(echoq) + InOut + ToCome <= RX_PATH_FIFO_BEATS
    /\ state \in {"PAD", "SUM", "ADJ", "CLS", "EVAL"} => ~o.valid
    /\ state \in {"SUM", "ADJ", "CLS"} => Len(echoq) <= depth
    /\ state \in {"ADJ", "CLS"} => free + Len(echoq) <= RX_PATH_FIFO_BEATS

\* The payload ends in the FIFO.
EndsOf(q) == {i \in DOMAIN q : q[i]}
Ends == EndsOf(echoq)

\* A payload whose end is not in the FIFO yet.
Coming == IF Moving /\ route = "ECHO" /\ rem # 0 THEN 1 ELSE 0
Going == IF o.valid /\ o.port = "ECHO" /\ o.last THEN 1 ELSE 0

\* A record for each payload whose end is owed, queued, on offer or to come.
Records ==
    /\ emeta = owed + Cardinality(Ends) + Coming + Going
    /\ emeta <= ECHO_META_DEPTH
    /\ state = "EVAL" /\ route = "ECHO" => emeta < ECHO_META_DEPTH

DInv == Typed /\ Placed /\ Carried /\ Delivered /\ Room /\ Records

-----------------------------------------------------------------------------
(* Beats and bytes. Products of two unknowns stay in these lemmas.          *)

LEMMA Consts ==
    /\ KEEP_W \in Nat /\ STRIP \in Nat /\ 0 < STRIP /\ STRIP < KEEP_W /\ KEEP_W <= 2 * STRIP
    /\ CARRY \in Nat \ {0} /\ CARRY <= STRIP /\ CARRY + STRIP = KEEP_W
    /\ ECHO_MARGIN \in Nat /\ RX_PATH_FIFO_BEATS \in Nat /\ ECHO_META_DEPTH \in Nat \ {0}
    /\ \A f \in Frames : /\ f.flen \in Nat \ {0} /\ f.plen \in Nat
                         /\ f.ports \subseteq {"ECHO", "SOCK", "CHK"}
BY RxDispatchAssumption DEF RxDispatchAssumption, CARRY, FrameType

LEMMA ProductGrows ==
    ASSUME NEW n \in Nat, NEW a \in Int, NEW b \in Int, a < b
    PROVE  a * n + n <= b * n
<1>1. PICK d \in Nat : b = a + 1 + d
  <2>1. b - a - 1 \in Nat /\ b = a + 1 + (b - a - 1)
    OBVIOUS
  <2> QED BY <2>1
<1>2. (a + 1 + d) * n = a * n + n + d * n
  OBVIOUS
<1>3. d * n \in Nat
  OBVIOUS
<1> QED BY <1>1, <1>2, <1>3

LEMMA Division ==
    ASSUME NEW n \in Nat \ {0}, NEW v \in Nat
    PROVE  v \div n \in Nat /\ (v \div n) * n <= v /\ v < (v \div n) * n + n
OBVIOUS

\* The beats of n bytes: a beat starts at byte k * KEEP_W when it is one of them.
LEMMA BeatsOf ==
    ASSUME NEW n \in Nat
    PROVE  Beats(n) \in Nat /\ \A k \in Nat : k < Beats(n) <=> k * KEEP_W < n
<1> DEFINE q == Beats(n)
<1>1. n + KEEP_W - 1 \in Nat /\ KEEP_W \in Nat \ {0}
  BY Consts
<1>2. q \in Nat /\ q * KEEP_W <= n + KEEP_W - 1 /\ n + KEEP_W - 1 < q * KEEP_W + KEEP_W
  BY <1>1, Division DEF Beats
<1> HIDE DEF q
<1>3. ASSUME NEW k \in Nat, k < q PROVE k * KEEP_W < n
  <2>1. k * KEEP_W + KEEP_W <= q * KEEP_W
    BY <1>1, <1>2, <1>3, ProductGrows
  <2>2. k * KEEP_W \in Nat /\ q * KEEP_W \in Nat
    BY <1>1, <1>2
  <2> QED BY <1>1, <1>2, <2>1, <2>2
<1>4. ASSUME NEW k \in Nat, ~(k < q) PROVE ~(k * KEEP_W < n)
  <2>1. k = q \/ q < k
    BY <1>2, <1>4
  <2>2. q * KEEP_W <= k * KEEP_W
    <3>1. CASE k = q
      BY <1>1, <1>2, <3>1
    <3>2. CASE q < k
      <4>1. q * KEEP_W + KEEP_W <= k * KEEP_W
        BY <1>1, <1>2, <3>2, ProductGrows
      <4>2. k * KEEP_W \in Nat /\ q * KEEP_W \in Nat
        BY <1>1, <1>2
      <4> QED BY <1>1, <4>1, <4>2
    <3> QED BY <2>1, <3>1, <3>2
  <2>3. k * KEEP_W \in Nat /\ q * KEEP_W \in Nat
    BY <1>1, <1>2
  <2> QED BY <1>1, <1>2, <2>2, <2>3
<1> QED BY <1>2, <1>3, <1>4 DEF q

\* One beat fewer for KEEP_W bytes fewer.
LEMMA BeatLess ==
    ASSUME NEW n \in Nat
    PROVE  /\ n = 0 => Beats(n) = 0
           /\ 0 < n /\ n <= KEEP_W => Beats(n) = 1
           /\ n > KEEP_W => Beats(n) = Beats(n - KEEP_W) + 1
<1>1. KEEP_W \in Nat \ {0}
  BY Consts
<1>2. Beats(n) \in Nat /\ (0 < Beats(n) <=> 0 < n) /\ (1 < Beats(n) <=> KEEP_W < n)
  <2>1. 0 * KEEP_W = 0 /\ 1 * KEEP_W = KEEP_W
    BY <1>1
  <2> QED BY <2>1, BeatsOf
<1>3. ASSUME n > KEEP_W PROVE Beats(n) = Beats(n - KEEP_W) + 1
  <2> DEFINE m == n - KEEP_W
             a == Beats(m)
             b == Beats(n)
  <2>1. m \in Nat
    BY <1>1, <1>3
  <2>2. a \in Nat /\ b \in Nat /\ b > 1
    BY <1>2, <1>3, <2>1, BeatsOf
  <2>3. ~(a < b - 1)
    <3> SUFFICES ASSUME a < b - 1 PROVE FALSE
      OBVIOUS
    <3>1. (a + 1) * KEEP_W < n /\ ~(a * KEEP_W < m)
      <4>1. a + 1 < b /\ a + 1 \in Nat /\ ~(a < a)
        BY <2>2
      <4> HIDE DEF a, b, m
      <4>2. (a + 1) * KEEP_W < n
        BY <4>1, BeatsOf DEF b
      <4>3. ~(a * KEEP_W < m)
        BY <2>1, <2>2, <4>1, BeatsOf DEF a
      <4> QED BY <4>2, <4>3
    <3>2. (a + 1) * KEEP_W = a * KEEP_W + KEEP_W /\ a * KEEP_W \in Nat
      BY <1>1, <2>2
    <3> HIDE DEF a, b
    <3> QED BY <1>1, <2>1, <3>1, <3>2
  <2>4. ~(b - 1 < a)
    <3> SUFFICES ASSUME b - 1 < a PROVE FALSE
      OBVIOUS
    <3>1. (b - 1) * KEEP_W < m /\ ~(b * KEEP_W < n)
      <4>1. b - 1 \in Nat /\ ~(b < b)
        BY <2>2
      <4> HIDE DEF a, b, m
      <4>2. (b - 1) * KEEP_W < m
        BY <2>1, <4>1, BeatsOf DEF a
      <4>3. ~(b * KEEP_W < n)
        BY <2>2, <4>1, BeatsOf DEF b
      <4> QED BY <4>2, <4>3
    <3>2. b * KEEP_W = (b - 1) * KEEP_W + KEEP_W /\ (b - 1) * KEEP_W \in Nat
      BY <1>1, <2>2
    <3> HIDE DEF a, b
    <3> QED BY <1>1, <2>1, <3>1, <3>2
  <2> QED BY <2>2, <2>3, <2>4
<1> QED BY <1>1, <1>2, <1>3

\* The bytes of the next beat, and whether it is the last.
LEMMA NextBeat ==
    ASSUME NEW n \in Nat, NEW k \in Nat, k < Beats(n)
    PROVE  /\ k * KEEP_W \in Nat /\ k * KEEP_W < n
           /\ (k + 1) * KEEP_W = k * KEEP_W + KEEP_W
           /\ k + 1 = Beats(n) <=> n <= k * KEEP_W + KEEP_W
<1>1. KEEP_W \in Nat /\ Beats(n) \in Nat
  BY Consts, BeatsOf
<1>2. k * KEEP_W \in Nat /\ (k + 1) * KEEP_W = k * KEEP_W + KEEP_W
  BY <1>1
<1>3. k * KEEP_W < n /\ (k + 1 < Beats(n) <=> (k + 1) * KEEP_W < n)
  BY BeatsOf
<1>4. k + 1 = Beats(n) <=> ~(k + 1 < Beats(n))
  BY <1>1
<1> QED BY <1>1, <1>2, <1>3, <1>4

LEMMA ByteAt ==
    ASSUME NEW k \in Nat, NEW i \in Nat, NEW x \in Int, x = k * KEEP_W
    PROVE  BusByte(k + 1, i) = IF x + i <= frame.flen THEN x + i ELSE Garbage
<1>1. k + 1 - 1 = k
  OBVIOUS
<1> QED BY <1>1 DEF BusByte

-----------------------------------------------------------------------------
(* What every cycle does.                                                   *)

LEMMA EndsFinite ==
    ASSUME NEW q \in Seq(BOOLEAN)
    PROVE  IsFiniteSet(EndsOf(q)) /\ Cardinality(EndsOf(q)) \in Nat
<1>1. DOMAIN q = 1 .. Len(q) /\ Len(q) \in Nat
  OBVIOUS
<1>2. IsFiniteSet(DOMAIN q)
  BY <1>1, FS_Interval
<1>3. EndsOf(q) \in SUBSET (DOMAIN q)
  BY DEF EndsOf
<1> QED BY <1>2, <1>3, FS_Subset, FS_CardinalityType

One(b) == IF b THEN 1 ELSE 0

LEMMA OneIs == ASSUME NEW b PROVE One(b) \in {0, 1} /\ (b => One(b) = 1) /\ (~b => One(b) = 0)
BY DEF One

LEMMA Appended ==
    ASSUME NEW q \in Seq(BOOLEAN), NEW b \in BOOLEAN
    PROVE  /\ q \o <<b>> = Append(q, b) /\ q \o <<>> = q
           /\ Append(q, b) \in Seq(BOOLEAN) /\ Len(Append(q, b)) = Len(q) + 1
OBVIOUS

LEMMA EndsAppend ==
    ASSUME NEW q \in Seq(BOOLEAN), NEW b \in BOOLEAN
    PROVE  Cardinality(EndsOf(Append(q, b))) = Cardinality(EndsOf(q)) + One(b)
<1> DEFINE p == Append(q, b)
           n == Len(q) + 1
<1>1. /\ DOMAIN q = 1 .. Len(q) /\ DOMAIN p = 1 .. n /\ Len(q) \in Nat /\ p[n] = b
      /\ \A i \in 1 .. Len(q) : p[i] = q[i]
  OBVIOUS
<1> HIDE DEF p
<1>2. EndsOf(p) = EndsOf(q) \cup (IF b THEN {n} ELSE {})
  BY <1>1 DEF EndsOf
<1>3. n \notin EndsOf(q)
  BY <1>1 DEF EndsOf
<1> HIDE DEF n
<1>4. CASE b
  BY <1>2, <1>3, <1>4, EndsFinite, FS_AddElement DEF p, One
<1>5. CASE ~b
  BY <1>2, <1>5, EndsFinite DEF p, One
<1> QED BY <1>4, <1>5

LEMMA EndsTail ==
    ASSUME NEW q \in Seq(BOOLEAN), q # <<>>
    PROVE  /\ Tail(q) \in Seq(BOOLEAN) /\ Len(Tail(q)) = Len(q) - 1
           /\ Cardinality(EndsOf(Tail(q))) = Cardinality(EndsOf(q)) - One(Head(q))
<1> DEFINE p == Tail(q)
           S == EndsOf(q) \ {1}
           T == EndsOf(p)
           f == [i \in S |-> i - 1]
<1>1. /\ p \in Seq(BOOLEAN) /\ DOMAIN q = 1 .. Len(q) /\ Len(q) \in Nat \ {0} /\ DOMAIN p = 1 .. Len(q) - 1
      /\ Len(p) = Len(q) - 1 /\ Head(q) = q[1]
      /\ \A i \in 1 .. Len(q) - 1 : p[i] = q[i + 1]
  OBVIOUS
<1> HIDE DEF p
<1>2. S = {i \in 2 .. Len(q) : q[i]} /\ T = {i \in 1 .. Len(q) - 1 : q[i + 1]}
  BY <1>1 DEF EndsOf
<1>3. \A i \in S : i \in Int /\ i - 1 \in T
  BY <1>1, <1>2
<1>4. \A j \in T : j + 1 \in S /\ j \in Int
  BY <1>1, <1>2
<1> HIDE DEF S, T
<1>5. f \in Bijection(S, T)
  <2>1. f \in [S -> T] /\ \A i \in S : f[i] = i - 1
    BY <1>3
  <2>2. \A a, b \in S : f[a] = f[b] => a = b
    BY <1>3, <2>1
  <2>3. \A j \in T : \E i \in S : f[i] = j
    BY <1>4, <2>1
  <2> HIDE DEF f
  <2> QED BY <2>1, <2>2, <2>3 DEF Bijection, Injection, Surjection, IsInjective
<1>6. IsFiniteSet(S) /\ Cardinality(S) = Cardinality(EndsOf(q)) - One(Head(q))
  <2>1. 1 \in DOMAIN q /\ Head(q) = q[1]
    BY <1>1
  <2>2. 1 \in EndsOf(q) <=> Head(q)
    BY <2>1, Zenon DEF EndsOf
  <2>3. IsFiniteSet(EndsOf(q)) /\ Cardinality(EndsOf(q)) \in Nat
    BY EndsFinite
  <2> DEFINE E == EndsOf(q)
  <2>6. S = E \ {1}
    BY DEF S
  <2> HIDE DEF E
  <2>4. CASE Head(q)
    <3>1. One(Head(q)) = 1 /\ 1 \in E
      BY <2>2, <2>4, OneIs DEF E
    <3>2. IsFiniteSet(S) /\ Cardinality(S) = Cardinality(E) - 1
      BY <2>3, <2>6, <3>1, FS_RemoveElement DEF E
    <3> QED BY <3>1, <3>2 DEF E
  <2>5. CASE ~Head(q)
    <3>1. One(Head(q)) = 0 /\ 1 \notin E
      BY <2>2, <2>5, Zenon DEF E, One
    <3>2. IsFiniteSet(S) /\ Cardinality(S) = Cardinality(E)
      BY <2>3, <2>6, <3>1, FS_RemoveElement DEF E
    <3>3. Cardinality(E) \in Nat
      BY <2>3 DEF E
    <3>4. Cardinality(S) = Cardinality(E) - 0
      BY <3>2, <3>3
    <3> QED BY <3>1, <3>2, <3>4 DEF E
  <2> QED BY <2>4, <2>5
<1>7. Cardinality(T) = Cardinality(S)
  BY <1>5, <1>6, FS_Bijection DEF ExistsBijection
<1> QED BY <1>1, <1>6, <1>7 DEF T, p

LEMMA ToComeNat == ASSUME Typed, Placed PROVE ToCome \in Nat /\ InOut \in {0, 1}
<1>1. rem \in Nat
  BY DEF Typed, FrontTyped, RearTyped, OutputType
<1>2. state = "EVAL" => frame.plen \in Nat
  BY Consts DEF Placed
<1>3. state = "EVAL" => Beats(frame.plen) \in Nat
  BY <1>2, BeatsOf
<1>4. Beats(rem) \in Nat
  BY <1>1, BeatsOf
<1>5. state \in States
  BY DEF Typed, FrontTyped, RearTyped, OutputType
<1> QED BY <1>3, <1>4, <1>5 DEF ToCome, States, InOut

\* The FIFO has room for the beat in the output register.
LEMMA NeverFull == ASSUME Typed, Placed, Room PROVE OFree /\ DownReady
<1>1. Len(echoq) \in Nat /\ RX_PATH_FIFO_BEATS \in Nat /\ o.valid \in BOOLEAN /\ ToCome \in Nat
  BY Consts, ToComeNat DEF Typed, FrontTyped, RearTyped, OutputType
<1>2. ~o.valid => o.port = "RAW"
  BY DEF Typed, FrontTyped, RearTyped, OutputType, NoOutput
<1>3. o.valid /\ o.port = "ECHO" => Len(echoq) < RX_PATH_FIFO_BEATS
  BY <1>1 DEF Room, InOut
<1> QED BY <1>1, <1>2, <1>3 DEF OFree, DownReady

LEMMA Behind ==
    ASSUME DInv, NEW push \in BOOLEAN, Cycle(push)
    PROVE  /\ sent' = IF Mid THEN Pos ELSE 0
           /\ echoq' \in Seq(BOOLEAN) /\ Len(echoq') <= Len(echoq) + InOut
           /\ depth' = Len(echoq) /\ free' = RX_PATH_FIFO_BEATS - depth
           /\ owed' \in Nat /\ emeta' \in Nat /\ emeta' <= emeta + One(push)
           /\ emeta' = owed' + Cardinality(EndsOf(echoq')) + Coming + One(push)
<1>0. Typed /\ Placed /\ Delivered /\ Room /\ Records
  BY DEF DInv
<1>1. DownReady /\ o.valid \in BOOLEAN /\ o.last \in BOOLEAN /\ Taken = o.valid
  BY <1>0, NeverFull DEF Taken, Typed, FrontTyped, RearTyped, OutputType
<1>2. sent' = IF Mid THEN Pos ELSE 0
  BY <1>0, <1>1 DEF Cycle, Delivered
<1>3. depth' = Len(echoq) /\ free' = RX_PATH_FIFO_BEATS - depth
  BY DEF Cycle
<1>4. PICK take, pop \in BOOLEAN :
          /\ take => EchoValid
          /\ pop => owed > 0 /\ emeta > 0
          /\ echoq' = (IF take THEN Tail(echoq) ELSE echoq)
                      \o (IF Taken /\ o.port = "ECHO" THEN <<o.last>> ELSE <<>>)
          /\ owed' = owed + One(take /\ Head(echoq)) - One(pop)
          /\ emeta' = emeta + One(push) - One(pop)
  BY DEF Cycle, One
<1>5. echoq \in Seq(BOOLEAN) /\ Len(echoq) \in Nat /\ owed \in Nat /\ emeta \in Nat
  BY <1>0 DEF Typed, FrontTyped, RearTyped, OutputType
<1> DEFINE q == IF take THEN Tail(echoq) ELSE echoq
           h == One(take /\ Head(echoq))
           p == One(pop)
           e == One(push)
<1>15. h \in {0, 1} /\ p \in {0, 1} /\ e \in {0, 1}
  BY OneIs
<1>16. h = One(take /\ Head(echoq))
  OBVIOUS
<1> HIDE DEF h
<1>6. /\ q \in Seq(BOOLEAN) /\ Len(q) \in Nat /\ Len(q) <= Len(echoq)
      /\ Cardinality(EndsOf(q)) \in Nat
      /\ Cardinality(EndsOf(q)) = Cardinality(EndsOf(echoq)) - h
  <2>1. CASE take
    <3>1. PICK i \in DOMAIN echoq : TRUE
      BY <1>4, <2>1 DEF EchoValid
    <3>2. echoq # <<>>
      BY <1>5, <3>1
    <3>4. h = One(Head(echoq))
      BY <2>1 DEF One, h
    <3>5. q = Tail(echoq)
      BY <2>1
    <3> HIDE DEF q
    <3>6. /\ q \in Seq(BOOLEAN) /\ Len(q) = Len(echoq) - 1
          /\ Cardinality(EndsOf(q)) = Cardinality(EndsOf(echoq)) - h
      BY <1>5, <3>2, <3>4, <3>5, EndsTail
    <3>7. Len(q) \in Nat /\ Cardinality(EndsOf(q)) \in Nat
      BY <3>6, EndsFinite
    <3> QED BY <1>5, <3>6, <3>7
  <2>2. CASE ~take
    <3>1. q = echoq /\ h = 0
      BY <2>2 DEF One, h
    <3> HIDE DEF q
    <3>2. Cardinality(EndsOf(echoq)) \in Nat
      BY <1>5, EndsFinite
    <3> QED BY <1>5, <3>1, <3>2
  <2> QED BY <2>1, <2>2
<1>7. p = 1 => owed > 0 /\ emeta > 0
  <2>1. p = 1 => pop
    BY OneIs
  <2> QED BY <1>4, <2>1
<1>8. echoq' = IF o.valid /\ o.port = "ECHO" THEN Append(q, o.last) ELSE q
  <2>1. echoq' = q \o (IF Taken /\ o.port = "ECHO" THEN <<o.last>> ELSE <<>>)
    BY <1>4
  <2> HIDE DEF q
  <2>2. q \o <<o.last>> = Append(q, o.last) /\ q \o <<>> = q
    BY <1>1, <1>6, Appended
  <2> QED BY <1>1, <2>1, <2>2
<1> HIDE DEF q
<1>9. /\ echoq' \in Seq(BOOLEAN) /\ Len(echoq') <= Len(echoq) + InOut
      /\ Cardinality(EndsOf(echoq')) = Cardinality(EndsOf(q)) + Going
  <2>1. CASE o.valid /\ o.port = "ECHO"
    <3>1. echoq' = Append(q, o.last)
      BY <1>8, <2>1
    <3>2. Cardinality(EndsOf(echoq')) = Cardinality(EndsOf(q)) + One(o.last)
      BY <1>1, <1>6, <3>1, EndsAppend
    <3>3. Going = One(o.last) /\ InOut = 1
      BY <2>1 DEF Going, One, InOut
    <3>4. echoq' \in Seq(BOOLEAN) /\ Len(echoq') = Len(q) + 1
      BY <1>1, <1>6, <3>1, Appended
    <3>5. Len(echoq') <= Len(echoq) + InOut
      BY <1>5, <1>6, <3>3, <3>4
    <3> QED BY <3>2, <3>3, <3>4, <3>5
  <2>2. CASE ~(o.valid /\ o.port = "ECHO")
    <3>1. echoq' = q /\ Going = 0 /\ InOut = 0
      BY <1>8, <2>2 DEF Going, InOut
    <3>2. Len(echoq') <= Len(echoq) + InOut
      BY <1>5, <1>6, <3>1
    <3>3. Cardinality(EndsOf(echoq')) = Cardinality(EndsOf(q)) + Going
      BY <1>6, <3>1
    <3> QED BY <1>6, <3>1, <3>2, <3>3
  <2> QED BY <2>1, <2>2
<1>10. /\ emeta = owed + Cardinality(EndsOf(echoq)) + Coming + Going
       /\ Coming \in Nat /\ Going \in Nat /\ Cardinality(EndsOf(echoq)) \in Nat
  BY <1>0, <1>5, EndsFinite DEF Records, Ends, Coming, Going
<1>11. owed' = owed + h - p /\ emeta' = emeta + e - p
  BY <1>4, <1>16
<1>14. e = One(push)
  OBVIOUS
<1> HIDE DEF p, e
<1>12. owed' \in Nat /\ emeta' \in Nat /\ emeta' <= emeta + e
  BY <1>5, <1>7, <1>11, <1>15
<1>13. emeta' = owed' + Cardinality(EndsOf(echoq')) + Coming + e
  <2> DEFINE c1 == Cardinality(EndsOf(echoq))
             c2 == Cardinality(EndsOf(q))
             c3 == Cardinality(EndsOf(echoq'))
  <2>1. c2 = c1 - h /\ c3 = c2 + Going /\ emeta = owed + c1 + Coming + Going /\ c1 \in Nat
    BY <1>6, <1>9, <1>10
  <2>2. Coming \in Nat /\ Going \in Nat /\ owed \in Nat /\ emeta \in Nat
    BY <1>5, <1>10
  <2> HIDE DEF c1, c2, c3
  <2>3. emeta' = owed' + c3 + Coming + e
    BY <1>11, <1>15, <2>1, <2>2
  <2> QED BY <2>3 DEF c3
<1> QED BY <1>2, <1>3, <1>9, <1>12, <1>13, <1>14

-----------------------------------------------------------------------------
(* What a frame should deliver, and a beat that is the next piece of it.    *)

\* A piece of what a port should get is a run of the frame's bytes.
Base == IF route = "RAW" THEN 0 ELSE STRIP
Size == IF route = "RAW" THEN frame.flen ELSE frame.plen

Run(a, n) == [i \in 1 .. n |-> a + i]

LEMMA Runs ==
    ASSUME NEW a \in Int, NEW n \in Nat
    PROVE  /\ Run(a, n) \in Seq(Int) /\ Len(Run(a, n)) = n
           /\ \A i \in 1 .. n : Run(a, n)[i] = a + i
BY DEF Run

LEMMA Prefixed ==
    ASSUME NEW p \in Seq(Int), NEW q \in Seq(Int)
    PROVE  /\ p \o q \in Seq(Int) /\ Len(p \o q) = Len(p) + Len(q)
           /\ \A j \in 1 .. Len(q) : (p \o q)[Len(p) + j] = q[j]
           /\ \A j \in 1 .. Len(p) : (p \o q)[j] = p[j]
OBVIOUS

LEMMA LeadIs ==
    ASSUME desc \in BOOLEAN, route \in Ports
    PROVE  /\ Lead \in {0, 1}
           /\ Lead = 1 <=> (route = "SOCK" \/ (route = "RAW" /\ desc))
BY DEF Lead

LEMMA WantIs ==
    ASSUME frame \in Frames, route \in Ports, desc \in BOOLEAN
    PROVE  /\ Want \in Seq(Int) /\ Len(Want) = Lead + Size
           /\ \A j \in 1 .. Size : Want[Lead + j] = Base + j
           /\ Lead = 1 => Want[1] = Desc
           /\ Lead \in {0, 1} /\ Size \in Nat /\ Base \in Nat
<1>1. Size \in Nat /\ Base \in Nat /\ Desc \in Int
  BY Consts DEF Size, Base, Desc
<1> DEFINE p == IF Lead = 1 THEN <<Desc>> ELSE <<>>
           q == Run(Base, Size)
<1>2. Want = p \o q
  <2>1. CASE route = "RAW"
    <3>1. q = [i \in 1 .. frame.flen |-> 0 + i]
      BY <2>1 DEF Run, Base, Size
    <3>2. \A i \in 1 .. frame.flen : 0 + i = i
      OBVIOUS
    <3>3. q = [i \in 1 .. frame.flen |-> i]
      BY <3>1, <3>2, Zenon
    <3>4. p = IF desc THEN <<Desc>> ELSE <<>>
      BY <2>1 DEF Lead
    <3> HIDE DEF p, q
    <3> QED BY <2>1, <3>3, <3>4 DEF Want
  <2>2. CASE route # "RAW"
    <3>1. q = [i \in 1 .. frame.plen |-> STRIP + i]
      BY <2>2 DEF Run, Base, Size
    <3>4. p = IF route = "SOCK" THEN <<Desc>> ELSE <<>>
      BY <2>2 DEF Lead
    <3> HIDE DEF p, q
    <3> QED BY <2>2, <3>1, <3>4 DEF Want
  <2> QED BY <2>1, <2>2
<1>3. q \in Seq(Int) /\ Len(q) = Size /\ \A i \in 1 .. Size : q[i] = Base + i
  BY <1>1, Runs
<1>4. Lead \in {0, 1}
  BY LeadIs
<1>5. p \in Seq(Int) /\ Len(p) = Lead /\ (Lead = 1 => p[1] = Desc)
  <2> HIDE DEF q
  <2>1. CASE Lead = 1
    <3>1. p = <<Desc>>
      BY <2>1
    <3> HIDE DEF p
    <3> QED BY <1>1, <2>1, <3>1
  <2>2. CASE Lead = 0
    <3>1. p = <<>>
      BY <2>2
    <3> HIDE DEF p
    <3> QED BY <2>2, <3>1
  <2> QED BY <1>4, <2>1, <2>2
<1> HIDE DEF p, q
<1>6. /\ Want \in Seq(Int) /\ Len(Want) = Len(p) + Len(q)
      /\ \A j \in 1 .. Len(q) : Want[Len(p) + j] = q[j]
      /\ \A j \in 1 .. Len(p) : Want[j] = p[j]
  BY <1>2, <1>3, <1>5, Prefixed
<1>7. Lead = 1 => Want[1] = Desc
  BY <1>5, <1>6
<1> QED BY <1>1, <1>3, <1>4, <1>5, <1>6, <1>7

\* A beat that holds bytes a + 1 .. a + n of what the route delivers.
Piece(b, a, n) ==
    /\ b \in Seq(Int) /\ Len(b) = n /\ a + n <= Size
    /\ \A j \in 1 .. n : b[j] = Base + a + j

LEMMA PieceExact ==
    ASSUME frame \in Frames, route \in Ports, desc \in BOOLEAN,
           NEW a \in Nat, NEW n \in Nat, NEW b, Piece(b, a, n)
    PROVE  /\ b = SubSeq(Want, Lead + a + 1, Lead + a + n)
           /\ Lead + a + n <= Len(Want)
           /\ a + n = Size <=> Lead + a + n = Len(Want)
<1> DEFINE w == Want
           l == Lead
           z == Size
           c == Base
           s == SubSeq(w, l + a + 1, l + a + n)
<1>1. /\ w \in Seq(Int) /\ Len(w) = l + z /\ l \in {0, 1} /\ z \in Nat /\ c \in Nat
      /\ \A j \in 1 .. z : w[l + j] = c + j
  BY WantIs
<1>2. b \in Seq(Int) /\ Len(b) = n /\ a + n <= z /\ \A j \in 1 .. n : b[j] = c + a + j
  BY DEF Piece
<1> HIDE DEF w, l, z, c
<1>3. l + a + n <= Len(w) /\ (a + n = z <=> l + a + n = Len(w))
  BY <1>1, <1>2
<1>4. s \in Seq(Int) /\ Len(s) = n /\ \A j \in 1 .. n : s[j] = w[l + a + j]
  <2>1. \A j \in l + a + 1 .. l + a + n : j \in 1 .. Len(w)
    BY <1>1, <1>3
  <2>2. l + a + 1 \in Int /\ l + a + n \in Int /\ (l + a + n) - (l + a + 1) + 1 = n
    BY <1>1
  <2>3. s = [j \in 1 .. n |-> w[j + (l + a + 1) - 1]]
    BY <2>2
  <2>4. \A j \in 1 .. n : s[j] = w[l + a + j] /\ s[j] \in Int
    <3> TAKE j \in 1 .. n
    <3>1. j + (l + a + 1) - 1 = l + a + j /\ l + a + j \in 1 .. Len(w)
      BY <1>1, <1>3
    <3>2. s[j] = w[j + (l + a + 1) - 1]
      BY <2>3
    <3> HIDE DEF s
    <3>3. w[l + a + j] \in Int
      BY <1>1, <3>1
    <3> QED BY <3>1, <3>2, <3>3
  <2>5. s = [j \in 1 .. n |-> s[j]]
    BY <2>3
  <2> HIDE DEF s
  <2>6. s \in [1 .. n -> Int] /\ DOMAIN s = 1 .. n
    BY <2>4, <2>5
  <2>7. s \in Seq(Int)
    BY <2>6
  <2>8. Len(s) = n
    BY <2>6, <2>7
  <2> QED BY <2>4, <2>7, <2>8
<1> HIDE DEF s
<1>5. \A j \in 1 .. n : b[j] = s[j]
  <2> TAKE j \in 1 .. n
  <2>1. a + j \in 1 .. z /\ l + a + j = l + (a + j) /\ c + a + j = c + (a + j)
    BY <1>1, <1>2
  <2> QED BY <1>1, <1>2, <1>4, <2>1
<1>6. b = s
  BY <1>2, <1>4, <1>5
<1> QED BY <1>3, <1>6 DEF s, w, l, z

-----------------------------------------------------------------------------
(* The output register after a cycle that loads nothing, or a beat.         *)

LEMMA RearStep ==
    ASSUME DInv, NEW push \in BOOLEAN, Cycle(push),
           o' \in OutputType, ~o'.valid => o' = NoOutput
    PROVE  RearTyped'
<1>1. sent' \in Nat
  <2>1. sent \in Nat /\ Len(o.bytes) \in Nat
    BY DEF DInv, Typed, RearTyped, OutputType
  <2>2. sent' = sent \/ sent' = sent + Len(o.bytes) \/ sent' = 0
    <3>1. Taken \in BOOLEAN /\ o.last \in BOOLEAN
      BY DEF Taken, DInv, Typed, RearTyped, OutputType
    <3> QED BY <3>1, Zenon DEF Cycle
  <2> QED BY <2>1, <2>2
<1>2. depth' \in Nat /\ free' \in Int
  <2>1. Len(echoq) \in Nat /\ depth \in Nat /\ RX_PATH_FIFO_BEATS \in Nat
    BY Consts DEF DInv, Typed, RearTyped
  <2> QED BY <2>1, Behind
<1> QED BY <1>1, <1>2, Behind DEF RearTyped

LEMMA NoLoadStep ==
    ASSUME DInv, NEW push \in BOOLEAN, Cycle(push), NoLoad
    PROVE  RearTyped' /\ o' = NoOutput /\ ~o'.valid /\ InOut' = 0 /\ Going' = 0
<1>1. o' = NoOutput
  BY NeverFull DEF DInv, NoLoad
<1>2. NoOutput \in OutputType /\ ~NoOutput.valid
  BY DEF NoOutput, NoBytes, OutputType, Ports
<1>3. RearTyped'
  BY <1>1, <1>2, RearStep
<1> QED BY <1>1, <1>2, <1>3 DEF InOut, Going

LEMMA NoLoadDelivered ==
    ASSUME DInv, NEW push \in BOOLEAN, Cycle(push), NoLoad, Mid' <=> Mid, Mid => Pos' = Pos
    PROVE  Delivered'
<1>1. ~o'.valid
  BY NoLoadStep
<1>2. sent' = IF Mid' THEN Pos' ELSE 0
  BY Behind
<1> QED BY <1>1, <1>2 DEF Delivered, Exact

LEMMA LoadStep ==
    ASSUME DInv, Cycle(FALSE), frame \in Frames, route \in Ports,
           NEW b \in Seq(Int), NEW l \in BOOLEAN, Load(b, l)
    PROVE  /\ RearTyped' /\ o'.valid /\ o'.bytes = b /\ o'.want = Want /\ o'.last = l
           /\ InOut' = One(route = "ECHO") /\ Going' = One(route = "ECHO" /\ l)
<1>1. desc \in BOOLEAN
  BY DEF DInv, Typed, FrontTyped
<1>2. Want \in Seq(Int)
  BY <1>1, WantIs
<1>3. o' = [valid |-> TRUE, port |-> route, bytes |-> b, last |-> l, want |-> Want]
  BY DEF Load
<1>4. o'.valid /\ o'.port = route /\ o'.bytes = b /\ o'.last = l /\ o'.want = Want
  BY <1>3
<1>5. o' \in OutputType
  BY <1>2, <1>3 DEF OutputType
<1>6. RearTyped'
  BY <1>4, <1>5, RearStep
<1>7. InOut' = One(route = "ECHO") /\ Going' = One(route = "ECHO" /\ l)
  BY <1>4 DEF InOut, Going, One
<1> QED BY <1>4, <1>6, <1>7

\* The loaded beat continues what the route delivers, ends with it and only with
\* it, and leaves the next position right.
LEMMA LoadDelivered ==
    ASSUME DInv, Cycle(FALSE), frame \in Frames, route \in Ports,
           NEW b \in Seq(Int), NEW l \in BOOLEAN, Load(b, l),
           NEW a \in Nat, NEW n \in Nat, Piece(b, a, n), sent' = Lead + a,
           l <=> a + n = Size,
           Mid' <=> ~l, Mid' => Want' = Want /\ Pos' = Lead + a + n
    PROVE  Delivered'
<1>1. desc \in BOOLEAN
  BY DEF DInv, Typed, FrontTyped
<1>2. o'.valid /\ o'.bytes = b /\ o'.want = Want /\ o'.last = l
  BY LoadStep
<1>3. /\ b = SubSeq(Want, Lead + a + 1, Lead + a + n) /\ Lead + a + n <= Len(Want)
      /\ a + n = Size <=> Lead + a + n = Len(Want)
  BY <1>1, PieceExact
<1>4. Len(b) = n /\ Lead \in {0, 1}
  BY <1>1, LeadIs DEF Piece
<1>5. sent' + Len(o'.bytes) = Lead + a + n /\ sent' + 1 = Lead + a + 1
  BY <1>2, <1>4
<1>6. Exact'
  <2> DEFINE u == sent' + Len(o'.bytes)
  <2>1. u = Lead + a + n
    BY <1>5
  <2>2. o'.last <=> u = Len(o'.want)
    BY <1>2, <1>3, <2>1
  <2>3. o'.bytes = SubSeq(o'.want, sent' + 1, u) /\ u <= Len(o'.want)
    BY <1>2, <1>3, <1>5, <2>1
  <2> QED BY <2>2, <2>3 DEF Exact
<1>7. Mid' => ~o'.last /\ o'.want = Want' /\ sent' + Len(o'.bytes) = Pos'
  BY <1>2, <1>5
<1>8. ~Mid' => o'.last
  BY <1>2
<1> QED BY <1>2, <1>6, <1>7, <1>8 DEF Delivered

\* The echo FIFO's room and the payloads' ends.
LEMMA SumsBelow ==
    ASSUME NEW m \in Nat, NEW l \in Nat, NEW i \in {0, 1}, NEW j \in Nat, NEW c \in Nat, NEW d \in Nat,
           m <= l + i, j + d <= c
    PROVE  m + j + d <= l + i + c
OBVIOUS

LEMMA SumNat == ASSUME NEW a \in Nat, NEW b \in Nat, NEW c \in Nat PROVE a + b + c \in Nat
OBVIOUS

LEMMA Assoc == ASSUME NEW s \in Nat, NEW c \in {0, 1}, NEW e \in {0, 1} PROVE s + c + e = s + (c + e)
OBVIOUS

LEMMA RoomStep ==
    ASSUME DInv, NEW push \in BOOLEAN, Cycle(push),
           InOut' \in Nat, ToCome' \in Nat, InOut' + ToCome' <= ToCome
    PROVE  Len(echoq') + InOut' + ToCome' <= RX_PATH_FIFO_BEATS
<1>1. /\ Len(echoq) \in Nat /\ Len(echoq') \in Nat /\ InOut \in {0, 1} /\ ToCome \in Nat
      /\ Len(echoq') <= Len(echoq) + InOut
  BY Behind, ToComeNat DEF DInv, Typed, RearTyped
<1>2. Len(echoq) + InOut + ToCome <= RX_PATH_FIFO_BEATS /\ RX_PATH_FIFO_BEATS \in Nat
  BY Consts DEF DInv, Room
<1>3. Len(echoq') + InOut' + ToCome' <= Len(echoq) + InOut + ToCome
  BY <1>1, SumsBelow, Zenon
<1> DEFINE m == Len(echoq') + InOut' + ToCome'
           l == Len(echoq) + InOut + ToCome
<1>4. l \in Nat /\ l <= RX_PATH_FIFO_BEATS
  BY <1>1, <1>2
<1>5. m \in Nat
  BY <1>1, SumNat, Zenon
<1>6. m <= l
  BY <1>3
<1> HIDE DEF m, l
<1>7. m <= RX_PATH_FIFO_BEATS
  BY <1>2, <1>4, <1>5, <1>6
<1> QED BY <1>7 DEF m

LEMMA RecordsStep ==
    ASSUME DInv, NEW push \in BOOLEAN, Cycle(push),
           Coming' + Going' = Coming + One(push),
           push => emeta < ECHO_META_DEPTH,
           state' = "EVAL" /\ route' = "ECHO" => ~push /\ emeta < ECHO_META_DEPTH
    PROVE  Records'
<1>1. /\ emeta' \in Nat /\ owed' \in Nat /\ emeta' <= emeta + One(push)
      /\ emeta' = owed' + Cardinality(EndsOf(echoq')) + Coming + One(push)
      /\ echoq' \in Seq(BOOLEAN)
  BY Behind
<1>2. Cardinality(EndsOf(echoq')) \in Nat
  BY <1>1, EndsFinite
<1>3. Coming \in {0, 1} /\ Coming' \in {0, 1} /\ Going' \in {0, 1} /\ One(push) \in {0, 1}
  BY OneIs DEF Coming, Going
<1>4. /\ emeta \in Nat /\ ECHO_META_DEPTH \in Nat /\ emeta <= ECHO_META_DEPTH
      /\ push => One(push) = 1
      /\ ~push => One(push) = 0
  BY Consts, OneIs DEF DInv, Records, Typed, RearTyped
<1>5. emeta' = owed' + Cardinality(EndsOf(echoq')) + Coming' + Going'
  <2>1. owed' + Cardinality(EndsOf(echoq')) \in Nat
    <3>1. \A a, b \in Nat : a + b \in Nat
      OBVIOUS
    <3> QED BY <1>1, <1>2, <3>1, Zenon
  <2>2. PICK s \in Nat : s = owed' + Cardinality(EndsOf(echoq'))
    BY <2>1
  <2>3. s + Coming + One(push) = s + (Coming + One(push)) /\ s + Coming' + Going' = s + (Coming' + Going')
    BY <1>3, Assoc, Zenon
  <2> QED BY <1>1, <2>2, <2>3, Zenon
<1>6. emeta' <= ECHO_META_DEPTH
  <2>1. One(push) = 1 => emeta < ECHO_META_DEPTH
    BY <1>4
  <2>2. emeta \in Nat /\ ECHO_META_DEPTH \in Nat /\ emeta <= ECHO_META_DEPTH
    BY <1>4
  <2> QED BY <1>1, <1>3, <2>1, <2>2
<1>7. state' = "EVAL" /\ route' = "ECHO" => emeta' < ECHO_META_DEPTH
  <2> SUFFICES ASSUME state' = "EVAL", route' = "ECHO" PROVE emeta' < ECHO_META_DEPTH
    OBVIOUS
  <2>1. One(push) = 0 /\ emeta < ECHO_META_DEPTH
    BY <1>4
  <2>2. emeta \in Nat /\ ECHO_META_DEPTH \in Nat
    BY <1>4
  <2> QED BY <1>1, <2>1, <2>2
<1> QED BY <1>5, <1>6, <1>7 DEF Records, Ends

-----------------------------------------------------------------------------
(* Capture, classification and commit.                                      *)

LEMMA Assemble ==
    ASSUME FrontTyped', RearTyped', Placed', Carried', Delivered', Room', Records'
    PROVE  DInv'
BY DEF DInv, Typed

\* The frame stays where it is.
LEMMA Still ==
    ASSUME DInv, NEW push \in BOOLEAN, push = FALSE, Cycle(push), NoLoad,
           UNCHANGED <<state, frame, beat, first, rem, carry, cls, route, desc>>,
           state \in {"IDLE", "EVAL", "DESC", "FWD", "FLUSH"}
    PROVE  DInv'
<1>1. FrontTyped'
  BY DEF DInv, Typed, FrontTyped
<1>2. RearTyped' /\ o' = NoOutput /\ ~o'.valid /\ InOut' = 0 /\ Going' = 0
  BY NoLoadStep
<1>3. Placed'
  BY DEF DInv, Placed, Strips, Candidate, Beats
<1>4. Carried'
  BY DEF DInv, Carried, Strips, BusByte
<1>5. Delivered'
  <2>1. Mid' <=> Mid
    BY DEF Mid, Moving, Strips, Pos, Lead
  <2>2. Pos' = Pos
    BY DEF Pos, Lead
  <2> QED BY <2>1, <2>2, NoLoadDelivered
<1>6. ToCome' = ToCome
  BY DEF ToCome, Beats
<1>7. Room'
  <2>1. ToCome \in Nat
    BY ToComeNat DEF DInv
  <2>2. InOut' \in Nat /\ ToCome' \in Nat /\ InOut' + ToCome' <= ToCome
    BY <1>2, <1>6, <2>1
  <2>3. Len(echoq') + InOut' + ToCome' <= RX_PATH_FIFO_BEATS
    BY <2>2, RoomStep
  <2>4. state' \notin {"PAD", "SUM", "ADJ", "CLS"}
    OBVIOUS
  <2> QED BY <1>2, <2>3, <2>4 DEF Room
<1>8. Records'
  <2>1. Coming' + Going' = Coming + One(push)
    <3>1. Coming' = Coming /\ Coming \in {0, 1} /\ One(push) = 0
      BY OneIs DEF Coming, Moving
    <3> QED BY <1>2, <3>1
  <2>2. state' = "EVAL" /\ route' = "ECHO" => emeta < ECHO_META_DEPTH
    BY DEF DInv, Records
  <2> QED BY <2>1, <2>2, RecordsStep
<1> QED BY <1>1, <1>2, <1>3, <1>4, <1>5, <1>7, <1>8, Assemble

\* A step of the classification: nothing is on its way yet.
LEMMA Early ==
    ASSUME DInv, Quiet, NoLoad, state \in {"IDLE", "PAD", "SUM", "ADJ", "CLS"},
           state' \in {"PAD", "SUM", "ADJ", "CLS"},
           FrontTyped', Placed',
           state' \in {"SUM", "ADJ", "CLS"} => state # "IDLE",
           state' \in {"ADJ", "CLS"} => state \in {"SUM", "ADJ"}
    PROVE  DInv'
<1>0. Cycle(FALSE)
  BY DEF Quiet
<1>1. RearTyped' /\ o' = NoOutput /\ ~o'.valid /\ InOut' = 0 /\ Going' = 0
  BY <1>0, NoLoadStep
<1>2. Carried'
  BY DEF Carried
<1>3. ~Mid /\ ~Mid' /\ Coming = 0 /\ Coming' = 0 /\ ToCome = 0 /\ ToCome' = 0
  BY DEF Mid, Moving, Coming, ToCome
<1>4. Delivered'
  BY <1>0, <1>3, NoLoadDelivered
<1>5. Records'
  <2>1. Coming' + Going' = Coming + One(FALSE)
    BY <1>1, <1>3 DEF One
  <2> QED BY <1>0, <2>1, RecordsStep
<1>6. Room'
  <2>1. Len(echoq') + InOut' + ToCome' <= RX_PATH_FIFO_BEATS
    <3>1. InOut' \in Nat /\ ToCome' \in Nat /\ InOut' + ToCome' <= ToCome
      BY <1>1, <1>3
    <3> QED BY <1>0, <3>1, RoomStep
  <2>2. PICK n, m \in Nat : n = Len(echoq) /\ m = Len(echoq')
    <3>1. Len(echoq) \in Nat
      BY DEF DInv, Typed, RearTyped
    <3>2. Len(echoq') \in Nat
      BY <1>0, Behind
    <3> QED BY <3>1, <3>2
  <2>3. depth' = n /\ free' = RX_PATH_FIFO_BEATS - depth /\ m <= n + InOut
    BY <1>0, <2>2, Behind
  <2>4. state' \in {"SUM", "ADJ", "CLS"} => m <= depth'
    <3>1. state # "IDLE" => InOut = 0
      BY DEF DInv, Room, InOut
    <3>2. InOut = 0 => m <= n
      BY <2>2, <2>3
    <3> QED BY <2>3, <3>1, <3>2
  <2>5. state' \in {"ADJ", "CLS"} => free' + m <= RX_PATH_FIFO_BEATS
    <3> SUFFICES ASSUME state' \in {"ADJ", "CLS"} PROVE free' + m <= RX_PATH_FIFO_BEATS
      OBVIOUS
    <3>1. n <= depth /\ InOut = 0 /\ depth \in Nat /\ RX_PATH_FIFO_BEATS \in Nat
      BY <2>2, Consts DEF DInv, Room, InOut, Typed, RearTyped
    <3>2. m <= n
      BY <2>2, <2>3, <3>1
    <3>3. (RX_PATH_FIFO_BEATS - depth) + m <= RX_PATH_FIFO_BEATS
      BY <2>2, <3>1, <3>2
    <3> QED BY <2>3, <3>3
  <2> QED BY <1>1, <2>1, <2>2, <2>4, <2>5 DEF Room
<1> QED BY <1>1, <1>2, <1>4, <1>5, <1>6, Assemble

LEMMA IdleWaitKeeps == ASSUME DInv, IdleWait PROVE DInv'
BY Still DEF IdleWait, Quiet, frameVars, clsVars

LEMMA StallKeeps == ASSUME DInv, Stall PROVE DInv'
BY Still DEF Stall, Waits, Quiet, frameVars, clsVars

LEMMA CaptureKeeps == ASSUME DInv, Capture PROVE DInv'
<1>1. FrontTyped'
  BY DEF DInv, Typed, FrontTyped, Capture, clsVars, States
<1>2. Placed'
  BY DEF DInv, Placed, Capture, clsVars
<1> QED BY <1>1, <1>2, Early DEF Capture

LEMMA PadKeeps == ASSUME DInv, Pad PROVE DInv'
<1>1. PICK c \in [cand : BOOLEAN, echo : BOOLEAN, sock : BOOLEAN] :
        cls' = c /\ (c.cand => Candidate)
  <2>1. PICK echoEn, sockEn, chkEn \in BOOLEAN :
          LET echo == echoEn /\ "ECHO" \in frame.ports
              sock == sockEn /\ "SOCK" \in frame.ports
              chk == chkEn /\ "CHK" \in frame.ports
          IN cls' = [cand |-> Candidate /\ (echo \/ sock \/ chk) /\ ~frame.l3bad,
                     echo |-> echo, sock |-> sock]
    BY Zenon DEF Pad
  <2> DEFINE y == echoEn /\ "ECHO" \in frame.ports
             z == sockEn /\ "SOCK" \in frame.ports
             x == Candidate /\ (y \/ z \/ (chkEn /\ "CHK" \in frame.ports)) /\ ~frame.l3bad
             c == [cand |-> x, echo |-> y, sock |-> z]
  <2>2. x \in BOOLEAN /\ y \in BOOLEAN /\ z \in BOOLEAN /\ (x => Candidate)
    BY Zenon
  <2>3. cls' = c
    BY <2>1, Zenon
  <2> HIDE DEF x, y, z
  <2>4. c \in [cand : BOOLEAN, echo : BOOLEAN, sock : BOOLEAN] /\ c.cand = x
    BY <2>2, Zenon
  <2>5. c.cand => Candidate
    BY <2>2, <2>4, Zenon
  <2> HIDE DEF c
  <2> QED BY <2>3, <2>4, <2>5, Zenon
<1>2. FrontTyped'
  BY <1>1 DEF DInv, Typed, FrontTyped, Pad, frameVars, States
<1>3. Placed'
  BY <1>1 DEF DInv, Placed, Pad, frameVars, Candidate
<1> QED BY <1>2, <1>3, Early DEF Pad

LEMMA SumAdjKeeps == ASSUME DInv, SumAdj PROVE DInv'
<1>1. FrontTyped'
  BY DEF DInv, Typed, FrontTyped, SumAdj, frameVars, clsVars, States
<1>2. Placed'
  BY DEF DInv, Placed, SumAdj, frameVars, clsVars, Candidate
<1>3. state' \in {"ADJ", "CLS"} /\ state \in {"SUM", "ADJ"}
  BY DEF SumAdj
<1> QED BY <1>1, <1>2, <1>3, Early DEF SumAdj

LEMMA ClassifyKeeps == ASSUME DInv, Classify PROVE DInv'
<1>0. /\ Cycle(FALSE) /\ NoLoad /\ state = "CLS" /\ state' = "EVAL" /\ frame \in Frames /\ ~o.valid
      /\ UNCHANGED <<frame, beat, first, rem, carry>> /\ cls' = NoClass
  BY DEF Classify, Quiet, frameVars, DInv, Placed, Room
<1>1. /\ route' \in Ports \cup {"DROP"}
      /\ route' \in {"ECHO", "SOCK", "CHK"} => Candidate
      /\ route' = "ECHO" => EchoRoom
      /\ desc' \in BOOLEAN /\ (desc' => route' = "RAW")
  <2>1. PICK rxEn, rawDesc \in BOOLEAN :
          /\ route' = CASE frame.bad \/ ~rxEn -> "DROP"
                        [] ~frame.bad /\ rxEn /\ Ruled /\ cls.echo ->
                               IF EchoRoom THEN "ECHO" ELSE "DROP"
                        [] ~frame.bad /\ rxEn /\ Ruled /\ ~cls.echo ->
                               IF cls.sock THEN "SOCK" ELSE "CHK"
                        [] OTHER -> "RAW"
          /\ desc' = (rawDesc /\ route' = "RAW")
    BY DEF Classify
  <2>2. Ruled => Candidate
    BY <1>0 DEF Ruled, DInv, Placed
  <2>3. CASE frame.bad \/ ~rxEn
    BY <2>1, <2>3 DEF Ports
  <2>4. CASE ~frame.bad /\ rxEn /\ Ruled /\ cls.echo
    BY <2>1, <2>2, <2>4 DEF Ports
  <2>5. CASE ~frame.bad /\ rxEn /\ Ruled /\ ~cls.echo
    BY <2>1, <2>2, <2>5 DEF Ports
  <2>6. CASE ~frame.bad /\ rxEn /\ ~Ruled
    BY <2>1, <2>6 DEF Ports
  <2>7. desc' \in BOOLEAN /\ (desc' => route' = "RAW")
    BY <2>1
  <2> QED BY <2>3, <2>4, <2>5, <2>6, <2>7
<1>2. FrontTyped'
  BY <1>0, <1>1 DEF DInv, Typed, FrontTyped, States, NoClass
<1>3. RearTyped' /\ o' = NoOutput /\ ~o'.valid /\ InOut' = 0 /\ Going' = 0
  BY <1>0, NoLoadStep
<1>4. Placed'
  <2>1. Strips' => Candidate'
    BY <1>0, <1>1 DEF Strips, Candidate
  <2> QED BY <1>0, <1>1, <2>1 DEF DInv, Placed
<1>5. Carried'
  BY <1>0 DEF Carried
<1>6. Delivered'
  <2>1. ~Mid /\ ~Mid'
    BY <1>0 DEF Mid, Moving
  <2> QED BY <1>0, <2>1, NoLoadDelivered
<1>7. Records'
  <2>1. Coming' + Going' = Coming + One(FALSE)
    BY <1>0, <1>3 DEF One, Coming, Moving
  <2>2. route' = "ECHO" => emeta < ECHO_META_DEPTH
    BY <1>1 DEF EchoRoom
  <2> QED BY <1>0, <2>1, <2>2, RecordsStep
<1>8. Room'
  <2>1. PICK n, m \in Nat : n = Len(echoq) /\ m = Len(echoq')
    <3>1. Len(echoq) \in Nat
      BY DEF DInv, Typed, RearTyped
    <3>2. Len(echoq') \in Nat
      BY <1>0, Behind
    <3> QED BY <3>1, <3>2
  <2>2. InOut = 0 /\ m <= n + InOut /\ free + n <= RX_PATH_FIFO_BEATS
    BY <1>0, <2>1, Behind DEF InOut, DInv, Room
  <2>3. free \in Int /\ RX_PATH_FIFO_BEATS \in Nat /\ ECHO_MARGIN \in Nat /\ Beats(frame.plen) \in Nat
    BY <1>0, Consts, BeatsOf DEF DInv, Typed, RearTyped
  <2>4. route' = "ECHO" => Beats(frame.plen) + ECHO_MARGIN <= free
    BY <1>1 DEF EchoRoom
  <2>5. n + InOut <= RX_PATH_FIFO_BEATS
    <3>1. n + InOut + ToCome <= RX_PATH_FIFO_BEATS /\ ToCome = 0
      BY <1>0, <2>1 DEF DInv, Room, ToCome
    <3> QED BY <2>1, <2>2, <3>1
  <2>6. ToCome' = IF route' = "ECHO" THEN Beats(frame.plen) ELSE 0
    BY <1>0 DEF ToCome, Beats
  <2>7. m + 0 + ToCome' <= RX_PATH_FIFO_BEATS
    <3>1. CASE route' = "ECHO"
      <4>1. m + 0 + Beats(frame.plen) <= RX_PATH_FIFO_BEATS
        BY <2>1, <2>2, <2>3, <2>4, <3>1
      <4> QED BY <2>6, <3>1, <4>1
    <3>2. CASE route' # "ECHO"
      <4>1. m + 0 + 0 <= RX_PATH_FIFO_BEATS
        BY <2>1, <2>2, <2>3, <2>5
      <4> QED BY <2>6, <3>2, <4>1
    <3> QED BY <3>1, <3>2
  <2> QED BY <1>0, <1>3, <2>1, <2>7 DEF Room
<1> QED BY <1>2, <1>3, <1>4, <1>5, <1>6, <1>7, <1>8, Assemble

LEMMA CommitKeeps == ASSUME DInv, Commit PROVE DInv'
<1>0. /\ Cycle(route = "ECHO") /\ NoLoad /\ state = "EVAL" /\ frame \in Frames /\ beat = 0
      /\ state' = IF route = "SOCK" \/ (route = "RAW" /\ desc) THEN "DESC" ELSE "FWD"
      /\ first' = TRUE /\ rem' = frame.plen
      /\ UNCHANGED <<frame, beat, carry, cls, route, desc>>
      /\ (Strips => Candidate) /\ (desc => route = "RAW")
      /\ route \in Ports \cup {"DROP"} /\ desc \in BOOLEAN
  BY DEF Commit, clsVars, DInv, Placed, Typed, FrontTyped
<1>1. frame.flen \in Nat \ {0} /\ frame.plen \in Nat /\ KEEP_W \in Nat
  BY <1>0, Consts
<1>2. FrontTyped'
  BY <1>0, <1>1 DEF DInv, Typed, FrontTyped, States
<1>3. RearTyped' /\ o' = NoOutput /\ ~o'.valid /\ InOut' = 0 /\ Going' = 0
  BY <1>0, NoLoadStep
<1>4. Placed'
  <2>1. 0 < Beats(frame.flen)
    <3>1. 0 * KEEP_W = 0 /\ 0 < frame.flen
      BY <1>1
    <3> QED BY <1>1, <3>1, BeatsOf
  <2>2. 0 < Beats(frame'.flen) /\ frame' \in Frames /\ beat' = 0
    BY <1>0, <2>1
  <2>3. Strips' => Candidate'
    BY <1>0 DEF Strips, Candidate
  <2> QED BY <1>0, <2>2, <2>3 DEF Placed, Beats
<1>5. Carried'
  BY <1>0, <1>1 DEF Carried
<1>6. Delivered'
  <2>1. ~Mid /\ ~Mid'
    <3>1. ~Mid
      BY <1>0 DEF Mid, Moving
    <3>2. state' = "FWD" /\ route # "DROP" => Pos' = 0
      <4> SUFFICES ASSUME state' = "FWD", route # "DROP" PROVE Pos' = 0
        OBVIOUS
      <4>1. Lead' = 0
        BY <1>0 DEF Lead
      <4>2. 0 * KEEP_W = 0 /\ frame.plen - frame.plen = 0
        BY <1>1
      <4>3. Pos' = 0 + 0
        BY <1>0, <4>1, <4>2 DEF Pos
      <4> QED BY <4>3
    <3>3. state' = "DESC" => ~Mid'
      BY DEF Mid, Moving
    <3>4. state' = "FWD" => ~Mid'
      BY <1>0, <3>2 DEF Mid
    <3> QED BY <1>0, <3>1, <3>3, <3>4
  <2>2. (route = "ECHO") \in BOOLEAN
    OBVIOUS
  <2> QED BY <1>0, <2>1, <2>2, NoLoadDelivered
<1>7. Records'
  <2>1. route = "ECHO" => frame.plen # 0
    BY <1>0 DEF Strips, Candidate
  <2>2. Coming = 0 /\ Coming' = One(route = "ECHO")
    BY <1>0, <2>1 DEF Coming, Moving, One
  <2>3. One(route = "ECHO") \in {0, 1}
    BY OneIs
  <2>4. Coming' + Going' = Coming + One(route = "ECHO")
    <3>1. One(route = "ECHO") + 0 = 0 + One(route = "ECHO")
      BY <2>3
    <3> QED BY <1>3, <2>2, <3>1
  <2>5. route = "ECHO" => emeta < ECHO_META_DEPTH
    BY <1>0 DEF DInv, Records
  <2>6. (route = "ECHO") \in BOOLEAN /\ state' # "EVAL"
    BY <1>0
  <2> QED BY <1>0, <2>4, <2>5, <2>6, RecordsStep
<1>8. Room'
  <2>1. ToCome \in Nat
    BY ToComeNat DEF DInv
  <2>2. ToCome' = ToCome
    BY <1>0 DEF ToCome, Beats
  <2>3. InOut' \in Nat /\ ToCome' \in Nat /\ InOut' + ToCome' <= ToCome
    BY <1>3, <2>1, <2>2
  <2>4. (route = "ECHO") \in BOOLEAN
    OBVIOUS
  <2>5. Len(echoq') + InOut' + ToCome' <= RX_PATH_FIFO_BEATS
    BY <1>0, <2>3, <2>4, RoomStep
  <2>6. state' \in {"DESC", "FWD"}
    BY <1>0
  <2> QED BY <1>3, <2>5, <2>6 DEF Room
<1> QED BY <1>2, <1>3, <1>4, <1>5, <1>6, <1>7, <1>8, Assemble

-----------------------------------------------------------------------------
(* Forwarding.                                                              *)

LEMMA FirstOf ==
    ASSUME NEW w \in Seq(Int), Len(w) > 0
    PROVE  SubSeq(w, 1, 1) = <<w[1]>>
<1> DEFINE s == SubSeq(w, 1, 1)
<1>1. s \in Seq(Int) /\ Len(s) = 1 /\ s[1] = w[1]
  OBVIOUS
<1> HIDE DEF s
<1>2. s = <<s[1]>>
  BY <1>1
<1> QED BY <1>1, <1>2 DEF s

LEMMA DescriptorKeeps == ASSUME DInv, Descriptor PROVE DInv'
<1>0. /\ Cycle(FALSE) /\ Load(<<Desc>>, FALSE) /\ state = "DESC" /\ state' = "FWD" /\ frame \in Frames
      /\ beat = 0 /\ rem = frame.plen
      /\ UNCHANGED <<frame, beat, first, rem, carry, cls, route, desc>>
      /\ route = "SOCK" \/ (route = "RAW" /\ desc)
      /\ route \in Ports /\ desc \in BOOLEAN /\ first
      /\ (Strips => Candidate) /\ (desc => route = "RAW")
  BY DEF Descriptor, Quiet, frameVars, clsVars, DInv, Placed, Typed, FrontTyped, Ports
<1>10. <<Desc>> \in Seq(Int)
  BY DEF Desc
<1>1. frame.flen \in Nat \ {0} /\ frame.plen \in Nat /\ KEEP_W \in Nat
  BY <1>0, Consts
<1>2. FrontTyped'
  BY <1>0 DEF DInv, Typed, FrontTyped, States
<1>3. RearTyped' /\ o'.valid /\ o'.bytes = <<Desc>> /\ o'.want = Want /\ o'.last = FALSE
  BY <1>0, <1>10, LoadStep
<1>4. InOut' = 0 /\ Going' = 0
  BY <1>0, <1>10, LoadStep, Zenon DEF One
<1>5. Placed'
  <2>1. 0 < Beats(frame.flen)
    <3>1. 0 * KEEP_W = 0 /\ 0 < frame.flen
      BY <1>1
    <3> QED BY <1>1, <3>1, BeatsOf
  <2>2. 0 < Beats(frame'.flen) /\ frame' \in Frames /\ beat' = 0
    BY <1>0, <2>1
  <2>3. Strips' => Candidate'
    BY <1>0 DEF Strips, Candidate
  <2> QED BY <1>0, <2>2, <2>3 DEF Placed, Beats
<1>6. Carried'
  BY <1>0, <1>1 DEF Carried
<1>7. Delivered'
  <2>1. Lead = 1 /\ Size \in Nat \ {0}
    BY <1>0, <1>1 DEF Lead, Size, Strips, Candidate
  <2>2. /\ Want \in Seq(Int) /\ Len(Want) = 1 + Size /\ Want[1] = Desc
    BY <1>0, <2>1, WantIs
  <2>3. sent' = 0
    BY <1>0, Behind DEF Mid, Moving
  <2>4. Len(o'.bytes) = 1 /\ o'.bytes = <<Desc>>
    BY <1>3
  <2>5. Exact'
    <3>1. SubSeq(Want, 0 + 1, 0 + 1) = <<Desc>>
      <4>1. SubSeq(Want, 1, 1) = <<Want[1]>>
        BY <2>1, <2>2, FirstOf
      <4> QED BY <2>2, <4>1
    <3>2. 0 + 1 <= Len(Want) /\ 0 + 1 # Len(Want)
      BY <2>1, <2>2
    <3> QED BY <1>3, <2>3, <2>4, <3>1, <3>2 DEF Exact
  <2>6. Pos' = 1
    <3>1. Lead' = 1
      BY <1>0, <2>1 DEF Lead
    <3>2. 0 * KEEP_W = 0 /\ frame.plen - frame.plen = 0
      BY <1>1
    <3>3. Pos' = 1 + 0
      BY <1>0, <3>1, <3>2 DEF Pos
    <3> QED BY <3>3
  <2>7. Mid'
    BY <1>0, <2>6 DEF Mid, Moving, Strips, Candidate
  <2>8. Want' = Want
    BY <1>0 DEF Want
  <2>9. sent' + Len(o'.bytes) = Pos'
    BY <2>3, <2>4, <2>6
  <2> QED BY <1>3, <2>5, <2>7, <2>8, <2>9 DEF Delivered
<1>8. Records'
  <2>1. Coming' + Going' = Coming + One(FALSE)
    BY <1>0, <1>4 DEF One, Coming, Moving
  <2> QED BY <1>0, <2>1, RecordsStep
<1>9. Room'
  <2>1. ToCome = 0 /\ ToCome' = 0
    BY <1>0 DEF ToCome
  <2>2. InOut' \in Nat /\ ToCome' \in Nat /\ InOut' + ToCome' <= ToCome
    BY <1>4, <2>1
  <2>3. Len(echoq') + InOut' + ToCome' <= RX_PATH_FIFO_BEATS
    BY <1>0, <2>2, RoomStep
  <2> QED BY <1>0, <2>3 DEF Room
<1> QED BY <1>2, <1>3, <1>5, <1>6, <1>7, <1>8, <1>9, Assemble

\* Where the input beat is in the frame, and what taking it leaves.
LEMMA BeatTaken ==
    ASSUME DInv, state = "FWD", NEW next \in {"IDLE", "FLUSH"}, TakeBeat(next)
    PROVE  /\ frame \in Frames /\ beat * KEEP_W \in Nat /\ beat * KEEP_W < frame.flen
           /\ InLast <=> frame.flen <= beat * KEEP_W + KEEP_W
           /\ first' = FALSE /\ carry' \in [1 .. CARRY -> Int] /\ beat' \in Nat
           /\ InLast => state' = next /\ beat' = 0
           /\ ~InLast => /\ state' = "FWD" /\ beat' = beat + 1 /\ beat' # 0 /\ beat' < Beats(frame.flen)
                         /\ beat' * KEEP_W = beat * KEEP_W + KEEP_W
           /\ ~(InLast /\ next = "IDLE") =>
                /\ frame' = frame
                /\ \A i \in 1 .. CARRY : carry'[i] = BusByte(beat + 1, STRIP + i)
<1>0. frame \in Frames /\ beat \in Nat /\ beat < Beats(frame.flen) /\ frame.flen \in Nat
  BY Consts DEF DInv, Placed, Typed, FrontTyped
<1>1. /\ beat * KEEP_W \in Nat /\ beat * KEEP_W < frame.flen
      /\ (beat + 1) * KEEP_W = beat * KEEP_W + KEEP_W
      /\ InLast <=> frame.flen <= beat * KEEP_W + KEEP_W
  BY <1>0, NextBeat DEF InLast, InBeat
<1>2. NextCarry \in [1 .. CARRY -> Int] /\ \A i \in 1 .. CARRY : NextCarry[i] = BusByte(beat + 1, STRIP + i)
  <2>1. \A i \in 1 .. CARRY : NextCarry[i] = BusByte(beat + 1, STRIP + i)
    BY DEF NextCarry, InBeat
  <2>2. \A i \in 1 .. CARRY : BusByte(beat + 1, STRIP + i) \in Int
    <3> TAKE i \in 1 .. CARRY
    <3>1. STRIP + i \in Nat /\ beat * KEEP_W \in Int
      BY <1>1, Consts
    <3>2. BusByte(beat + 1, STRIP + i)
             = IF beat * KEEP_W + (STRIP + i) <= frame.flen THEN beat * KEEP_W + (STRIP + i) ELSE Garbage
      BY <1>0, <3>1, ByteAt
    <3> QED BY <3>1, <3>2 DEF Garbage
  <2>3. NextCarry = [i \in 1 .. CARRY |-> NextCarry[i]]
    BY DEF NextCarry
  <2> QED BY <2>1, <2>2, <2>3
<1>3. Zeros(CARRY) \in [1 .. CARRY -> Int]
  BY DEF Zeros, Garbage
<1>4. carry' \in [1 .. CARRY -> Int]
  BY <1>2, <1>3 DEF TakeBeat
<1>5. ~InLast => /\ state' = "FWD" /\ beat' = beat + 1 /\ beat' < Beats(frame.flen)
                 /\ beat' * KEEP_W = beat * KEEP_W + KEEP_W
  <2> SUFFICES ASSUME ~InLast PROVE /\ state' = "FWD" /\ beat' = beat + 1 /\ beat' < Beats(frame.flen)
                                    /\ beat' * KEEP_W = beat * KEEP_W + KEEP_W
    OBVIOUS
  <2>1. state' = "FWD" /\ beat' = beat + 1
    BY DEF TakeBeat, InBeat
  <2>2. beat + 1 # Beats(frame.flen) /\ Beats(frame.flen) \in Nat
    BY <1>0, BeatsOf DEF InLast, InBeat
  <2>3. beat + 1 < Beats(frame.flen)
    BY <1>0, <2>2
  <2> QED BY <1>1, <2>1, <2>3
<1>6. InLast => state' = next /\ beat' = 0
  BY DEF TakeBeat
<1>7. beat' \in Nat /\ (~InLast => beat' # 0)
  BY <1>0, <1>5, <1>6
<1>8. ~(InLast /\ next = "IDLE") => frame' = frame /\ carry' = NextCarry
  BY DEF TakeBeat
<1>9. first' = FALSE
  BY DEF TakeBeat
<1> QED BY <1>0, <1>1, <1>2, <1>4, <1>5, <1>6, <1>7, <1>8, <1>9

\* The part of the invariant that says where the frame is.
LEMMA TakenPlaced ==
    ASSUME DInv, state = "FWD", NEW next \in {"IDLE", "FLUSH"}, TakeBeat(next), rem' \in Nat,
           UNCHANGED <<cls, route, desc>>, next = "FLUSH" => Strips
    PROVE  FrontTyped' /\ Placed'
<1>1. FrontTyped'
  BY BeatTaken DEF DInv, Typed, FrontTyped, States
<1>2. Placed'
  <2>1. CASE InLast /\ next = "IDLE"
    <3>1. state' = "IDLE" /\ beat' = 0
      BY <2>1, BeatTaken
    <3> QED BY <3>1 DEF Placed
  <2>2. CASE InLast /\ next = "FLUSH"
    <3>1. state' = "FLUSH" /\ beat' = 0 /\ frame' = frame /\ frame \in Frames
      BY <2>2, BeatTaken
    <3>2. Strips' /\ Candidate' /\ (desc' => route' = "RAW")
      BY <2>2, <3>1 DEF Strips, Candidate, DInv, Placed
    <3> QED BY <3>1, <3>2 DEF Placed
  <2>3. CASE ~InLast
    <3>1. /\ state' = "FWD" /\ beat' # 0 /\ frame' = frame /\ frame \in Frames /\ first' = FALSE
          /\ beat' < Beats(frame.flen)
      BY <2>3, BeatTaken
    <3>2. (Strips' => Candidate') /\ (desc' => route' = "RAW")
      BY <3>1 DEF Strips, Candidate, DInv, Placed
    <3>3. beat' < Beats(frame'.flen)
      BY <3>1
    <3> QED BY <3>1, <3>2, <3>3 DEF Placed, Beats
  <2> QED BY <2>1, <2>2, <2>3
<1> QED BY <1>1, <1>2

LEMMA ForwardDropKeeps == ASSUME DInv, ForwardDrop PROVE DInv'
<1>0. /\ Cycle(FALSE) /\ NoLoad /\ state = "FWD" /\ route = "DROP" /\ TakeBeat("IDLE")
      /\ UNCHANGED <<cls, route, desc>>
  BY DEF ForwardDrop, Quiet, clsVars
<1>1. rem' \in Nat
  <2>1. rem \in Nat /\ KEEP_W \in Nat
    BY Consts DEF DInv, Typed, FrontTyped
  <2>2. rem > KEEP_W => rem - KEEP_W \in Nat
    BY <2>1
  <2> QED BY <2>1, <2>2 DEF ForwardDrop
<1>2. FrontTyped' /\ Placed'
  BY <1>0, <1>1, TakenPlaced
<1>3. RearTyped' /\ o' = NoOutput /\ ~o'.valid /\ InOut' = 0 /\ Going' = 0
  BY <1>0, NoLoadStep
<1>4. state' \in {"IDLE", "FWD"}
  BY <1>0 DEF TakeBeat
<1>5. Carried'
  BY <1>0, <1>4 DEF Carried, Strips
<1>6. Delivered'
  <2>1. ~Mid /\ ~Mid'
    BY <1>0 DEF Mid
  <2> QED BY <1>0, <2>1, NoLoadDelivered
<1>7. Records'
  <2>1. Coming' + Going' = Coming + One(FALSE)
    BY <1>0, <1>3 DEF One, Coming
  <2> QED BY <1>0, <1>4, <2>1, RecordsStep
<1>8. Room'
  <2>1. ToCome = 0 /\ ToCome' = 0
    BY <1>0 DEF ToCome
  <2>2. InOut' \in Nat /\ ToCome' \in Nat /\ InOut' + ToCome' <= ToCome
    BY <1>3, <2>1
  <2>3. Len(echoq') + InOut' + ToCome' <= RX_PATH_FIFO_BEATS
    BY <1>0, <2>2, RoomStep
  <2> QED BY <1>3, <1>4, <2>3 DEF Room
<1> QED BY <1>2, <1>3, <1>5, <1>6, <1>7, <1>8, Assemble

LEMMA BusSame == ASSUME NEW k, NEW i, frame' = frame PROVE BusByte(k, i)' = BusByte(k, i)
BY DEF BusByte

LEMMA StripSkipKeeps == ASSUME DInv, StripSkip PROVE DInv'
<1> DEFINE next == IF rem # 0 THEN "FLUSH" ELSE "IDLE"
           x == beat * KEEP_W
<1>0. /\ Cycle(FALSE) /\ NoLoad /\ state = "FWD" /\ Strips /\ (first \/ rem = 0) /\ TakeBeat(next)
      /\ UNCHANGED <<rem, cls, route, desc>> /\ frame \in Frames /\ Candidate
      /\ (first <=> beat = 0) /\ beat \in Nat /\ rem \in Nat /\ rem <= frame.plen
      /\ (beat = 0 => rem = frame.plen)
  BY DEF StripSkip, Quiet, clsVars, DInv, Placed, Carried, Typed, FrontTyped
<1>1. /\ frame.flen \in Nat /\ frame.plen \in Nat \ {0} /\ frame.flen >= STRIP + frame.plen
      /\ KEEP_W \in Nat /\ STRIP \in Nat /\ CARRY \in Nat /\ CARRY + STRIP = KEEP_W
      /\ route \in {"ECHO", "SOCK", "CHK"} /\ next \in {"IDLE", "FLUSH"}
  BY <1>0, Consts DEF Candidate, Strips
<1>2. FrontTyped' /\ Placed'
  BY <1>0, <1>1, TakenPlaced
<1>3. RearTyped' /\ o' = NoOutput /\ ~o'.valid /\ InOut' = 0 /\ Going' = 0
  BY <1>0, NoLoadStep
<1>4. /\ x \in Nat /\ (InLast <=> frame.flen <= x + KEEP_W)
      /\ InLast => state' = next /\ beat' = 0
      /\ ~InLast => state' = "FWD" /\ beat' = beat + 1 /\ beat' # 0
      /\ rem # 0 =>
           /\ frame' = frame
           /\ \A i \in 1 .. CARRY : carry'[i] = BusByte(beat + 1, STRIP + i)
  BY <1>0, <1>1, BeatTaken
<1>5. rem # 0 => beat = 0 /\ x = 0 /\ rem = frame.plen /\ state' \in {"FWD", "FLUSH"}
  <2>1. rem # 0 => beat = 0
    BY <1>0
  <2>2. 0 * KEEP_W = 0
    BY <1>1
  <2> QED BY <1>0, <1>4, <2>1, <2>2
<1>6. rem = 0 => state' \in {"FWD", "IDLE"}
  BY <1>4
<1>7. Carried'
  <2>1. CASE rem = 0
    <3>1. ~InLast => frame' = frame
      BY <1>0, BeatTaken DEF TakeBeat
    <3>2. state' = "FWD" => frame' = frame /\ beat' # 0
      BY <1>4, <2>1, <3>1
    <3> QED BY <1>0, <1>1, <1>6, <2>1, <3>2 DEF Carried
  <2>2. CASE rem # 0
    <3>1. /\ beat = 0 /\ rem = frame.plen /\ frame' = frame /\ rem' = rem /\ x = 0
          /\ \A i \in 1 .. CARRY : carry'[i] = BusByte(1, STRIP + i)
      <4>1. beat = 0 /\ 0 + 1 = 1
        BY <1>5, <2>2
      <4> QED BY <1>0, <1>4, <1>5, <2>2, <4>1
    <3>2. CASE InLast
      <4>1. state' = "FLUSH" /\ frame.flen <= KEEP_W
        BY <1>1, <1>4, <2>2, <3>1, <3>2
      <4>2. rem \in 1 .. CARRY
        BY <1>1, <3>1, <4>1
      <4>3. ASSUME NEW i \in 1 .. rem PROVE carry'[i] = STRIP + (frame.plen - rem) + i
        <5>1. i \in 1 .. CARRY /\ STRIP + i \in Nat /\ STRIP + i <= frame.flen /\ 0 = 0 * KEEP_W
          BY <1>1, <3>1, <4>2
        <5>2. BusByte(0 + 1, STRIP + i) = 0 + (STRIP + i)
          <6>1. 0 + (STRIP + i) <= frame.flen
            BY <5>1
          <6> QED BY <5>1, <6>1, ByteAt
        <5>3. carry'[i] = BusByte(1, STRIP + i) /\ 0 + 1 = 1
          BY <3>1, <5>1
        <5>4. STRIP + (frame.plen - rem) + i = 0 + (STRIP + i)
          BY <1>1, <3>1, <5>1
        <5> QED BY <5>2, <5>3, <5>4
      <4> QED BY <1>0, <3>1, <4>1, <4>2, <4>3 DEF Carried
    <3>3. CASE ~InLast
      <4>1. state' = "FWD" /\ beat' = 1
        BY <1>4, <3>1, <3>3
      <4>2. frame.plen - rem = 0 /\ (1 - 1) * KEEP_W = 0 /\ rem <= frame.plen
        BY <1>1, <3>1
      <4>3. \A i \in 1 .. CARRY : carry'[i] = BusByte(1, STRIP + i)'
        BY <3>1, BusSame
      <4>4. \A i \in 1 .. CARRY : carry'[i] = BusByte(beat, STRIP + i)'
        BY <4>1, <4>3 DEF BusByte
      <4> QED BY <3>1, <4>1, <4>2, <4>4 DEF Carried
    <3> QED BY <3>2, <3>3
  <2> QED BY <2>1, <2>2
<1>8. Delivered'
  <2>1. rem # 0 => Pos' = Pos /\ (Mid' <=> Mid)
    <3> SUFFICES ASSUME rem # 0 PROVE Pos' = Pos /\ (Mid' <=> Mid)
      OBVIOUS
    <3>1. Pos' = Pos
      BY <1>0, <1>1, <1>4 DEF Pos, Lead
    <3>2. Moving /\ Moving'
      BY <1>0, <1>5 DEF Moving
    <3> QED BY <1>0, <3>1, <3>2 DEF Mid, Strips
  <2>2. rem = 0 => ~Mid /\ ~Mid'
    BY <1>0 DEF Mid, Strips
  <2> QED BY <1>0, <2>1, <2>2, NoLoadDelivered
<1>9. Records'
  <2>1. Coming' = Coming /\ Coming \in {0, 1}
    BY <1>0, <1>5 DEF Coming, Moving
  <2>2. Coming' + Going' = Coming + One(FALSE)
    BY <1>3, <2>1 DEF One
  <2>3. state' # "EVAL"
    BY <1>5, <1>6
  <2> QED BY <1>0, <2>2, <2>3, RecordsStep
<1>10. Room'
  <2>1. ToCome' = ToCome
    <3>1. rem = 0 => Beats(rem) = 0
      BY BeatLess
    <3>2. ToCome = IF route = "ECHO" THEN Beats(rem) ELSE 0
      BY <1>0 DEF ToCome
    <3>3. rem # 0 => ToCome' = IF route = "ECHO" THEN Beats(rem) ELSE 0
      BY <1>0, <1>5 DEF ToCome, Beats
    <3>4. rem = 0 => ToCome' = IF route = "ECHO" /\ state' = "FWD" THEN Beats(rem) ELSE 0
      BY <1>0, <1>6 DEF ToCome, Beats
    <3> QED BY <3>1, <3>2, <3>3, <3>4
  <2>2. ToCome \in Nat
    BY ToComeNat DEF DInv
  <2>3. InOut' \in Nat /\ ToCome' \in Nat /\ InOut' + ToCome' <= ToCome
    BY <1>3, <2>1, <2>2
  <2>4. Len(echoq') + InOut' + ToCome' <= RX_PATH_FIFO_BEATS
    BY <1>0, <2>3, RoomStep
  <2> QED BY <1>3, <1>5, <1>6, <2>4 DEF Room
<1> QED BY <1>2, <1>3, <1>7, <1>8, <1>9, <1>10, Assemble

LEMMA ForwardRawKeeps == ASSUME DInv, ForwardRaw PROVE DInv'
<1> DEFINE x == beat * KEEP_W
           n == Min2(KEEP_W, frame.flen - x)
<1>0. /\ Cycle(FALSE) /\ state = "FWD" /\ route = "RAW" /\ TakeBeat("IDLE") /\ Load(RawBytes, InLast)
      /\ UNCHANGED <<rem, cls, route, desc>> /\ rem \in Nat /\ beat \in Nat /\ desc \in BOOLEAN
      /\ route \in Ports /\ InLast \in BOOLEAN
  BY DEF ForwardRaw, Quiet, clsVars, DInv, Typed, FrontTyped, Ports, InLast
<1>1. /\ frame \in Frames /\ x \in Nat /\ x < frame.flen /\ (InLast <=> frame.flen <= x + KEEP_W)
      /\ InLast => state' = "IDLE"
      /\ ~InLast => state' = "FWD" /\ frame' = frame /\ beat' * KEEP_W = x + KEEP_W
  BY <1>0, BeatTaken
<1>2. frame.flen \in Nat /\ KEEP_W \in Nat \ {0} /\ Lead \in {0, 1}
  BY <1>0, <1>1, Consts, LeadIs
<1>3. n \in Nat \ {0} /\ n <= KEEP_W /\ x + n <= frame.flen /\ (InLast <=> x + n = frame.flen) /\ (~InLast => n = KEEP_W)
  BY <1>1, <1>2 DEF Min2
<1>4. Piece(RawBytes, x, n)
  <2>1. RawBytes = [i \in 1 .. n |-> BusByte(InBeat, i)]
    BY DEF RawBytes
  <2>2. \A i \in 1 .. n : BusByte(InBeat, i) = 0 + x + i
    <3> TAKE i \in 1 .. n
    <3> HIDE DEF n, x
    <3>1. i \in Nat /\ x \in Int /\ x + i <= frame.flen /\ 0 + x + i = x + i
      BY <1>1, <1>2, <1>3
    <3>2. BusByte(beat + 1, i) = IF x + i <= frame.flen THEN x + i ELSE Garbage
      BY <1>0, <3>1, ByteAt DEF x
    <3> QED BY <3>1, <3>2 DEF InBeat
  <2> HIDE DEF n, x
  <2>3. \A i \in 1 .. n : RawBytes[i] = 0 + x + i /\ RawBytes[i] \in Int
    BY <1>1, <2>1, <2>2
  <2>4. RawBytes \in [1 .. n -> Int]
    BY <2>1, <2>3
  <2>5. RawBytes \in Seq(Int) /\ Len(RawBytes) = n
    BY <1>3, <2>4
  <2>6. Base = 0 /\ Size = frame.flen
    BY <1>0 DEF Base, Size
  <2> QED BY <1>3, <2>3, <2>5, <2>6 DEF Piece
<1>5. RawBytes \in Seq(Int)
  BY <1>4 DEF Piece
<1> HIDE DEF n
<1>6. RearTyped' /\ o'.valid
  BY <1>0, <1>1, <1>5, LoadStep
<1>7. InOut' = 0 /\ Going' = 0
  <2>1. InOut' = One(route = "ECHO") /\ Going' = One(route = "ECHO" /\ InLast)
    BY <1>0, <1>1, <1>5, LoadStep
  <2> QED BY <1>0, <2>1, Zenon DEF One
<1>8. FrontTyped' /\ Placed'
  BY <1>0, TakenPlaced
<1>9. Carried'
  BY <1>0, <1>1 DEF Carried, Strips
<1>10. Delivered'
  <2>1. sent' = Lead + x
    <3>1. Pos = Lead + x
      BY <1>0 DEF Pos
    <3>2. Mid <=> Pos # 0
      BY <1>0 DEF Mid, Moving, Strips
    <3> QED BY <1>0, <3>1, <3>2, Behind
  <2>2. InLast <=> x + n = Size
    BY <1>0, <1>3 DEF Size
  <2>3. ~InLast => Want' = Want /\ Pos' = Lead + x + n
    <3> SUFFICES ASSUME ~InLast PROVE Want' = Want /\ Pos' = Lead + x + n
      OBVIOUS
    <3>1. Want' = Want /\ Lead' = Lead
      BY <1>0, <1>1 DEF Want, Lead
    <3>2. Pos' = Lead + (x + KEEP_W)
      BY <1>0, <1>1, <3>1 DEF Pos
    <3>3. Lead + (x + KEEP_W) = Lead + x + n
      BY <1>1, <1>2, <1>3
    <3> QED BY <3>1, <3>2, <3>3
  <2>4. Mid' <=> ~InLast
    <3>1. InLast => ~Mid'
      BY <1>1 DEF Mid, Moving
    <3>2. ~InLast => Mid'
      <4>1. Lead + x + n # 0
        BY <1>1, <1>2, <1>3
      <4> QED BY <1>0, <1>1, <2>3, <4>1 DEF Mid, Moving, Strips
    <3> QED BY <3>1, <3>2
  <2>5. n \in Nat
    BY <1>3
  <2> QED BY <1>0, <1>1, <1>4, <1>5, <2>1, <2>2, <2>3, <2>4, <2>5, LoadDelivered
<1>11. Records'
  <2>1. Coming' + Going' = Coming + One(FALSE)
    BY <1>0, <1>7 DEF One, Coming
  <2> QED BY <1>0, <1>1, <2>1, RecordsStep
<1>12. Room'
  <2>1. ToCome = 0 /\ ToCome' = 0
    BY <1>0 DEF ToCome
  <2>2. InOut' \in Nat /\ ToCome' \in Nat /\ InOut' + ToCome' <= ToCome
    BY <1>7, <2>1
  <2>3. Len(echoq') + InOut' + ToCome' <= RX_PATH_FIFO_BEATS
    BY <1>0, <2>2, RoomStep
  <2> QED BY <1>1, <2>3 DEF Room
<1> QED BY <1>6, <1>8, <1>9, <1>10, <1>11, <1>12, Assemble

\* The first n bytes of a sequence.
LEMMA Front ==
    ASSUME NEW s \in Seq(Int), NEW n \in Nat, n <= Len(s)
    PROVE  /\ SubSeq(s, 1, n) \in Seq(Int) /\ Len(SubSeq(s, 1, n)) = n
           /\ \A j \in 1 .. n : SubSeq(s, 1, n)[j] = s[j]
OBVIOUS

LEMMA CarrySeq ==
    ASSUME carry \in [1 .. CARRY -> Int]
    PROVE  carry \in Seq(Int) /\ Len(carry) = CARRY
<1>1. CARRY \in Nat
  BY Consts
<1> QED BY <1>1

LEMMA StripBeatKeeps == ASSUME DInv, StripBeat PROVE DInv'
<1> DEFINE next == IF rem > KEEP_W THEN "FLUSH" ELSE "IDLE"
           x == beat * KEEP_W
           a == frame.plen - rem
           n == Min2(rem, KEEP_W)
           l == rem <= KEEP_W
<1>0. /\ Cycle(FALSE) /\ state = "FWD" /\ Strips /\ ~first /\ rem # 0 /\ TakeBeat(next)
      /\ Load(PayloadBytes, l) /\ rem' = (IF rem > KEEP_W THEN rem - KEEP_W ELSE 0)
      /\ UNCHANGED <<cls, route, desc>> /\ frame \in Frames /\ Candidate
      /\ beat # 0 /\ beat \in Nat /\ rem \in Nat /\ rem <= frame.plen
      /\ a = (beat - 1) * KEEP_W
      /\ \A i \in 1 .. CARRY : carry[i] = BusByte(beat, STRIP + i)
      /\ carry \in [1 .. CARRY -> Int] /\ desc \in BOOLEAN
  BY DEF StripBeat, Quiet, clsVars, DInv, Placed, Carried, Typed, FrontTyped
<1>1. /\ frame.flen \in Nat /\ frame.plen \in Nat \ {0} /\ frame.flen >= STRIP + frame.plen
      /\ KEEP_W \in Nat \ {0} /\ STRIP \in Nat /\ CARRY \in Nat /\ CARRY + STRIP = KEEP_W
      /\ route \in {"ECHO", "SOCK", "CHK"} /\ next \in {"IDLE", "FLUSH"}
      /\ route \in Ports
  <2>1. frame.flen \in Nat /\ frame.plen \in Nat /\ frame.plen # 0 /\ frame.flen >= STRIP + frame.plen
    <3>1. frame \in Frames /\ Candidate
      BY <1>0
    <3> QED BY <3>1, Consts DEF Candidate
  <2>2. route \in {"ECHO", "SOCK", "CHK"} /\ route \in Ports
    BY <1>0 DEF Strips, Ports
  <2>3. next \in {"IDLE", "FLUSH"}
    OBVIOUS
  <2> HIDE DEF next
  <2> QED BY <2>1, <2>2, <2>3, Consts
<1>15. l \in BOOLEAN
  OBVIOUS
<1>2. a \in Nat /\ x \in Nat /\ x = a + KEEP_W /\ a + rem = frame.plen
  <2>1. PICK b \in Nat : beat = b + 1
    <3>1. beat - 1 \in Nat /\ beat = (beat - 1) + 1
      BY <1>0
    <3> QED BY <3>1
  <2>2. (b + 1) * KEEP_W = b * KEEP_W + KEEP_W /\ b * KEEP_W \in Nat /\ (b + 1) - 1 = b
    BY <1>1, <2>1
  <2> QED BY <1>0, <1>1, <2>1, <2>2
<1>3. /\ (InLast <=> frame.flen <= x + KEEP_W)
      /\ InLast => state' = next /\ beat' = 0
      /\ ~InLast => state' = "FWD" /\ beat' = beat + 1 /\ beat' # 0
      /\ rem > KEEP_W =>
           /\ frame' = frame
           /\ \A i \in 1 .. CARRY : carry'[i] = BusByte(beat + 1, STRIP + i)
  BY <1>0, <1>1, BeatTaken
<1>4. n \in Nat \ {0} /\ n <= KEEP_W /\ n <= rem /\ (l => n = rem) /\ (~l => n = KEEP_W /\ n < rem) /\ (l <=> ~(rem > KEEP_W))
  BY <1>0, <1>1 DEF Min2
<1>5. Piece(PayloadBytes, a, n)
  <2> DEFINE f == [i \in 1 .. STRIP |-> BusByte(InBeat, i)]
             s == carry \o f
  <2>1. \A i \in 1 .. STRIP : f[i] = (IF x + i <= frame.flen THEN x + i ELSE Garbage) /\ f[i] \in Int
    <3> TAKE i \in 1 .. STRIP
    <3>1. i \in Nat /\ x \in Int
      BY <1>1, <1>2
    <3>2. BusByte(beat + 1, i) = IF x + i <= frame.flen THEN x + i ELSE Garbage
      BY <1>0, <3>1, ByteAt
    <3>3. f[i] = BusByte(beat + 1, i)
      BY DEF InBeat
    <3> HIDE DEF f, x
    <3> QED BY <3>1, <3>2, <3>3 DEF Garbage
  <2>2. f \in [1 .. STRIP -> Int]
    <3>1. f = [i \in 1 .. STRIP |-> f[i]]
      OBVIOUS
    <3> HIDE DEF f
    <3> QED BY <2>1, <3>1
  <2> HIDE DEF f
  <2>3. f \in Seq(Int) /\ Len(f) = STRIP
    BY <1>1, <2>2
  <2>4. /\ s \in Seq(Int) /\ Len(s) = KEEP_W
        /\ \A j \in 1 .. STRIP : s[CARRY + j] = f[j]
        /\ \A j \in 1 .. CARRY : s[j] = carry[j]
    <3>1. carry \in Seq(Int) /\ Len(carry) = CARRY
      BY <1>0, CarrySeq
    <3>2. /\ s \in Seq(Int) /\ Len(s) = Len(carry) + Len(f)
          /\ \A j \in 1 .. Len(f) : s[Len(carry) + j] = f[j]
          /\ \A j \in 1 .. Len(carry) : s[j] = carry[j]
      BY <2>3, <3>1, Prefixed
    <3> HIDE DEF s
    <3>3. Len(s) = KEEP_W
      BY <1>1, <2>3, <3>1, <3>2
    <3> QED BY <2>3, <3>1, <3>2, <3>3, Zenon
  <2>5. PayloadBytes = SubSeq(s, 1, n)
    BY DEF PayloadBytes, Stripped, RemBeat, f
  <2> HIDE DEF s
  <2>6. PayloadBytes \in Seq(Int) /\ Len(PayloadBytes) = n /\ \A j \in 1 .. n : PayloadBytes[j] = s[j]
    BY <1>4, <2>4, <2>5, Front
  <2>7. \A j \in 1 .. n : s[j] = STRIP + a + j
    <3> TAKE j \in 1 .. n
    <3> HIDE DEF n, x, a
    <3>1. j \in 1 .. KEEP_W /\ a + j <= frame.plen /\ STRIP + a + j <= frame.flen
      BY <1>1, <1>2, <1>4, <1>0
    <3>2. CASE j <= CARRY
      <4>1. j \in 1 .. CARRY
        BY <3>1, <3>2, <1>1
      <4>2. s[j] = BusByte(beat, STRIP + j)
        BY <1>0, <2>4, <4>1
      <4>3. beat - 1 \in Nat /\ (beat - 1) + 1 = beat
        BY <1>0
      <4>4. STRIP + j \in Nat /\ a \in Int
        BY <1>1, <1>2, <4>1
      <4>5. BusByte((beat - 1) + 1, STRIP + j) = IF a + (STRIP + j) <= frame.flen THEN a + (STRIP + j) ELSE Garbage
        BY <1>0, <4>3, <4>4, ByteAt DEF a
      <4>6. a + (STRIP + j) <= frame.flen /\ a + (STRIP + j) = STRIP + a + j
        BY <1>1, <1>2, <3>1, <4>1
      <4> QED BY <4>2, <4>3, <4>5, <4>6
    <3>3. CASE ~(j <= CARRY)
      <4>1. PICK i \in 1 .. STRIP : j = CARRY + i
        <5>1. j - CARRY \in 1 .. STRIP /\ j = CARRY + (j - CARRY)
          BY <1>1, <3>1, <3>3
        <5> QED BY <5>1
      <4>2. s[j] = f[i]
        BY <2>4, <4>1
      <4>3. x + i = STRIP + a + j
        BY <1>1, <1>2, <4>1
      <4> QED BY <2>1, <3>1, <4>2, <4>3
    <3> QED BY <3>2, <3>3
  <2>8. Base = STRIP /\ Size = frame.plen
    BY <1>1 DEF Base, Size
  <2>9. a + n <= Size
    BY <1>0, <1>2, <1>4, <2>8
  <2> HIDE DEF n, a
  <2> QED BY <2>6, <2>7, <2>8, <2>9 DEF Piece
<1> HIDE DEF n
<1>6. PayloadBytes \in Seq(Int)
  BY <1>5 DEF Piece
<1>7. RearTyped' /\ o'.valid /\ InOut' = One(route = "ECHO") /\ Going' = One(route = "ECHO" /\ l)
  BY <1>0, <1>1, <1>6, <1>15, LoadStep
<1>8. FrontTyped' /\ Placed'
  <2>1. rem' \in Nat
    BY <1>0, <1>1
  <2> QED BY <1>0, <1>1, <2>1, TakenPlaced
<1>9. ~l => state' \in {"FWD", "FLUSH"} /\ frame' = frame /\ rem' = rem - KEEP_W /\ rem' # 0 /\ rem' \in Nat
  BY <1>0, <1>1, <1>3, <1>4
<1>10. l => rem' = 0 /\ state' \in {"FWD", "IDLE"}
  BY <1>0, <1>1, <1>3, <1>4
<1>11. Carried'
  <2>1. CASE l
    <3>1. state' = "FWD" => frame' = frame /\ beat' # 0
      <4>1. ~InLast => frame' = frame
        BY <1>0, <1>1, BeatTaken
      <4>2. InLast => state' = "IDLE"
        BY <1>3, <1>4, <2>1
      <4> QED BY <1>3, <4>1, <4>2
    <3> QED BY <1>1, <1>10, <2>1, <3>1 DEF Carried
  <2>2. CASE ~l
    <3> DEFINE r == rem - KEEP_W
    <3>0. r \in Nat \ {0} /\ r < rem
      BY <1>0, <1>1, <1>4, <2>2
    <3>1. frame' = frame /\ rem' = r /\ \A i \in 1 .. CARRY : carry'[i] = BusByte(beat + 1, STRIP + i)
      BY <1>3, <1>4, <1>9, <2>2
    <3>2. frame.plen - r = x /\ r <= frame.plen
      BY <1>0, <1>1, <1>2, <3>0
    <3> HIDE DEF r, x, l
    <3>3. CASE InLast
      <4>1. state' = "FLUSH" /\ frame.flen <= x + KEEP_W
        BY <1>3, <1>4, <2>2, <3>3 DEF l
      <4>2. r \in 1 .. CARRY
        BY <1>1, <1>2, <3>0, <3>2, <4>1
      <4>3. ASSUME NEW i \in 1 .. r PROVE carry'[i] = STRIP + (frame.plen - r) + i
        <5>1. i \in 1 .. CARRY /\ STRIP + i \in Nat /\ x + (STRIP + i) <= frame.flen /\ x \in Int
          BY <1>1, <1>2, <3>0, <3>2, <4>2
        <5>2. BusByte(beat + 1, STRIP + i) = x + (STRIP + i)
          BY <1>0, <5>1, ByteAt DEF x
        <5>4. STRIP + (frame.plen - r) + i = x + (STRIP + i)
          BY <1>1, <1>2, <3>2, <5>1
        <5> QED BY <3>1, <5>1, <5>2, <5>4
      <4> QED BY <3>1, <3>2, <4>1, <4>2, <4>3 DEF Carried
    <3>4. CASE ~InLast
      <4>1. PICK b \in Nat : b = beat + 1
        BY <1>0
      <4>2. state' = "FWD" /\ beat' = b /\ b # 0
        BY <1>0, <1>3, <3>4, <4>1
      <4>3. frame.plen - r = (b - 1) * KEEP_W
        <5>1. b - 1 = beat
          BY <1>0, <4>1
        <5> QED BY <3>2, <5>1 DEF x
      <4>4. \A i \in 1 .. CARRY : carry'[i] = BusByte(b, STRIP + i)'
        BY <3>1, <4>1, BusSame
      <4>5. \A i \in 1 .. CARRY : carry'[i] = BusByte(beat, STRIP + i)'
        BY <4>2, <4>4 DEF BusByte
      <4> QED BY <3>1, <3>2, <4>2, <4>3, <4>5 DEF Carried
    <3> QED BY <3>3, <3>4
  <2> QED BY <2>1, <2>2
<1>12. Delivered'
  <2>0. Lead \in {0, 1}
    BY <1>0, <1>1, LeadIs
  <2>1. sent' = Lead + a
    <3>1. Pos = Lead + a
      BY <1>1 DEF Pos
    <3>2. Mid <=> Pos # 0
      BY <1>0, <1>1 DEF Mid, Moving, Strips
    <3> QED BY <1>0, <3>1, <3>2, Behind
  <2>2. l <=> a + n = Size
    <3>1. Size = frame.plen
      BY <1>1 DEF Size
    <3>2. a + rem = frame.plen /\ a \in Nat /\ rem \in Nat
      BY <1>0, <1>2
    <3> HIDE DEF a, l
    <3> QED BY <1>4, <3>1, <3>2
  <2>3. ~l => Want' = Want /\ Pos' = Lead + a + n
    <3> SUFFICES ASSUME ~l PROVE Want' = Want /\ Pos' = Lead + a + n
      OBVIOUS
    <3>1. Want' = Want /\ Lead' = Lead
      BY <1>0, <1>9 DEF Want, Lead
    <3>2. Pos' = Lead + (frame.plen - (rem - KEEP_W))
      BY <1>0, <1>1, <1>9, <3>1 DEF Pos
    <3>3. Lead + (frame.plen - (rem - KEEP_W)) = Lead + a + n
      BY <1>0, <1>1, <1>4, <2>0
    <3> QED BY <3>1, <3>2, <3>3
  <2>4. Mid' <=> ~l
    <3>1. l => ~Mid'
      BY <1>0, <1>1, <1>10 DEF Mid, Strips
    <3>2. ~l => Mid'
      <4>1. Lead + a + n # 0
        BY <1>2, <1>4, <2>0
      <4> QED BY <1>0, <1>1, <1>9, <2>3, <4>1 DEF Mid, Moving, Strips
    <3> QED BY <3>1, <3>2
  <2>5. n \in Nat
    BY <1>4
  <2> QED BY <1>0, <1>1, <1>2, <1>5, <1>6, <2>1, <2>2, <2>3, <2>4, <2>5, <1>15, LoadDelivered
<1>13. Records'
  <2>1. Coming = One(route = "ECHO")
    BY <1>0 DEF Coming, Moving, One
  <2>2. Coming' = One(route = "ECHO" /\ ~l)
    <3>1. l => Coming' = 0
      BY <1>10 DEF Coming
    <3>2. ~l => Coming' = One(route = "ECHO")
      BY <1>0, <1>9 DEF Coming, Moving, One
    <3> HIDE DEF l
    <3>3. l => One(route = "ECHO" /\ ~l) = 0
      BY Zenon DEF One
    <3>4. ~l => One(route = "ECHO" /\ ~l) = One(route = "ECHO")
      BY Zenon DEF One
    <3> QED BY <3>1, <3>2, <3>3, <3>4, Zenon
  <2>3. Coming' + Going' = Coming + One(FALSE)
    <3> HIDE DEF l
    <3>1. CASE route # "ECHO"
      <4>1. Coming = 0 /\ Coming' = 0 /\ Going' = 0
        BY <1>7, <2>1, <2>2, <3>1, Zenon DEF One
      <4> QED BY <4>1 DEF One
    <3>2. CASE route = "ECHO" /\ l
      <4>1. Coming = 1 /\ Coming' = 0 /\ Going' = 1
        BY <1>7, <2>1, <2>2, <3>2, Zenon DEF One
      <4> QED BY <4>1 DEF One
    <3>3. CASE route = "ECHO" /\ ~l
      <4>1. Coming = 1 /\ Coming' = 1 /\ Going' = 0
        BY <1>7, <2>1, <2>2, <3>3, Zenon DEF One
      <4> QED BY <4>1 DEF One
    <3> QED BY <3>1, <3>2, <3>3
  <2>4. state' # "EVAL"
    BY <1>9, <1>10
  <2> QED BY <1>0, <2>3, <2>4, RecordsStep
<1>14. Room'
  <2>1. InOut' + ToCome' <= ToCome /\ InOut' \in Nat /\ ToCome' \in Nat
    <3> HIDE DEF l
    <3>1. CASE route # "ECHO"
      <4>1. ToCome = 0 /\ ToCome' = 0
        BY <1>0, <3>1 DEF ToCome
      <4>2. InOut' = 0
        BY <1>7, <3>1, Zenon DEF One
      <4> QED BY <4>1, <4>2
    <3>2. CASE route = "ECHO" /\ l
      <4>0. ToCome = Beats(rem)
        BY <1>0, <3>2 DEF ToCome
      <4>1. Beats(rem) = 1
        BY <1>0, <1>1, <3>2, BeatLess DEF l
      <4>2. Beats(0) = 0
        BY BeatLess
      <4>3. ToCome' = 0
        <5>1. Beats(rem)' = Beats(rem')
          BY DEF Beats
        <5> QED BY <1>10, <3>2, <4>2, <5>1 DEF ToCome
      <4>4. InOut' = 1
        BY <1>7, <3>2, Zenon DEF One
      <4> QED BY <4>0, <4>1, <4>3, <4>4
    <3>3. CASE route = "ECHO" /\ ~l
      <4>0. ToCome = Beats(rem)
        BY <1>0, <3>3 DEF ToCome
      <4>1. Beats(rem) = Beats(rem - KEEP_W) + 1
        BY <1>0, <1>1, <3>3, BeatLess DEF l
      <4>2. rem - KEEP_W \in Nat
        BY <1>9, <3>3
      <4>3. ToCome' = Beats(rem - KEEP_W)
        <5>1. Beats(rem)' = Beats(rem')
          BY DEF Beats
        <5> QED BY <1>0, <1>9, <3>3, <5>1 DEF ToCome
      <4>4. InOut' = 1
        BY <1>7, <3>3, Zenon DEF One
      <4>5. Beats(rem - KEEP_W) \in Nat
        BY <4>2, BeatsOf
      <4> QED BY <4>0, <4>1, <4>3, <4>4, <4>5
    <3> QED BY <3>1, <3>2, <3>3
  <2>2. Len(echoq') + InOut' + ToCome' <= RX_PATH_FIFO_BEATS
    BY <1>0, <2>1, RoomStep
  <2> QED BY <1>9, <1>10, <2>2 DEF Room
<1> QED BY <1>7, <1>8, <1>11, <1>12, <1>13, <1>14, Assemble

LEMMA FlushKeeps == ASSUME DInv, Flush PROVE DInv'
<1> DEFINE a == frame.plen - rem
<1>0. /\ Cycle(FALSE) /\ state = "FLUSH" /\ Strips /\ state' = "IDLE" /\ Load(FlushBytes, TRUE)
      /\ rem' = 0 /\ carry' = Zeros(CARRY) /\ beat = 0
      /\ UNCHANGED <<beat, first, cls, route, desc>> /\ frame \in Frames /\ Candidate
      /\ rem \in 1 .. CARRY /\ rem <= frame.plen
      /\ \A i \in 1 .. rem : carry[i] = STRIP + a + i
      /\ carry \in [1 .. CARRY -> Int] /\ desc \in BOOLEAN /\ beat \in Nat
  BY DEF Flush, Quiet, clsVars, DInv, Placed, Carried, Typed, FrontTyped
<1>1. /\ frame.plen \in Nat \ {0} /\ KEEP_W \in Nat \ {0} /\ STRIP \in Nat /\ CARRY \in Nat
      /\ CARRY + STRIP = KEEP_W
      /\ route \in {"ECHO", "SOCK", "CHK"} /\ route \in Ports
  BY <1>0, Consts DEF Candidate, Strips, Ports
<1>2. rem \in Nat \ {0} /\ a \in Nat /\ a + rem = frame.plen /\ rem < KEEP_W + 1 /\ RemBeat = rem
  BY <1>0, <1>1, Consts DEF RemBeat, Min2
<1>3. Piece(FlushBytes, a, rem)
  <2> DEFINE f == Zeros(STRIP)
             s == carry \o f
  <2>1. f \in Seq(Int) /\ Len(f) = STRIP
    BY <1>1 DEF Zeros, Garbage
  <2> HIDE DEF f
  <2>2. carry \in Seq(Int) /\ Len(carry) = CARRY
    BY <1>0, CarrySeq
  <2>3. /\ s \in Seq(Int) /\ Len(s) = Len(carry) + Len(f)
        /\ \A j \in 1 .. Len(carry) : s[j] = carry[j]
    BY <2>1, <2>2, Prefixed
  <2>4. FlushBytes = SubSeq(s, 1, rem)
    BY <1>2 DEF FlushBytes, f
  <2> HIDE DEF s
  <2>5. rem <= Len(s) /\ rem \in Nat
    BY <1>0, <1>1, <2>1, <2>2, <2>3
  <2>6. FlushBytes \in Seq(Int) /\ Len(FlushBytes) = rem /\ \A j \in 1 .. rem : FlushBytes[j] = s[j]
    BY <2>3, <2>4, <2>5, Front
  <2>7. \A j \in 1 .. rem : s[j] = STRIP + a + j
    <3> TAKE j \in 1 .. rem
    <3>1. j \in 1 .. CARRY
      BY <1>0, <1>1
    <3> QED BY <1>0, <2>2, <2>3, <3>1
  <2>8. Base = STRIP /\ Size = frame.plen
    BY <1>1 DEF Base, Size
  <2>9. a + rem <= Size
    BY <1>1, <1>2, <2>8
  <2> HIDE DEF a
  <2> QED BY <2>6, <2>7, <2>8, <2>9 DEF Piece
<1>4. FlushBytes \in Seq(Int)
  BY <1>3 DEF Piece
<1>5. /\ RearTyped' /\ o'.valid /\ o'.last
      /\ InOut' = One(route = "ECHO") /\ Going' = One(route = "ECHO" /\ TRUE)
  BY <1>0, <1>1, <1>4, LoadStep
<1>6. FrontTyped' /\ Placed' /\ Carried'
  <2>1. carry' \in [1 .. CARRY -> Int]
    BY <1>0 DEF Zeros, Garbage
  <2>2. FrontTyped'
    BY <1>0, <2>1 DEF DInv, Typed, FrontTyped, States
  <2> QED BY <1>0, <2>2 DEF Placed, Carried
<1>7. ~Mid'
  BY <1>0 DEF Mid, Moving
<1>8. Delivered'
  <2>1. sent' = Lead + a
    <3>1. Pos = Lead + a
      BY <1>1 DEF Pos
    <3>2. Mid <=> Pos # 0
      BY <1>0, <1>1, <1>2 DEF Mid, Moving, Strips
    <3> QED BY <1>0, <3>1, <3>2, Behind
  <2>2. TRUE <=> a + rem = Size
    BY <1>1, <1>2 DEF Size
  <2>3. rem \in Nat
    BY <1>2
  <2> QED BY <1>0, <1>1, <1>2, <1>3, <1>4, <1>7, <2>1, <2>2, <2>3, LoadDelivered
<1>9. Records'
  <2>1. Coming' = 0 /\ Coming = One(route = "ECHO")
    BY <1>0, <1>2 DEF Coming, Moving, One
  <2>2. Coming' + Going' = Coming + One(FALSE)
    <3>1. CASE route # "ECHO"
      <4>1. Coming = 0 /\ Going' = 0
        BY <1>5, <2>1, <3>1, Zenon DEF One
      <4> QED BY <2>1, <4>1 DEF One
    <3>2. CASE route = "ECHO"
      <4>1. Coming = 1 /\ Going' = 1
        BY <1>5, <2>1, <3>2, Zenon DEF One
      <4> QED BY <2>1, <4>1 DEF One
    <3> QED BY <3>1, <3>2
  <2> QED BY <1>0, <2>2, RecordsStep
<1>10. Room'
  <2>1. InOut' + ToCome' <= ToCome /\ InOut' \in Nat /\ ToCome' \in Nat
    <3>1. ToCome' = 0
      BY <1>0 DEF ToCome
    <3>2. CASE route # "ECHO"
      <4>1. ToCome = 0 /\ InOut' = 0
        BY <1>5, <3>2, Zenon DEF One, ToCome
      <4> QED BY <3>1, <4>1
    <3>3. CASE route = "ECHO"
      <4>1. InOut' = 1
        BY <1>5, <3>3, Zenon DEF One
      <4>2. ToCome = Beats(rem) /\ Beats(rem) = 1
        <5>1. rem \in Nat /\ 0 < rem /\ rem <= KEEP_W
          BY <1>0, <1>1, <1>2
        <5> QED BY <1>0, <3>3, <5>1, BeatLess DEF ToCome
      <4> QED BY <3>1, <4>1, <4>2
    <3> QED BY <3>2, <3>3
  <2>2. Len(echoq') + InOut' + ToCome' <= RX_PATH_FIFO_BEATS
    BY <1>0, <2>1, RoomStep
  <2> QED BY <1>0, <2>2 DEF Room
<1> QED BY <1>5, <1>6, <1>8, <1>9, <1>10, Assemble

-----------------------------------------------------------------------------
(* The invariant and what it says.                                          *)

LEMMA DInvInit == Init => DInv
<1> SUFFICES ASSUME Init PROVE DInv
  OBVIOUS
<1> USE DEF Init
<1>1. NoOutput \in OutputType /\ ~NoOutput.valid
  BY DEF NoOutput, NoBytes, OutputType, Ports
<1>2. Zeros(CARRY) \in [1 .. CARRY -> Int]
  BY DEF Zeros, Garbage
<1>3. FrontTyped
  BY <1>2 DEF FrontTyped, States, Ports, NoClass
<1>4. RearTyped
  BY <1>1 DEF RearTyped
<1>5. ToCome = 0 /\ InOut = 0 /\ Coming = 0 /\ Going = 0 /\ ~Mid
  BY <1>1 DEF ToCome, InOut, Coming, Going, Mid, Moving
<1>6. Cardinality(EndsOf(echoq)) = 0
  <2>1. EndsOf(echoq) = {}
    BY DEF EndsOf
  <2> QED BY <2>1, FS_EmptySet
<1>7. Placed /\ Carried
  BY DEF Placed, Carried
<1>8. Delivered
  BY <1>1, <1>5 DEF Delivered, Exact
<1>9. Room
  BY <1>5, Consts DEF Room
<1>10. Records
  BY <1>5, <1>6, Consts DEF Records, Ends
<1> QED BY <1>3, <1>4, <1>7, <1>8, <1>9, <1>10 DEF DInv, Typed

LEMMA DInvKept == DInv /\ [Next]_vars => DInv'
<1> SUFFICES ASSUME DInv, [Next]_vars PROVE DInv'
  OBVIOUS
<1>1. CASE UNCHANGED vars
  BY <1>1 DEF vars, DInv, Typed, FrontTyped, RearTyped, Placed, Strips, Candidate, Beats, Carried, BusByte,
              Delivered, Exact, Mid, Moving, Pos, Lead, Want, Room, InOut, ToCome, Records, Ends, EndsOf,
              Coming, Going
<1>2. CASE Next
  <2>1. CASE IdleWait
    BY <2>1, IdleWaitKeeps
  <2>2. CASE Capture
    BY <2>2, CaptureKeeps
  <2>3. CASE Pad
    BY <2>3, PadKeeps
  <2>4. CASE SumAdj
    BY <2>4, SumAdjKeeps
  <2>5. CASE Classify
    BY <2>5, ClassifyKeeps
  <2>6. CASE Commit
    BY <2>6, CommitKeeps
  <2>7. CASE Descriptor
    BY <2>7, DescriptorKeeps
  <2>8. CASE ForwardRaw
    BY <2>8, ForwardRawKeeps
  <2>9. CASE ForwardDrop
    BY <2>9, ForwardDropKeeps
  <2>10. CASE StripSkip
    BY <2>10, StripSkipKeeps
  <2>11. CASE StripBeat
    BY <2>11, StripBeatKeeps
  <2>12. CASE Flush
    BY <2>12, FlushKeeps
  <2>13. CASE Stall
    BY <2>13, StallKeeps
  <2> QED BY <1>2, <2>1, <2>2, <2>3, <2>4, <2>5, <2>6, <2>7, <2>8, <2>9, <2>10, <2>11, <2>12, <2>13 DEF Next
<1> QED BY <1>1, <1>2

LEMMA DInvHolds == Spec => []DInv
BY DInvInit, DInvKept, PTL DEF Spec

\* Every port gets exactly the bytes of the frame it was promised: the whole frame
\* on RAW, the UDP payload on ECHO, SOCK and CHK, the descriptor first where there
\* is one, with tlast on the last byte and nowhere else: rx_dispatch's FWD and FLUSH
\* states, for every beat width, header length, frame and payload length.
THEOREM PortsGetTheFrame == Spec => []PayloadExact
<1>1. DInv => PayloadExact
  <2> SUFFICES ASSUME DInv PROVE PayloadExact
    OBVIOUS
  <2>1. Exact
    BY DEF DInv, Delivered
  <2>2. state = "IDLE" /\ ~o.valid => sent = 0
    BY DEF DInv, Delivered, Mid, Moving
  <2> QED BY <2>1, <2>2 DEF PayloadExact, Exact
<1> QED BY <1>1, DInvHolds, PTL

\* An echo payload given way in CLS never waits: there is room for each of its
\* beats although the free-beats status is two cycles old, the commit finds the
\* metadata FIFO as CLS found it, and the transmit side never has a payload whose
\* record is not there.
THEOREM EchoNeverWaits == Spec => []EchoReady
<1>1. DInv => EchoReady
  <2> SUFFICES ASSUME DInv PROVE EchoReady
    OBVIOUS
  <2>1. OFree
    BY NeverFull DEF DInv
  <2>2. state = "EVAL" => CanCommit
    BY DEF CanCommit, DInv, Records
  <2>3. RecordBeforePayload
    <3>1. Cardinality(EndsOf(echoq)) \in Nat /\ owed \in Nat /\ emeta \in Nat
      BY EndsFinite DEF DInv, Typed, RearTyped
    <3>2. Coming \in Nat /\ Going \in Nat
      BY DEF Coming, Going
    <3>3. emeta = owed + Cardinality(EndsOf(echoq)) + Coming + Going
      BY DEF DInv, Records, Ends
    <3> QED BY <3>1, <3>2, <3>3 DEF RecordBeforePayload
  <2> QED BY <2>1, <2>2, <2>3 DEF EchoReady, NeverStalls
<1> QED BY <1>1, DInvHolds, PTL
=============================================================================
