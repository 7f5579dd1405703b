---------------------------- MODULE HostToolsProofs ----------------------------
(***************************************************************************)
(* What the host tools do, for every value of the constants.               *)
(*   - The checksum arithmetic of gen_vectors.py for words of any width     *)
(*     above 16 values: what the adjusted payload sum makes the hardware    *)
(*     send, that the folding loop keeps a sum's value modulo 2^16 - 1, and *)
(*     what a corner payload adds up to. Products of two unknowns are       *)
(*     confined to the first lemmas; the rest is linear.                    *)
(*   - The application scripts, for any hardware images, patches,           *)
(*     installation and linker scripts: the repository of drivers they set  *)
(*     up is whole, a boot file that is reported holds the application      *)
(*     built last, linked for the memories it is put into and put into the  *)
(*     processor it was built for.                                          *)
(*   - The listener of zircon_prbs_tool.py, for any number of datagrams and *)
(*     of faults: what it passes is a run of datagrams as they were sent.   *)
(*   - update.py, for any data and any files: after a run that ended the    *)
(*     three files are those of the same data and kept their own lines.     *)
(***************************************************************************)
EXTENDS HostTools, SequenceTheorems, WellFoundedInduction, TLAPS

-----------------------------------------------------------------------------
(* Quotient and remainder                                                   *)

LEMMA ProductGrows ==
    ASSUME NEW n \in Nat, NEW a \in Int, NEW b \in Int, a < b
    PROVE  n * a + n <= n * b
<1>1. PICK d \in Nat : b = a + 1 + d
  <2>1. b - a - 1 \in Nat /\ b = a + 1 + (b - a - 1)
    OBVIOUS
  <2> QED BY <2>1
<1>2. n * (a + 1 + d) = n * a + n + n * d
  OBVIOUS
<1>3. n * d \in Nat
  OBVIOUS
<1> QED BY <1>1, <1>2, <1>3

LEMMA Division ==
    ASSUME NEW n \in Nat \ {0}, NEW v \in Int
    PROVE  v \div n \in Int /\ v % n \in 0 .. n - 1 /\ v = n * (v \div n) + (v % n)
OBVIOUS

\* Quotient and remainder are the only numbers of their kind.
LEMMA DivisionUnique ==
    ASSUME NEW n \in Nat \ {0}, NEW c \in Int, NEW r \in 0 .. n - 1
    PROVE  (n * c + r) \div n = c /\ (n * c + r) % n = r
<1> DEFINE q == (n * c + r) \div n
           m == (n * c + r) % n
<1>1. n * c + r \in Int
  OBVIOUS
<1>2. q \in Int /\ m \in 0 .. n - 1 /\ n * c + r = n * q + m
  BY <1>1, Division
<1> HIDE DEF q, m
<1>3. ~(q < c)
  <2> SUFFICES ASSUME q < c PROVE FALSE
    OBVIOUS
  <2>1. n * q + n <= n * c
    BY <1>2, ProductGrows
  <2> QED BY <1>2, <2>1
<1>4. ~(c < q)
  <2> SUFFICES ASSUME c < q PROVE FALSE
    OBVIOUS
  <2>1. n * c + n <= n * q
    BY <1>2, ProductGrows
  <2> QED BY <1>2, <2>1
<1>5. q = c
  BY <1>2, <1>3, <1>4
<1>6. m = r
  BY <1>2, <1>5
<1> QED BY <1>5, <1>6 DEF q, m

-----------------------------------------------------------------------------
(* Words                                                                    *)

LEMMA WordFacts == Word \in Nat \ {0} /\ Ones \in Nat \ {0} /\ Ones = Word - 1 /\ Word > 16
BY WordAssumption DEF WordAssumption, Ones

LEMMA SplitWord ==
    ASSUME NEW v \in Nat
    PROVE  Low(v) \in 0 .. Ones /\ Carry(v) \in Nat /\ v = Word * Carry(v) + Low(v)
<1>1. v \div Word \in Int /\ v % Word \in 0 .. Word - 1 /\ v = Word * (v \div Word) + (v % Word)
  BY WordFacts, Division
<1> DEFINE c == v \div Word
           r == v % Word
<1> HIDE DEF c, r
<1>2. c \in Int /\ r \in 0 .. Word - 1 /\ v = Word * c + r
  BY <1>1 DEF c, r
<1>3. ~(c < 0)
  <2> SUFFICES ASSUME c < 0 PROVE FALSE
    OBVIOUS
  <2>1. Word * c + Word <= Word * 0
    BY <1>2, WordFacts, ProductGrows
  <2> QED BY <1>2, <2>1, WordFacts
<1> QED BY <1>2, <1>3, WordFacts DEF c, r, Low, Carry

LEMMA JoinWord ==
    ASSUME NEW c \in Nat, NEW r \in 0 .. Ones
    PROVE  Low(Word * c + r) = r /\ Carry(Word * c + r) = c
BY WordFacts, DivisionUnique DEF Low, Carry

\* A word is its own low part.
LEMMA SmallWord ==
    ASSUME NEW r \in 0 .. Ones
    PROVE  Low(r) = r /\ Carry(r) = 0
<1>1. Word * 0 + r = r
  BY WordFacts
<1> QED BY <1>1, JoinWord

\* One carry.
LEMMA OneCarry ==
    ASSUME NEW r \in 0 .. Ones
    PROVE  Low(Word + r) = r /\ Carry(Word + r) = 1
<1>1. Word * 1 + r = Word + r
  BY WordFacts
<1> QED BY <1>1, JoinWord

-----------------------------------------------------------------------------
(* What the hardware sends                                                  *)

\* For any payload whose datagram sums to t and any header sum k whose carry is
\* below a word: the adjusted sum makes the deparser's single fold come out as
\* the complement of t, or as 0, and 0 instead of another checksum only if t is
\* within the carry of the header sum.
THEOREM HardwareChecksum ==
    ASSUME NEW t \in 1 .. Ones, NEW k \in Nat, Carry(k) < 16
    PROVE  \/ udp_csum_hw(t, k) = Ones - t
           \/ udp_csum_hw(t, k) = 0 /\ t <= Carry(k)
<1> DEFINE h == Carry(k)
           l == Low(k)
           P == Word * h
           x == Adjusted(t, k) + k
<1>1. h \in Nat /\ l \in 0 .. Ones /\ k = P + l /\ h < 16
  BY SplitWord
<1>2. P \in Nat /\ Word * (h + 1) = P + Word
  BY <1>1, WordFacts
<1>3. udp_csum_hw(t, k) = Ones - Low(Fold(x))
  BY DEF udp_csum_hw
<1>4. ASSUME NEW c \in Nat, NEW r \in 0 .. Ones, x = Word * c + r PROVE Fold(x) = r + c
  BY <1>4, JoinWord DEF Fold
<1>a. Adjusted(t, k) = IF t >= l + h THEN t - (l + h)
                       ELSE IF t >= h + 1 THEN t + Ones - (l + h)
                       ELSE IF t < h /\ l + h <= Word + t THEN Word + t - (l + h)
                       ELSE IF l + h <= Ones THEN Ones - (l + h)
                       ELSE 2 * Ones - (l + h)
  BY DEF Adjusted
<1> HIDE DEF h, l, P
<1>5. CASE t >= l + h
  <2>1. x = P + (t - h) /\ t - h \in 0 .. Ones
    BY <1>1, <1>2, <1>5, <1>a, WordFacts
  <2>2. Fold(x) = t
    BY <1>1, <1>4, <2>1 DEF P
  <2> QED BY <1>3, <2>2, SmallWord, WordFacts
<1>6. CASE t < l + h /\ t >= h + 1
  <2>1. x = P + Word + (t - 1 - h) /\ t - 1 - h \in 0 .. Ones
    BY <1>1, <1>2, <1>6, <1>a, WordFacts
  <2>2. Fold(x) = t
    BY <1>1, <1>2, <1>4, <2>1
  <2> QED BY <1>3, <2>2, SmallWord, WordFacts
<1>7. CASE t < h /\ l + h <= Word + t /\ t < l + h
  <2>1. x = P + (Word + t - h) /\ Word + t - h \in 0 .. Ones
    BY <1>1, <1>2, <1>7, <1>a, WordFacts
  <2>2. Fold(x) = Word + t
    BY <1>1, <1>4, <2>1, WordFacts DEF P
  <2> QED BY <1>3, <2>2, OneCarry, WordFacts
<1>8. CASE t < h + 1 /\ t < l + h /\ ~(t < h /\ l + h <= Word + t)
  <2>1. t <= h
    BY <1>1, <1>8
  <2>2. Fold(x) = Ones
    <3>1. CASE l + h <= Ones
      <4>1. x = P + (Ones - h) /\ Ones - h \in 0 .. Ones
        BY <1>1, <1>2, <1>8, <1>a, <3>1, WordFacts
      <4>2. Fold(x) = (Ones - h) + h
        BY <1>1, <1>4, <4>1 DEF P
      <4> QED BY <1>1, <4>2, WordFacts
    <3>2. CASE l + h > Ones
      <4>1. x = P + Word + (Ones - 1 - h) /\ Ones - 1 - h \in 0 .. Ones
        BY <1>1, <1>2, <1>8, <1>a, <3>2, WordFacts
      <4>2. h + 1 \in Nat /\ x = Word * (h + 1) + (Ones - 1 - h)
        BY <1>1, <1>2, <4>1
      <4>3. Fold(x) = (Ones - 1 - h) + (h + 1)
        BY <1>4, <4>1, <4>2
      <4> QED BY <1>1, <4>3, WordFacts
    <3> QED BY <1>1, <3>1, <3>2, WordFacts
  <2> QED BY <1>3, <2>1, <2>2, SmallWord, WordFacts DEF h
<1> QED BY <1>1, <1>5, <1>6, <1>7, <1>8, WordFacts

-----------------------------------------------------------------------------
(* The loop keeps a sum modulo Ones                                         *)

\* Taking whole cycles of Ones away changes no remainder.
LEMMA SameRemainder ==
    ASSUME NEW n \in Nat \ {0}, NEW y \in Int, NEW c \in Int
    PROVE  (y + n * c) % n = y % n
<1>1. PICK q \in Int, r \in 0 .. n - 1 : y = n * q + r /\ r = y % n
  BY Division
<1>2. n * (q + c) = n * q + n * c
  OBVIOUS
<1>3. y + n * c = n * (q + c) + r
  BY <1>1, <1>2
<1>4. (n * (q + c) + r) % n = r
  BY DivisionUnique
<1> QED BY <1>1, <1>3, <1>4

LEMMA FoldKeeps ==
    ASSUME NEW v \in Nat \ {0}
    PROVE  Fold(v) \in Nat \ {0} /\ (Fold(v) - 1) % Ones = (v - 1) % Ones
<1> DEFINE c == Carry(v)
           r == Low(v)
<1>1. r \in 0 .. Ones /\ c \in Nat /\ v = Word * c + r /\ Fold(v) = r + c
  BY SplitWord DEF Fold
<1> HIDE DEF c, r
<1>2. Word * c = Ones * c + c
  <2>1. Word = Ones + 1
    BY WordFacts
  <2>2. (Ones + 1) * c = Ones * c + c
    BY <1>1, WordFacts
  <2> QED BY <2>1, <2>2
<1>3. Ones * c \in Int
  BY <1>1, WordFacts
<1>4. v - 1 = (Fold(v) - 1) + Ones * c
  BY <1>1, <1>2, <1>3, WordFacts
<1>5. Fold(v) \in Nat \ {0}
  <2>1. ASSUME r + c = 0 PROVE FALSE
    <3>1. r = 0 /\ c = 0
      BY <1>1, <2>1
    <3> QED BY <1>1, <3>1, WordFacts
  <2> QED BY <1>1, <2>1
<1>6. ((Fold(v) - 1) + Ones * c) % Ones = (Fold(v) - 1) % Ones
  <2> DEFINE y == Fold(v) - 1
  <2>1. y \in Int /\ c \in Int /\ Ones \in Nat \ {0}
    BY <1>1, <1>5, WordFacts
  <2> HIDE DEF y
  <2>2. (y + Ones * c) % Ones = y % Ones
    BY <2>1, SameRemainder
  <2> QED BY <2>2 DEF y
<1> QED BY <1>4, <1>5, <1>6

\* A sum that fits a word is the remainder the complement is taken of.
LEMMA FoldedIsRight ==
    ASSUME NEW v \in 1 .. Ones, NEW s \in Nat, (v - 1) % Ones = (s - 1) % Ones
    PROVE  RightChecksum(s) = Ones - v
<1> DEFINE r == v - 1
<1>1. r \in 0 .. Ones - 1 /\ Ones \in Nat \ {0}
  BY WordFacts
<1> HIDE DEF r
<1>2. (Ones * 0 + r) % Ones = r
  BY <1>1, DivisionUnique
<1>3. Ones * 0 + r = r
  BY <1>1
<1>4. r % Ones = v - 1
  BY <1>2, <1>3 DEF r
<1>5. (s - 1) % Ones = v - 1
  BY <1>4 DEF r
<1> QED BY <1>5, WordFacts DEF RightChecksum

-----------------------------------------------------------------------------
(* Every computation of a checksum                                          *)

\* The number in the loop is that of the payload and header sum modulo Ones, and
\* it is below a word when the loop ends.
SumOK ==
    /\ sum \in [at : {"idle", "fold", "folded"}, v : Nat, payload : Nat, k : Nat]
    /\ sum.at # "idle" =>
          /\ sum.v # 0 /\ Carry(sum.k) < 16
          /\ (sum.v - 1) % Ones = (sum.payload + sum.k - 1) % Ones
    /\ sum.at = "folded" => Carry(sum.v) = 0

LEMMA SumBegins == Init => SumOK
<1> SUFFICES ASSUME sum \in StartSums \cup {NoSum} PROVE SumOK
  BY DEF Init
<1>1. CASE sum = NoSum
  BY <1>1 DEF NoSum, SumOK
<1>2. CASE sum \in StartSums
  <2>1. PICK p \in 0 .. Ones, k \in HeaderSums :
            sum = [at |-> "fold", v |-> p + k, payload |-> p, k |-> k]
    BY <1>2 DEF StartSums
  <2>2. p \in Nat /\ k \in Nat \ {0} /\ k < 8 * Word
    BY WordFacts, HeaderSumsAssumption DEF HeaderSumsAssumption
  <2>3. Carry(k) < 16
    <3> SUFFICES ASSUME ~(Carry(k) < 16) PROVE FALSE
      OBVIOUS
    <3> DEFINE c == Carry(k)
    <3>1. c \in Nat /\ k >= Word * c
      BY <2>2, SplitWord, WordFacts
    <3>2. c \in Int /\ 15 < c
      BY <3>1
    <3> HIDE DEF c
    <3>3. Word * 15 + Word <= Word * c
      BY <3>2, ProductGrows, WordFacts
    <3> QED BY <2>2, <3>1, <3>3, WordFacts
  <2> QED BY <2>1, <2>2, <2>3 DEF SumOK
<1> QED BY <1>1, <1>2

LEMMA SumKept == SumOK /\ [Next]_hvars => SumOK'
<1> SUFFICES ASSUME SumOK, fold_full PROVE SumOK'
  BY DEF Next, SumNext, SumOK, hvars
<1>1. CASE sum.at = "fold" /\ sum' = [sum EXCEPT !.v = Fold(@)]
  <2>1. sum.v \in Nat \ {0}
    BY <1>1 DEF SumOK
  <2>2. Fold(sum.v) \in Nat \ {0} /\ (Fold(sum.v) - 1) % Ones = (sum.v - 1) % Ones
    BY <2>1, FoldKeeps
  <2> QED BY <1>1, <2>2 DEF SumOK
<1>2. CASE sum.at = "fold" /\ Carry(sum.v) = 0 /\ sum' = [sum EXCEPT !.at = "folded"]
  BY <1>2 DEF SumOK
<1> QED BY <1>1, <1>2 DEF fold_full

LEMMA SumIsRight == SumOK => ChecksumRight
<1> SUFFICES ASSUME SumOK, sum.at = "folded"
             PROVE  \/ udp_csum_hw(sum.v, sum.k) = RightChecksum(sum.payload + sum.k)
                    \/ udp_csum_hw(sum.v, sum.k) = 0 /\ sum.v <= Carry(sum.k)
  BY DEF ChecksumRight
<1>1. /\ sum.v \in Nat \ {0} /\ sum.k \in Nat /\ sum.payload \in Nat
      /\ Carry(sum.v) = 0 /\ Carry(sum.k) < 16
      /\ (sum.v - 1) % Ones = (sum.payload + sum.k - 1) % Ones
  BY DEF SumOK
<1>2. sum.v \in 1 .. Ones
  <2>1. Low(sum.v) \in 0 .. Ones /\ sum.v = Word * 0 + Low(sum.v)
    BY <1>1, SplitWord
  <2> QED BY <1>1, <2>1, WordFacts
<1>3. RightChecksum(sum.payload + sum.k) = Ones - sum.v
  BY <1>1, <1>2, FoldedIsRight
<1> QED BY <1>1, <1>2, <1>3, HardwareChecksum

\* gen_vectors.py's model of the hardware's UDP checksum agrees with the right
\* checksum of every datagram, or is 0 in the corner, for words of any width and
\* every payload and header sum.
THEOREM ChecksumsRight == Spec => []ChecksumRight
<1>1. Init => SumOK
  BY SumBegins
<1>2. SumOK /\ [Next]_hvars => SumOK'
  BY SumKept
<1>3. SumOK => ChecksumRight
  BY SumIsRight
<1> QED BY <1>1, <1>2, <1>3, PTL DEF Spec

-----------------------------------------------------------------------------
(* The payloads of the corner                                               *)

\* The word fold_corner_payloads appends brings any prefix to the folded sum it
\* aims at, in one turn of the loop.
THEOREM CornerPayloadHits ==
    ASSUME NEW ps \in 0 .. Ones, NEW t \in 1 .. Ones
    PROVE  CornerWord(t, ps) \in 1 .. Ones /\ Fold(ps + CornerWord(t, ps)) = t
<1> DEFINE m == (t - ps) % Ones
<1>1. CASE t > ps /\ t - ps < Ones
  <2>1. Ones * 0 + (t - ps) = t - ps /\ t - ps \in 0 .. Ones - 1
    BY <1>1, WordFacts
  <2>2. m = t - ps
    BY <2>1, DivisionUnique, WordFacts
  <2>3. CornerWord(t, ps) = t - ps /\ ps + (t - ps) = t
    BY <1>1, <2>2 DEF CornerWord
  <2> QED BY <1>1, <2>3, SmallWord, WordFacts DEF Fold
<1>2. CASE t = ps
  <2>1. Ones * 0 + 0 = t - ps
    BY <1>2, WordFacts
  <2>2. m = 0
    BY <2>1, DivisionUnique, WordFacts
  <2>3. CornerWord(t, ps) = Ones /\ ps + Ones = Word + (t - 1)
    BY <1>2, <2>2, WordFacts DEF CornerWord
  <2>4. Fold(Word + (t - 1)) = (t - 1) + 1
    BY OneCarry, WordFacts DEF Fold
  <2> QED BY <2>3, <2>4, WordFacts
<1>3. CASE t = Ones /\ ps = 0
  <2>1. Ones * 1 + 0 = t - ps
    BY <1>3, WordFacts
  <2>2. m = 0
    BY <2>1, DivisionUnique, WordFacts
  <2>3. CornerWord(t, ps) = Ones /\ ps + Ones = t
    BY <1>3, <2>2, WordFacts DEF CornerWord
  <2> QED BY <2>3, SmallWord, WordFacts DEF Fold
<1>4. CASE t < ps
  <2>1. Ones * (-1) + (t - ps + Ones) = t - ps /\ t - ps + Ones \in 1 .. Ones - 1
    BY <1>4, WordFacts
  <2>2. m = t - ps + Ones
    BY <2>1, DivisionUnique, WordFacts
  <2>3. CornerWord(t, ps) = t - ps + Ones /\ ps + (t - ps + Ones) = Word + (t - 1)
    BY <2>1, <2>2, WordFacts DEF CornerWord
  <2>4. Fold(Word + (t - 1)) = (t - 1) + 1
    BY OneCarry, WordFacts DEF Fold
  <2> QED BY <2>1, <2>3, <2>4, WordFacts
<1> QED BY <1>1, <1>2, <1>3, <1>4, WordFacts

-----------------------------------------------------------------------------
(* The application scripts                                                  *)

\* A step of the tools is one of the application scripts, or leaves them alone.
LEMMA VitisOrNot == [Next]_hvars => VitisNext \/ UNCHANGED vit
BY DEF Next, hvars

-----------------------------------------------------------------------------
(* The repository of drivers                                                *)

LEMMA DomainOfRepository ==
    ASSUME NEW arch
    PROVE  /\ DOMAIN Patched(arch) = Patches \cup ArchOverlay(arch)
           /\ DOMAIN setup_embeddedsw(arch) =
                 DOMAIN Patched(arch) \cup {f \in Install : Dir(f) \in local_dirs(Patched(arch))}
<1>1. DOMAIN Patched(arch) = Patches \cup ArchOverlay(arch)
  BY DEF Patched
<1> DEFINE esw == Patched(arch)
           new == {f \in Install : Dir(f) \in local_dirs(esw)} \ DOMAIN esw
<1>2. DOMAIN setup_embeddedsw(arch) = DOMAIN esw \cup new
  BY DEF setup_embeddedsw, FilledIn
<1> QED BY <1>1, <1>2

\* What the three steps put together is whole: the filling adds what is missing
\* beside the patches and replaces none of them.
LEMMA RepositoryWhole ==
    ASSUME NEW arch
    PROVE  Whole(setup_embeddedsw(arch), arch)
<1> DEFINE esw == Patched(arch)
           L == local_dirs(esw)
           done == setup_embeddedsw(arch)
           new == {f \in Install : Dir(f) \in L} \ DOMAIN esw
<1>1. DOMAIN esw = Patches \cup ArchOverlay(arch) /\ DOMAIN done = DOMAIN esw \cup new
  BY DomainOfRepository
<1>2. \A f \in DOMAIN done :
          done[f] = IF f \in ArchOverlay(arch) THEN arch
                    ELSE IF f \in Patches THEN "repo" ELSE "install"
  <2> SUFFICES ASSUME NEW f \in DOMAIN done
               PROVE  done[f] = IF f \in ArchOverlay(arch) THEN arch
                                ELSE IF f \in Patches THEN "repo" ELSE "install"
    OBVIOUS
  <2>1. done[f] = IF f \in new THEN "install" ELSE esw[f]
    BY <1>1 DEF setup_embeddedsw, FilledIn
  <2>2. f \in DOMAIN esw => esw[f] = IF f \in ArchOverlay(arch) THEN arch ELSE "repo"
    BY DEF Patched
  <2> QED BY <1>1, <2>1, <2>2
<1>3. \A d : d \in L <=> \/ d \in DirsOf(DOMAIN esw) /\ d[2] \in Filled
                         \/ /\ d \in DirsOf(Install) /\ d[2] \in Filled
                            /\ \E h \in DOMAIN esw : Component(h) = d[1]
  BY DEF local_dirs
<1> HIDE DEF esw, L, done
<1>4. ASSUME NEW f \in Install, f[2] \in Filled, NEW g \in DOMAIN done, Component(g) = Component(f)
      PROVE  f \in DOMAIN done
  <2>1. Dir(f)[1] = Component(f) /\ Dir(f)[2] = f[2] /\ Dir(f) \in DirsOf(Install)
    BY DEF Dir, Component, DirsOf
  <2>2. \E h \in DOMAIN esw : Component(h) = Component(f)
    <3>1. CASE g \in DOMAIN esw
      BY <1>4, <3>1
    <3>2. CASE g \in new
      <4>1. Dir(g) \in L /\ Dir(g)[1] = Component(g)
        BY <3>2 DEF Dir, Component
      <4>2. CASE Dir(g) \in DirsOf(DOMAIN esw)
        <5>1. PICK h \in DOMAIN esw : Dir(g) = Dir(h)
          BY <4>2 DEF DirsOf
        <5>2. Component(h) = Component(g)
          BY <5>1 DEF Dir, Component
        <5> QED BY <1>4, <5>2
      <4>3. CASE \E h \in DOMAIN esw : Component(h) = Dir(g)[1]
        BY <1>4, <4>1, <4>3
      <4> QED BY <1>3, <4>1, <4>2, <4>3
    <3> QED BY <1>1, <3>1, <3>2
  <2>3. Dir(f) \in L
    BY <1>3, <1>4, <2>1, <2>2
  <2> QED BY <1>1, <2>3
<1> QED BY <1>1, <1>2, <1>4 DEF Whole, done

\* From the set-up of the workspace to the ELF the repository is the one set up
\* for the architecture that was found.
RepositoryKept ==
    vit.at \in {"dtsi", "platform", "app", "link before", "sizes", "link after", "build", "built"}
        => vit.esw = setup_embeddedsw(vit.arch)

VitRecord == vit = [at |-> vit.at, cfg |-> vit.cfg, arch |-> vit.arch, cpu |-> vit.cpu,
                    esw |-> vit.esw, domain |-> vit.domain, ld |-> vit.ld, app |-> vit.app,
                    boot |-> vit.boot]

LEMMA AppsBegin == Init => VitRecord /\ vit.at \in {"idle", "rest"}
<1> SUFFICES ASSUME vit \in StartApps \cup {NoApp} PROVE VitRecord /\ vit.at \in {"idle", "rest"}
  BY DEF Init
<1>1. CASE vit = NoApp
  BY <1>1 DEF NoApp, VitRecord
<1>2. CASE vit \in StartApps
  <2>1. PICK c \in Configs : vit = [NoApp EXCEPT !.at = "rest", !.cfg = c]
    BY <1>2 DEF StartApps
  <2>2. vit = [at |-> "rest", cfg |-> c, arch |-> "none", cpu |-> "none", esw |-> <<>>,
               domain |-> "none", ld |-> <<>>, app |-> 0, boot |-> NoBoot]
    BY <2>1 DEF NoApp
  <2> QED BY <2>2 DEF VitRecord
<1> QED BY <1>1, <1>2

LEMMA RepositoryStays == VitRecord /\ RepositoryKept /\ [Next]_hvars => VitRecord' /\ RepositoryKept'
<1> SUFFICES ASSUME VitRecord, RepositoryKept, VitisNext PROVE VitRecord' /\ RepositoryKept'
  BY VitisOrNot DEF VitRecord, RepositoryKept
<1>1. CASE detect_arch_and_cpu_from_xsa
  BY <1>1 DEF detect_arch_and_cpu_from_xsa, VitRecord, RepositoryKept, Dies
<1>2. CASE setup_workspace
  BY <1>2 DEF setup_workspace, VitRecord, RepositoryKept
<1>3. CASE resolve_user_dtsi
  BY <1>3 DEF resolve_user_dtsi, VitRecord, RepositoryKept, Dies
<1>4. CASE create_platform
  BY <1>4 DEF create_platform, VitRecord, RepositoryKept, Dies
<1>5. CASE create_app
  BY <1>5 DEF create_app, VitRecord, RepositoryKept
<1>6. CASE link_before
  BY <1>6 DEF link_before, VitRecord, RepositoryKept
<1>7. CASE set_sizes
  BY <1>7 DEF set_sizes, VitRecord, RepositoryKept
<1>8. CASE link_after
  BY <1>8 DEF link_after, VitRecord, RepositoryKept
<1>9. CASE build_app
  BY <1>9 DEF build_app, VitRecord, RepositoryKept, Dies
<1>10. CASE workspace_removed
  BY <1>10 DEF workspace_removed, VitRecord, RepositoryKept
<1>11. CASE make_boot
  BY <1>11 DEF make_boot, make_mb_bit, run_bootgen, VitRecord, RepositoryKept
<1> QED BY <1>1, <1>2, <1>3, <1>4, <1>5, <1>6, <1>7, <1>8, <1>9, <1>10, <1>11 DEF VitisNext

\* An application is built with the drivers of its architecture, patched files and
\* all, for any patches, overlays and installation.
THEOREM DriversAreWhole == Spec => []DriversWhole
<1>1. Init => VitRecord /\ RepositoryKept
  BY AppsBegin DEF RepositoryKept
<1>2. VitRecord /\ RepositoryKept /\ [Next]_hvars => VitRecord' /\ RepositoryKept'
  BY RepositoryStays
<1>3. RepositoryKept => DriversWhole
  BY RepositoryWhole DEF RepositoryKept, DriversWhole
<1> QED BY <1>1, <1>2, <1>3, PTL DEF Spec

-----------------------------------------------------------------------------
(* The boot file                                                            *)

LEMMA BootBegins == Init => VitRecord /\ BootIsNew
BY AppsBegin DEF BootIsNew

LEMMA BootStays == VitRecord /\ BootIsNew /\ [Next]_hvars => BootIsNew'
<1> SUFFICES ASSUME VitRecord, VitisNext PROVE BootIsNew'
  BY VitisOrNot DEF BootIsNew
<1>1. ASSUME NEW core PROVE Image(core).elf = vit.app
  BY DEF Image
<1>2. CASE make_boot
  <2>1. PICK core : make_mb_bit(core) \/ \E arch : run_bootgen(arch, core)
    BY <1>2 DEF make_boot
  <2>2. CASE make_mb_bit(core)
    <3>1. ASSUME vit' = [vit EXCEPT !.at = "boot failed"] PROVE BootIsNew'
      BY <3>1 DEF VitRecord, BootIsNew
    <3>2. ASSUME vit' = [vit EXCEPT !.boot = Image(core), !.at = "booted"] PROVE BootIsNew'
      BY <1>1, <3>2 DEF VitRecord, BootIsNew
    <3>3. ASSUME NEW o \in Outcomes, NEW out, out = IF o.wrote THEN Image(core) ELSE NoBoot,
                 vit' = [vit EXCEPT !.boot = out,
                                    !.at = IF o.rc # 0 \/ o.error \/ out = NoBoot
                                           THEN "boot failed" ELSE "booted"]
          PROVE  BootIsNew'
      <4>1. vit'.boot = out /\ vit'.app = vit.app
        BY <3>3 DEF VitRecord
      <4>2. vit'.at = "booted" => out = Image(core)
        BY <3>3 DEF VitRecord
      <4> QED BY <1>1, <4>1, <4>2 DEF BootIsNew
    <3> QED BY <2>2, <3>1, <3>2, <3>3 DEF make_mb_bit
  <2>3. CASE \E arch : run_bootgen(arch, core)
    BY <1>1, <2>3 DEF run_bootgen, VitRecord, BootIsNew
  <2> QED BY <2>1, <2>2, <2>3
<1>3. CASE ~make_boot
  BY <1>3 DEF VitisNext, detect_arch_and_cpu_from_xsa, setup_workspace, resolve_user_dtsi,
     create_platform, create_app, link_before, set_sizes, link_after, build_app,
     workspace_removed, Dies, VitRecord, BootIsNew
<1> QED BY <1>2, <1>3

\* A boot file that make-boot.py reports holds the application built last, whatever
\* the tools wrote, said and returned, for any hardware image.
THEOREM BootsAreNew == Spec => []BootIsNew
<1>1. Init => VitRecord /\ BootIsNew
  BY BootBegins
<1>2. VitRecord /\ RepositoryKept /\ BootIsNew /\ [Next]_hvars
        => VitRecord' /\ RepositoryKept' /\ BootIsNew'
  BY RepositoryStays, BootStays
<1>3. Init => RepositoryKept
  BY AppsBegin DEF RepositoryKept
<1> QED BY <1>1, <1>2, <1>3, PTL DEF Spec

-----------------------------------------------------------------------------
(* The listener                                                             *)

LEMMA LeastNumber ==
    ASSUME NEW T, T \subseteq Nat, T # {}
    PROVE  \E x \in T : \A y \in T : x <= y
<1> DEFINE R == OpToRel(<, Nat)
<1>1. IsWellFoundedOn(R, Nat)
  BY NatLessThanWellFounded
<1>2. \A x, y \in Nat : y < x => <<y, x>> \in R
  BY DEF OpToRel
<1> HIDE DEF R
<1>3. PICK x \in T : \A y \in T : ~ (<<y, x>> \in R)
  BY <1>1, WFMin
<1>4. \A y \in T : ~(y < x)
  BY <1>2, <1>3
<1> QED BY <1>3, <1>4

\* Induction, said of a set.
LEMMA SetInduction ==
    ASSUME NEW S, 0 \in S, \A n \in Nat : n \in S => n + 1 \in S
    PROVE  Nat \subseteq S
<1> DEFINE T == Nat \ S
<1>1. ASSUME T # {} PROVE FALSE
  <2>1. PICK x \in T : \A y \in T : x <= y
    BY <1>1, LeastNumber
  <2>2. x # 0 /\ x - 1 \in Nat /\ x - 1 \notin T
    BY <2>1
  <2> QED BY <2>1, <2>2
<1> QED BY <1>1

Datagrams == [seq : 0 .. SendCount, pattern : 0 .. SendCount + 1, size : 0 .. 3]

PrbsRecord == prbs = [at |-> prbs.at, next |-> prbs.next, bare |-> prbs.bare, wire |-> prbs.wire,
                      pkts |-> prbs.pkts, faults |-> prbs.faults, verdict |-> prbs.verdict]

\* What cmd_listen found good.
Passed ==
    /\ Len(prbs.pkts) = ListenCount
    /\ \A i \in DOMAIN prbs.pkts : ~Bad(prbs.pkts[i])
    /\ in_order(prbs.pkts)

\* Nothing but datagrams is on the wire and in the list, and the verdict is on the
\* list as it is.
Listening ==
    /\ PrbsRecord
    /\ prbs.next \in 0 .. SendCount
    /\ BagToSet(prbs.wire) \subseteq Datagrams
    /\ prbs.pkts \in Seq(Datagrams)
    /\ prbs.verdict = "PASS" => prbs.at = "done" /\ Passed

LEMMA ListeningBegins == Init => Listening
<1> SUFFICES ASSUME prbs \in StartPrbs \cup {NoPrbs} PROVE Listening
  BY DEF Init
<1>1. PICK a, b : prbs = [at |-> a, next |-> 0, bare |-> b, wire |-> EmptyBag, pkts |-> <<>>,
                          faults |-> 0, verdict |-> "none"]
  BY DEF StartPrbs, NoPrbs
<1>2. BagToSet(EmptyBag) = {}
  BY DEF BagToSet, EmptyBag, SetToBag
<1> QED BY <1>1, <1>2, PrbsAssumption DEF Listening, PrbsRecord

\* One datagram taken off the wire and others put on it.
LEMMA WireKept ==
    ASSUME NEW w, NEW d, NEW new, BagToSet(w) \subseteq Datagrams, BagToSet(new) \subseteq Datagrams
    PROVE  BagToSet((w (-) SetToBag({d})) (+) new) \subseteq Datagrams
BY DEF BagToSet, (-), (+)

LEMMA OneOnWire == ASSUME NEW d \in Datagrams PROVE BagToSet(SetToBag({d})) \subseteq Datagrams
BY DEF BagToSet, SetToBag

LEMMA NothingOnWire == BagToSet(EmptyBag) \subseteq Datagrams
BY DEF BagToSet, EmptyBag, SetToBag

LEMMA ListeningKept == Listening /\ [Next]_hvars => Listening'
<1> SUFFICES ASSUME Listening, PrbsNext PROVE Listening'
  <2>1. [Next]_hvars => PrbsNext \/ UNCHANGED prbs
    BY DEF Next, hvars
  <2>2. Listening /\ UNCHANGED prbs => Listening'
    BY DEF Listening, PrbsRecord, Passed, Bad
  <2> QED BY <2>1, <2>2
<1> USE PrbsAssumption
<1>1. CASE cmd_send
  <2>1. Datagram(prbs.next) \in Datagrams
    BY <1>1 DEF cmd_send, Datagram, Datagrams, Listening
  <2>2. BagToSet(prbs.wire (+) SetToBag({Datagram(prbs.next)})) \subseteq Datagrams
    BY <2>1 DEF Listening, BagToSet, (+), SetToBag
  <2>3. prbs.verdict # "PASS"
    BY <1>1 DEF cmd_send, Listening
  <2>4. prbs' = [at |-> prbs.at, next |-> prbs.next + 1, bare |-> prbs.bare,
                 wire |-> prbs.wire (+) SetToBag({Datagram(prbs.next)}),
                 pkts |-> prbs.pkts, faults |-> prbs.faults, verdict |-> prbs.verdict]
    BY <1>1 DEF cmd_send, Listening, PrbsRecord
  <2>5. prbs.next + 1 \in 0 .. SendCount
    BY <1>1 DEF cmd_send, Listening
  <2> QED BY <2>2, <2>3, <2>4, <2>5 DEF Listening, PrbsRecord
<1>2. CASE Network
  <2>1. PICK d \in BagToSet(prbs.wire) :
          \E new \in {EmptyBag, SetToBag({d}) (+) SetToBag({d})}
                     \cup {SetToBag({x}) : x \in Damaged(d) \ {d}} :
              prbs' = [prbs EXCEPT !.wire = Swap(d, new), !.faults = @ + 1]
    BY <1>2 DEF Network
  <2>2. PICK new \in {EmptyBag, SetToBag({d}) (+) SetToBag({d})}
                     \cup {SetToBag({x}) : x \in Damaged(d) \ {d}} :
              prbs' = [prbs EXCEPT !.wire = Swap(d, new), !.faults = @ + 1]
    BY <2>1
  <2>3. d \in Datagrams
    BY <2>1 DEF Listening
  <2>4. Damaged(d) \subseteq Datagrams
    <3>1. ASSUME NEW n \in 0 .. d.size - 1 PROVE [d EXCEPT !.size = n] \in Datagrams
      BY <2>3 DEF Datagrams
    <3>2. ASSUME NEW s \in 0 .. SendCount PROVE [d EXCEPT !.seq = s] \in Datagrams
      BY <2>3 DEF Datagrams
    <3>3. [d EXCEPT !.pattern = SendCount + 1] \in Datagrams
      BY <2>3 DEF Datagrams
    <3> QED BY <3>1, <3>2, <3>3 DEF Damaged
  <2>5. BagToSet(new) \subseteq Datagrams
    <3>1. CASE new = EmptyBag
      BY <3>1, NothingOnWire
    <3>2. CASE new = SetToBag({d}) (+) SetToBag({d})
      BY <2>3, <3>2 DEF BagToSet, SetToBag, (+)
    <3>3. CASE \E x \in Damaged(d) : new = SetToBag({x})
      BY <2>4, <3>3, OneOnWire
    <3> QED BY <2>2, <3>1, <3>2, <3>3
  <2>6. BagToSet(Swap(d, new)) \subseteq Datagrams
    BY <2>5, WireKept DEF Swap, Listening
  <2>7. prbs' = [at |-> prbs.at, next |-> prbs.next, bare |-> prbs.bare, wire |-> Swap(d, new),
                 pkts |-> prbs.pkts, faults |-> prbs.faults + 1, verdict |-> prbs.verdict]
    BY <2>2 DEF Listening, PrbsRecord
  <2>8. prbs.verdict # "PASS"
    BY <1>2 DEF Network, Listening
  <2> QED BY <2>6, <2>7, <2>8 DEF Listening, PrbsRecord
<1>3. CASE recvfrom
  <2>1. PICK d \in BagToSet(prbs.wire) : \E f :
           prbs' = [prbs EXCEPT !.wire = Swap(d, EmptyBag), !.pkts = Append(@, d), !.faults = f]
    BY <1>3 DEF recvfrom
  <2>2. PICK f :
           prbs' = [prbs EXCEPT !.wire = Swap(d, EmptyBag), !.pkts = Append(@, d), !.faults = f]
    BY <2>1
  <2>3. prbs' = [at |-> prbs.at, next |-> prbs.next, bare |-> prbs.bare, wire |-> Swap(d, EmptyBag),
                 pkts |-> Append(prbs.pkts, d), faults |-> f, verdict |-> prbs.verdict]
    BY <2>2 DEF Listening, PrbsRecord
  <2>4. BagToSet(Swap(d, EmptyBag)) \subseteq Datagrams
    BY WireKept, NothingOnWire DEF Swap, Listening
  <2>5. Append(prbs.pkts, d) \in Seq(Datagrams)
    BY <2>1 DEF Listening
  <2>6. prbs.verdict # "PASS"
    BY <1>3 DEF recvfrom, Listening
  <2> QED BY <2>3, <2>4, <2>5, <2>6 DEF Listening, PrbsRecord
<1>4. CASE cmd_listen
  <2>1. PICK v \in {"PASS", "FAIL"} : /\ prbs' = [prbs EXCEPT !.at = "done", !.verdict = v]
                                      /\ v = "PASS" => Passed
    BY <1>4 DEF cmd_listen, Passed
  <2>2. prbs' = [at |-> "done", next |-> prbs.next, bare |-> prbs.bare, wire |-> prbs.wire,
                 pkts |-> prbs.pkts, faults |-> prbs.faults, verdict |-> v]
    BY <2>1 DEF Listening, PrbsRecord
  <2>3. v = "PASS" => Passed'
    <3>1. prbs'.pkts = prbs.pkts /\ prbs'.bare = prbs.bare
      BY <2>2
    <3> QED BY <2>1, <3>1 DEF Passed, Bad
  <2> QED BY <2>2, <2>3 DEF Listening, PrbsRecord
<1> QED BY <1>1, <1>2, <1>3, <1>4 DEF PrbsNext

\* In a list of numbered datagrams in order the numbers count up from the first.
LEMMA CountsUp ==
    ASSUME NEW ps \in Seq(Datagrams), \A i \in DOMAIN ps : ps[i].size # 0, in_order(ps)
    PROVE  \A n \in Nat : n < Len(ps) => ps[n + 1].seq = ps[1].seq + n
<1>1. \A i \in 1 .. Len(ps) : ps[i].seq \in Nat
  <2>1. \A i \in 1 .. Len(ps) : ps[i] \in Datagrams
    OBVIOUS
  <2> QED BY <2>1, PrbsAssumption DEF Datagrams
<1>2. \A n \in Nat : n + 1 < Len(ps) => ps[n + 1].seq + 1 = ps[n + 2].seq
  <2> SUFFICES ASSUME NEW n \in Nat, n + 1 < Len(ps) PROVE ps[n + 1].seq + 1 = ps[n + 2].seq
    OBVIOUS
  <2>1. seqs(ps) = 1 .. Len(ps)
    BY DEF seqs
  <2>2. n + 1 \in seqs(ps) /\ n + 2 \in seqs(ps)
    BY <2>1
  <2> DEFINE p == <<n + 1, n + 2>>
  <2>3. p \in seqs(ps) \X seqs(ps) /\ p[1] = n + 1 /\ p[2] = n + 2
    BY <2>2
  <2>4. p[1] < p[2] /\ \A k \in seqs(ps) : k <= p[1] \/ p[2] <= k
    BY <2>1, <2>3
  <2> HIDE DEF p
  <2>5. p \in Neighbours(ps)
    BY <2>3, <2>4 DEF Neighbours
  <2> QED BY <2>3, <2>5 DEF in_order
<1> DEFINE S == {n \in Nat : n < Len(ps) => ps[n + 1].seq = ps[1].seq + n}
<1>3. 0 \in S
  <2> SUFFICES ASSUME 0 < Len(ps) PROVE ps[0 + 1].seq = ps[1].seq + 0
    OBVIOUS
  <2>1. ps[1].seq \in Nat
    BY <1>1
  <2> QED BY <2>1
<1>4. \A n \in Nat : n \in S => n + 1 \in S
  <2> SUFFICES ASSUME NEW n \in Nat, n \in S, n + 1 < Len(ps)
               PROVE  ps[(n + 1) + 1].seq = ps[1].seq + (n + 1)
    OBVIOUS
  <2>1. ps[n + 1].seq = ps[1].seq + n /\ ps[n + 1].seq + 1 = ps[n + 2].seq /\ (n + 1) + 1 = n + 2
    BY <1>2
  <2>2. PICK a \in Nat : a = ps[1].seq
    BY <1>1
  <2>3. ps[n + 2].seq = a + n + 1 /\ a + n + 1 = a + (n + 1)
    <3>1. a + n + 1 = a + (n + 1)
      OBVIOUS
    <3> QED BY <2>1, <2>2, <3>1, Zenon
  <2>4. ps[(n + 1) + 1] = ps[n + 2]
    BY <2>1
  <2> QED BY <2>2, <2>3, <2>4, Zenon
<1> HIDE DEF S
<1>5. Nat \subseteq S
  BY <1>3, <1>4, SetInduction
<1> QED BY <1>5 DEF S

LEMMA PassedIsClean == Listening => PassMeansClean
<1> SUFFICES ASSUME Listening, prbs.verdict = "PASS"
             PROVE  \E s \in 0 .. SendCount :
                      \A i \in 1 .. ListenCount :
                        /\ prbs.pkts[i].size # 0 /\ prbs.pkts[i].seq = s + i - 1
                        /\ prbs.pkts[i].size >= 2 => prbs.pkts[i].pattern = s + i - 1
  BY DEF PassMeansClean
<1> DEFINE ps == prbs.pkts
<1> USE PrbsAssumption
<1>1. /\ ps \in Seq(Datagrams) /\ Len(ps) = ListenCount /\ in_order(ps)
      /\ \A i \in DOMAIN ps : ~Bad(ps[i])
  BY DEF Listening, Passed
<1> HIDE DEF ps
<1>2. \A i \in 1 .. ListenCount :
         /\ ps[i] \in Datagrams /\ ps[i].size # 0
         /\ ps[i].size >= 2 => ps[i].pattern = ps[i].seq
  BY <1>1 DEF Bad
<1>3. \A n \in Nat : n < ListenCount => ps[n + 1].seq = ps[1].seq + n
  BY <1>1, <1>2, CountsUp
<1>4. CASE ListenCount = 0
  BY <1>4
<1>5. CASE ListenCount # 0
  <2> DEFINE s == ps[1].seq
  <2>1. s \in 0 .. SendCount
    BY <1>2, <1>5 DEF Datagrams
  <2> HIDE DEF s
  <2>2. ASSUME NEW i \in 1 .. ListenCount
        PROVE  /\ ps[i].size # 0 /\ ps[i].seq = s + i - 1
               /\ ps[i].size >= 2 => ps[i].pattern = s + i - 1
    <3>1. i - 1 \in Nat /\ i - 1 < ListenCount /\ (i - 1) + 1 = i
      OBVIOUS
    <3>2. ps[i].seq = s + (i - 1)
      BY <1>3, <3>1 DEF s
    <3>3. ps[i].seq = s + i - 1
      BY <2>1, <3>2
    <3> QED BY <1>2, <3>3
  <2> QED BY <2>1, <2>2 DEF ps
<1> QED BY <1>4, <1>5

\* A PASS of the listener means what it says, for any number of datagrams sent and
\* listened for and any number of faults of the network: a run of consecutive
\* datagrams arrived as they were sent, as much of each as arrived (cmd_listen's count,
\* payload and order tests).
THEOREM PassesAreClean == Spec => []PassMeansClean
BY ListeningBegins, ListeningKept, PassedIsClean, PTL DEF Spec

-----------------------------------------------------------------------------
(* Where the application runs                                               *)

Ld == [mems : Seq(STRING), at : [Sections -> STRING]]

\* A memory that was looked for and is there.
LEMMA FirstOfIsThere ==
    ASSUME NEW ld \in Ld, NEW S, InScript(ld, S) # {}
    PROVE  FirstOf(ld, S) \in S \cap STRING
<1>1. InScript(ld, S) \subseteq Nat /\ InScript(ld, S) \subseteq DOMAIN ld.mems
  BY DEF InScript, Ld
<1>2. \E i \in InScript(ld, S) : \A j \in InScript(ld, S) : i <= j
  BY <1>1, LeastNumber
<1> DEFINE i == CHOOSE i \in InScript(ld, S) : \A j \in InScript(ld, S) : i <= j
<1>3. i \in InScript(ld, S)
  BY <1>2
<1>4. FirstOf(ld, S) = ld.mems[i]
  BY DEF FirstOf
<1> HIDE DEF i
<1>5. ld.mems[i] \in S
  BY <1>3 DEF InScript
<1>6. ld.mems[i] \in STRING
  BY <1>1, <1>3 DEF Ld
<1> QED BY <1>4, <1>5, <1>6

\* The other modifications, and the sizes, leave a script.
LEMMA ScriptKept ==
    ASSUME NEW ld \in Ld, NEW mod
    PROVE  /\ modify_linker_script(ld, mod) \in Ld
           /\ modify_linker_script(ld, mod).mems = ld.mems
<1>1. ASSUME NEW at \in [Sections -> STRING]
      PROVE  [ld EXCEPT !.at = at] \in Ld /\ [ld EXCEPT !.at = at].mems = ld.mems
  BY DEF Ld
<1> DEFINE local == InScript(ld, LocalMems) # {}
           ddr == InScript(ld, DdrMems) # {}
           split == [s \in Sections |->
                        IF s \in CODE_LOCAL_DDR_SECTIONS THEN FirstOf(ld, DdrMems)
                        ELSE FirstOf(ld, LocalMems)]
<1>2. local => FirstOf(ld, LocalMems) \in STRING
  BY FirstOfIsThere
<1>3. ddr => FirstOf(ld, DdrMems) \in STRING
  BY FirstOfIsThere
<1>4. ASSUME NEW m \in STRING PROVE Relocated(ld, m) \in Ld /\ Relocated(ld, m).mems = ld.mems
  <2>1. [s \in Sections |-> m] \in [Sections -> STRING]
    OBVIOUS
  <2> QED BY <1>1, <2>1 DEF Relocated
<1>5. local /\ ddr => split \in [Sections -> STRING]
  BY <1>2, <1>3
<1> DEFINE done == modify_linker_script(ld, mod)
<1>6. \/ done = ld
      \/ local /\ done = Relocated(ld, FirstOf(ld, LocalMems))
      \/ ddr /\ done = Relocated(ld, FirstOf(ld, DdrMems))
      \/ local /\ ddr /\ done = [ld EXCEPT !.at = split]
  BY DEF modify_linker_script
<1> HIDE DEF local, ddr, split, done
<1>7. done \in Ld /\ done.mems = ld.mems
  <2>1. CASE local /\ done = Relocated(ld, FirstOf(ld, LocalMems))
    BY <1>2, <1>4, <2>1
  <2>2. CASE ddr /\ done = Relocated(ld, FirstOf(ld, DdrMems))
    BY <1>3, <1>4, <2>2
  <2>3. CASE local /\ ddr /\ done = [ld EXCEPT !.at = split]
    BY <1>1, <1>5, <2>3
  <2> QED BY <1>6, <2>1, <2>2, <2>3
<1> QED BY <1>7 DEF done

\* The one made last puts each section where it is asked to be.
LEMMA ScriptAsAsked ==
    ASSUME NEW ld \in Ld, InScript(ld, LocalMems) # {}, InScript(ld, DdrMems) # {}, NEW s \in Sections
    PROVE  modify_linker_script(ld, "code_local_bss_ddr").at[s] \in
               IF s \in CODE_LOCAL_DDR_SECTIONS THEN DdrMems ELSE LocalMems
<1>1. FirstOf(ld, DdrMems) \in DdrMems /\ FirstOf(ld, LocalMems) \in LocalMems
  BY FirstOfIsThere
<1> DEFINE at == [t \in Sections |-> IF t \in CODE_LOCAL_DDR_SECTIONS THEN FirstOf(ld, DdrMems)
                                     ELSE FirstOf(ld, LocalMems)]
<1>2. modify_linker_script(ld, "code_local_bss_ddr") = [ld EXCEPT !.at = at]
  BY DEF modify_linker_script
<1>3. [ld EXCEPT !.at = at].at = at
  BY DEF Ld
<1> QED BY <1>1, <1>2, <1>3

-----------------------------------------------------------------------------
(* The processor                                                            *)

Xsas == Seq([inst : STRING, ip : STRING, of : AllKinds])

\* A conventional name is chosen wherever it is among the cores.
LEMMA ConventionalFirst ==
    ASSUME NEW xsa \in Xsas, NEW I, I \subseteq DOMAIN xsa,
           NEW n \in I, xsa[n].inst = "microblaze_0"
    PROVE  Preferred(xsa, I) = "microblaze_0"
<1> DEFINE rank(i) == Rank(xsa[i].inst)
           best(i) == \A j \in I : rank(i) < rank(j) \/ (rank(i) = rank(j) /\ i <= j)
           T == {i \in I : xsa[i].inst = "microblaze_0"}
<1>1. T \subseteq Nat /\ T # {}
  BY DEF Xsas
<1>2. PICK m \in T : \A j \in T : m <= j
  BY <1>1, LeastNumber
<1>3. \A i : rank(i) \in {0, 1, 2} /\ (rank(i) = 0 <=> xsa[i].inst = "microblaze_0")
  BY DEF Rank
<1>4. m \in I /\ best(m)
  BY <1>2, <1>3
<1> DEFINE c == CHOOSE i \in I : best(i)
<1>5. c \in I /\ best(c)
  BY <1>4
<1>6. Preferred(xsa, I) = xsa[c].inst
  BY DEF Preferred
<1> HIDE DEF c
<1>7. rank(c) = 0
  BY <1>2, <1>3, <1>5
<1> QED BY <1>3, <1>6, <1>7

\* Both scripts find the same processor in the designs they are made for.
LEMMA SameProcessor ==
    ASSUME NEW xsa \in Xsas, Conventional(xsa), bv_detect_arch(xsa).arch # "none"
    PROVE  mb_detect_arch(xsa).cpu = bv_detect_arch(xsa).cpu
<1> DEFINE top == Cores(xsa, {"top"})
           app == {i \in top : xsa[i].inst \notin McsNames}
           apart == Cores(xsa, {"top", "other"})
           all == Cores(xsa, AllKinds)
<1>1. top \subseteq apart /\ apart \subseteq all /\ all \subseteq DOMAIN xsa
  BY DEF Cores, modules, AllKinds
<1>2. CASE \E i \in top : xsa[i].inst = "microblaze_0"
  <2>1. PICK i \in top : xsa[i].inst = "microblaze_0"
    BY <1>2
  <2>2. i \in app
    BY <2>1, NamesAssumption
  <2>3. bv_select_app_microblaze(xsa) = "microblaze_0"
    <3>1. OrElse(app, top) = app /\ top # {}
      BY <2>1, <2>2 DEF OrElse
    <3>2. Preferred(xsa, app) = "microblaze_0"
      BY <1>1, <2>1, <2>2, ConventionalFirst
    <3> QED BY <3>1, <3>2 DEF bv_select_app_microblaze
  <2>4. mb_select_app_microblaze(xsa) = "microblaze_0"
    <3>1. OrElse(apart, all) = apart /\ all # {}
      BY <1>1, <2>1 DEF OrElse
    <3>2. Preferred(xsa, apart) = "microblaze_0"
      BY <1>1, <2>1, ConventionalFirst
    <3> QED BY <3>1, <3>2 DEF mb_select_app_microblaze
  <2>5. /\ \E k \in modules(xsa, {"top"}) : xsa[k].ip \in MicroBlazes
        /\ \E k \in modules(xsa, AllKinds) : xsa[k].ip \in MicroBlazes
    BY <1>1, <2>1 DEF Cores
  <2>6. arch_of(xsa, {"top"}) = "microblaze" /\ arch_of(xsa, AllKinds) = "microblaze"
    BY <2>5 DEF arch_of, Holds
  <2>7. bv_detect_arch(xsa).cpu = "microblaze_0" /\ mb_detect_arch(xsa).cpu = "microblaze_0"
    BY <2>3, <2>4, <2>6 DEF bv_detect_arch, mb_detect_arch
  <2> QED BY <2>7
<1>3. CASE ~ \E i \in top : xsa[i].inst = "microblaze_0"
  <2>1. /\ \A i \in modules(xsa, {"mcs", "other"}) : xsa[i].ip \notin MicroBlazes \cup HardCores
        /\ \A i \in top : xsa[i].inst \notin McsNames
        /\ Holds(xsa, AllKinds, R5Named) =>
              /\ arch_of(xsa, {"top"}) = "versal" => Holds(xsa, AllKinds, A72Named)
              /\ arch_of(xsa, {"top"}) = "zynqmp" => Holds(xsa, AllKinds, A53Named)
    BY <1>3 DEF Conventional
  <2>2. modules(xsa, AllKinds) = modules(xsa, {"top"}) \cup modules(xsa, {"mcs", "other"})
    BY DEF modules, AllKinds
  <2>3. apart = top /\ all = top /\ app = top
    BY <2>1, <2>2 DEF Cores, modules, AllKinds
  <2>4. mb_select_app_microblaze(xsa) = bv_select_app_microblaze(xsa)
    BY <2>3 DEF mb_select_app_microblaze, bv_select_app_microblaze
  <2>5. ASSUME NEW ips, ips \subseteq MicroBlazes \cup HardCores
        PROVE  (\E i \in modules(xsa, AllKinds) : xsa[i].ip \in ips)
               <=> (\E i \in modules(xsa, {"top"}) : xsa[i].ip \in ips)
    BY <2>1, <2>2, <2>5
  <2>6. \A ips \in {MicroBlazes, {"versal_cips"}, {"zynq_ultra_ps_e"}, {"processing_system7"}} :
            (\E i \in modules(xsa, AllKinds) : xsa[i].ip \in ips)
            <=> (\E i \in modules(xsa, {"top"}) : xsa[i].ip \in ips)
    <3>1. \A ips \in {MicroBlazes, {"versal_cips"}, {"zynq_ultra_ps_e"}, {"processing_system7"}} :
             ips \subseteq MicroBlazes \cup HardCores
      BY DEF HardCores
    <3> QED BY <2>5, <3>1
  <2>7. arch_of(xsa, AllKinds) = arch_of(xsa, {"top"})
    BY <2>6 DEF arch_of, Holds
  <2>8. arch_of(xsa, {"top"}) = "versal" => ps_core(xsa, A72Named, "a72") = "a72"
    BY <2>1 DEF ps_core
  <2>9. arch_of(xsa, {"top"}) = "zynqmp" => ps_core(xsa, A53Named, "a53") = "a53"
    BY <2>1 DEF ps_core
  <2> QED BY <2>4, <2>7, <2>8, <2>9 DEF mb_detect_arch, bv_detect_arch
<1> QED BY <1>2, <1>3

-----------------------------------------------------------------------------
(* From the XSA to the boot file                                            *)

Found ==
    /\ vit.at # "idle" => vit.cfg \in Configs
    /\ vit.at \notin {"idle", "rest", "failed"} =>
        LET d == bv_detect_arch(vit.cfg.xsa)
        IN d.arch # "none" /\ vit.arch = d.arch /\ vit.cpu = d.cpu

Linked ==
    /\ vit.at \in {"link before", "sizes", "link after", "build", "built"} => vit.ld \in Ld
    /\ LinkedAsAsked

PlacedInv == VitRecord /\ Found /\ Linked /\ SameCore

LEMMA PlacedBegins == Init => PlacedInv
<1> SUFFICES ASSUME Init PROVE PlacedInv
  OBVIOUS
<1>1. VitRecord /\ vit.at \in {"idle", "rest"}
  BY AppsBegin
<1>2. vit.at # "idle" => vit.cfg \in Configs
  <2>1. vit \in StartApps \cup {NoApp}
    BY DEF Init
  <2>2. CASE vit = NoApp
    BY <2>2 DEF NoApp
  <2>3. CASE vit \in StartApps
    <3>1. PICK c \in Configs : vit = [NoApp EXCEPT !.at = "rest", !.cfg = c]
      BY <2>3 DEF StartApps
    <3> QED BY <3>1 DEF NoApp
  <2> QED BY <2>1, <2>2, <2>3
<1> QED BY <1>1, <1>2 DEF PlacedInv, Found, Linked, LinkedAsAsked, SameCore

LEMMA RecordKept == VitRecord /\ VitisNext => VitRecord'
<1> SUFFICES ASSUME VitRecord, VitisNext PROVE VitRecord'
  OBVIOUS
<1>1. CASE detect_arch_and_cpu_from_xsa \/ setup_workspace \/ resolve_user_dtsi \/ create_platform
  BY <1>1 DEF detect_arch_and_cpu_from_xsa, setup_workspace, resolve_user_dtsi, create_platform,
     VitRecord, Dies
<1>2. CASE create_app \/ link_before \/ set_sizes \/ link_after
  BY <1>2 DEF create_app, link_before, set_sizes, link_after, VitRecord
<1>3. CASE build_app \/ workspace_removed \/ make_boot
  BY <1>3 DEF build_app, workspace_removed, make_boot, make_mb_bit, run_bootgen, VitRecord, Dies
<1> QED BY <1>1, <1>2, <1>3 DEF VitisNext

LEMMA FoundKept == VitRecord /\ Found /\ VitisNext => Found'
<1> SUFFICES ASSUME VitRecord, Found, VitisNext PROVE Found'
  OBVIOUS
<1>1. CASE detect_arch_and_cpu_from_xsa
  BY <1>1 DEF detect_arch_and_cpu_from_xsa, VitRecord, Found, Dies
<1>2. CASE setup_workspace
  BY <1>2 DEF setup_workspace, VitRecord, Found
<1>3. CASE resolve_user_dtsi
  BY <1>3 DEF resolve_user_dtsi, VitRecord, Found, Dies
<1>4. CASE create_platform
  BY <1>4 DEF create_platform, VitRecord, Found, Dies
<1>5. CASE create_app
  BY <1>5 DEF create_app, VitRecord, Found
<1>6. CASE link_before
  BY <1>6 DEF link_before, VitRecord, Found
<1>7. CASE set_sizes
  BY <1>7 DEF set_sizes, VitRecord, Found
<1>8. CASE link_after
  BY <1>8 DEF link_after, VitRecord, Found
<1>9. CASE build_app
  BY <1>9 DEF build_app, VitRecord, Found, Dies
<1>10. CASE workspace_removed
  BY <1>10 DEF workspace_removed, VitRecord, Found
<1>11. CASE make_boot
  BY <1>11 DEF make_boot, make_mb_bit, run_bootgen, VitRecord, Found
<1> QED BY <1>1, <1>2, <1>3, <1>4, <1>5, <1>6, <1>7, <1>8, <1>9, <1>10, <1>11 DEF VitisNext

LEMMA LinkedKept == VitRecord /\ Linked /\ VitisNext => Linked'
<1> SUFFICES ASSUME VitRecord, Linked, VitisNext PROVE Linked'
  OBVIOUS
<1>1. CASE detect_arch_and_cpu_from_xsa \/ setup_workspace \/ resolve_user_dtsi
  BY <1>1 DEF detect_arch_and_cpu_from_xsa, setup_workspace, resolve_user_dtsi, VitRecord, Linked,
     LinkedAsAsked, Dies
<1>2. CASE create_platform \/ workspace_removed
  BY <1>2 DEF create_platform, workspace_removed, VitRecord, Linked, LinkedAsAsked, Dies
<1>3. CASE create_app
  BY <1>3, VitisAssumption DEF create_app, VitRecord, Linked, LinkedAsAsked, Ld
<1>4. CASE link_before
  BY <1>4, ScriptKept DEF link_before, VitRecord, Linked, LinkedAsAsked
<1>5. CASE set_sizes
  <2> PICK S \in SUBSET sizes, mem \in Range(vit.ld.mems) :
        vit' = [vit EXCEPT !.at = "link after", !.ld = Sized(@, S, mem)]
    BY <1>5 DEF set_sizes
  <2>1. vit.ld \in Ld
    BY <1>5 DEF set_sizes, Linked
  <2>2. mem \in STRING
    BY <2>1 DEF Ld, Range
  <2>3. Sized(vit.ld, S, mem) \in Ld
    BY <2>1, <2>2 DEF Sized, Ld
  <2>4. vit'.at = "link after" /\ vit'.ld = Sized(vit.ld, S, mem)
    BY DEF VitRecord
  <2> QED BY <2>3, <2>4 DEF Linked, LinkedAsAsked
<1>6. CASE link_after
  <2>1. vit.ld \in Ld /\ vit'.cfg = vit.cfg /\ vit'.arch = vit.arch /\ vit'.at = "build"
    BY <1>6 DEF link_after, Linked, VitRecord
  <2>2. linker_mod' = linker_mod
    BY <2>1 DEF linker_mod
  <2>3. vit'.ld \in Ld
    BY <1>6, <2>1, ScriptKept DEF link_after, VitRecord
  <2>4. LinkedAsAsked'
    <3> SUFFICES ASSUME linker_mod = "code_local_bss_ddr", InScript(vit'.ld, LocalMems) # {},
                        InScript(vit'.ld, DdrMems) # {}, NEW s \in Sections
                 PROVE  vit'.ld.at[s] \in IF s \in CODE_LOCAL_DDR_SECTIONS THEN DdrMems ELSE LocalMems
      BY <2>2 DEF LinkedAsAsked
    <3>1. vit'.ld = modify_linker_script(vit.ld, "code_local_bss_ddr")
      BY <1>6 DEF link_after, LINKER_MODS_AFTER_SIZES, VitRecord
    <3>2. vit'.ld.mems = vit.ld.mems
      BY <2>1, <3>1, ScriptKept
    <3>3. InScript(vit.ld, LocalMems) # {} /\ InScript(vit.ld, DdrMems) # {}
      BY <3>2 DEF InScript
    <3> QED BY <2>1, <3>1, <3>3, ScriptAsAsked
  <2> QED BY <2>1, <2>3, <2>4 DEF Linked
<1>7. CASE build_app
  <2>1. vit.at = "build" /\ vit'.ld = vit.ld /\ vit'.cfg = vit.cfg /\ vit'.arch = vit.arch
    BY <1>7 DEF build_app, VitRecord, Dies
  <2>2. vit'.at \in {"failed", "built"}
    BY <1>7 DEF build_app, VitRecord, Dies
  <2> QED BY <2>1, <2>2 DEF Linked, LinkedAsAsked, linker_mod
<1>8. CASE make_boot
  <2>1. vit'.at \in {"booted", "boot failed"}
    BY <1>8 DEF make_boot, make_mb_bit, run_bootgen, VitRecord
  <2> QED BY <2>1 DEF Linked, LinkedAsAsked
<1> QED BY <1>1, <1>2, <1>3, <1>4, <1>5, <1>6, <1>7, <1>8 DEF VitisNext

LEMMA SameCoreKept == VitRecord /\ Found /\ SameCore /\ VitisNext => SameCore'
<1> SUFFICES ASSUME VitRecord, Found, VitisNext, vit'.at = "booted", Conventional(vit'.cfg.xsa)
             PROVE  vit'.boot.core = vit'.cpu
  BY DEF SameCore
<1>1. CASE make_boot
  <2>1. vit'.cfg = vit.cfg /\ vit'.cpu = vit.cpu /\ vit.at \in {"built", "boot failed"}
    BY <1>1 DEF make_boot, make_mb_bit, run_bootgen, VitRecord
  <2> DEFINE d == mb_detect_arch(vit.cfg.xsa)
  <2>2. vit'.boot = Image(d.cpu)
    <3> HIDE DEF d
    <3> SUFFICES ASSUME make_mb_bit(d.cpu) \/ run_bootgen(d.arch, d.cpu) PROVE vit'.boot = Image(d.cpu)
      BY <1>1 DEF make_boot, d
    <3>1. CASE run_bootgen(d.arch, d.cpu)
      BY <3>1 DEF run_bootgen, VitRecord
    <3>2. CASE make_mb_bit(d.cpu)
      <4>1. CASE vit' = [vit EXCEPT !.at = "boot failed"]
        BY <4>1 DEF VitRecord
      <4>2. CASE vit' = [vit EXCEPT !.boot = Image(d.cpu), !.at = "booted"]
        BY <4>2 DEF VitRecord
      <4>3. ASSUME NEW o \in Outcomes, NEW out, out = IF o.wrote THEN Image(d.cpu) ELSE NoBoot,
                   vit' = [vit EXCEPT !.boot = out,
                                      !.at = IF o.rc # 0 \/ o.error \/ out = NoBoot
                                             THEN "boot failed" ELSE "booted"]
            PROVE  vit'.boot = Image(d.cpu)
        <5>1. vit'.boot = out
          BY <4>3 DEF VitRecord
        <5>2. out # NoBoot
          BY <4>3 DEF VitRecord
        <5> QED BY <4>3, <5>1, <5>2
      <4> QED BY <3>2, <4>1, <4>2, <4>3 DEF make_mb_bit
    <3> QED BY <3>1, <3>2
  <2>3. vit.cfg.xsa \in Xsas
    BY <2>1, VitisAssumption DEF Found, Xsas
  <2>4. d.cpu = vit.cpu
    BY <2>1, <2>3, SameProcessor DEF Found
  <2>5. Image(d.cpu).core = d.cpu
    BY DEF Image
  <2> HIDE DEF d
  <2> QED BY <2>1, <2>2, <2>4, <2>5
<1>2. CASE ~make_boot
  BY <1>2 DEF VitisNext, detect_arch_and_cpu_from_xsa, setup_workspace, resolve_user_dtsi,
     create_platform, create_app, link_before, set_sizes, link_after, build_app,
     workspace_removed, Dies, VitRecord
<1> QED BY <1>1, <1>2

\* The application is linked for the memories that are put into the bitstream, and put
\* into the processor it was built for, for any linker scripts, sizes, modifications and
\* hardware images the two rules are made for.
THEOREM ApplicationsArePlaced == Spec => []PlacedToRun
<1>1. PlacedInv /\ [Next]_hvars => PlacedInv'
  <2>1. CASE VitisNext
    <3>1. VitRecord /\ VitisNext => VitRecord'
      BY RecordKept
    <3> QED BY <2>1, <3>1, FoundKept, LinkedKept, SameCoreKept DEF PlacedInv
  <2>2. CASE UNCHANGED vit
    BY <2>2 DEF PlacedInv, VitRecord, Found, Linked, LinkedAsAsked, linker_mod, SameCore
  <2> QED BY <2>1, <2>2, VitisOrNot
<1>2. PlacedInv => PlacedToRun
  BY DEF PlacedInv, Linked, PlacedToRun
<1> QED BY <1>1, <1>2, PlacedBegins, PTL DEF Spec

-----------------------------------------------------------------------------
\* update.py. The lines of the files and of what is generated.
Lines ==
    {Start, End} \cup (UNION {Range(t) : t \in Templates})
    \cup (UNION {Range(Generated(f, d)) : f \in UpdFiles, d \in DataVersions})
Plain == Lines \ {Start, End}

LEMMA MarkersDiffer == Start # End
BY DEF Start, End

LEMMA TheirLines ==
    /\ Templates \subseteq Seq(Lines)
    /\ \A f \in UpdFiles, d \in DataVersions : Generated(f, d) \in Seq(Plain)
<1>1. ASSUME NEW t \in Templates PROVE t \in Seq(Lines)
  <2>1. t \in Seq(Range(t)) /\ Range(t) \subseteq Lines
    BY <1>1, UpdateAssumption DEF UpdateAssumption, Lines
  <2> QED BY <2>1
<1>2. ASSUME NEW f \in UpdFiles, NEW d \in DataVersions PROVE Generated(f, d) \in Seq(Plain)
  <2> DEFINE gen == Generated(f, d)
  <2>1. gen \in Seq(Range(gen) \ {Start, End})
    BY <1>2, UpdateAssumption DEF UpdateAssumption
  <2>2. Range(gen) \subseteq Lines
    BY <1>2 DEF Lines
  <2> HIDE DEF gen
  <2>3. Range(gen) \ {Start, End} \subseteq Plain
    BY <2>2 DEF Plain
  <2> QED BY <2>1, <2>3 DEF gen
<1> QED BY <1>1, <1>2

Texts == Seq(Lines)
Then(s, t) == s \o t

LEMMA OneAfterOther ==
    /\ <<>> \in Texts
    /\ \A s, t \in Texts : Then(s, t) \in Texts
    /\ \A s \in Texts : Then(s, <<>>) = s /\ Then(<<>>, s) = s
    /\ \A s, t, u \in Texts : Then(Then(s, t), u) = Then(s, Then(t, u))
    /\ \A s, t \in Texts : Then(s, t) = <<>> => s = <<>> /\ t = <<>>
<1>1. \A s, t \in Texts : Then(s, t) \in Texts
  BY ConcatProperties DEF Then, Texts
<1>2. \A s \in Texts : Then(s, <<>>) = s /\ Then(<<>>, s) = s
  BY ConcatEmptySeq DEF Then, Texts
<1>3. \A s, t, u \in Texts : Then(Then(s, t), u) = Then(s, Then(t, u))
  BY ConcatAssociative DEF Then, Texts
<1>4. \A s, t \in Texts : Then(s, t) = <<>> => s = <<>> /\ t = <<>>
  BY ConcatEqualIffEmpty DEF Then, Texts
<1>5. <<>> \in Texts
  BY DEF Texts
<1> QED BY <1>1, <1>2, <1>3, <1>4, <1>5

LEMMA ATable ==
    ASSUME NEW ps \in Seq(Texts)
    PROVE  /\ Len(ps) \in Nat
           /\ \A i \in 1 .. Len(ps) : ps[i] \in Texts
           /\ Len(ps) = 0 => ps = <<>>
<1> QED OBVIOUS

\* F[i] is the first i of the texts ps one after the other.
Grows(ps, F) ==
    /\ F \in [0 .. Len(ps) -> Texts] /\ F[0] = <<>>
    /\ \A i \in 1 .. Len(ps) : F[i] = Then(F[i - 1], ps[i])

\* R[i] is what follows the first i of them.
Remains(ps, R) ==
    /\ R \in [0 .. Len(ps) -> Texts] /\ R[Len(ps)] = <<>>
    /\ \A i \in 1 .. Len(ps) : R[i - 1] = Then(ps[i], R[i])

LEMMA GrowthExists ==
    ASSUME NEW ps \in Seq(Texts)
    PROVE  \E F : Grows(ps, F)
<1> DEFINE Upto(m, F) ==
             /\ F \in [0 .. m -> Texts] /\ F[0] = <<>>
             /\ \A i \in 1 .. m : F[i] = Then(F[i - 1], ps[i])
           S == {m \in Nat : m <= Len(ps) => \E F : Upto(m, F)}
<1>0. Len(ps) \in Nat /\ \A i \in 1 .. Len(ps) : ps[i] \in Texts
  OBVIOUS
<1>1. 0 \in S
  <2> DEFINE G == [i \in 0 .. 0 |-> <<>>]
  <2>1. G \in [0 .. 0 -> Texts]
    BY OneAfterOther
  <2>2. Upto(0, G)
    BY <2>1
  <2> HIDE DEF G, Upto
  <2> QED BY <2>2
<1>2. ASSUME NEW n \in Nat, n \in S PROVE n + 1 \in S
  <2> HIDE DEF Upto
  <2> SUFFICES ASSUME n + 1 <= Len(ps) PROVE \E F : Upto(n + 1, F)
    OBVIOUS
  <2>0. n <= Len(ps)
    BY <1>0
  <2>1. PICK F : Upto(n, F)
    BY <1>2, <2>0
  <2> DEFINE G == [i \in 0 .. n + 1 |-> IF i <= n THEN F[i] ELSE Then(F[n], ps[n + 1])]
  <2>2. F[n] \in Texts /\ ps[n + 1] \in Texts
    BY <1>0, <2>1 DEF Upto
  <2>3. Then(F[n], ps[n + 1]) \in Texts
    BY <2>2, OneAfterOther
  <2>4. G \in [0 .. n + 1 -> Texts]
    BY <2>1, <2>3 DEF Upto
  <2>5. ASSUME NEW i \in 1 .. n + 1 PROVE G[i] = Then(G[i - 1], ps[i])
    <3>1. i \in 0 .. n + 1 /\ i - 1 \in 0 .. n + 1 /\ i - 1 <= n
      OBVIOUS
    <3>2. G[i - 1] = F[i - 1] /\ G[i] = IF i <= n THEN F[i] ELSE Then(F[n], ps[n + 1])
      BY <3>1
    <3> HIDE DEF G
    <3>3. CASE i <= n
      <4>1. F[i] = Then(F[i - 1], ps[i])
        BY <2>1, <3>3 DEF Upto
      <4> QED BY <3>2, <3>3, <4>1
    <3>4. CASE ~(i <= n)
      <4>1. i = n + 1 /\ i - 1 = n
        BY <3>1, <3>4
      <4> QED BY <3>2, <3>4, <4>1
    <3> QED BY <3>3, <3>4
  <2>6. G[0] = <<>>
    BY <2>1 DEF Upto
  <2> HIDE DEF G
  <2>7. Upto(n + 1, G)
    BY <2>4, <2>5, <2>6 DEF Upto
  <2> QED BY <2>7
<1> HIDE DEF S
<1>3. Nat \subseteq S
  BY <1>1, <1>2, SetInduction
<1>4. Len(ps) \in S
  BY <1>0, <1>3
<1> HIDE DEF Upto
<1>5. PICK F : Upto(Len(ps), F)
  BY <1>0, <1>4 DEF S
<1> QED BY <1>5 DEF Upto, Grows

LEMMA GrowthIsOne ==
    ASSUME NEW ps \in Seq(Texts), NEW F, NEW G, Grows(ps, F), Grows(ps, G)
    PROVE  \A i \in 0 .. Len(ps) : F[i] = G[i]
<1> DEFINE S == {m \in Nat : m <= Len(ps) => F[m] = G[m]}
<1>0. Len(ps) \in Nat
  OBVIOUS
<1>1. 0 \in S
  BY DEF Grows
<1>2. ASSUME NEW n \in Nat, n \in S PROVE n + 1 \in S
  <2> SUFFICES ASSUME n + 1 <= Len(ps) PROVE F[n + 1] = G[n + 1]
    OBVIOUS
  <2>1. n <= Len(ps) /\ n + 1 \in 1 .. Len(ps) /\ (n + 1) - 1 = n
    BY <1>0
  <2>2. F[n] = G[n]
    BY <1>2, <2>1
  <2>3. F[n + 1] = Then(F[n], ps[n + 1]) /\ G[n + 1] = Then(G[n], ps[n + 1])
    BY <2>1 DEF Grows
  <2> QED BY <2>2, <2>3
<1> HIDE DEF S
<1>3. Nat \subseteq S
  BY <1>1, <1>2, SetInduction
<1> QED BY <1>0, <1>3 DEF S

LEMMA FlattenIs ==
    ASSUME NEW ps \in Seq(Texts), NEW F, Grows(ps, F)
    PROVE  FlattenSeq(ps) = F[Len(ps)]
<1>0. Len(ps) \in Nat
  OBVIOUS
<1>1. CASE Len(ps) = 0
  <2>1. ps = <<>>
    BY <1>1
  <2> QED BY <1>1, <2>1 DEF FlattenSeq, Grows
<1>2. CASE Len(ps) # 0
  <2> DEFINE Table(h) == h = [i \in 1 .. Len(ps) |-> IF i = 1 THEN ps[i] ELSE Then(h[i - 1], ps[i])]
             H == [i \in 1 .. Len(ps) |-> F[i]]
  <2>0. F[1] = ps[1]
    <3>1. F[1] = Then(F[1 - 1], ps[1]) /\ F[0] = <<>> /\ ps[1] \in Texts
      BY <1>0, <1>2 DEF Grows
    <3> QED BY <3>1, OneAfterOther
  <2>1. Table(H)
    <3>1. ASSUME NEW i \in 1 .. Len(ps)
          PROVE  F[i] = IF i = 1 THEN ps[i] ELSE Then(H[i - 1], ps[i])
      <4>1. CASE i = 1
        BY <2>0, <4>1
      <4>2. CASE i # 1
        <5>1. i - 1 \in 1 .. Len(ps)
          BY <1>0, <3>1, <4>2
        <5>2. H[i - 1] = F[i - 1]
          BY <5>1
        <5> HIDE DEF H
        <5>3. F[i] = Then(F[i - 1], ps[i])
          BY DEF Grows
        <5> QED BY <4>2, <5>2, <5>3
      <4> QED BY <4>1, <4>2
    <3> QED BY <3>1
  <2>2. ASSUME NEW h, Table(h) PROVE h[Len(ps)] = F[Len(ps)]
    <3> DEFINE S == {m \in Nat : m + 1 <= Len(ps) => h[m + 1] = F[m + 1]}
    <3>0. \A i \in 1 .. Len(ps) : h[i] = IF i = 1 THEN ps[i] ELSE Then(h[i - 1], ps[i])
      BY <2>2
    <3> HIDE DEF Table, H
    <3>1. 0 \in S
      <4>1. h[1] = ps[1]
        BY <1>0, <1>2, <3>0
      <4> QED BY <2>0, <4>1
    <3>2. ASSUME NEW n \in Nat, n \in S PROVE n + 1 \in S
      <4> SUFFICES ASSUME n + 1 + 1 <= Len(ps) PROVE h[n + 1 + 1] = F[n + 1 + 1]
        OBVIOUS
      <4> DEFINE k == n + 1 + 1
      <4>0. k \in 1 .. Len(ps) /\ k # 1 /\ k - 1 = n + 1 /\ n + 1 <= Len(ps)
        BY <1>0
      <4>3. h[n + 1] = F[n + 1]
        BY <3>2, <4>0
      <4> HIDE DEF k, S
      <4>1. h[k] = Then(h[n + 1], ps[k])
        BY <3>0, <4>0
      <4>2. F[k] = Then(F[n + 1], ps[k])
        BY <4>0 DEF Grows
      <4>4. h[k] = F[k]
        BY <4>1, <4>2, <4>3
      <4> QED BY <4>4 DEF k
    <3> HIDE DEF S
    <3>3. Nat \subseteq S
      BY <3>1, <3>2, SetInduction
    <3>4. Len(ps) - 1 \in S /\ Len(ps) - 1 + 1 = Len(ps)
      BY <1>0, <1>2, <3>3
    <3> QED BY <1>2, <3>4 DEF S
  <2>3. FlattenSeq(ps) = (CHOOSE h : Table(h))[Len(ps)]
    BY <1>2 DEF FlattenSeq, Then
  <2>4. \E h : Table(h)
    BY <2>1
  <2> HIDE DEF Table, H
  <2>5. Table(CHOOSE h : Table(h))
    BY <2>4
  <2> QED BY <2>2, <2>3, <2>5
<1> QED BY <1>1, <1>2

LEMMA RemainderExists ==
    ASSUME NEW ps \in Seq(Texts), NEW F, Grows(ps, F)
    PROVE  \E R : Remains(ps, R) /\ R[0] = F[Len(ps)]
<1> DEFINE n == Len(ps)
           After(c, R) ==
             /\ R \in [c .. n -> Texts] /\ R[n] = <<>>
             /\ \A i \in c + 1 .. n : R[i - 1] = Then(ps[i], R[i])
             /\ Then(F[c], R[c]) = F[n]
           S == {d \in Nat : d <= n => \E R : After(n - d, R)}
<1>0. /\ n \in Nat /\ \A i \in 1 .. n : ps[i] \in Texts
      /\ \A i \in 0 .. n : F[i] \in Texts
      /\ \A i \in 1 .. n : F[i] = Then(F[i - 1], ps[i])
      /\ F[0] = <<>>
  BY DEF Grows
<1> HIDE DEF n
<1>1. 0 \in S
  <2> DEFINE R == [i \in n .. n |-> <<>>]
  <2>0. R \in [n .. n -> Texts] /\ R[n] = <<>>
    BY <1>0
  <2> HIDE DEF R
  <2>1. F[n] \in Texts
    BY <1>0
  <2>2. Then(F[n], <<>>) = F[n]
    BY <2>1, OneAfterOther
  <2>3. After(n, R)
    BY <1>0, <2>0, <2>2
  <2> HIDE DEF After
  <2>4. n - 0 = n
    BY <1>0
  <2> QED BY <2>3, <2>4
<1>2. ASSUME NEW m \in Nat, m \in S PROVE m + 1 \in S
  <2> HIDE DEF After
  <2> SUFFICES ASSUME m + 1 <= n PROVE \E R : After(n - (m + 1), R)
    OBVIOUS
  <2> DEFINE k == n - m
  <2>0. k \in 1 .. n /\ k - 1 = n - (m + 1) /\ m <= n
    BY <1>0
  <2>1. PICK R : After(k, R)
    BY <1>2, <2>0
  <2> HIDE DEF k
  <2>3. F[k - 1] \in Texts /\ F[k] = Then(F[k - 1], ps[k]) /\ ps[k] \in Texts
    BY <1>0, <2>0
  <2>10. /\ R \in [k .. n -> Texts] /\ R[n] = <<>> /\ R[k] \in Texts
         /\ \A i \in k + 1 .. n : R[i - 1] = Then(ps[i], R[i])
         /\ Then(F[k], R[k]) = F[n]
    BY <1>0, <2>0, <2>1 DEF After
  <2>11. Then(ps[k], R[k]) \in Texts
    BY <2>3, <2>10, OneAfterOther
  <2> DEFINE T == [i \in k - 1 .. n |-> IF i = k - 1 THEN Then(ps[k], R[k]) ELSE R[i]]
  <2>4. T \in [k - 1 .. n -> Texts]
    <3>1. ASSUME NEW i \in k - 1 .. n PROVE (IF i = k - 1 THEN Then(ps[k], R[k]) ELSE R[i]) \in Texts
      <4>1. CASE i = k - 1
        BY <2>11, <4>1
      <4>2. CASE i # k - 1
        <5>1. i \in k .. n
          BY <1>0, <2>0, <4>2
        <5> QED BY <2>10, <4>2, <5>1
      <4> QED BY <4>1, <4>2
    <3> QED BY <3>1
  <2>5. T[k - 1] = Then(ps[k], R[k]) /\ \A i \in k .. n : T[i] = R[i]
    BY <1>0, <2>0
  <2> HIDE DEF T
  <2>6. ASSUME NEW i \in (k - 1) + 1 .. n PROVE T[i - 1] = Then(ps[i], T[i])
    <3>1. CASE i = k
      BY <1>0, <2>0, <2>5, <3>1
    <3>2. CASE i # k
      <4>1. i \in k + 1 .. n /\ i \in k .. n /\ i - 1 \in k .. n
        BY <1>0, <2>0, <3>2
      <4> QED BY <2>5, <2>10, <4>1
    <3> QED BY <3>1, <3>2
  <2>7. Then(F[k - 1], T[k - 1]) = F[n]
    <3>1. Then(F[k - 1], Then(ps[k], R[k])) = Then(Then(F[k - 1], ps[k]), R[k])
      BY <2>3, <2>10, OneAfterOther
    <3> QED BY <2>3, <2>5, <2>10, <3>1
  <2>12. T[n] = <<>>
    BY <1>0, <2>0, <2>5, <2>10
  <2>8. After(k - 1, T)
    BY <2>4, <2>6, <2>7, <2>12 DEF After
  <2> QED BY <2>0, <2>8
<1> HIDE DEF S
<1>3. Nat \subseteq S
  BY <1>1, <1>2, SetInduction
<1>4. n \in S /\ n - n = 0
  BY <1>0, <1>3
<1> HIDE DEF After
<1>5. PICK R : After(0, R)
  BY <1>0, <1>4 DEF S
<1>6. F[0] = <<>> /\ R[0] \in Texts /\ Then(F[0], R[0]) = F[n]
  BY <1>0, <1>5 DEF After
<1>7. R[0] = F[n]
  BY <1>6, OneAfterOther
<1>8. Remains(ps, R)
  BY <1>5 DEF After, Remains, n
<1> QED BY <1>7, <1>8 DEF n

-----------------------------------------------------------------------------
\* The texts of a file: its own lines, and between a marker that starts a block and the
\* one that ends it lines that are no marker.

\* The lines of t up to i leave the script inside a block.
OpenAt(t, i) == \E j \in 1 .. i : t[j] = Start /\ \A k \in j .. i : t[k] # End

Blocks(t) == {g \in Texts : \A i \in 1 .. Len(g) : g[i] \in Plain}

\* ps[i] is what stands in the place of line i of t.
Shape(t, ps) ==
    /\ ps \in Seq(Texts) /\ Len(ps) = Len(t)
    /\ \A i \in 1 .. Len(t) :
          /\ t[i] = Start => Len(ps[i]) > 0 /\ Head(ps[i]) = Start /\ Tail(ps[i]) \in Seq(Plain)
          /\ t[i] # Start /\ InBlock(t, i) => ps[i] \in Seq(Plain)
          /\ t[i] # Start /\ ~InBlock(t, i) => ps[i] = <<t[i]>>

\* Text x is t with other lines in its blocks.
Variant(t, x) == \E ps, R : Shape(t, ps) /\ Remains(ps, R) /\ R[0] = x

LEMMA MarkersAreLines == Start \in Lines /\ End \in Lines /\ Plain \subseteq Lines
<1>1. {Start, End} \subseteq Lines
  BY DEF Lines
<1>2. Plain \subseteq Lines
  BY DEF Plain
<1> QED BY <1>1, <1>2

LEMMA PlainTexts == Seq(Plain) \subseteq Texts
BY DEF Texts, Plain

LEMMA OpenStep ==
    ASSUME NEW t \in Texts, NEW i \in 1 .. Len(t)
    PROVE  /\ OpenAt(t, i) <=> t[i] = Start \/ (OpenAt(t, i - 1) /\ t[i] # End)
           /\ InBlock(t, i) <=> OpenAt(t, i - 1) /\ t[i] # End
<1>0. Len(t) \in Nat
  BY DEF Texts
<1>1. InBlock(t, i) <=> OpenAt(t, i - 1) /\ t[i] # End
  <2>1. ASSUME InBlock(t, i) PROVE OpenAt(t, i - 1) /\ t[i] # End
    <3>1. PICK j \in 1 .. i - 1 : t[j] = Start /\ \A k \in j .. i : t[k] # End
      BY <2>1 DEF InBlock
    <3>2. i \in j .. i /\ j .. i - 1 \subseteq j .. i
      BY <1>0
    <3> QED BY <3>1, <3>2 DEF OpenAt
  <2>2. ASSUME OpenAt(t, i - 1), t[i] # End PROVE InBlock(t, i)
    <3>1. PICK j \in 1 .. i - 1 : t[j] = Start /\ \A k \in j .. i - 1 : t[k] # End
      BY <2>2 DEF OpenAt
    <3>2. \A k \in j .. i : k \in j .. i - 1 \/ k = i
      BY <1>0
    <3> QED BY <2>2, <3>1, <3>2 DEF InBlock
  <2> QED BY <2>1, <2>2
<1>2. OpenAt(t, i) <=> t[i] = Start \/ InBlock(t, i)
  <2>1. ASSUME OpenAt(t, i), t[i] # Start PROVE InBlock(t, i)
    <3>1. PICK j \in 1 .. i : t[j] = Start /\ \A k \in j .. i : t[k] # End
      BY <2>1 DEF OpenAt
    <3>2. j \in 1 .. i - 1
      BY <1>0, <2>1, <3>1
    <3> QED BY <3>1, <3>2 DEF InBlock
  <2>2. ASSUME InBlock(t, i) PROVE OpenAt(t, i)
    BY <1>0, <2>2 DEF OpenAt, InBlock
  <2>3. ASSUME t[i] = Start PROVE OpenAt(t, i)
    <3>1. i \in 1 .. i /\ \A k \in i .. i : k = i
      BY <1>0
    <3> QED BY <2>3, <3>1, MarkersDiffer DEF OpenAt
  <2> QED BY <2>1, <2>2, <2>3
<1> QED BY <1>1, <1>2

Pieces(t, gen) ==
    [i \in DOMAIN t |->
        IF t[i] = Start THEN <<Start>> \o gen
        ELSE IF InBlock(t, i) THEN <<>> ELSE <<t[i]>>]

LEMMA LinesOf ==
    ASSUME NEW t \in Texts
    PROVE  /\ Len(t) \in Nat /\ DOMAIN t = 1 .. Len(t)
           /\ \A i \in 1 .. Len(t) : t[i] \in Lines /\ <<t[i]>> \in Texts
<1> QED BY DEF Texts

LEMMA AddsPiece ==
    ASSUME NEW gen \in Seq(Plain)
    PROVE  /\ <<Start>> \o gen \in Texts /\ Len(<<Start>> \o gen) > 0
           /\ Head(<<Start>> \o gen) = Start /\ Tail(<<Start>> \o gen) = gen
<1>1. Start \in Lines /\ Plain \subseteq Lines
  BY MarkersAreLines
<1>2. gen \in Seq(Lines) /\ <<Start>> \in Seq(Lines)
  BY <1>1
<1>3. <<Start>> \o gen \in Seq(Lines) /\ Len(<<Start>> \o gen) = 1 + Len(gen)
  BY <1>2
<1>4. Head(<<Start>> \o gen) = Start
  BY <1>2, <1>3
<1>5. Tail(<<Start>> \o gen) = gen
  <2>1. Tail(<<Start>> \o gen) \in Seq(Lines) /\ Len(Tail(<<Start>> \o gen)) = Len(gen)
    BY <1>2, <1>3
  <2>2. \A i \in 1 .. Len(gen) : Tail(<<Start>> \o gen)[i] = gen[i]
    BY <1>2, <1>3
  <2> QED BY <1>2, <2>1, <2>2, SeqEqual
<1> QED BY <1>2, <1>3, <1>4, <1>5 DEF Texts

LEMMA PiecesShape ==
    ASSUME NEW t \in Texts, NEW gen \in Seq(Plain)
    PROVE  Shape(t, Pieces(t, gen))
<1> DEFINE ps == Pieces(t, gen)
<1>1. ASSUME NEW i \in 1 .. Len(t) PROVE ps[i] = IF t[i] = Start THEN <<Start>> \o gen
        ELSE IF InBlock(t, i) THEN <<>> ELSE <<t[i]>>
  BY LinesOf DEF Pieces
<1>2. DOMAIN ps = 1 .. Len(t)
  BY LinesOf DEF Pieces
<1>3. ps = [i \in DOMAIN ps |-> ps[i]]
  BY DEF Pieces
<1> HIDE DEF ps
<1>4. ASSUME NEW i \in 1 .. Len(t) PROVE ps[i] \in Texts
  <2>1. <<Start>> \o gen \in Texts
    BY AddsPiece
  <2>2. <<t[i]>> \in Texts /\ <<>> \in Texts
    BY LinesOf, OneAfterOther
  <2> DEFINE s == <<Start>> \o gen
             o == <<t[i]>>
             e == <<>>
  <2>3. ps[i] = s \/ ps[i] = o \/ ps[i] = e
    BY <1>1
  <2>4. s \in Texts /\ o \in Texts /\ e \in Texts
    BY <2>1, <2>2
  <2> HIDE DEF s, o, e
  <2> QED BY <2>3, <2>4
<1>5. ps \in Seq(Texts) /\ Len(ps) = Len(t)
  <2>1. ps \in [1 .. Len(t) -> Texts]
    BY <1>2, <1>3, <1>4
  <2>2. Len(t) \in Nat
    BY LinesOf
  <2> QED BY <2>1, <2>2
<1>6. ASSUME NEW i \in 1 .. Len(t)
      PROVE  /\ t[i] = Start => Len(ps[i]) > 0 /\ Head(ps[i]) = Start /\ Tail(ps[i]) \in Seq(Plain)
             /\ t[i] # Start /\ InBlock(t, i) => ps[i] \in Seq(Plain)
             /\ t[i] # Start /\ ~InBlock(t, i) => ps[i] = <<t[i]>>
  <2>1. CASE t[i] = Start
    <3>1. ps[i] = <<Start>> \o gen
      BY <1>1, <2>1
    <3> QED BY <2>1, <3>1, AddsPiece
  <2>2. CASE t[i] # Start /\ InBlock(t, i)
    <3>1. ps[i] = <<>>
      BY <1>1, <2>2
    <3> QED BY <2>2, <3>1
  <2>3. CASE t[i] # Start /\ ~InBlock(t, i)
    BY <1>1, <2>3
  <2> QED BY <2>1, <2>2, <2>3
<1>7. Shape(t, ps)
  BY <1>5, <1>6 DEF Shape
<1> QED BY <1>7 DEF ps

\* A rendering of t is t with other lines in its blocks.
LEMMA RenderedIs ==
    ASSUME NEW t \in Texts, NEW gen \in Seq(Plain)
    PROVE  /\ Variant(t, Rendered(t, gen))
           /\ \E G : Grows(Pieces(t, gen), G) /\ G[Len(t)] = Rendered(t, gen)
<1> DEFINE ps == Pieces(t, gen)
<1>1. Shape(t, ps) /\ Rendered(t, gen) = FlattenSeq(ps)
  BY PiecesShape DEF Rendered, Pieces
<1> HIDE DEF ps
<1>2. ps \in Seq(Texts) /\ Len(ps) = Len(t)
  BY <1>1 DEF Shape
<1>3. PICK G : Grows(ps, G)
  BY <1>2, GrowthExists
<1>4. FlattenSeq(ps) = G[Len(ps)]
  BY <1>2, <1>3, FlattenIs
<1>5. PICK R : Remains(ps, R) /\ R[0] = G[Len(ps)]
  BY <1>2, <1>3, RemainderExists
<1>6. Variant(t, Rendered(t, gen))
  BY <1>1, <1>4, <1>5 DEF Variant
<1>7. Grows(ps, G) /\ G[Len(t)] = Rendered(t, gen)
  BY <1>1, <1>2, <1>3, <1>4
<1> QED BY <1>6, <1>7 DEF ps

-----------------------------------------------------------------------------
\* The loop over the lines of a file, when t is what the file had before the first run:
\* it is at some line of t, w is what is still to be skipped in that line's place, and
\* what it wrote is the rendering of the lines of t up to there.
Rewriting(t, gen, lines, out, inside) ==
    \E ps, R, G : \E j \in 0 .. Len(t), w \in Seq(Plain) :
        /\ Shape(t, ps) /\ Remains(ps, R) /\ Grows(Pieces(t, gen), G)
        /\ lines = Then(w, R[j]) /\ out = G[j]
        /\ inside <=> OpenAt(t, j)
        /\ w # <<>> => inside

\* The tables of such a state.
Tables(t, gen, ps, R, G) ==
    /\ t \in Texts /\ gen \in Seq(Plain)
    /\ Shape(t, ps) /\ Remains(ps, R) /\ Grows(Pieces(t, gen), G)

LEMMA TableFacts ==
    ASSUME NEW t, NEW gen, NEW ps, NEW R, NEW G, Tables(t, gen, ps, R, G)
    PROVE  /\ Len(t) \in Nat /\ R[Len(t)] = <<>>
           /\ \A i \in 0 .. Len(t) : R[i] \in Texts /\ G[i] \in Texts
           /\ \A i \in 1 .. Len(t) : /\ ps[i] \in Texts
                                     /\ R[i - 1] = Then(ps[i], R[i])
                                     /\ G[i] = Then(G[i - 1], Pieces(t, gen)[i])
<1> DEFINE qs == Pieces(t, gen)
<1>1. t \in Texts /\ gen \in Seq(Plain) /\ Shape(t, ps) /\ Shape(t, qs)
  BY PiecesShape DEF Tables
<1>2. ps \in Seq(Texts) /\ qs \in Seq(Texts) /\ Len(ps) = Len(t) /\ Len(qs) = Len(t)
  BY <1>1 DEF Shape
<1>3. Remains(ps, R) /\ Grows(qs, G)
  BY DEF Tables
<1> HIDE DEF qs
<1>4. Len(t) \in Nat /\ \A i \in 1 .. Len(t) : ps[i] \in Texts
  BY <1>2, ATable
<1>5. /\ R \in [0 .. Len(t) -> Texts] /\ R[Len(t)] = <<>>
      /\ \A i \in 1 .. Len(t) : R[i - 1] = Then(ps[i], R[i])
  BY <1>2, <1>3 DEF Remains
<1>6. /\ G \in [0 .. Len(t) -> Texts]
      /\ \A i \in 1 .. Len(t) : G[i] = Then(G[i - 1], qs[i])
  BY <1>2, <1>3 DEF Grows
<1> QED BY <1>4, <1>5, <1>6 DEF qs

LEMMA PieceFacts ==
    ASSUME NEW t \in Texts, NEW gen \in Seq(Plain), NEW i \in 1 .. Len(t)
    PROVE  /\ t[i] = Start => Pieces(t, gen)[i] = <<Start>> \o gen
           /\ t[i] # Start /\ InBlock(t, i) => Pieces(t, gen)[i] = <<>>
           /\ t[i] # Start /\ ~InBlock(t, i) => Pieces(t, gen)[i] = <<t[i]>>
BY LinesOf DEF Pieces

LEMMA ShapeFacts ==
    ASSUME NEW t, NEW ps, Shape(t, ps), NEW i \in 1 .. Len(t)
    PROVE  /\ t[i] = Start => Len(ps[i]) > 0 /\ Head(ps[i]) = Start /\ Tail(ps[i]) \in Seq(Plain)
           /\ t[i] # Start /\ InBlock(t, i) => ps[i] \in Seq(Plain)
           /\ t[i] # Start /\ ~InBlock(t, i) => ps[i] = <<t[i]>>
BY DEF Shape

\* Nothing in the place of a line: the line is in a block, and the script writes nothing
\* for it either.
LEMMA EmptyPlace ==
    ASSUME NEW t, NEW gen, NEW ps, NEW R, NEW G, Tables(t, gen, ps, R, G),
           NEW i \in 1 .. Len(t), ps[i] = <<>>
    PROVE  R[i - 1] = R[i] /\ G[i] = G[i - 1] /\ (OpenAt(t, i) <=> OpenAt(t, i - 1))
<1>1. t \in Texts /\ gen \in Seq(Plain) /\ Shape(t, ps)
  BY DEF Tables
<1>2. t[i] # Start /\ InBlock(t, i)
  <2>1. Len(<<>>) = 0 /\ <<t[i]>> # <<>>
    OBVIOUS
  <2>2. t[i] # Start
    <3> QED BY <1>1, <2>1, ShapeFacts
  <2>3. InBlock(t, i)
    <3> QED BY <1>1, <2>1, <2>2, ShapeFacts
  <2> QED BY <2>2, <2>3
<1>3. Pieces(t, gen)[i] = <<>>
  BY <1>1, <1>2, PieceFacts
<1>4. i - 1 \in 0 .. Len(t) /\ i \in 0 .. Len(t)
  BY TableFacts
<1>5. R[i - 1] = R[i]
  BY <1>4, TableFacts, OneAfterOther
<1>6. G[i] = G[i - 1]
  BY <1>3, <1>4, TableFacts, OneAfterOther
<1>7. OpenAt(t, i) <=> OpenAt(t, i - 1)
  BY <1>1, <1>2, OpenStep
<1> QED BY <1>5, <1>6, <1>7

LEMMA NextPlace ==
    ASSUME NEW t, NEW gen, NEW ps, NEW R, NEW G, Tables(t, gen, ps, R, G)
    PROVE  \A j \in 0 .. Len(t) :
              /\ R[j] = <<>> => G[j] = G[Len(t)]
              /\ R[j] # <<>> => \E k \in 1 .. Len(t) :
                                   /\ ps[k] # <<>> /\ R[k - 1] = R[j] /\ G[k - 1] = G[j]
                                   /\ OpenAt(t, k - 1) <=> OpenAt(t, j)
<1> DEFINE n == Len(t)
           Landed(j) == \E k \in 1 .. n : /\ ps[k] # <<>> /\ R[k - 1] = R[j] /\ G[k - 1] = G[j]
                                          /\ OpenAt(t, k - 1) <=> OpenAt(t, j)
           Right(j) == (R[j] = <<>> => G[j] = G[n]) /\ (R[j] # <<>> => Landed(j))
           S == {m \in Nat : m <= n => Right(n - m)}
<1>0. n \in Nat /\ R[n] = <<>>
  BY TableFacts
<1> HIDE DEF n
<1>1. 0 \in S
  <2>1. Right(n)
    BY <1>0
  <2>2. n - 0 = n
    BY <1>0
  <2> HIDE DEF Right
  <2> QED BY <2>1, <2>2
<1>2. ASSUME NEW m \in Nat, m \in S PROVE m + 1 \in S
  <2> SUFFICES ASSUME m + 1 <= n PROVE Right(n - (m + 1))
    OBVIOUS
  <2> DEFINE i == n - m
  <2>0. i \in 1 .. n /\ i - 1 = n - (m + 1) /\ m <= n
    BY <1>0
  <2>1. Right(i)
    BY <1>2, <2>0
  <2> HIDE DEF i
  <2>2. Right(i - 1)
    <3>1. CASE ps[i] = <<>>
      <4>1. R[i - 1] = R[i] /\ G[i] = G[i - 1] /\ (OpenAt(t, i) <=> OpenAt(t, i - 1))
        BY <2>0, <3>1, EmptyPlace DEF n
      <4> QED BY <2>1, <4>1
    <3>2. CASE ps[i] # <<>>
      <4>1. R[i - 1] # <<>>
        <5>1. R[i - 1] = Then(ps[i], R[i]) /\ ps[i] \in Texts
          BY <2>0, TableFacts DEF n
        <5>2. i \in 0 .. n
          BY <1>0, <2>0
        <5>3. R[i] \in Texts
          BY <5>2, TableFacts DEF n
        <5> QED BY <3>2, <5>1, <5>3, OneAfterOther
      <4>2. Landed(i - 1)
        BY <2>0, <3>2
      <4> HIDE DEF Landed
      <4> QED BY <4>1, <4>2
    <3> QED BY <3>1, <3>2
  <2> HIDE DEF Right
  <2> QED BY <2>0, <2>2
<1> HIDE DEF S
<1>3. Nat \subseteq S
  BY <1>1, <1>2, SetInduction
<1>4. \A m \in Nat : m <= n => Right(n - m)
  <2> HIDE DEF Right
  <2> QED BY <1>3 DEF S
<1>5. ASSUME NEW j \in 0 .. n PROVE Right(j)
  <2> HIDE DEF Right
  <2> DEFINE m == n - j
  <2>1. m \in Nat /\ m <= n /\ n - m = j
    BY <1>0
  <2> HIDE DEF m
  <2>2. Right(n - m)
    BY <1>4, <2>1
  <2> QED BY <2>1, <2>2
<1> QED BY <1>5 DEF n

LEMMA HeadOfThen ==
    ASSUME NEW s \in Texts, NEW u \in Texts, s # <<>>
    PROVE  /\ Then(s, u) # <<>> /\ Head(Then(s, u)) = Head(s)
           /\ Tail(s) \in Texts /\ Tail(Then(s, u)) = Then(Tail(s), u)
<1> USE DEF Texts
<1>1. s \o u \in Texts /\ Len(s \o u) = Len(s) + Len(u) /\ Len(s) > 0 /\ Len(s) \in Nat /\ Len(u) \in Nat
  OBVIOUS
<1>2. s \o u # <<>> /\ Head(s \o u) = Head(s)
  BY <1>1
<1>3. Tail(s) \in Texts /\ Len(Tail(s)) = Len(s) - 1 /\ \A i \in 1 .. Len(s) - 1 : Tail(s)[i] = s[i + 1]
  BY <1>1, HeadTailProperties
<1>4. /\ Tail(s \o u) \in Texts /\ Len(Tail(s \o u)) = Len(s) + Len(u) - 1
      /\ \A i \in 1 .. Len(s) + Len(u) - 1 : Tail(s \o u)[i] = (s \o u)[i + 1]
  BY <1>1, <1>2, HeadTailProperties
<1>5. /\ Tail(s) \o u \in Texts /\ Len(Tail(s) \o u) = Len(s) - 1 + Len(u)
      /\ \A i \in 1 .. Len(s) - 1 + Len(u) :
            (Tail(s) \o u)[i] = IF i <= Len(s) - 1 THEN Tail(s)[i] ELSE u[i - (Len(s) - 1)]
  BY <1>1, <1>3, ConcatProperties
<1>6. ASSUME NEW i \in 1 .. Len(s) + Len(u) - 1 PROVE Tail(s \o u)[i] = (Tail(s) \o u)[i]
  <2>1. i + 1 \in 1 .. Len(s) + Len(u)
    BY <1>1
  <2>2. (s \o u)[i + 1] = IF i + 1 <= Len(s) THEN s[i + 1] ELSE u[i + 1 - Len(s)]
    BY <2>1, ConcatProperties
  <2>3. CASE i + 1 <= Len(s)
    <3>1. i <= Len(s) - 1 /\ i \in 1 .. Len(s) - 1 + Len(u) /\ i \in 1 .. Len(s) - 1
      BY <1>1, <2>3
    <3>2. Tail(s \o u)[i] = s[i + 1]
      BY <1>4, <2>2, <2>3
    <3>3. (Tail(s) \o u)[i] = Tail(s)[i]
      BY <1>5, <3>1
    <3>4. Tail(s)[i] = s[i + 1]
      BY <1>3, <3>1
    <3> QED BY <3>2, <3>3, <3>4
  <2>4. CASE ~(i + 1 <= Len(s))
    <3>1. i - (Len(s) - 1) = i + 1 - Len(s) /\ ~(i <= Len(s) - 1)
      BY <1>1, <2>4
    <3> QED BY <1>1, <1>4, <1>5, <2>2, <2>4, <3>1
  <2> QED BY <2>3, <2>4
<1>7. Tail(s \o u) = Tail(s) \o u
  BY <1>1, <1>4, <1>5, <1>6, SeqEqual
<1> QED BY <1>2, <1>3, <1>7 DEF Then

LEMMA WriteBegins ==
    ASSUME NEW t \in Texts, NEW gen \in Seq(Plain), NEW x, Variant(t, x)
    PROVE  Rewriting(t, gen, x, <<>>, FALSE)
<1>1. PICK ps, R : Shape(t, ps) /\ Remains(ps, R) /\ R[0] = x
  BY DEF Variant
<1>2. Pieces(t, gen) \in Seq(Texts) /\ Len(Pieces(t, gen)) = Len(t)
  BY PiecesShape DEF Shape
<1>3. PICK G : Grows(Pieces(t, gen), G)
  BY <1>2, GrowthExists
<1>4. G[0] = <<>>
  BY <1>3 DEF Grows
<1>5. 0 \in 0 .. Len(t)
  BY LinesOf
<1>6. R[0] \in Texts /\ x = Then(<<>>, R[0])
  <2>1. Tables(t, gen, ps, R, G)
    BY <1>1, <1>3 DEF Tables
  <2> QED BY <1>1, <1>5, <2>1, TableFacts, OneAfterOther
<1>7. ~OpenAt(t, 0)
  BY DEF OpenAt
<1>8. <<>> \in Seq(Plain)
  OBVIOUS
<1> QED BY <1>1, <1>3, <1>4, <1>5, <1>6, <1>7, <1>8 DEF Rewriting

LEMMA WriteEnds ==
    ASSUME NEW t \in Texts, NEW gen \in Seq(Plain), NEW out, NEW inside,
           Rewriting(t, gen, <<>>, out, inside)
    PROVE  out = Rendered(t, gen)
<1>1. PICK ps, R, G : \E j \in 0 .. Len(t), w \in Seq(Plain) :
        /\ Shape(t, ps) /\ Remains(ps, R) /\ Grows(Pieces(t, gen), G)
        /\ <<>> = Then(w, R[j]) /\ out = G[j]
  BY DEF Rewriting
<1>2. PICK j \in 0 .. Len(t), w \in Seq(Plain) :
        /\ Shape(t, ps) /\ Remains(ps, R) /\ Grows(Pieces(t, gen), G)
        /\ <<>> = Then(w, R[j]) /\ out = G[j]
  BY <1>1
<1>3. Tables(t, gen, ps, R, G)
  BY <1>2 DEF Tables
<1>4. w \in Texts /\ R[j] \in Texts
  BY <1>3, PlainTexts, TableFacts
<1>5. R[j] = <<>>
  BY <1>2, <1>4, OneAfterOther
<1>6. out = G[Len(t)]
  BY <1>2, <1>3, <1>5, NextPlace
<1>7. PICK H : Grows(Pieces(t, gen), H) /\ H[Len(t)] = Rendered(t, gen)
  BY RenderedIs
<1>8. Pieces(t, gen) \in Seq(Texts) /\ Len(Pieces(t, gen)) = Len(t) /\ Len(t) \in Nat
  BY PiecesShape, LinesOf DEF Shape
<1>9. G[Len(t)] = H[Len(t)]
  BY <1>2, <1>7, <1>8, GrowthIsOne
<1> QED BY <1>6, <1>7, <1>9

Written(line, gen, inside) ==
    IF line = Start THEN <<line>> \o gen
    ELSE IF line = End \/ ~inside THEN <<line>> ELSE <<>>

LEMMA WriteSteps ==
    ASSUME NEW t \in Texts, NEW gen \in Seq(Plain), NEW lines \in Texts, NEW out, NEW inside \in BOOLEAN,
           Rewriting(t, gen, lines, out, inside), lines # <<>>
    PROVE  Rewriting(t, gen, Tail(lines), Then(out, Written(Head(lines), gen, inside)),
                     Head(lines) = Start \/ (inside /\ Head(lines) # End))
<1> DEFINE line == Head(lines)
           now == line = Start \/ (inside /\ line # End)
           more == Then(out, Written(line, gen, inside))
<1>1. PICK ps, R, G : \E j \in 0 .. Len(t), w \in Seq(Plain) :
        /\ Shape(t, ps) /\ Remains(ps, R) /\ Grows(Pieces(t, gen), G)
        /\ lines = Then(w, R[j]) /\ out = G[j]
        /\ inside <=> OpenAt(t, j)
        /\ w # <<>> => inside
  BY DEF Rewriting
<1>2. PICK j \in 0 .. Len(t), w \in Seq(Plain) :
        /\ Shape(t, ps) /\ Remains(ps, R) /\ Grows(Pieces(t, gen), G)
        /\ lines = Then(w, R[j]) /\ out = G[j]
        /\ inside <=> OpenAt(t, j)
        /\ w # <<>> => inside
  BY <1>1
<1>3. Tables(t, gen, ps, R, G)
  BY <1>2 DEF Tables
<1>4. w \in Texts /\ R[j] \in Texts /\ out \in Texts
  BY <1>2, <1>3, PlainTexts, TableFacts
<1>5. ASSUME NEW s \in Seq(Plain), s # <<>>
      PROVE  Head(s) # Start /\ Head(s) # End /\ Tail(s) \in Seq(Plain)
  <2>1. Head(s) \in Plain /\ Tail(s) \in Seq(Plain)
    BY <1>5, HeadTailProperties
  <2> QED BY <2>1 DEF Plain
<1> HIDE DEF line, now, more
<1>6. CASE w # <<>>
  <2>1. line = Head(w) /\ Tail(lines) = Then(Tail(w), R[j])
    BY <1>2, <1>4, <1>6, HeadOfThen DEF line
  <2>2. line # Start /\ line # End /\ Tail(w) \in Seq(Plain)
    BY <1>5, <1>6, <2>1
  <2>3. inside
    BY <1>2, <1>6
  <2>4. Written(line, gen, inside) = <<>>
    BY <2>2, <2>3 DEF Written
  <2>5. more = out
    BY <1>4, <2>4, OneAfterOther DEF more
  <2>6. now
    BY <2>2, <2>3 DEF now
  <2>7. Rewriting(t, gen, Tail(lines), more, now)
    BY <1>2, <2>1, <2>2, <2>3, <2>5, <2>6 DEF Rewriting
  <2> QED BY <2>7 DEF more, now, line
<1>7. CASE w = <<>>
  <2>1. lines = R[j] /\ R[j] # <<>>
    BY <1>2, <1>4, <1>7, OneAfterOther
  <2>2. PICK k \in 1 .. Len(t) : /\ ps[k] # <<>> /\ R[k - 1] = R[j] /\ G[k - 1] = G[j]
                                 /\ (OpenAt(t, k - 1) <=> OpenAt(t, j))
    BY <1>3, <2>1, NextPlace
  <2> DEFINE o == Pieces(t, gen)[k]
  <2>3. /\ ps[k] \in Texts /\ R[k] \in Texts /\ k \in 0 .. Len(t)
        /\ lines = Then(ps[k], R[k]) /\ G[k] = Then(out, o)
        /\ (inside <=> OpenAt(t, k - 1))
    <3>1. k \in 0 .. Len(t)
      BY <1>3, TableFacts
    <3> QED BY <1>2, <1>3, <2>1, <2>2, <3>1, TableFacts
  <2> HIDE DEF o
  <2>4. line = Head(ps[k]) /\ Tail(lines) = Then(Tail(ps[k]), R[k])
    BY <2>2, <2>3, HeadOfThen DEF line
  <2>5. /\ OpenAt(t, k) <=> t[k] = Start \/ (OpenAt(t, k - 1) /\ t[k] # End)
        /\ InBlock(t, k) <=> OpenAt(t, k - 1) /\ t[k] # End
    BY OpenStep
  <2>6. ASSUME Tail(ps[k]) \in Seq(Plain), o = Written(line, gen, inside), now <=> OpenAt(t, k),
               Tail(ps[k]) # <<>> => now
        PROVE  Rewriting(t, gen, Tail(lines), more, now)
    <3>1. more = G[k]
      BY <2>3, <2>6 DEF more
    <3> DEFINE v == Tail(ps[k])
    <3>2. v \in Seq(Plain) /\ Tail(lines) = Then(v, R[k]) /\ (v # <<>> => now)
      BY <2>4, <2>6
    <3> HIDE DEF v
    <3> QED BY <1>2, <2>3, <2>6, <3>1, <3>2 DEF Rewriting
  <2>7. CASE t[k] = Start
    <3>1. line = Start /\ Tail(ps[k]) \in Seq(Plain)
      BY <1>2, <2>4, <2>7, ShapeFacts
    <3>2. o = <<Start>> \o gen
      BY <2>7, PieceFacts DEF o
    <3>3. o = Written(line, gen, inside) /\ now /\ OpenAt(t, k)
      BY <2>5, <2>7, <3>1, <3>2 DEF Written, now
    <3> QED BY <2>6, <3>1, <3>3 DEF more, now, line
  <2>8. CASE t[k] # Start /\ InBlock(t, k)
    <3>1. ps[k] \in Seq(Plain)
      BY <1>2, <2>8, ShapeFacts
    <3>2. line # Start /\ line # End /\ Tail(ps[k]) \in Seq(Plain)
      BY <1>5, <2>2, <2>4, <3>1
    <3>3. inside /\ OpenAt(t, k)
      BY <2>3, <2>5, <2>8
    <3>4. o = <<>>
      BY <2>8, PieceFacts DEF o
    <3>5. o = Written(line, gen, inside) /\ now
      BY <3>2, <3>3, <3>4 DEF Written, now
    <3> QED BY <2>6, <3>2, <3>3, <3>5 DEF more, now, line
  <2>9. CASE t[k] # Start /\ ~InBlock(t, k)
    <3>1. ps[k] = <<t[k]>>
      BY <1>2, <2>9, ShapeFacts
    <3>2. Head(<<t[k]>>) = t[k] /\ Tail(<<t[k]>>) = <<>> /\ <<>> \in Seq(Plain)
      OBVIOUS
    <3>3. line = t[k] /\ Tail(ps[k]) = <<>> /\ Tail(ps[k]) \in Seq(Plain)
      BY <2>4, <3>1, <3>2
    <3>4. o = <<t[k]>>
      BY <2>9, PieceFacts DEF o
    <3>5. line = End \/ ~inside
      BY <2>3, <2>5, <2>9, <3>3
    <3>6. o = Written(line, gen, inside)
      BY <2>9, <3>3, <3>4, <3>5 DEF Written
    <3>7. now <=> OpenAt(t, k)
      BY <2>3, <2>5, <2>9, <3>3 DEF now
    <3> QED BY <2>6, <3>3, <3>6, <3>7 DEF more, now, line
  <2> QED BY <2>7, <2>8, <2>9
<1> QED BY <1>6, <1>7

-----------------------------------------------------------------------------
LEMMA FileFacts ==
    /\ Len(Files) = 3 /\ UpdFiles = {Files[1], Files[2], Files[3]}
    /\ \A n \in 1 .. 3 : Files[n] \in UpdFiles
    /\ \A m, n \in 1 .. 3 : Files[m] = Files[n] => m = n
    /\ \A f \in UpdFiles : \E n \in 1 .. 3 : f = Files[n]
<1>1. /\ Len(Files) = 3 /\ DOMAIN Files = 1 .. 3
      /\ Files[1] = "README.md" /\ Files[2] = "build.tcl" /\ Files[3] = ".gitignore"
  BY DEF Files
<1>2. UpdFiles = {Files[1], Files[2], Files[3]}
  BY <1>1 DEF UpdFiles, Range
<1> QED BY <1>1, <1>2

UpdRecord ==
    /\ upd = [at |-> upd.at, data |-> upd.data, file |-> upd.file, files |-> upd.files,
              lines |-> upd.lines, inside |-> upd.inside, original |-> upd.original,
              torn |-> upd.torn, runs |-> upd.runs]
    /\ upd.at \in {"rest", "write", "done"} /\ upd.data \in DataVersions /\ upd.file \in 1 .. 3
    /\ upd.files \in [UpdFiles -> Texts] /\ upd.lines \in Texts /\ upd.inside \in BOOLEAN
    /\ upd.original \in [UpdFiles -> Templates]

Current(f) == upd.files[f] = Rendered(upd.original[f], Generated(f, upd.data))

\* A file no stop hit holds its own lines; the files before the one being written, and
\* all of them after a run that ended, are those of the data.
FilesKept ==
    \/ upd = NoUpdate
    \/ /\ UpdRecord
       /\ \A f \in UpdFiles \ upd.torn :
             upd.at # "write" \/ f # File => Variant(upd.original[f], upd.files[f])
       /\ upd.at = "write" /\ File \notin upd.torn =>
             Rewriting(upd.original[File], Generated(File, upd.data), upd.lines,
                       upd.files[File], upd.inside)
       /\ upd.at = "write" =>
             \A n \in 1 .. upd.file - 1 : Files[n] \notin upd.torn => Current(Files[n])
       /\ upd.at = "done" => \A f \in UpdFiles \ upd.torn : Current(f)

LEMMA TheirTexts ==
    /\ Templates \subseteq Texts
    /\ \A f \in UpdFiles, d \in DataVersions : Generated(f, d) \in Seq(Plain)
BY TheirLines DEF Texts

\* A text is a variant of itself.
LEMMA OwnVariant ==
    ASSUME NEW t \in Texts
    PROVE  Variant(t, t)
<1> DEFINE ps == [i \in 1 .. Len(t) |-> <<t[i]>>]
           R == [i \in 0 .. Len(t) |-> SubSeq(t, i + 1, Len(t))]
<1>0. Len(t) \in Nat
  BY LinesOf
<1>1. \A i \in 1 .. Len(t) : ps[i] = <<t[i]>> /\ ps[i] \in Texts
  BY LinesOf
<1>2. ps \in Seq(Texts) /\ Len(ps) = Len(t)
  <2>1. ps \in [1 .. Len(t) -> Texts]
    BY LinesOf
  <2> QED BY <1>0, <2>1
<1>3. \A i \in 0 .. Len(t) : R[i] = SubSeq(t, i + 1, Len(t))
  OBVIOUS
<1>4. \A i \in 0 .. Len(t) : R[i] \in Texts
  <2> SUFFICES ASSUME NEW i \in 0 .. Len(t) PROVE SubSeq(t, i + 1, Len(t)) \in Texts
    BY <1>3
  <2>1. ASSUME NEW n \in i + 1 .. Len(t) PROVE t[n] \in Lines
    <3>1. n \in 1 .. Len(t)
      BY <1>0
    <3> QED BY <3>1, LinesOf
  <2> QED BY <1>0, <2>1, SubSeqProperties DEF Texts
<1>5. R \in [0 .. Len(t) -> Texts]
  BY <1>4
<1>6. R[Len(t)] = <<>>
  BY <1>0, <1>3, SubSeqEmpty
<1>7. R[0] = t
  <2>1. R[0] = SubSeq(t, 1, Len(t))
    BY <1>0, <1>3
  <2> QED BY <2>1, SubSeqFull DEF Texts
<1>8. ASSUME NEW i \in 1 .. Len(t) PROVE R[i - 1] = Then(ps[i], R[i])
  <2>1. R[i - 1] = SubSeq(t, i, Len(t)) /\ R[i] = SubSeq(t, i + 1, Len(t))
    BY <1>0, <1>3
  <2>2. SubSeq(t, i, Len(t)) = <<t[i]>> \o SubSeq(t, i + 1, Len(t))
    <3>1. Len(t) \in i .. Len(t)
      BY <1>0
    <3> QED BY <3>1, SubSeqRecursiveFirst DEF Texts
  <2> QED BY <1>1, <2>1, <2>2 DEF Then
<1> HIDE DEF ps, R
<1>9. Remains(ps, R)
  BY <1>2, <1>5, <1>6, <1>8 DEF Remains
<1>10. ASSUME NEW i \in 1 .. Len(t)
       PROVE  /\ t[i] = Start => Len(ps[i]) > 0 /\ Head(ps[i]) = Start /\ Tail(ps[i]) \in Seq(Plain)
              /\ t[i] # Start /\ InBlock(t, i) => ps[i] \in Seq(Plain)
              /\ t[i] # Start /\ ~InBlock(t, i) => ps[i] = <<t[i]>>
  <2>1. Len(<<t[i]>>) = 1 /\ Head(<<t[i]>>) = t[i] /\ Tail(<<t[i]>>) = <<>> /\ <<>> \in Seq(Plain)
    OBVIOUS
  <2>2. t[i] # Start /\ InBlock(t, i) => <<t[i]>> \in Seq(Plain)
    <3> SUFFICES ASSUME t[i] # Start, InBlock(t, i) PROVE t[i] \in Plain
      OBVIOUS
    <3>1. t[i] # End
      BY OpenStep
    <3> QED BY <3>1, LinesOf DEF Plain
  <2>3. ps[i] = <<t[i]>>
    BY <1>1
  <2>4. Len(<<t[i]>>) > 0
    BY <2>1
  <2> DEFINE s == <<t[i]>>
  <2>5. ps[i] = s /\ Len(s) > 0 /\ Head(s) = t[i] /\ Tail(s) \in Seq(Plain)
    BY <2>1, <2>3, <2>4
  <2>6. t[i] # Start /\ InBlock(t, i) => s \in Seq(Plain)
    BY <2>2
  <2> HIDE DEF s
  <2>7. t[i] = Start => Len(ps[i]) > 0 /\ Head(ps[i]) = Start /\ Tail(ps[i]) \in Seq(Plain)
    BY <2>5
  <2>8. t[i] # Start /\ InBlock(t, i) => ps[i] \in Seq(Plain)
    BY <2>5, <2>6
  <2> QED BY <2>3, <2>7, <2>8
<1>11. Shape(t, ps)
  BY <1>2, <1>10 DEF Shape
<1> QED BY <1>7, <1>9, <1>11 DEF Variant

LEMMA UpdateBegins == Init => FilesKept
<1> SUFFICES ASSUME upd \in StartUpdates \cup {NoUpdate} PROVE FilesKept
  BY DEF Init
<1>1. CASE upd = NoUpdate
  BY <1>1 DEF FilesKept
<1>2. CASE upd \in StartUpdates
  <2>9. PICK d \in DataVersions, t \in [UpdFiles -> Templates] :
           upd = BeforeUpdates(d, t)
    BY <1>2 DEF StartUpdates
  <2>1. upd = [at |-> "rest", data |-> d, file |-> 1, files |-> t, lines |-> <<>>, inside |-> FALSE,
               original |-> t, torn |-> {}, runs |-> 0]
    BY <2>9 DEF BeforeUpdates, NoUpdate
  <2>2. /\ upd.at = "rest" /\ upd.files = t /\ upd.original = t /\ upd.data = d /\ upd.file = 1
        /\ upd.lines = <<>> /\ upd.inside = FALSE
    BY <2>1
  <2>3. t \in [UpdFiles -> Texts]
    BY TheirTexts
  <2>4. UpdRecord
    <3>1. upd = [at |-> upd.at, data |-> upd.data, file |-> upd.file, files |-> upd.files,
                 lines |-> upd.lines, inside |-> upd.inside, original |-> upd.original,
                 torn |-> upd.torn, runs |-> upd.runs]
      BY <2>1
    <3>2. <<>> \in Texts /\ FALSE \in BOOLEAN /\ 1 \in 1 .. 3
      BY OneAfterOther
    <3> QED BY <2>2, <2>3, <3>1, <3>2 DEF UpdRecord
  <2>5. \A f \in UpdFiles : Variant(upd.original[f], upd.files[f])
    BY <2>2, <2>3, OwnVariant
  <2> QED BY <2>2, <2>4, <2>5 DEF FilesKept
<1> QED BY <1>1, <1>2

LEMMA UpdateOrNot == [Next]_hvars => UpdateNext \/ UNCHANGED upd
BY DEF Next, hvars

\* A file about to be written: all it has is to be read.
LEMMA OpensRight ==
    ASSUME UpdRecord, NEW u, NEW n \in 1 .. 3, upd' = Opened(u, n),
           u = upd \/ u = [upd EXCEPT !.runs = @ + 1],
           \A f \in UpdFiles \ upd.torn : Variant(upd.original[f], upd.files[f]),
           \A m \in 1 .. n - 1 : Files[m] \notin upd.torn => Current(Files[m])
    PROVE  FilesKept'
<1> DEFINE f0 == Files[n]
<1>1. /\ f0 \in UpdFiles /\ f0 = Files[n]
      /\ \A m \in 1 .. n - 1 : Files[m] \in UpdFiles /\ Files[m] # f0
  <2>1. \A m \in 1 .. n - 1 : m \in 1 .. 3 /\ m # n
    OBVIOUS
  <2> QED BY <2>1, FileFacts
<1> HIDE DEF f0
<1>2. /\ u.at = upd.at /\ u.data = upd.data /\ u.files = upd.files /\ u.original = upd.original
      /\ u.torn = upd.torn
      /\ u = [at |-> u.at, data |-> u.data, file |-> u.file, files |-> u.files, lines |-> u.lines,
              inside |-> u.inside, original |-> u.original, torn |-> u.torn, runs |-> u.runs]
  BY DEF UpdRecord
<1>3. upd' = [at |-> "write", data |-> upd.data, file |-> n,
              files |-> [upd.files EXCEPT ![f0] = <<>>], lines |-> upd.files[f0],
              inside |-> FALSE, original |-> upd.original, torn |-> upd.torn, runs |-> u.runs]
  BY <1>1, <1>2 DEF Opened
<1>4. /\ upd'.at = "write" /\ upd'.data = upd.data /\ upd'.file = n /\ upd'.lines = upd.files[f0]
      /\ upd'.inside = FALSE /\ upd'.original = upd.original /\ upd'.torn = upd.torn
      /\ upd'.files = [upd.files EXCEPT ![f0] = <<>>]
  BY <1>3
<1>5. /\ upd.files \in [UpdFiles -> Texts] /\ upd.original \in [UpdFiles -> Templates]
      /\ upd.data \in DataVersions
  BY DEF UpdRecord
<1>6. /\ upd'.files \in [UpdFiles -> Texts] /\ upd'.files[f0] = <<>>
      /\ \A f \in UpdFiles : f # f0 => upd'.files[f] = upd.files[f]
  BY <1>1, <1>4, <1>5, OneAfterOther
<1>7. File' = f0
  BY <1>1, <1>4 DEF File
<1>8. UpdRecord'
  <2>1. upd' = [at |-> upd'.at, data |-> upd'.data, file |-> upd'.file, files |-> upd'.files,
                lines |-> upd'.lines, inside |-> upd'.inside, original |-> upd'.original,
                torn |-> upd'.torn, runs |-> upd'.runs]
    BY <1>3
  <2>2. upd.files[f0] \in Texts
    BY <1>1, <1>5
  <2> QED BY <1>4, <1>5, <1>6, <2>1, <2>2 DEF UpdRecord
<1>9. \A f \in UpdFiles \ upd'.torn : f # File' => Variant(upd'.original[f], upd'.files[f])
  BY <1>4, <1>6, <1>7
<1>10. File' \notin upd'.torn =>
          Rewriting(upd'.original[File'], Generated(File', upd'.data), upd'.lines,
                    upd'.files[File'], upd'.inside)
  <2> SUFFICES ASSUME f0 \notin upd.torn
               PROVE  Rewriting(upd.original[f0], Generated(f0, upd.data), upd.files[f0], <<>>, FALSE)
    BY <1>4, <1>6, <1>7
  <2>1. upd.original[f0] \in Texts /\ Generated(f0, upd.data) \in Seq(Plain)
    BY <1>1, <1>5, TheirTexts
  <2> QED BY <1>1, <2>1, WriteBegins
<1>11. \A m \in 1 .. upd'.file - 1 : Files[m] \notin upd'.torn => Current(Files[m])'
  BY <1>1, <1>4, <1>6 DEF Current
<1> QED BY <1>4, <1>8, <1>9, <1>10, <1>11 DEF FilesKept

\* The loop writes a line.
LEMMA RewritesRight ==
    ASSUME UpdRecord, FilesKept, upd.at = "write", upd.lines # <<>>,
           Rewrites(Generated(File, upd.data))
    PROVE  FilesKept'
<1> DEFINE f0 == File
           gen == Generated(f0, upd.data)
           line == Head(upd.lines)
           now == line = Start \/ (upd.inside /\ line # End)
           more == upd.files[f0] \o Written(line, gen, upd.inside)
<1>1. /\ f0 \in UpdFiles /\ f0 = File /\ f0 = Files[upd.file]
      /\ \A m \in 1 .. upd.file - 1 : Files[m] \in UpdFiles /\ Files[m] # f0
  <2>1. upd.file \in 1 .. 3 /\ \A m \in 1 .. upd.file - 1 : m \in 1 .. 3 /\ m # upd.file
    BY DEF UpdRecord
  <2> QED BY <2>1, FileFacts DEF File
<1>2. upd.data \in DataVersions /\ upd.files \in [UpdFiles -> Texts] /\ upd.lines \in Texts
      /\ upd.original \in [UpdFiles -> Templates] /\ upd.inside \in BOOLEAN
  BY DEF UpdRecord
<1>3. gen \in Seq(Plain)
  BY <1>1, <1>2, TheirTexts
<1>4. line \in Lines /\ Tail(upd.lines) \in Texts
  BY <1>2, HeadTailProperties DEF Texts
<1>5. Written(line, gen, upd.inside) \in Texts
  <2>1. CASE line = Start
    <3>1. <<Start>> \o gen \in Texts
      BY <1>3, AddsPiece
    <3> DEFINE s == <<line>> \o gen
    <3>2. s \in Texts
      BY <2>1, <3>1
    <3>3. Written(line, gen, upd.inside) = s
      BY <2>1 DEF Written
    <3> HIDE DEF s
    <3> QED BY <3>2, <3>3
  <2>2. CASE line # Start
    <3>1. <<line>> \in Texts /\ <<>> \in Texts
      BY <1>4, OneAfterOther DEF Texts
    <3> QED BY <2>2, <3>1 DEF Written
  <2> QED BY <2>1, <2>2
<1>6. more = Then(upd.files[f0], Written(line, gen, upd.inside)) /\ more \in Texts
  <2>1. Then(upd.files[f0], Written(line, gen, upd.inside)) \in Texts
    BY <1>1, <1>2, <1>5, OneAfterOther
  <2> QED BY <2>1 DEF Then
<1>7. upd' = [upd EXCEPT !.lines = Tail(@), !.files[f0] = more, !.inside = now]
  BY DEF Rewrites, Written
<1>8. now \in BOOLEAN
  OBVIOUS
<1> HIDE DEF f0, gen, line, now, more
<1>9. upd' = [at |-> upd.at, data |-> upd.data, file |-> upd.file,
              files |-> [upd.files EXCEPT ![f0] = more], lines |-> Tail(upd.lines),
              inside |-> now, original |-> upd.original, torn |-> upd.torn, runs |-> upd.runs]
  BY <1>7 DEF UpdRecord
<1>10. /\ upd'.at = "write" /\ upd'.data = upd.data /\ upd'.file = upd.file
       /\ upd'.lines = Tail(upd.lines) /\ upd'.inside = now /\ upd'.original = upd.original
       /\ upd'.torn = upd.torn /\ upd'.files = [upd.files EXCEPT ![f0] = more]
  BY <1>9
<1>11. /\ upd'.files \in [UpdFiles -> Texts] /\ upd'.files[f0] = more
       /\ \A f \in UpdFiles : f # f0 => upd'.files[f] = upd.files[f]
  BY <1>1, <1>2, <1>6, <1>10
<1>12. File' = f0
  BY <1>1, <1>10 DEF File
<1>13. UpdRecord'
  <2>1. upd' = [at |-> upd'.at, data |-> upd'.data, file |-> upd'.file, files |-> upd'.files,
                lines |-> upd'.lines, inside |-> upd'.inside, original |-> upd'.original,
                torn |-> upd'.torn, runs |-> upd'.runs]
    BY <1>9
  <2>2. upd.file \in 1 .. 3
    BY DEF UpdRecord
  <2> QED BY <1>2, <1>4, <1>8, <1>10, <1>11, <2>1, <2>2 DEF UpdRecord
<1>14. /\ \A f \in UpdFiles \ upd.torn : f # f0 => Variant(upd.original[f], upd.files[f])
       /\ f0 \notin upd.torn =>
             Rewriting(upd.original[f0], gen, upd.lines, upd.files[f0], upd.inside)
       /\ \A m \in 1 .. upd.file - 1 : Files[m] \notin upd.torn => Current(Files[m])
  <2>1. upd # NoUpdate
    BY DEF NoUpdate
  <2> QED BY <1>1, <2>1 DEF FilesKept, gen
<1>15. \A f \in UpdFiles \ upd'.torn : f # File' => Variant(upd'.original[f], upd'.files[f])
  BY <1>10, <1>11, <1>12, <1>14
<1>16. File' \notin upd'.torn =>
          Rewriting(upd'.original[File'], Generated(File', upd'.data), upd'.lines,
                    upd'.files[File'], upd'.inside)
  <2> SUFFICES ASSUME f0 \notin upd.torn
               PROVE  Rewriting(upd.original[f0], gen, Tail(upd.lines), more, now)
    BY <1>10, <1>11, <1>12 DEF gen
  <2>1. upd.original[f0] \in Texts
    BY <1>1, <1>2, TheirTexts
  <2>2. Rewriting(upd.original[f0], gen, upd.lines, upd.files[f0], upd.inside)
    BY <1>14
  <2>3. Rewriting(upd.original[f0], gen, Tail(upd.lines),
                  Then(upd.files[f0], Written(Head(upd.lines), gen, upd.inside)),
                  Head(upd.lines) = Start \/ (upd.inside /\ Head(upd.lines) # End))
    BY <1>2, <1>3, <2>1, <2>2, WriteSteps
  <2> QED BY <1>6, <2>3 DEF line, now
<1>17. \A m \in 1 .. upd'.file - 1 : Files[m] \notin upd'.torn => Current(Files[m])'
  BY <1>1, <1>10, <1>11, <1>14 DEF Current
<1> QED BY <1>10, <1>13, <1>15, <1>16, <1>17 DEF FilesKept

\* A file written to its end.
LEMMA WrittenRight ==
    ASSUME UpdRecord, FilesKept, upd.at = "write", upd.lines = <<>>, File \notin upd.torn
    PROVE  Current(File) /\ Variant(upd.original[File], upd.files[File])
<1>1. File \in UpdFiles
  BY FileFacts DEF UpdRecord, File
<1>2. upd.original[File] \in Texts /\ Generated(File, upd.data) \in Seq(Plain)
  BY <1>1, TheirTexts DEF UpdRecord
<1>3. Rewriting(upd.original[File], Generated(File, upd.data), <<>>, upd.files[File], upd.inside)
  <2>1. upd # NoUpdate
    BY DEF NoUpdate
  <2> QED BY <2>1 DEF FilesKept
<1>4. Current(File)
  BY <1>2, <1>3, WriteEnds DEF Current
<1> QED BY <1>2, <1>4, RenderedIs DEF Current

LEMMA FilesStay == FilesKept /\ [Next]_hvars => FilesKept'
<1>0. FilesKept /\ UNCHANGED upd => FilesKept'
  <2> SUFFICES ASSUME FilesKept, upd' = upd PROVE FilesKept'
    OBVIOUS
  <2>1. /\ UpdRecord' <=> UpdRecord
        /\ File' = File
        /\ \A f : Current(f)' <=> Current(f)
    BY DEF UpdRecord, File, Current
  <2> QED BY <2>1 DEF FilesKept
<1> SUFFICES ASSUME FilesKept, UpdateNext PROVE FilesKept'
  BY <1>0, UpdateOrNot
<1>1. upd # NoUpdate
  <2>1. upd.at \in {"rest", "write", "done"}
    BY DEF UpdateNext, UpdateStarts, update_readme, update_file, NextFile, UpdateStops, DataEdited
  <2> QED BY <2>1 DEF NoUpdate
<1>2. /\ UpdRecord
      /\ \A f \in UpdFiles \ upd.torn :
            upd.at # "write" \/ f # File => Variant(upd.original[f], upd.files[f])
      /\ upd.at = "write" =>
            \A n \in 1 .. upd.file - 1 : Files[n] \notin upd.torn => Current(Files[n])
  BY <1>1 DEF FilesKept
<1>3. CASE UpdateStarts
  <2>1. upd.at # "write" /\ upd' = Opened([upd EXCEPT !.runs = @ + 1], 1)
    BY <1>3 DEF UpdateStarts
  <2> QED BY <1>2, <2>1, OpensRight
<1>4. CASE update_readme \/ update_file
  <2>1. upd.at = "write" /\ upd.lines # <<>> /\ Rewrites(Generated(File, upd.data))
    BY <1>4 DEF update_readme, update_file, Generated
  <2> QED BY <1>2, <2>1, RewritesRight
<1>5. CASE NextFile
  <2>1. upd.at = "write" /\ upd.lines = <<>>
    BY <1>5 DEF NextFile
  <2>2. File \notin upd.torn => Current(File) /\ Variant(upd.original[File], upd.files[File])
    BY <1>2, <2>1, WrittenRight
  <2>3. \A f \in UpdFiles \ upd.torn : Variant(upd.original[f], upd.files[f])
    BY <1>2, <2>2
  <2>4. upd.file \in 1 .. 3 /\ File = Files[upd.file]
    BY <1>2 DEF UpdRecord, File
  <2>5. \A n \in 1 .. upd.file : Files[n] \notin upd.torn => Current(Files[n])
    <3>1. \A n \in 1 .. upd.file : n \in 1 .. upd.file - 1 \/ n = upd.file
      BY <2>4
    <3> QED BY <1>2, <2>1, <2>2, <2>4, <3>1
  <2>6. CASE upd.file < 3
    <3>1. upd' = Opened(upd, upd.file + 1)
      BY <1>5, <2>6, FileFacts DEF NextFile
    <3>2. upd.file + 1 \in 1 .. 3 /\ (upd.file + 1) - 1 = upd.file
      BY <2>4, <2>6
    <3> QED BY <1>2, <2>3, <2>5, <3>1, <3>2, OpensRight
  <2>7. CASE ~(upd.file < 3)
    <3>1. upd' = [upd EXCEPT !.at = "done"]
      BY <1>5, <2>7, FileFacts DEF NextFile
    <3>2. /\ UpdRecord' /\ upd'.at = "done" /\ upd'.files = upd.files /\ upd'.data = upd.data
          /\ upd'.original = upd.original /\ upd'.torn = upd.torn
      BY <1>2, <3>1 DEF UpdRecord
    <3>3. \A f \in UpdFiles \ upd.torn : Current(f)
      <4>1. upd.file = 3
        BY <2>4, <2>7
      <4> QED BY <2>5, <4>1, FileFacts
    <3>4. \A f \in UpdFiles \ upd'.torn : Current(f)'
      BY <3>2, <3>3 DEF Current
    <3> QED BY <2>3, <3>2, <3>4 DEF FilesKept
  <2> QED BY <2>6, <2>7
<1>6. CASE UpdateStops
  <2>1. upd.at = "write"
        /\ upd' = [upd EXCEPT !.at = "rest", !.lines = <<>>,
                              !.torn = IF upd.lines = <<>> THEN @ ELSE @ \cup {File}]
    BY <1>6 DEF UpdateStops
  <2>2. /\ UpdRecord' /\ upd'.at = "rest" /\ upd'.files = upd.files /\ upd'.original = upd.original
        /\ upd'.torn = IF upd.lines = <<>> THEN upd.torn ELSE upd.torn \cup {File}
    BY <1>2, <2>1, OneAfterOther DEF UpdRecord
  <2>3. \A f \in UpdFiles \ upd'.torn : Variant(upd.original[f], upd.files[f])
    BY <1>2, <2>1, <2>2, WrittenRight
  <2> QED BY <2>2, <2>3 DEF FilesKept
<1>7. CASE DataEdited
  <2>1. PICK d \in DataVersions : upd' = [upd EXCEPT !.at = "rest", !.data = d]
    BY <1>7 DEF DataEdited
  <2>2. upd.at = "done"
    BY <1>7 DEF DataEdited
  <2>3. /\ UpdRecord' /\ upd'.at = "rest" /\ upd'.files = upd.files /\ upd'.original = upd.original
        /\ upd'.torn = upd.torn
    BY <1>2, <2>1 DEF UpdRecord
  <2> QED BY <1>2, <2>2, <2>3 DEF FilesKept
<1> QED BY <1>3, <1>4, <1>5, <1>6, <1>7 DEF UpdateNext

\* However often update.py ran, was stopped and ran again with other data: after a run that
\* ended the three files say the same of the same data and have kept every line of their
\* own, for any data and any files, but for a file that a stop hit while it was written.
THEOREM FilesOfOneData == Spec => []FilesAgree
<1>1. Init => FilesKept
  BY UpdateBegins
<1>2. FilesKept /\ [Next]_hvars => FilesKept'
  BY FilesStay
<1>3. FilesKept => FilesAgree
  BY DEF FilesKept, FilesAgree, Current, NoUpdate
<1> QED BY <1>1, <1>2, <1>3, PTL DEF Spec
=============================================================================
