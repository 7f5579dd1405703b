---------------------------- MODULE HostChecksum ----------------------------
(***************************************************************************)
(* The checksum arithmetic of gen_vectors.py: the folding loop, the bit-   *)
(* true model of the UDP checksum the hardware sends (the payload sum of   *)
(* the metadata builder, adjusted so that the deparser's single fold comes *)
(* out right), and the payload words that aim at a corner of it. Words     *)
(* have Word values (2^16). The deparser's sum of the header words is      *)
(* HeaderSum, its carry beyond a word is small.                            *)
(***************************************************************************)
EXTENDS Integers

CONSTANTS
    Word,       \* values of a 16-bit word
    HeaderSums  \* the sums k of header words to look at

ASSUME WordAssumption == Word \in Nat /\ Word > 16
ASSUME HeaderSumsAssumption == HeaderSums \subseteq 1 .. 8 * Word - 1

VARIABLE sum    \* one checksum being computed: the loop's v, and what it is of

Ones == Word - 1
Low(v) == v % Word
Carry(v) == v \div Word

\* One turn of "while v >> 16: v = (v & 0xFFFF) + (v >> 16)".
Fold(v) == Low(v) + Carry(v)

\* The payload sum the metadata builder hands on for a datagram whose sum
\* folds to t.
Adjusted(t, k) ==
    LET a == Low(k) + Carry(k) IN
    IF t >= a THEN t - a
    ELSE IF t >= Carry(k) + 1 THEN t + Ones - a
    ELSE IF t < Carry(k) /\ a <= Word + t THEN Word + t - a
    ELSE IF a <= Ones THEN Ones - a
    ELSE 2 * Ones - a

\* What the deparser sends: the complement of its accumulator, folded once.
udp_csum_hw(t, k) == Ones - Low(Fold(Adjusted(t, k) + k))

\* The word that brings a payload with prefix sum ps to the folded sum t.
CornerWord(t, ps) == IF (t - ps) % Ones = 0 THEN Ones ELSE (t - ps) % Ones

-----------------------------------------------------------------------------
NoSum == [at |-> "idle", v |-> 0, payload |-> 0, k |-> 0]

StartSums ==
    {[at |-> "fold", v |-> p + k, payload |-> p, k |-> k] :
        p \in 0 .. Ones, k \in HeaderSums}

\* Fault seed: the sum is folded once, whatever carry that leaves.
fold_full_Once ==
    \/ /\ sum.at = "fold" /\ Carry(sum.v) # 0
       /\ sum' = [sum EXCEPT !.v = Low(Fold(@)), !.at = "folded"]
    \/ /\ sum.at = "fold" /\ Carry(sum.v) = 0
       /\ sum' = [sum EXCEPT !.at = "folded"]

fold_full ==
    \/ /\ sum.at = "fold" /\ Carry(sum.v) # 0
       /\ sum' = [sum EXCEPT !.v = Fold(@)]
    \/ /\ sum.at = "fold" /\ Carry(sum.v) = 0
       /\ sum' = [sum EXCEPT !.at = "folded"]

SumNext == fold_full

-----------------------------------------------------------------------------
\* The checksum of a datagram whose words add up to s: the complement of
\* s modulo Ones, in 1 .. Ones ("the correct checksum").
RightChecksum(s) == Ones - (1 + ((s - 1) % Ones))

\* The hardware's checksum is the correct one, or 0 ("no checksum"), and that
\* only in the corner where the folded sum is within the header's carry; the
\* loop, the adjustment and the deparser's fold have to agree for that.
ChecksumRight ==
    sum.at = "folded" =>
        LET hw == udp_csum_hw(sum.v, sum.k) IN
        \/ hw = RightChecksum(sum.payload + sum.k)
        \/ hw = 0 /\ sum.v <= Carry(sum.k)
=============================================================================
