---------------------------- MODULE RxFrameQueue ----------------------------
(***************************************************************************)
(* What the receive path promises its dispatcher: frames the MAC-side FIFO *)
(* accepted come out whole, in order and once. A reset of the MAC side may *)
(* lose the youngest frames, and may cut one of them short: that one is    *)
(* marked bad.                                                             *)
(***************************************************************************)
EXTENDS Integers, Sequences

VARIABLES
    q,          \* accepted frames not yet delivered: [beats, bad]
    delivered   \* the last frame delivered, and how many were: [n, beats, bad]

Init ==
    /\ q = <<>>
    /\ delivered = [n |-> 0, beats |-> 0, bad |-> FALSE]

\* A frame of any length is accepted whole.
Accept ==
    /\ Len(q') = Len(q) + 1
    /\ SubSeq(q', 1, Len(q)) = q
    /\ ~q'[Len(q')].bad
    /\ UNCHANGED delivered

\* The oldest frame is delivered with the length and the mark it has in the queue.
Deliver ==
    /\ q # <<>>
    /\ delivered' = [n |-> delivered.n + 1, beats |-> Head(q).beats, bad |-> Head(q).bad]
    /\ q' = Tail(q)

\* A reset keeps a prefix; the frame after it may survive as a bad frame that is
\* not longer than it was.
Reset ==
    /\ UNCHANGED delivered
    /\ \E k \in 0 .. Len(q) :
          \/ q' = SubSeq(q, 1, k)
          \/ /\ k < Len(q)
             /\ \E b \in 1 .. q[k + 1].beats :
                   q' = Append(SubSeq(q, 1, k), [beats |-> b, bad |-> TRUE])

Next == Accept \/ Deliver \/ Reset

Spec == Init /\ [][Next]_<<q, delivered>>
=============================================================================
