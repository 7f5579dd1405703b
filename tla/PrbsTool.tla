------------------------------ MODULE PrbsTool ------------------------------
(***************************************************************************)
(* scripts/zircon_prbs_tool.py: a sender of numbered datagrams (cmd_send,  *)
(* or the generator of the core, which numbers them alike), a network that *)
(* loses, repeats, reorders and damages them, and cmd_listen, which takes  *)
(* a given number of them or gives up when none came for a while, and      *)
(* judges what it got afterwards. A datagram is its number S, the number   *)
(* its pattern belongs to, and how much of it there is: too little for a   *)
(* number (0), the 8 bytes of S alone (1), enough of the pattern to tell   *)
(* it from others (2), or all of it (3).                                   *)
(***************************************************************************)
EXTENDS Naturals, Sequences, Bags

CONSTANTS
    ListenCount,    \* --count of the listener
    SendCount,      \* --count of the sender
    MaxFaults       \* bound on what the network does wrong

ASSUME PrbsAssumption == ListenCount \in Nat /\ SendCount \in Nat

VARIABLE prbs

NoPrbs == [at |-> "idle", next |-> 0, bare |-> FALSE, wire |-> EmptyBag, pkts |-> <<>>,
           faults |-> 0, verdict |-> "none"]

\* bare: datagrams are sent that are 8 bytes long, a number and nothing behind it.
StartPrbs ==
    {[NoPrbs EXCEPT !.at = "listen", !.bare = b] : b \in BOOLEAN}

-----------------------------------------------------------------------------
Datagram(s) == [seq |-> s, pattern |-> s, size |-> IF prbs.bare THEN 1 ELSE 3]

cmd_send ==
    /\ prbs.at = "listen" /\ prbs.next < SendCount
    /\ prbs' = [prbs EXCEPT !.next = @ + 1, !.wire = @ (+) SetToBag({Datagram(prbs.next)})]

\* The damage the network can do to datagram d.
Damaged(d) ==
    {[d EXCEPT !.size = n] : n \in 0 .. d.size - 1}
        \cup {[d EXCEPT !.seq = s] : s \in 0 .. SendCount}
        \cup (IF d.size < 2 THEN {} ELSE {[d EXCEPT !.pattern = SendCount + 1]})

Swap(d, new) == (prbs.wire (-) SetToBag({d})) (+) new

Network ==
    /\ prbs.at = "listen" /\ prbs.faults < MaxFaults
    /\ \E d \in BagToSet(prbs.wire) :
        \E new \in {EmptyBag, SetToBag({d}) (+) SetToBag({d})}
                   \cup {SetToBag({x}) : x \in Damaged(d) \ {d}} :
            prbs' = [prbs EXCEPT !.wire = Swap(d, new), !.faults = @ + 1]

\* The oldest datagram arrives, or, when the network reorders them, another.
recvfrom ==
    /\ prbs.at = "listen" /\ Len(prbs.pkts) < ListenCount
    /\ \E d \in BagToSet(prbs.wire) :
        LET overtakes == \E e \in BagToSet(prbs.wire) : e.seq < d.seq IN
        /\ overtakes => prbs.faults < MaxFaults
        /\ prbs' = [prbs EXCEPT !.wire = Swap(d, EmptyBag), !.pkts = Append(@, d),
                                !.faults = IF overtakes THEN @ + 1 ELSE @]

\* Where the datagrams are that are long enough to carry a number, right or wrong.
seqs(ps) == {i \in DOMAIN ps : ps[i].size # 0}

\* One number and the next.
Neighbours(ps) ==
    {p \in seqs(ps) \X seqs(ps) : p[1] < p[2] /\ \A k \in seqs(ps) : k <= p[1] \/ p[2] <= k}

\* bit_errors(d, gen_payload(seq, len(d))) # 0, or a datagram without number. The
\* pattern is compared as far as the datagram goes.
Bad(d) == d.size = 0 \/ (d.size >= 2 /\ d.pattern # d.seq)

\* Fault seed: the numbers need only go up.
in_order_Rising(ps) == \A p \in Neighbours(ps) : ps[p[1]].seq < ps[p[2]].seq

in_order(ps) == \A p \in Neighbours(ps) : ps[p[1]].seq + 1 = ps[p[2]].seq

\* All came, or none came for the time of --timeout: judge.
cmd_listen ==
    /\ prbs.at = "listen"
    /\ LET pkts == prbs.pkts
           ok == /\ Len(pkts) = ListenCount
                 /\ \A i \in DOMAIN pkts : ~Bad(pkts[i])
                 /\ in_order(pkts)
       IN prbs' = [prbs EXCEPT !.at = "done", !.verdict = IF ok THEN "PASS" ELSE "FAIL"]

PrbsNext == cmd_send \/ Network \/ recvfrom \/ cmd_listen

-----------------------------------------------------------------------------
\* A PASS means that a run of consecutive datagrams arrived as they were sent:
\* one lost, repeated, damaged or out of its order in between is never passed.
\* (Lost ones before the first and after the last are not seen; datagrams cut
\* short behind their number pass, as the listener does not know their length,
\* and cut to 8 bytes one with a damaged number can stand in for the one it names.)
PassMeansClean ==
    prbs.verdict = "PASS" =>
        \E s \in 0 .. SendCount :
            \A i \in 1 .. ListenCount :
                LET d == prbs.pkts[i] IN
                d.size # 0 /\ d.seq = s + i - 1 /\ (d.size >= 2 => d.pattern = s + i - 1)
=============================================================================
