----------------------------- MODULE ZirconReads -----------------------------
(***************************************************************************)
(* Reads of values wider than a register: the AXI4-Lite read channel of    *)
(* zircon_regs cycle by cycle, the words the register file holds for a     *)
(* second access (the high half of a 64-bit counter, the rate meter's      *)
(* window), the snapshot RAM with its extra cycle, and the firmware that   *)
(* puts the values together (zrd64, zircon_rate_read).                     *)
(*                                                                         *)
(* A counter is counted in halves of a two-digit number; the window of the *)
(* rate meter is its sequence number, which every value of it carries.     *)
(***************************************************************************)
EXTENDS Integers, Sequences

CONSTANTS
    Counters,      \* the 64-bit counters: RX_BYTES, TX_BYTES, ...
    RateWords,     \* the registers of the window behind RATE_SEQ
    HALF,          \* 2^32
    MaxCount,      \* bound: values of a counter
    MaxWindows,    \* bound: windows
    MaxReads       \* bound: values the firmware reads

\* What the constants have to be (assumed in StatsBlocks).
ZirconReadsAssumption ==
    /\ HALF \in Nat \ {0} /\ MaxCount \in Nat /\ MaxWindows \in Nat /\ MaxReads \in Nat

VARIABLES
    live,       \* the counter words as they arrived from their clocks
    window,     \* the rate meter's window, as it arrived
    hold,       \* *_hi_hold_reg
    rateHold,   \* *_rate_*_hold_reg
    ar,         \* the address on the bus; NoAddr when arvalid is low
    rValid, rData,   \* r_valid_reg, r_data_reg
    shPend,     \* r_sh_pend_reg
    ramQ,       \* output of the snapshot RAM
    rready,     \* s_axi_rready
    sw,         \* the firmware: what it reads, the addresses left, the data so far
    start,      \* the value when the firmware's first access was accepted
    lastSeq,    \* the firmware's *last_seq
    reads       \* values it read

regVars == <<hold, rateHold>>
vars == <<live, window, hold, rateHold, ar, rValid, rData, shPend, ramQ, rready, sw, start, lastSeq, reads>>

NoAddr == <<"none">>
Lo(c) == <<"lo", c>>
Hi(c) == <<"hi", c>>
Seq0 == <<"seq">>
Rate(w) == <<"rate", w>>
Shadow(i) == <<"sh", i>>
Rest == [kind |-> NoAddr, todo |-> <<>>, got |-> <<>>]

Init ==
    /\ live = [c \in Counters |-> 0] /\ window = 0
    /\ hold = [c \in Counters |-> 0] /\ rateHold = 0
    /\ ar = NoAddr /\ rValid = FALSE /\ rData = 0 /\ shPend = FALSE /\ ramQ = 0
    /\ rready = FALSE
    /\ sw = Rest /\ start = 0 /\ lastSeq = 0 /\ reads = 0

-----------------------------------------------------------------------------
(* The firmware and the bus master.                                        *)

\* The order of zircon_rate_read is HI then LO for the two byte counts: any order.
Orders(S) == {q \in [1 .. 2 -> S] : q[1] # q[2]}

StartRead ==
    /\ sw = Rest /\ reads < MaxReads
    /\ reads' = reads + 1
    /\ \/ \E c \in Counters : sw' = [kind |-> Lo(c), todo |-> <<Lo(c), Hi(c)>>, got |-> <<>>]
       \/ \E q \in Orders(RateWords) :
             sw' = [kind |-> Seq0, todo |-> <<Seq0, Rate(q[1]), Rate(q[2])>>, got |-> <<>>]
       \/ sw' = [kind |-> Shadow(1), todo |-> <<Shadow(1), Shadow(2)>>, got |-> <<>>]
    /\ UNCHANGED <<live, window, regVars, ar, rValid, rData, shPend, ramQ, rready, start, lastSeq>>

\* The counters and the window move when a word arrives.
WordArrives ==
    /\ \/ \E c \in Counters : live[c] < MaxCount /\ live' = [live EXCEPT ![c] = @ + 1]
          /\ UNCHANGED window
       \/ /\ window < MaxWindows
          /\ window' = window + 1
          /\ UNCHANGED live
    /\ UNCHANGED <<regVars, ar, rValid, rData, shPend, ramQ, rready, sw, start, lastSeq, reads>>

-----------------------------------------------------------------------------
(* One cycle of the register file.                                         *)

\* A read is accepted when no response is pending.
DoRead == ar # NoAddr /\ ~rValid /\ ~shPend

IsShadow == ar # NoAddr /\ ar[1] = "sh"
Taken == rValid /\ rready

ReadValue ==
    CASE ar[1] = "lo" -> live[ar[2]] % HALF
      [] ar[1] = "hi" -> hold[ar[2]]
      [] ar[1] = "seq" -> window
      [] ar[1] = "rate" -> rateHold

\* Fault seed: the window is latched by the read of its first value.
HoldWordsLate ==
    /\ hold' = IF DoRead /\ ar[1] = "lo" THEN [hold EXCEPT ![ar[2]] = live[ar[2]] \div HALF] ELSE hold
    /\ rateHold' = IF DoRead /\ ar[1] = "rate" THEN window ELSE rateHold

\* Reading LO latches HI; reading RATE_SEQ latches the whole window.
HoldWords ==
    /\ hold' = IF DoRead /\ ar[1] = "lo" THEN [hold EXCEPT ![ar[2]] = live[ar[2]] \div HALF] ELSE hold
    /\ rateHold' = IF DoRead /\ ar[1] = "seq" THEN window ELSE rateHold

\* The snapshot RAM reads the address on the bus in every cycle; its data is the
\* address here.
RamRead == ramQ' = IF IsShadow THEN ar[2] ELSE 0

Response ==
    /\ shPend' = (DoRead /\ IsShadow)
    /\ rValid' = ((rValid /\ ~Taken) \/ shPend \/ (DoRead /\ ~IsShadow))
    /\ rData' = IF DoRead /\ ~IsShadow THEN ReadValue
                ELSE IF shPend THEN ramQ ELSE rData

\* zircon_rate_read compares the number it read with the last one before it goes
\* on; the other accesses are independent, and the master may put the next address
\* on the bus without waiting for a response.
Left == IF DoRead THEN Tail(sw.todo) ELSE sw.todo
MayIssue == Left # <<>> /\ (sw.kind = Seq0 /\ Head(Left) # Seq0 => sw.got # <<>>)
SameSeq(got) == sw.kind = Seq0 /\ got # <<>> /\ got[1] = lastSeq

Accesses == IF sw.kind = Seq0 THEN 3 ELSE 2

\* The firmware has its value when all responses are there.
Complete == sw # Rest /\ (Len(sw.got) = Accesses \/ SameSeq(sw.got))

\* The master may issue an address while none waits, and takes a response when it
\* is ready.
Master(issue, ready) ==
    /\ ar' = CASE ar # NoAddr /\ ~DoRead -> ar
              [] issue /\ MayIssue /\ ~Complete -> Head(Left)
              [] OTHER -> NoAddr
    /\ rready' = ready
    /\ sw' = [sw EXCEPT !.todo = Left, !.got = IF Taken THEN Append(@, rData) ELSE @]
    /\ start' = CASE DoRead /\ ar[1] = "lo" -> live[ar[2]]
                 [] DoRead /\ ar[1] = "seq" -> window
                 [] OTHER -> start

BusCycle(issue, ready) ==
    /\ sw # Rest /\ ~Complete
    /\ HoldWords /\ RamRead /\ Response /\ Master(issue, ready)
    /\ UNCHANGED <<live, window, lastSeq, reads>>

FinishRead ==
    /\ Complete
    /\ sw' = Rest /\ start' = 0
    /\ lastSeq' = IF sw.kind = Seq0 THEN sw.got[1] ELSE lastSeq
    /\ UNCHANGED <<live, window, regVars, ar, rValid, rData, shPend, ramQ, rready, reads>>

Next ==
    \/ StartRead \/ WordArrives \/ FinishRead
    \/ \E issue, ready \in BOOLEAN : BusCycle(issue, ready)

Spec == Init /\ [][Next]_vars

-----------------------------------------------------------------------------
\* "Reading _LO latches _HI from the same snapshot, so LO then HI is never torn":
\* the value the firmware puts together is the one the counter had when LO was
\* read, however often it moved in between.
NotTorn ==
    Complete /\ sw.kind[1] = "lo" => sw.got[2] * HALF + sw.got[1] = start

\* "A read latches the six registers below from one window": all values are of
\* the window whose number was read.
OneWindow ==
    Complete /\ sw.kind = Seq0 => \A i \in 1 .. Len(sw.got) : sw.got[i] = start

Count(b) == IF b THEN 1 ELSE 0

\* Every accepted access has exactly one response, its own, also when the snapshot
\* RAM answers a cycle later and another access follows at once.
ResponsePaired ==
    sw # Rest =>
        /\ Accesses - Len(sw.todo) = Len(sw.got) + Count(rValid) + Count(shPend)
        /\ sw.kind[1] = "sh" => \A i \in 1 .. Len(sw.got) : sw.got[i] = i
=============================================================================
