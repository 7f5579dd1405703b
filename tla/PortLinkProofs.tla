--------------------------- MODULE PortLinkProofs ---------------------------
(***************************************************************************)
(* Proofs about PortLink, for every number of ports, partners and timers.  *)
(* The true time without link in a mode is never less than what the        *)
(* wrapping difference of two clock readings says (TimeOK): the wrap only  *)
(* makes the fallback later. That a port has link in time needs more: why  *)
(* it has none yet, and what the other port may still interrupt (OnTime).  *)
(* Then about Firmware: the loopback tests run on these ports, and what    *)
(* PortProofs proves of tests holds of them.                               *)
(***************************************************************************)
EXTENDS Firmware, FiniteSetTheorems, TLAPS

LinkRecord == [link_up : BOOLEAN, fec_try : Fecs,
               last_retry : 0 .. CLOCK - 1, last_fec_switch : 0 .. CLOCK - 1]
MacRecord == [fec : Fecs, caught : BOOLEAN, aligned : 0 .. ALIGN]

TimeOK ==
    \A n \in Ports : ~link[n].link_up => tried[n] >= Since(link[n].last_fec_switch)

IInv == TypeOK /\ FecAsChosen /\ TimeOK

-----------------------------------------------------------------------------
(* The wrapping clock.                                                     *)

LEMMA Consts ==
    /\ CLOCK \in Nat \ {0} /\ BOOT \in 0 .. CLOCK - 1 /\ ALIGN \in Nat
    /\ MaxStep \in 1 .. CLOCK /\ MaxWatch \in Nat /\ CLOCK - 1 <= MaxWatch
    /\ MaxEvents \in Nat /\ NUM_PORTS \in {1, 2}
    /\ APP_FEC_MODE \in Modes /\ DesignFec \in Fecs /\ FEC_FALLBACK \in Nat
  BY PortLinkAssumption

LEMMA Wrapped ==
    ASSUME NEW C \in Nat \ {0}, NEW y \in (0 - C) .. C - 1
    PROVE  y % C = IF y >= 0 THEN y ELSE y + C
  OBVIOUS

LEMMA Stepped ==
    ASSUME NEW C \in Nat \ {0}, NEW x \in 0 .. C - 1, NEW d \in 0 .. C
    PROVE  (x + d) % C \in 0 .. C - 1 /\ (x + d) % C \in {x + d, x + d - C}
  OBVIOUS

\* When the clock advances by d, no difference grows by more than d.
LEMMA NeverFaster ==
    ASSUME NEW C \in Nat \ {0}, NEW x \in 0 .. C - 1, NEW t \in 0 .. C - 1, NEW d \in 0 .. C
    PROVE  (((x + d) % C) - t) % C <= ((x - t) % C) + d
<1> DEFINE r == (x + d) % C
<1>1. r \in 0 .. C - 1 /\ r \in {x + d, x + d - C}
  BY Stepped
<1> HIDE DEF r
<1>2. r - t \in (0 - C) .. C - 1 /\ x - t \in (0 - C) .. C - 1
  BY <1>1
<1>3. /\ (r - t) % C = IF r - t >= 0 THEN r - t ELSE r - t + C
      /\ (x - t) % C = IF x - t >= 0 THEN x - t ELSE x - t + C
  BY <1>2, Wrapped
<1>4. (r - t) % C <= ((x - t) % C) + d
  BY <1>1, <1>3
<1> QED BY <1>4 DEF r

LEMMA SinceOK ==
    ASSUME NEW x \in 0 .. CLOCK - 1, NEW t \in 0 .. CLOCK - 1
    PROVE  (x - t) % CLOCK \in 0 .. CLOCK - 1 /\ (x - x) % CLOCK = 0
  BY Consts

-----------------------------------------------------------------------------
(* The functions of port.c and of the MAC.                                 *)

LEMMA SeeLinkOK ==
    ASSUME NEW p \in LinkRecord, NEW up \in BOOLEAN, now \in 0 .. CLOCK - 1
    PROVE  /\ SeeLink(p, up) \in LinkRecord /\ SeeLink(p, up).fec_try = p.fec_try
           /\ SeeLink(p, up).link_up = up
           /\ SeeLink(p, up).last_fec_switch = IF p.link_up /\ ~up THEN now ELSE p.last_fec_switch
  BY DEF SeeLink, LinkRecord

\* What a retry leaves: the mode it had, or after the fallback's time the other.
LEMMA RetryOK ==
    ASSUME NEW p \in LinkRecord, now \in 0 .. CLOCK - 1, fec_mode \in Modes
    PROVE  /\ Retry(p) \in LinkRecord /\ Retry(p).link_up = p.link_up /\ Retry(p).last_retry = now
           /\ \/ /\ Retry(p).fec_try = p.fec_try
                 /\ Retry(p).last_fec_switch = p.last_fec_switch /\ ~FallbackDue(p)
              \/ /\ Retry(p).fec_try = (IF p.fec_try = "off" THEN fec_mode ELSE "off")
                 /\ Retry(p).last_fec_switch = now /\ FallbackDue(p)
<1> DEFINE q == IF FallbackDue(p) THEN SwitchFec(p) ELSE p
           r == port_mac_reinit(q, IF fec_mode = "keep" THEN "keep" ELSE q.fec_try)
<1>1. /\ q \in LinkRecord /\ q.link_up = p.link_up
      /\ \/ /\ q.fec_try = p.fec_try /\ q.last_fec_switch = p.last_fec_switch
            /\ ~FallbackDue(p)
         \/ /\ q.fec_try = (IF p.fec_try = "off" THEN fec_mode ELSE "off")
            /\ q.last_fec_switch = now /\ FallbackDue(p)
  <2>1. CASE FallbackDue(p)
    <3>1. fec_mode \in Fecs /\ "off" \in Fecs
      BY <2>1 DEF FallbackDue, Modes, Fecs
    <3>2. q = SwitchFec(p)
      BY <2>1
    <3> QED BY <2>1, <3>1, <3>2 DEF SwitchFec, LinkRecord
  <2>2. CASE ~FallbackDue(p)
    BY <2>2
  <2> QED BY <2>1, <2>2
<1> HIDE DEF q
<1>2. r = q
  BY <1>1 DEF port_mac_reinit, LinkRecord
<1>3. Retry(p) = [r EXCEPT !.last_retry = now]
  BY DEF Retry, q
<1> HIDE DEF r
<1> QED BY <1>1, <1>2, <1>3 DEF LinkRecord

LEMMA MacInitOK ==
    ASSUME NEW S, NEW fec \in Modes, mac \in [Ports -> MacRecord]
    PROVE  /\ mac_port_init(S, fec) \in [Ports -> MacRecord]
           /\ \A n \in Ports : mac_port_init(S, fec)[n].fec =
                 IF n \in S /\ fec # "keep" THEN fec ELSE mac[n].fec
<1>1. ASSUME NEW n \in Ports
      PROVE  /\ mac_port_init(S, fec)[n] \in MacRecord
             /\ mac_port_init(S, fec)[n].fec = IF n \in S /\ fec # "keep" THEN fec ELSE mac[n].fec
  <2>1. mac[n] \in MacRecord /\ 0 \in 0 .. ALIGN
    BY Consts
  <2> QED BY <2>1 DEF mac_port_init, MacRecord, Modes
<1> QED BY <1>1 DEF mac_port_init

-----------------------------------------------------------------------------
(* The invariant.                                                          *)

LEMMA Types == TypeOK <=>
    /\ link \in [Ports -> LinkRecord] /\ mac \in [Ports -> MacRecord]
    /\ fec_mode \in Modes /\ peer \in [Ports -> Partners \cup {"none"}]
    /\ now \in 0 .. CLOCK - 1 /\ at \in 0 .. NUM_PORTS /\ events \in 0 .. MaxEvents
    /\ waited \in [Ports -> 0 .. MaxWatch] /\ tried \in [Ports -> 0 .. MaxWatch]
  BY DEF TypeOK, LinkRecord, MacRecord

LEMMA InitOK == Init => IInv
<1> SUFFICES ASSUME Init PROVE IInv
  OBVIOUS
<1> DEFINE fec == IF APP_FEC_MODE = "keep" THEN DesignFec ELSE APP_FEC_MODE
<1>1. fec \in Fecs /\ now \in 0 .. CLOCK - 1 /\ 0 \in 0 .. CLOCK - 1 /\ now <= MaxWatch
  BY Consts DEF Init, Modes
<1>2. link = [n \in Ports |-> [link_up |-> FALSE, fec_try |-> fec,
                               last_retry |-> 0, last_fec_switch |-> 0]]
  BY DEF Init
<1>3. PICK heard \in SUBSET Ports, good \in [Ports -> 0 .. ALIGN] :
         mac = [n \in Ports |-> [fec |-> fec, caught |-> n \in heard, aligned |-> good[n]]]
  BY DEF Init
<1>4. TypeOK
  <2>1. link \in [Ports -> LinkRecord] /\ mac \in [Ports -> MacRecord]
    BY <1>1, <1>2, <1>3 DEF LinkRecord, MacRecord
  <2>2. /\ fec_mode \in Modes /\ peer \in [Ports -> Partners \cup {"none"}]
        /\ at \in 0 .. NUM_PORTS /\ events \in 0 .. MaxEvents
        /\ waited \in [Ports -> 0 .. MaxWatch] /\ tried \in [Ports -> 0 .. MaxWatch]
    BY <1>1, Consts DEF Init
  <2> QED BY <1>1, <2>1, <2>2, Types
<1>5. FecAsChosen
  BY <1>2, <1>3 DEF Init, FecAsChosen
<1>6. TimeOK
  BY <1>1, <1>2, Wrapped, Consts DEF Init, TimeOK, Since
<1> QED BY <1>4, <1>5, <1>6 DEF IInv

LEMMA LinkPollOK ==
    ASSUME IInv, NEW n \in Ports, LinkPoll(n)
    PROVE  /\ IInv'
           /\ mac'[n].fec # mac[n].fec => tried[n] >= FEC_FALLBACK
<1> DEFINE up == mac_link_up(n)
           p == SeeLink(link[n], up)
<1>1. /\ link \in [Ports -> LinkRecord] /\ mac \in [Ports -> MacRecord]
      /\ now \in 0 .. CLOCK - 1 /\ fec_mode \in Modes
      /\ tried \in [Ports -> 0 .. MaxWatch] /\ waited \in [Ports -> 0 .. MaxWatch]
  BY Types DEF IInv
<1>2. up \in BOOLEAN
  BY DEF mac_link_up, Matched
<1>3. /\ p \in LinkRecord /\ p.fec_try = link[n].fec_try /\ p.link_up = up
      /\ p.last_fec_switch = IF link[n].link_up /\ ~up THEN now ELSE link[n].last_fec_switch
  BY <1>1, <1>2, SeeLinkOK
<1>4. /\ at = n /\ at' = n + 1
      /\ IF RetryDue(p)
         THEN /\ link' = [link EXCEPT ![n] = Retry(p)]
              /\ mac' = mac_port_init({n}, IF fec_mode = "keep" THEN "keep" ELSE Retry(p).fec_try)
         ELSE link' = [link EXCEPT ![n] = p] /\ mac' = mac
      /\ waited' = [waited EXCEPT ![n] = IF p.link_up THEN 0 ELSE @]
      /\ tried' = [tried EXCEPT ![n] =
                     IF p.link_up \/ link[n].link_up \/ mac'[n].fec # mac[n].fec THEN 0 ELSE @]
      /\ fec_mode' = fec_mode /\ peer' = peer /\ now' = now /\ events' = events
  BY DEF LinkPoll
<1> HIDE DEF up, p
\* What the port and its MAC become, in three cases.
<1>5. \E q \in LinkRecord :
        /\ link' = [link EXCEPT ![n] = q] /\ q.link_up = up
        /\ mac' \in [Ports -> MacRecord]
        /\ \A k \in Ports : k # n => mac'[k].fec = mac[k].fec
        /\ mac'[n].fec = q.fec_try
        /\ \/ q.fec_try = p.fec_try /\ q.last_fec_switch = p.last_fec_switch
           \/ /\ q.fec_try = (IF p.fec_try = "off" THEN fec_mode ELSE "off")
              /\ q.last_fec_switch = now /\ FallbackDue(p) /\ ~up
  <2>1. mac[n].fec = link[n].fec_try
    BY DEF IInv, FecAsChosen
  <2>2. CASE ~RetryDue(p)
    BY <1>1, <1>3, <1>4, <2>1, <2>2
  <2>3. CASE RetryDue(p)
    <3> DEFINE q == Retry(p)
               fec == IF fec_mode = "keep" THEN "keep" ELSE q.fec_try
    <3>1. /\ q \in LinkRecord /\ q.link_up = p.link_up
          /\ \/ q.fec_try = p.fec_try /\ q.last_fec_switch = p.last_fec_switch
             \/ /\ q.fec_try = (IF p.fec_try = "off" THEN fec_mode ELSE "off")
                /\ q.last_fec_switch = now /\ FallbackDue(p)
      BY <1>1, <1>3, RetryOK
    <3>2. link' = [link EXCEPT ![n] = q] /\ mac' = mac_port_init({n}, fec) /\ ~up
      BY <1>3, <1>4, <2>3 DEF RetryDue
    <3> HIDE DEF q
    <3>3. q.fec_try \in Fecs /\ q.fec_try # "keep" /\ fec \in Modes
      BY <3>1 DEF LinkRecord, Fecs, Modes
    <3> HIDE DEF fec
    <3>4. /\ mac' \in [Ports -> MacRecord]
          /\ \A k \in Ports : mac'[k].fec = IF k \in {n} /\ fec # "keep" THEN fec ELSE mac[k].fec
      BY <1>1, <3>2, <3>3, MacInitOK
    <3>5. mac'[n].fec = q.fec_try
      <4>1. CASE fec_mode = "keep"
        <5>1. ~FallbackDue(p)
          BY <4>1 DEF FallbackDue
        <5>2. fec = "keep"
          BY <4>1 DEF fec
        <5> QED BY <1>3, <2>1, <3>1, <3>4, <5>1, <5>2
      <4>2. CASE fec_mode # "keep"
        BY <3>3, <3>4, <4>2 DEF fec
      <4> QED BY <4>1, <4>2
    <3>6. \A k \in Ports : k # n => mac'[k].fec = mac[k].fec
      BY <3>4
    <3> QED BY <1>3, <3>1, <3>2, <3>4, <3>5, <3>6
  <2> QED BY <2>2, <2>3
<1>6. PICK q \in LinkRecord :
        /\ link' = [link EXCEPT ![n] = q] /\ q.link_up = up
        /\ mac' \in [Ports -> MacRecord]
        /\ \A k \in Ports : k # n => mac'[k].fec = mac[k].fec
        /\ mac'[n].fec = q.fec_try
        /\ \/ q.fec_try = p.fec_try /\ q.last_fec_switch = p.last_fec_switch
           \/ /\ q.fec_try = (IF p.fec_try = "off" THEN fec_mode ELSE "off")
              /\ q.last_fec_switch = now /\ FallbackDue(p) /\ ~up
  BY <1>5
<1>7. TypeOK'
  <2>1. link' \in [Ports -> LinkRecord] /\ at' \in 0 .. NUM_PORTS
    BY <1>1, <1>4, <1>6, Consts DEF Ports
  <2>2. waited' \in [Ports -> 0 .. MaxWatch] /\ tried' \in [Ports -> 0 .. MaxWatch]
    BY <1>1, <1>4, Consts
  <2>3. TypeOK
    BY DEF IInv
  <2> QED BY <1>1, <1>4, <1>6, <2>1, <2>2, <2>3 DEF TypeOK, LinkRecord, MacRecord
<1>8. FecAsChosen'
  <2>1. ASSUME NEW k \in Ports
        PROVE  /\ mac'[k].fec = link'[k].fec_try
               /\ IF fec_mode' = "keep" THEN mac'[k].fec = DesignFec
                  ELSE mac'[k].fec = fec_mode' \/ (FEC_FALLBACK > 0 /\ mac'[k].fec = "off")
    <3>1. CASE k # n
      BY <1>1, <1>4, <1>6, <3>1 DEF IInv, FecAsChosen
    <3>2. CASE k = n
      <4>1. link'[n] = q
        BY <1>1, <1>6
      <4>2. mac[n].fec = p.fec_try
        BY <1>3 DEF IInv, FecAsChosen
      <4> QED BY <1>4, <1>6, <3>2, <4>1, <4>2 DEF IInv, FecAsChosen, FallbackDue
    <3> QED BY <3>1, <3>2
  <2> QED BY <2>1 DEF FecAsChosen
<1>9. TimeOK'
  <2>1. ASSUME NEW k \in Ports, ~link'[k].link_up
        PROVE  tried'[k] >= (now - link'[k].last_fec_switch) % CLOCK
    <3>1. CASE k # n
      BY <1>1, <1>4, <1>6, <2>1, <3>1 DEF IInv, TimeOK, Since
    <3>2. CASE k = n
      <4>1. link'[n] = q /\ ~up
        BY <1>1, <1>6, <2>1, <3>2
      <4>2. mac[n].fec = p.fec_try
        BY <1>3 DEF IInv, FecAsChosen
      <4>3. CASE link[n].link_up \/ mac'[n].fec # mac[n].fec
        <5>1. q.last_fec_switch = now
          BY <1>3, <1>6, <4>1, <4>2, <4>3
        <5>2. tried'[n] = 0
          BY <1>1, <1>4, <4>3
        <5> QED BY <1>1, <3>2, <4>1, <5>1, <5>2, SinceOK
      <4>4. CASE ~link[n].link_up /\ mac'[n].fec = mac[n].fec
        <5>1. tried'[n] = tried[n]
          BY <1>1, <1>3, <1>4, <4>1, <4>4
        <5>2. CASE q.last_fec_switch = p.last_fec_switch
          BY <1>3, <3>2, <4>1, <4>4, <5>1, <5>2 DEF IInv, TimeOK, Since
        <5>3. CASE q.last_fec_switch = now
          BY <1>1, <3>2, <4>1, <5>1, <5>3, SinceOK
        <5> QED BY <1>6, <5>2, <5>3
      <4> QED BY <4>3, <4>4
    <3> QED BY <3>1, <3>2
  <2> QED BY <1>4, <2>1 DEF TimeOK, Since
<1>10. ASSUME mac'[n].fec # mac[n].fec PROVE tried[n] >= FEC_FALLBACK
  <2>1. mac[n].fec = p.fec_try
    BY <1>3 DEF IInv, FecAsChosen
  <2>2. FallbackDue(p) /\ ~up
    BY <1>6, <1>10, <2>1
  <2>3. CASE link[n].link_up
    <3>1. p.last_fec_switch = now
      BY <1>3, <2>2, <2>3
    <3>2. FEC_FALLBACK > 0 /\ 0 >= FEC_FALLBACK
      BY <1>1, <2>2, <3>1, SinceOK DEF FallbackDue, Since
    <3> QED BY <3>2, Consts
  <2>4. CASE ~link[n].link_up
    <3>1. p.last_fec_switch = link[n].last_fec_switch
      BY <1>3, <2>4
    <3>2. tried[n] >= (now - link[n].last_fec_switch) % CLOCK
      BY <2>4 DEF IInv, TimeOK, Since
    <3>3. (now - link[n].last_fec_switch) % CLOCK >= FEC_FALLBACK
      BY <2>2, <3>1 DEF FallbackDue, Since
    <3>4. link[n].last_fec_switch \in 0 .. CLOCK - 1
      BY <1>1 DEF LinkRecord
    <3> QED BY <1>1, <3>2, <3>3, <3>4, SinceOK, Consts
  <2> QED BY <2>3, <2>4
<1> QED BY <1>7, <1>8, <1>9, <1>10 DEF IInv

LEMMA CycleFecOK == ASSUME IInv, CycleFec PROVE IInv'
<1> DEFINE fec == CASE fec_mode = "rs528" -> "off"
                    [] fec_mode = "off" -> "rs544"
                    [] OTHER -> "rs528"
<1>1. /\ link \in [Ports -> LinkRecord] /\ mac \in [Ports -> MacRecord]
      /\ now \in 0 .. CLOCK - 1 /\ events \in 0 .. MaxEvents
  BY Types DEF IInv
<1>2. /\ events > 0 /\ events' = events - 1 /\ fec_mode' = fec
      /\ link' = ResetPorts(fec) /\ mac' = mac_port_init(Ports, fec)
      /\ waited' = [n \in Ports |-> 0] /\ tried' = [n \in Ports |-> 0]
      /\ peer' = peer /\ now' = now /\ at' = at
  BY DEF CycleFec
<1>3. fec \in Fecs /\ fec \in Modes /\ fec # "keep"
  BY DEF Fecs, Modes
<1> HIDE DEF fec
<1>4. ASSUME NEW n \in Ports
      PROVE  /\ link'[n] \in LinkRecord /\ link'[n].fec_try = fec
             /\ link'[n].last_fec_switch = now
  <2>1. link[n] \in LinkRecord
    BY <1>1
  <2>2. link'[n] = [port_mac_reinit(link[n], fec) EXCEPT !.last_retry = now, !.last_fec_switch = now]
    BY <1>2 DEF ResetPorts
  <2> QED BY <1>1, <1>3, <2>1, <2>2 DEF port_mac_reinit, LinkRecord
<1>5. /\ mac' \in [Ports -> MacRecord]
      /\ \A n \in Ports : mac'[n].fec = fec
  BY <1>1, <1>2, <1>3, MacInitOK
<1>6. TypeOK'
  <2>1. link' \in [Ports -> LinkRecord]
    BY <1>2, <1>4 DEF ResetPorts
  <2>2. /\ events' \in 0 .. MaxEvents
        /\ waited' \in [Ports -> 0 .. MaxWatch] /\ tried' \in [Ports -> 0 .. MaxWatch]
    BY <1>1, <1>2, Consts
  <2>3. TypeOK
    BY DEF IInv
  <2> QED BY <1>2, <1>3, <1>5, <2>1, <2>2, <2>3 DEF TypeOK, LinkRecord, MacRecord
<1>7. FecAsChosen'
  BY <1>2, <1>3, <1>4, <1>5 DEF FecAsChosen
<1>8. TimeOK'
  <2>1. ASSUME NEW n \in Ports PROVE tried'[n] >= (now - link'[n].last_fec_switch) % CLOCK
    <3>1. link'[n].last_fec_switch = now
      BY <1>4
    <3>2. tried'[n] = 0
      BY <1>2
    <3>3. (now - now) % CLOCK = 0
      BY <1>1, SinceOK
    <3> QED BY <3>1, <3>2, <3>3
  <2> QED BY <1>2, <2>1 DEF TimeOK, Since
<1> QED BY <1>6, <1>7, <1>8 DEF IInv

\* What happens outside the board changes neither a mode nor a timer.
LEMMA OutsideOK ==
    ASSUME IInv, mac' \in [Ports -> MacRecord], \A n \in Ports : mac'[n].fec = mac[n].fec,
           peer' \in [Ports -> Partners \cup {"none"}], events' \in 0 .. MaxEvents,
           waited' = [k \in Ports |-> 0],
           link' = link, fec_mode' = fec_mode, now' = now, at' = at, tried' = tried
    PROVE  IInv'
<1>1. TypeOK'
  <2>1. TypeOK /\ waited' \in [Ports -> 0 .. MaxWatch]
    BY Consts DEF IInv
  <2> QED BY <2>1 DEF TypeOK, MacRecord
<1>2. FecAsChosen'
  BY DEF IInv, FecAsChosen
<1>3. TimeOK'
  BY DEF IInv, TimeOK, Since
<1> QED BY <1>1, <1>2, <1>3 DEF IInv

LEMMA PlugOK ==
    ASSUME IInv, NEW n \in Ports, NEW s \in Partners, Plug(n, s)
    PROVE  IInv' /\ \A k \in Ports : mac'[k].fec = mac[k].fec
<1>1. /\ mac \in [Ports -> MacRecord] /\ events \in 0 .. MaxEvents
      /\ peer \in [Ports -> Partners \cup {"none"}]
  BY Types DEF IInv
<1>2. ASSUME NEW k \in Ports PROVE mac'[k] \in MacRecord /\ mac'[k].fec = mac[k].fec
  <2>1. mac[k] \in MacRecord /\ 0 \in 0 .. ALIGN
    BY <1>1, Consts
  <2>2. mac'[k] = mac[k] \/ mac'[k] = [mac[k] EXCEPT !.caught = FALSE, !.aligned = 0]
    BY DEF Plug
  <2> QED BY <2>1, <2>2 DEF MacRecord
<1>3. mac' \in [Ports -> MacRecord]
  BY <1>2 DEF Plug
<1>4. peer' \in [Ports -> Partners \cup {"none"}] /\ events' \in 0 .. MaxEvents
  <2>1. events' \in 0 .. MaxEvents
    <3>1. events > 0 /\ events' = events - 1
      BY DEF Plug
    <3> QED BY <1>1, <3>1, Consts
  <2>2. peer' = [k \in Ports |-> IF k = n \/ s = "port" THEN s
                                 ELSE IF peer[k] = "port" THEN "none" ELSE peer[k]]
    BY DEF Plug
  <2> QED BY <1>1, <2>1, <2>2
<1> QED BY <1>2, <1>3, <1>4, OutsideOK DEF Plug

LEMMA GlitchOK ==
    ASSUME IInv, NEW n \in Ports, Glitch(n)
    PROVE  IInv' /\ \A k \in Ports : mac'[k].fec = mac[k].fec
<1>1. /\ mac \in [Ports -> MacRecord] /\ events \in 0 .. MaxEvents /\ 0 \in 0 .. ALIGN
      /\ peer \in [Ports -> Partners \cup {"none"}]
  BY Types, Consts DEF IInv
<1>2. /\ mac' \in [Ports -> MacRecord]
      /\ \A k \in Ports : mac'[k].fec = mac[k].fec
  BY <1>1 DEF Glitch, MacRecord
<1>3. peer' \in [Ports -> Partners \cup {"none"}] /\ events' \in 0 .. MaxEvents
  BY <1>1, Consts DEF Glitch
<1> QED BY <1>2, <1>3, OutsideOK DEF Glitch

LEMMA CappedOK ==
    ASSUME NEW t \in 0 .. MaxWatch, NEW d \in Nat
    PROVE  Capped(t, d) \in 0 .. MaxWatch /\ (Capped(t, d) = t + d \/ Capped(t, d) = MaxWatch)
  BY Consts DEF Capped

LEMMA NextPassOK ==
    ASSUME IInv, NEW d \in 1 .. MaxStep, NextPass(d)
    PROVE  IInv' /\ \A n \in Ports : mac'[n].fec = mac[n].fec
<1>1. /\ link \in [Ports -> LinkRecord] /\ mac \in [Ports -> MacRecord]
      /\ now \in 0 .. CLOCK - 1
      /\ tried \in [Ports -> 0 .. MaxWatch] /\ waited \in [Ports -> 0 .. MaxWatch]
  BY Types DEF IInv
<1>2. d \in Nat /\ d \in 0 .. CLOCK
  BY Consts
<1>3. /\ at' = 0 /\ now' = (now + d) % CLOCK
      /\ waited' = [n \in Ports |->
                     IF Reachable(n) /\ ~link[n].link_up THEN Capped(waited[n], d) ELSE 0]
      /\ tried' = [n \in Ports |-> IF link[n].link_up THEN 0 ELSE Capped(tried[n], d)]
      /\ link' = link /\ fec_mode' = fec_mode /\ peer' = peer /\ events' = events
  BY DEF NextPass
<1>4. /\ mac' \in [Ports -> MacRecord]
      /\ \A n \in Ports : mac'[n].fec = mac[n].fec
  <2>1. PICK early \in SUBSET Ports :
           mac' = [n \in Ports |-> [mac[n] EXCEPT !.aligned =
                     IF ~Matched(n) THEN 0
                     ELSE IF n \in early \/ @ + d > ALIGN THEN ALIGN ELSE @ + d]]
    BY DEF NextPass
  <2>2. ASSUME NEW n \in Ports PROVE mac'[n] \in MacRecord /\ mac'[n].fec = mac[n].fec
    <3> DEFINE a == IF ~Matched(n) THEN 0
                    ELSE IF n \in early \/ mac[n].aligned + d > ALIGN THEN ALIGN
                    ELSE mac[n].aligned + d
    <3>1. mac[n] \in MacRecord /\ mac[n].aligned \in 0 .. ALIGN
      BY <1>1 DEF MacRecord
    <3>2. a \in 0 .. ALIGN
      BY <1>2, <3>1, Consts
    <3>3. mac'[n] = [mac[n] EXCEPT !.aligned = a]
      BY <2>1
    <3> HIDE DEF a
    <3> QED BY <3>1, <3>2, <3>3 DEF MacRecord
  <2> QED BY <2>1, <2>2
<1>5. TypeOK'
  <2>1. now' \in 0 .. CLOCK - 1 /\ at' \in 0 .. NUM_PORTS
    BY <1>1, <1>2, <1>3, Stepped, Consts
  <2>2. waited' \in [Ports -> 0 .. MaxWatch] /\ tried' \in [Ports -> 0 .. MaxWatch]
    <3>1. 0 \in 0 .. MaxWatch
      BY Consts
    <3>2. \A n \in Ports : /\ Capped(waited[n], d) \in 0 .. MaxWatch
                           /\ Capped(tried[n], d) \in 0 .. MaxWatch
      BY <1>1, <1>2, CappedOK
    <3> QED BY <1>3, <3>1, <3>2
  <2>3. TypeOK
    BY DEF IInv
  <2> QED BY <1>3, <1>4, <2>1, <2>2, <2>3 DEF TypeOK, MacRecord
<1>6. FecAsChosen'
  BY <1>3, <1>4 DEF IInv, FecAsChosen
<1>7. TimeOK'
  <2>1. ASSUME NEW n \in Ports, ~link[n].link_up
        PROVE  tried'[n] >= (now' - link[n].last_fec_switch) % CLOCK
    <3> DEFINE t == link[n].last_fec_switch
               before == (now - t) % CLOCK
               after == (((now + d) % CLOCK) - t) % CLOCK
    <3>1. t \in 0 .. CLOCK - 1
      BY <1>1 DEF LinkRecord
    <3>2. tried[n] >= before
      BY <2>1 DEF IInv, TimeOK, Since
    <3>3. after <= before + d
      BY <1>1, <1>2, <3>1, NeverFaster, Consts
    <3>4. before \in 0 .. CLOCK - 1 /\ after \in 0 .. CLOCK - 1
      BY <1>1, <1>2, <3>1, Stepped, SinceOK, Consts
    <3>5. tried'[n] = Capped(tried[n], d) /\ now' = (now + d) % CLOCK
      BY <1>3, <2>1
    <3>6. tried[n] \in 0 .. MaxWatch /\ (tried'[n] = tried[n] + d \/ tried'[n] = MaxWatch)
      BY <1>1, <1>2, <3>5, CappedOK
    <3>7. tried'[n] >= after
      <4> HIDE DEF before, after
      <4> QED BY <1>2, <3>2, <3>3, <3>4, <3>6, Consts
    <3> QED BY <3>5, <3>7
  <2> QED BY <1>3, <2>1 DEF TimeOK, Since
<1> QED BY <1>4, <1>5, <1>6, <1>7 DEF IInv

\* The invariant holds in every step, and only a poll after the whole time of a
\* mode, or 'f', changes the mode of a MAC.
LEMMA StepOK ==
    ASSUME IInv, [Next]_vars
    PROVE  /\ IInv'
           /\ \A n \in Ports : at = n /\ mac'[n].fec # mac[n].fec /\ fec_mode' = fec_mode
                               => tried[n] >= FEC_FALLBACK
<1>1. ASSUME NEW n \in Ports, LinkPoll(n)
      PROVE  /\ IInv'
             /\ \A k \in Ports : at = k /\ mac'[k].fec # mac[k].fec => tried[k] >= FEC_FALLBACK
  <2>1. at = n
    BY <1>1 DEF LinkPoll
  <2> QED BY <1>1, <2>1, LinkPollOK
<1>2. ASSUME NEW n \in Ports, Glitch(n)
      PROVE  IInv' /\ \A k \in Ports : mac'[k].fec = mac[k].fec
  BY <1>2, GlitchOK
<1>3. ASSUME NEW n \in Ports, NEW s \in Partners, Plug(n, s)
      PROVE  IInv' /\ \A k \in Ports : mac'[k].fec = mac[k].fec
  BY <1>3, PlugOK
<1>4. ASSUME CycleFec
      PROVE  IInv' /\ \A n \in Ports : at # n
  <2>1. at = NUM_PORTS
    BY <1>4 DEF CycleFec
  <2> QED BY <1>4, <2>1, CycleFecOK, Consts DEF Ports
<1>5. ASSUME NEW d \in 1 .. MaxStep, NextPass(d)
      PROVE  IInv' /\ \A n \in Ports : mac'[n].fec = mac[n].fec
  BY <1>5, NextPassOK
<1>6. CASE UNCHANGED vars
  <2>1. /\ link' = link /\ fec_mode' = fec_mode /\ mac' = mac /\ peer' = peer /\ now' = now
        /\ at' = at /\ events' = events /\ waited' = waited /\ tried' = tried
    BY <1>6 DEF vars
  <2> QED BY <2>1 DEF IInv, TypeOK, FecAsChosen, TimeOK, Since
<1> QED BY <1>1, <1>2, <1>3, <1>4, <1>5, <1>6 DEF Next

LEMMA Invariance == Spec => []IInv
<1>1. IInv /\ [Next]_vars => IInv'
  BY StepOK
<1> QED BY InitOK, <1>1, PTL DEF Spec

-----------------------------------------------------------------------------
(* The theorems.                                                           *)

\* Every reachable state of the link polls is well typed.
THEOREM TypeCorrect == Spec => []TypeOK
<1>1. IInv => TypeOK
  BY DEF IInv
<1> QED BY Invariance, <1>1, PTL

\* No order of retries, fallbacks, keys and cables takes a MAC to a FEC mode that
\* was not chosen, or lets port.c lose track of the mode it is in.
THEOREM ChosenModeKept == Spec => []FecAsChosen
<1>1. IInv => FecAsChosen
  BY DEF IInv
<1> QED BY Invariance, <1>1, PTL

\* A poll gives up a FEC mode only after the whole fallback time without link in
\* it, whatever the timers, the delays of the loop and the wrap of the clock.
THEOREM FallbackNeverEarly == Spec => EachModeGetsItsTime
<1>1. IInv /\ [Next]_vars =>
        [\A n \in Ports :
           at = n /\ mac'[n].fec # mac[n].fec /\ fec_mode' = fec_mode
              => tried[n] >= FEC_FALLBACK]_vars
  BY StepOK
<1> QED BY Invariance, <1>1, PTL DEF Spec, EachModeGetsItsTime

-----------------------------------------------------------------------------
(* Link in time. What has to be known is why a port still has no link, and *)
(* how old its timers are then.                                            *)

Age(n) == Since(link[n].last_retry)
ModeAge(n) == Since(link[n].last_fec_switch)

\* The fallback is at work: the FEC mode alternates with none.
Alternates == FEC_FALLBACK > 0 /\ fec_mode \notin {"keep", "off"}

\* The alignment of port n has gone on for t, or has ended.
AlignedFor(n, t) == t <= mac[n].aligned \/ mac[n].aligned = ALIGN

\* Port n retried its MAC and the alignment has gone on since.
Straight(n) ==
    Matched(n) /\ AlignedFor(n, Age(n)) /\ Age(n) < ALIGN + MaxStep

\* The port at the other end has retried in between. Neither retries again
\* before the alignment has ended.
Crossed(n) ==
    /\ Matched(n)
    /\ mac[n].aligned = ALIGN \/ Age(n) < ALIGN + MaxStep + mac[n].aligned
    /\ ~link[1 - n].link_up =>
          AlignedFor(n, Age(1 - n)) /\ Age(1 - n) < ALIGN + MaxStep

\* The latest moment of the retry after which port n is to align.
Found(n) ==
    RetryWait + (IF peer[n] # "port" /\ FEC_FALLBACK > 0
                 THEN FEC_FALLBACK + RetryWait ELSE 0)

\* Why port n has no link: it has not retried since its partner came, it is in
\* the wrong FEC mode, or it is aligning, perhaps again.
Waits(n) == waited[n] <= Age(n) /\ waited[n] <= RetryWait
Wrong(n) ==
    peer[n] # "port" /\ mac[n].fec # peer[n] /\ waited[n] <= RetryWait + ModeAge(n)
Aligning(n) == Straight(n) /\ waited[n] <= Found(n) + Age(n)
Interrupted(n) ==
    /\ peer[n] = "port" /\ Crossed(n)
    /\ waited[n] <= RetryWait + MaxStep
                    + (IF mac[n].aligned = ALIGN THEN ALIGN + MaxStep - 1 ELSE mac[n].aligned)

\* The port m at the other end of the cable of port n: with link it is still to
\* see a loss, or it has caught the signal; without link its next retry comes
\* early in the wait of n, or not at all.
Companion(n, m) ==
    IF link[m].link_up
    THEN mac[m].caught \/ (waited[n] <= MaxStep /\ (at > m => waited[n] = 0))
    ELSE waited[n] <= Age(m) + MaxStep \/ Straight(m) \/ Crossed(m)

\* No time counts with link or without a partner that can be reached; a port that
\* was polled in this pass has no retry due; the timers are not far apart.
Quiet(n) == link[n].link_up \/ ~Reachable(n) => waited[n] = 0
Polled(n) == at > n => Age(n) < LINK_RETRY /\ ~mac_link_up(n)
Recent(n) == Age(n) <= RetryWait \/ \A k \in Ports : waited[k] = 0
InTurn(n) == Alternates => ModeAge(n) < FEC_FALLBACK + Age(n)

Reason(n) ==
    Reachable(n) =>
        /\ Waits(n) \/ Wrong(n) \/ Aligning(n) \/ Interrupted(n)
        /\ peer[n] = "port" => Companion(n, 1 - n)

OnTime(n) ==
    /\ Quiet(n)
    /\ ~link[n].link_up => Polled(n) /\ Recent(n) /\ InTurn(n) /\ Reason(n)

\* A cable between the two ports has two ends.
Cabled == (\E n \in Ports : peer[n] = "port") => \A n \in Ports : peer[n] = "port"

TimeInv == IInv /\ Cabled /\ \A n \in Ports : OnTime(n)

-----------------------------------------------------------------------------
LEMMA Exactly ==
    ASSUME NEW C \in Nat \ {0}, NEW x \in 0 .. C - 1, NEW t \in 0 .. C - 1, NEW d \in 0 .. C,
           ((x - t) % C) + d < C
    PROVE  (((x + d) % C) - t) % C = ((x - t) % C) + d
<1> DEFINE r == (x + d) % C
<1>1. r \in 0 .. C - 1 /\ r \in {x + d, x + d - C}
  BY Stepped
<1> HIDE DEF r
<1>2. r - t \in (0 - C) .. C - 1 /\ x - t \in (0 - C) .. C - 1
  BY <1>1
<1>3. /\ (r - t) % C = IF r - t >= 0 THEN r - t ELSE r - t + C
      /\ (x - t) % C = IF x - t >= 0 THEN x - t ELSE x - t + C
  BY <1>2, Wrapped
<1>4. (r - t) % C = ((x - t) % C) + d
  BY <1>1, <1>3
<1> QED BY <1>4 DEF r

LEMMA Fits ==
    ASSUME TimersFit
    PROVE  /\ LINK_RETRY \in Nat /\ ALIGN \in Nat /\ MaxStep \in Nat /\ FEC_FALLBACK \in Nat
           /\ RetryWait \in Nat /\ RetryWait = LINK_RETRY + MaxStep - 1
           /\ 0 < ALIGN /\ ALIGN <= LINK_RETRY /\ 0 < MaxStep
           /\ NUM_PORTS = 2 => 2 * ALIGN + MaxStep - 1 <= LINK_RETRY
           /\ RetryWait < CLOCK /\ FEC_FALLBACK + RetryWait <= CLOCK
  BY PortLinkAssumption DEF TimersFit, RetryWait

\* The types of what the invariant speaks about.
TimeTyped ==
    /\ CLOCK \in Nat \ {0} /\ now \in 0 .. CLOCK - 1 /\ at \in 0 .. NUM_PORTS
    /\ \A n \in Ports :
         /\ link[n] \in LinkRecord /\ mac[n] \in MacRecord
         /\ mac[n].aligned \in 0 .. ALIGN /\ mac[n].caught \in BOOLEAN
         /\ link[n].link_up \in BOOLEAN
         /\ link[n].last_retry \in 0 .. CLOCK - 1 /\ link[n].last_fec_switch \in 0 .. CLOCK - 1
         /\ Age(n) \in 0 .. CLOCK - 1 /\ ModeAge(n) \in 0 .. CLOCK - 1
         /\ Age(n) \in Nat /\ ModeAge(n) \in Nat
         /\ waited[n] \in Nat /\ mac[n].aligned \in Nat
         /\ n \in Nat

LEMMA TimeTypes == IInv => TimeTyped
<1> SUFFICES ASSUME IInv PROVE TimeTyped
  OBVIOUS
<1>1. TypeOK
  BY DEF IInv
<1>2. CLOCK \in Nat \ {0} /\ MaxWatch \in Nat /\ ALIGN \in Nat /\ NUM_PORTS \in {1, 2}
  BY Consts
<1>3. now \in 0 .. CLOCK - 1 /\ at \in 0 .. NUM_PORTS
  BY <1>1, Types
<1>4. ASSUME NEW n \in Ports
      PROVE  /\ link[n] \in LinkRecord /\ mac[n] \in MacRecord
             /\ waited[n] \in 0 .. MaxWatch
  BY <1>1, Types
<1>5. ASSUME NEW n \in Ports
      PROVE  /\ mac[n].aligned \in 0 .. ALIGN /\ mac[n].caught \in BOOLEAN
             /\ link[n].link_up \in BOOLEAN
             /\ link[n].last_retry \in 0 .. CLOCK - 1 /\ link[n].last_fec_switch \in 0 .. CLOCK - 1
  BY <1>4 DEF LinkRecord, MacRecord
<1>6. ASSUME NEW n \in Ports
      PROVE  Age(n) \in 0 .. CLOCK - 1 /\ ModeAge(n) \in 0 .. CLOCK - 1
  BY <1>3, <1>5, SinceOK DEF Age, ModeAge, Since
<1> QED BY <1>2, <1>3, <1>4, <1>5, <1>6 DEF Ports, TimeTyped

LEMMA TimeTypesNext == IInv' => TimeTyped'
  BY TimeTypes, PTL

\* A port whose cable goes to the other port: there are two.
LEMMA Pair ==
    ASSUME IInv, NEW n \in Ports, peer[n] = "port"
    PROVE  NUM_PORTS = 2 /\ 1 - n \in Ports /\ 1 - n # n /\ 1 - (1 - n) = n
           /\ \A k \in Ports : k # n => k = 1 - n
<1>1. peer[n] \in Partners \cup {"none"}
  BY Types DEF IInv
<1>2. NUM_PORTS = 2
  BY <1>1, PortLinkAssumption DEF Fecs
<1>3. Ports = {0, 1}
  BY <1>2 DEF Ports
<1> QED BY <1>2, <1>3

LEMMA ReachablePort ==
    ASSUME NEW n \in Ports, peer[n] = "port"
    PROVE  Reachable(n) <=> (FEC_FALLBACK = 0 \/ fec_mode \in {"keep", "off"})
  BY DEF Reachable, Fecs

\* Two ports that are to find each other are in the same FEC mode.
LEMMA SameMode ==
    ASSUME IInv, NEW n \in Ports, peer[n] = "port", Reachable(n)
    PROVE  ~Alternates /\ \A j, k \in Ports : mac[j].fec = mac[k].fec
<1>1. FEC_FALLBACK = 0 \/ fec_mode \in {"keep", "off"}
  BY DEF Reachable, Fecs
<1>2. ~Alternates
  BY <1>1 DEF Alternates
<1>3. ASSUME NEW k \in Ports
      PROVE  mac[k].fec = IF fec_mode = "keep" THEN DesignFec ELSE fec_mode
  BY <1>1 DEF IInv, FecAsChosen
<1> QED BY <1>2, <1>3

\* A port in the wrong mode has the fallback at work, and the other mode is right.
LEMMA WrongMode ==
    ASSUME IInv, NEW n \in Ports, peer[n] # "port", Reachable(n), mac[n].fec # peer[n]
    PROVE  Alternates /\ peer[n] = IF mac[n].fec = "off" THEN fec_mode ELSE "off"
<1>1. peer[n] # "none" /\ fec_mode # "keep"
  BY DEF Reachable, Fecs
<1>2. peer[n] = fec_mode \/ (FEC_FALLBACK > 0 /\ peer[n] = "off")
  BY <1>1 DEF Reachable
<1>3. mac[n].fec = fec_mode \/ (FEC_FALLBACK > 0 /\ mac[n].fec = "off")
  BY <1>1 DEF IInv, FecAsChosen
<1> QED BY <1>1, <1>2, <1>3 DEF Alternates

-----------------------------------------------------------------------------
(* Where no time counts yet: the start, the keys and the cables.           *)

FreshOK ==
    TimersFit /\ IInv /\ (\A k \in Ports : waited[k] = 0)
    => \A n \in Ports : (~link[n].link_up => Polled(n) /\ InTurn(n)) => OnTime(n)

LEMMA Fresh == FreshOK
<1> SUFFICES ASSUME IInv, TimersFit, \A k \in Ports : waited[k] = 0,
                    NEW n \in Ports, ~link[n].link_up => Polled(n) /\ InTurn(n)
             PROVE  OnTime(n)
  BY DEF FreshOK
<1>1. /\ waited[n] = 0 /\ Age(n) \in Nat /\ RetryWait \in Nat /\ MaxStep \in Nat
  BY TimeTypes, Fits DEF TimeTyped
<1>2. Quiet(n) /\ Recent(n) /\ Waits(n)
  BY <1>1 DEF Quiet, Recent, Waits
<1>3. peer[n] = "port" => Companion(n, 1 - n)
  <2>1. SUFFICES ASSUME peer[n] = "port" PROVE Companion(n, 1 - n)
    OBVIOUS
  <2>2. Age(1 - n) \in Nat
    BY <2>1, Pair, TimeTypes DEF TimeTyped
  <2>3. waited[n] <= MaxStep /\ waited[n] <= Age(1 - n) + MaxStep
    BY <1>1, <2>2
  <2> QED BY <1>1, <2>3 DEF Companion
<1> QED BY <1>2, <1>3 DEF OnTime, Reason

LEMMA FreshNext ==
    ASSUME IInv', TimersFit, \A k \in Ports : waited'[k] = 0,
           NEW n \in Ports, ~link'[n].link_up => Polled(n)' /\ InTurn(n)'
    PROVE  OnTime(n)'
<1>1. TimersFit'
  BY DEF TimersFit, RetryWait
<1>2. FreshOK'
  BY Fresh, PTL
<1> QED BY <1>1, <1>2 DEF FreshOK

LEMMA TimeInit == ASSUME TimersFit, Init PROVE TimeInv
<1>1. IInv
  BY InitOK
<1>2. Cabled
  BY DEF Init, Cabled
<1>3. ASSUME NEW n \in Ports PROVE OnTime(n)
  <2>1. at = 0
    BY DEF Init
  <2>2. Polled(n)
    BY <1>1, <2>1, TimeTypes DEF Polled, TimeTyped
  <2>3. InTurn(n)
    <3>1. link[n].last_retry = link[n].last_fec_switch
      BY DEF Init
    <3>2. ModeAge(n) = Age(n)
      BY <3>1 DEF Age, ModeAge
    <3>3. Age(n) \in Nat /\ FEC_FALLBACK \in Nat
      BY <1>1, TimeTypes, Fits DEF TimeTyped
    <3>4. FEC_FALLBACK > 0 => Age(n) < FEC_FALLBACK + Age(n)
      BY <3>3
    <3> QED BY <3>2, <3>4 DEF InTurn, Alternates
  <2>4. \A k \in Ports : waited[k] = 0
    BY DEF Init
  <2> QED BY <1>1, <2>2, <2>3, <2>4, Fresh DEF FreshOK
<1> QED BY <1>1, <1>2, <1>3 DEF TimeInv

\* A port that is not aligned stays so when it loses the signal, or when nothing
\* happens to it.
LEMMA StillDown ==
    ASSUME NEW n \in Ports, ~mac_link_up(n),
           \/ ~mac'[n].caught
           \/ mac'[n] = mac[n] /\ peer'[n] = peer[n] /\ PeerFec(n)' = PeerFec(n)
    PROVE  ~mac_link_up(n)'
  BY DEF mac_link_up, Matched

LEMMA TimeGlitch ==
    ASSUME TimeInv, TimersFit, NEW g \in Ports, Glitch(g)
    PROVE  TimeInv'
<1>1. IInv' /\ \A k \in Ports : mac'[k].fec = mac[k].fec
  BY GlitchOK DEF TimeInv
<1>2. /\ link' = link /\ fec_mode' = fec_mode /\ peer' = peer /\ now' = now /\ at' = at
      /\ waited' = [k \in Ports |-> 0]
      /\ mac' = [mac EXCEPT ![g].caught = FALSE, ![g].aligned = 0]
  BY DEF Glitch
<1>3. Cabled'
  BY <1>2 DEF TimeInv, Cabled
<1>4. ASSUME NEW n \in Ports PROVE OnTime(n)'
  <2>1. PeerFec(n)' = PeerFec(n)
    <3>1. CASE peer[n] = "port"
      <4>1. 1 - n \in Ports
        BY <3>1, Pair DEF TimeInv
      <4> QED BY <1>1, <1>2, <4>1 DEF PeerFec
    <3>2. CASE peer[n] # "port"
      BY <1>2, <3>2 DEF PeerFec
    <3> QED BY <3>1, <3>2
  <2>2. ~mac'[n].caught \/ mac'[n] = mac[n]
    <3>1. mac \in [Ports -> MacRecord] /\ mac[n] \in MacRecord
      BY Types DEF TimeInv, IInv
    <3> QED BY <1>2, <3>1 DEF MacRecord
  <2>3. ~mac_link_up(n) => ~mac_link_up(n)'
    BY <1>2, <2>1, <2>2, StillDown
  <2>4. ~link'[n].link_up => Polled(n)' /\ InTurn(n)'
    BY <1>2, <2>3 DEF TimeInv, OnTime, Polled, InTurn, Alternates, Age, ModeAge, Since
  <2> QED BY <1>1, <1>2, <2>4, FreshNext
<1> QED BY <1>1, <1>3, <1>4 DEF TimeInv

LEMMA TimePlug ==
    ASSUME TimeInv, TimersFit, NEW g \in Ports, NEW s \in Partners, Plug(g, s)
    PROVE  TimeInv'
<1>1. IInv' /\ \A k \in Ports : mac'[k].fec = mac[k].fec
  BY PlugOK DEF TimeInv
<1>2. /\ link' = link /\ fec_mode' = fec_mode /\ now' = now /\ at' = at
      /\ waited' = [k \in Ports |-> 0] /\ s # peer[g]
      /\ peer' = [k \in Ports |-> IF k = g \/ s = "port" THEN s
                                  ELSE IF peer[k] = "port" THEN "none" ELSE peer[k]]
      /\ mac' = [k \in Ports |-> IF peer'[k] = peer[k] THEN mac[k]
                                 ELSE [mac[k] EXCEPT !.caught = FALSE, !.aligned = 0]]
  BY DEF Plug
<1>3. Cabled'
  BY <1>2 DEF Cabled
<1>4. ASSUME NEW n \in Ports PROVE OnTime(n)'
  <2>1. ~mac'[n].caught \/ (mac'[n] = mac[n] /\ peer'[n] = peer[n])
    <3>1. mac \in [Ports -> MacRecord] /\ mac[n] \in MacRecord
      BY Types DEF TimeInv, IInv
    <3> QED BY <1>2, <3>1 DEF MacRecord
  <2>2. peer'[n] = peer[n] => PeerFec(n)' = PeerFec(n)
    <3>1. CASE peer[n] = "port"
      <4>1. 1 - n \in Ports
        BY <3>1, Pair DEF TimeInv
      <4> QED BY <1>1, <4>1 DEF PeerFec
    <3>2. CASE peer[n] # "port"
      BY <3>2 DEF PeerFec
    <3> QED BY <3>1, <3>2
  <2>3. ~mac_link_up(n) => ~mac_link_up(n)'
    BY <2>1, <2>2, StillDown
  <2>4. ~link'[n].link_up => Polled(n)' /\ InTurn(n)'
    BY <1>2, <2>3 DEF TimeInv, OnTime, Polled, InTurn, Alternates, Age, ModeAge, Since
  <2> QED BY <1>1, <1>2, <2>4, FreshNext
<1> QED BY <1>1, <1>3, <1>4 DEF TimeInv

LEMMA TimeCycleFec == ASSUME TimeInv, TimersFit, CycleFec PROVE TimeInv'
<1>1. IInv'
  BY CycleFecOK DEF TimeInv
<1>2. PICK fec \in Fecs :
        /\ fec_mode' = fec /\ link' = ResetPorts(fec) /\ mac' = mac_port_init(Ports, fec)
        /\ waited' = [n \in Ports |-> 0] /\ peer' = peer /\ now' = now /\ at' = at
  BY DEF CycleFec, Fecs
<1>3. Cabled'
  BY <1>2 DEF TimeInv, Cabled
<1>4. ASSUME NEW n \in Ports PROVE OnTime(n)'
  <2>1. link'[n].last_retry = now /\ link'[n].last_fec_switch = now
    <3>1. link[n] \in LinkRecord
      BY TimeTypes DEF TimeTyped, TimeInv
    <3>2. link'[n] = [port_mac_reinit(link[n], fec) EXCEPT !.last_retry = now, !.last_fec_switch = now]
      BY <1>2 DEF ResetPorts
    <3> QED BY <3>1, <3>2 DEF port_mac_reinit, LinkRecord
  <2>2. Age(n)' = 0 /\ ModeAge(n)' = 0
    <3>1. (now - now) % CLOCK = 0
      BY TimeTypes, SinceOK DEF TimeInv, TimeTyped
    <3> QED BY <1>2, <2>1, <3>1 DEF Age, ModeAge, Since
  <2>3. mac'[n].aligned = 0
    BY <1>2 DEF mac_port_init
  <2>4. ~mac_link_up(n)' /\ 0 < LINK_RETRY /\ (FEC_FALLBACK > 0 => 0 < FEC_FALLBACK + 0)
    BY <2>3, Fits DEF mac_link_up
  <2>5. Polled(n)' /\ InTurn(n)'
    BY <2>2, <2>4 DEF Polled, InTurn, Alternates
  <2> QED BY <1>1, <1>2, <2>5, FreshNext
<1> QED BY <1>1, <1>3, <1>4 DEF TimeInv
-----------------------------------------------------------------------------
(* A link poll does one of four things to its port.                        *)

Sees(n) == mac_link_up(n) /\ waited'[n] = 0 /\ mac' = mac

Loses(n) ==
    /\ ~mac_link_up(n) /\ link[n].link_up /\ mac' = mac
    /\ Age(n)' = 0 /\ ModeAge(n)' = 0

Stays(n) ==
    /\ ~mac_link_up(n) /\ ~link[n].link_up /\ mac' = mac
    /\ Age(n) < LINK_RETRY /\ Age(n)' = Age(n) /\ ModeAge(n)' = ModeAge(n)

Retries(n) ==
    /\ ~mac_link_up(n) /\ ~link[n].link_up
    /\ Age(n) >= LINK_RETRY /\ Age(n)' = 0
    /\ mac'[n].caught = (peer[n] # "none") /\ mac'[n].aligned = 0
    /\ \A k \in Ports : k # n =>
          mac'[k] = IF peer[k] = "port" THEN [mac[k] EXCEPT !.aligned = 0] ELSE mac[k]
    /\ \/ /\ mac'[n].fec = mac[n].fec /\ ModeAge(n)' = ModeAge(n)
          /\ Alternates => ModeAge(n) < FEC_FALLBACK
       \/ /\ mac'[n].fec = IF mac[n].fec = "off" THEN fec_mode ELSE "off"
          /\ ModeAge(n)' = 0 /\ Alternates

LEMMA PollOutcome ==
    ASSUME IInv, TimersFit, NEW n \in Ports, LinkPoll(n)
    PROVE  /\ at = n /\ at' = n + 1 /\ now' = now /\ peer' = peer /\ fec_mode' = fec_mode
           /\ link'[n].link_up = mac_link_up(n)
           /\ ~mac_link_up(n) => waited'[n] = waited[n]
           /\ \A k \in Ports : k # n => link'[k] = link[k] /\ waited'[k] = waited[k]
           /\ Sees(n) \/ Loses(n) \/ Stays(n) \/ Retries(n)
<1> DEFINE up == mac_link_up(n)
           p == SeeLink(link[n], up)
<1>1. /\ link \in [Ports -> LinkRecord] /\ mac \in [Ports -> MacRecord]
      /\ now \in 0 .. CLOCK - 1 /\ fec_mode \in Modes /\ link[n] \in LinkRecord
      /\ waited \in [Ports -> 0 .. MaxWatch]
  BY Types DEF IInv
<1>2. up \in BOOLEAN
  BY DEF mac_link_up, Matched
<1>3. /\ at = n /\ at' = n + 1
      /\ IF RetryDue(p)
         THEN /\ link' = [link EXCEPT ![n] = Retry(p)]
              /\ mac' = mac_port_init({n}, IF fec_mode = "keep" THEN "keep" ELSE Retry(p).fec_try)
         ELSE link' = [link EXCEPT ![n] = p] /\ mac' = mac
      /\ waited' = [waited EXCEPT ![n] = IF p.link_up THEN 0 ELSE @]
      /\ fec_mode' = fec_mode /\ peer' = peer /\ now' = now
  BY DEF LinkPoll
<1>4. /\ p \in LinkRecord /\ p.link_up = up /\ p.fec_try = link[n].fec_try
      /\ p.last_fec_switch = IF link[n].link_up /\ ~up THEN now ELSE link[n].last_fec_switch
      /\ p.last_retry = IF link[n].link_up /\ ~up THEN now ELSE link[n].last_retry
  <2>1. p.last_retry = IF link[n].link_up /\ ~up THEN now ELSE link[n].last_retry
    BY <1>1, <1>2 DEF SeeLink, LinkRecord
  <2> QED BY <1>1, <1>2, <2>1, SeeLinkOK
<1> HIDE DEF p
<1>5. (now - now) % CLOCK = 0
  BY <1>1, SinceOK
<1>6. Retry(p) \in LinkRecord /\ Retry(p).link_up = up /\ Retry(p).last_retry = now
  BY <1>1, <1>4, RetryOK
<1>7. ASSUME NEW k \in Ports, k # n PROVE link'[k] = link[k] /\ waited'[k] = waited[k]
  BY <1>1, <1>3, <1>7
<1>8. link'[n].link_up = up /\ (~up => waited'[n] = waited[n])
  BY <1>1, <1>3, <1>4, <1>6
<1>9. Sees(n) \/ Loses(n) \/ Stays(n) \/ Retries(n)
  <2>1. CASE up
    <3>1. ~RetryDue(p)
      BY <1>4, <2>1 DEF RetryDue
    <3> QED BY <1>1, <1>3, <1>4, <2>1, <3>1 DEF Sees
  <2>2. CASE ~up /\ link[n].link_up
    <3>1. p.last_retry = now /\ p.last_fec_switch = now
      BY <1>4, <2>2
    <3>2. ~RetryDue(p)
      BY <1>5, <3>1, Fits DEF RetryDue, Since
    <3>3. link'[n] = p /\ mac' = mac
      BY <1>1, <1>3, <3>2
    <3>4. Age(n)' = 0 /\ ModeAge(n)' = 0
      BY <1>3, <1>5, <3>1, <3>3 DEF Age, ModeAge, Since
    <3> QED BY <2>2, <3>3, <3>4 DEF Loses
  <2>3. CASE ~up /\ ~link[n].link_up
    <3>1. p.last_retry = link[n].last_retry /\ p.last_fec_switch = link[n].last_fec_switch
      BY <1>4, <2>3
    <3>2. RetryDue(p) <=> Age(n) >= LINK_RETRY
      BY <1>4, <2>3, <3>1 DEF RetryDue, Age
    <3>3. CASE ~RetryDue(p)
      <4>1. link'[n] = p /\ mac' = mac
        BY <1>1, <1>3, <3>3
      <4>2. Age(n)' = Age(n) /\ ModeAge(n)' = ModeAge(n)
        BY <1>3, <3>1, <4>1 DEF Age, ModeAge, Since
      <4>3. Age(n) < LINK_RETRY
        BY <3>2, <3>3, TimeTypes, Fits DEF TimeTyped
      <4> QED BY <2>3, <4>1, <4>2, <4>3 DEF Stays
    <3>4. CASE RetryDue(p)
      <4> DEFINE f == IF fec_mode = "keep" THEN "keep" ELSE Retry(p).fec_try
      <4>1. link'[n] = Retry(p) /\ mac' = mac_port_init({n}, f)
        BY <1>1, <1>3, <3>4
      <4>2. Age(n)' = 0
        BY <1>3, <1>5, <1>6, <4>1 DEF Age, Since
      <4>3. f = "keep" <=> fec_mode = "keep"
        BY <1>6 DEF LinkRecord, Fecs
      <4> HIDE DEF f
      <4>4. mac'[n] = [fec |-> IF f = "keep" THEN mac[n].fec ELSE f,
                       caught |-> peer[n] # "none", aligned |-> 0]
        BY <4>1 DEF mac_port_init
      <4>5. \A k \in Ports : k # n =>
              mac'[k] = IF peer[k] = "port" THEN [mac[k] EXCEPT !.aligned = 0] ELSE mac[k]
        BY <4>1 DEF mac_port_init
      <4>6. mac[n].fec = p.fec_try
        BY <1>4 DEF IInv, FecAsChosen
      <4>7. \/ /\ Retry(p).fec_try = p.fec_try
               /\ Retry(p).last_fec_switch = p.last_fec_switch /\ ~FallbackDue(p)
            \/ /\ Retry(p).fec_try = (IF p.fec_try = "off" THEN fec_mode ELSE "off")
               /\ Retry(p).last_fec_switch = now /\ FallbackDue(p)
        BY <1>1, <1>4, RetryOK
      <4>8. FallbackDue(p) <=> Alternates /\ ModeAge(n) >= FEC_FALLBACK
        BY <3>1 DEF FallbackDue, Alternates, ModeAge
      <4>9. ~(ModeAge(n) >= FEC_FALLBACK) => ModeAge(n) < FEC_FALLBACK
        BY TimeTypes, Fits DEF TimeTyped
      <4>10. \/ /\ mac'[n].fec = mac[n].fec /\ ModeAge(n)' = ModeAge(n)
                /\ Alternates => ModeAge(n) < FEC_FALLBACK
             \/ /\ mac'[n].fec = IF mac[n].fec = "off" THEN fec_mode ELSE "off"
                /\ ModeAge(n)' = 0 /\ Alternates
        <5>1. CASE FallbackDue(p)
          <6>1. Alternates /\ fec_mode # "keep"
            BY <4>8, <5>1 DEF Alternates
          <6>2. f = IF mac[n].fec = "off" THEN fec_mode ELSE "off"
            BY <4>6, <4>7, <5>1, <6>1 DEF f
          <6>3. mac'[n].fec = f
            BY <4>3, <4>4, <6>1
          <6>4. ModeAge(n)' = 0
            BY <1>3, <1>5, <4>1, <4>7, <5>1 DEF ModeAge, Since
          <6> QED BY <6>1, <6>2, <6>3, <6>4
        <5>2. CASE ~FallbackDue(p)
          <6>1. Retry(p).fec_try = p.fec_try /\ Retry(p).last_fec_switch = p.last_fec_switch
            BY <4>7, <5>2
          <6>2. mac'[n].fec = mac[n].fec
            BY <4>4, <4>6, <6>1 DEF f
          <6>3. ModeAge(n)' = ModeAge(n)
            BY <1>3, <3>1, <4>1, <6>1 DEF ModeAge, Since
          <6> QED BY <4>8, <4>9, <5>2, <6>2, <6>3
        <5> QED BY <5>1, <5>2
      <4> QED BY <2>3, <3>2, <3>4, <4>2, <4>4, <4>5, <4>10 DEF Retries
    <3> QED BY <3>3, <3>4
  <2> QED BY <1>2, <2>1, <2>2, <2>3
<1> QED BY <1>3, <1>7, <1>8, <1>9
-----------------------------------------------------------------------------
(* The port that is not polled.                                            *)

LEMMA ReachableSame ==
    ASSUME IInv, IInv', peer' = peer, fec_mode' = fec_mode, NEW n \in Ports
    PROVE  (Reachable(n)' <=> Reachable(n)) /\ (Alternates' <=> Alternates)
<1>1. fec_mode = "keep" => mac'[n].fec = mac[n].fec
  BY DEF IInv, FecAsChosen
<1> QED BY <1>1 DEF Reachable, Alternates

\* Where two ports are to find each other, only the signal is wanting.
Wired ==
    IInv => \A n \in Ports :
              peer[n] = "port" /\ Reachable(n) => (Matched(n) <=> mac[n].caught)

LEMMA WiredOK == Wired
<1> SUFFICES ASSUME IInv, NEW n \in Ports, peer[n] = "port", Reachable(n)
             PROVE  Matched(n) <=> mac[n].caught
  BY DEF Wired
<1>1. mac[1 - n].fec = mac[n].fec
  BY Pair, SameMode
<1>2. mac[n].caught \in BOOLEAN
  BY TimeTypes DEF TimeTyped
<1> QED BY <1>1, <1>2 DEF Matched, PeerFec

LEMMA WiredNext == Wired'
  BY WiredOK, PTL

LEMMA OtherKeeps ==
    ASSUME TimeInv, TimersFit, IInv', NEW n \in Ports, LinkPoll(n), NEW k \in Ports, k # n
    PROVE  /\ link'[k] = link[k] /\ waited'[k] = waited[k] /\ peer'[k] = peer[k]
           /\ Age(k)' = Age(k) /\ ModeAge(k)' = ModeAge(k)
           /\ (Reachable(k)' <=> Reachable(k)) /\ (at' > k <=> at > k)
           /\ Quiet(k)' /\ (~link[k].link_up => Recent(k)' /\ InTurn(k)')
<1>1. /\ at = n /\ at' = n + 1 /\ now' = now /\ peer' = peer /\ fec_mode' = fec_mode
      /\ link'[k] = link[k] /\ waited'[k] = waited[k]
  BY PollOutcome DEF TimeInv
<1>2. Age(k)' = Age(k) /\ ModeAge(k)' = ModeAge(k)
  BY <1>1 DEF Age, ModeAge, Since
<1>3. (Reachable(k)' <=> Reachable(k)) /\ (Alternates' <=> Alternates)
  BY <1>1, ReachableSame DEF TimeInv
<1>4. n \in Nat /\ k \in Nat
  BY TimeTypes DEF TimeInv, TimeTyped
<1>5. at' > k <=> at > k
  BY <1>1, <1>4
<1>6. Quiet(k)'
  BY <1>1, <1>3 DEF TimeInv, OnTime, Quiet
<1>7. ASSUME \A j \in Ports : waited[j] = 0 PROVE \A j \in Ports : waited'[j] = 0
  <2>1. waited'[n] = 0
    <3>1. CASE mac_link_up(n)
      BY <3>1, PollOutcome DEF TimeInv, Sees, Loses, Stays, Retries
    <3>2. CASE ~mac_link_up(n)
      BY <1>7, <3>2, PollOutcome DEF TimeInv
    <3> QED BY <3>1, <3>2
  <2>2. \A j \in Ports : j # n => waited'[j] = waited[j]
    BY PollOutcome DEF TimeInv
  <2> QED BY <1>7, <2>1, <2>2
<1>8. ASSUME ~link[k].link_up PROVE Recent(k)' /\ InTurn(k)'
  <2>1. Recent(k) /\ InTurn(k)
    BY <1>8 DEF TimeInv, OnTime
  <2>2. Recent(k)'
    BY <1>2, <1>7, <2>1 DEF Recent, RetryWait
  <2>3. InTurn(k)'
    BY <1>2, <1>3, <2>1 DEF InTurn
  <2> QED BY <2>2, <2>3
<1> QED BY <1>1, <1>2, <1>3, <1>5, <1>6, <1>8

\* A retry comes only when no alignment is under way at either end.
LEMMA RetryInterruptsNothing ==
    ASSUME TimeInv, TimersFit, NEW n \in Ports, ~mac_link_up(n), ~link[n].link_up,
           Age(n) >= LINK_RETRY
    PROVE  /\ ~Straight(n)
           /\ NUM_PORTS = 2 => ~Crossed(n) /\ ~(Age(n) < ALIGN + MaxStep)
<1>1. /\ Age(n) \in Nat /\ mac[n].aligned \in 0 .. ALIGN
      /\ LINK_RETRY \in Nat /\ ALIGN \in Nat /\ MaxStep \in Nat
      /\ 0 < ALIGN /\ ALIGN <= LINK_RETRY
      /\ NUM_PORTS = 2 => 2 * ALIGN + MaxStep - 1 <= LINK_RETRY
  BY TimeTypes, Fits DEF TimeInv, TimeTyped
<1>2. Matched(n) => mac[n].aligned < ALIGN /\ mac[n].aligned # ALIGN
  BY <1>1 DEF mac_link_up
<1>3. ~Straight(n)
  BY <1>1, <1>2 DEF Straight, AlignedFor
<1>4. NUM_PORTS = 2 => ~(Age(n) < ALIGN + MaxStep)
  BY <1>1
<1>5. NUM_PORTS = 2 => ~Crossed(n)
  BY <1>1, <1>2 DEF Crossed
<1> QED BY <1>3, <1>4, <1>5

\* A port cabled to a station does not feel what its neighbour does.
LEMMA OtherStation ==
    ASSUME TimeInv, TimersFit, IInv', NEW n \in Ports, LinkPoll(n),
           NEW k \in Ports, k # n, peer[k] # "port"
    PROVE  OnTime(k)'
<1>1. /\ link'[k] = link[k] /\ waited'[k] = waited[k] /\ peer'[k] = peer[k]
      /\ Age(k)' = Age(k) /\ ModeAge(k)' = ModeAge(k)
      /\ (Reachable(k)' <=> Reachable(k)) /\ (at' > k <=> at > k)
      /\ Quiet(k)' /\ (~link[k].link_up => Recent(k)' /\ InTurn(k)')
  BY OtherKeeps
<1>2. mac'[k] = mac[k]
  BY PollOutcome DEF TimeInv, Sees, Loses, Stays, Retries
<1>3. Matched(k)' <=> Matched(k)
  BY <1>1, <1>2 DEF Matched, PeerFec
<1>4. mac_link_up(k)' <=> mac_link_up(k)
  BY <1>2, <1>3 DEF mac_link_up
<1>5. ASSUME ~link[k].link_up PROVE Polled(k)' /\ Reason(k)'
  <2>1. Polled(k) /\ Reason(k)
    BY <1>5 DEF TimeInv, OnTime
  <2>2. Polled(k)'
    BY <1>1, <1>4, <2>1 DEF Polled
  <2>3. Straight(k)' <=> Straight(k)
    BY <1>1, <1>2, <1>3 DEF Straight, AlignedFor
  <2>4. Found(k)' = Found(k)
    BY <1>1 DEF Found, RetryWait
  <2>5. ~Interrupted(k)
    BY DEF Interrupted
  <2>6. Reason(k)'
    BY <1>1, <1>2, <2>1, <2>3, <2>4, <2>5 DEF Reason, Waits, Wrong, Aligning, RetryWait
  <2> QED BY <2>2, <2>6
<1> QED BY <1>1, <1>5 DEF OnTime

\* A port that does not retry takes nothing from the port at the other end.
LEMMA OtherCalm ==
    ASSUME TimeInv, TimersFit, IInv', NEW n \in Ports, LinkPoll(n),
           NEW k \in Ports, k # n, peer[k] = "port", n = 1 - k, ~Retries(n)
    PROVE  OnTime(k)'
<1>1. /\ link'[k] = link[k] /\ waited'[k] = waited[k] /\ peer'[k] = peer[k]
      /\ Age(k)' = Age(k) /\ ModeAge(k)' = ModeAge(k)
      /\ (Reachable(k)' <=> Reachable(k)) /\ (at' > k <=> at > k)
      /\ Quiet(k)' /\ (~link[k].link_up => Recent(k)' /\ InTurn(k)')
  BY OtherKeeps
<1>2. /\ mac' = mac /\ peer' = peer /\ link'[n].link_up = mac_link_up(n)
      /\ at = n /\ at' = n + 1 /\ (Sees(n) \/ Loses(n) \/ Stays(n))
  BY PollOutcome DEF TimeInv, Sees, Loses, Stays
<1>3. \A j \in Ports : (Matched(j)' <=> Matched(j)) /\ (mac_link_up(j)' <=> mac_link_up(j))
  BY <1>2 DEF Matched, PeerFec, mac_link_up
<1>4. ASSUME ~link[k].link_up PROVE Polled(k)'
  <2>1. Polled(k)
    BY <1>4 DEF TimeInv, OnTime
  <2> QED BY <1>1, <1>3, <2>1 DEF Polled
<1>5. ASSUME ~link[k].link_up, Reachable(k) PROVE Reason(k)'
  <2>1. /\ Waits(k) \/ Wrong(k) \/ Aligning(k) \/ Interrupted(k)
        /\ Companion(k, n)
    BY <1>5 DEF TimeInv, OnTime, Reason
  <2>2. Straight(k)' <=> Straight(k)
    BY <1>1, <1>2, <1>3 DEF Straight, AlignedFor
  \* What the polled port's timer says afterwards.
  <2>3. \/ mac_link_up(n)
        \/ ~link[n].link_up /\ Age(n)' = Age(n)
        \/ link[n].link_up /\ Age(n)' = 0
    BY <1>2 DEF Sees, Loses, Stays
  <2>4. 0 \in Nat /\ 0 < ALIGN + MaxStep /\ 0 <= mac[k].aligned /\ 0 <= mac[n].aligned
    BY TimeTypes, Fits DEF TimeInv, TimeTyped
  <2>5. Crossed(k) => Crossed(k)'
    BY <1>1, <1>2, <1>3, <2>3, <2>4 DEF Crossed, AlignedFor
  <2>6. Found(k)' = Found(k)
    BY <1>1 DEF Found, RetryWait
  <2>7. Waits(k)' \/ Wrong(k)' \/ Aligning(k)' \/ Interrupted(k)'
    BY <1>1, <1>2, <2>1, <2>2, <2>5, <2>6
       DEF Waits, Wrong, Aligning, Interrupted, RetryWait
  <2>8. Companion(k, n)'
    <3>1. CASE Sees(n)
      <4>1. mac'[n].caught /\ link'[n].link_up
        BY <1>2, <3>1 DEF Sees, mac_link_up, Matched
      <4> QED BY <4>1 DEF Companion
    <3>2. CASE Loses(n)
      <4>1. ~link'[n].link_up /\ Age(n)' = 0
        BY <1>2, <3>2 DEF Loses
      <4>2. CASE mac[n].caught
        <5>1. peer[n] = "port" /\ Reachable(n)
          <6>1. peer[n] = "port"
            BY DEF TimeInv, Cabled
          <6> QED BY <1>5, <6>1, ReachablePort
        <5>2. Matched(n)
          BY <4>2, <5>1, WiredOK DEF Wired, TimeInv
        <5>3. Straight(n)'
          BY <1>2, <1>3, <2>4, <4>1, <5>2 DEF Straight, AlignedFor
        <5> QED BY <4>1, <5>3 DEF Companion
      <4>3. CASE ~mac[n].caught
        <5>1. waited[k] <= MaxStep
          BY <2>1, <3>2, <4>3 DEF Companion, Loses
        <5>2. waited'[k] <= Age(n)' + MaxStep
          BY <1>1, <4>1, <5>1, Fits
        <5> QED BY <4>1, <5>2 DEF Companion
      <4> QED BY <4>2, <4>3
    <3>3. CASE Stays(n)
      <4>1. ~link'[n].link_up /\ Age(n)' = Age(n) /\ ~link[n].link_up
        BY <1>2, <3>3 DEF Stays
      <4>2. Straight(n)' <=> Straight(n)
        BY <1>2, <1>3, <4>1 DEF Straight, AlignedFor
      <4>3. 1 - n = k
        BY Pair DEF TimeInv
      <4>4. Crossed(n) => Crossed(n)'
        BY <1>1, <1>2, <1>3, <4>1, <4>3 DEF Crossed, AlignedFor
      <4> QED BY <1>1, <2>1, <4>1, <4>2, <4>4 DEF Companion
    <3> QED BY <1>2, <3>1, <3>2, <3>3
  <2> QED BY <2>7, <2>8 DEF Reason
<1>6. ASSUME ~link[k].link_up PROVE Reason(k)'
  BY <1>1, <1>5, <1>6 DEF Reason
<1> QED BY <1>1, <1>4, <1>6 DEF OnTime

\* A retry of the port at the other end interrupts an alignment, and early in the
\* wait: it had waited as long, or has just lost its link.
LEMMA OtherRetries ==
    ASSUME TimeInv, TimersFit, IInv', NEW n \in Ports, LinkPoll(n),
           NEW k \in Ports, k # n, peer[k] = "port", n = 1 - k, Retries(n)
    PROVE  OnTime(k)'
<1>1. /\ link'[k] = link[k] /\ waited'[k] = waited[k] /\ peer'[k] = peer[k]
      /\ Age(k)' = Age(k) /\ ModeAge(k)' = ModeAge(k)
      /\ (Reachable(k)' <=> Reachable(k)) /\ (at' > k <=> at > k)
      /\ Quiet(k)' /\ (~link[k].link_up => Recent(k)' /\ InTurn(k)')
  BY OtherKeeps
<1>2. /\ peer' = peer /\ link'[n].link_up = mac_link_up(n) /\ peer[n] = "port"
      /\ NUM_PORTS = 2 /\ 1 - n = k
  BY PollOutcome, Pair DEF TimeInv, Cabled
<1>3. /\ ~mac_link_up(n) /\ ~link[n].link_up /\ Age(n) >= LINK_RETRY /\ Age(n)' = 0
      /\ mac'[n].caught /\ mac'[n].aligned = 0
      /\ mac'[k] = [mac[k] EXCEPT !.aligned = 0]
  BY <1>2 DEF Retries
<1>4. mac'[k].caught = mac[k].caught /\ mac'[k].aligned = 0 /\ mac'[k].fec = mac[k].fec
  <2>1. mac[k] \in MacRecord
    BY TimeTypes DEF TimeInv, TimeTyped
  <2> QED BY <1>3, <2>1 DEF MacRecord
<1>5. /\ ~Straight(n) /\ ~Crossed(n) /\ ~(Age(n) < ALIGN + MaxStep)
  BY <1>2, <1>3, RetryInterruptsNothing
<1>6. ASSUME ~link[k].link_up PROVE Polled(k)'
  <2>1. Polled(k)
    BY <1>6 DEF TimeInv, OnTime
  <2>2. ~mac_link_up(k)'
    BY <1>4, Fits DEF mac_link_up
  <2> QED BY <1>1, <2>1, <2>2 DEF Polled
<1>7. ASSUME ~link[k].link_up, Reachable(k) PROVE Reason(k)'
  <2>1. /\ Waits(k) \/ Wrong(k) \/ Aligning(k) \/ Interrupted(k)
        /\ Companion(k, n) /\ Recent(n)
    BY <1>3, <1>7 DEF TimeInv, OnTime, Reason
  <2>2. 0 < ALIGN + MaxStep /\ RetryWait \in Nat /\ MaxStep \in Nat /\ ALIGN \in Nat
        /\ waited[k] \in Nat /\ Age(n) \in Nat /\ Age(k) \in Nat /\ 0 < ALIGN
    BY TimeTypes, Fits DEF TimeInv, TimeTyped
  <2>3. waited[k] <= RetryWait + MaxStep
    <3>1. waited[k] <= Age(n) + MaxStep
      BY <1>3, <1>5, <2>1 DEF Companion
    <3>2. Age(n) <= RetryWait \/ waited[k] = 0
      BY <2>1 DEF Recent
    <3> QED BY <2>2, <3>1, <3>2
  <2>4. Reachable(n)
    BY <1>2, <1>7, ReachablePort
  <2>5. Matched(n)' /\ (Matched(k) => Matched(k)')
    <3>1. Reachable(n)' /\ Reachable(k)' /\ peer'[n] = "port" /\ peer'[k] = "port"
      <4>1. Reachable(n)' <=> Reachable(n)
        BY <1>2, PollOutcome, ReachableSame DEF TimeInv
      <4> QED BY <1>1, <1>2, <1>7, <2>4, <4>1
    <3> QED BY <1>3, <1>4, <1>7, <3>1, WiredOK, WiredNext DEF Wired, TimeInv
  <2>6. ~Wrong(k) /\ ~Interrupted(k)
    BY <1>3, <1>5 DEF Wrong, Interrupted, Crossed
  <2>7. Waits(k) => Waits(k)'
    BY <1>1 DEF Waits, RetryWait
  <2>8. ASSUME Aligning(k) PROVE Interrupted(k)'
    <3>1. Crossed(k)'
      BY <1>1, <1>3, <1>4, <2>2, <2>5, <2>8 DEF Aligning, Straight, Crossed, AlignedFor
    <3>2. waited'[k] <= RetryWait + MaxStep + 0
      BY <1>1, <2>2, <2>3
    <3> QED BY <1>1, <1>4, <2>2, <3>1, <3>2 DEF Interrupted, RetryWait
  <2>9. Companion(k, n)'
    <3>1. Straight(n)'
      BY <1>3, <2>2, <2>5 DEF Straight, AlignedFor
    <3>2. ~link'[n].link_up
      BY <1>2, <1>3
    <3> QED BY <3>1, <3>2 DEF Companion
  <2> QED BY <1>2, <2>1, <2>6, <2>7, <2>8, <2>9 DEF Reason
<1>8. ASSUME ~link[k].link_up PROVE Reason(k)'
  BY <1>1, <1>7, <1>8 DEF Reason
<1> QED BY <1>1, <1>6, <1>8 DEF OnTime

-----------------------------------------------------------------------------
(* The port that is polled.                                                *)

\* The port at the other end of a polled port only has its alignment interrupted,
\* if at all.
LEMMA PolledCompanion ==
    ASSUME TimeInv, TimersFit, IInv', NEW n \in Ports, LinkPoll(n), ~link'[n].link_up,
           ~link[n].link_up, peer[n] = "port", Reachable(n)
    PROVE  Companion(n, 1 - n)'
<1> DEFINE m == 1 - n
<1>1. /\ m \in Ports /\ m # n /\ 1 - m = n /\ NUM_PORTS = 2 /\ peer[m] = "port"
  BY Pair DEF TimeInv, Cabled
<1> HIDE DEF m
<1>2. /\ at = n /\ at' = n + 1 /\ peer' = peer /\ fec_mode' = fec_mode
      /\ ~mac_link_up(n) /\ waited'[n] = waited[n] /\ link'[m] = link[m]
      /\ Loses(n) \/ Stays(n) \/ Retries(n)
  BY <1>1, PollOutcome DEF TimeInv, Sees
<1>3. Companion(n, m)
  BY DEF TimeInv, OnTime, Reason, m
<1>4. Age(m)' = Age(m) /\ (at' > m <=> at > m)
  BY <1>1, OtherKeeps
<1>5. /\ 0 < ALIGN + MaxStep /\ 0 \in Nat /\ Age(n) \in Nat
      /\ 0 <= mac[m].aligned /\ mac[m] \in MacRecord
  BY <1>1, TimeTypes, Fits DEF TimeInv, TimeTyped
<1>6. ASSUME Stays(n) PROVE Companion(n, m)'
  <2>1. mac' = mac /\ Age(n)' = Age(n)
    BY <1>6 DEF Stays
  <2>2. Matched(m)' <=> Matched(m)
    BY <1>2, <2>1 DEF Matched, PeerFec
  <2>3. (Straight(m) => Straight(m)') /\ (Crossed(m) => Crossed(m)')
    BY <1>1, <1>2, <1>4, <2>1, <2>2 DEF Straight, Crossed, AlignedFor
  <2> QED BY <1>2, <1>3, <1>4, <2>1, <2>3 DEF Companion
<1>7. ASSUME Retries(n) PROVE Companion(n, m)'
  <2>1. mac'[m] = [mac[m] EXCEPT !.aligned = 0] /\ Age(n)' = 0 /\ Age(n) >= LINK_RETRY
    BY <1>1, <1>7 DEF Retries
  <2>2. mac'[m].aligned = 0 /\ mac'[m].caught = mac[m].caught
    BY <1>5, <2>1 DEF MacRecord
  <2>3. Matched(m) => Matched(m)'
    <3>1. Reachable(m) /\ (Reachable(m)' <=> Reachable(m)) /\ peer'[m] = "port"
      BY <1>1, <1>2, ReachablePort, ReachableSame DEF TimeInv
    <3> QED BY <1>1, <2>2, <3>1, WiredOK, WiredNext DEF Wired, TimeInv
  <2>4. ~link[m].link_up => (Crossed(m) => FALSE)
    <3>1. ~(Age(n) < ALIGN + MaxStep)
      BY <1>1, <1>2, <2>1, RetryInterruptsNothing
    <3> QED BY <1>1, <3>1 DEF Crossed
  <2>5. Straight(m) => Crossed(m)'
    <3> SUFFICES ASSUME Straight(m) PROVE Crossed(m)'
      OBVIOUS
    <3>1. Matched(m)' /\ Age(m)' < ALIGN + MaxStep /\ Age(1 - m)' = 0
      BY <1>1, <1>4, <2>1, <2>3 DEF Straight
    <3>2. Age(m)' < ALIGN + MaxStep + 0
      BY <1>1, <1>4, <3>1, Fits, TimeTypes DEF TimeInv, TimeTyped
    <3> QED BY <1>5, <2>2, <3>1, <3>2 DEF Crossed, AlignedFor
  <2> QED BY <1>2, <1>3, <1>4, <2>2, <2>4, <2>5 DEF Companion
<1>8. ~Loses(n)
  BY DEF Loses
<1> QED BY <1>2, <1>6, <1>7, <1>8 DEF m

LEMMA PolledPort ==
    ASSUME TimeInv, TimersFit, IInv', NEW n \in Ports, LinkPoll(n)
    PROVE  OnTime(n)'
<1>1. /\ at = n /\ at' = n + 1 /\ peer' = peer /\ fec_mode' = fec_mode
      /\ link'[n].link_up = mac_link_up(n)
      /\ ~mac_link_up(n) => waited'[n] = waited[n]
      /\ Sees(n) \/ Loses(n) \/ Stays(n) \/ Retries(n)
  BY PollOutcome DEF TimeInv
<1>2. (Reachable(n)' <=> Reachable(n)) /\ (Alternates' <=> Alternates)
  BY <1>1, ReachableSame DEF TimeInv
<1>3. /\ waited[n] \in Nat /\ Age(n) \in Nat /\ ModeAge(n) \in Nat
      /\ RetryWait \in Nat /\ ALIGN \in Nat /\ MaxStep \in Nat /\ FEC_FALLBACK \in Nat
      /\ LINK_RETRY \in Nat /\ 0 < ALIGN /\ ALIGN <= LINK_RETRY /\ 0 < MaxStep
      /\ RetryWait = LINK_RETRY + MaxStep - 1
  BY TimeTypes, Fits DEF TimeInv, TimeTyped
<1>4. CASE Sees(n)
  BY <1>1, <1>4 DEF Sees, OnTime, Quiet
<1>5. CASE Loses(n)
  <2>1. waited'[n] = 0
    BY <1>1, <1>5 DEF Loses, TimeInv, OnTime, Quiet
  <2>2. /\ Age(n)' = 0 /\ ModeAge(n)' = 0 /\ mac' = mac /\ ~mac_link_up(n)
    BY <1>5 DEF Loses
  <2>3. ~mac_link_up(n)'
    BY <1>1, <2>2 DEF mac_link_up, Matched, PeerFec
  <2>4. Quiet(n)' /\ Polled(n)' /\ Recent(n)' /\ InTurn(n)'
    <3>1. 0 < LINK_RETRY /\ 0 <= RetryWait /\ (FEC_FALLBACK > 0 => 0 < FEC_FALLBACK + 0)
      BY <1>3
    <3> QED BY <2>1, <2>2, <2>3, <3>1 DEF Quiet, Polled, Recent, InTurn, Alternates, RetryWait
  <2>5. Reason(n)'
    <3>1. Waits(n)'
      BY <1>3, <2>1, <2>2 DEF Waits, RetryWait
    <3>2. peer[n] = "port" => Companion(n, 1 - n)'
      <4>1. SUFFICES ASSUME peer[n] = "port" PROVE Companion(n, 1 - n)'
        OBVIOUS
      <4>2. Age(1 - n)' \in Nat
        BY <4>1, Pair, TimeTypesNext DEF TimeInv, TimeTyped
      <4>3. 0 <= MaxStep /\ 0 <= Age(1 - n)' + MaxStep
        BY <1>3, <4>2
      <4> QED BY <2>1, <4>3 DEF Companion
    <3> QED BY <1>1, <3>1, <3>2 DEF Reason
  <2> QED BY <2>4, <2>5 DEF OnTime
<1>6. CASE Stays(n)
  <2>1. /\ Age(n)' = Age(n) /\ ModeAge(n)' = ModeAge(n) /\ mac' = mac /\ ~mac_link_up(n)
        /\ ~link[n].link_up /\ Age(n) < LINK_RETRY /\ waited'[n] = waited[n]
    BY <1>1, <1>6 DEF Stays
  <2>2. Matched(n)' <=> Matched(n)
    BY <1>1, <2>1 DEF Matched, PeerFec
  <2>3. ~mac_link_up(n)'
    BY <2>1, <2>2 DEF mac_link_up
  <2>4. Quiet(n) /\ InTurn(n) /\ Reason(n)
    BY <2>1 DEF TimeInv, OnTime
  <2>5. Age(n) <= RetryWait
    BY <1>3, <2>1
  <2>6. Quiet(n)' /\ Polled(n)' /\ Recent(n)' /\ InTurn(n)'
    BY <1>1, <1>2, <2>1, <2>3, <2>4, <2>5 DEF Quiet, Polled, Recent, InTurn, RetryWait
  <2>7. Straight(n)' <=> Straight(n)
    BY <2>1, <2>2 DEF Straight, AlignedFor
  <2>8. ASSUME peer[n] = "port" PROVE Crossed(n)' <=> Crossed(n)
    <3>1. 1 - n \in Ports /\ 1 - n # n
      BY <2>8, Pair DEF TimeInv
    <3>2. link'[1 - n] = link[1 - n] /\ Age(1 - n)' = Age(1 - n)
      BY <3>1, OtherKeeps
    <3> QED BY <2>1, <2>2, <3>2 DEF Crossed, AlignedFor
  <2>9. Found(n)' = Found(n)
    BY <1>1 DEF Found, RetryWait
  <2>10. Reachable(n) => Waits(n)' \/ Wrong(n)' \/ Aligning(n)' \/ Interrupted(n)'
    BY <1>1, <2>1, <2>4, <2>7, <2>8, <2>9 DEF Reason, Waits, Wrong, Aligning, Interrupted, RetryWait
  <2>11. Reachable(n) /\ peer[n] = "port" => Companion(n, 1 - n)'
    BY <1>1, <2>1, PolledCompanion
  <2>12. Reason(n)'
    BY <1>1, <1>2, <2>10, <2>11 DEF Reason
  <2> QED BY <2>6, <2>12 DEF OnTime
<1>7. CASE Retries(n)
  <2>1. /\ ~mac_link_up(n) /\ ~link[n].link_up /\ Age(n) >= LINK_RETRY /\ Age(n)' = 0
        /\ mac'[n].caught = (peer[n] # "none") /\ mac'[n].aligned = 0
        /\ \/ /\ mac'[n].fec = mac[n].fec /\ ModeAge(n)' = ModeAge(n)
              /\ Alternates => ModeAge(n) < FEC_FALLBACK
           \/ /\ mac'[n].fec = IF mac[n].fec = "off" THEN fec_mode ELSE "off"
              /\ ModeAge(n)' = 0 /\ Alternates
        /\ waited'[n] = waited[n]
    BY <1>1, <1>7 DEF Retries
  <2>2. ~mac_link_up(n)'
    BY <1>3, <2>1 DEF mac_link_up
  <2>3. Quiet(n) /\ InTurn(n) /\ Reason(n) /\ Recent(n)
    BY <2>1 DEF TimeInv, OnTime
  <2>4. Quiet(n)' /\ Polled(n)' /\ Recent(n)' /\ InTurn(n)'
    <3>1. 0 < LINK_RETRY /\ 0 <= RetryWait
      BY <1>3
    <3>2. Quiet(n)' /\ Polled(n)' /\ Recent(n)'
      BY <1>1, <1>2, <2>1, <2>2, <2>3, <3>1 DEF Quiet, Polled, Recent, RetryWait
    <3>3. Alternates => FEC_FALLBACK > 0 /\ ModeAge(n)' < FEC_FALLBACK + 0
      BY <1>3, <2>1 DEF Alternates
    <3>4. InTurn(n)'
      BY <1>2, <2>1, <3>3 DEF InTurn
    <3> QED BY <3>2, <3>4
  <2>5. ASSUME Reachable(n) PROVE Reason(n)'
    <3>1. ~Aligning(n) /\ ~Interrupted(n)
      <4>1. ~Straight(n) /\ (NUM_PORTS = 2 => ~Crossed(n))
        BY <2>1, RetryInterruptsNothing
      <4>2. peer[n] = "port" => NUM_PORTS = 2
        BY Pair DEF TimeInv
      <4> QED BY <4>1, <4>2 DEF Aligning, Interrupted
    <3>2. Waits(n) \/ Wrong(n)
      BY <2>3, <2>5, <3>1 DEF Reason
    <3>3. Found(n) \in Nat /\ RetryWait <= Found(n) /\ Found(n)' = Found(n)
      BY <1>1, <1>3 DEF Found, RetryWait
    \* However the port waited, it has found its mode in time if this is it.
    <3>4. waited[n] <= Found(n)
      <4>1. CASE Waits(n)
        BY <1>3, <3>3, <4>1 DEF Waits
      <4>2. CASE Wrong(n)
        <5>1. peer[n] # "port" /\ Alternates
          BY <2>5, <4>2, WrongMode DEF Wrong, TimeInv
        <5>2. waited[n] <= RetryWait + ModeAge(n) /\ ModeAge(n) < FEC_FALLBACK + Age(n)
          BY <2>3, <4>2, <5>1 DEF Wrong, InTurn
        <5>3. Age(n) <= RetryWait \/ waited[n] = 0
          BY <2>3 DEF Recent
        <5>4. Found(n) = RetryWait + (FEC_FALLBACK + RetryWait)
          BY <5>1 DEF Found, Alternates
        <5> QED BY <1>3, <5>2, <5>3, <5>4
      <4> QED BY <3>2, <4>1, <4>2
    <3>5. CASE Matched(n)'
      <4>1. Straight(n)'
        BY <1>3, <2>1, <3>5 DEF Straight, AlignedFor
      <4>2. waited'[n] <= Found(n)' + Age(n)'
        BY <1>3, <2>1, <3>3, <3>4
      <4> QED BY <1>1, <2>1, <2>5, <4>1, <4>2, PolledCompanion DEF Reason, Aligning
    <3>6. CASE ~Matched(n)'
      <4>1. peer[n] # "none" /\ mac'[n].caught
        BY <2>1, <2>5 DEF Reachable, Fecs
      <4>2. peer[n] # "port"
        BY <1>1, <1>2, <2>5, <3>6, <4>1, WiredNext DEF Wired
      <4>3. mac'[n].fec # peer[n]
        BY <1>1, <3>6, <4>1, <4>2 DEF Matched, PeerFec
      <4>4. waited[n] <= RetryWait + ModeAge(n)'
        <5>1. CASE Waits(n)
          <6>1. waited[n] <= RetryWait
            BY <5>1 DEF Waits
          <6>2. ModeAge(n)' \in Nat
            BY TimeTypesNext DEF TimeTyped
          <6> QED BY <1>3, <6>1, <6>2
        <5>2. CASE Wrong(n)
          <6>1. peer[n] = IF mac[n].fec = "off" THEN fec_mode ELSE "off"
            BY <2>5, <5>2, WrongMode DEF Wrong, TimeInv
          <6>2. ModeAge(n)' = ModeAge(n)
            BY <2>1, <4>3, <6>1
          <6> QED BY <5>2, <6>2 DEF Wrong
        <5> QED BY <3>2, <5>1, <5>2
      <4> QED BY <1>1, <2>1, <4>2, <4>3, <4>4 DEF Reason, Wrong, RetryWait
    <3> QED BY <3>5, <3>6
  <2>6. Reason(n)'
    BY <1>2, <2>5 DEF Reason
  <2> QED BY <2>4, <2>6 DEF OnTime
<1> QED BY <1>1, <1>4, <1>5, <1>6, <1>7

LEMMA TimeLinkPoll ==
    ASSUME TimeInv, TimersFit, NEW n \in Ports, LinkPoll(n)
    PROVE  TimeInv'
<1>1. IInv'
  BY LinkPollOK DEF TimeInv
<1>2. Cabled'
  <2>1. peer' = peer
    BY PollOutcome DEF TimeInv
  <2> QED BY <2>1 DEF TimeInv, Cabled
<1>3. ASSUME NEW k \in Ports PROVE OnTime(k)'
  <2>1. CASE k = n
    BY <1>1, <2>1, PolledPort
  <2>2. CASE k # n /\ peer[k] # "port"
    BY <1>1, <2>2, OtherStation
  <2>3. CASE k # n /\ peer[k] = "port"
    <3>1. n = 1 - k
      BY <2>3, Pair DEF TimeInv
    <3> QED BY <1>1, <2>3, <3>1, OtherCalm, OtherRetries
  <2> QED BY <2>1, <2>2, <2>3
<1> QED BY <1>1, <1>2, <1>3 DEF TimeInv

-----------------------------------------------------------------------------
(* The next pass: every timer and every alignment goes on by d.            *)

\* What the next pass does to a port that has no link after its poll.
LEMMA PassOn ==
    ASSUME TimeInv, TimersFit, NEW d \in 1 .. MaxStep, NextPass(d), NEW n \in Ports,
           ~link[n].link_up
    PROVE  /\ Age(n) < LINK_RETRY /\ Age(n)' = Age(n) + d
           /\ Alternates => ModeAge(n)' = ModeAge(n) + d
           /\ Matched(n) => /\ mac[n].aligned < ALIGN
                            /\ mac'[n].aligned = mac[n].aligned + d \/ mac'[n].aligned = ALIGN
<1>1. /\ at = NUM_PORTS /\ now' = (now + d) % CLOCK /\ link' = link
  BY DEF NextPass
<1>2. /\ CLOCK \in Nat \ {0} /\ now \in 0 .. CLOCK - 1
      /\ link[n].last_retry \in 0 .. CLOCK - 1 /\ link[n].last_fec_switch \in 0 .. CLOCK - 1
      /\ Age(n) \in Nat /\ ModeAge(n) \in Nat /\ mac[n].aligned \in 0 .. ALIGN
      /\ mac[n] \in MacRecord
  BY TimeTypes DEF TimeInv, TimeTyped
<1>3. /\ d \in 0 .. CLOCK /\ d <= MaxStep /\ d \in Nat /\ LINK_RETRY \in Nat /\ MaxStep \in Nat
      /\ ALIGN \in Nat /\ FEC_FALLBACK \in Nat /\ FEC_FALLBACK + LINK_RETRY + MaxStep - 1 <= CLOCK
      /\ LINK_RETRY + MaxStep - 1 < CLOCK
  BY Fits, Consts
<1>4. Age(n) < LINK_RETRY /\ ~mac_link_up(n) /\ InTurn(n)
  <2>1. at > n
    BY <1>1, Consts DEF Ports
  <2> QED BY <2>1 DEF TimeInv, OnTime, Polled
<1>5. Age(n)' = Age(n) + d
  <2>1. Age(n) + d < CLOCK
    BY <1>2, <1>3, <1>4
  <2>2. (((now + d) % CLOCK) - link[n].last_retry) % CLOCK
           = ((now - link[n].last_retry) % CLOCK) + d
    BY <1>2, <1>3, <2>1, Exactly DEF Age, Since
  <2> QED BY <1>1, <2>2 DEF Age, Since
<1>6. Alternates => ModeAge(n)' = ModeAge(n) + d
  <2> SUFFICES ASSUME Alternates PROVE ModeAge(n)' = ModeAge(n) + d
    OBVIOUS
  <2>1. ModeAge(n) < FEC_FALLBACK + Age(n)
    BY <1>4 DEF InTurn
  <2>2. ModeAge(n) + d < CLOCK
    BY <1>2, <1>3, <1>4, <2>1
  <2>3. (((now + d) % CLOCK) - link[n].last_fec_switch) % CLOCK
           = ((now - link[n].last_fec_switch) % CLOCK) + d
    BY <1>2, <1>3, <2>2, Exactly DEF ModeAge, Since
  <2> QED BY <1>1, <2>3 DEF ModeAge, Since
<1>7. ASSUME Matched(n)
      PROVE  /\ mac[n].aligned < ALIGN
             /\ mac'[n].aligned = mac[n].aligned + d \/ mac'[n].aligned = ALIGN
  <2>1. mac[n].aligned < ALIGN
    BY <1>2, <1>3, <1>4, <1>7 DEF mac_link_up
  <2>2. PICK early \in SUBSET Ports :
          mac' = [k \in Ports |-> [mac[k] EXCEPT !.aligned =
                    IF ~Matched(k) THEN 0
                    ELSE IF k \in early \/ @ + d > ALIGN THEN ALIGN ELSE @ + d]]
    BY DEF NextPass
  <2>3. mac'[n] = [mac[n] EXCEPT !.aligned =
                     IF n \in early \/ mac[n].aligned + d > ALIGN THEN ALIGN
                     ELSE mac[n].aligned + d]
    BY <1>7, <2>2
  <2>4. mac'[n].aligned = IF n \in early \/ mac[n].aligned + d > ALIGN THEN ALIGN
                          ELSE mac[n].aligned + d
    BY <1>2, <2>3 DEF MacRecord
  <2> QED BY <2>1, <2>4
<1> QED BY <1>4, <1>5, <1>6, <1>7

LEMMA PassSame ==
    ASSUME TimeInv, TimersFit, NEW d \in 1 .. MaxStep, NextPass(d), NEW n \in Ports
    PROVE  /\ link' = link /\ peer' = peer /\ fec_mode' = fec_mode /\ at' = 0
           /\ mac'[n].fec = mac[n].fec /\ mac'[n].caught = mac[n].caught
           /\ (Reachable(n)' <=> Reachable(n)) /\ (Alternates' <=> Alternates)
           /\ (Matched(n)' <=> Matched(n))
           /\ waited'[n] \in Nat
           /\ IF Reachable(n) /\ ~link[n].link_up THEN waited'[n] <= waited[n] + d
              ELSE waited'[n] = 0
<1>1. /\ link' = link /\ peer' = peer /\ fec_mode' = fec_mode /\ at' = 0
      /\ waited' = [k \in Ports |->
                     IF Reachable(k) /\ ~link[k].link_up THEN Capped(waited[k], d) ELSE 0]
  BY DEF NextPass
<1>2. IInv' /\ \A k \in Ports : mac'[k].fec = mac[k].fec
  BY NextPassOK DEF TimeInv
<1>3. ASSUME NEW k \in Ports PROVE mac'[k].caught = mac[k].caught
  <2>1. mac[k] \in MacRecord
    BY TimeTypes DEF TimeInv, TimeTyped
  <2>2. PICK early \in SUBSET Ports :
          mac' = [j \in Ports |-> [mac[j] EXCEPT !.aligned =
                    IF ~Matched(j) THEN 0
                    ELSE IF j \in early \/ @ + d > ALIGN THEN ALIGN ELSE @ + d]]
    BY DEF NextPass
  <2> DEFINE a == IF ~Matched(k) THEN 0
                  ELSE IF k \in early \/ mac[k].aligned + d > ALIGN THEN ALIGN
                  ELSE mac[k].aligned + d
  <2>3. mac'[k] = [mac[k] EXCEPT !.aligned = a]
    BY <2>2
  <2> HIDE DEF a
  <2> QED BY <2>1, <2>3 DEF MacRecord
<1>4. (Reachable(n)' <=> Reachable(n)) /\ (Alternates' <=> Alternates)
  BY <1>1, <1>2, ReachableSame DEF TimeInv
<1>5. Matched(n)' <=> Matched(n)
  <2>1. PeerFec(n)' = PeerFec(n)
    <3>1. CASE peer[n] = "port"
      <4>1. 1 - n \in Ports
        BY <3>1, Pair DEF TimeInv
      <4> QED BY <1>1, <1>2, <4>1 DEF PeerFec
    <3>2. CASE peer[n] # "port"
      BY <1>1, <3>2 DEF PeerFec
    <3> QED BY <3>1, <3>2
  <2> QED BY <1>1, <1>2, <1>3, <2>1 DEF Matched
<1>6. waited[n] \in 0 .. MaxWatch /\ d \in Nat
  BY Types, Fits DEF TimeInv, IInv
<1>7. Capped(waited[n], d) \in Nat /\ Capped(waited[n], d) <= waited[n] + d
  BY <1>6, Consts DEF Capped
<1> QED BY <1>1, <1>2, <1>3, <1>4, <1>5, <1>7

\* An alignment that goes on is not interrupted by the clock.
LEMMA PassAligns ==
    ASSUME TimeInv, TimersFit, NEW d \in 1 .. MaxStep, NextPass(d), NEW n \in Ports,
           ~link[n].link_up
    PROVE  /\ Straight(n) => Straight(n)'
           /\ peer[n] = "port" /\ Crossed(n) => Crossed(n)'
<1>1. /\ Age(n) \in Nat /\ mac[n].aligned \in Nat /\ ALIGN \in Nat /\ MaxStep \in Nat
      /\ d \in Nat /\ d <= MaxStep
  BY TimeTypes, Fits DEF TimeInv, TimeTyped
<1>2. /\ Age(n)' = Age(n) + d /\ (Matched(n)' <=> Matched(n))
      /\ Matched(n) => /\ mac[n].aligned < ALIGN /\ mac[n].aligned # ALIGN
                       /\ mac'[n].aligned = mac[n].aligned + d \/ mac'[n].aligned = ALIGN
  BY <1>1, PassOn, PassSame
<1>3. ASSUME Straight(n) PROVE Straight(n)'
  <2>1. Matched(n) /\ Age(n) <= mac[n].aligned
    BY <1>2, <1>3 DEF Straight, AlignedFor
  <2>2. Age(n)' < ALIGN + MaxStep /\ (Age(n)' <= mac'[n].aligned \/ mac'[n].aligned = ALIGN)
    BY <1>1, <1>2, <2>1
  <2> QED BY <1>2, <2>1, <2>2 DEF Straight, AlignedFor
<1>4. ASSUME peer[n] = "port", Crossed(n) PROVE Crossed(n)'
  <2>1. Matched(n) /\ Age(n) < ALIGN + MaxStep + mac[n].aligned
    BY <1>2, <1>4 DEF Crossed
  <2>2. mac'[n].aligned = ALIGN \/ Age(n)' < ALIGN + MaxStep + mac'[n].aligned
    BY <1>1, <1>2, <2>1
  <2>3. ASSUME ~link'[1 - n].link_up
        PROVE  AlignedFor(n, Age(1 - n))' /\ Age(1 - n)' < ALIGN + MaxStep
    <3> DEFINE m == 1 - n
    <3>1. m \in Ports
      BY <1>4, Pair DEF TimeInv
    <3> HIDE DEF m
    <3>2. ~link[m].link_up
      BY <2>3, PassSame DEF m
    <3>3. Age(m) <= mac[n].aligned
      BY <1>2, <1>4, <2>1, <3>2 DEF Crossed, AlignedFor, m
    <3>4. Age(m)' = Age(m) + d /\ Age(m) \in Nat
      BY <3>1, <3>2, PassOn, TimeTypes DEF TimeInv, TimeTyped
    <3>5. Age(m)' < ALIGN + MaxStep /\ (Age(m)' <= mac'[n].aligned \/ mac'[n].aligned = ALIGN)
      BY <1>1, <1>2, <2>1, <3>3, <3>4
    <3> QED BY <3>5 DEF AlignedFor, m
  <2> QED BY <1>2, <2>1, <2>2, <2>3 DEF Crossed
<1> QED BY <1>3, <1>4

LEMMA TimeNextPass ==
    ASSUME TimeInv, TimersFit, NEW d \in 1 .. MaxStep, NextPass(d)
    PROVE  TimeInv'
<1>1. IInv'
  BY NextPassOK DEF TimeInv
<1>2. Cabled'
  <2>1. peer' = peer
    BY DEF NextPass
  <2> QED BY <2>1 DEF TimeInv, Cabled
<1>3. ASSUME NEW n \in Ports PROVE OnTime(n)'
  <2>1. /\ link' = link /\ peer' = peer /\ fec_mode' = fec_mode /\ at' = 0
        /\ mac'[n].fec = mac[n].fec
        /\ (Reachable(n)' <=> Reachable(n)) /\ (Alternates' <=> Alternates)
        /\ waited'[n] \in Nat
        /\ IF Reachable(n) /\ ~link[n].link_up THEN waited'[n] <= waited[n] + d
           ELSE waited'[n] = 0
    BY PassSame
  <2>2. Quiet(n)'
    BY <2>1 DEF Quiet
  <2>3. ASSUME ~link[n].link_up PROVE Polled(n)' /\ Recent(n)' /\ InTurn(n)' /\ Reason(n)'
    <3>1. /\ Age(n) < LINK_RETRY /\ Age(n)' = Age(n) + d
          /\ Alternates => ModeAge(n)' = ModeAge(n) + d
          /\ Matched(n) => /\ mac[n].aligned < ALIGN
                           /\ mac'[n].aligned = mac[n].aligned + d \/ mac'[n].aligned = ALIGN
      BY <2>3, PassOn
    <3>2. InTurn(n) /\ Reason(n)
      BY <2>3 DEF TimeInv, OnTime
    <3>3. /\ Age(n) \in Nat /\ ModeAge(n) \in Nat /\ waited[n] \in Nat /\ mac[n].aligned \in Nat
          /\ d \in Nat /\ d <= MaxStep /\ MaxStep \in Nat /\ ALIGN \in Nat /\ LINK_RETRY \in Nat
          /\ FEC_FALLBACK \in Nat /\ RetryWait \in Nat /\ RetryWait = LINK_RETRY + MaxStep - 1
          /\ n \in Nat
      BY TimeTypes, Fits DEF TimeInv, TimeTyped
    <3>4. Polled(n)'
      BY <2>1, <3>3 DEF Polled
    <3>5. Age(n)' <= RetryWait
      BY <3>1, <3>3
    <3>6. Recent(n)'
      BY <3>5 DEF Recent, RetryWait
    <3>7. InTurn(n)'
      <4>1. Alternates => ModeAge(n) + d < FEC_FALLBACK + (Age(n) + d)
        BY <3>2, <3>3 DEF InTurn
      <4> QED BY <2>1, <3>1, <4>1 DEF InTurn
    <3>8. ASSUME Reachable(n) PROVE Reason(n)'
      <4>1. waited'[n] <= waited[n] + d
        BY <2>1, <2>3, <3>8
      <4>2. Waits(n) => Waits(n)'
        <5>1. ASSUME Waits(n) PROVE waited'[n] <= Age(n)' /\ waited'[n] <= RetryWait
          BY <2>1, <3>1, <3>3, <4>1, <5>1 DEF Waits
        <5> QED BY <5>1 DEF Waits, RetryWait
      <4>3. Wrong(n) => Wrong(n)'
        <5>1. ASSUME Wrong(n) PROVE waited'[n] <= RetryWait + ModeAge(n)'
          <6>1. Alternates
            BY <3>8, <5>1, WrongMode DEF Wrong, TimeInv
          <6> QED BY <2>1, <3>1, <3>3, <4>1, <5>1, <6>1 DEF Wrong
        <5> QED BY <2>1, <5>1 DEF Wrong, RetryWait
      <4>4. Aligning(n) => Aligning(n)'
        <5>1. ASSUME Aligning(n) PROVE waited'[n] <= Found(n)' + Age(n)'
          <6>1. Found(n) \in Nat /\ Found(n)' = Found(n)
            BY <2>1, <3>3 DEF Found, RetryWait
          <6> QED BY <2>1, <3>1, <3>3, <4>1, <5>1, <6>1 DEF Aligning
        <5>2. Straight(n) => Straight(n)'
          BY <2>3, PassAligns
        <5> QED BY <5>1, <5>2 DEF Aligning
      <4>5. Interrupted(n) => Interrupted(n)'
        <5>1. ASSUME Interrupted(n)
              PROVE  waited'[n] <= RetryWait + MaxStep
                       + (IF mac'[n].aligned = ALIGN THEN ALIGN + MaxStep - 1 ELSE mac'[n].aligned)
          <6>1. Matched(n)
            BY <5>1 DEF Interrupted, Crossed
          <6>2. mac[n].aligned < ALIGN /\ mac[n].aligned # ALIGN
            BY <3>1, <3>3, <6>1
          <6>3. waited[n] <= RetryWait + MaxStep + mac[n].aligned
            BY <5>1, <6>2 DEF Interrupted
          <6> QED BY <2>1, <3>1, <3>3, <4>1, <6>1, <6>2, <6>3
        <5>2. peer[n] = "port" /\ Crossed(n) => Crossed(n)'
          BY <2>3, PassAligns
        <5> QED BY <2>1, <5>1, <5>2 DEF Interrupted, RetryWait
      <4>6. ASSUME peer[n] = "port" PROVE Companion(n, 1 - n)'
        <5> DEFINE m == 1 - n
        <5>1. m \in Ports /\ m \in Nat /\ peer[m] = "port"
          BY <4>6, Pair, TimeTypes DEF TimeInv, TimeTyped, Cabled
        <5>2. Companion(n, m)
          BY <3>2, <3>8, <4>6 DEF Reason
        <5> HIDE DEF m
        <5>3. CASE link[m].link_up
          <6>1. mac'[m].caught = mac[m].caught
            BY <5>1, PassSame
          <6>2. at > m
            BY <5>1, Consts DEF NextPass, Ports
          <6>3. mac[m].caught \/ waited[n] = 0
            BY <5>2, <5>3, <6>2 DEF Companion
          <6>4. ~(at' > m) /\ (waited[n] = 0 => waited'[n] <= MaxStep)
            BY <2>1, <3>3, <4>1, <5>1
          <6> QED BY <2>1, <5>3, <6>1, <6>3, <6>4 DEF Companion, m
        <5>4. CASE ~link[m].link_up
          <6>1. Age(m)' = Age(m) + d /\ Age(m) \in Nat
            BY <5>1, <5>4, PassOn, TimeTypes DEF TimeInv, TimeTyped
          <6>2. (Straight(m) => Straight(m)') /\ (Crossed(m) => Crossed(m)')
            BY <5>1, <5>4, PassAligns
          <6>3. waited[n] <= Age(m) + MaxStep => waited'[n] <= Age(m)' + MaxStep
            BY <2>1, <3>3, <4>1, <6>1
          <6> QED BY <2>1, <5>2, <5>4, <6>2, <6>3 DEF Companion, m
        <5> QED BY <5>3, <5>4
      <4> QED BY <2>1, <3>2, <3>8, <4>2, <4>3, <4>4, <4>5, <4>6 DEF Reason
    <3> QED BY <2>1, <3>4, <3>6, <3>7, <3>8 DEF Reason
  <2> QED BY <2>1, <2>2, <2>3 DEF OnTime
<1> QED BY <1>1, <1>2, <1>3 DEF TimeInv

LEMMA TimeStep == ASSUME TimeInv, TimersFit, [Next]_vars PROVE TimeInv'
<1>1. ASSUME NEW n \in Ports, LinkPoll(n) PROVE TimeInv'
  BY <1>1, TimeLinkPoll
<1>2. ASSUME NEW n \in Ports, Glitch(n) PROVE TimeInv'
  BY <1>2, TimeGlitch
<1>3. ASSUME NEW n \in Ports, NEW s \in Partners, Plug(n, s) PROVE TimeInv'
  BY <1>3, TimePlug
<1>4. ASSUME NEW d \in 1 .. MaxStep, NextPass(d) PROVE TimeInv'
  BY <1>4, TimeNextPass
<1>5. CASE UNCHANGED vars
  <2>1. IInv'
    BY <1>5, StepOK DEF TimeInv
  <2>2. /\ link' = link /\ fec_mode' = fec_mode /\ mac' = mac /\ peer' = peer /\ now' = now
        /\ at' = at /\ waited' = waited
    BY <1>5 DEF vars
  <2> QED BY <2>1, <2>2
          DEF TimeInv, Cabled, OnTime, Quiet, Polled, Recent, InTurn, Reason, Waits, Wrong,
              Aligning, Interrupted, Companion, Straight, Crossed, AlignedFor, Found,
              Alternates, Age, ModeAge, Since, Reachable, Matched, PeerFec, mac_link_up,
              RetryWait
<1> QED BY <1>1, <1>2, <1>3, <1>4, <1>5, TimeCycleFec DEF Next

\* No reason keeps a port without link for longer than its patience.
LEMMA ReasonsEnd == ASSUME TimeInv, TimersFit PROVE LinkInTime
<1> SUFFICES ASSUME NEW n \in Ports PROVE waited[n] <= Patience(n)
  BY DEF LinkInTime
<1>1. /\ waited[n] \in Nat /\ Age(n) \in Nat /\ ModeAge(n) \in Nat
      /\ mac[n].aligned \in Nat /\ mac[n].aligned \in 0 .. ALIGN
      /\ RetryWait \in Nat /\ ALIGN \in Nat /\ MaxStep \in Nat /\ FEC_FALLBACK \in Nat
      /\ 0 < ALIGN /\ 0 < MaxStep
  BY TimeTypes, Fits DEF TimeInv, TimeTyped
<1>2. /\ Patience(n) \in Nat
      /\ peer[n] = "port" => Patience(n) = RetryWait + ALIGN + 2 * MaxStep
      /\ peer[n] # "port" => Patience(n) = Found(n) + ALIGN + MaxStep
  BY <1>1 DEF Patience, Found
<1>3. RetryWait <= Found(n) /\ (peer[n] = "port" => Found(n) = RetryWait) /\ Found(n) \in Nat
  BY <1>1 DEF Found
<1>4. CASE waited[n] = 0
  BY <1>1, <1>2, <1>4
<1>5. CASE waited[n] # 0
  <2>1. ~link[n].link_up /\ Reachable(n)
    BY <1>5 DEF TimeInv, OnTime, Quiet
  <2>2. /\ Age(n) <= RetryWait /\ InTurn(n)
        /\ Waits(n) \/ Wrong(n) \/ Aligning(n) \/ Interrupted(n)
    BY <1>5, <2>1 DEF TimeInv, OnTime, Recent, Reason
  <2>3. CASE Waits(n)
    BY <1>1, <1>2, <1>3, <2>3 DEF Waits
  <2>4. CASE Wrong(n)
    <3>1. peer[n] # "port" /\ Alternates
      BY <2>1, <2>4, WrongMode DEF Wrong, TimeInv
    <3>2. waited[n] <= RetryWait + ModeAge(n) /\ ModeAge(n) < FEC_FALLBACK + Age(n)
      BY <2>2, <2>4, <3>1 DEF Wrong, InTurn
    <3>3. Found(n) = RetryWait + (FEC_FALLBACK + RetryWait)
      BY <3>1 DEF Found, Alternates
    <3> QED BY <1>1, <1>2, <2>2, <3>1, <3>2, <3>3
  <2>5. CASE Aligning(n)
    <3>1. waited[n] <= Found(n) + Age(n) /\ Age(n) < ALIGN + MaxStep
      BY <2>5 DEF Aligning, Straight
    <3> QED BY <1>1, <1>2, <1>3, <3>1
  <2>6. CASE Interrupted(n)
    <3>1. /\ peer[n] = "port"
          /\ waited[n] <= RetryWait + MaxStep
               + (IF mac[n].aligned = ALIGN THEN ALIGN + MaxStep - 1 ELSE mac[n].aligned)
      BY <2>6 DEF Interrupted
    <3> QED BY <1>1, <1>2, <3>1
  <2> QED BY <2>2, <2>3, <2>4, <2>5, <2>6
<1> QED BY <1>4, <1>5

\* A port has link in time once its partner can be reached: at a station in either
\* FEC mode or at the other port, for any timers that fit each other, any delay of the
\* polls, in every order of cables, keys, glitches and retries, and across the wrap.
THEOREM LinksInTime == TimersFit => (Spec => []LinkInTime)
<1> SUFFICES ASSUME TimersFit PROVE Spec => []LinkInTime
  OBVIOUS
<1>1. Init => TimeInv
  BY TimeInit
<1>2. TimeInv /\ [Next]_vars => TimeInv'
  BY TimeStep
<1>3. TimeInv => LinkInTime
  BY ReasonsEnd
<1> QED BY <1>1, <1>2, <1>3, PTL DEF Spec

-----------------------------------------------------------------------------
(* The loopback tests on these links: the theorems of PortProofs about the *)
(* ports in general hold of the ports of the board.                        *)

PP == INSTANCE PortProofs WITH CLOCK <- LB_CLOCK, MaxWatch <- 0, now <- pass

LEMMA BoardPorts ==
    PP!PortAssumption /\ PP!Several
<1>1. PP!PortAssumption
  BY FirmwareAssumption
     DEF Loop!PortAssumption, PP!PortAssumption, Loop!Modes, PP!Modes, Loop!Statics, PP!Statics,
         Loop!None, PP!None
<1>2. PP!LoopbackAssumption
  BY FirmwareAssumption
     DEF Loop!LoopbackAssumption, PP!LoopbackAssumption, Loop!Cardinality, PP!Cardinality,
         Loop!IsFiniteSet, PP!IsFiniteSet
<1>3. IsFiniteSet(Ports) /\ Ports # {}
  <2>1. NUM_PORTS \in Nat /\ NUM_PORTS > 0
    BY PortLinkAssumption
  <2>2. IsFiniteSet(0 .. NUM_PORTS - 1) /\ 0 \in 0 .. NUM_PORTS - 1
    BY <2>1, FS_Interval
  <2> QED BY <2>2 DEF Ports
<1> QED BY <1>1, <1>2, <1>3 DEF PP!Several, IsFiniteSet, PP!IsFiniteSet

\* The tests of Firmware (Loop) and those of the theorems (PP) are the same module.
LEMMA SameTests ==
    /\ Loop!LInit => PP!LInit
    /\ Loop!LNext => PP!LNext
    /\ PP!TestAddressed => Loop!TestAddressed
    /\ PP!CalmStart => Loop!CalmStart
<1>1. ASSUME Loop!LInit PROVE PP!LInit
  BY <1>1 DEF Loop!LInit, PP!LInit, Loop!Init, PP!Init, Loop!Booted, PP!Booted, Loop!None, PP!None
<1>2. ASSUME Loop!LNext PROVE PP!LNext
  BY <1>2 DEF Loop!LNext, PP!LNext, Loop!lvars, PP!lvars, Loop!vars, PP!vars,
        Loop!peer_of, PP!peer_of, Loop!involved, PP!involved, Loop!Refused, PP!Refused, Loop!Ensured, PP!Ensured, Loop!Gen,
        PP!Gen, Loop!Generators, PP!Generators, Loop!lb_start, PP!lb_start, Loop!Off,
        PP!Off, Loop!Ready, PP!Ready, Loop!AllUp, PP!AllUp, Loop!autostart_poll,
        PP!autostart_poll, Loop!tick, PP!tick, Loop!LbPoll, PP!LbPoll, Loop!toggle_test,
        PP!toggle_test, Loop!self_loop_cmd, PP!self_loop_cmd, Loop!lb_set_len,
        PP!lb_set_len, Loop!ip_mode_cmd, PP!ip_mode_cmd, Loop!Command, PP!Command,
        Loop!LNextPass, PP!LNextPass, Loop!Tests, PP!Tests, Loop!Modes, PP!Modes,
        Loop!None, PP!None, Loop!Statics, PP!Statics, Loop!Addresses, PP!Addresses,
        Loop!Since, PP!Since, Loop!dhcp_start, PP!dhcp_start,
        Loop!dhcp_supplied_address, PP!dhcp_supplied_address,
        Loop!dhcp_release_and_stop, PP!dhcp_release_and_stop,
        Loop!dhcp_network_changed_link_up, PP!dhcp_network_changed_link_up,
        Loop!sync_zircon_ip, PP!sync_zircon_ip, Loop!set_static_address,
        PP!set_static_address, Loop!stop_dhcp, PP!stop_dhcp, Loop!start_dhcp,
        PP!start_dhcp, Loop!port_set_ip_mode, PP!port_set_ip_mode, Loop!Addressable,
        PP!Addressable, Loop!port_ensure_address, PP!port_ensure_address, Loop!StartDue,
        PP!StartDue, Loop!port_addr_poll, PP!port_addr_poll, Loop!port_link_poll,
        PP!port_link_poll, Loop!Bare, PP!Bare, Loop!Watch, PP!Watch, Loop!DhcpEvent,
        PP!DhcpEvent, Loop!NetDone, PP!NetDone, Loop!Flap, PP!Flap, Loop!LinkPoll,
        PP!LinkPoll, Loop!AddrPoll, PP!AddrPoll, Loop!Older, PP!Older, Loop!NextPass,
        PP!NextPass, Loop!Cardinality, PP!Cardinality
<1>3. ASSUME PP!TestAddressed PROVE Loop!TestAddressed
  BY <1>3 DEF Loop!TestAddressed, PP!TestAddressed, Loop!None, PP!None
<1>4. ASSUME PP!CalmStart PROVE Loop!CalmStart
  BY <1>4 DEF Loop!CalmStart, PP!CalmStart, Loop!Ready, PP!Ready
<1> QED BY <1>1, <1>2, <1>3, <1>4

LEMMA TestsInvariant == FSpec => []PP!LoopInv /\ [][PP!CalmStart]_loopVars
<1>1. FInit => PP!LInit
  BY SameTests DEF FInit
<1>2. [FNext]_fvars => [PP!LNext]_(PP!lvars)
  <2>1. UNCHANGED loopVars => UNCHANGED PP!lvars
    BY DEF loopVars, PP!lvars
  <2> QED BY <2>1, SameTests DEF FNext, LinkStep, LoopStep, fvars
<1>3. PP!LSpec => []PP!LoopInv /\ [][PP!CalmStart]_(PP!lvars)
  BY BoardPorts, PP!LoopInvariant
<1>4. [PP!CalmStart]_(PP!lvars) => [PP!CalmStart]_loopVars
  BY DEF loopVars, PP!lvars
<1> QED BY <1>1, <1>2, <1>3, <1>4, PTL DEF FSpec, PP!LSpec

\* A running test's generators send to addresses that their targets answer for, in
\* every order of commands, mode changes, leases, fallbacks and automatic starts: no
\* change of mode leaves a test behind on an address that is gone.
THEOREM TestsAddressed == FSpec => []TestAddressed
<1>1. PP!LoopInv => TestAddressed
  BY BoardPorts, PP!InvariantAddresses, SameTests DEF TestAddressed
<1> QED BY <1>1, TestsInvariant, PTL

\* An automatic test starts only after link on every port, and none in mode dhcp, for
\* the whole of its wait, in true time: whatever the wrap of the clock makes of the
\* difference of two readings, it is never more than the time that passed.
THEOREM AutomaticStartIsCalm == FSpec => StartsWhenCalm
<1>1. PP!CalmStart => Loop!CalmStart
  BY SameTests
<1> QED BY <1>1, TestsInvariant, PTL DEF StartsWhenCalm
=============================================================================
