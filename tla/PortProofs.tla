----------------------------- MODULE PortProofs -----------------------------
(***************************************************************************)
(* Theorems about Port and the loopback tests on top of it, for all sets   *)
(* of ports and leases, all timeouts and widths of the clock. The argument *)
(* is one invariant of a single port_t, PortOK: what each of the four      *)
(* address states says of the mode, the client, the address and the        *)
(* register. Every function of port.c keeps it. Waits adds the ages of a   *)
(* wait for an address, LoopInv what a running test relies on.             *)
(***************************************************************************)
EXTENDS Loopback, FiniteSetTheorems, TLAPS

Record ==
    [n : Ports, mode : Modes, link_up : BOOLEAN, changed : BOOLEAN,
     state : {"NONE", "DHCP_WAIT", "DHCP", "STATIC"},
     addr : Addresses, programmed : Addresses,
     dhcp : {"off", "asking", "bound"}, failed : BOOLEAN,
     start : 0 .. CLOCK - 1, ever_leased : BOOLEAN]

\* What an address state says.
StateOK(p) ==
    /\ p.state = "NONE" => /\ p.mode # "static" /\ p.dhcp = "off"
                           /\ p.addr = None /\ p.programmed = None
    /\ p.state = "DHCP_WAIT" => /\ p.mode # "static" /\ p.dhcp # "off"
                                /\ p.addr \notin Statics /\ p.programmed = None
                                /\ p.dhcp = "asking" => p.addr = None
    /\ p.state = "DHCP" => /\ p.mode # "static" /\ p.dhcp # "off"
                           /\ p.addr \notin Statics /\ p.programmed \notin Statics
    /\ p.state = "STATIC" => /\ p.mode # "dhcp" /\ p.dhcp = "off"
                             /\ p.addr = static_address[p.n] /\ p.programmed = p.addr

PortOK(p) == p \in Record /\ StateOK(p)

ClockOK ==
    /\ now \in 0 .. CLOCK - 1 /\ t_link \in 0 .. CLOCK - 1 /\ t_addr \in 0 .. CLOCK - 1
    /\ stage \in Stages /\ phy \in [Ports -> BOOLEAN]

BoundOK ==
    /\ budget \in [commands : 0 .. MaxCommands, flaps : 0 .. MaxFlaps, losses : 0 .. MaxLosses]
    /\ bare \in [Ports -> 0 .. MaxWatch] /\ asking \in [Ports -> 0 .. MaxWatch]

PortsOK ==
    /\ port \in [Ports -> Record]
    /\ \A n \in Ports : StateOK(port[n]) /\ port[n].n = n

IInv == ClockOK /\ BoundOK /\ PortsOK

-----------------------------------------------------------------------------
LEMMA Consts ==
    /\ CLOCK \in Nat /\ CLOCK > 0 /\ None \notin Statics /\ None \in Addresses
    /\ \A n \in Ports : static_address[n] \in Statics /\ static_address[n] \in Addresses
    /\ \A l \in Leases : l \in Addresses /\ l \notin Statics
  BY PortAssumption DEF Statics, Addresses

\* When the clock advances by one, no difference of two readings grows by more.
LEMMA NeverFaster ==
    ASSUME NEW C \in Nat \ {0}, NEW x \in 0 .. C - 1, NEW t \in 0 .. C - 1, NEW d \in {0, 1}
    PROVE  (((x + d) % C) - t) % C <= ((x - t) % C) + d
<1> DEFINE r == (x + d) % C
<1>1. r \in 0 .. C - 1 /\ r \in {x + d, x + d - C}
  OBVIOUS
<1> HIDE DEF r
<1>2. ASSUME NEW y \in (0 - C) .. C - 1 PROVE y % C = IF y >= 0 THEN y ELSE y + C
  OBVIOUS
<1>3. r - t \in (0 - C) .. C - 1 /\ x - t \in (0 - C) .. C - 1
  BY <1>1
<1>4. /\ (r - t) % C = IF r - t >= 0 THEN r - t ELSE r - t + C
      /\ (x - t) % C = IF x - t >= 0 THEN x - t ELSE x - t + C
  BY <1>2, <1>3
<1>5. (r - t) % C <= ((x - t) % C) + d
  BY <1>1, <1>4
<1> QED BY <1>5 DEF r

LEMMA SyncOK ==
    ASSUME NEW p \in Record
    PROVE  sync_zircon_ip(p) \in Record
  BY DEF sync_zircon_ip, Record

LEMMA StaticOK ==
    ASSUME NEW p \in Record, p.mode # "dhcp", p.dhcp = "off"
    PROVE  PortOK(set_static_address(p)) /\ set_static_address(p).n = p.n
  BY Consts DEF set_static_address, sync_zircon_ip, PortOK, StateOK, Record

LEMMA ReleaseOK ==
    ASSUME NEW p \in Record
    PROVE  /\ dhcp_release_and_stop(p) \in Record
           /\ dhcp_release_and_stop(p) = [p EXCEPT !.dhcp = "off", !.addr = dhcp_release_and_stop(p).addr]
           /\ dhcp_release_and_stop(p).dhcp = "off"
           /\ dhcp_release_and_stop(p).mode = p.mode /\ dhcp_release_and_stop(p).n = p.n
  BY Consts DEF dhcp_release_and_stop, Record

LEMMA StopOK ==
    ASSUME NEW p, PortOK(p)
    PROVE  /\ stop_dhcp(p) \in Record /\ stop_dhcp(p).dhcp = "off"
           /\ stop_dhcp(p).mode = p.mode /\ stop_dhcp(p).n = p.n
  BY ReleaseOK DEF stop_dhcp, PortOK, StateOK, Record

LEMMA StartOK ==
    ASSUME NEW p, PortOK(p), p.state = "NONE", NEW ok \in BOOLEAN, now \in 0 .. CLOCK - 1
    PROVE  /\ PortOK(start_dhcp(p, ok)) /\ start_dhcp(p, ok).n = p.n
           /\ start_dhcp(p, ok).programmed = start_dhcp(p, ok).addr
<1> DEFINE q == [dhcp_start(p, ok) EXCEPT !.start = now]
<1>1. q \in Record /\ q.n = p.n /\ q.mode = p.mode /\ q.addr = None /\ q.programmed = None
      /\ q.state = "NONE" /\ q.mode # "static" /\ q.dhcp = IF ok THEN "asking" ELSE "off"
  BY Consts DEF dhcp_start, PortOK, StateOK, Record
<1>2. start_dhcp(p, ok) = IF ok THEN [q EXCEPT !.state = "DHCP_WAIT", !.failed = FALSE]
        ELSE IF p.mode = "dhcp" THEN [q EXCEPT !.state = "NONE", !.failed = TRUE]
        ELSE set_static_address(q)
  BY DEF start_dhcp
<1> HIDE DEF q
<1>3. CASE ok
  BY <1>1, <1>2, <1>3, Consts DEF PortOK, StateOK, Record
<1>4. CASE ~ok /\ p.mode = "dhcp"
  BY <1>1, <1>2, <1>4, Consts DEF PortOK, StateOK, Record
<1>5. CASE ~ok /\ p.mode # "dhcp"
  <2>1. start_dhcp(p, ok) = set_static_address(q)
    BY <1>2, <1>5
  <2>2. PortOK(set_static_address(q)) /\ set_static_address(q).n = q.n
    BY <1>1, <1>5, StaticOK
  <2>3. set_static_address(q).programmed = set_static_address(q).addr
    BY <1>1 DEF set_static_address, sync_zircon_ip, Record
  <2> QED BY <1>1, <2>1, <2>2, <2>3
<1> QED BY <1>3, <1>4, <1>5

LEMMA SetModeOK ==
    ASSUME NEW p, PortOK(p), NEW mode \in Modes, NEW ok \in BOOLEAN, now \in 0 .. CLOCK - 1
    PROVE  /\ PortOK(port_set_ip_mode(p, mode, ok)) /\ port_set_ip_mode(p, mode, ok).n = p.n
<1> DEFINE q == [stop_dhcp(p) EXCEPT !.mode = mode, !.failed = FALSE]
           r == sync_zircon_ip([q EXCEPT !.addr = None, !.state = "NONE"])
<1>1. q \in Record /\ q.dhcp = "off" /\ q.mode = mode /\ q.n = p.n
  BY StopOK DEF Record
<1>2. r \in Record /\ r.dhcp = "off" /\ r.mode = mode /\ r.n = p.n
      /\ r.addr = None /\ r.programmed = None /\ r.state = "NONE"
  <2> HIDE DEF q
  <2> QED BY <1>1, Consts DEF sync_zircon_ip, Record
<1>3. port_set_ip_mode(p, mode, ok) =
        IF mode = "static" THEN set_static_address(q)
        ELSE IF r.link_up THEN start_dhcp(r, ok) ELSE r
  BY DEF port_set_ip_mode
<1> HIDE DEF q, r
<1>4. CASE mode = "static"
  <2>1. PortOK(set_static_address(q)) /\ set_static_address(q).n = q.n
    BY <1>1, <1>4, StaticOK
  <2> QED BY <2>1, <1>1, <1>3, <1>4
<1>5. CASE mode # "static"
  <2>1. PortOK(r)
    BY <1>2, <1>5 DEF PortOK, StateOK
  <2>2. PortOK(start_dhcp(r, ok)) /\ start_dhcp(r, ok).n = r.n
    BY <2>1, <1>2, StartOK
  <2> QED BY <2>1, <2>2, <1>2, <1>3, <1>5
<1> QED BY <1>4, <1>5

LEMMA EnsureOK ==
    ASSUME NEW p, PortOK(p)
    PROVE  PortOK(port_ensure_address(p)) /\ port_ensure_address(p).n = p.n
<1>1. CASE p.addr # None \/ p.mode = "dhcp"
  BY <1>1 DEF port_ensure_address
<1>2. CASE ~(p.addr # None \/ p.mode = "dhcp")
  <2>1. PortOK(set_static_address(stop_dhcp(p)))
        /\ set_static_address(stop_dhcp(p)).n = stop_dhcp(p).n
    BY <1>2, StopOK, StaticOK
  <2> QED BY <1>2, <2>1, StopOK DEF port_ensure_address
<1> QED BY <1>1, <1>2

LEMMA LinkOK ==
    ASSUME NEW p, PortOK(p), NEW up \in BOOLEAN
    PROVE  PortOK(port_link_poll(p, up)) /\ port_link_poll(p, up).n = p.n
  BY DEF port_link_poll, PortOK, StateOK, Record

\* The address poll also brings the register in step.
LEMMA PollOK ==
    ASSUME NEW o, PortOK(o), NEW ok \in BOOLEAN, now \in 0 .. CLOCK - 1
    PROVE  /\ PortOK(port_addr_poll(o, ok)) /\ port_addr_poll(o, ok).n = o.n
           /\ port_addr_poll(o, ok).programmed = port_addr_poll(o, ok).addr
<1> DEFINE p == [o EXCEPT !.changed = FALSE]
           again == IF o.changed /\ o.link_up THEN dhcp_network_changed_link_up(p) ELSE p
<1>1. PortOK(p) /\ p.n = o.n
  BY DEF PortOK, StateOK, Record
<1>2. port_addr_poll(o, ok) =
        CASE p.state = "NONE" -> IF StartDue(p) THEN start_dhcp(p, ok) ELSE p
          [] p.state = "DHCP_WAIT" ->
                IF dhcp_supplied_address(p)
                THEN sync_zircon_ip([p EXCEPT !.state = "DHCP", !.ever_leased = TRUE])
                ELSE IF p.mode # "dhcp" /\ Since(p.start) >= DHCP_TIMEOUT
                THEN set_static_address(dhcp_release_and_stop(p))
                ELSE again
          [] p.state = "DHCP" -> sync_zircon_ip(again)
          [] p.state = "STATIC" -> p
  BY DEF port_addr_poll
<1>3. /\ again \in Record /\ again.n = p.n /\ again.state = p.state /\ again.mode = p.mode
      /\ again.addr = p.addr /\ again.programmed = p.programmed
      /\ again.dhcp = p.dhcp \/ (p.dhcp = "bound" /\ again.dhcp = "asking")
  <2> HIDE DEF p
  <2> QED BY <1>1 DEF dhcp_network_changed_link_up, PortOK, Record
<1> HIDE DEF p, again
<1>4. CASE p.state = "NONE"
  <2>1. port_addr_poll(o, ok) = IF StartDue(p) THEN start_dhcp(p, ok) ELSE p
    BY <1>2, <1>4
  <2>2. p.programmed = p.addr
    BY <1>1, <1>4 DEF PortOK, StateOK
  <2> QED BY <1>1, <1>4, <2>1, <2>2, StartOK
<1>5. CASE p.state = "DHCP_WAIT"
  <2>1. port_addr_poll(o, ok) =
                IF dhcp_supplied_address(p)
                THEN sync_zircon_ip([p EXCEPT !.state = "DHCP", !.ever_leased = TRUE])
                ELSE IF p.mode # "dhcp" /\ Since(p.start) >= DHCP_TIMEOUT
                THEN set_static_address(dhcp_release_and_stop(p))
                ELSE again
    BY <1>2, <1>5
  <2>2. CASE dhcp_supplied_address(p)
    <3> DEFINE q == [p EXCEPT !.state = "DHCP", !.ever_leased = TRUE]
               r == sync_zircon_ip(q)
    <3>1. port_addr_poll(o, ok) = r
      BY <2>1, <2>2
    <3>2. p \in Record
      BY <1>1 DEF PortOK
    <3>3. /\ q \in Record /\ q.state = "DHCP" /\ q.n = p.n /\ q.mode = p.mode
          /\ q.addr = p.addr /\ q.dhcp = p.dhcp
      BY <3>2 DEF Record
    <3> HIDE DEF q
    <3>4. /\ r \in Record /\ r.programmed = r.addr /\ r.state = q.state /\ r.n = q.n
          /\ r.mode = q.mode /\ r.addr = q.addr /\ r.dhcp = q.dhcp
      BY <3>3 DEF sync_zircon_ip, Record
    <3> HIDE DEF r
    <3>5. p.mode # "static" /\ p.dhcp # "off" /\ p.addr \notin Statics
      BY <1>1, <1>5 DEF PortOK, StateOK
    <3>6. StateOK(r)
      BY <3>3, <3>4, <3>5 DEF StateOK
    <3> QED BY <1>1, <3>1, <3>3, <3>4, <3>6 DEF PortOK
  <2>3. CASE ~dhcp_supplied_address(p) /\ p.mode # "dhcp" /\ Since(p.start) >= DHCP_TIMEOUT
    <3> DEFINE s == dhcp_release_and_stop(p)
    <3>1. s \in Record /\ s.dhcp = "off" /\ s.mode = p.mode /\ s.n = p.n
      BY <1>1, ReleaseOK DEF PortOK
    <3>2. port_addr_poll(o, ok) = set_static_address(s)
      BY <2>1, <2>3
    <3> HIDE DEF s
    <3>3. PortOK(set_static_address(s)) /\ set_static_address(s).n = s.n
      BY <3>1, <2>3, StaticOK
    <3>4. set_static_address(s).programmed = set_static_address(s).addr
      BY <3>1 DEF set_static_address, sync_zircon_ip, Record
    <3> QED BY <1>1, <3>1, <3>2, <3>3, <3>4
  <2>4. CASE ~dhcp_supplied_address(p) /\ ~(p.mode # "dhcp" /\ Since(p.start) >= DHCP_TIMEOUT)
    <3>1. port_addr_poll(o, ok) = again
      BY <2>1, <2>4
    <3>2. p.dhcp = "asking"
      BY <1>1, <1>5, <2>4 DEF dhcp_supplied_address, PortOK, StateOK, Record
    <3>3. PortOK(again) /\ again.programmed = again.addr
      BY <1>1, <1>3, <1>5, <3>2 DEF PortOK, StateOK
    <3> QED BY <1>1, <1>3, <3>1, <3>3
  <2> QED BY <2>2, <2>3, <2>4
<1>6. CASE p.state = "DHCP"
  <2>1. port_addr_poll(o, ok) = sync_zircon_ip(again)
    BY <1>2, <1>6
  <2> DEFINE r == sync_zircon_ip(again)
  <2>2. /\ r \in Record /\ r.programmed = r.addr /\ r.state = "DHCP" /\ r.n = p.n
        /\ r.mode = p.mode /\ r.addr = p.addr
        /\ r.dhcp = p.dhcp \/ (p.dhcp = "bound" /\ r.dhcp = "asking")
    BY <1>3, <1>6 DEF sync_zircon_ip, Record
  <2> HIDE DEF r
  <2>3. StateOK(r)
    BY <1>1, <1>6, <2>2 DEF PortOK, StateOK
  <2> QED BY <1>1, <2>1, <2>2, <2>3 DEF PortOK, r
<1>7. CASE p.state = "STATIC"
  <2>1. port_addr_poll(o, ok) = p
    BY <1>2, <1>7
  <2> QED BY <1>1, <1>7, <2>1 DEF PortOK, StateOK
<1> QED BY <1>1, <1>4, <1>5, <1>6, <1>7 DEF PortOK, Record

-----------------------------------------------------------------------------
(* The invariant.                                                          *)

LEMMA InitOK == Init => IInv
<1> SUFFICES ASSUME Init PROVE IInv
  OBVIOUS
<1>1. ClockOK
  BY Consts, PortAssumption DEF Init, ClockOK, Stages
<1>2. BoundOK
  BY PortAssumption DEF Init, BoundOK
<1>3. PortsOK
  <2>1. ASSUME NEW n \in Ports
        PROVE  Booted(n) \in Record /\ StateOK(Booted(n)) /\ Booted(n).n = n
    BY Consts, PortAssumption DEF Booted, Record, StateOK, Modes
  <2> QED BY <2>1 DEF Init, PortsOK
<1> QED BY <1>1, <1>2, <1>3 DEF IInv

\* Each port changes to a good one of its own.
LEMMA PortsStep ==
    ASSUME NEW Q, Q \in [Ports -> Record],
           \A n \in Ports : StateOK(Q[n]) /\ Q[n].n = n, port' = Q
    PROVE  PortsOK'
  BY DEF PortsOK, StateOK

LEMMA WatchOK ==
    ASSUME BoundOK, NEW q, NEW tried, Watch(q, tried)
    PROVE  bare' \in [Ports -> 0 .. MaxWatch] /\ asking' \in [Ports -> 0 .. MaxWatch]
  BY PortAssumption DEF BoundOK, Watch

LEMMA DhcpEventOK == ASSUME IInv, NEW n \in Ports, DhcpEvent(n) PROVE IInv'
<1>1. ClockOK'
  BY DEF IInv, ClockOK, DhcpEvent
<1>2. BoundOK'
  <2>1. budget' \in [commands : 0 .. MaxCommands, flaps : 0 .. MaxFlaps, losses : 0 .. MaxLosses]
    BY PortAssumption DEF IInv, BoundOK, DhcpEvent
  <2>2. Watch(port', {}) /\ BoundOK
    BY DEF DhcpEvent, IInv
  <2> QED BY <2>1, <2>2, WatchOK DEF BoundOK
<1>3. PortsOK'
  <2>1. PortOK(port[n]) /\ port[n].dhcp # "off" /\ port \in [Ports -> Record]
    BY DEF IInv, PortsOK, PortOK, DhcpEvent
  <2>2. CASE \E l \in Leases : port' = [port EXCEPT ![n].dhcp = "bound", ![n].addr = l]
    <3>1. PICK l \in Leases : port' = [port EXCEPT ![n].dhcp = "bound", ![n].addr = l]
      BY <2>2
    <3> DEFINE q == [port[n] EXCEPT !.dhcp = "bound", !.addr = l]
    <3>2. q \in Record /\ StateOK(q) /\ q.n = port[n].n
      BY <2>1, Consts DEF PortOK, StateOK, Record
    <3>3. port' = [port EXCEPT ![n] = q]
      BY <3>1, <2>1
    <3> HIDE DEF q
    <3> QED BY <2>1, <3>2, <3>3, PortsStep DEF IInv, PortsOK
  <2>3. CASE port' = [port EXCEPT ![n].dhcp = "asking", ![n].addr = None]
    <3> DEFINE q == [port[n] EXCEPT !.dhcp = "asking", !.addr = None]
    <3>2. q \in Record /\ StateOK(q) /\ q.n = port[n].n
      BY <2>1, Consts DEF PortOK, StateOK, Record
    <3>3. port' = [port EXCEPT ![n] = q]
      BY <2>3, <2>1
    <3> HIDE DEF q
    <3> QED BY <2>1, <3>2, <3>3, PortsStep DEF IInv, PortsOK
  <2> QED BY <2>2, <2>3 DEF DhcpEvent
<1> QED BY <1>1, <1>2, <1>3 DEF IInv

LEMMA NetDoneOK == ASSUME IInv, NetDone PROVE IInv'
  BY DEF IInv, ClockOK, BoundOK, PortsOK, StateOK, NetDone, Stages

LEMMA LbDoneOK == ASSUME IInv, LbDone PROVE IInv'
  BY DEF IInv, ClockOK, BoundOK, PortsOK, StateOK, LbDone, Stages

LEMMA FlapOK == ASSUME IInv, NEW n \in Ports, Flap(n) PROVE IInv'
<1>1. ClockOK'
  <2>1. phy' \in [Ports -> BOOLEAN]
    BY DEF IInv, ClockOK, Flap
  <2> QED BY <2>1 DEF IInv, ClockOK, Flap
<1>2. BoundOK'
  BY PortAssumption DEF IInv, BoundOK, Flap
<1>3. PortsOK'
  BY DEF IInv, PortsOK, StateOK, Flap
<1> QED BY <1>1, <1>2, <1>3 DEF IInv

LEMMA LinkPollOK == ASSUME IInv, LinkPoll PROVE IInv'
<1>1. ClockOK'
  BY DEF IInv, ClockOK, LinkPoll, Stages
<1>2. BoundOK'
  BY WatchOK DEF IInv, BoundOK, LinkPoll
<1>3. PortsOK'
  <2>1. CASE Since(t_link) >= 1
    <3> DEFINE Q == [n \in Ports |-> port_link_poll(port[n], phy[n])]
    <3>1. ASSUME NEW n \in Ports
          PROVE  Q[n] \in Record /\ StateOK(Q[n]) /\ Q[n].n = n
      <4>1. PortOK(port[n]) /\ port[n].n = n
        BY DEF IInv, PortsOK, PortOK
      <4>2. phy[n] \in BOOLEAN
        BY DEF IInv, ClockOK
      <4>3. PortOK(port_link_poll(port[n], phy[n])) /\ port_link_poll(port[n], phy[n]).n = n
        BY <4>1, <4>2, LinkOK
      <4> QED BY <4>3 DEF PortOK
    <3>2. port' = Q
      BY <2>1 DEF LinkPoll
    <3>3. Q \in [Ports -> Record]
      BY <3>1
    <3> HIDE DEF Q
    <3> QED BY <3>1, <3>2, <3>3, PortsStep
  <2>2. CASE ~(Since(t_link) >= 1)
    BY <2>2 DEF IInv, PortsOK, StateOK, LinkPoll
  <2> QED BY <2>1, <2>2
<1> QED BY <1>1, <1>2, <1>3 DEF IInv

LEMMA AddrPollOK == ASSUME IInv, AddrPoll PROVE IInv'
<1>1. ClockOK'
  BY DEF IInv, ClockOK, AddrPoll, Stages
<1>2. BoundOK'
  BY WatchOK DEF IInv, BoundOK, AddrPoll
<1>3. PortsOK'
  <2>1. CASE Since(t_addr) >= ADDR_POLL
    <3>1. PICK ok \in [Ports -> BOOLEAN] :
             port' = [n \in Ports |-> port_addr_poll(port[n], ok[n])]
      BY <2>1 DEF AddrPoll
    <3> DEFINE Q == [n \in Ports |-> port_addr_poll(port[n], ok[n])]
    <3>2. ASSUME NEW n \in Ports
          PROVE  Q[n] \in Record /\ StateOK(Q[n]) /\ Q[n].n = n
      <4>1. PortOK(port[n]) /\ port[n].n = n
        BY DEF IInv, PortsOK, PortOK
      <4>2. ok[n] \in BOOLEAN /\ now \in 0 .. CLOCK - 1
        BY DEF IInv, ClockOK
      <4>3. PortOK(port_addr_poll(port[n], ok[n])) /\ port_addr_poll(port[n], ok[n]).n = n
        BY <4>1, <4>2, PollOK
      <4> QED BY <4>3 DEF PortOK
    <3>3. Q \in [Ports -> Record]
      BY <3>2
    <3>4. port' = Q
      BY <3>1
    <3> HIDE DEF Q
    <3> QED BY <3>2, <3>3, <3>4, PortsStep
  <2>2. CASE ~(Since(t_addr) >= ADDR_POLL)
    BY <2>2 DEF IInv, PortsOK, StateOK, AddrPoll
  <2> QED BY <2>1, <2>2
<1> QED BY <1>1, <1>2, <1>3 DEF IInv

LEMMA SetModeStepOK == ASSUME IInv, NEW n \in Ports, NEW mode \in Modes, SetMode(n, mode) PROVE IInv'
<1>1. ClockOK'
  BY DEF IInv, ClockOK, SetMode
<1>2. BoundOK'
  BY PortAssumption DEF IInv, BoundOK, SetMode
<1>3. PortsOK'
  <2>1. PICK ok \in BOOLEAN :
           port' = [port EXCEPT ![n] = port_set_ip_mode(port[n], mode, ok)]
    BY DEF SetMode
  <2> DEFINE q == port_set_ip_mode(port[n], mode, ok)
  <2>2. q \in Record /\ StateOK(q) /\ q.n = n
    BY SetModeOK DEF IInv, ClockOK, PortsOK, PortOK
  <2>3. port' = [port EXCEPT ![n] = q]
    BY <2>1
  <2> HIDE DEF q
  <2> QED BY <2>2, <2>3, PortsStep DEF IInv, PortsOK
<1> QED BY <1>1, <1>2, <1>3 DEF IInv

LEMMA EnsureStepOK == ASSUME IInv, EnsureAddresses PROVE IInv'
<1>1. ClockOK'
  BY DEF IInv, ClockOK, EnsureAddresses
<1>2. BoundOK'
  <2>1. budget' \in [commands : 0 .. MaxCommands, flaps : 0 .. MaxFlaps, losses : 0 .. MaxLosses]
    BY PortAssumption DEF IInv, BoundOK, EnsureAddresses
  <2>2. Watch(port', {}) /\ BoundOK
    BY DEF EnsureAddresses, IInv
  <2> QED BY <2>1, <2>2, WatchOK DEF BoundOK
<1>3. PortsOK'
  <2>1. PICK some \in SUBSET Ports :
           port' = [n \in Ports |->
                      IF n \in some THEN port_ensure_address(port[n]) ELSE port[n]]
    BY DEF EnsureAddresses
  <2> DEFINE Q == [n \in Ports |->
                     IF n \in some THEN port_ensure_address(port[n]) ELSE port[n]]
  <2>2. ASSUME NEW n \in Ports
        PROVE  Q[n] \in Record /\ StateOK(Q[n]) /\ Q[n].n = n
    BY EnsureOK DEF IInv, PortsOK, PortOK
  <2>3. Q \in [Ports -> Record]
    BY <2>2
  <2>4. port' = Q
    BY <2>1
  <2> HIDE DEF Q
  <2> QED BY <2>2, <2>3, <2>4, PortsStep
<1> QED BY <1>1, <1>2, <1>3 DEF IInv

LEMMA NextPassOK == ASSUME IInv, NEW d \in {0, 1}, NextPass(d) PROVE IInv'
<1>1. ClockOK'
  BY Consts DEF IInv, ClockOK, NextPass, Stages
<1>2. BoundOK'
  <2>1. ASSUME NEW t \in 0 .. MaxWatch PROVE Older(t) \in 0 .. MaxWatch
    BY PortAssumption DEF Older
  <2>2. bare' \in [Ports -> 0 .. MaxWatch]
    BY <2>1 DEF IInv, BoundOK, NextPass
  <2>3. asking' \in [Ports -> 0 .. MaxWatch]
    BY <2>1 DEF IInv, BoundOK, NextPass
  <2> QED BY <2>2, <2>3 DEF IInv, BoundOK, NextPass
<1>3. PortsOK'
  BY DEF IInv, PortsOK, StateOK, NextPass
<1> QED BY <1>1, <1>2, <1>3 DEF IInv

\* Every step of every pass keeps the invariant.
LEMMA StepOK == IInv /\ [Next]_vars => IInv'
<1> SUFFICES ASSUME IInv, [Next]_vars PROVE IInv'
  OBVIOUS
<1>1. ASSUME NEW n \in Ports, DhcpEvent(n) PROVE IInv'
  BY <1>1, DhcpEventOK
<1>2. ASSUME NEW n \in Ports, Flap(n) PROVE IInv'
  BY <1>2, FlapOK
<1>3. CASE NetDone
  BY <1>3, NetDoneOK
<1>4. CASE LinkPoll
  BY <1>4, LinkPollOK
<1>5. CASE AddrPoll
  BY <1>5, AddrPollOK
<1>6. CASE EnsureAddresses
  BY <1>6, EnsureStepOK
<1>7. CASE LbDone
  BY <1>7, LbDoneOK
<1>8. ASSUME NEW n \in Ports, NEW mode \in Modes, SetMode(n, mode) PROVE IInv'
  BY <1>8, SetModeStepOK
<1>9. ASSUME NEW d \in {0, 1}, NextPass(d) PROVE IInv'
  BY <1>9, NextPassOK
<1>10. CASE UNCHANGED vars
  BY <1>10 DEF IInv, ClockOK, BoundOK, PortsOK, StateOK, vars
<1> QED BY <1>1, <1>2, <1>3, <1>4, <1>5, <1>6, <1>7, <1>8, <1>9, <1>10 DEF Next

LEMMA Invariant == Spec => []IInv
  BY InitOK, StepOK, PTL DEF Spec

-----------------------------------------------------------------------------
(* Theorems.                                                               *)

\* Every field of every port_t stays in its range, in all the orders in which
\* the main loop, the console and the DHCP client can change it.
THEOREM TypeCorrect == Spec => []TypeOK
<1>1. IInv => TypeOK
  BY DEF IInv, ClockOK, BoundOK, PortsOK, Record, TypeOK
<1> QED BY <1>1, Invariant, PTL

\* Each address mode means what the documentation says, whatever the order of
\* commands, leases, failures and tests.
THEOREM ModesMeanWhatTheySay == Spec => []ModeKept
<1>1. IInv => ModeKept
  <2> SUFFICES ASSUME IInv, NEW n \in Ports
               PROVE  /\ port[n].mode = "static" => port[n].state = "STATIC"
                      /\ port[n].state = "STATIC" =>
                            port[n].addr = static_address[n] /\ port[n].dhcp = "off"
                      /\ port[n].mode = "dhcp" => port[n].addr \notin Statics
                      /\ port[n].addr \in Statics => port[n].state = "STATIC"
    BY DEF ModeKept
  <2>1. port[n] \in Record /\ StateOK(port[n]) /\ port[n].n = n
    BY DEF IInv, PortsOK
  <2> QED BY <2>1, Consts DEF StateOK, Record
<1> QED BY <1>1, Invariant, PTL

\* The register follows: only an event of a DHCP client that runs can part the
\* IPV4 register from the address.
THEOREM RegisterInStep == Spec => []InStep
<1>1. IInv => InStep
  <2> SUFFICES ASSUME IInv, NEW n \in Ports, port[n].programmed # port[n].addr
               PROVE  port[n].dhcp # "off"
    BY DEF InStep
  <2>1. port[n] \in Record /\ StateOK(port[n]) /\ port[n].n = n
    BY DEF IInv, PortsOK
  <2> QED BY <2>1 DEF StateOK, Record
<1> QED BY <1>1, Invariant, PTL

\* And every address poll brings the two together again, on every port.
THEOREM EveryPollSyncs == Spec => PollSyncs
<1>1. ASSUME IInv, [Next]_vars,
             stage = "addr", t_addr' = now, Since(t_addr) >= ADDR_POLL
      PROVE  \A n \in Ports : port'[n].programmed = port'[n].addr
  <2>1. CASE AddrPoll
    <3>1. PICK ok \in [Ports -> BOOLEAN] :
             port' = [n \in Ports |-> port_addr_poll(port[n], ok[n])]
      BY <1>1, <2>1 DEF AddrPoll
    <3> QED BY <1>1, <3>1, PollOK DEF IInv, ClockOK, PortsOK, PortOK
  <2>2. CASE ~AddrPoll
    \* Nothing else changes t_addr, and the poll was due.
    <3>1. t_addr' = t_addr
      BY <1>1, <2>2 DEF Next, DhcpEvent, Flap, NetDone, LinkPoll, EnsureAddresses,
                        LbDone, SetMode, NextPass, vars
    <3>2. Since(t_addr) = 0
      BY <1>1, <3>1, Consts DEF Since, IInv, ClockOK
    <3> QED BY <1>1, <3>2, PortAssumption
  <2> QED BY <2>1, <2>2
<1>2. IInv /\ [Next]_vars =>
        [stage = "addr" /\ t_addr' = now /\ Since(t_addr) >= ADDR_POLL
           => \A n \in Ports : port'[n].programmed = port'[n].addr]_vars
  BY <1>1
<1> QED BY <1>2, Invariant, PTL DEF Spec, PollSyncs

-----------------------------------------------------------------------------
(* The wait for a lease. While a port waits, the true time since its start *)
(* is never less than what the wrapping difference of two readings says.   *)

TimeOK ==
    \A n \in Ports : port[n].state = "DHCP_WAIT" => asking[n] >= Since(port[n].start)

\* An address poll leaves a port waiting only if it was, or was just started.
LEMMA PollStarts ==
    ASSUME NEW o, PortOK(o), NEW ok \in BOOLEAN, now \in 0 .. CLOCK - 1,
           port_addr_poll(o, ok).state = "DHCP_WAIT"
    PROVE  \/ o.state = "DHCP_WAIT" /\ port_addr_poll(o, ok).start = o.start
           \/ o.state = "NONE" /\ StartDue(o) /\ port_addr_poll(o, ok).start = now
<1> DEFINE p == [o EXCEPT !.changed = FALSE]
           again == IF o.changed /\ o.link_up THEN dhcp_network_changed_link_up(p) ELSE p
           r == port_addr_poll(o, ok)
<1>1. p \in Record /\ p.state = o.state /\ p.start = o.start /\ (StartDue(p) <=> StartDue(o))
  BY DEF PortOK, Record, StartDue
<1>2. r = CASE p.state = "NONE" -> IF StartDue(p) THEN start_dhcp(p, ok) ELSE p
            [] p.state = "DHCP_WAIT" ->
                  IF dhcp_supplied_address(p)
                  THEN sync_zircon_ip([p EXCEPT !.state = "DHCP", !.ever_leased = TRUE])
                  ELSE IF p.mode # "dhcp" /\ Since(p.start) >= DHCP_TIMEOUT
                  THEN set_static_address(dhcp_release_and_stop(p))
                  ELSE again
            [] p.state = "DHCP" -> sync_zircon_ip(again)
            [] p.state = "STATIC" -> p
  BY DEF port_addr_poll
<1>3. again \in Record /\ again.state = p.state /\ again.start = p.start
  <2> HIDE DEF p
  <2> QED BY <1>1 DEF dhcp_network_changed_link_up, Record
<1>4. r.state = "DHCP_WAIT"
  OBVIOUS
<1> HIDE DEF p, again, r
<1>5. CASE p.state = "NONE"
  <2>1. CASE StartDue(p)
    <3>1. r = start_dhcp(p, ok)
      BY <1>2, <1>5, <2>1
    <3>2. start_dhcp(p, ok).start = now
      BY <1>1 DEF start_dhcp, dhcp_start, set_static_address, sync_zircon_ip, Record
    <3> QED BY <1>1, <1>5, <2>1, <3>1, <3>2 DEF r
  <2>2. CASE ~StartDue(p)
    BY <1>2, <1>4, <1>5, <2>2
  <2> QED BY <2>1, <2>2
<1>6. CASE p.state = "DHCP_WAIT"
  <2>1. CASE r = again
    BY <1>1, <1>3, <1>6, <2>1 DEF r
  <2>2. CASE r = sync_zircon_ip([p EXCEPT !.state = "DHCP", !.ever_leased = TRUE])
    BY <1>1, <1>4, <2>2 DEF sync_zircon_ip, Record
  <2>3. CASE r = set_static_address(dhcp_release_and_stop(p))
    <3>1. dhcp_release_and_stop(p) \in Record
      BY <1>1, ReleaseOK
    <3> QED BY <1>4, <2>3, <3>1 DEF set_static_address, sync_zircon_ip, Record
  <2> QED BY <1>2, <1>6, <2>1, <2>2, <2>3
<1>7. CASE p.state = "DHCP"
  <2>1. r = sync_zircon_ip(again)
    BY <1>2, <1>7
  <2> QED BY <1>3, <1>4, <1>7, <2>1 DEF sync_zircon_ip, Record
<1>8. CASE p.state = "STATIC"
  BY <1>2, <1>4, <1>8
<1> QED BY <1>1, <1>5, <1>6, <1>7, <1>8 DEF Record

\* A poll takes the static address instead of a lease only when the time is up.
LEMMA PollFallsBack ==
    ASSUME NEW o, PortOK(o), NEW ok \in BOOLEAN,
           o.state = "DHCP_WAIT", port_addr_poll(o, ok).state = "STATIC"
    PROVE  Since(o.start) >= DHCP_TIMEOUT
<1> DEFINE p == [o EXCEPT !.changed = FALSE]
           again == IF o.changed /\ o.link_up THEN dhcp_network_changed_link_up(p) ELSE p
           r == port_addr_poll(o, ok)
<1>1. p \in Record /\ p.state = "DHCP_WAIT" /\ p.start = o.start
  BY DEF PortOK, Record
<1>2. r = IF dhcp_supplied_address(p)
          THEN sync_zircon_ip([p EXCEPT !.state = "DHCP", !.ever_leased = TRUE])
          ELSE IF p.mode # "dhcp" /\ Since(p.start) >= DHCP_TIMEOUT
          THEN set_static_address(dhcp_release_and_stop(p))
          ELSE again
  BY <1>1 DEF port_addr_poll
<1>3. again.state = "DHCP_WAIT"
  <2> HIDE DEF p
  <2> QED BY <1>1 DEF dhcp_network_changed_link_up, Record
<1>4. r.state = "STATIC"
  OBVIOUS
<1> HIDE DEF p, again, r
<1>5. r # sync_zircon_ip([p EXCEPT !.state = "DHCP", !.ever_leased = TRUE])
  BY <1>1, <1>4 DEF sync_zircon_ip, Record
<1> QED BY <1>1, <1>2, <1>3, <1>4, <1>5

\* What a test or a console command does to the wait.
LEMMA EnsureStarts ==
    ASSUME NEW p, PortOK(p), port_ensure_address(p).state = "DHCP_WAIT"
    PROVE  p.state = "DHCP_WAIT" /\ port_ensure_address(p).start = p.start
<1>1. set_static_address(stop_dhcp(p)).state = "STATIC"
  BY StopOK DEF set_static_address, sync_zircon_ip, Record
<1> QED BY <1>1 DEF port_ensure_address

LEMMA SetModeStarts ==
    ASSUME NEW p, PortOK(p), NEW mode \in Modes, NEW ok \in BOOLEAN, now \in 0 .. CLOCK - 1,
           port_set_ip_mode(p, mode, ok).state = "DHCP_WAIT"
    PROVE  port_set_ip_mode(p, mode, ok).start = now
<1> DEFINE q == [stop_dhcp(p) EXCEPT !.mode = mode, !.failed = FALSE]
           r == sync_zircon_ip([q EXCEPT !.addr = None, !.state = "NONE"])
<1>1. q \in Record
  BY StopOK DEF Record
<1>2. port_set_ip_mode(p, mode, ok) =
        IF mode = "static" THEN set_static_address(q)
        ELSE IF r.link_up THEN start_dhcp(r, ok) ELSE r
  BY DEF port_set_ip_mode
<1> HIDE DEF q
<1>3. r \in Record /\ r.state = "NONE"
  BY <1>1, Consts DEF sync_zircon_ip, Record
<1>4. set_static_address(q).state = "STATIC"
  BY <1>1 DEF set_static_address, sync_zircon_ip, Record
<1> HIDE DEF r
<1>5. start_dhcp(r, ok).start = now
  BY <1>3 DEF start_dhcp, dhcp_start, set_static_address, sync_zircon_ip, Record
<1> QED BY <1>2, <1>3, <1>4, <1>5

\* The wait stays with each port, when the others' and the rest of it do not matter.
LEMMA TimeKept ==
    ASSUME TimeOK, now' = now,
           \A n \in Ports : port'[n].state = "DHCP_WAIT" =>
              \/ asking'[n] >= (now - port'[n].start) % CLOCK
              \/ /\ port[n].state = "DHCP_WAIT" /\ port'[n].start = port[n].start
                 /\ asking'[n] = asking[n]
    PROVE  TimeOK'
  BY DEF TimeOK, Since

LEMMA JustStarted ==
    ASSUME ClockOK PROVE 0 >= (now - now) % CLOCK
  BY Consts DEF ClockOK

LEMMA TimeStep ==
    ASSUME CLOCK - 1 <= MaxWatch, IInv, TimeOK, [Next]_vars
    PROVE  TimeOK'
<1>1. /\ port \in [Ports -> Record] /\ now \in 0 .. CLOCK - 1
      /\ asking \in [Ports -> 0 .. MaxWatch] /\ ClockOK
      /\ \A n \in Ports : PortOK(port[n])
  BY DEF IInv, ClockOK, BoundOK, PortsOK, PortOK
<1>2. ASSUME NEW n \in Ports, DhcpEvent(n) PROVE TimeOK'
  <2>1. \A k \in Ports : port'[k].state = port[k].state /\ port'[k].start = port[k].start
    BY <1>1, <1>2 DEF DhcpEvent, Record
  <2>2. now' = now /\ \A k \in Ports : asking'[k] = asking[k]
    BY <1>1, <1>2 DEF DhcpEvent, Watch
  <2> QED BY <2>1, <2>2, TimeKept
<1>3. CASE NetDone \/ LbDone \/ UNCHANGED vars \/ \E n \in Ports : Flap(n)
  BY <1>3 DEF NetDone, LbDone, Flap, vars, TimeOK, Since
<1>4. CASE LinkPoll
  <2>1. ASSUME NEW k \in Ports
        PROVE  port'[k].state = port[k].state /\ port'[k].start = port[k].start
    <3>1. port[k] \in Record
      BY <1>1
    <3>2. port'[k] = port[k] \/ port'[k] = port_link_poll(port[k], phy[k])
      BY <1>4 DEF LinkPoll
    <3> QED BY <3>1, <3>2 DEF port_link_poll, Record
  <2>2. now' = now /\ \A k \in Ports : asking'[k] = asking[k]
    BY <1>1, <1>4 DEF LinkPoll, Watch
  <2> QED BY <2>1, <2>2, TimeKept
<1>5. CASE AddrPoll
  <2>1. CASE Since(t_addr) >= ADDR_POLL
    <3>1. PICK ok \in [Ports -> BOOLEAN] :
             /\ port' = [n \in Ports |-> port_addr_poll(port[n], ok[n])]
             /\ Watch(port', {n \in Ports : StartDue(port[n])})
      BY <1>5, <2>1 DEF AddrPoll
    <3>2. now' = now
      BY <1>5 DEF AddrPoll
    <3>3. \A n \in Ports : asking'[n] = IF StartDue(port[n]) THEN 0 ELSE asking[n]
      BY <3>1 DEF Watch
    <3>4. ASSUME NEW n \in Ports, port'[n].state = "DHCP_WAIT"
          PROVE  \/ asking'[n] >= (now - port'[n].start) % CLOCK
                 \/ /\ port[n].state = "DHCP_WAIT" /\ port'[n].start = port[n].start
                    /\ asking'[n] = asking[n]
      <4>1. port'[n] = port_addr_poll(port[n], ok[n]) /\ ok[n] \in BOOLEAN
        BY <3>1
      <4>2. \/ port[n].state = "DHCP_WAIT" /\ port'[n].start = port[n].start
            \/ StartDue(port[n]) /\ port'[n].start = now
        BY <1>1, <3>4, <4>1, PollStarts
      <4>3. CASE port[n].state = "DHCP_WAIT" /\ port'[n].start = port[n].start
        BY <3>3, <4>3 DEF StartDue
      <4>4. CASE StartDue(port[n]) /\ port'[n].start = now
        BY <1>1, <3>3, <4>4, JustStarted
      <4> QED BY <4>2, <4>3, <4>4
    <3> QED BY <3>2, <3>4, TimeKept
  <2>2. CASE ~(Since(t_addr) >= ADDR_POLL)
    BY <1>5, <2>2 DEF AddrPoll, TimeOK, Since
  <2> QED BY <2>1, <2>2
<1>6. CASE EnsureAddresses
  <2>1. PICK some \in SUBSET Ports :
           port' = [n \in Ports |->
                      IF n \in some THEN port_ensure_address(port[n]) ELSE port[n]]
    BY <1>6 DEF EnsureAddresses
  <2>2. now' = now /\ \A k \in Ports : asking'[k] = asking[k]
    BY <1>1, <1>6 DEF EnsureAddresses, Watch
  <2>3. ASSUME NEW n \in Ports, port'[n].state = "DHCP_WAIT"
        PROVE  port[n].state = "DHCP_WAIT" /\ port'[n].start = port[n].start
    <3>1. CASE n \in some
      <4>1. port'[n] = port_ensure_address(port[n]) /\ PortOK(port[n])
        BY <1>1, <2>1, <3>1
      <4> QED BY <2>3, <4>1, EnsureStarts
    <3>2. CASE n \notin some
      BY <2>1, <2>3, <3>2
    <3> QED BY <3>1, <3>2
  <2> QED BY <2>2, <2>3, TimeKept
<1>7. ASSUME NEW n \in Ports, NEW mode \in Modes, SetMode(n, mode) PROVE TimeOK'
  <2>1. PICK ok \in BOOLEAN :
           port' = [port EXCEPT ![n] = port_set_ip_mode(port[n], mode, ok)]
    BY <1>7 DEF SetMode
  <2>2. now' = now /\ asking' = [asking EXCEPT ![n] = 0]
    BY <1>7 DEF SetMode
  <2>3. ASSUME NEW k \in Ports, port'[k].state = "DHCP_WAIT"
        PROVE  \/ asking'[k] >= (now - port'[k].start) % CLOCK
               \/ /\ port[k].state = "DHCP_WAIT" /\ port'[k].start = port[k].start
                  /\ asking'[k] = asking[k]
    <3>1. CASE k = n
      <4>1. port'[n] = port_set_ip_mode(port[n], mode, ok)
        BY <1>1, <2>1
      <4>2. port'[n].start = now
        BY <1>1, <2>3, <3>1, <4>1, SetModeStarts
      <4>3. asking'[n] = 0
        BY <1>1, <2>2
      <4> QED BY <1>1, <3>1, <4>2, <4>3, JustStarted
    <3>2. CASE k # n
      BY <1>1, <2>1, <2>2, <2>3, <3>2
    <3> QED BY <3>1, <3>2
  <2> QED BY <2>2, <2>3, TimeKept
<1>8. ASSUME NEW d \in {0, 1}, NextPass(d) PROVE TimeOK'
  <2>1. /\ port' = port /\ now' = (now + d) % CLOCK
        /\ asking' = [n \in Ports |-> IF d = 1 THEN Older(asking[n]) ELSE asking[n]]
    BY <1>8 DEF NextPass
  <2>2. ASSUME NEW n \in Ports, port[n].state = "DHCP_WAIT"
        PROVE  asking'[n] >= (((now + d) % CLOCK) - port[n].start) % CLOCK
    <3> DEFINE t == port[n].start
               before == (now - t) % CLOCK
               after == (((now + d) % CLOCK) - t) % CLOCK
    <3>1. t \in 0 .. CLOCK - 1 /\ CLOCK \in Nat \ {0}
      BY <1>1, Consts DEF Record
    <3>2. asking[n] >= before
      BY <2>2 DEF TimeOK, Since
    <3>3. after <= before + d
      BY <1>1, <3>1, NeverFaster
    <3>4. before \in 0 .. CLOCK - 1 /\ after \in 0 .. CLOCK - 1
      BY <1>1, <3>1
    <3>5. asking[n] \in 0 .. MaxWatch /\ MaxWatch \in Nat
      BY <1>1, PortAssumption
    <3>6. asking'[n] = IF d = 1 THEN Older(asking[n]) ELSE asking[n]
      BY <2>1
    <3>7. asking'[n] = asking[n] + d \/ asking'[n] = MaxWatch
      BY <3>5, <3>6 DEF Older
    <3>8. asking'[n] >= after
      <4> HIDE DEF before, after
      <4> QED BY <3>1, <3>2, <3>3, <3>4, <3>5, <3>7
    <3> QED BY <3>8
  <2> QED BY <2>1, <2>2 DEF TimeOK, Since
<1> QED BY <1>2, <1>3, <1>4, <1>5, <1>6, <1>7, <1>8 DEF Next

\* The DHCP client is given its time, in every order of failed starts, flaps,
\* commands and tests and across the wrap of the clock, as far as the true time
\* is counted for as long as the clock takes to wrap.
THEOREM WaitNeverCutShort ==
    ASSUME CLOCK - 1 <= MaxWatch
    PROVE  Spec => DhcpGetsItsTime
<1>1. Init => TimeOK
  BY DEF Init, TimeOK, Booted
<1>2. IInv /\ TimeOK /\ [Next]_vars => TimeOK'
  BY TimeStep
<1>3. ASSUME IInv, TimeOK, [Next]_vars, NEW n \in Ports,
             stage = "addr", port[n].state = "DHCP_WAIT", port'[n].state = "STATIC"
      PROVE  asking[n] >= DHCP_TIMEOUT
  <2>1. AddrPoll
    <3>1. port' # port
      BY <1>3
    <3> QED BY <1>3, <3>1 DEF Next, DhcpEvent, NetDone, Flap, LinkPoll, EnsureAddresses,
                              LbDone, SetMode, NextPass, vars
  <2>2. Since(t_addr) >= ADDR_POLL
    BY <1>3, <2>1 DEF AddrPoll
  <2>3. PICK ok \in [Ports -> BOOLEAN] :
           port' = [k \in Ports |-> port_addr_poll(port[k], ok[k])]
    BY <2>1, <2>2 DEF AddrPoll
  <2>4. /\ PortOK(port[n]) /\ port[n].start \in 0 .. CLOCK - 1 /\ now \in 0 .. CLOCK - 1
        /\ asking[n] \in 0 .. MaxWatch
    BY <1>3 DEF IInv, ClockOK, BoundOK, PortsOK, PortOK, Record
  <2>5. port'[n] = port_addr_poll(port[n], ok[n]) /\ ok[n] \in BOOLEAN
    BY <2>3
  <2>6. Since(port[n].start) >= DHCP_TIMEOUT
    BY <1>3, <2>4, <2>5, PollFallsBack
  <2>7. asking[n] >= Since(port[n].start) /\ Since(port[n].start) \in 0 .. CLOCK - 1
    BY <1>3, <2>4, Consts DEF TimeOK, Since
  <2> QED BY <2>4, <2>6, <2>7, PortAssumption
<1>4. IInv /\ TimeOK /\ [Next]_vars =>
        [\A n \in Ports :
           stage = "addr" /\ port[n].state = "DHCP_WAIT" /\ port'[n].state = "STATIC"
              => asking[n] >= DHCP_TIMEOUT]_vars
  BY <1>3
<1> QED BY <1>1, <1>2, <1>4, Invariant, PTL DEF Spec, DhcpGetsItsTime

-----------------------------------------------------------------------------
(* The wait for an address ends. The ages are true times, the timers are   *)
(* differences of clock readings: what a timer shows is its true time as   *)
(* long as it stays below the wrap, and a poll acts on it before that.     *)

\* The address poll is never overdue when it is reached.
Polled ==
    /\ Since(t_addr) <= ADDR_POLL
    /\ stage \in {"lb", "console"} => Since(t_addr) < ADDR_POLL

\* A port p that has been bare for b and has asked for a, s after its timer was set
\* and e after the last poll. A port that may start its client has been bare since that
\* poll only, or waits for its next attempt; a client that asks was started within a
\* poll of the link coming up.
Waits(p, b, a, s, e) ==
    /\ p.failed => p.mode = "dhcp"
    /\ ~Bare(p) => b = 0
    /\ p.state = "NONE" /\ p.link_up =>
         \/ b <= e
         \/ p.failed /\ s <= DHCP_TIMEOUT + e /\ (b <= s + ADDR_POLL \/ a <= s)
    /\ p.state = "DHCP_WAIT" /\ p.mode # "dhcp" =>
         s <= DHCP_TIMEOUT + e /\ b <= s + ADDR_POLL

AgesOK ==
    /\ Polled
    /\ \A n \in Ports :
          Waits(port[n], bare[n], asking[n], Since(port[n].start), Since(t_addr))

LEMMA Timers == DHCP_TIMEOUT \in Nat /\ ADDR_POLL \in Nat \ {0} /\ MaxWatch \in Nat
                /\ CLOCK \in Nat \ {0} /\ DHCP_TIMEOUT + 2 * ADDR_POLL < CLOCK
  BY PortAssumption

\* A difference of readings is an age until the clock has gone round.
LEMMA Aging ==
    ASSUME NEW C \in Nat \ {0}, NEW x \in 0 .. C - 1, NEW t \in 0 .. C - 1, NEW d \in {0, 1},
           ((x - t) % C) + d < C
    PROVE  (((x + d) % C) - t) % C = ((x - t) % C) + d
<1> DEFINE r == (x + d) % C
<1>1. r \in 0 .. C - 1 /\ r \in {x + d, x + d - C}
  OBVIOUS
<1> HIDE DEF r
<1>2. ASSUME NEW y \in (0 - C) .. C - 1 PROVE y % C = IF y >= 0 THEN y ELSE y + C
  OBVIOUS
<1>3. r - t \in (0 - C) .. C - 1 /\ x - t \in (0 - C) .. C - 1
  BY <1>1
<1>4. /\ (r - t) % C = IF r - t >= 0 THEN r - t ELSE r - t + C
      /\ (x - t) % C = IF x - t >= 0 THEN x - t ELSE x - t + C
  BY <1>2, <1>3
<1>5. (r - t) % C = ((x - t) % C) + d
  BY <1>1, <1>4
<1> QED BY <1>5 DEF r

LEMMA SinceNat ==
    ASSUME now \in 0 .. CLOCK - 1, NEW t \in 0 .. CLOCK - 1
    PROVE  Since(t) \in 0 .. CLOCK - 1 /\ Since(now) = 0
  BY Timers DEF Since

\* What start_dhcp makes of a port without address.
LEMMA StartMakes ==
    ASSUME NEW p \in Record, NEW ok \in BOOLEAN, now \in 0 .. CLOCK - 1, p.state = "NONE"
    PROVE  LET r == start_dhcp(p, ok)
           IN  /\ r.mode = p.mode /\ r.link_up = p.link_up /\ r.start = now
               /\ \/ r.state = "DHCP_WAIT" /\ ~r.failed
                  \/ r.state = "NONE" /\ r.failed /\ p.mode = "dhcp"
                  \/ r.state = "STATIC" /\ r.failed = p.failed
<1> DEFINE q == [dhcp_start(p, ok) EXCEPT !.start = now]
<1>1. q \in Record /\ q.mode = p.mode /\ q.link_up = p.link_up /\ q.start = now /\ q.failed = p.failed
  BY DEF dhcp_start, Record
<1>2. start_dhcp(p, ok) = IF ok THEN [q EXCEPT !.state = "DHCP_WAIT", !.failed = FALSE]
        ELSE IF p.mode = "dhcp" THEN [q EXCEPT !.state = "NONE", !.failed = TRUE]
        ELSE set_static_address(q)
  BY DEF start_dhcp
<1> HIDE DEF q
<1> QED BY <1>1, <1>2 DEF set_static_address, sync_zircon_ip, Record

\* What an address poll makes of a port.
LEMMA PollMakes ==
    ASSUME NEW o, PortOK(o), NEW ok \in BOOLEAN, now \in 0 .. CLOCK - 1
    PROVE  LET r == port_addr_poll(o, ok)
           IN  /\ r.mode = o.mode /\ r.link_up = o.link_up
               /\ o.state = "NONE" /\ ~StartDue(o) =>
                    r.state = "NONE" /\ r.failed = o.failed /\ r.start = o.start /\ r.addr = o.addr
               /\ o.state = "NONE" /\ StartDue(o) =>
                    /\ r.start = now
                    /\ \/ r.state = "DHCP_WAIT" /\ ~r.failed
                       \/ r.state = "NONE" /\ r.failed /\ o.mode = "dhcp"
                       \/ r.state = "STATIC" /\ r.failed = o.failed
               /\ o.state = "DHCP_WAIT" =>
                    /\ r.failed = o.failed /\ r.start = o.start
                    /\ \/ r.state \in {"DHCP", "STATIC"}
                       \/ r.state = "DHCP_WAIT" /\ (o.mode = "dhcp" \/ Since(o.start) < DHCP_TIMEOUT)
               /\ o.state \in {"DHCP", "STATIC"} => r.state = o.state /\ r.failed = o.failed
<1> DEFINE p == [o EXCEPT !.changed = FALSE]
           again == IF o.changed /\ o.link_up THEN dhcp_network_changed_link_up(p) ELSE p
           r == port_addr_poll(o, ok)
<1>1. /\ p \in Record /\ p.state = o.state /\ p.start = o.start /\ p.mode = o.mode
      /\ p.link_up = o.link_up /\ p.failed = o.failed /\ p.addr = o.addr
      /\ (StartDue(p) <=> StartDue(o))
  BY DEF PortOK, Record, StartDue
<1>2. r = CASE p.state = "NONE" -> IF StartDue(p) THEN start_dhcp(p, ok) ELSE p
            [] p.state = "DHCP_WAIT" ->
                  IF dhcp_supplied_address(p)
                  THEN sync_zircon_ip([p EXCEPT !.state = "DHCP", !.ever_leased = TRUE])
                  ELSE IF p.mode # "dhcp" /\ Since(p.start) >= DHCP_TIMEOUT
                  THEN set_static_address(dhcp_release_and_stop(p))
                  ELSE again
            [] p.state = "DHCP" -> sync_zircon_ip(again)
            [] p.state = "STATIC" -> p
  BY DEF port_addr_poll
<1>3. /\ again \in Record /\ again.state = p.state /\ again.start = p.start /\ again.mode = p.mode
      /\ again.link_up = p.link_up /\ again.failed = p.failed
  <2> HIDE DEF p
  <2> QED BY <1>1 DEF dhcp_network_changed_link_up, Record
<1> HIDE DEF p, again
<1>4. CASE p.state = "NONE"
  <2>1. r = IF StartDue(p) THEN start_dhcp(p, ok) ELSE p
    BY <1>2, <1>4
  <2>2. CASE StartDue(p)
    <3>1. r = start_dhcp(p, ok)
      BY <2>1, <2>2
    <3> HIDE DEF r
    <3>2. /\ r.mode = p.mode /\ r.link_up = p.link_up /\ r.start = now
          /\ \/ r.state = "DHCP_WAIT" /\ ~r.failed
             \/ r.state = "NONE" /\ r.failed /\ p.mode = "dhcp"
             \/ r.state = "STATIC" /\ r.failed = p.failed
      BY <1>1, <1>4, <3>1, StartMakes
    <3> QED BY <1>1, <1>4, <2>2, <3>2 DEF r
  <2>3. CASE ~StartDue(p)
    <3> HIDE DEF r
    <3> QED BY <1>1, <1>4, <2>1, <2>3 DEF r
  <2> QED BY <2>2, <2>3
<1>5. CASE p.state = "DHCP_WAIT"
  <2>1. r = IF dhcp_supplied_address(p)
            THEN sync_zircon_ip([p EXCEPT !.state = "DHCP", !.ever_leased = TRUE])
            ELSE IF p.mode # "dhcp" /\ Since(p.start) >= DHCP_TIMEOUT
            THEN set_static_address(dhcp_release_and_stop(p))
            ELSE again
    BY <1>2, <1>5
  <2> HIDE DEF r
  <2>2. CASE dhcp_supplied_address(p)
    <3>1. r = sync_zircon_ip([p EXCEPT !.state = "DHCP", !.ever_leased = TRUE])
      BY <2>1, <2>2
    <3>2. /\ r.state = "DHCP" /\ r.mode = p.mode /\ r.link_up = p.link_up
          /\ r.failed = p.failed /\ r.start = p.start
      BY <1>1, <3>1 DEF sync_zircon_ip, Record
    <3> QED BY <1>1, <1>5, <3>2 DEF r
  <2>3. CASE ~dhcp_supplied_address(p) /\ p.mode # "dhcp" /\ Since(p.start) >= DHCP_TIMEOUT
    <3>1. r = set_static_address(dhcp_release_and_stop(p))
      BY <2>1, <2>3
    <3>2. /\ r.state = "STATIC" /\ r.mode = p.mode /\ r.link_up = p.link_up
          /\ r.failed = p.failed /\ r.start = p.start
      BY <1>1, <3>1 DEF set_static_address, dhcp_release_and_stop, sync_zircon_ip, Record
    <3> QED BY <1>1, <1>5, <3>2 DEF r
  <2>4. CASE ~dhcp_supplied_address(p) /\ ~(p.mode # "dhcp" /\ Since(p.start) >= DHCP_TIMEOUT)
    <3>1. r = again
      BY <2>1, <2>4
    <3>2. p.mode = "dhcp" \/ Since(p.start) < DHCP_TIMEOUT
      <4>1. Since(p.start) \in 0 .. CLOCK - 1
        BY <1>1, SinceNat DEF Record
      <4> QED BY <2>4, <4>1, Timers
    <3> QED BY <1>1, <1>3, <1>5, <3>1, <3>2 DEF r
  <2> QED BY <2>2, <2>3, <2>4
<1>6. CASE p.state = "DHCP"
  <2>1. r = sync_zircon_ip(again)
    BY <1>2, <1>6
  <2> HIDE DEF r
  <2>2. /\ r.state = "DHCP" /\ r.mode = p.mode /\ r.link_up = p.link_up /\ r.failed = p.failed
    BY <1>3, <1>6, <2>1 DEF sync_zircon_ip, Record
  <2> QED BY <1>1, <1>6, <2>2 DEF r
<1>7. CASE p.state = "STATIC"
  <2>1. r = p
    BY <1>2, <1>7
  <2> HIDE DEF r
  <2> QED BY <1>1, <1>7, <2>1 DEF r
<1> QED BY <1>1, <1>4, <1>5, <1>6, <1>7 DEF Record

\* What the watch makes of the age of a port that becomes r.
Watched(r, b) == IF Bare(r) THEN b ELSE 0

LEMMA WatchedAge ==
    ASSUME NEW r, NEW b \in Nat
    PROVE  Watched(r, b) \in Nat /\ Watched(r, b) <= b /\ (~Bare(r) => Watched(r, b) = 0)
  BY DEF Watched

\* A poll keeps every wait within its bounds, and starts the bounds of new ones.
LEMMA PollWaits ==
    ASSUME NEW o, PortOK(o), NEW ok \in BOOLEAN, now \in 0 .. CLOCK - 1,
           NEW b \in Nat, NEW a \in Nat, NEW e \in 0 .. ADDR_POLL,
           Waits(o, b, a, Since(o.start), e)
    PROVE  LET r == port_addr_poll(o, ok)
           IN  Waits(r, Watched(r, b), IF StartDue(o) THEN 0 ELSE a, Since(r.start), 0)
<1> DEFINE r == port_addr_poll(o, ok)
           c == Watched(r, b)
           s == Since(o.start)
<1>1. /\ r.mode = o.mode /\ r.link_up = o.link_up
      /\ o.state = "NONE" /\ ~StartDue(o) =>
           r.state = "NONE" /\ r.failed = o.failed /\ r.start = o.start /\ r.addr = o.addr
      /\ o.state = "NONE" /\ StartDue(o) =>
           /\ r.start = now
           /\ \/ r.state = "DHCP_WAIT" /\ ~r.failed
              \/ r.state = "NONE" /\ r.failed /\ o.mode = "dhcp"
              \/ r.state = "STATIC" /\ r.failed = o.failed
      /\ o.state = "DHCP_WAIT" =>
           /\ r.failed = o.failed /\ r.start = o.start
           /\ \/ r.state \in {"DHCP", "STATIC"}
              \/ r.state = "DHCP_WAIT" /\ (o.mode = "dhcp" \/ Since(o.start) < DHCP_TIMEOUT)
      /\ o.state \in {"DHCP", "STATIC"} => r.state = o.state /\ r.failed = o.failed
  BY PollMakes
<1>2. c \in Nat /\ c <= b /\ (~Bare(r) => c = 0)
  BY WatchedAge
<1>3. s \in 0 .. CLOCK - 1 /\ Since(now) = 0
  BY SinceNat DEF PortOK, Record
<1>4. o.state \in {"NONE", "DHCP_WAIT", "DHCP", "STATIC"} /\ o.failed \in BOOLEAN
  BY DEF PortOK, Record
<1>5. /\ o.failed => o.mode = "dhcp"
      /\ ~Bare(o) => b = 0
      /\ o.state = "NONE" /\ o.link_up =>
           \/ b <= e
           \/ o.failed /\ s <= DHCP_TIMEOUT + e /\ (b <= s + ADDR_POLL \/ a <= s)
      /\ o.state = "DHCP_WAIT" /\ o.mode # "dhcp" =>
           s <= DHCP_TIMEOUT + e /\ b <= s + ADDR_POLL
  BY DEF Waits
<1>6. o.state = "NONE" /\ o.link_up /\ ~StartDue(o) => o.failed /\ s < DHCP_TIMEOUT
  BY <1>3, <1>4, Timers DEF StartDue
<1>7. o.state = "NONE" /\ StartDue(o) => o.link_up
  BY DEF StartDue
<1> HIDE DEF r, c, s
<1>8. CASE o.state = "NONE" /\ StartDue(o)
  <2>1. Since(r.start) = 0
    BY <1>1, <1>3, <1>8
  <2>2. r.state = "DHCP_WAIT" /\ r.mode # "dhcp" => b <= ADDR_POLL
    BY <1>1, <1>5, <1>7, <1>8, Timers
  <2>3. r.state = "DHCP_WAIT" /\ r.mode # "dhcp" => c <= ADDR_POLL
    BY <1>2, <2>2, Timers
  <2>4. r.failed => r.mode = "dhcp"
    BY <1>1, <1>5, <1>8
  <2>5. r.state = "NONE" => r.failed
    BY <1>1, <1>8
  <2> QED BY <1>2, <1>8, <2>1, <2>3, <2>4, <2>5, Timers DEF Waits, r, c
<1>9. CASE o.state = "NONE" /\ ~StartDue(o)
  <2>1. Since(r.start) = s
    BY <1>1, <1>9 DEF s
  <2>2. r.state = "NONE" /\ (r.failed => r.mode = "dhcp")
    BY <1>1, <1>5, <1>9
  <2>3. r.link_up => r.failed /\ s < DHCP_TIMEOUT /\ (b <= s + ADDR_POLL \/ a <= s)
    BY <1>1, <1>3, <1>5, <1>6, <1>9, Timers
  <2>4. r.link_up => r.failed /\ s <= DHCP_TIMEOUT + 0 /\ (c <= s + ADDR_POLL \/ a <= s)
    BY <1>2, <1>3, <2>3, Timers
  <2> QED BY <1>2, <1>9, <2>1, <2>2, <2>4 DEF Waits, r, c
<1>10. CASE o.state = "DHCP_WAIT"
  <2>1. Since(r.start) = s /\ ~StartDue(o)
    BY <1>1, <1>10 DEF s, StartDue
  <2>2. r.state # "NONE" /\ (r.failed => r.mode = "dhcp")
    BY <1>1, <1>5, <1>10
  <2>3. r.state = "DHCP_WAIT" /\ r.mode # "dhcp" => s < DHCP_TIMEOUT /\ b <= s + ADDR_POLL
    BY <1>1, <1>5, <1>10 DEF s
  <2>4. r.state = "DHCP_WAIT" /\ r.mode # "dhcp" => s <= DHCP_TIMEOUT + 0 /\ c <= s + ADDR_POLL
    BY <1>2, <1>3, <2>3, Timers
  <2> QED BY <1>2, <2>1, <2>2, <2>4 DEF Waits, r, c
<1>11. CASE o.state \in {"DHCP", "STATIC"}
  <2>1. r.state \notin {"NONE", "DHCP_WAIT"} /\ (r.failed => r.mode = "dhcp")
    BY <1>1, <1>5, <1>11
  <2> QED BY <1>2, <2>1 DEF Waits, r, c
<1> QED BY <1>4, <1>8, <1>9, <1>10, <1>11

\* A port whose timer and address state stay, or that has the static address now.
LEMMA SameWaits ==
    ASSUME NEW p, NEW r, NEW b \in Nat, NEW a \in Nat, NEW s \in Nat, NEW e \in Nat,
           Waits(p, b, a, s, e), r.failed = p.failed, r.mode = p.mode,
           \/ r.state = p.state /\ (r.link_up => p.link_up \/ ~Bare(p))
           \/ r.state \notin {"NONE", "DHCP_WAIT"}
    PROVE  Waits(r, Watched(r, b), a, s, e)
<1> DEFINE c == Watched(r, b)
<1>1. c \in Nat /\ c <= b /\ (~Bare(r) => c = 0)
  BY WatchedAge
<1> HIDE DEF c
<1>2. /\ p.failed => p.mode = "dhcp"
      /\ ~Bare(p) => b = 0
      /\ p.state = "NONE" /\ p.link_up =>
           \/ b <= e
           \/ p.failed /\ s <= DHCP_TIMEOUT + e /\ (b <= s + ADDR_POLL \/ a <= s)
      /\ p.state = "DHCP_WAIT" /\ p.mode # "dhcp" =>
           s <= DHCP_TIMEOUT + e /\ b <= s + ADDR_POLL
  BY DEF Waits
<1>3. r.state = "NONE" /\ r.link_up =>
         \/ c <= e
         \/ r.failed /\ s <= DHCP_TIMEOUT + e /\ (c <= s + ADDR_POLL \/ a <= s)
  <2>1. CASE ~Bare(p)
    BY <1>1, <1>2, <2>1
  <2>2. CASE Bare(p)
    <3>1. r.state = "NONE" /\ r.link_up => p.state = "NONE" /\ p.link_up
      BY <2>2
    <3>2. b <= e => c <= e
      BY <1>1
    <3>3. b <= s + ADDR_POLL => c <= s + ADDR_POLL
      BY <1>1, Timers
    <3> QED BY <1>2, <3>1, <3>2, <3>3
  <2> QED BY <2>1, <2>2
<1>4. r.state = "DHCP_WAIT" /\ r.mode # "dhcp" => s <= DHCP_TIMEOUT + e /\ c <= s + ADDR_POLL
  <2>1. b <= s + ADDR_POLL => c <= s + ADDR_POLL
    BY <1>1, Timers
  <2> QED BY <1>2, <2>1
<1> QED BY <1>1, <1>2, <1>3, <1>4 DEF Waits, c

LEMMA EnsureWaits ==
    ASSUME NEW p, PortOK(p), NEW b \in Nat, NEW a \in Nat, NEW e \in Nat,
           now \in 0 .. CLOCK - 1, Waits(p, b, a, Since(p.start), e)
    PROVE  LET r == port_ensure_address(p)
           IN  Waits(r, Watched(r, b), a, Since(r.start), e)
<1> DEFINE r == port_ensure_address(p)
<1>1. \/ r = p
      \/ /\ r.state = "STATIC" /\ r.start = p.start /\ r.failed = p.failed /\ r.mode = p.mode
  <2>1. stop_dhcp(p) \in Record /\ stop_dhcp(p).start = p.start
        /\ stop_dhcp(p).failed = p.failed /\ stop_dhcp(p).mode = p.mode
    BY StopOK DEF stop_dhcp, dhcp_release_and_stop, PortOK, Record
  <2> QED BY <2>1 DEF port_ensure_address, set_static_address, sync_zircon_ip, Record
<1>2. Since(p.start) \in Nat /\ r.start = p.start
  BY <1>1, SinceNat DEF PortOK, Record
<1>3. r.failed = p.failed /\ r.mode = p.mode
      /\ ((r.state = p.state /\ (r.link_up => p.link_up)) \/ r.state \notin {"NONE", "DHCP_WAIT"})
  BY <1>1
<1> HIDE DEF r
<1>4. Waits(r, Watched(r, b), a, Since(p.start), e)
  BY <1>2, <1>3, SameWaits
<1> QED BY <1>2, <1>4 DEF r

\* A command sets the age back.
LEMMA SetModeWaits ==
    ASSUME NEW p, PortOK(p), NEW mode \in Modes, NEW ok \in BOOLEAN,
           now \in 0 .. CLOCK - 1, NEW e \in Nat
    PROVE  LET r == port_set_ip_mode(p, mode, ok) IN Waits(r, 0, 0, Since(r.start), e)
<1> DEFINE q == [stop_dhcp(p) EXCEPT !.mode = mode, !.failed = FALSE]
           i == sync_zircon_ip([q EXCEPT !.addr = None, !.state = "NONE"])
           r == port_set_ip_mode(p, mode, ok)
<1>1. q \in Record /\ q.mode = mode /\ ~q.failed
  BY StopOK DEF Record
<1>2. r = IF mode = "static" THEN set_static_address(q)
          ELSE IF i.link_up THEN start_dhcp(i, ok) ELSE i
  BY DEF port_set_ip_mode
<1> HIDE DEF q
<1>3. i \in Record /\ i.state = "NONE" /\ i.mode = mode /\ ~i.failed
  BY <1>1, Consts DEF sync_zircon_ip, Record
<1>4. set_static_address(q).state = "STATIC" /\ ~set_static_address(q).failed
  BY <1>1 DEF set_static_address, sync_zircon_ip, Record
<1> HIDE DEF i, r
<1>5. LET x == start_dhcp(i, ok)
      IN  /\ x.mode = i.mode /\ x.start = now
          /\ \/ x.state = "DHCP_WAIT" /\ ~x.failed
             \/ x.state = "NONE" /\ x.failed /\ i.mode = "dhcp"
             \/ x.state = "STATIC" /\ x.failed = i.failed
  BY <1>3, StartMakes
<1>6. /\ r.failed => r.mode = "dhcp"
      /\ r.state = "DHCP_WAIT" => r.start = now
  BY <1>2, <1>3, <1>4, <1>5
<1>7. r.state = "DHCP_WAIT" => Since(r.start) = 0
  <2>1. Since(now) = 0
    BY SinceNat
  <2> QED BY <1>6, <2>1
<1>8. 0 <= e /\ 0 <= DHCP_TIMEOUT + e /\ 0 <= 0 + ADDR_POLL
  BY Timers
<1> QED BY <1>6, <1>7, <1>8 DEF Waits, r

\* Time passes for a port and the timers alike.
LEMMA PassWaits ==
    ASSUME NEW p, NEW b \in Nat, NEW a \in Nat, NEW e \in Nat, e < ADDR_POLL,
           NEW s \in 0 .. CLOCK - 1, Waits(p, b, a, s, e),
           NEW d \in {0, 1}, NEW c \in Nat, NEW f \in Nat, NEW t \in Nat,
           c <= b + d, ~Bare(p) => c = b, f <= a + d, s + d < CLOCK => t = s + d
    PROVE  Waits(p, c, f, t, e + d)
<1>1. /\ p.failed => p.mode = "dhcp"
      /\ ~Bare(p) => b = 0
      /\ p.state = "NONE" /\ p.link_up =>
           \/ b <= e
           \/ p.failed /\ s <= DHCP_TIMEOUT + e /\ (b <= s + ADDR_POLL \/ a <= s)
      /\ p.state = "DHCP_WAIT" /\ p.mode # "dhcp" =>
           s <= DHCP_TIMEOUT + e /\ b <= s + ADDR_POLL
  BY DEF Waits
<1>2. s <= DHCP_TIMEOUT + e => t = s + d /\ t <= DHCP_TIMEOUT + (e + d)
  BY Timers
<1>3. /\ b <= e => c <= e + d
      /\ b <= s + ADDR_POLL => c <= s + d + ADDR_POLL
      /\ a <= s => f <= s + d
  BY Timers
<1>4. ~Bare(p) => c = 0
  BY <1>1
<1>5. p.state = "NONE" /\ p.link_up =>
         \/ c <= e + d
         \/ p.failed /\ t <= DHCP_TIMEOUT + (e + d) /\ (c <= t + ADDR_POLL \/ f <= t)
  BY <1>1, <1>2, <1>3
<1>6. p.state = "DHCP_WAIT" /\ p.mode # "dhcp" =>
         t <= DHCP_TIMEOUT + (e + d) /\ c <= t + ADDR_POLL
  BY <1>1, <1>2, <1>3
<1> QED BY <1>1, <1>4, <1>5, <1>6 DEF Waits

\* The ages after a step at which the clock stands still.
LEMMA AgesKept ==
    ASSUME now' = now, now \in 0 .. CLOCK - 1,
           NEW t, t_addr' = t,
           Since(t) <= ADDR_POLL, stage' \in {"lb", "console"} => Since(t) < ADDR_POLL,
           \A n \in Ports : Waits(port'[n], bare'[n], asking'[n], Since(port'[n].start), Since(t))
    PROVE  AgesOK'
<1>1. Since(t_addr)' = Since(t)
  BY DEF Since
<1>2. \A n \in Ports : Since(port[n].start)' = Since(port'[n].start)
  BY DEF Since
<1>3. Polled'
  BY <1>1 DEF Polled
<1>4. \A n \in Ports :
         Waits(port[n], bare[n], asking[n], Since(port[n].start), Since(t_addr))'
  BY <1>1, <1>2 DEF Waits, Bare
<1> QED BY <1>3, <1>4 DEF AgesOK

LEMMA AgesStep ==
    ASSUME IInv, AgesOK, [Next]_vars
    PROVE  AgesOK'
<1> DEFINE e == Since(t_addr)
<1>1. /\ port \in [Ports -> Record] /\ now \in 0 .. CLOCK - 1 /\ t_addr \in 0 .. CLOCK - 1
      /\ phy \in [Ports -> BOOLEAN]
      /\ bare \in [Ports -> 0 .. MaxWatch] /\ asking \in [Ports -> 0 .. MaxWatch]
      /\ \A n \in Ports : PortOK(port[n])
  BY DEF IInv, ClockOK, BoundOK, PortsOK, PortOK
<1>2. /\ e \in 0 .. ADDR_POLL /\ (stage \in {"lb", "console"} => e < ADDR_POLL)
      /\ \A n \in Ports : Waits(port[n], bare[n], asking[n], Since(port[n].start), e)
  <2>1. e \in 0 .. CLOCK - 1
    BY <1>1, SinceNat
  <2> QED BY <2>1, Timers DEF AgesOK, Polled
<1>3. \A n \in Ports : /\ bare[n] \in Nat /\ asking[n] \in Nat /\ Since(port[n].start) \in Nat
                       /\ Since(port[n].start) \in 0 .. CLOCK - 1 /\ e \in Nat
  <2>1. ASSUME NEW n \in Ports PROVE port[n].start \in 0 .. CLOCK - 1
    BY <1>1 DEF Record
  <2>2. ASSUME NEW n \in Ports PROVE Since(port[n].start) \in 0 .. CLOCK - 1
    BY <1>1, <2>1, SinceNat
  <2> QED BY <1>1, <1>2, <2>2, Timers
<1> HIDE DEF e
<1>4. ASSUME NEW n \in Ports, DhcpEvent(n) PROVE AgesOK'
  <2>1. now' = now /\ t_addr' = t_addr /\ stage' = stage /\ Watch(port', {}) /\ port[n].dhcp # "off"
    BY <1>4 DEF DhcpEvent
  <2>2. ASSUME NEW k \in Ports
        PROVE  /\ port'[k].start = port[k].start /\ port'[k].failed = port[k].failed
               /\ port'[k].mode = port[k].mode /\ port'[k].state = port[k].state
               /\ port'[k].link_up = port[k].link_up
    <3>1. PICK h, l : port' = [port EXCEPT ![n] = [port[n] EXCEPT !.dhcp = h, !.addr = l]]
      <4>1. CASE \E l \in Leases : port' = [port EXCEPT ![n].dhcp = "bound", ![n].addr = l]
        <5>1. PICK l \in Leases : port' = [port EXCEPT ![n].dhcp = "bound", ![n].addr = l]
          BY <4>1
        <5>2. port' = [port EXCEPT ![n] = [port[n] EXCEPT !.dhcp = "bound", !.addr = l]]
          BY <1>1, <5>1
        <5> QED BY <5>2
      <4>2. CASE port' = [port EXCEPT ![n].dhcp = "asking", ![n].addr = None]
        <5>1. port' = [port EXCEPT ![n] = [port[n] EXCEPT !.dhcp = "asking", !.addr = None]]
          BY <1>1, <4>2
        <5> QED BY <5>1
      <4> QED BY <1>4, <4>1, <4>2 DEF DhcpEvent
    <3>2. port[k] \in Record /\ port[n] \in Record
      BY <1>1
    <3> DEFINE q == [port[n] EXCEPT !.dhcp = h, !.addr = l]
    <3>3. /\ q.start = port[n].start /\ q.failed = port[n].failed /\ q.mode = port[n].mode
          /\ q.state = port[n].state /\ q.link_up = port[n].link_up
      BY <3>2 DEF Record
    <3>4. port'[k] = IF k = n THEN q ELSE port[k]
      BY <1>1, <3>1
    <3> HIDE DEF q
    <3> QED BY <3>3, <3>4
  <2>3. ASSUME NEW k \in Ports
        PROVE  Waits(port'[k], bare'[k], asking'[k], Since(port'[k].start), e)
    <3>1. bare'[k] = Watched(port'[k], bare[k]) /\ asking'[k] = asking[k]
      BY <1>1, <2>1 DEF Watch, Watched
    <3>2. Waits(port'[k], Watched(port'[k], bare[k]), asking[k], Since(port[k].start), e)
      BY <1>2, <1>3, <2>2, SameWaits
    <3> QED BY <2>2, <3>1, <3>2
  <2> QED BY <1>1, <1>2, <2>1, <2>3, AgesKept DEF e
<1>5. CASE NetDone
  <2>1. /\ now' = now /\ t_addr' = t_addr /\ stage' = "link"
        /\ port' = port /\ bare' = bare /\ asking' = asking
    BY <1>5 DEF NetDone
  <2> QED BY <1>1, <1>2, <2>1, AgesKept DEF e
<1>6. CASE LbDone
  <2>1. /\ now' = now /\ t_addr' = t_addr /\ stage = "lb"
        /\ port' = port /\ bare' = bare /\ asking' = asking
    BY <1>6 DEF LbDone
  <2> QED BY <1>1, <1>2, <2>1, AgesKept DEF e
<1>7. CASE UNCHANGED vars \/ \E n \in Ports : Flap(n)
  <2>1. /\ now' = now /\ t_addr' = t_addr /\ stage' = stage
        /\ port' = port /\ bare' = bare /\ asking' = asking
    BY <1>7 DEF vars, Flap
  <2> QED BY <1>1, <1>2, <2>1, AgesKept DEF e
<1>8. CASE LinkPoll
  <2>1. now' = now /\ t_addr' = t_addr /\ stage' = "addr" /\ Watch(port', {})
    BY <1>8 DEF LinkPoll
  <2>2. ASSUME NEW k \in Ports
        PROVE  Waits(port'[k], bare'[k], asking'[k], Since(port'[k].start), e)
    <3>1. bare'[k] = Watched(port'[k], bare[k]) /\ asking'[k] = asking[k]
      BY <1>1, <2>1 DEF Watch, Watched
    <3>2. port'[k] = port[k] \/ port'[k] = port_link_poll(port[k], phy[k])
      BY <1>8 DEF LinkPoll
    <3>3. port[k] \in Record /\ phy[k] \in BOOLEAN
      BY <1>1
    <3>4. /\ port'[k].start = port[k].start /\ port'[k].failed = port[k].failed
          /\ port'[k].mode = port[k].mode /\ port'[k].state = port[k].state
      BY <3>2, <3>3 DEF port_link_poll, Record
    <3>5. ~port[k].link_up => ~Bare(port[k])
      BY DEF Bare
    <3>6. port[k].link_up \/ ~Bare(port[k])
      BY <3>5
    <3>7. Waits(port'[k], Watched(port'[k], bare[k]), asking[k], Since(port[k].start), e)
      BY <1>2, <1>3, <3>4, <3>6, SameWaits
    <3> QED BY <3>1, <3>4, <3>7
  <2> QED BY <1>1, <1>2, <2>1, <2>2, AgesKept DEF e
<1>9. CASE AddrPoll
  <2>1. now' = now /\ stage = "addr" /\ stage' = "lb"
    BY <1>9 DEF AddrPoll
  <2>2. CASE Since(t_addr) >= ADDR_POLL
    <3>1. PICK ok \in [Ports -> BOOLEAN] :
             port' = [n \in Ports |-> port_addr_poll(port[n], ok[n])]
      BY <1>9, <2>2 DEF AddrPoll
    <3>2. t_addr' = now /\ Watch(port', {n \in Ports : StartDue(port[n])})
      BY <1>9, <2>2 DEF AddrPoll
    <3>3. ASSUME NEW k \in Ports
          PROVE  Waits(port'[k], bare'[k], asking'[k], Since(port'[k].start), 0)
      <4>1. /\ bare'[k] = Watched(port'[k], bare[k])
            /\ asking'[k] = IF StartDue(port[k]) THEN 0 ELSE asking[k]
        BY <1>1, <3>2 DEF Watch, Watched
      <4>2. port'[k] = port_addr_poll(port[k], ok[k]) /\ ok[k] \in BOOLEAN
        BY <3>1
      <4> DEFINE r == port_addr_poll(port[k], ok[k])
      <4>3. Waits(r, Watched(r, bare[k]), IF StartDue(port[k]) THEN 0 ELSE asking[k],
                  Since(r.start), 0)
        BY <1>1, <1>2, <1>3, <4>2, PollWaits
      <4> HIDE DEF r
      <4> QED BY <4>1, <4>2, <4>3 DEF r
    <3>4. Since(now) = 0 /\ 0 <= ADDR_POLL /\ 0 < ADDR_POLL
      BY <1>1, SinceNat, Timers
    <3> QED BY <1>1, <2>1, <3>2, <3>3, <3>4, AgesKept
  <2>3. CASE ~(Since(t_addr) >= ADDR_POLL)
    <3>1. t_addr' = t_addr /\ port' = port /\ bare' = bare /\ asking' = asking
      BY <1>9, <2>3 DEF AddrPoll
    <3>2. e < ADDR_POLL
      BY <1>2, <2>3, Timers DEF e
    <3> QED BY <1>1, <1>2, <2>1, <3>1, <3>2, AgesKept DEF e
  <2> QED BY <2>2, <2>3
<1>10. CASE EnsureAddresses
  <2>1. PICK some \in SUBSET Ports :
           port' = [n \in Ports |->
                      IF n \in some THEN port_ensure_address(port[n]) ELSE port[n]]
    BY <1>10 DEF EnsureAddresses
  <2>2. now' = now /\ t_addr' = t_addr /\ stage' = stage /\ Watch(port', {})
    BY <1>10 DEF EnsureAddresses
  <2>3. ASSUME NEW k \in Ports
        PROVE  Waits(port'[k], bare'[k], asking'[k], Since(port'[k].start), e)
    <3>1. bare'[k] = Watched(port'[k], bare[k]) /\ asking'[k] = asking[k]
      BY <1>1, <2>2 DEF Watch, Watched
    <3>2. CASE k \in some
      <4> DEFINE r == port_ensure_address(port[k])
      <4>1. port'[k] = r
        BY <2>1, <3>2
      <4>2. Waits(r, Watched(r, bare[k]), asking[k], Since(r.start), e)
        BY <1>1, <1>2, <1>3, EnsureWaits
      <4> HIDE DEF r
      <4> QED BY <3>1, <4>1, <4>2
    <3>3. CASE k \notin some
      <4>1. port'[k] = port[k]
        BY <2>1, <3>3
      <4>2. Waits(port[k], Watched(port[k], bare[k]), asking[k], Since(port[k].start), e)
        BY <1>2, <1>3, SameWaits
      <4> QED BY <3>1, <4>1, <4>2
    <3> QED BY <3>2, <3>3
  <2> QED BY <1>1, <1>2, <2>2, <2>3, AgesKept DEF e
<1>11. ASSUME NEW n \in Ports, NEW mode \in Modes, SetMode(n, mode) PROVE AgesOK'
  <2>1. PICK ok \in BOOLEAN :
           port' = [port EXCEPT ![n] = port_set_ip_mode(port[n], mode, ok)]
    BY <1>11 DEF SetMode
  <2>2. /\ now' = now /\ t_addr' = t_addr /\ stage' = stage
        /\ bare' = [bare EXCEPT ![n] = 0] /\ asking' = [asking EXCEPT ![n] = 0]
    BY <1>11 DEF SetMode
  <2>3. ASSUME NEW k \in Ports
        PROVE  Waits(port'[k], bare'[k], asking'[k], Since(port'[k].start), e)
    <3>1. CASE k = n
      <4> DEFINE r == port_set_ip_mode(port[n], mode, ok)
      <4>1. port'[n] = r /\ bare'[n] = 0 /\ asking'[n] = 0
        BY <1>1, <2>1, <2>2
      <4>2. Waits(r, 0, 0, Since(r.start), e)
        BY <1>1, <1>3, SetModeWaits
      <4> HIDE DEF r
      <4> QED BY <3>1, <4>1, <4>2
    <3>2. CASE k # n
      BY <1>1, <1>2, <2>1, <2>2, <3>2
    <3> QED BY <3>1, <3>2
  <2> QED BY <1>1, <1>2, <2>2, <2>3, AgesKept DEF e
<1>12. ASSUME NEW d \in {0, 1}, NextPass(d) PROVE AgesOK'
  <2> DEFINE x == (now + d) % CLOCK
  <2>1. /\ stage = "console" /\ stage' = "net" /\ now' = x /\ port' = port /\ t_addr' = t_addr
        /\ bare' = [n \in Ports |-> IF Bare(port[n]) /\ d = 1 THEN Older(bare[n]) ELSE bare[n]]
        /\ asking' = [n \in Ports |-> IF d = 1 THEN Older(asking[n]) ELSE asking[n]]
    BY <1>12 DEF NextPass
  <2>2. x \in 0 .. CLOCK - 1
    BY <1>1, Timers
  <2>3. e < ADDR_POLL
    BY <1>2, <2>1
  <2>4. (x - t_addr) % CLOCK = e + d
    <3>1. (now - t_addr) % CLOCK = e
      BY DEF e, Since
    <3>2. e + d < CLOCK
      BY <1>2, <2>3, Timers
    <3>3. ((now - t_addr) % CLOCK) + d < CLOCK
      BY <3>1, <3>2
    <3> QED BY <1>1, <3>1, <3>3, Aging, Timers
  <2>5. ASSUME NEW n \in Ports
        PROVE  Waits(port[n], bare'[n], asking'[n], (x - port[n].start) % CLOCK, e + d)
    <3> DEFINE s == Since(port[n].start)
               t == (x - port[n].start) % CLOCK
               c == IF Bare(port[n]) /\ d = 1 THEN Older(bare[n]) ELSE bare[n]
               f == IF d = 1 THEN Older(asking[n]) ELSE asking[n]
    <3>1. port[n].start \in 0 .. CLOCK - 1
      BY <1>1 DEF Record
    <3>2. s \in 0 .. CLOCK - 1 /\ t \in Nat
      BY <1>3, <2>2, <3>1, Timers
    <3>3. s + d < CLOCK => t = s + d
      <4>1. s = (now - port[n].start) % CLOCK
        BY DEF Since
      <4>2. ASSUME ((now - port[n].start) % CLOCK) + d < CLOCK
            PROVE  t = ((now - port[n].start) % CLOCK) + d
        BY <1>1, <3>1, <4>2, Aging, Timers
      <4> HIDE DEF s, t
      <4> QED BY <4>1, <4>2
    <3>4. \A g \in Nat : Older(g) \in Nat /\ Older(g) <= g + 1
      BY Timers DEF Older
    <3>5. c \in Nat /\ c <= bare[n] + d /\ (~Bare(port[n]) => c = bare[n])
      <4>1. bare[n] \in Nat /\ Older(bare[n]) \in Nat /\ Older(bare[n]) <= bare[n] + 1
        BY <1>3, <3>4
      <4>2. CASE Bare(port[n]) /\ d = 1
        BY <4>1, <4>2
      <4>3. CASE ~(Bare(port[n]) /\ d = 1)
        BY <4>1, <4>3
      <4> QED BY <4>2, <4>3
    <3>6. f \in Nat /\ f <= asking[n] + d
      BY <1>3, <3>4
    <3>7. bare'[n] = c /\ asking'[n] = f
      BY <2>1
    <3>8. Waits(port[n], bare[n], asking[n], s, e)
      BY <1>2
    <3> HIDE DEF s, t, c, f
    <3>9. Waits(port[n], c, f, t, e + d)
      BY <1>3, <2>3, <3>2, <3>3, <3>5, <3>6, <3>8, PassWaits
    <3> QED BY <3>7, <3>9 DEF t
  <2>6. e + d <= ADDR_POLL
    BY <1>2, <2>3, Timers
  <2> HIDE DEF x
  <2>7. Polled'
    BY <2>1, <2>4, <2>6 DEF Polled, Since
  <2>8. \A n \in Ports :
           Waits(port[n], bare[n], asking[n], Since(port[n].start), Since(t_addr))'
    BY <2>1, <2>4, <2>5 DEF Since, Waits, Bare
  <2> QED BY <2>7, <2>8 DEF AgesOK
<1> QED BY <1>4, <1>5, <1>6, <1>7, <1>8, <1>9, <1>10, <1>11, <1>12 DEF Next

LEMMA AgesBegin == Init => AgesOK
<1> SUFFICES ASSUME Init PROVE AgesOK
  OBVIOUS
<1>1. now = 0 /\ stage = "link" /\ t_addr = (0 - ADDR_POLL) % CLOCK
  BY DEF Init
<1>2. Since(t_addr) = ADDR_POLL
  <2>1. (0 - ADDR_POLL) % CLOCK = CLOCK - ADDR_POLL
    BY Timers
  <2>2. (0 - (CLOCK - ADDR_POLL)) % CLOCK = ADDR_POLL
    BY Timers
  <2> QED BY <1>1, <2>1, <2>2 DEF Since
<1>3. Polled
  BY <1>1, <1>2, Timers DEF Polled
<1>4. ASSUME NEW n \in Ports
      PROVE  Waits(port[n], bare[n], asking[n], Since(port[n].start), Since(t_addr))
  <2>1. /\ ~port[n].failed /\ ~port[n].link_up /\ port[n].state # "DHCP_WAIT" /\ bare[n] = 0
    BY DEF Init, Booted
  <2> QED BY <2>1 DEF Waits
<1> QED BY <1>3, <1>4 DEF AgesOK

\* A port in mode auto has its address, and a client that could not be started is
\* tried again, within the timeout and two polls of its link coming up: for any timers
\* whose sum the clock can tell, any order of flaps, leases, losses, commands and
\* failed starts, and across the wrap of the clock.
THEOREM WaitsEnd == Spec => []AddressInTime
<1>1. IInv /\ AgesOK /\ [Next]_vars => AgesOK'
  BY AgesStep
<1>2. IInv /\ AgesOK => AddressInTime
  <2> SUFFICES ASSUME IInv, AgesOK, NEW n \in Ports
               PROVE  /\ port[n].mode = "auto" /\ port[n].state # "DHCP" => bare[n] <= Patience
                      /\ port[n].state = "NONE" => bare[n] <= Patience \/ asking[n] <= Patience
    BY DEF AddressInTime, FallbackInTime, RetryInTime
  <2> DEFINE e == Since(t_addr)
             s == Since(port[n].start)
  <2>1. port[n] \in Record /\ StateOK(port[n]) /\ port[n].n = n
    BY DEF IInv, PortsOK
  <2>2. bare[n] \in Nat /\ asking[n] \in Nat
    BY Timers DEF IInv, BoundOK
  <2>3. s \in Nat /\ e \in Nat /\ e <= ADDR_POLL
    BY <2>1, SinceNat, Timers DEF IInv, ClockOK, Record, AgesOK, Polled
  <2>4. Waits(port[n], bare[n], asking[n], s, e)
    BY DEF AgesOK
  <2> HIDE DEF e, s
  <2>5. /\ port[n].failed => port[n].mode = "dhcp"
        /\ ~Bare(port[n]) => bare[n] = 0
        /\ port[n].state = "NONE" /\ port[n].link_up =>
             \/ bare[n] <= e
             \/ /\ port[n].failed /\ s <= DHCP_TIMEOUT + e
                /\ bare[n] <= s + ADDR_POLL \/ asking[n] <= s
        /\ port[n].state = "DHCP_WAIT" /\ port[n].mode # "dhcp" =>
             s <= DHCP_TIMEOUT + e /\ bare[n] <= s + ADDR_POLL
    BY <2>4 DEF Waits
  <2>6. /\ 0 <= Patience /\ (bare[n] <= e => bare[n] <= Patience)
        /\ s <= DHCP_TIMEOUT + e /\ bare[n] <= s + ADDR_POLL => bare[n] <= Patience
        /\ s <= DHCP_TIMEOUT + e /\ asking[n] <= s => asking[n] <= Patience
    BY <2>2, <2>3, Timers DEF Patience
  <2>7. CASE ~Bare(port[n])
    BY <2>5, <2>6, <2>7
  <2>8. CASE Bare(port[n])
    <3>1. port[n].link_up /\ port[n].addr = None
      BY <2>8 DEF Bare
    <3>2. port[n].state # "STATIC"
      BY <2>1, <3>1, Consts DEF StateOK
    <3>3. port[n].state \in {"NONE", "DHCP_WAIT", "DHCP"}
      BY <2>1, <3>2 DEF Record
    <3> QED BY <2>5, <2>6, <3>1, <3>3
  <2> QED BY <2>7, <2>8
<1> QED BY <1>1, <1>2, AgesBegin, Invariant, PTL DEF Spec

-----------------------------------------------------------------------------
(* The loopback tests (Loopback), which start and stop on the ports' back. *)

Several == LoopbackAssumption /\ IsFiniteSet(Ports) /\ Ports # {}

LoopRecord ==
    [mode : Tests \cup {"off"}, gens : SUBSET [from : Ports, to : Ports, ip : Addresses],
     self_port : Ports, autostarted : BOOLEAN, auto_done : BOOLEAN, all_up : BOOLEAN,
     all_up_since : 0 .. CLOCK - 1]

Good(P) == P \in [Ports -> Record] /\ \A n \in Ports : StateOK(P[n]) /\ P[n].n = n

\* A generator's address is one that port t answers for.
Reaches(ip, t) ==
    /\ ip # None
    /\ ip = t.programmed \/ (ip \in Leases /\ t.mode # "static")

\* A test has generators, and they send to ports of the test.
Addressed(l, P) ==
    /\ l.mode = "off" <=> l.gens = {}
    /\ \A g \in l.gens : g.to \in involved(l) /\ Reaches(g.ip, P[g.to])

\* Until something was started, the wait of the automatic start is a true time.
CalmOK ==
    ~lb.auto_done =>
        /\ lb.mode = "off"
        /\ lb.all_up => calm >= AUTOSTART \/ calm >= Since(lb.all_up_since)

LoopInv ==
    /\ IInv /\ lb \in LoopRecord /\ calm \in 0 .. AUTOSTART
    /\ Addressed(lb, port)
    /\ CalmOK

LEMMA Few ==
    ASSUME Several
    PROVE  /\ AUTOSTART \in Nat /\ AUTOSTART < CLOCK
           /\ 0 \in Ports /\ \A p \in Ports : peer_of(p) \in Ports
<1> DEFINE N == Cardinality(Ports)
<1>1. N \in Nat /\ Ports = 0 .. N - 1 /\ Ports # {}
  BY FS_CardinalityType DEF Several, LoopbackAssumption
<1>2. peer_of(0) = (0 + 1) % N /\ \A p \in Ports : peer_of(p) = (p + 1) % N
  BY DEF peer_of
<1> HIDE DEF N
<1>3. N > 0 /\ 0 \in Ports
  BY <1>1
<1>4. ASSUME NEW p \in 0 .. N - 1 PROVE (p + 1) % N \in 0 .. N - 1
  BY <1>1, <1>3
<1> QED BY <1>1, <1>2, <1>3, <1>4 DEF Several, LoopbackAssumption

\* A port's own address is one it answers for, or will at its next poll.
LEMMA OwnAddress ==
    ASSUME NEW p, PortOK(p), p.addr # None
    PROVE  Reaches(p.addr, p)
<1>1. p.addr \in Addresses /\ p.state \in {"NONE", "DHCP_WAIT", "DHCP", "STATIC"}
  BY DEF PortOK, Record
<1>2. p.addr \notin Statics => p.addr \in Leases
  BY <1>1 DEF Addresses
<1> QED BY <1>1, <1>2 DEF PortOK, StateOK, Reaches

\* An address poll takes no address of a test away, other than a lease.
LEMMA PollReaches ==
    ASSUME NEW o, PortOK(o), NEW ok \in BOOLEAN, now \in 0 .. CLOCK - 1,
           NEW ip, Reaches(ip, o)
    PROVE  Reaches(ip, port_addr_poll(o, ok))
<1> DEFINE r == port_addr_poll(o, ok)
<1>1. PortOK(r) /\ r.n = o.n /\ r.mode = o.mode /\ (o.state = "STATIC" => r.state = "STATIC")
  BY PollOK, PollMakes
<1> HIDE DEF r
<1>2. ip # None /\ (ip = o.programmed \/ (ip \in Leases /\ o.mode # "static"))
  BY DEF Reaches
<1>3. CASE ip \in Leases /\ o.mode # "static"
  BY <1>1, <1>2, <1>3 DEF Reaches, r
<1>4. CASE ip = o.programmed
  <2>1. o.state \in {"NONE", "DHCP_WAIT", "DHCP", "STATIC"} /\ o.programmed \in Addresses
    BY DEF PortOK, Record
  <2>2. CASE o.state = "STATIC"
    <3>1. r.programmed = static_address[r.n] /\ o.programmed = static_address[o.n]
      BY <1>1, <2>2 DEF PortOK, StateOK
    <3> QED BY <1>1, <1>2, <1>4, <3>1 DEF Reaches, r
  <2>3. CASE o.state = "DHCP"
    <3>1. o.programmed \in Leases /\ o.mode # "static"
      BY <1>2, <1>4, <2>1, <2>3 DEF PortOK, StateOK, Addresses
    <3> QED BY <1>3, <1>4, <3>1
  <2>4. CASE o.state \in {"NONE", "DHCP_WAIT"}
    BY <1>2, <1>4, <2>4 DEF PortOK, StateOK
  <2> QED BY <2>1, <2>2, <2>3, <2>4
<1> QED BY <1>2, <1>3, <1>4

\* A test that is started has an address for each port it sends to.
LEMMA EnsuredOK ==
    ASSUME NEW P, Good(P), NEW test \in Tests, NEW l \in LoopRecord
    PROVE  /\ Good(Ensured(test, l, P))
           /\ Refused(test, l, P) = {} =>
                \A p \in Ports : (test = "self" => p = l.self_port) =>
                    LET q == Ensured(test, l, P)[p]
                    IN  q.addr \in Addresses /\ Reaches(q.addr, q)
<1> DEFINE Q == Ensured(test, l, P)
<1>1. ASSUME NEW n \in Ports
      PROVE  PortOK(Q[n]) /\ Q[n].n = n /\ (Q[n] = P[n] \/ Q[n] = port_ensure_address(P[n]))
  <2>1. PortOK(P[n]) /\ P[n].n = n
    BY DEF Good, PortOK
  <2>2. Q[n] = P[n] \/ Q[n] = port_ensure_address(P[n])
    BY DEF Ensured
  <2> HIDE DEF Q
  <2> QED BY <2>1, <2>2, EnsureOK
<1>2. Good(Q)
  BY <1>1 DEF Good, PortOK, Ensured
<1>3. ASSUME Refused(test, l, P) = {}, NEW p \in Ports, test = "self" => p = l.self_port
      PROVE  Q[p].addr \in Addresses /\ Reaches(Q[p].addr, Q[p])
  <2>1. Q[p] = port_ensure_address(P[p])
    BY <1>3 DEF Ensured
  <2>2. Addressable(P[p])
    BY <1>3 DEF Refused
  <2>3. port_ensure_address(P[p]).addr # None
    <3>1. PortOK(P[p]) /\ P[p].n = p
      BY DEF Good, PortOK
    <3>2. CASE P[p].addr # None
      BY <3>2 DEF port_ensure_address
    <3>3. CASE P[p].addr = None
      <4>1. P[p].mode # "dhcp"
        BY <2>2, <3>3 DEF Addressable
      <4> DEFINE s == stop_dhcp(P[p])
      <4>2. s \in Record /\ s.n = p
        BY <3>1, StopOK
      <4>3. port_ensure_address(P[p]) = set_static_address(s)
        BY <3>3, <4>1 DEF port_ensure_address
      <4> HIDE DEF s
      <4>4. set_static_address(s).addr = static_address[p]
        BY <4>2 DEF set_static_address, sync_zircon_ip, Record
      <4> QED BY <4>3, <4>4, Consts
    <3> QED BY <3>2, <3>3
  <2> HIDE DEF Q
  <2>4. PortOK(Q[p]) /\ Q[p].addr # None
    BY <1>1, <2>1, <2>3
  <2>5. Q[p].addr \in Addresses
    BY <2>4 DEF PortOK, Record
  <2> QED BY <2>4, <2>5, OwnAddress
<1> QED BY <1>2, <1>3

LEMMA OffOK ==
    ASSUME NEW l \in LoopRecord, NEW P
    PROVE  /\ Off(l) \in LoopRecord /\ Addressed(Off(l), P) /\ Off(l).mode = "off"
           /\ Off(l).auto_done = l.auto_done
<1> DEFINE k == Off(l)
<1>1. k \in LoopRecord /\ k.mode = "off" /\ k.gens = {} /\ k.auto_done = l.auto_done
  BY DEF Off, LoopRecord
<1> HIDE DEF k
<1> QED BY <1>1 DEF Addressed, k

LEMMA StartsAddressed ==
    ASSUME Several, NEW P, Good(P), NEW test \in Tests, NEW auto \in BOOLEAN,
           NEW l \in LoopRecord, lb_start(test, auto, l, P)
    PROVE  /\ Good(port') /\ lb' \in LoopRecord /\ Addressed(lb', port')
           /\ lb'.auto_done = l.auto_done
<1> DEFINE Q == Ensured(test, l, P)
           G == Generators(test, l, Q)
           k == [l EXCEPT !.mode = test, !.autostarted = auto, !.gens = G]
<1>1. Good(Q) /\ port' = Q
  BY EnsuredOK DEF lb_start
<1>2. CASE Refused(test, l, P) # {}
  <2>1. lb' = Off(l)
    BY <1>2 DEF lb_start
  <2> QED BY <1>1, <2>1, OffOK
<1>3. CASE Refused(test, l, P) = {}
  <2>1. lb' = k
    BY <1>3 DEF lb_start
  <2>2. l.self_port \in Ports
    BY DEF LoopRecord
  <2>3. \A p \in Ports : (test = "self" => p = l.self_port) =>
           Q[p].addr \in Addresses /\ Reaches(Q[p].addr, Q[p])
    BY <1>3, EnsuredOK
  <2> HIDE DEF Q
  <2>4. /\ G \in SUBSET [from : Ports, to : Ports, ip : Addresses] /\ G # {}
        /\ \A g \in G : Reaches(g.ip, Q[g.to])
        /\ test = "echo" => \A g \in G : g.to = peer_of(0)
        /\ test = "self" => \A g \in G : g.to = l.self_port
    <3>1. CASE test = "cross"
      <4>1. G = {Gen(p, peer_of(p), Q) : p \in Ports}
        BY <3>1 DEF Generators
      <4>2. ASSUME NEW p \in Ports
            PROVE  /\ Gen(p, peer_of(p), Q) \in [from : Ports, to : Ports, ip : Addresses]
                   /\ LET g == Gen(p, peer_of(p), Q) IN Reaches(g.ip, Q[g.to])
        <5>1. peer_of(p) \in Ports
          BY Few
        <5> QED BY <2>3, <3>1, <5>1 DEF Gen
      <4>3. 0 \in Ports
        BY Few
      <4> HIDE DEF G
      <4> QED BY <3>1, <4>1, <4>2, <4>3
    <3>2. CASE test = "echo"
      <4>1. G = {Gen(0, peer_of(0), Q)}
        BY <3>2 DEF Generators
      <4>2. 0 \in Ports /\ peer_of(0) \in Ports
        BY Few
      <4> HIDE DEF G
      <4> QED BY <2>3, <3>2, <4>1, <4>2 DEF Gen
    <3>3. CASE test = "self"
      <4>1. G = {Gen(l.self_port, l.self_port, Q)}
        BY <3>3 DEF Generators
      <4> HIDE DEF G
      <4> QED BY <2>2, <2>3, <3>3, <4>1 DEF Gen
    <3> QED BY <3>1, <3>2, <3>3 DEF Tests
  <2> HIDE DEF G
  <2>5. /\ k \in LoopRecord /\ k.mode = test /\ k.gens = G /\ k.self_port = l.self_port
        /\ k.auto_done = l.auto_done
    BY <2>4 DEF LoopRecord
  <2> HIDE DEF k
  <2>6. \A g \in G : g.to \in involved(k)
    <3>1. CASE test = "cross"
      <4>1. involved(k) = Ports
        BY <2>5, <3>1 DEF involved
      <4> QED BY <2>4, <4>1
    <3>2. CASE test = "echo"
      <4>1. involved(k) = {0, peer_of(0)}
        BY <2>5, <3>2 DEF involved
      <4> QED BY <2>4, <3>2, <4>1
    <3>3. CASE test = "self"
      <4>1. involved(k) = {k.self_port}
        BY <2>5, <3>3 DEF involved
      <4> QED BY <2>4, <2>5, <3>3, <4>1
    <3> QED BY <3>1, <3>2, <3>3 DEF Tests
  <2>7. test # "off"
    BY DEF Tests
  <2>8. Addressed(k, Q)
    BY <2>4, <2>5, <2>6, <2>7 DEF Addressed
  <2> QED BY <1>1, <2>1, <2>5, <2>8
<1> QED BY <1>2, <1>3

\* A step of the tests or the console that leaves the ports good.
LEMMA TestStepOK ==
    ASSUME IInv, Good(port'), Watch(port', {}), stage' \in Stages, now' = now,
           t_link' = t_link, t_addr' = t_addr, phy' = phy,
           budget' \in [commands : 0 .. MaxCommands, flaps : 0 .. MaxFlaps, losses : 0 .. MaxLosses]
    PROVE  IInv'
<1>1. ClockOK'
  BY DEF IInv, ClockOK
<1>2. BoundOK'
  BY WatchOK DEF IInv, BoundOK
<1>3. PortsOK'
  BY PortsStep DEF Good
<1> QED BY <1>1, <1>2, <1>3 DEF IInv

\* A test that goes on is addressed as before.
LEMMA StillAddressed ==
    ASSUME NEW l, NEW P, NEW Q, Addressed(l, P), NEW T, T = involved(l),
           \A n \in T : \A ip : Reaches(ip, P[n]) => Reaches(ip, Q[n])
    PROVE  Addressed(l, Q)
  BY DEF Addressed

\* The commands of a running test turn the automatic start off; so it is still on
\* only if nothing was ever started.
LEMMA CommandOK ==
    ASSUME Several, LoopInv, Command
    PROVE  LoopInv'
<1>1. /\ Good(port) /\ lb \in LoopRecord /\ Addressed(lb, port) /\ now \in 0 .. CLOCK - 1
      /\ budget \in [commands : 0 .. MaxCommands, flaps : 0 .. MaxFlaps, losses : 0 .. MaxLosses]
      /\ lb.auto_done \in BOOLEAN /\ lb.mode \in Tests \cup {"off"}
  BY DEF LoopInv, IInv, PortsOK, ClockOK, BoundOK, Good, LoopRecord
<1>2. ~lb.auto_done => lb.mode = "off"
  BY DEF LoopInv, CalmOK
<1> DEFINE l == [lb EXCEPT !.auto_done = TRUE]
<1>3. l \in LoopRecord /\ l.auto_done = TRUE
  BY <1>1 DEF LoopRecord
<1> HIDE DEF l
<1> DEFINE Done == /\ Good(port') /\ lb' \in LoopRecord /\ Addressed(lb', port')
                   /\ lb' = lb \/ lb'.auto_done = TRUE
<1>4. ASSUME NEW test \in {"cross", "echo"}, toggle_test(test) PROVE Done
  <2>1. test \in Tests
    BY DEF Tests
  <2>2. \/ lb' = Off(l) /\ UNCHANGED port
        \/ lb_start(test, FALSE, l, port)
    BY <1>4 DEF toggle_test, l
  <2> QED BY <1>1, <1>3, <2>1, <2>2, OffOK, StartsAddressed DEF Good
<1>5. ASSUME NEW p \in Ports, self_loop_cmd(p) PROVE Done
  <2> DEFINE k == [l EXCEPT !.self_port = p]
  <2>1. k \in LoopRecord /\ k.auto_done = TRUE /\ "self" \in Tests
    BY <1>3 DEF LoopRecord, Tests
  <2>2. \/ lb' = Off(l) /\ UNCHANGED port
        \/ lb_start("self", FALSE, k, port)
    BY <1>5 DEF self_loop_cmd, l
  <2> HIDE DEF k
  <2> QED BY <1>1, <1>3, <2>1, <2>2, OffOK, StartsAddressed DEF Good
<1>6. ASSUME lb_set_len PROVE Done
  <2>1. lb.mode \in Tests /\ lb_start(lb.mode, FALSE, lb, port) /\ lb.auto_done = TRUE
    BY <1>1, <1>2, <1>6 DEF lb_set_len
  <2> QED BY <1>1, <2>1, StartsAddressed
<1>7. ASSUME NEW n \in Ports, NEW mode \in Modes, ip_mode_cmd(n, mode) PROVE Done
  <2>1. PICK ok \in BOOLEAN :
          LET P == [port EXCEPT ![n] = port_set_ip_mode(port[n], mode, ok)]
          IN  IF n \notin involved(lb) THEN port' = P /\ UNCHANGED lb
              ELSE IF mode = "static" THEN lb_start(lb.mode, FALSE, Off(lb), P)
              ELSE port' = P /\ lb' = Off(lb)
    BY <1>7 DEF ip_mode_cmd
  <2> DEFINE r == port_set_ip_mode(port[n], mode, ok)
             P == [port EXCEPT ![n] = r]
  <2>2. PortOK(r) /\ r.n = n
    BY <1>1, SetModeOK DEF Good, PortOK
  <2> HIDE DEF r
  <2>3. Good(P) /\ \A q \in Ports : q # n => P[q] = port[q]
    BY <1>1, <2>2 DEF Good, PortOK
  <2>4. \/ n \notin involved(lb) /\ port' = P /\ lb' = lb
        \/ n \in involved(lb) /\ lb_start(lb.mode, FALSE, Off(lb), P)
        \/ n \in involved(lb) /\ port' = P /\ lb' = Off(lb)
    BY <2>1 DEF r
  <2> HIDE DEF P
  <2>5. CASE n \notin involved(lb) /\ port' = P /\ lb' = lb
    <3>1. involved(lb) \subseteq Ports
      BY <1>1, Few DEF involved, LoopRecord, Tests
    <3>2. Addressed(lb, P)
      <4>1. \A q \in involved(lb) : P[q] = port[q]
        BY <2>3, <2>5, <3>1
      <4> QED BY <1>1, <4>1, StillAddressed
    <3> QED BY <1>1, <2>3, <2>5, <3>2
  <2>6. ASSUME n \in involved(lb) PROVE lb.mode \in Tests /\ lb.auto_done = TRUE
    BY <1>1, <1>2, <2>6 DEF involved
  <2>7. CASE n \in involved(lb) /\ lb_start(lb.mode, FALSE, Off(lb), P)
    <3>1. Off(lb) \in LoopRecord /\ Off(lb).auto_done = TRUE
      BY <1>1, <2>6, <2>7, OffOK
    <3> QED BY <2>3, <2>6, <2>7, <3>1, StartsAddressed
  <2>8. CASE n \in involved(lb) /\ port' = P /\ lb' = Off(lb)
    BY <1>1, <2>3, <2>6, <2>8, OffOK
  <2> QED BY <2>4, <2>5, <2>7, <2>8
<1>8. Done
  BY <1>4, <1>5, <1>6, <1>7 DEF Command
<1> HIDE DEF Done
<1>9. /\ budget.commands > 0 /\ budget' = [budget EXCEPT !.commands = @ - 1]
      /\ stage' = "net" /\ now' = now /\ Watch(port', {}) /\ phy' = phy
      /\ t_link' = t_link /\ t_addr' = t_addr /\ calm' = calm
  BY DEF Command
<1>10. budget' \in [commands : 0 .. MaxCommands, flaps : 0 .. MaxFlaps, losses : 0 .. MaxLosses]
  BY <1>1, <1>9, PortAssumption
<1>11. IInv'
  BY <1>8, <1>9, <1>10, TestStepOK DEF LoopInv, Stages, Done
<1>12. CalmOK'
  <2>1. CASE lb' = lb
    BY <1>9, <2>1 DEF LoopInv, CalmOK, Since
  <2>2. CASE lb'.auto_done = TRUE
    BY <2>2 DEF CalmOK
  <2> QED BY <1>8, <2>1, <2>2 DEF Done
<1> QED BY <1>8, <1>9, <1>11, <1>12 DEF LoopInv, Done

\* Until its wait is over, autostart_poll leaves the ports alone.
LEMMA AutostartOK ==
    ASSUME Several, LoopInv, autostart_poll, calm' = IF Ready THEN calm ELSE 0, now' = now
    PROVE  /\ Good(port') /\ lb' \in LoopRecord /\ Addressed(lb', port') /\ CalmOK'
           /\ lb.mode = "off" /\ lb'.mode # "off" => Ready /\ calm >= AUTOSTART
<1> DEFINE up == AllUp(lb)
           go == [up EXCEPT !.auto_done = TRUE]
<1>1. /\ Good(port) /\ lb \in LoopRecord /\ Addressed(lb, port) /\ now \in 0 .. CLOCK - 1
      /\ calm \in 0 .. AUTOSTART /\ AUTOSTART \in Nat /\ lb.auto_done \in BOOLEAN
      /\ lb.all_up \in BOOLEAN /\ lb.all_up_since \in 0 .. CLOCK - 1
  BY Few DEF LoopInv, IInv, PortsOK, ClockOK, Good, LoopRecord
<1>2. ~lb.auto_done =>
        /\ lb.mode = "off"
        /\ lb.all_up => calm >= AUTOSTART \/ calm >= Since(lb.all_up_since)
  BY DEF LoopInv, CalmOK
<1>3. /\ up \in LoopRecord /\ up.mode = lb.mode /\ up.gens = lb.gens /\ up.all_up
      /\ up.self_port = lb.self_port /\ up.auto_done = lb.auto_done
      /\ up.all_up_since = IF lb.all_up THEN lb.all_up_since ELSE now
  BY <1>1 DEF AllUp, LoopRecord
<1>4. ~lb.auto_done => calm >= AUTOSTART \/ calm >= Since(up.all_up_since)
  <2>1. Since(now) = 0
    BY <1>1, SinceNat
  <2> QED BY <1>1, <1>2, <1>3, <2>1
<1>5. /\ go \in LoopRecord /\ go.auto_done = TRUE
  BY <1>3 DEF LoopRecord
<1>6. \/ lb.auto_done /\ port' = port /\ lb' = lb
      \/ lb.mode # "off" /\ port' = port /\ lb' = lb
      \/ lb' = [lb EXCEPT !.auto_done = TRUE] /\ port' = port
      \/ ~lb.auto_done /\ lb.mode = "off" /\ lb' = [lb EXCEPT !.all_up = FALSE] /\ port' = port
      \/ ~lb.auto_done /\ lb.mode = "off" /\ Ready /\ lb' = up /\ port' = port
      \/ /\ ~lb.auto_done /\ lb.mode = "off" /\ Ready /\ ~(Since(up.all_up_since) < AUTOSTART)
         /\ lb_start("cross", TRUE, go, port)
  BY DEF autostart_poll, up, go
<1> HIDE DEF up, go
<1>7. CASE (lb.auto_done \/ lb.mode # "off") /\ port' = port /\ lb' = lb
  <2>1. lb'.auto_done = TRUE
    BY <1>1, <1>2, <1>7
  <2> QED BY <1>1, <1>7, <2>1 DEF CalmOK
<1>8. CASE lb' = [lb EXCEPT !.auto_done = TRUE] /\ port' = port
  <2>1. /\ lb' \in LoopRecord /\ lb'.auto_done = TRUE /\ lb'.mode = lb.mode
        /\ lb'.gens = lb.gens /\ lb'.self_port = lb.self_port
    BY <1>1, <1>8 DEF LoopRecord
  <2>2. involved(lb') = involved(lb)
    BY <2>1 DEF involved
  <2>3. Addressed(lb', port)
    BY <1>1, <2>1, <2>2 DEF Addressed
  <2> QED BY <1>1, <1>8, <2>1, <2>3 DEF CalmOK
<1>9. CASE ~lb.auto_done /\ lb.mode = "off" /\ lb' = [lb EXCEPT !.all_up = FALSE] /\ port' = port
  <2>1. /\ lb' \in LoopRecord /\ lb'.all_up = FALSE /\ lb'.mode = "off"
        /\ lb'.gens = lb.gens /\ lb.gens = {}
    BY <1>1, <1>9 DEF LoopRecord, Addressed
  <2>2. Addressed(lb', port)
    BY <2>1 DEF Addressed
  <2> QED BY <1>1, <1>9, <2>1, <2>2 DEF CalmOK
<1>10. CASE ~lb.auto_done /\ lb.mode = "off" /\ Ready /\ lb' = up /\ port' = port
  <2>1. lb.gens = {} /\ Addressed(up, port)
    BY <1>1, <1>3, <1>10 DEF Addressed
  <2>2. CalmOK'
    <3>1. (now' - lb'.all_up_since) % CLOCK = (now - up.all_up_since) % CLOCK
      BY <1>10
    <3> QED BY <1>4, <1>3, <1>10, <3>1 DEF CalmOK, Since
  <2> QED BY <1>1, <1>3, <1>10, <2>1, <2>2
<1>11. CASE /\ ~lb.auto_done /\ lb.mode = "off" /\ Ready /\ ~(Since(up.all_up_since) < AUTOSTART)
            /\ lb_start("cross", TRUE, go, port)
  <2>1. "cross" \in Tests
    BY DEF Tests
  <2>2. Good(port') /\ lb' \in LoopRecord /\ Addressed(lb', port') /\ lb'.auto_done = TRUE
    BY <1>1, <1>5, <1>11, <2>1, StartsAddressed
  <2>3. Since(up.all_up_since) \in Nat
    BY <1>1, <1>3, SinceNat
  <2>4. calm >= AUTOSTART
    BY <1>1, <1>4, <1>11, <2>3
  <2> QED BY <1>11, <2>2, <2>4 DEF CalmOK
<1> QED BY <1>6, <1>7, <1>8, <1>9, <1>10, <1>11

LEMMA LbPollOK ==
    ASSUME Several, LoopInv, LbPoll
    PROVE  /\ LoopInv'
           /\ lb.mode = "off" /\ lb'.mode # "off" => Ready /\ calm >= AUTOSTART
<1>1. /\ Good(port) /\ lb \in LoopRecord /\ calm \in 0 .. AUTOSTART /\ AUTOSTART \in Nat
      /\ budget \in [commands : 0 .. MaxCommands, flaps : 0 .. MaxFlaps, losses : 0 .. MaxLosses]
  BY Few DEF LoopInv, IInv, PortsOK, BoundOK, Good
<1>2. /\ stage' = "console" /\ now' = now /\ Watch(port', {}) /\ phy' = phy
      /\ t_link' = t_link /\ t_addr' = t_addr /\ budget' = budget
      /\ calm' = IF Ready THEN calm ELSE 0
  BY DEF LbPoll
<1>3. /\ Good(port') /\ lb' \in LoopRecord /\ Addressed(lb', port') /\ CalmOK'
      /\ lb.mode = "off" /\ lb'.mode # "off" => Ready /\ calm >= AUTOSTART
  <2>1. CASE autostart_poll
    BY <1>2, <2>1, AutostartOK
  <2>2. CASE tick
    <3>1. lb.mode # "off" /\ lb' = Off(lb) /\ port' = port
      BY <2>2 DEF tick
    <3>2. lb.auto_done = TRUE
      BY <1>1, <3>1 DEF LoopInv, CalmOK, LoopRecord
    <3>3. lb' \in LoopRecord /\ Addressed(lb', port') /\ lb'.auto_done = TRUE
      BY <1>1, <3>1, <3>2, OffOK
    <3> QED BY <1>1, <3>1, <3>3 DEF CalmOK
  <2> QED BY <2>1, <2>2 DEF LbPoll
<1>4. IInv'
  BY <1>1, <1>2, <1>3, TestStepOK DEF LoopInv, Stages
<1>5. calm' \in 0 .. AUTOSTART
  BY <1>1, <1>2
<1> QED BY <1>3, <1>4, <1>5 DEF LoopInv

\* The steps of Port that the tests do not see: what a test is addressed by stays.
LEMMA BesideOK ==
    ASSUME LoopInv, IInv', UNCHANGED <<lb, calm>>, now' = now,
           \A n \in Ports : \A ip : Reaches(ip, port[n]) => Reaches(ip, port'[n])
    PROVE  LoopInv'
<1>1. lb \in LoopRecord /\ Addressed(lb, port) /\ lb' = lb /\ calm' = calm /\ calm \in 0 .. AUTOSTART
  BY DEF LoopInv
<1>2. Addressed(lb, port')
  <2>1. \A g \in lb.gens : g.to \in Ports
    BY <1>1 DEF LoopRecord
  <2> QED BY <1>1, <2>1 DEF Addressed
<1>3. CalmOK'
  BY <1>1 DEF LoopInv, CalmOK, Since
<1> QED BY <1>1, <1>2, <1>3 DEF LoopInv

LEMMA LoopPassOK ==
    ASSUME Several, LoopInv, NEW d \in {0, 1}, LNextPass(d)
    PROVE  LoopInv'
<1>1. /\ NextPass(d) /\ lb' = lb /\ port' = port /\ now' = (now + d) % CLOCK
      /\ calm' = IF d = 1 /\ calm < AUTOSTART THEN calm + 1 ELSE calm
  BY DEF LNextPass, NextPass
<1>2. /\ lb \in LoopRecord /\ Addressed(lb, port) /\ calm \in 0 .. AUTOSTART /\ AUTOSTART \in Nat
      /\ lb.all_up_since \in 0 .. CLOCK - 1 /\ now \in 0 .. CLOCK - 1 /\ CLOCK \in Nat \ {0}
  BY Few, Timers DEF LoopInv, IInv, ClockOK, LoopRecord
<1>3. IInv'
  BY <1>1, NextPassOK DEF LoopInv
<1>4. calm' \in 0 .. AUTOSTART /\ (calm >= AUTOSTART => calm' >= AUTOSTART)
  BY <1>1, <1>2
<1> DEFINE s == (now - lb.all_up_since) % CLOCK
           t == (((now + d) % CLOCK) - lb.all_up_since) % CLOCK
<1>5. s \in Nat /\ t \in Nat /\ t <= s + d
  <2>1. ASSUME NEW C \in Nat \ {0}, NEW x \in 0 .. C - 1, NEW u \in 0 .. C - 1
        PROVE  (x - u) % C \in Nat /\ (((x + d) % C) - u) % C \in Nat
    OBVIOUS
  <2>2. t <= s + d
    BY <1>2, NeverFaster
  <2> QED BY <1>2, <2>1, <2>2
<1>6. s = Since(lb.all_up_since) /\ Since(lb.all_up_since)' = t
  BY <1>1 DEF Since
<1> HIDE DEF s, t
<1>7. calm >= s => calm' >= AUTOSTART \/ calm' >= t
  BY <1>1, <1>2, <1>5
<1>8. CalmOK'
  <2>1. lb'.all_up_since = lb.all_up_since /\ lb'.auto_done = lb.auto_done
        /\ lb'.mode = lb.mode /\ lb'.all_up = lb.all_up
    BY <1>1
  <2>2. ~lb.auto_done => /\ lb.mode = "off"
                         /\ lb.all_up => calm >= AUTOSTART \/ calm >= s
    BY <1>6 DEF LoopInv, CalmOK
  <2> QED BY <1>4, <1>6, <1>7, <2>1, <2>2 DEF CalmOK
<1> QED BY <1>1, <1>2, <1>3, <1>4, <1>8 DEF LoopInv

LEMMA LoopStepOK ==
    ASSUME Several, LoopInv, [LNext]_lvars
    PROVE  LoopInv' /\ CalmStart
<1>1. IInv /\ PortsOK /\ now \in 0 .. CLOCK - 1
  BY DEF LoopInv, IInv, ClockOK
<1> DEFINE Kept == \A n \in Ports : \A ip : Reaches(ip, port[n]) => Reaches(ip, port'[n])
<1>2. ASSUME NEW n \in Ports, DhcpEvent(n), UNCHANGED <<lb, calm>> PROVE LoopInv' /\ CalmStart
  <2>1. IInv' /\ now' = now /\ stage = "net"
    BY <1>1, <1>2, DhcpEventOK DEF DhcpEvent
  <2>2. Kept
    <3>1. ASSUME NEW m \in Ports
          PROVE  port'[m].programmed = port[m].programmed /\ port'[m].mode = port[m].mode
      BY <1>1, <1>2 DEF DhcpEvent, PortsOK, Record
    <3> QED BY <3>1 DEF Reaches
  <2> QED BY <1>2, <2>1, <2>2, BesideOK DEF CalmStart
<1>3. ASSUME NEW n \in Ports, Flap(n), UNCHANGED <<lb, calm>> PROVE LoopInv' /\ CalmStart
  <2>1. IInv' /\ now' = now /\ port' = port
    BY <1>1, <1>3, FlapOK DEF Flap
  <2> QED BY <1>3, <2>1, BesideOK DEF CalmStart
<1>4. ASSUME NetDone, UNCHANGED <<lb, calm>> PROVE LoopInv' /\ CalmStart
  <2>1. IInv' /\ now' = now /\ port' = port
    BY <1>1, <1>4, NetDoneOK DEF NetDone
  <2> QED BY <1>4, <2>1, BesideOK DEF CalmStart
<1>5. ASSUME LinkPoll, UNCHANGED <<lb, calm>> PROVE LoopInv' /\ CalmStart
  <2>1. IInv' /\ now' = now
    BY <1>1, <1>5, LinkPollOK DEF LinkPoll
  <2>2. Kept
    <3>1. ASSUME NEW m \in Ports
          PROVE  port'[m].programmed = port[m].programmed /\ port'[m].mode = port[m].mode
      <4>1. port'[m] = port[m] \/ port'[m] = port_link_poll(port[m], phy[m])
        BY <1>5 DEF LinkPoll
      <4>2. port[m] \in Record
        BY <1>1 DEF PortsOK
      <4>3. /\ port_link_poll(port[m], phy[m]).programmed = port[m].programmed
            /\ port_link_poll(port[m], phy[m]).mode = port[m].mode
        BY <4>2 DEF port_link_poll, Record
      <4> QED BY <4>1, <4>3
    <3> QED BY <3>1 DEF Reaches
  <2> QED BY <1>5, <2>1, <2>2, BesideOK DEF CalmStart
<1>6. ASSUME AddrPoll, UNCHANGED <<lb, calm>> PROVE LoopInv' /\ CalmStart
  <2>1. IInv' /\ now' = now
    BY <1>1, <1>6, AddrPollOK DEF AddrPoll
  <2>2. Kept
    <3>1. ASSUME NEW m \in Ports, NEW ip, Reaches(ip, port[m]) PROVE Reaches(ip, port'[m])
      <4>1. port'[m] = port[m] \/ \E ok \in BOOLEAN : port'[m] = port_addr_poll(port[m], ok)
        BY <1>6 DEF AddrPoll
      <4>2. PortOK(port[m])
        BY <1>1 DEF PortsOK, PortOK
      <4> QED BY <1>1, <3>1, <4>1, <4>2, PollReaches
    <3> QED BY <3>1
  <2> QED BY <1>6, <2>1, <2>2, BesideOK DEF CalmStart
<1>7. ASSUME LbPoll PROVE LoopInv' /\ CalmStart
  BY <1>7, LbPollOK DEF CalmStart
<1>8. ASSUME Command PROVE LoopInv' /\ CalmStart
  <2>1. stage = "console"
    BY <1>8 DEF Command
  <2> QED BY <1>8, <2>1, CommandOK DEF CalmStart
<1>9. ASSUME NEW d \in {0, 1}, LNextPass(d) PROVE LoopInv' /\ CalmStart
  <2>1. lb' = lb
    BY <1>9 DEF LNextPass
  <2> QED BY <1>9, <2>1, LoopPassOK DEF CalmStart
<1>10. ASSUME UNCHANGED lvars PROVE LoopInv' /\ CalmStart
  <2>1. IInv' /\ now' = now /\ port' = port /\ lb' = lb /\ calm' = calm
    BY <1>1, <1>10, StepOK DEF lvars, vars
  <2> QED BY <2>1, BesideOK DEF CalmStart
<1> QED BY <1>2, <1>3, <1>4, <1>5, <1>6, <1>7, <1>8, <1>9, <1>10 DEF LNext

LEMMA LoopInitOK == Several /\ LInit => LoopInv
<1> SUFFICES ASSUME Several, LInit PROVE LoopInv
  OBVIOUS
<1>1. Init /\ calm = 0
      /\ lb = [mode |-> "off", gens |-> {}, self_port |-> 0, autostarted |-> FALSE,
               auto_done |-> FALSE, all_up |-> FALSE, all_up_since |-> 0]
  BY DEF LInit
<1>2. lb \in LoopRecord /\ calm \in 0 .. AUTOSTART
  BY <1>1, Few, Timers DEF LoopRecord
<1>3. Addressed(lb, port) /\ CalmOK
  BY <1>1 DEF Addressed, CalmOK
<1> QED BY <1>1, <1>2, <1>3, InitOK DEF LoopInv

LEMMA LoopInvariant ==
    ASSUME Several
    PROVE  LSpec => []LoopInv /\ [][CalmStart]_lvars
<1>1. LoopInv /\ [LNext]_lvars => LoopInv' /\ CalmStart
  BY LoopStepOK
<1>2. LInit => LoopInv
  BY LoopInitOK
<1> QED BY <1>1, <1>2, PTL DEF LSpec

LEMMA InvariantAddresses ==
    ASSUME LoopInv
    PROVE  TestAddressed
<1> SUFFICES ASSUME NEW g \in lb.gens
             PROVE  LET t == port[g.to] IN
                      /\ g.ip # None
                      /\ g.ip = t.programmed \/ (g.ip \in Leases /\ t.mode # "static")
  BY DEF LoopInv, Addressed, TestAddressed
<1> QED BY DEF LoopInv, Addressed, Reaches
=============================================================================
