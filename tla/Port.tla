-------------------------------- MODULE Port --------------------------------
(***************************************************************************)
(* The addressing of the QSFP28 ports (port.c): DHCP, the static fallback, *)
(* the address modes of the console, and the copy of the address in the    *)
(* NIC's IPV4 register, driven by the main loop (main.c). The DHCP client  *)
(* of lwIP is outside the repository: dhcp_* below say what port.c relies  *)
(* on. Time is counted in periods of the link poll and wraps, as now_ms(). *)
(***************************************************************************)
EXTENDS Integers

CONSTANTS
    Ports,           \* the ports
    Leases,          \* addresses a DHCP server may hand out
    static_address,  \* STATIC_IP_ADDR of each port
    DefaultMode,     \* IP_MODE_DEFAULT
    DHCP_TIMEOUT,    \* DHCP_TIMEOUT_MS
    ADDR_POLL,       \* ADDR_POLL_MS; LINK_POLL_MS is the unit
    CLOCK,           \* 2^32: the millisecond counter wraps
    MaxCommands,     \* bound: console commands and starts of a test
    MaxFlaps,        \* bound: changes of the physical links
    MaxLosses,       \* bound: leases that end
    MaxWatch         \* bound: where bare and asking saturate

Modes == {"auto", "static", "dhcp"}
None == "0.0.0.0"
Statics == {static_address[n] : n \in Ports}
Addresses == Leases \cup Statics \cup {None}

ASSUME PortAssumption ==
    /\ DefaultMode \in Modes
    /\ DOMAIN static_address = Ports /\ None \notin Statics
    /\ Leases \cap (Statics \cup {None}) = {}
    /\ DHCP_TIMEOUT \in Nat /\ ADDR_POLL \in Nat \ {0} /\ CLOCK \in Nat
    /\ DHCP_TIMEOUT + 2 * ADDR_POLL < CLOCK
    /\ MaxCommands \in Nat /\ MaxFlaps \in Nat /\ MaxLosses \in Nat
    /\ MaxWatch \in Nat

VARIABLES
    port,       \* port_t of each port, its netif and its DHCP client
    phy,        \* whether the MAC has link
    now,        \* now_ms() of this pass of the main loop
    t_link,     \* the last pass that polled the links
    t_addr,     \* the last pass that polled the addresses
    stage,      \* where the pass is
    budget,     \* what is left of the bounds
    bare,       \* true time a port has had link and no address, since a command
    asking      \* true time since it last tried to start its DHCP client

vars == <<port, phy, now, t_link, t_addr, stage, budget, bare, asking>>

Stages == {"net", "link", "addr", "lb", "console"}

\* (u32)(now - t)
Since(t) == (now - t) % CLOCK

-----------------------------------------------------------------------------
(* lwIP's DHCP client: off, asking for a lease, or with a lease. It may go *)
(* on using its address while it asks again.                               *)

dhcp_start(p, ok) == [p EXCEPT !.dhcp = IF ok THEN "asking" ELSE "off"]

dhcp_supplied_address(p) == p.dhcp = "bound"

dhcp_release_and_stop(p) ==
    [p EXCEPT !.dhcp = "off", !.addr = IF p.dhcp = "bound" THEN None ELSE @]

dhcp_network_changed_link_up(p) ==
    [p EXCEPT !.dhcp = IF @ = "bound" THEN "asking" ELSE @]

-----------------------------------------------------------------------------
(* The functions of port.c, from port_t to port_t. "ok" is whether         *)
(* dhcp_start finds the memory it needs.                                   *)

sync_zircon_ip(p) == [p EXCEPT !.programmed = p.addr]

\* Fault seed: the IPV4 register is left to the next poll.
set_static_address_unsynced(p) == [p EXCEPT !.addr = static_address[p.n], !.state = "STATIC"]

set_static_address(p) ==
    sync_zircon_ip([p EXCEPT !.addr = static_address[p.n], !.state = "STATIC"])

stop_dhcp(p) ==
    IF p.state \in {"DHCP_WAIT", "DHCP"} THEN dhcp_release_and_stop(p) ELSE p

\* Fault seed: the start time is that of an earlier attempt.
start_dhcp_unstamped(p, ok) ==
    LET q == dhcp_start(p, ok)
    IN  IF ok THEN [q EXCEPT !.state = "DHCP_WAIT", !.failed = FALSE]
        ELSE IF p.mode = "dhcp" THEN [q EXCEPT !.state = "NONE", !.failed = TRUE]
        ELSE set_static_address(q)

start_dhcp(p, ok) ==
    LET q == [dhcp_start(p, ok) EXCEPT !.start = now]
    IN  IF ok THEN [q EXCEPT !.state = "DHCP_WAIT", !.failed = FALSE]
        ELSE IF p.mode = "dhcp" THEN [q EXCEPT !.state = "NONE", !.failed = TRUE]
        ELSE set_static_address(q)

\* Fault seed: a failure of the mode before delays the first attempt.
port_set_ip_mode_failed(p, mode, ok) ==
    LET q == [stop_dhcp(p) EXCEPT !.mode = mode]
        r == sync_zircon_ip([q EXCEPT !.addr = None, !.state = "NONE"])
    IN  IF mode = "static" THEN set_static_address(q)
        ELSE IF r.link_up THEN start_dhcp(r, ok) ELSE r

port_set_ip_mode(p, mode, ok) ==
    LET q == [stop_dhcp(p) EXCEPT !.mode = mode, !.failed = FALSE]
        r == sync_zircon_ip([q EXCEPT !.addr = None, !.state = "NONE"])
    IN  IF mode = "static" THEN set_static_address(q)
        ELSE IF r.link_up THEN start_dhcp(r, ok) ELSE r

\* Whether the port has an address to start a test with; the port after it is
\* port_ensure_address.
Addressable(p) == p.addr # None \/ p.mode # "dhcp"

\* Fault seed: the pending request is not abandoned.
port_ensure_address_running(p) ==
    IF p.addr # None \/ p.mode = "dhcp" THEN p ELSE set_static_address(p)

port_ensure_address(p) ==
    IF p.addr # None \/ p.mode = "dhcp" THEN p ELSE set_static_address(stop_dhcp(p))

\* Whether the address poll has a client to start.
StartDue(p) ==
    /\ p.state = "NONE" /\ p.link_up
    /\ ~p.failed \/ Since(p.start) >= DHCP_TIMEOUT

port_addr_poll(q, ok) ==
    LET p == [q EXCEPT !.changed = FALSE]
        again == IF q.changed /\ q.link_up THEN dhcp_network_changed_link_up(p) ELSE p
    IN  CASE p.state = "NONE" -> IF StartDue(p) THEN start_dhcp(p, ok) ELSE p
          [] p.state = "DHCP_WAIT" ->
                IF dhcp_supplied_address(p)
                THEN sync_zircon_ip([p EXCEPT !.state = "DHCP", !.ever_leased = TRUE])
                ELSE IF p.mode # "dhcp" /\ Since(p.start) >= DHCP_TIMEOUT
                THEN set_static_address(dhcp_release_and_stop(p))
                ELSE again
          [] p.state = "DHCP" -> sync_zircon_ip(again)
          [] p.state = "STATIC" -> p

\* The part of port_link_poll that concerns the address.
port_link_poll(p, up) ==
    [p EXCEPT !.link_up = up, !.changed = @ \/ up # p.link_up]

-----------------------------------------------------------------------------
(* The main loop.                                                          *)

Booted(n) ==
    [n |-> n, mode |-> DefaultMode, link_up |-> FALSE, changed |-> FALSE,
     state |-> IF DefaultMode = "static" THEN "STATIC" ELSE "NONE",
     addr |-> IF DefaultMode = "static" THEN static_address[n] ELSE None,
     programmed |-> IF DefaultMode = "static" THEN static_address[n] ELSE None,
     dhcp |-> "off", failed |-> FALSE, start |-> 0, ever_leased |-> FALSE]

\* Both polls are made before the loop is entered.
Init ==
    /\ port = [n \in Ports |-> Booted(n)] /\ phy \in [Ports -> BOOLEAN]
    /\ now = 0 /\ t_link = (0 - 1) % CLOCK /\ t_addr = (0 - ADDR_POLL) % CLOCK
    /\ stage = "link"
    /\ budget = [commands |-> MaxCommands, flaps |-> MaxFlaps, losses |-> MaxLosses]
    /\ bare = [n \in Ports |-> 0] /\ asking = [n \in Ports |-> 0]

\* The longest a port is bare, by the code's own timers: the link came up just
\* after an address poll, and the timeout ended just after another.
Patience == DHCP_TIMEOUT + 2 * ADDR_POLL

Bare(p) == p.link_up /\ p.addr = None

\* Where the true times go when the ports become q.
Watch(q, tried) ==
    /\ bare' = [n \in Ports |-> IF Bare(q[n]) THEN bare[n] ELSE 0]
    /\ asking' = [n \in Ports |-> IF n \in tried THEN 0 ELSE asking[n]]

\* A frame of the DHCP server, or a timer of the client, in port_poll_fast and
\* the lwIP timers: a lease, another one, or none any more.
DhcpEvent(n) ==
    LET p == port[n] IN
    /\ stage = "net" /\ p.dhcp # "off"
    /\ \/ /\ \E l \in Leases :
                port' = [port EXCEPT ![n].dhcp = "bound", ![n].addr = l]
          /\ UNCHANGED budget
       \/ /\ p.addr # None /\ budget.losses > 0
          /\ budget' = [budget EXCEPT !.losses = @ - 1]
          /\ port' = [port EXCEPT ![n].dhcp = "asking", ![n].addr = None]
    /\ Watch(port', {})
    /\ UNCHANGED <<phy, now, t_link, t_addr, stage>>

NetDone ==
    /\ stage = "net" /\ stage' = "link"
    /\ UNCHANGED <<port, phy, now, t_link, t_addr, budget, bare, asking>>

\* The links change at any time.
Flap(n) ==
    /\ budget.flaps > 0 /\ budget' = [budget EXCEPT !.flaps = @ - 1]
    /\ phy' = [phy EXCEPT ![n] = ~@]
    /\ UNCHANGED <<port, now, t_link, t_addr, stage, bare, asking>>

LinkPoll ==
    /\ stage = "link" /\ stage' = "addr"
    /\ IF Since(t_link) >= 1
       THEN /\ port' = [n \in Ports |-> port_link_poll(port[n], phy[n])]
            /\ t_link' = now
       ELSE UNCHANGED <<port, t_link>>
    /\ Watch(port', {})
    /\ UNCHANGED <<phy, now, t_addr, budget>>

AddrPoll ==
    /\ stage = "addr" /\ stage' = "lb"
    /\ IF Since(t_addr) >= ADDR_POLL
       THEN /\ \E ok \in [Ports -> BOOLEAN] :
                  port' = [n \in Ports |-> port_addr_poll(port[n], ok[n])]
            /\ t_addr' = now /\ Watch(port', {n \in Ports : StartDue(port[n])})
       ELSE UNCHANGED <<port, t_addr, bare, asking>>
    /\ UNCHANGED <<phy, now, t_link, budget>>

\* 'i <port> <mode>'
SetMode(n, mode) ==
    /\ stage = "console" /\ budget.commands > 0
    /\ budget' = [budget EXCEPT !.commands = @ - 1]
    /\ \E ok \in BOOLEAN :
          port' = [port EXCEPT ![n] = port_set_ip_mode(port[n], mode, ok)]
    /\ bare' = [bare EXCEPT ![n] = 0] /\ asking' = [asking EXCEPT ![n] = 0]
    /\ UNCHANGED <<phy, now, t_link, t_addr, stage>>

\* lb_start makes sure that every port has an address, up to the first that
\* has none and may not take the static one.
EnsureAddresses ==
    /\ stage \in {"lb", "console"} /\ budget.commands > 0
    /\ budget' = [budget EXCEPT !.commands = @ - 1]
    /\ \E some \in SUBSET Ports :
          port' = [n \in Ports |->
                     IF n \in some THEN port_ensure_address(port[n]) ELSE port[n]]
    /\ Watch(port', {})
    /\ UNCHANGED <<phy, now, t_link, t_addr, stage>>

LbDone ==
    /\ stage = "lb" /\ stage' = "console"
    /\ UNCHANGED <<port, phy, now, t_link, t_addr, budget, bare, asking>>

Older(t) == IF t = MaxWatch THEN t ELSE t + 1

\* The next pass starts, in the same period of the link poll or the next one.
NextPass(d) ==
    /\ stage = "console" /\ stage' = "net"
    /\ now' = (now + d) % CLOCK
    /\ bare' = [n \in Ports |-> IF Bare(port[n]) /\ d = 1 THEN Older(bare[n]) ELSE bare[n]]
    /\ asking' = [n \in Ports |-> IF d = 1 THEN Older(asking[n]) ELSE asking[n]]
    /\ UNCHANGED <<port, phy, t_link, t_addr, budget>>

Next ==
    \/ \E n \in Ports : DhcpEvent(n) \/ Flap(n)
    \/ NetDone \/ LinkPoll \/ AddrPoll \/ EnsureAddresses \/ LbDone
    \/ \E n \in Ports, mode \in Modes : SetMode(n, mode)
    \/ \E d \in {0, 1} : NextPass(d)

Spec == Init /\ [][Next]_vars

-----------------------------------------------------------------------------
(* Properties.                                                             *)

TypeOK ==
    /\ port \in [Ports -> [n : Ports, mode : Modes, link_up : BOOLEAN, changed : BOOLEAN,
                           state : {"NONE", "DHCP_WAIT", "DHCP", "STATIC"},
                           addr : Addresses, programmed : Addresses,
                           dhcp : {"off", "asking", "bound"}, failed : BOOLEAN,
                           start : 0 .. CLOCK - 1, ever_leased : BOOLEAN]]
    /\ phy \in [Ports -> BOOLEAN] /\ stage \in Stages
    /\ now \in 0 .. CLOCK - 1 /\ t_link \in 0 .. CLOCK - 1 /\ t_addr \in 0 .. CLOCK - 1
    /\ budget \in [commands : 0 .. MaxCommands, flaps : 0 .. MaxFlaps, losses : 0 .. MaxLosses]
    /\ bare \in [Ports -> 0 .. MaxWatch] /\ asking \in [Ports -> 0 .. MaxWatch]

\* The address modes mean what they say, in whatever order commands, leases and
\* tests come: a static port has the static address and no client running, a
\* DHCP-only port never has the static address, and no client runs behind a
\* static address (it would overwrite it).
ModeKept ==
    \A n \in Ports : LET p == port[n] IN
        /\ p.mode = "static" => p.state = "STATIC"
        /\ p.state = "STATIC" => p.addr = static_address[n] /\ p.dhcp = "off"
        /\ p.mode = "dhcp" => p.addr \notin Statics
        /\ p.addr \in Statics => p.state = "STATIC"

\* "Keep the zircon IPV4 register in step with lwIP's address": only an event
\* of the DHCP client can part the two, whatever else changes the address ...
InStep ==
    \A n \in Ports : port[n].programmed # port[n].addr => port[n].dhcp # "off"

\* ... and every address poll brings them together again.
PollSyncs ==
    [][stage = "addr" /\ t_addr' = now /\ Since(t_addr) >= ADDR_POLL
         => \A n \in Ports : port'[n].programmed = port'[n].addr]_vars

\* The DHCP client is given its time: the static address replaces the wait for
\* a lease only if the whole timeout has passed, or a test needs an address.
DhcpGetsItsTime ==
    [][\A n \in Ports :
         stage = "addr" /\ port[n].state = "DHCP_WAIT" /\ port'[n].state = "STATIC"
            => asking[n] >= DHCP_TIMEOUT]_vars

\* A port in mode auto that never had a lease has an address within the timeout
\* of its link coming up, in spite of failures, flaps and the wrap of the clock.
FallbackInTime ==
    \A n \in Ports : port[n].mode = "auto" /\ port[n].state # "DHCP" => bare[n] <= Patience

\* A client that could not be started is tried again in time.
RetryInTime ==
    \A n \in Ports :
        port[n].state = "NONE" => bare[n] <= Patience \/ asking[n] <= Patience

\* In either case the wait ends.
AddressInTime == FallbackInTime /\ RetryInTime
=============================================================================
