------------------------------ MODULE Loopback ------------------------------
(***************************************************************************)
(* The loopback tests (loopback.c, main.c) on top of the addressing of the *)
(* ports: the console commands that start and stop a test, its automatic   *)
(* start, and the addresses its generators are given when it starts. The   *)
(* module replaces Port's actions of the stages "lb" and "console".        *)
(***************************************************************************)
EXTENDS Port, FiniteSets

CONSTANT AUTOSTART      \* LOOPBACK_AUTOSTART_MS

LoopbackAssumption ==
    /\ Ports = 0 .. Cardinality(Ports) - 1
    /\ AUTOSTART \in Nat /\ AUTOSTART < CLOCK

Tests == {"cross", "echo", "self"}

VARIABLES
    lb,         \* the static struct lb; gens: where each running generator sends
    calm        \* true time for which every port has had link and none is DHCP only

lvars == <<port, phy, now, t_link, t_addr, stage, budget, bare, asking, lb, calm>>

\* (autostarted is read only while a test runs.)
Off(l) == [l EXCEPT !.mode = "off", !.gens = {}, !.autostarted = FALSE]

LInit ==
    /\ Init /\ calm = 0
    /\ lb = [mode |-> "off", gens |-> {}, self_port |-> 0, autostarted |-> FALSE,
             auto_done |-> FALSE, all_up |-> FALSE, all_up_since |-> 0]

-----------------------------------------------------------------------------
(* Starting a test.                                                        *)

peer_of(p) == (p + 1) % Cardinality(Ports)

\* The ports of a test, as generator, checker or echo.
involved(l) ==
    CASE l.mode = "cross" -> Ports
      [] l.mode = "echo" -> {0, peer_of(0)}
      [] l.mode = "self" -> {l.self_port}
      [] l.mode = "off" -> {}

\* The ports that keep a test from starting.
Refused(test, l, P) ==
    {p \in Ports : ~Addressable(P[p]) /\ (test = "self" => p = l.self_port)}

\* Every port gets an address, up to the first that refuses.
Ensured(test, l, P) ==
    [p \in Ports |-> IF \E q \in Refused(test, l, P) : q <= p THEN P[p]
                     ELSE port_ensure_address(P[p])]

Gen(from, to, P) == [from |-> from, to |-> to, ip |-> P[to].addr]

Generators(test, l, P) ==
    CASE test = "cross" -> {Gen(p, peer_of(p), P) : p \in Ports}
      [] test = "echo" -> {Gen(0, peer_of(0), P)}
      [] test = "self" -> {Gen(l.self_port, l.self_port, P)}

\* A test that runs is stopped first, also when the new one cannot start.
lb_start(test, auto, l, P) ==
    /\ port' = Ensured(test, l, P)
    /\ lb' = IF Refused(test, l, P) # {} THEN Off(l)
             ELSE [l EXCEPT !.mode = test, !.autostarted = auto,
                            !.gens = Generators(test, l, Ensured(test, l, P))]

-----------------------------------------------------------------------------
(* autostart_poll                                                          *)

Ready == \A p \in Ports : port[p].link_up /\ port[p].mode # "dhcp"

\* The wait begins when every port is found ready.
AllUp(l) == [l EXCEPT !.all_up = TRUE, !.all_up_since = IF l.all_up THEN @ ELSE now]

\* Fault seed: the time with link is not started again after a loss of link.
autostart_poll_sticky ==
    LET up == AllUp(lb)
    IN  IF lb.auto_done \/ lb.mode # "off" \/ ~Ready
        THEN UNCHANGED <<port, lb>>
        ELSE IF Since(up.all_up_since) < AUTOSTART
        THEN lb' = up /\ UNCHANGED port
        ELSE lb_start("cross", TRUE, [up EXCEPT !.auto_done = TRUE], port)

autostart_poll ==
    LET up == AllUp(lb)
    IN  IF lb.auto_done \/ lb.mode # "off"
        THEN UNCHANGED <<port, lb>>
        ELSE IF Cardinality(Ports) < 2 \/ \E p \in Ports : port[p].ever_leased
        THEN lb' = [lb EXCEPT !.auto_done = TRUE] /\ UNCHANGED port
        ELSE IF ~Ready
        THEN lb' = [lb EXCEPT !.all_up = FALSE] /\ UNCHANGED port
        ELSE IF Since(up.all_up_since) < AUTOSTART
        THEN lb' = up /\ UNCHANGED port
        ELSE lb_start("cross", TRUE, [up EXCEPT !.auto_done = TRUE], port)

\* The part of tick that changes what runs: an automatic test stops when its
\* checkers have received nothing (after 3 s; here at any poll).
tick ==
    /\ lb.mode # "off" /\ lb.autostarted
    /\ lb' = Off(lb) /\ UNCHANGED port

LbPoll ==
    /\ stage = "lb" /\ stage' = "console"
    /\ autostart_poll \/ tick
    /\ Watch(port', {}) /\ calm' = IF Ready THEN calm ELSE 0
    /\ UNCHANGED <<phy, now, t_link, t_addr, budget>>

-----------------------------------------------------------------------------
(* The console: one command in a pass.                                     *)

\* 'l' and 'e': stop that test, or start it in the place of whatever runs.
toggle_test(test) ==
    LET l == [lb EXCEPT !.auto_done = TRUE]
    IN  IF lb.mode = test THEN lb' = Off(l) /\ UNCHANGED port
        ELSE lb_start(test, FALSE, l, port)

\* 'L <port>'
self_loop_cmd(p) ==
    LET l == [lb EXCEPT !.auto_done = TRUE]
    IN  IF lb.mode = "self" /\ lb.self_port = p THEN lb' = Off(l) /\ UNCHANGED port
        ELSE lb_start("self", FALSE, [l EXCEPT !.self_port = p], port)

\* 'p <bytes>': a running test starts again.
lb_set_len ==
    /\ lb.mode # "off"
    /\ lb_start(lb.mode, FALSE, lb, port)

\* Fault seed: a test goes on when a port of it is readdressed.
ip_mode_cmd_running(n, mode) ==
    /\ \E ok \in BOOLEAN : port' = [port EXCEPT ![n] = port_set_ip_mode(port[n], mode, ok)]
    /\ UNCHANGED lb

\* 'i <port> <mode>': a test of that port stops, and starts again if the port
\* has its address at once.
ip_mode_cmd(n, mode) ==
    \E ok \in BOOLEAN :
        LET P == [port EXCEPT ![n] = port_set_ip_mode(port[n], mode, ok)]
        IN  IF n \notin involved(lb) THEN port' = P /\ UNCHANGED lb
            ELSE IF mode = "static" THEN lb_start(lb.mode, FALSE, Off(lb), P)
            ELSE port' = P /\ lb' = Off(lb)

Command ==
    /\ stage = "console" /\ budget.commands > 0
    /\ budget' = [budget EXCEPT !.commands = @ - 1]
    /\ \/ \E test \in {"cross", "echo"} : toggle_test(test)
       \/ \E p \in Ports : self_loop_cmd(p)
       \/ lb_set_len
       \/ \E p \in Ports, mode \in Modes : ip_mode_cmd(p, mode)
    /\ stage' = "net" /\ UNCHANGED now
    /\ Watch(port', {})
    /\ UNCHANGED <<phy, t_link, t_addr, calm>>

-----------------------------------------------------------------------------
(* The rest of a pass is Port's.                                           *)

LNextPass(d) ==
    /\ NextPass(d)
    /\ calm' = IF d = 1 /\ calm < AUTOSTART THEN calm + 1 ELSE calm
    /\ UNCHANGED lb

LNext ==
    \/ \E n \in Ports : (DhcpEvent(n) \/ Flap(n)) /\ UNCHANGED <<lb, calm>>
    \/ (NetDone \/ LinkPoll \/ AddrPoll) /\ UNCHANGED <<lb, calm>>
    \/ LbPoll \/ Command
    \/ \E d \in {0, 1} : LNextPass(d)

LSpec == LInit /\ [][LNext]_lvars

-----------------------------------------------------------------------------
(* Properties.                                                             *)

LTypeOK ==
    /\ TypeOK /\ calm \in 0 .. AUTOSTART
    /\ lb \in [mode : Tests \cup {"off"},
               gens : SUBSET [from : Ports, to : Ports, ip : Addresses],
               self_port : Ports, autostarted : BOOLEAN, auto_done : BOOLEAN, all_up : BOOLEAN,
               all_up_since : 0 .. CLOCK - 1]

\* A generator sends to the address its target claims datagrams for, and never to
\* 0.0.0.0, whatever the order of commands, fallbacks and automatic starts: no
\* command and no poll leaves a test behind on another address. Only a leased
\* address can go away (the test is not told), not by a command. And no generator
\* runs without a test.
TestAddressed ==
    /\ lb.mode = "off" <=> lb.gens = {}
    /\ \A g \in lb.gens : LET t == port[g.to] IN
          /\ g.ip # None
          /\ g.ip = t.programmed \/ (g.ip \in Leases /\ t.mode # "static")

\* The automatic start has seen what it infers a cable from: every port with
\* link and none in DHCP-only mode, for all of the 15 seconds.
CalmStart == stage = "lb" /\ lb.mode = "off" /\ lb'.mode # "off" => Ready /\ calm >= AUTOSTART
=============================================================================
