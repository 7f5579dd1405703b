------------------------------ MODULE PortLink ------------------------------
(***************************************************************************)
(* The link of the QSFP28 ports (port.c): what the link poll of the main   *)
(* loop does while a port has no link. It resets the MAC every LINK_RETRY, *)
(* and with FEC_FALLBACK it also alternates between the chosen FEC mode    *)
(* and FEC off. The MAC and whatever is at the other end of the cable are  *)
(* outside the sources: mac, peer and the second section say what port.c   *)
(* relies on. Time is counted in periods of the link poll and wraps.       *)
(***************************************************************************)
EXTENDS Integers

CONSTANTS
    NUM_PORTS,      \* the ports are 0 .. NUM_PORTS - 1
    Partners,       \* what may be at the other end of a cable
    StationPorts,   \* the ports whose cable may go to a station
    APP_FEC_MODE,   \* the FEC mode the application starts with
    DesignFec,      \* the FEC mode the block design gave the MAC
    LINK_RETRY,     \* LINK_RETRY_MS; LINK_POLL_MS is the unit
    FEC_FALLBACK,   \* FEC_FALLBACK_MS; 0: no fallback
    BOOT,           \* the longest wait for the links before the loop
    ALIGN,          \* the longest a receiver takes to align
    CLOCK,          \* 2^32: the millisecond counter wraps
    MaxStep,        \* the longest from one link poll to the next
    MaxEvents,      \* bound: cables moved, glitches and keys
    MaxWatch        \* bound: where waited and tried saturate

Ports == 0 .. NUM_PORTS - 1
Fecs == {"off", "rs528", "rs544"}
Modes == Fecs \cup {"keep"}

ASSUME PortLinkAssumption ==
    /\ NUM_PORTS \in {1, 2}
    /\ Partners \subseteq Fecs \cup {"none"} \cup (IF NUM_PORTS = 2 THEN {"port"} ELSE {})
    /\ StationPorts \subseteq Ports
    /\ APP_FEC_MODE \in Modes /\ DesignFec \in Fecs
    /\ LINK_RETRY \in Nat /\ FEC_FALLBACK \in Nat /\ BOOT \in Nat /\ ALIGN \in Nat
    /\ CLOCK \in Nat /\ BOOT < CLOCK /\ MaxStep \in 1 .. CLOCK
    /\ MaxEvents \in Nat /\ MaxWatch \in Nat /\ CLOCK - 1 <= MaxWatch

VARIABLES
    link,       \* port_t of each port: its link fields
    fec_mode,   \* the chosen FEC mode, of all ports
    mac,        \* the MAC of each port
    peer,       \* what is at the other end of its cable
    now,        \* now_ms() of this pass of the main loop
    at,         \* the port the link poll has come to
    events,     \* what is left of the bound
    waited,     \* true time without link, though the partner can be reached
    tried       \* true time without link in the FEC mode of now

vars == <<link, fec_mode, mac, peer, now, at, events, waited, tried>>

\* (u32)(now - t)
Since(t) == (now - t) % CLOCK

-----------------------------------------------------------------------------
(* The MAC. A receiver aligns on a signal that was there at its last reset *)
(* (caught), if the partner uses the same FEC mode. A reset of the partner *)
(* interrupts the alignment, a cable that is moved ends it.                *)

\* The FEC mode of the partner: a station's is forced, a port's is its MAC's.
PeerFec(n) == IF peer[n] = "port" THEN mac[1 - n].fec ELSE peer[n]

Matched(n) == peer[n] # "none" /\ mac[n].caught /\ PeerFec(n) = mac[n].fec

mac_link_up(n) == Matched(n) /\ mac[n].aligned = ALIGN

mac_port_init(S, fec) ==
    [n \in Ports |->
        IF n \in S
        THEN [fec |-> IF fec = "keep" THEN mac[n].fec ELSE fec,
              caught |-> peer[n] # "none", aligned |-> 0]
        ELSE IF peer[n] = "port" THEN [mac[n] EXCEPT !.aligned = 0] ELSE mac[n]]

-----------------------------------------------------------------------------
(* The functions of port.c.                                                *)

\* Fault seed: the mode tried is not recorded.
port_mac_reinit_forgetful(p, fec) == p

port_mac_reinit(p, fec) == [p EXCEPT !.fec_try = IF fec = "keep" THEN @ ELSE fec]

\* The link state; a link that is lost starts both timers.
SeeLink(p, up) ==
    IF p.link_up /\ ~up
    THEN [p EXCEPT !.link_up = up, !.last_retry = now, !.last_fec_switch = now]
    ELSE [p EXCEPT !.link_up = up]

RetryDue(p) == ~p.link_up /\ Since(p.last_retry) >= LINK_RETRY

FallbackDue(p) ==
    /\ FEC_FALLBACK > 0 /\ fec_mode \notin {"keep", "off"}
    /\ Since(p.last_fec_switch) >= FEC_FALLBACK

SwitchFec(p) ==
    [p EXCEPT !.last_fec_switch = now, !.fec_try = IF @ = "off" THEN fec_mode ELSE "off"]

\* Fault seed: the time of the retry is not kept.
Retry_unstamped(p) ==
    LET q == IF FallbackDue(p) THEN SwitchFec(p) ELSE p
    IN  port_mac_reinit(q, IF fec_mode = "keep" THEN "keep" ELSE q.fec_try)

Retry(p) ==
    LET q == IF FallbackDue(p) THEN SwitchFec(p) ELSE p
    IN  [port_mac_reinit(q, IF fec_mode = "keep" THEN "keep" ELSE q.fec_try)
            EXCEPT !.last_retry = now]

-----------------------------------------------------------------------------
(* The main loop.                                                          *)

\* The ports have been set up, and the wait for the links has ended.
Init ==
    /\ fec_mode = APP_FEC_MODE /\ peer \in [Ports -> Partners]
    /\ \A n \in Ports : peer[n] \in Fecs => n \in StationPorts
    /\ (\E n \in Ports : peer[n] = "port") => \A n \in Ports : peer[n] = "port"
    /\ now \in 0 .. BOOT /\ at = 0 /\ events = MaxEvents
    /\ LET fec == IF APP_FEC_MODE = "keep" THEN DesignFec ELSE APP_FEC_MODE IN
       /\ link = [n \in Ports |-> [link_up |-> FALSE, fec_try |-> fec,
                                   last_retry |-> 0, last_fec_switch |-> 0]]
       /\ \E heard \in SUBSET {n \in Ports : peer[n] # "none"}, good \in [Ports -> 0 .. ALIGN] :
             mac = [n \in Ports |-> [fec |-> fec, caught |-> n \in heard, aligned |-> good[n]]]
    /\ waited = [n \in Ports |-> 0] /\ tried = [n \in Ports |-> now]

Capped(t, d) == IF t + d > MaxWatch THEN MaxWatch ELSE t + d

\* Whether the port is to find its partner by itself.
Reachable(n) ==
    \/ peer[n] = "port" /\ (FEC_FALLBACK = 0 \/ fec_mode \in {"keep", "off"})
    \/ /\ peer[n] \in Fecs
       /\ IF fec_mode = "keep" THEN peer[n] = mac[n].fec
          ELSE peer[n] = fec_mode \/ (FEC_FALLBACK > 0 /\ peer[n] = "off")

LinkPoll(n) ==
    LET p == SeeLink(link[n], mac_link_up(n)) IN
    /\ at = n /\ at' = n + 1
    /\ IF RetryDue(p)
       THEN /\ link' = [link EXCEPT ![n] = Retry(p)]
            /\ mac' = mac_port_init({n}, IF fec_mode = "keep" THEN "keep" ELSE Retry(p).fec_try)
       ELSE link' = [link EXCEPT ![n] = p] /\ UNCHANGED mac
    /\ waited' = [waited EXCEPT ![n] = IF p.link_up THEN 0 ELSE @]
    /\ tried' = [tried EXCEPT ![n] =
                   IF p.link_up \/ link[n].link_up \/ mac'[n].fec # mac[n].fec THEN 0 ELSE @]
    /\ UNCHANGED <<fec_mode, peer, now, events>>

\* Fault seed: the timers go on as if the mode had not been changed.
ResetPorts_untimed(fec) == [n \in Ports |-> port_mac_reinit(link[n], fec)]

ResetPorts(fec) ==
    [n \in Ports |-> [port_mac_reinit(link[n], fec) EXCEPT
                        !.last_retry = now, !.last_fec_switch = now]]

\* 'f': the next FEC mode, on every port, whether it has link or not.
CycleFec ==
    /\ at = NUM_PORTS /\ events > 0 /\ events' = events - 1
    /\ fec_mode' = CASE fec_mode = "rs528" -> "off"
                     [] fec_mode = "off" -> "rs544"
                     [] OTHER -> "rs528"
    /\ link' = ResetPorts(fec_mode') /\ mac' = mac_port_init(Ports, fec_mode')
    /\ waited' = [n \in Ports |-> 0] /\ tried' = [n \in Ports |-> 0]
    /\ UNCHANGED <<peer, now, at>>

\* A cable is moved: between the two ports, to a station, or away.
Plug(n, s) ==
    /\ events > 0 /\ events' = events - 1 /\ s # peer[n]
    /\ s \in Fecs => n \in StationPorts
    /\ peer' = [k \in Ports |-> IF k = n \/ s = "port" THEN s
                                ELSE IF peer[k] = "port" THEN "none" ELSE peer[k]]
    /\ mac' = [k \in Ports |-> IF peer'[k] = peer[k] THEN mac[k]
                               ELSE [mac[k] EXCEPT !.caught = FALSE, !.aligned = 0]]
    /\ waited' = [k \in Ports |-> 0]
    /\ UNCHANGED <<link, fec_mode, now, at, tried>>

\* One receiver loses the signal for a moment.
Glitch(n) ==
    /\ events > 0 /\ events' = events - 1 /\ mac[n].caught
    /\ mac' = [mac EXCEPT ![n].caught = FALSE, ![n].aligned = 0]
    /\ waited' = [k \in Ports |-> 0]
    /\ UNCHANGED <<link, fec_mode, peer, now, at, tried>>

\* The pass of the next link poll, d later. Some receivers align early.
NextPass(d) ==
    /\ at = NUM_PORTS /\ at' = 0 /\ now' = (now + d) % CLOCK
    /\ \E early \in SUBSET Ports :
          mac' = [n \in Ports |-> [mac[n] EXCEPT !.aligned =
                    IF ~Matched(n) THEN 0
                    ELSE IF n \in early \/ @ + d > ALIGN THEN ALIGN ELSE @ + d]]
    /\ waited' = [n \in Ports |->
                    IF Reachable(n) /\ ~link[n].link_up THEN Capped(waited[n], d) ELSE 0]
    /\ tried' = [n \in Ports |->
                   IF link[n].link_up THEN 0 ELSE Capped(tried[n], d)]
    /\ UNCHANGED <<link, fec_mode, peer, events>>

Next ==
    \/ \E n \in Ports : LinkPoll(n) \/ Glitch(n) \/ \E s \in Partners : Plug(n, s)
    \/ CycleFec
    \/ \E d \in 1 .. MaxStep : NextPass(d)

Spec == Init /\ [][Next]_vars

-----------------------------------------------------------------------------
(* Properties.                                                             *)

TypeOK ==
    /\ link \in [Ports -> [link_up : BOOLEAN, fec_try : Fecs,
                           last_retry : 0 .. CLOCK - 1, last_fec_switch : 0 .. CLOCK - 1]]
    /\ mac \in [Ports -> [fec : Fecs, caught : BOOLEAN, aligned : 0 .. ALIGN]]
    /\ fec_mode \in Modes /\ peer \in [Ports -> Partners \cup {"none"}]
    /\ now \in 0 .. CLOCK - 1 /\ at \in 0 .. NUM_PORTS /\ events \in 0 .. MaxEvents
    /\ waited \in [Ports -> 0 .. MaxWatch] /\ tried \in [Ports -> 0 .. MaxWatch]

\* "The application writes the FEC mode chosen and keeps it": after any order of
\* retries, fallbacks and 'f' keys a MAC is in the chosen mode, or off if the
\* fallback may have put it there, and port.c knows which.
FecAsChosen ==
    \A n \in Ports :
        /\ mac[n].fec = link[n].fec_try
        /\ IF fec_mode = "keep" THEN mac[n].fec = DesignFec
           ELSE mac[n].fec = fec_mode \/ (FEC_FALLBACK > 0 /\ mac[n].fec = "off")

\* The fallback gives each mode its whole time: a poll changes the FEC mode of a
\* port only after FEC_FALLBACK in it without link, whatever 'f', a link that
\* came and went, and the wrap of the clock did to the timers.
EachModeGetsItsTime ==
    [][\A n \in Ports :
         at = n /\ mac'[n].fec # mac[n].fec /\ fec_mode' = fec_mode
            => tried[n] >= FEC_FALLBACK]_vars

\* The timers fit each other: an alignment ends before the next retry, also when a
\* retry of the other port has interrupted it, and no timer wraps before it is due.
RetryWait == LINK_RETRY + MaxStep - 1
TimersFit ==
    /\ 0 < ALIGN /\ ALIGN <= LINK_RETRY
    /\ NUM_PORTS = 2 => 2 * ALIGN + MaxStep - 1 <= LINK_RETRY
    /\ RetryWait < CLOCK /\ FEC_FALLBACK + RetryWait <= CLOCK

\* The longest a port is without link, by the timers of port.c: its partner came
\* just after a retry, or just after the last retry in the right mode; a port at the
\* other end that sees its link go one poll later interrupts the alignment once.
Patience(n) ==
    RetryWait + ALIGN + MaxStep
    + (CASE peer[n] = "port" -> MaxStep
         [] peer[n] # "port" /\ FEC_FALLBACK > 0 -> FEC_FALLBACK + RetryWait
         [] OTHER -> 0)

\* "so that a partner forced to either mode still links", and where there is no
\* fallback two ports of the board link to each other: a port has link in time once its
\* partner can be reached, though every retry ends an alignment under way.
LinkInTime == \A n \in Ports : waited[n] <= Patience(n)
=============================================================================
