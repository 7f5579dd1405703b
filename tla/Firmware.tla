------------------------------ MODULE Firmware ------------------------------
(***************************************************************************)
(* The firmware's two users of the ports' links, side by side: the link    *)
(* poll that brings them up (PortLink), and the loopback tests that watch  *)
(* them (Loopback, on top of Port). Nothing but link_up passes from one to *)
(* the other, and there it may change at any time; so one of the two moves *)
(* and the other stays as it started.                                      *)
(***************************************************************************)
EXTENDS PortLink

CONSTANTS
    Leases, static_address, DefaultMode, DHCP_TIMEOUT, ADDR_POLL, AUTOSTART,
    LB_CLOCK,       \* where the clock of the loopback tests wraps
    MaxCommands, MaxFlaps, MaxLosses

VARIABLES
    moves,          \* which of the two moves
    port, phy, pass, t_link, t_addr, stage, budget, bare, asking, lb, calm

loopVars == <<port, phy, pass, t_link, t_addr, stage, budget, bare, asking, lb, calm>>
fvars == <<moves, vars, loopVars>>

Loop == INSTANCE Loopback WITH CLOCK <- LB_CLOCK, MaxWatch <- 0, now <- pass

ASSUME FirmwareAssumption == Loop!PortAssumption /\ Loop!LoopbackAssumption

FInit ==
    /\ Init /\ Loop!LInit
    /\ \/ moves = "links" /\ \A n \in Ports : ~phy[n]
       \/ /\ moves = "tests" /\ now = 0
          /\ \A n \in Ports : peer[n] = "none" /\ ~mac[n].caught /\ mac[n].aligned = 0

LinkStep == moves = "links" /\ Next /\ UNCHANGED <<moves, loopVars>>

LoopStep == moves = "tests" /\ Loop!LNext /\ UNCHANGED <<moves, vars>>

FNext == LinkStep \/ LoopStep

FSpec == FInit /\ [][FNext]_fvars

-----------------------------------------------------------------------------
\* No command, fallback or automatic start leaves a running test's generator on
\* an address that its target does not have (Loopback).
TestAddressed == moves = "tests" => Loop!TestAddressed

\* The automatic start has seen link and no DHCP-only port for its whole wait
\* (Loopback).
StartsWhenCalm == [][Loop!CalmStart]_loopVars
=============================================================================
