------------------------------- MODULE MCPort -------------------------------
(* One port, two addresses to lease. The clock wraps just above its longest  *)
(* timer, so that a port that waits meets the wrap.                          *)
EXTENDS Port
MCStatic == [n \in Ports |-> "static"]
=============================================================================
