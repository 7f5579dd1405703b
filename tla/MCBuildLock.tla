---------------------------- MODULE MCBuildLock ----------------------------
(* Three runs, two of them on one host: two build, one is a keep-boot clean. *)
EXTENDS BuildLock
MCHost == [p \in Procs |-> IF p = "c" THEN "server" ELSE "desk"]
=============================================================================
