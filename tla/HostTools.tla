------------------------------ MODULE HostTools ------------------------------
(***************************************************************************)
(* The tools of the repository that run on a host beside build.py, each by *)
(* itself: one of them is used at a time, and they share nothing.          *)
(***************************************************************************)
EXTENDS HostChecksum, TestVectors, PrbsTool, ConfigUpdate, VitisApp

Tools == {"checksum", "vectors", "prbs", "update", "vitis"}

hvars == <<sum, bench, prbs, upd, vit>>

Init ==
    \E tool \in Tools :
        /\ sum \in IF tool = "checksum" THEN StartSums ELSE {NoSum}
        /\ bench \in IF tool = "vectors" THEN StartBench ELSE {NoBench}
        /\ prbs \in IF tool = "prbs" THEN StartPrbs ELSE {NoPrbs}
        /\ upd \in IF tool = "update" THEN StartUpdates ELSE {NoUpdate}
        /\ vit \in IF tool = "vitis" THEN StartApps ELSE {NoApp}

Next ==
    \/ SumNext /\ UNCHANGED <<bench, prbs, upd, vit>>
    \/ BenchNext /\ UNCHANGED <<sum, prbs, upd, vit>>
    \/ PrbsNext /\ UNCHANGED <<sum, bench, upd, vit>>
    \/ UpdateNext /\ UNCHANGED <<sum, bench, prbs, vit>>
    \/ VitisNext /\ UNCHANGED <<sum, bench, prbs, upd>>

Spec == Init /\ [][Next]_hvars
=============================================================================
