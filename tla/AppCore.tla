------------------------------- MODULE AppCore -------------------------------
(***************************************************************************)
(* How build-vitis.py and make-boot.py, each by itself, read the           *)
(* architecture and the application processor of a design from its XSA.    *)
(* An XSA holds hardware descriptions (.hwh): the one of the block design  *)
(* (top), those of MicroBlaze-MCS sub-blocks (mcs) that a memory           *)
(* controller brings along, and others. It is the sequence of the modules  *)
(* in them: an instance name, the IP, and the description it is of.        *)
(***************************************************************************)
EXTENDS Naturals, Sequences, FiniteSetsExt

CONSTANTS
    Numbered,   \* the instance names microblaze_<n>
    McsNames,   \* the instance names with "_mcs" in them
    A72Named,   \* the IPs with "a72" in their VLNV,
    A53Named,   \* with "a53",
    R5Named     \* and with "r5": the Cortex-R5, but a ddr5 controller as well

ASSUME NamesAssumption == "microblaze_0" \in Numbered /\ Numbered \cap McsNames = {}

\* "xilinx.com:ip:microblaze" is in the VLNV of both.
MicroBlazes == {"microblaze", "microblaze_mcs"}
HardCores == {"versal_cips", "zynq_ultra_ps_e", "processing_system7"}

\* The places in the XSA of the modules of some descriptions, and of the
\* MicroBlazes of them.
modules(xsa, kinds) == {i \in DOMAIN xsa : xsa[i].of \in kinds}
Cores(xsa, kinds) == {i \in modules(xsa, kinds) : xsa[i].ip \in MicroBlazes}

AllKinds == {"top", "mcs", "other"}

Holds(xsa, kinds, ips) == \E i \in modules(xsa, kinds) : xsa[i].ip \in ips

\* The conventional name first, then a numbered one, then any.
Rank(name) == IF name = "microblaze_0" THEN 0 ELSE IF name \in Numbered THEN 1 ELSE 2

\* The first of the names of the lowest rank (the sort is stable).
Preferred(xsa, I) ==
    LET rank(i) == Rank(xsa[i].inst)
    IN xsa[CHOOSE i \in I :
               \A j \in I : rank(i) < rank(j) \/ (rank(i) = rank(j) /\ i <= j)].inst

OrElse(S, T) == IF S # {} THEN S ELSE T

\* build-vitis.py: the cores of the top description whose name is not of an
\* MCS sub-block.
bv_select_app_microblaze(xsa) ==
    LET all == Cores(xsa, {"top"})
        app == {i \in all : xsa[i].inst \notin McsNames}
    IN IF all = {} THEN "microblaze_0" ELSE Preferred(xsa, OrElse(app, all))

\* Fault seed: the first core of the XSA, of whatever name.
mb_select_app_microblaze_First(xsa) ==
    LET app == Cores(xsa, {"top", "other"})
        all == Cores(xsa, AllKinds)
    IN IF all = {} THEN "microblaze_0" ELSE xsa[Min(OrElse(app, all))].inst

\* make-boot.py: the cores of every description whose file is not of an MCS
\* sub-block.
mb_select_app_microblaze(xsa) ==
    LET app == Cores(xsa, {"top", "other"})
        all == Cores(xsa, AllKinds)
    IN IF all = {} THEN "microblaze_0" ELSE Preferred(xsa, OrElse(app, all))

\* The families in the order they are looked for.
arch_of(xsa, kinds) ==
    IF Holds(xsa, kinds, MicroBlazes) THEN "microblaze"
    ELSE IF Holds(xsa, kinds, {"versal_cips"}) THEN "versal"
    ELSE IF Holds(xsa, kinds, {"zynq_ultra_ps_e"}) THEN "zynqmp"
    ELSE IF Holds(xsa, kinds, {"processing_system7"}) THEN "zynq"
    ELSE "none"

\* build-vitis.py: the application processor of a family is a constant.
bv_detect_arch(xsa) ==
    LET a == arch_of(xsa, {"top"})
    IN [arch |-> a,
        cpu |-> CASE a = "microblaze" -> bv_select_app_microblaze(xsa)
                  [] a = "versal" -> "a72"
                  [] a = "zynqmp" -> "a53"
                  [] a = "zynq" -> "a9"
                  [] OTHER -> "none"]

\* make-boot.py: the R5, when the names in the XSA speak of it and not of the
\* application processor.
ps_core(xsa, own, core) ==
    IF Holds(xsa, AllKinds, R5Named) /\ ~Holds(xsa, AllKinds, own) THEN "r5" ELSE core

mb_detect_arch(xsa) ==
    LET a == arch_of(xsa, AllKinds)
    IN [arch |-> a,
        cpu |-> CASE a = "microblaze" -> mb_select_app_microblaze(xsa)
                  [] a = "versal" -> ps_core(xsa, A72Named, "a72")
                  [] a = "zynqmp" -> ps_core(xsa, A53Named, "a53")
                  [] a = "zynq" -> "a9"
                  [] OTHER -> "none"]

\* The designs the two rules are made for: the application core has its
\* conventional name, or there is no processor outside the top description,
\* no MicroBlaze in it is named like an MCS sub-block, and a name with "r5"
\* in it comes with one of the application processor. (Without that the boot
\* file of a Versal or a Zynq UltraScale+ gets its application for the R5.)
Conventional(xsa) ==
    \/ \E i \in Cores(xsa, {"top"}) : xsa[i].inst = "microblaze_0"
    \/ /\ \A i \in modules(xsa, {"mcs", "other"}) : xsa[i].ip \notin MicroBlazes \cup HardCores
       /\ \A i \in Cores(xsa, {"top"}) : xsa[i].inst \notin McsNames
       /\ Holds(xsa, AllKinds, R5Named) =>
             /\ arch_of(xsa, {"top"}) = "versal" => Holds(xsa, AllKinds, A72Named)
             /\ arch_of(xsa, {"top"}) = "zynqmp" => Holds(xsa, AllKinds, A53Named)
=============================================================================
