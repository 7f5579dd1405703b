------------------------------ MODULE BuildFiles ------------------------------
(***************************************************************************)
(* The files build.py decides by (class Context) and what is known of      *)
(* them. The runner looks at presence and modification times only: files   *)
(* are the artifacts that exist, newer is the order of their times. The    *)
(* history variable stale tells what the runner cannot see: the artifacts  *)
(* not made from the present version of what they are made from. A file a  *)
(* tool cut short counts as written.                                       *)
(***************************************************************************)
EXTENDS Naturals, FiniteSets, Sequences

CONSTANTS
    Designs,    \* the entries of data.json: family, flows, and host
    Cores       \* the HLS cores of a repository with an IP pre-stage, in order

ASSUME DesignsAssumption ==
    Designs \subseteq [family : {"microblaze", "versal"}, ip : {"none", "cores", "board"},
                       baremetal : BOOLEAN, cfgmem : BOOLEAN, petalinux : BOOLEAN,
                       yocto : BOOLEAN, windows : BOOLEAN]

VARIABLES
    design,     \* the design of the target
    files,      \* the artifacts that exist
    newer,      \* the pairs of them of which the first was written after the second
    stale       \* history: those that are out of date

fvars == <<files, newer, stale>>

Elems(xs) == {xs[i] : i \in DOMAIN xs}

Zips == {"bare_zip", "petl_zip", "yocto_zip", "bit_zip"}
TargetFiles ==
    {"ip_done", "xpr", "xsa", "bit", "ws", "elf", "boot", "mcs", "pwork", "petl",
     "hw", "configdone", "conf", "yimg"} \cup Zips
Artifacts == TargetFiles \cup Elems(Cores)

\* The cores have directories of their own, and names that are no other step's.
ASSUME CoresAssumption ==
    /\ Cores \in Seq(STRING)
    /\ Elems(Cores) \cap (TargetFiles \cup {"bitbake", "stamp", "petl_again", "build"}) = {}

InitFiles == design \in Designs /\ newer = {} /\ stale = {}

Has(x) == x \in files

\* x.stat().st_mtime > y.stat().st_mtime (no two are written at one time)
Newer(x, y) == <<x, y>> \in newer

has_software_flow == design.baremetal \/ design.petalinux \/ design.yocto

\* A MicroBlaze target boots its application from the flash too, and keeps
\* the flash image in the Vitis boot directory.
FlashesApp == design.family = "microblaze" /\ design.baremetal
cfgmem_src == IF FlashesApp THEN "boot" ELSE "bit"

ip_output_paths ==
    CASE design.ip = "none" -> {}
      [] design.ip = "cores" -> Elems(Cores)
      [] design.ip = "board" -> Elems(Cores) \cup {"ip_done"}

\* The directory Vivado/<target> and the Vitis boot directory.
viv_prj == {"xpr", "xsa", "bit"} \cup (IF FlashesApp THEN {} ELSE {"mcs"})
vit_boot == {"boot"} \cup (IF FlashesApp THEN {"mcs"} ELSE {})

-----------------------------------------------------------------------------
(* What is made from what. The project and the IP are made from the         *)
(* checked-in sources, which a run does not change.                         *)

Inputs(x) ==
    CASE x \in {"ws", "elf", "petl"} -> {"xsa"}
      [] x = "boot" -> {"elf"}
      [] x = "mcs" -> {cfgmem_src}
      [] x = "bare_zip" -> vit_boot
      [] x = "bit_zip" -> {"bit", "mcs"}
      [] x = "petl_zip" -> {"petl"}
      [] x = "yocto_zip" -> {"yimg"}
      [] OTHER -> {}

\* Everything made from S, in one step or more: what is made takes at most four.
MadeFrom(S) == {x \in Artifacts : Inputs(x) \cap S # {}}
OneStep(S) == S \cup MadeFrom(S)
Downstream(S) == MadeFrom(OneStep(OneStep(OneStep(S))))

\* The artifacts of xs that are built on one of S.
BuiltOn(xs, S) == {x \in Elems(xs) : Inputs(x) \cap S # {}}

\* xs get new times, in this order.
Touches(xs) ==
    /\ files' = files \cup Elems(xs)
    /\ newer' = {p \in newer : p[1] \notin Elems(xs) /\ p[2] \notin Elems(xs)}
                \cup (Elems(xs) \X (files \ Elems(xs)))
                \cup {p \in Elems(xs) \X Elems(xs) :
                        \E i, j \in DOMAIN xs : i > j /\ p = <<xs[i], xs[j]>>}

Drops(S) ==
    /\ files' = files \ S
    /\ newer' = {p \in newer : p[1] \notin S /\ p[2] \notin S}

\* xs are written, in this order.
Writes(xs) ==
    /\ Touches(xs)
    /\ stale' = (stale \ Elems(xs)) \cup (files \cap Downstream(Elems(xs))) \cup BuiltOn(xs, stale)

Removes(S) == Drops(S) /\ stale' = stale \ S
=============================================================================
