----------------------------- MODULE EmbeddedSw -----------------------------
(***************************************************************************)
(* setup_embeddedsw of build-vitis.py: a repository of drivers is put      *)
(* together in the new workspace from the patches of the project, those    *)
(* for the architecture over those for every target, and the rest of each  *)
(* patched component from the installation. A file is a component, one of  *)
(* its directories and a name; a repository tells for each file where it   *)
(* was taken from.                                                         *)
(***************************************************************************)
EXTENDS Naturals

CONSTANTS
    Install,    \* the files of the installation
    Patches,    \* the files of EmbeddedSw/
    ArchPatches \* for some architectures, the files of EmbeddedSw.<arch>/

Filled == {"src", "data"}

Component(f) == f[1]
Dir(f) == <<f[1], f[2]>>
DirsOf(S) == {Dir(f) : f \in S}

ArchOverlay(arch) == IF arch \in DOMAIN ArchPatches THEN ArchPatches[arch] ELSE {}

\* Step 1: the overlays in order, later files win.
Patched(arch) ==
    [f \in Patches \cup ArchOverlay(arch) |-> IF f \in ArchOverlay(arch) THEN arch ELSE "repo"]

\* Step 2: the src and data directories that are there, and their siblings
\* that only the installation has.
local_dirs(esw) ==
    LET touched == {Component(f) : f \in DOMAIN esw} IN
    {d \in DirsOf(DOMAIN esw) : d[2] \in Filled}
        \cup {d \in DirsOf(Install) : d[1] \in touched /\ d[2] \in Filled}

\* Fault seed: filling in overwrites the patches.
FilledIn_Over(esw) ==
    LET new == {f \in Install : Dir(f) \in local_dirs(esw)}
    IN [f \in DOMAIN esw \cup new |-> IF f \in new THEN "install" ELSE esw[f]]

\* Step 3: each is filled from the installation, without overwriting.
FilledIn(esw) ==
    LET new == {f \in Install : Dir(f) \in local_dirs(esw)} \ DOMAIN esw
    IN [f \in DOMAIN esw \cup new |-> IF f \in new THEN "install" ELSE esw[f]]

setup_embeddedsw(arch) == FilledIn(Patched(arch))

-----------------------------------------------------------------------------
\* What a repository has to be for an architecture: the patches made for it
\* and only those, and no component with a hole that the installation's copy
\* would have filled.
Whole(esw, arch) ==
    /\ \A f \in DOMAIN esw :
          esw[f] = IF f \in ArchOverlay(arch) THEN arch
                   ELSE IF f \in Patches THEN "repo" ELSE "install"
    /\ Patches \cup ArchOverlay(arch) \subseteq DOMAIN esw
    /\ \A f \in Install :
          f[2] \in Filled /\ (\E g \in DOMAIN esw : Component(g) = Component(f)) => f \in DOMAIN esw
=============================================================================
