------------------------------ MODULE MCBuild ------------------------------
(* The two targets of data.json, and one of each kind the runner also knows. *)
EXTENDS Build
D(family, ip, flows, windows) ==
    [family |-> family, ip |-> ip, baremetal |-> "baremetal" \in flows,
     cfgmem |-> "cfgmem" \in flows, petalinux |-> "petalinux" \in flows,
     yocto |-> "yocto" \in flows, windows |-> windows]
MCDesigns ==
    {D("microblaze", "none", {"baremetal", "cfgmem"}, FALSE),
     D("versal", "none", {"baremetal"}, FALSE),
     D("versal", "cores", {"cfgmem"}, FALSE),
     D("versal", "none", {"yocto"}, FALSE),
     D("microblaze", "board", {"petalinux"}, FALSE),
     D("versal", "none", {"petalinux", "yocto"}, TRUE)}
MCCores == <<"core_a", "core_b">>
=============================================================================
