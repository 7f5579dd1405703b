------------------------------ MODULE VitisApp ------------------------------
(***************************************************************************)
(* The two scripts that make the application of a target: build-vitis.py   *)
(* sets up a new Vitis workspace, builds the platform and the application  *)
(* in it, make-boot.py turns its ELF and the hardware image into the boot  *)
(* file. The tools they call may fail in every way the scripts look for.   *)
(* build.py removes a workspace whose build failed, and starts each build  *)
(* in a new one.                                                           *)
(***************************************************************************)
EXTENDS AppCore, LinkerScript, EmbeddedSw

CONSTANTS
    Configs,    \* the XSA, the entries of args.json and data.json, and what is on disk
    Domains,    \* the lists of domains a platform may have
    Scripts0,   \* the linker scripts the tools generate
    MaxApps     \* bound on the applications built

ASSUME VitisAssumption ==
    /\ \A c \in Configs : c.xsa \in Seq([inst : STRING, ip : STRING, of : AllKinds])
    /\ \A ld \in Scripts0 : ld \in [mems : Seq(STRING), at : [Sections -> STRING]]

VARIABLE vit

NoBoot == [elf |-> 0, core |-> "none"]
NoApp ==
    [at |-> "idle", cfg |-> <<>>, arch |-> "none", cpu |-> "none", esw |-> <<>>,
     domain |-> "none", ld |-> <<>>, app |-> 0, boot |-> NoBoot]

StartApps == {[NoApp EXCEPT !.at = "rest", !.cfg = c] : c \in Configs}

\* die() or an exception of a tool: the workspace is removed.
Dies == [vit EXCEPT !.at = "failed"]

-----------------------------------------------------------------------------
(* build-vitis.py, main                                                     *)

detect_arch_and_cpu_from_xsa ==
    /\ vit.at \in {"rest", "booted", "boot failed"} /\ vit.app < MaxApps
    /\ LET d == bv_detect_arch(vit.cfg.xsa) IN
       vit' = IF d.arch = "none" THEN Dies
              ELSE [vit EXCEPT !.at = "esw", !.arch = d.arch, !.cpu = d.cpu]

setup_workspace ==
    /\ vit.at = "esw"
    /\ vit' = [vit EXCEPT !.at = "dtsi", !.esw = setup_embeddedsw(vit.arch)]

\* A User DTS that is asked for has to be there, checked in or composed; it
\* is resolved before the platform exists.
resolve_user_dtsi ==
    /\ vit.at = "dtsi"
    /\ vit' = IF vit.cfg.dtsi = "missing" THEN Dies ELSE [vit EXCEPT !.at = "platform"]

\* The domain of the processor, or the first that is not a boot domain, or
\* the first.
pick_domain(doms, cpu) ==
    LET App == {i \in DOMAIN doms : ~doms[i].boot}
        Own == {i \in App : doms[i].cpu = cpu}
    IN doms[Min(OrElse(Own, OrElse(App, DOMAIN doms)))].name

\* The platform is created and built; the tool fails, or leaves no .xpfm.
create_platform ==
    /\ vit.at = "platform"
    /\ \/ vit' = Dies
       \/ \E doms \in Domains :
            vit' = IF doms = <<>> THEN Dies
                   ELSE [vit EXCEPT !.at = "app", !.domain = pick_domain(doms, vit.cpu)]

\* The application is created, with the tools' linker script, its sources
\* are copied and board.h written.
create_app ==
    /\ vit.at = "app"
    /\ \E ld \in Scripts0 : vit' = [vit EXCEPT !.at = "link before", !.ld = ld]

\* args.json asks for a modification for some architectures.
linker_mod == IF vit.arch \in DOMAIN vit.cfg.mods THEN vit.cfg.mods[vit.arch] ELSE "none"

link_before ==
    /\ vit.at = "link before"
    /\ vit' = [vit EXCEPT !.at = "sizes",
                          !.ld = IF linker_mod \in LINKER_MODS_AFTER_SIZES THEN @
                                 ELSE modify_linker_script(@, linker_mod)]

\* The sizes asked for the architecture, or for every one (resolve_size_option).
sizes == IF vit.arch \in DOMAIN vit.cfg.sizes THEN vit.cfg.sizes[vit.arch] ELSE {}

set_sizes ==
    /\ vit.at = "sizes"
    /\ \E S \in SUBSET sizes, mem \in Range(vit.ld.mems) :
            vit' = [vit EXCEPT !.at = "link after", !.ld = Sized(@, S, mem)]

link_after ==
    /\ vit.at = "link after"
    /\ vit' = [vit EXCEPT !.at = "build",
                          !.ld = IF linker_mod \in LINKER_MODS_AFTER_SIZES
                                 THEN modify_linker_script(@, linker_mod) ELSE @]

\* app.build: the ELF decides; a pre-build script may have failed before.
build_app ==
    /\ vit.at = "build"
    /\ \/ vit' = Dies
       \/ vit' = [vit EXCEPT !.at = "built", !.app = @ + 1]

\* The next run of build.py starts with a new workspace.
workspace_removed ==
    /\ vit.at = "failed" /\ vit.app < MaxApps
    /\ vit' = [vit EXCEPT !.at = "rest", !.esw = <<>>, !.ld = <<>>]

-----------------------------------------------------------------------------
(* make-boot.py                                                             *)

\* What updatemem does, and what can be seen of it.
Outcomes == [rc : {0, 1}, error : BOOLEAN, wrote : BOOLEAN]

Image(core) == [elf |-> vit.app, core |-> core]

\* Fault seed: an old output is left where updatemem is to write.
make_mb_bit_Stale(core) ==
    IF "bit" \notin vit.cfg.impl \/ (vit.cfg.combine /\ {"mmi", "xsa mmi"} \cap vit.cfg.impl = {})
    THEN vit' = [vit EXCEPT !.at = "boot failed"]
    ELSE \E o \in Outcomes :
            LET out == IF o.wrote THEN Image(core) ELSE vit.boot
            IN vit' = [vit EXCEPT !.boot = out,
                           !.at = IF o.rc # 0 \/ o.error \/ out = NoBoot
                                  THEN "boot failed" ELSE "booted"]

\* The bitstream, with the ELF put in by updatemem: its exit code says little,
\* so the old output is removed first and the new one has to be there. Without
\* combine the ELF is copied beside the bitstream.
make_mb_bit(core) ==
    IF "bit" \notin vit.cfg.impl \/ (vit.cfg.combine /\ {"mmi", "xsa mmi"} \cap vit.cfg.impl = {})
    THEN vit' = [vit EXCEPT !.at = "boot failed"]
    ELSE IF ~vit.cfg.combine THEN vit' = [vit EXCEPT !.boot = Image(core), !.at = "booted"]
    ELSE \E o \in Outcomes :
            LET out == IF o.wrote THEN Image(core) ELSE NoBoot
            IN vit' = [vit EXCEPT !.boot = out,
                           !.at = IF o.rc # 0 \/ o.error \/ out = NoBoot
                                  THEN "boot failed" ELSE "booted"]

\* BOOT.BIN: the device image of the application build, or of Vivado, and for
\* the Zynqs the first-stage loader; bootgen's exit code is trusted.
run_bootgen(arch, core) ==
    LET needs == IF arch = "versal" THEN {"pdi", "app pdi"} ELSE {"bit", "app bit"}
        found == /\ needs \cap vit.cfg.impl # {}
                 /\ arch = "versal" \/ "fsbl" \in vit.cfg.impl
    IN \/ vit' = [vit EXCEPT !.at = "boot failed"]
       \/ found /\ vit' = [vit EXCEPT !.boot = Image(core), !.at = "booted"]

\* It may be run again after a failure.
make_boot ==
    /\ vit.at \in {"built", "boot failed"}
    /\ LET d == mb_detect_arch(vit.cfg.xsa) IN
       IF d.arch = "microblaze" THEN make_mb_bit(d.cpu) ELSE run_bootgen(d.arch, d.cpu)

VitisNext ==
    \/ detect_arch_and_cpu_from_xsa \/ setup_workspace \/ resolve_user_dtsi \/ create_platform
    \/ create_app \/ link_before \/ set_sizes \/ link_after \/ build_app \/ workspace_removed
    \/ make_boot

-----------------------------------------------------------------------------
\* The repository of drivers an application is built with is whole for its
\* architecture, each file from where the patches say.
DriversWhole == vit.at \in {"build", "built"} => Whole(vit.esw, vit.arch)

\* An application that is to boot from the bitstream is linked so that all
\* that updatemem can embed is in the local memory, and .bss and .heap in DDR
\* ("so that nothing rewrites the regions afterwards"), when its script has
\* both memories; whatever the API does to the stack and the heap in between.
LinkedAsAsked ==
    /\ vit.at \in {"build", "built"} /\ linker_mod = "code_local_bss_ddr"
    /\ InScript(vit.ld, LocalMems) # {} /\ InScript(vit.ld, DdrMems) # {}
    => \A s \in Sections :
          vit.ld.at[s] \in IF s \in CODE_LOCAL_DDR_SECTIONS THEN DdrMems ELSE LocalMems

\* When make-boot.py reports success the boot file holds the application just
\* built, whatever the tools wrote, said and returned, now or the time before.
BootIsNew == vit.at = "booted" => vit.boot.elf = vit.app

\* The application is put into the processor it was built for: the rules by
\* which the two scripts find it agree on the designs they are made for
\* (Conventional; on others they do not).
SameCore == vit.at = "booted" /\ Conventional(vit.cfg.xsa) => vit.boot.core = vit.cpu

\* The application can run where it is put: linked for the memories that are
\* embedded, and embedded in the processor it was built for.
PlacedToRun == LinkedAsAsked /\ SameCore
=============================================================================
