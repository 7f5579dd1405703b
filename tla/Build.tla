-------------------------------- MODULE Build --------------------------------
(***************************************************************************)
(* build.py on one target: the stages and what they skip by presence and   *)
(* modification time, the tools they start, which may fail or be killed at *)
(* any time, the ordinary clean, which takes no lock, and clean --keep-boot, *)
(* which computes its plan first and removes under the lock.               *)
(***************************************************************************)
EXTENDS YoctoStage

CONSTANTS MaxRuns, MaxCuts      \* bounds: runs; tools cut short and kills

VARIABLE plan   \* what a keep-boot clean is to remove

vars == <<design, files, newer, stale, run, settled, y, taint, plan, count>>

Init ==
    /\ InitFiles /\ InitRun /\ InitYocto
    /\ plan = {}
    /\ count = [runs |-> 0, cleans |-> 0, cuts |-> 0]

Counted(what) == count' = [count EXCEPT ![what] = @ + 1]

-----------------------------------------------------------------------------
(* main: which commands are refused, and the stages of the others          *)

BUILD_COMMANDS ==
    {"ip", "project", "xsa", "standalone", "cfgmem", "petalinux", "yocto", "package", "all"}

COMMAND_CAPABILITY(cmd) ==
    CASE cmd = "standalone" -> design.baremetal
      [] cmd = "cfgmem" -> design.cfgmem
      [] cmd = "petalinux" -> design.petalinux /\ ~design.windows
      [] cmd = "yocto" -> design.yocto /\ ~design.windows
      [] OTHER -> TRUE

If(cond, s) == IF cond THEN <<Stage(s)>> ELSE <<>>

stages_for(cmd) ==
    CASE cmd \in {"ip", "project", "xsa", "package"} -> <<Stage(cmd)>>
      [] cmd = "all" -> <<Stage("xsa")>> \o If(design.baremetal, "standalone")
                        \o If(design.cfgmem, "cfgmem") \o If(design.petalinux, "petalinux")
                        \o If(design.yocto, "yocto") \o <<Stage("package")>>
      [] OTHER -> <<Stage("xsa"), Stage(cmd)>>

Start ==
    /\ run.cmd = "none" /\ count.runs < MaxRuns
    /\ \E cmd \in BUILD_COMMANDS :
        /\ COMMAND_CAPABILITY(cmd)
        /\ run' = [cmd |-> cmd, todo |-> stages_for(cmd), calm |-> TRUE]
    /\ Counted("runs")
    /\ UNCHANGED <<design, files, newer, stale, settled, y, taint, plan>>

Finish ==
    /\ run.cmd # "none" /\ run.todo = <<>>
    /\ run' = Idle
    /\ settled' = (settled \/ (run.cmd = "all" /\ run.calm))
    /\ UNCHANGED <<design, files, newer, stale, y, taint, plan, count>>

-----------------------------------------------------------------------------
(* The stages                                                              *)

Tools(xs) == [i \in DOMAIN xs |-> Tool(xs[i])]

stage_ip ==
    CASE design.ip = "none" -> Skipped
      [] design.ip = "cores" -> Does([i \in DOMAIN Cores |-> Core(Cores[i])])
      [] design.ip = "board" ->
            IF Has("ip_done") THEN Skipped ELSE Does(Tools(Cores) \o <<Tool("ip_done")>>)

stage_core(c) == IF Has(c) THEN Skipped ELSE Does(<<Tool(c)>>)

stage_project ==
    IF Has("xpr") THEN Skipped ELSE Does(<<Stage("ip"), Tool("xpr")>>)

stage_xsa ==
    IF Has("xsa") THEN Skipped ELSE Does(<<Stage("project"), Tool("xsa")>>)

\* Fault seed: a boot file without its workspace is not taken for finished.
stage_bootfile_NoShortcut ==
    IF ~design.baremetal THEN Skipped ELSE Does(<<Stage("workspace"), Stage("boot")>>)

stage_bootfile ==
    IF ~design.baremetal THEN Skipped
    ELSE IF Has("boot") /\ ~Has("ws") /\ (Has("xsa") => Newer("boot", "xsa")) THEN Skipped
    ELSE Does(<<Stage("workspace"), Stage("boot")>>)

\* An XSA that is gone raises where its time is read.
stage_workspace ==
    IF ~Has("ws") THEN Does(<<Tool("ws")>>)
    ELSE IF ~Has("xsa") \/ Newer("xsa", "ws") \/ ~Has("elf") THEN Fails
    ELSE Skipped

stage_boot ==
    IF Has("boot") /\ Has("elf") /\ Newer("boot", "elf") THEN Skipped
    ELSE Does(<<Tool("boot")>>)

stage_cfgmem ==
    IF ~design.cfgmem THEN Skipped
    ELSE Does(<<Stage("xsa")>> \o If(FlashesApp, "standalone") \o <<Stage("flash")>>)

stage_flash ==
    IF ~Has(cfgmem_src) THEN Fails
    ELSE IF Has("mcs") /\ Newer("mcs", cfgmem_src) THEN Skipped
    ELSE Does(<<Tool("mcs")>>)

stage_petalinux ==
    IF ~design.petalinux \/ design.windows \/ Has("petl") THEN Skipped
    ELSE Does(<<Tool("petl")>>)

\* stage_bootimage: one zip for each flow, or the device image.
stage_package ==
    Does(If(design.baremetal, "bare_zip") \o If(design.petalinux, "petl_zip")
         \o If(design.yocto, "yocto_zip") \o If(~has_software_flow, "bit_zip"))

\* What a zip gathers now.
ZipSources(z) ==
    CASE z = "bare_zip" -> IF Has("boot") THEN vit_boot \cap files ELSE {}
      [] z = "petl_zip" -> {"petl"}
      [] z = "yocto_zip" -> {"yimg"}
      [] z = "bit_zip" -> {"bit"} \cup ({"mcs"} \cap files)

\* Fault seed: a zip is current when it exists.
_zip_current_Exists(z) == Has(z)

_zip_current(z) ==
    Has(z) /\ (ZipSources(z) \subseteq files => \A s \in ZipSources(z) : Newer(z, s))

\* Windows cannot make the Linux images, and a target that was never built
\* has no device image: then there is nothing to gather.
NotGathered(z) == z = "bit_zip" \/ (z \in {"petl_zip", "yocto_zip"} /\ design.windows)

stage_zip(z) ==
    IF _zip_current(z) THEN Skipped
    ELSE IF ZipSources(z) # {} /\ ZipSources(z) \subseteq files THEN Does(<<Tool(z)>>)
    ELSE IF NotGathered(z) THEN Skipped ELSE Fails

STAGE_FUNCS(s) ==
    CASE s = "ip" -> stage_ip
      [] s = "project" -> stage_project
      [] s = "xsa" -> stage_xsa
      [] s = "standalone" -> stage_bootfile
      [] s = "workspace" -> stage_workspace
      [] s = "boot" -> stage_boot
      [] s = "cfgmem" -> stage_cfgmem
      [] s = "flash" -> stage_flash
      [] s = "petalinux" -> stage_petalinux
      [] s = "package" -> stage_package
      [] s \in Zips -> stage_zip(s)

StageNames ==
    {"ip", "project", "xsa", "standalone", "workspace", "boot", "cfgmem", "flash",
     "petalinux", "package"} \cup Zips

RunStage ==
    /\ \/ \E s \in StageNames : At(Stage(s)) /\ Returns(STAGE_FUNCS(s))
       \/ \E c \in Elems(Cores) : At(Core(c)) /\ Returns(stage_core(c))
    /\ UNCHANGED <<design, files, newer, stale, y, taint, plan, count>>

-----------------------------------------------------------------------------
(* The tools. What one writes, in this order, when it ends well; cut short   *)
(* it has written a part of that.                                           *)

Output(x) ==
    CASE x = "xsa" -> <<"bit", "xsa">>
      [] x = "ws" -> <<"ws", "elf">>
      [] x \in {"petl", "petl_again"} -> <<"pwork", "petl">>
      [] OTHER -> <<x>>

ToolNames ==
    {"ip_done", "xpr", "xsa", "ws", "boot", "mcs", "petl", "petl_again"}
        \cup Zips \cup Elems(Cores)

NewXsa(xs) == IF "xsa" \in Elems(xs) THEN [y EXCEPT !.xsa = @ + 1] ELSE y

\* A zip gathers what is there, the others need all they are made from.
CanRun(x) ==
    /\ x = "xsa" => y.xsa < MaxXsa
    /\ IF x \in Zips THEN ZipSources(x) # {} /\ ZipSources(x) \subseteq files
       ELSE \A o \in Elems(Output(x)) : Inputs(o) \subseteq files

RunTool ==
    /\ \E x \in ToolNames :
        /\ At(Tool(x)) /\ CanRun(x)
        /\ Writes(Output(x)) /\ ToolDone
        /\ y' = NewXsa(Output(x))
    /\ UNCHANGED <<design, taint, plan, count>>

\* PetaLinux logged setscene misses as errors and stopped before packaging:
\* the same command once more. (_petalinux_only_setscene_errors)
PetalinuxAgain ==
    /\ At(Tool("petl")) /\ Has("xsa")
    /\ Writes(<<"pwork">>)
    /\ run' = [run EXCEPT !.todo = <<Tool("petl_again")>> \o Tail(@)]
    /\ settled' = FALSE
    /\ UNCHANGED <<design, y, taint, plan, count>>

\* A failed workspace build is removed whole, and updatemem starts with
\* removing the boot bitstream it is to write.
Discarded(x) ==
    CASE x = "ws" -> {"ws", "elf"}
      [] x = "boot" /\ design.family = "microblaze" -> {"boot"}
      [] OTHER -> {}

\* The tool fails, or the run is killed while it runs: nothing is left, or
\* what was written so far.
CutShort ==
    /\ count.cuts < MaxCuts
    /\ \E x \in ToolNames :
        /\ At(Tool(x))
        /\ \/ Removes(Discarded(x)) /\ UNCHANGED y
           \/ \E n \in DOMAIN Output(x) :
                LET xs == SubSeq(Output(x), 1, n)
                IN CanRun(x) /\ Writes(xs) /\ y' = NewXsa(xs)
    /\ FailRun
    /\ Counted("cuts")
    /\ UNCHANGED <<design, taint, plan>>

\* A tool without its inputs fails and leaves nothing.
Refuses ==
    /\ \E x \in ToolNames : At(Tool(x)) /\ ~CanRun(x)
    /\ FailRun
    /\ UNCHANGED <<design, files, newer, stale, y, taint, plan, count>>

\* Ctrl-C between two tools.
Interrupts ==
    /\ run.cmd # "none" /\ count.cuts < MaxCuts
    /\ FailRun
    /\ Counted("cuts")
    /\ UNCHANGED <<design, files, newer, stale, y, taint, plan>>

-----------------------------------------------------------------------------
(* clean                                                                   *)

ywork == {"hw", "configdone"}

clean_paths(scope) ==
    CASE scope = "ip" -> ip_output_paths
      [] scope \in {"project", "xsa"} -> viv_prj
      [] scope = "standalone" -> {"ws", "elf"} \cup vit_boot
      [] scope = "petalinux" -> {"pwork", "petl"}
      [] scope = "yocto" -> ywork \cup {"yimg"}
      [] scope = "package" -> Zips
      [] scope = "all" -> ip_output_paths \cup viv_prj \cup {"ws", "elf"} \cup vit_boot
                          \cup {"pwork", "petl", "yimg"} \cup ywork \cup Zips

Scopes == {"all", "ip", "project", "standalone", "petalinux", "yocto", "package"}

\* The images go with their stamp, and so does what a build of them has done.
Clean ==
    /\ MayMeddle
    /\ \E scope \in Scopes :
        LET gone == clean_paths(scope)
        IN /\ gone \cap files # {}
           /\ Removes(gone)
           /\ IF "yimg" \in gone
              THEN /\ y' = [y EXCEPT !.img = NoInputs, !.stamp = NoInputs, !.cfg = NoInputs,
                                 !.failed = FALSE]
                   /\ taint' = taint \cap {"edit"}
              ELSE UNCHANGED yvars
    /\ Meddled
    /\ Counted("cleans")
    /\ UNCHANGED <<design, plan>>

\* keep_boot_plan: an area is touched when its own deliverable exists. Of the
\* Yocto work tree the build directory comes first.
keep_boot_order ==
    <<"xpr">> \o Cores \o <<"ip_done", "ws", "pwork", "build", "configdone", "hw">>

\* What is there of its paths: there is a build directory once it was configured.
Paths == files \cup IF y.cfg = NoInputs THEN {} ELSE {"build"}

keep_boot_plan ==
    LET built(x) ==
            CASE x = "ws" -> Has("boot")
              [] x = "pwork" -> Has("petl")
              [] x \in ywork \cup {"build"} -> Has("yimg")
              [] OTHER -> Has("xsa")
    IN {x \in Elems(keep_boot_order) \cap Paths : built(x)}

\* What the user is asked about ...
PlanKeepBoot ==
    /\ plan = {} /\ MayMeddle
    /\ plan' = keep_boot_plan /\ plan' # {}
    /\ Counted("cleans")
    /\ UNCHANGED <<design, files, newer, stale, run, settled, y, taint>>

\* The application lies in the workspace.
Trees(S) == S \cup IF "ws" \in S THEN {"elf"} ELSE {}

\* ... is removed, in order, when he has answered and the lock is free. A path
\* that is gone raises, and what is behind it in the plan stays.
Planned(i) == {keep_boot_order[j] : j \in 1 .. i} \cap plan
Reached == {i \in DOMAIN keep_boot_order : Planned(i) \subseteq Paths}

RemovePaths(S) ==
    /\ Removes(S)
    /\ y' = [y EXCEPT !.cfg = IF "build" \in S THEN NoInputs ELSE @]

KeepBoot ==
    /\ plan # {} /\ run.cmd = "none"
    /\ RemovePaths(Trees(UNION {Planned(i) : i \in Reached}))
    /\ plan' = {}
    /\ UNCHANGED <<design, run, settled, taint, count>>

\* The clean is killed on its way, perhaps with the workspace half removed.
KeepBootKilled ==
    /\ plan # {} /\ run.cmd = "none" /\ count.cuts < MaxCuts
    /\ \E i \in Reached, left \in {{}, {"ws"}} : RemovePaths(Trees(Planned(i)) \ left)
    /\ plan' = {} /\ settled' = FALSE
    /\ Counted("cuts")
    /\ UNCHANGED <<design, run, taint>>

\* The user declines, or the run that holds the lock makes the clean skip it.
DropPlan ==
    /\ plan # {} /\ plan' = {}
    /\ UNCHANGED <<design, files, newer, stale, run, settled, y, taint, count>>

Next ==
    \/ Start \/ Finish \/ RunStage \/ RunTool \/ PetalinuxAgain \/ CutShort \/ Refuses \/ Interrupts
    \/ Clean \/ PlanKeepBoot \/ KeepBoot \/ KeepBootKilled \/ DropPlan
    \/ Yocto /\ UNCHANGED <<plan, count>>

Spec == Init /\ [][Next]_vars

-----------------------------------------------------------------------------
(* Properties                                                              *)

\* The zips of the design, but for the one of PetaLinux, whose stage looks at
\* the presence of its images only and never at the XSA.
Shipped ==
    (IF design.baremetal THEN {"bare_zip"} ELSE {})
    \cup (IF design.yocto /\ ~design.windows THEN {"yocto_zip"} ELSE {})
    \cup (IF has_software_flow THEN {} ELSE {"bit_zip"})

\* After an 'all' that nobody disturbed every zip is there and holds what was
\* made from the present XSA and application ("'package' used to skip on the
\* zip's mere existence and kept shipping the old image"), whatever failed,
\* was cleaned or rebuilt before, in whatever order.
ShippedFresh == settled => \A z \in Shipped : Has(z) /\ z \notin stale

\* Once 'all' has ended well, 'all' again writes nothing, also after
\* keep-boot cleans ("'all' is a no-op"): no run of it runs a tool, changes a
\* file or adopts a stamp, unless the user stops it or meddles.
NoopWhenSettled ==
    [][settled /\ run.cmd = "all" /\ run.calm
         => (settled' /\ UNCHANGED <<files, newer, y>>) \/ Meddled \/ Interrupts]_vars

\* Yocto trees of a build that did not end well are kept: an "unfinished or
\* failed build keeps its intermediates (a Yocto tree is hours to redo)".
KeepsYoctoTree ==
    [][KeepBoot /\ plan = keep_boot_plan /\ y.failed
       => ywork \cap files \subseteq files']_vars
=============================================================================
