------------------------------ MODULE YoctoStage ------------------------------
(***************************************************************************)
(* stage_yocto of build.py: the rebuild test by content hashes, and the    *)
(* sequence of scripts with their done-marker. The inputs are the board    *)
(* configuration (local.conf.append, bblayers-extra.txt) and the port-     *)
(* config overlay, which are the configure script's, the recipes, which    *)
(* bitbake reads, and the XSA. An input is known by the edit that made it, *)
(* whose text may be that of an earlier one: an edit can be undone. Edits  *)
(* come at any time, also while the stage runs. What the stage hashes is   *)
(* the text; the number tells which images are really made of what. An XSA *)
(* is known by a number alone, since it never comes out the same again.    *)
(***************************************************************************)
EXTENDS BuildRun

CONSTANTS
    Contents, CheckedOut, Absent,   \* texts of an input: any, the first, none at all
    MaxXsa, MaxMeddles              \* bounds: XSAs built; edits and cleans together

ASSUME ContentsAssumption == CheckedOut \in Contents /\ Absent \notin Contents

VARIABLES
    y,          \* text: of each edit; conf, recipe, port, xsa: what is there; hw:
                \* the handoff, 0 if torn; snap, baked: of the running build; cfg:
                \* of the build directory; img and stamp: of images/linux; failed:
                \* the last build of the images did not come to its end (history)
    taint       \* history: "conf": the build directory was configured from a
                \* configuration other than it seems; "image": and the images
                \* were built so; "package": they are of two builds; "unstamped";
                \* "edit": an input was edited since the snapshot; "apart": the
                \* images are not of the build that wrote the stamp, or such

VARIABLE count  \* of the bounded things: runs, cleans and their plans, tools cut short

yvars == <<y, taint>>

NoInputs == [conf |-> 0, recipe |-> 0, port |-> 0, xsa |-> 0]

InitYocto ==
    /\ y = [text |-> <<CheckedOut>>, conf |-> 1, recipe |-> 1, port |-> 1, xsa |-> 0,
            hw |-> 0, cfg |-> NoInputs,
            snap |-> NoInputs, baked |-> NoInputs, img |-> NoInputs, stamp |-> NoInputs,
            failed |-> FALSE]
    /\ taint = {}
    /\ files = IF design.yocto THEN {"conf"} ELSE {}

yocto_inputs ==
    [conf |-> y.conf, recipe |-> y.recipe, port |-> y.port, xsa |-> IF Has("xsa") THEN y.xsa ELSE 0]

Edited == {"conf", "recipe", "port"}

Text(edit) == IF edit \in DOMAIN y.text THEN y.text[edit] ELSE Absent

\* The XSA is compared only when both sides have it.
yocto_input_changes(stamp, current) ==
    \/ \E f \in Edited : Text(stamp[f]) # Text(current[f])
    \/ stamp.xsa # 0 /\ current.xsa # 0 /\ stamp.xsa # current.xsa

UpToDate == Has("yimg") /\ ~yocto_input_changes(y.stamp, yocto_inputs)

\* Fault seed: the inputs are hashed when the images are done.
YoctoSteps_Late ==
    <<Stage("xsa"), Tool("hw"), Stage("configure"), Tool("bitbake"), Tool("yimg"),
      Stage("snapshot"), Tool("stamp")>>

YoctoSteps ==
    <<Stage("xsa"), Stage("snapshot"), Tool("hw"), Stage("configure"), Tool("bitbake"),
      Tool("yimg"), Tool("stamp")>>

\* Images without a stamp are adopted as current, and so is an XSA that the
\* stamp does not have.
StageYocto ==
    /\ At(Stage("yocto"))
    /\ LET adopts == design.yocto /\ ~design.windows /\ Has("yimg")
                     /\ (y.stamp = NoInputs \/ (UpToDate /\ y.stamp.xsa = 0))
       IN y' = IF adopts THEN [y EXCEPT !.stamp = yocto_inputs] ELSE y
    /\ Returns(IF ~design.yocto \/ design.windows THEN Skipped
               ELSE IF Has("yimg") /\ (y.stamp = NoInputs \/ UpToDate) THEN Skipped
               ELSE Does(YoctoSteps))
    /\ UNCHANGED fvars /\ UNCHANGED <<design, taint>>

YoctoSnapshot ==
    /\ At(Stage("snapshot")) /\ Returns(Skipped)
    /\ y' = [y EXCEPT !.snap = yocto_inputs]
    /\ taint' = taint \ {"edit"}
    /\ UNCHANGED fvars /\ UNCHANGED design

\* The hardware handoff is copied when it is older than the XSA.
CopiesHandoff == Has("xsa") /\ (~Has("hw") \/ Newer("xsa", "hw"))

YoctoHandoff ==
    /\ At(Tool("hw"))
    /\ IF ~Has("xsa") THEN Returns(Fails) /\ UNCHANGED fvars /\ UNCHANGED yvars
       ELSE IF CopiesHandoff
       THEN Writes(<<"hw">>) /\ ToolDone /\ y' = [y EXCEPT !.hw = y.xsa] /\ UNCHANGED taint
       ELSE Returns(Skipped) /\ UNCHANGED fvars /\ UNCHANGED yvars
    /\ UNCHANGED design

\* The done-marker is older than one of the files the script is run again for;
\* the port-config overlay is not among them.
MustConfigure ==
    ~Has("configdone") \/ \E d \in {"hw", "conf"} : Has(d) /\ Newer(d, "configdone")

\* configure-build.sh reads the configuration and the handoff ...
YoctoConfigure ==
    /\ At(Stage("configure"))
    /\ IF MustConfigure
       THEN /\ y' = [y EXCEPT !.cfg = [conf |-> y.conf, recipe |-> 0, port |-> y.port, xsa |-> y.hw]]
            /\ taint' = taint \ {"conf"}
            /\ Returns(Does(<<Tool("configdone")>>))
       ELSE Returns(Skipped) /\ UNCHANGED yvars
    /\ UNCHANGED fvars /\ UNCHANGED design

\* ... and the marker is written when it has ended, not on a torn XSA.
YoctoConfigured ==
    /\ At(Tool("configdone")) /\ Has("hw") /\ y.hw # 0 /\ Writes(<<"configdone">>) /\ ToolDone
    /\ UNCHANGED yvars /\ UNCHANGED design

\* The scripts after it need the workspace that a clean may have taken away, or
\* the build directory out of it.
YoctoBitbake ==
    /\ At(Tool("bitbake")) /\ Has("configdone") /\ y.cfg # NoInputs /\ ToolDone
    /\ y' = [y EXCEPT !.baked = [y.cfg EXCEPT !.recipe = y.recipe]]
    /\ UNCHANGED fvars /\ UNCHANGED <<design, taint>>

YoctoPackage ==
    /\ At(Tool("yimg")) /\ Has("configdone") /\ Writes(<<"yimg">>) /\ ToolDone
    /\ y' = [y EXCEPT !.img = y.baked, !.failed = FALSE]
    /\ taint' = (taint \cap {"conf", "unstamped", "edit"}) \cup {"apart"}
                \cup (IF "conf" \in taint THEN {"image"} ELSE {})
                \cup (IF y.stamp = NoInputs THEN {"unstamped"} ELSE {})
    /\ UNCHANGED design

YoctoStamp ==
    /\ At(Tool("stamp")) /\ ToolDone
    /\ y' = [y EXCEPT !.stamp = IF Has("yimg") THEN y.snap ELSE @]
    /\ taint' = taint \ ({"unstamped", "edit"} \cup IF "edit" \in taint THEN {} ELSE {"apart"})
    /\ UNCHANGED fvars /\ UNCHANGED design

\* A script of the flow fails, or the run is killed in it. In the packaging
\* this leaves images of two builds, or too few images to count; in the copy of
\* the handoff, half a file with the time of now.
YoctoFails ==
    /\ \E x \in {"hw", "configdone", "bitbake", "yimg", "stamp"} : At(Tool(x))
    /\ FailRun
    /\ \/ UNCHANGED fvars /\ y' = [y EXCEPT !.failed = @ \/ ~At(Tool("stamp"))]
       \/ /\ At(Tool("hw")) /\ CopiesHandoff
          /\ Writes(<<"hw">>) /\ y' = [y EXCEPT !.failed = TRUE, !.hw = 0]
    /\ taint' = IF At(Tool("yimg")) THEN taint \cup {"package"} ELSE taint
    /\ UNCHANGED design

\* The user edits an input, or removes the configuration, at any time. The
\* marker hides an edit made while the script runs, a file that is gone, and any
\* edit of the overlay.
Edits == Len(y.text) - 1
MayMeddle == Edits + count.cleans < MaxMeddles

EditTo(f, text) ==
    y' = [y EXCEPT !.text = Append(@, text), ![f] = Len(y.text) + 1]

Edit ==
    /\ design.yocto /\ MayMeddle
    /\ \E text \in Contents, hidden \in {{}, {"conf"}} :
        /\ \/ EditTo("recipe", text) /\ UNCHANGED <<files, newer>> /\ hidden = {}
           \/ EditTo("port", text) /\ UNCHANGED <<files, newer>> /\ hidden = {"conf"}
           \/ /\ EditTo("conf", text) /\ Touches(<<"conf">>)
              /\ hidden = IF At(Tool("configdone")) THEN {"conf"} ELSE {}
           \/ EditTo("conf", Absent) /\ Drops({"conf"}) /\ hidden = {"conf"}
        /\ taint' = taint \cup hidden \cup
                    IF Tool("stamp") \in Elems(run.todo) THEN {"edit"} ELSE {}
    /\ Meddled
    /\ UNCHANGED <<design, stale>>

Yocto ==
    \/ StageYocto \/ YoctoSnapshot \/ YoctoHandoff \/ YoctoConfigure \/ YoctoConfigured
    \/ YoctoBitbake \/ YoctoPackage \/ YoctoStamp \/ YoctoFails \/ Edit

-----------------------------------------------------------------------------
\* Images that the next run would report as up to date are built from what the
\* inputs hold ("Yocto inputs these images were built from"), whatever was edited
\* and undone before and after their build. Not so when the configuration or the
\* overlay was changed behind the marker's back, packaging was cut short, or they
\* were there without a stamp. When an input was edited while they were built, or
\* their stamp was not written, the inputs have to be those of the stamp: an edit
\* that was undone since reads as no change, though the images may hold it.
YoctoTruthful ==
    /\ UpToDate /\ y.stamp # NoInputs /\ taint \subseteq {"conf", "edit", "apart"}
    /\ "apart" \in taint => \A f \in Edited : y.stamp[f] = y[f]
    => ~yocto_input_changes(y.img, yocto_inputs)
=============================================================================
