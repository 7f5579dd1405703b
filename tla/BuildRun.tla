------------------------------- MODULE BuildRun -------------------------------
(***************************************************************************)
(* One run of build.py on its target, which it holds the lock of (module   *)
(* BuildLock has the lock itself). A stage may call other stages, so what  *)
(* is left to do is a stack: "stage" and "core" entries decide, "tool"     *)
(* entries start a tool that may succeed, fail, or be killed.              *)
(***************************************************************************)
EXTENDS BuildFiles

VARIABLES
    run,        \* the command, its stack; calm: nobody meddled with the target
    settled     \* history: a calm 'all' ended well; since then only keep-boot
                \* cleans and runs that found nothing to do

rvars == <<run, settled>>

Idle == [cmd |-> "none", todo |-> <<>>, calm |-> TRUE]

InitRun == run = Idle /\ settled = FALSE

Stage(s) == <<"stage", s>>
Core(c) == <<"core", c>>
Tool(x) == <<"tool", x>>
At(entry) == run.todo # <<>> /\ Head(run.todo) = entry

\* What a stage comes to: the entries to do in its place, none when it is
\* skipped, or a BuildError (fail).
Does(entries) == [ok |-> TRUE, todo |-> entries]
Skipped == Does(<<>>)
Fails == [ok |-> FALSE, todo |-> <<>>]

\* A BuildError, as any other error, ends the run.
FailRun == run' = Idle /\ settled' = FALSE

Returns(r) ==
    IF r.ok
    THEN /\ run' = [run EXCEPT !.todo = r.todo \o Tail(@)]
         /\ UNCHANGED settled
    ELSE FailRun

\* A tool changed files: what 'all' left is not untouched any more.
ToolDone ==
    /\ run' = [run EXCEPT !.todo = Tail(@)]
    /\ settled' = FALSE

\* Somebody else changes an input or the files of the target.
Meddled == run' = [run EXCEPT !.calm = FALSE] /\ settled' = FALSE
=============================================================================
