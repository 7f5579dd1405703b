------------------------------ MODULE BuildLock ------------------------------
(***************************************************************************)
(* The per-target lock of build.py and the loop over targets that takes it *)
(* (BuildLock, run_target, the end of main). Several build.py processes,   *)
(* on several hosts that share the checkout, walk the same targets; each   *)
(* takes <target>.lock, runs its stages, and removes the lock. The calls   *)
(* on the file are steps of their own: exists, read_text with the test of  *)
(* the pid it names, unlink, the open of write_text that creates or        *)
(* empties the file, and its write. A file that is unlinked while open     *)
(* keeps its writer but is in the directory no more; a write over the text *)
(* of another may leave a part of that text behind its own.                *)
(***************************************************************************)
EXTENDS Naturals, FiniteSets

CONSTANTS
    Procs,          \* the processes; each is one build.py run and one pid
    Host,           \* the host a process runs on
    KeepBootRuns,   \* those that run clean --keep-boot; the others build
    LastTarget,     \* the targets are 1 .. LastTarget, in the order of data.json
    NoProc,         \* no file, or a file without a pid in it
    Garbled,        \* the text of a file two processes have written to
    MaxReuse        \* bound: pids of ended processes given to other programs

ASSUME LockAssumption ==
    /\ Procs # {} /\ NoProc # Garbled /\ {NoProc, Garbled} \cap Procs = {}
    /\ Host \in [Procs -> STRING]
    /\ KeepBootRuns \subseteq Procs
    /\ LastTarget \in Nat \ {0}
    /\ MaxReuse \in Nat

Targets == 1 .. LastTarget

Builders == Procs \ KeepBootRuns

VARIABLES
    file,       \* the lock file of a target, known by the process that created it
    pid,        \* the pid in that file
    at,         \* where a process is
    cur,        \* the target it is at
    fd,         \* the lock file it has open or made
    result,     \* results[t] of its summary
    exit,       \* its exit code
    alien,      \* the pids that name a program that is not a build any more
    met         \* history: the targets two processes tried to take at one time

lock_vars == <<file, pid, at, cur, fd, result, exit, alien, met>>

Window == {"read", "reclaim", "create", "write"}
Held == {"stage", "release"}
Places == {"look", "done"} \cup Window \cup Held
Results == {"none", "ok", "failed", "skipped"}
ExitCodes == {"running", "0", "1", "3", "killed"}

LockInit ==
    /\ file = [t \in Targets |-> NoProc]
    /\ pid = [t \in Targets |-> NoProc]
    /\ at = [p \in Procs |-> "look"]
    /\ cur = [p \in Procs |-> 1]
    /\ fd = [p \in Procs |-> NoProc]
    /\ result = [p \in Procs |-> [t \in Targets |-> "none"]]
    /\ exit = [p \in Procs |-> "running"]
    /\ alien = {}
    /\ met = {}

-----------------------------------------------------------------------------
(* The loop of main.                                                       *)

\* Fault seed: a run that skipped a target says that it built all of them.
ExitCode_NoSkips(p, r) ==
    IF p \notin KeepBootRuns /\ \E t \in Targets : r[t] = "failed" THEN "1" ELSE "0"

ExitCode(p, r) ==
    IF p \in KeepBootRuns THEN "0"
    ELSE IF \E t \in Targets : r[t] = "failed" THEN "1"
    ELSE IF \E t \in Targets : r[t] = "skipped" THEN "3"
    ELSE "0"

\* The process is through with its target, whose result is r.
Advance(p, r) ==
    /\ result' = [result EXCEPT ![p][cur[p]] = r]
    /\ IF cur[p] = LastTarget
       THEN /\ at' = [at EXCEPT ![p] = "done"]
            /\ exit' = [exit EXCEPT ![p] = ExitCode(p, result'[p])]
            /\ UNCHANGED cur
       ELSE /\ at' = [at EXCEPT ![p] = "look"]
            /\ cur' = [cur EXCEPT ![p] = @ + 1]
            /\ UNCHANGED exit

Goto(p, place) ==
    /\ at' = [at EXCEPT ![p] = place]
    /\ UNCHANGED <<cur, result, exit>>

Acquiring(p, t) == cur[p] = t /\ at[p] \in Window

\* A lock with no pid in it, or none left to read, counts as abandoned. Behind
\* two texts stands the name of no host: it reads as a lock of another machine.
_pid_alive(q) == at[q] # "done" \/ q \in alien

\* Fault seed: a lock of this host is always taken for a stale one.
Locked_Foreign(p, q) == q = Garbled \/ (q # NoProc /\ Host[q] # Host[p])

Locked(p, q) == q = Garbled \/ (q # NoProc /\ (Host[q] # Host[p] \/ _pid_alive(q)))

-----------------------------------------------------------------------------
(* BuildLock.acquire                                                       *)

Look(p) ==
    /\ at[p] = "look"
    /\ Goto(p, IF file[cur[p]] = NoProc THEN "create" ELSE "read")
    /\ met' = IF \E q \in Procs : Acquiring(q, cur[p]) THEN met \cup {cur[p]} ELSE met
    /\ UNCHANGED <<file, pid, fd, alien>>

Read(p) ==
    /\ at[p] = "read"
    /\ IF Locked(p, pid[cur[p]]) THEN Advance(p, "skipped") ELSE Goto(p, "reclaim")
    /\ UNCHANGED <<file, pid, fd, alien, met>>

Unlink(t) ==
    /\ file' = [file EXCEPT ![t] = NoProc]
    /\ pid' = [pid EXCEPT ![t] = NoProc]

Reclaim(p) ==
    /\ at[p] = "reclaim"
    /\ Unlink(cur[p])
    /\ Goto(p, "create")
    /\ UNCHANGED <<fd, alien, met>>

\* write_text: a file that is there is emptied, else it is created.
Create(p) ==
    /\ at[p] = "create"
    /\ file' = [file EXCEPT ![cur[p]] = IF @ = NoProc THEN p ELSE @]
    /\ pid' = [pid EXCEPT ![cur[p]] = NoProc]
    /\ fd' = [fd EXCEPT ![p] = file'[cur[p]]]
    /\ Goto(p, "write")
    /\ UNCHANGED <<alien, met>>

Write(p) ==
    /\ at[p] = "write"
    /\ \E text \in {p} \cup (IF pid[cur[p]] = NoProc THEN {} ELSE {Garbled}) :
         pid' = [pid EXCEPT ![cur[p]] = IF file[cur[p]] = fd[p] THEN text ELSE @]
    /\ Goto(p, "stage")
    /\ UNCHANGED <<file, fd, alien, met>>

-----------------------------------------------------------------------------
(* The stages of the target, or the removal of a keep-boot clean, and       *)
(* BuildLock.release: it unlinks whatever file is there.                   *)

Outcomes(p) == IF p \in KeepBootRuns THEN {"ok"} ELSE {"ok", "failed"}

RunStages(p) ==
    /\ at[p] = "stage"
    /\ at' = [at EXCEPT ![p] = "release"]
    /\ \E r \in Outcomes(p) : result' = [result EXCEPT ![p][cur[p]] = r]
    /\ UNCHANGED <<file, pid, cur, fd, exit, alien, met>>

\* Fault seed: without the finally, a failed target keeps its lock.
Release_OkOnly(p) ==
    /\ at[p] = "release"
    /\ IF result[p][cur[p]] = "ok" THEN Unlink(cur[p]) ELSE UNCHANGED <<file, pid>>
    /\ Advance(p, result[p][cur[p]])
    /\ UNCHANGED <<fd, alien, met>>

Release(p) ==
    /\ at[p] = "release"
    /\ Unlink(cur[p])
    /\ Advance(p, result[p][cur[p]])
    /\ UNCHANGED <<fd, alien, met>>

\* Ctrl-C, or an error that is no BuildError, while the stages run: the
\* finally clause removes the lock and the process ends.
Interrupt(p) ==
    /\ at[p] = "stage"
    /\ Unlink(cur[p])
    /\ at' = [at EXCEPT ![p] = "done"]
    /\ exit' = [exit EXCEPT ![p] = "killed"]
    /\ UNCHANGED <<cur, fd, result, alien, met>>

\* A crash of the process or of its host leaves the file as it is.
Kill(p) ==
    /\ at[p] # "done"
    /\ at' = [at EXCEPT ![p] = "done"]
    /\ exit' = [exit EXCEPT ![p] = "killed"]
    /\ UNCHANGED <<file, pid, cur, fd, result, alien, met>>

\* The host gives the pid of a process that has ended to another program.
Reuse(p) ==
    /\ at[p] = "done" /\ p \notin alien
    /\ Cardinality(alien) < MaxReuse
    /\ alien' = alien \cup {p}
    /\ UNCHANGED <<file, pid, at, cur, fd, result, exit, met>>

Step(p) ==
    \/ Look(p) \/ Read(p) \/ Reclaim(p) \/ Create(p) \/ Write(p)
    \/ RunStages(p) \/ Release(p)

LockNext == \E p \in Procs : Step(p) \/ Interrupt(p) \/ Kill(p) \/ Reuse(p)

LockSpec == LockInit /\ [][LockNext]_lock_vars

-----------------------------------------------------------------------------
(* Properties                                                              *)

FilesOK ==
    /\ file \in [Targets -> Procs \cup {NoProc}]
    /\ pid \in [Targets -> Procs \cup {NoProc, Garbled}]
    /\ fd \in [Procs -> Procs \cup {NoProc}]

RunsOK ==
    /\ at \in [Procs -> Places]
    /\ cur \in [Procs -> Targets]
    /\ result \in [Procs -> [Targets -> Results]]
    /\ exit \in [Procs -> ExitCodes]

HistoryOK == alien \subseteq Procs /\ met \subseteq Targets

TypeOK == FilesOK /\ RunsOK /\ HistoryOK

Building(p, t) == cur[p] = t /\ at[p] = "stage"

\* What the class says of itself (build.py:103): loops run concurrently
\* "without two of them building the same target".
OneBuilder ==
    \A t \in Targets : \A p, q \in Procs : Building(p, t) /\ Building(q, t) => p = q

\* Two processes build one target at a time only if they once tried to take
\* its lock at the same time: whatever crashes, skips, reclaimed locks, other
\* hosts and reused pids lie between, a lock that was taken undisturbed keeps
\* every other process out until it is released.
OneWhenApart ==
    \A t \in Targets \ met : \A p, q \in Procs : Building(p, t) /\ Building(q, t) => p = q

\* A lock that names a live build is the lock of a target that build is at:
\* no interleaving of takers, reclaimers and releases leaves a lock behind
\* under the name of a process that has moved on and would make every later
\* run skip the target.
NoOrphan ==
    \A t \in Targets : pid[t] \in Procs /\ at[pid[t]] # "done" =>
        cur[pid[t]] = t /\ at[pid[t]] \in Held

\* When every loop has come to its end by itself: a target that no builder
\* went through the stages of was held back by a keep-boot clean, which had the
\* lock; and no builder hides what it did not build: one that failed at a target
\* exits 1, and one that skipped a target exits 3 ("callers can tell 'skipped'
\* from 'built'"), or 1 if it also failed at another.
NothingLeftOut ==
    (\A p \in Procs : exit[p] \in {"0", "1", "3"}) =>
        \A t \in Targets :
            /\ \/ \E p \in Builders : result[p][t] \in {"ok", "failed"}
               \/ \E p \in KeepBootRuns : result[p][t] = "ok"
            /\ \A p \in Builders :
                /\ result[p][t] = "failed" => exit[p] = "1"
                /\ result[p][t] = "skipped" =>
                      \/ exit[p] = "3"
                      \/ exit[p] = "1" /\ \E u \in Targets \ {t} : result[p][u] = "failed"
=============================================================================
