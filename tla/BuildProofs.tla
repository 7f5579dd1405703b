----------------------------- MODULE BuildProofs -----------------------------
(***************************************************************************)
(* build.py, proved: the lock that keeps the runs of a target apart, for   *)
(* any number of processes, hosts and targets; and what a run of a target  *)
(* leaves behind, for any design.                                          *)
(*                                                                         *)
(* The lock: types; a lock names a live build only while that build holds  *)
(* it; a target that was always taken undisturbed has its holder's pid in  *)
(* its file; and a target somebody skipped is being built, was built, or a *)
(* process was killed.                                                     *)
(*                                                                         *)
(* The run: what may be in front of what on its stack (RunOK,              *)
(* ImagesInOrder); the times are between files that exist (TimesOK); each  *)
(* step of an image build knows which inputs it has seen (YoctoInv), so    *)
(* the stamp never claims more than the images hold.  Then what is out of  *)
(* date always fails the time test of the stage that makes it (FilesInv),  *)
(* the stages that depend on each other find each other's outputs          *)
(* (TodoInv), and what an undisturbed run of all stages ships is up to     *)
(* date already or still has its step on the stack (AllInv).  The same is  *)
(* so of what each stage wants to find to be skipped (AllDone): such a run *)
(* leaves a target where the next one only looks (QuietInv).               *)
(***************************************************************************)
EXTENDS Build, BuildLock, SequenceTheorems, TLAPS

-----------------------------------------------------------------------------
(* Types                                                                    *)

LEMMA TargetsAreNumbers ==
    /\ Targets \subseteq Nat /\ 1 \in Targets /\ LastTarget \in Targets
    /\ \A t \in Targets : t <= LastTarget
    /\ \A t \in Targets : t # LastTarget => t + 1 \in Targets
BY LockAssumption DEF Targets, LockAssumption

LEMMA ExitCodeType == \A p \in Procs, r \in [Targets -> Results] : ExitCode(p, r) \in {"0", "1", "3"}
BY DEF ExitCode

LEMMA TypesBegin == LockInit => TypeOK
BY TargetsAreNumbers
DEF LockInit, TypeOK, FilesOK, RunsOK, HistoryOK, Places, Results, ExitCodes, Window, Held

\* Advancing keeps the types of what it changes.
LEMMA AdvanceTypes ==
    ASSUME RunsOK, NEW p \in Procs, NEW r \in Results, Advance(p, r)
    PROVE  RunsOK'
<1>1. result' \in [Procs -> [Targets -> Results]]
  BY DEF RunsOK, Advance
<1>2. CASE cur[p] = LastTarget
  <2>1. ExitCode(p, result'[p]) \in ExitCodes
    BY <1>1, ExitCodeType DEF ExitCodes
  <2> QED BY <1>1, <1>2, <2>1 DEF RunsOK, Advance, Places
<1>3. CASE cur[p] # LastTarget
  <2>1. cur[p] + 1 \in Targets
    BY <1>3, TargetsAreNumbers DEF RunsOK
  <2> QED BY <1>1, <1>3, <2>1 DEF RunsOK, Advance, Places
<1> QED BY <1>2, <1>3

LEMMA TypesKept == TypeOK /\ [LockNext]_lock_vars => TypeOK'
<1> SUFFICES ASSUME FilesOK, RunsOK, HistoryOK, [LockNext]_lock_vars PROVE TypeOK'
  BY DEF TypeOK
<1>1. ASSUME NEW p \in Procs, Look(p) PROVE TypeOK'
  BY <1>1, TargetsAreNumbers
  DEF Look, Goto, TypeOK, FilesOK, RunsOK, HistoryOK, Places, Window, Targets
<1>2. ASSUME NEW p \in Procs, Read(p) PROVE TypeOK'
  <2>1. FilesOK' /\ HistoryOK'
    BY <1>2 DEF Read, FilesOK, HistoryOK
  <2>2. RunsOK'
    <3>1. ASSUME Goto(p, "reclaim") PROVE RunsOK'
      BY <3>1 DEF Goto, RunsOK, Places, Window
    <3>2. ASSUME Advance(p, "skipped") PROVE RunsOK'
      BY <3>2, AdvanceTypes DEF Results
    <3> QED BY <1>2, <3>1, <3>2 DEF Read
  <2> QED BY <2>1, <2>2 DEF TypeOK
<1>3. ASSUME NEW p \in Procs, Reclaim(p) PROVE TypeOK'
  BY <1>3 DEF Reclaim, Unlink, Goto, TypeOK, FilesOK, RunsOK, HistoryOK, Places, Window
<1>4. ASSUME NEW p \in Procs, Create(p) PROVE TypeOK'
  <2>1. file' \in [Targets -> Procs \cup {NoProc}] /\ cur[p] \in Targets
    BY <1>4 DEF Create, FilesOK, RunsOK
  <2>2. pid' \in [Targets -> Procs \cup {NoProc, Garbled}] /\ fd' \in [Procs -> Procs \cup {NoProc}]
    <3>1. pid' = [pid EXCEPT ![cur[p]] = NoProc] /\ fd' = [fd EXCEPT ![p] = file'[cur[p]]]
      BY <1>4 DEF Create
    <3>2. file'[cur[p]] \in Procs \cup {NoProc}
      BY <2>1
    <3> QED BY <3>1, <3>2 DEF FilesOK
  <2> QED BY <1>4, <2>1, <2>2 DEF Create, Goto, TypeOK, FilesOK, RunsOK, HistoryOK, Places, Window
<1>5. ASSUME NEW p \in Procs, Write(p) PROVE TypeOK'
  <2>1. FilesOK'
    <3>1. PICK text \in {p, Garbled} :
              pid' = [pid EXCEPT ![cur[p]] = IF file[cur[p]] = fd[p] THEN text ELSE @]
      BY <1>5 DEF Write
    <3> QED BY <1>5, <3>1 DEF Write, FilesOK
  <2> QED BY <1>5, <2>1 DEF Write, Goto, TypeOK, RunsOK, HistoryOK, Places, Held
<1>6. ASSUME NEW p \in Procs, RunStages(p) PROVE TypeOK'
  <2> PICK r \in Outcomes(p) : result' = [result EXCEPT ![p][cur[p]] = r]
    BY <1>6 DEF RunStages
  <2>1. r \in Results
    BY DEF Outcomes, Results
  <2> QED BY <1>6, <2>1 DEF RunStages, TypeOK, FilesOK, RunsOK, HistoryOK, Places, Held
<1>7. ASSUME NEW p \in Procs, Release(p) PROVE TypeOK'
  <2>1. RunsOK'
    BY <1>7, AdvanceTypes DEF Release, RunsOK
  <2>2. FilesOK' /\ HistoryOK'
    BY <1>7 DEF Release, Unlink, FilesOK, RunsOK, HistoryOK
  <2> QED BY <2>1, <2>2 DEF TypeOK
<1>8. ASSUME NEW p \in Procs, Interrupt(p) PROVE TypeOK'
  BY <1>8 DEF Interrupt, Unlink, TypeOK, FilesOK, RunsOK, HistoryOK, Places, ExitCodes
<1>9. ASSUME NEW p \in Procs, Kill(p) PROVE TypeOK'
  BY <1>9 DEF Kill, TypeOK, FilesOK, RunsOK, HistoryOK, Places, ExitCodes
<1>10. ASSUME NEW p \in Procs, Reuse(p) PROVE TypeOK'
  BY <1>10 DEF Reuse, TypeOK, FilesOK, RunsOK, HistoryOK
<1>11. CASE UNCHANGED lock_vars
  BY <1>11 DEF lock_vars, TypeOK, FilesOK, RunsOK, HistoryOK
<1> QED BY <1>1, <1>2, <1>3, <1>4, <1>5, <1>6, <1>7, <1>8, <1>9, <1>10, <1>11 DEF LockNext, Step

\* Every variable of the lock model keeps its type, for any processes, hosts and
\* targets: what a lock file names is always a process or nothing.
THEOREM TypeCorrect == LockSpec => []TypeOK
<1>1. LockInit => TypeOK
  BY TypesBegin
<1>2. TypeOK /\ [LockNext]_lock_vars => TypeOK'
  BY TypesKept
<1> QED BY <1>1, <1>2, PTL DEF LockSpec

-----------------------------------------------------------------------------
(* No orphans                                                               *)

\* Where a process is after an advance: it looks at the next target, or ends.
LEMMA AdvancePlace ==
    ASSUME RunsOK, NEW p \in Procs, NEW r \in Results, Advance(p, r)
    PROVE  /\ at'[p] \in {"look", "done"}
           /\ \A q \in Procs : q # p => at'[q] = at[q] /\ cur'[q] = cur[q]
BY DEF RunsOK, Advance

LEMMA NoOrphansBegin == LockInit => NoOrphan
BY LockAssumption DEF LockInit, NoOrphan, LockAssumption

LEMMA NoOrphansKept == TypeOK /\ NoOrphan /\ [LockNext]_lock_vars => NoOrphan'
<1> SUFFICES ASSUME FilesOK, RunsOK, NoOrphan, [LockNext]_lock_vars PROVE NoOrphan'
  BY DEF TypeOK
<1> USE LockAssumption DEF LockAssumption
<1>1. ASSUME NEW p \in Procs, Look(p) PROVE NoOrphan'
  BY <1>1 DEF Look, Goto, NoOrphan, FilesOK, RunsOK, Held
<1>2. ASSUME NEW p \in Procs, Read(p) PROVE NoOrphan'
  <2>1. ASSUME Goto(p, "reclaim") PROVE NoOrphan'
    BY <1>2, <2>1 DEF Read, Goto, NoOrphan, FilesOK, RunsOK, Held
  <2>2. ASSUME Advance(p, "skipped") PROVE NoOrphan'
    <3>1. \A q \in Procs : q # p => at'[q] = at[q] /\ cur'[q] = cur[q]
      BY <2>2, AdvancePlace DEF Results
    <3>2. \A t \in Targets : pid[t] # p
      BY <1>2 DEF Read, NoOrphan, Held
    <3> QED BY <1>2, <3>1, <3>2 DEF Read, NoOrphan, FilesOK
  <2> QED BY <1>2, <2>1, <2>2 DEF Read
<1>3. ASSUME NEW p \in Procs, Reclaim(p) PROVE NoOrphan'
  BY <1>3 DEF Reclaim, Unlink, Goto, NoOrphan, FilesOK, RunsOK, Held
<1>4. ASSUME NEW p \in Procs, Create(p) PROVE NoOrphan'
  BY <1>4 DEF Create, Goto, NoOrphan, FilesOK, RunsOK, Held
<1>5. ASSUME NEW p \in Procs, Write(p) PROVE NoOrphan'
  BY <1>5 DEF Write, Goto, NoOrphan, FilesOK, RunsOK, Held
<1>6. ASSUME NEW p \in Procs, RunStages(p) PROVE NoOrphan'
  BY <1>6 DEF RunStages, NoOrphan, FilesOK, RunsOK, Held
<1>7. ASSUME NEW p \in Procs, Release(p) PROVE NoOrphan'
  <2>1. \A q \in Procs : q # p => at'[q] = at[q] /\ cur'[q] = cur[q]
    BY <1>7, AdvancePlace DEF Release, RunsOK
  <2>2. \A t \in Targets : t # cur[p] => pid[t] # p
    BY <1>7 DEF Release, NoOrphan
  <2> QED BY <1>7, <2>1, <2>2 DEF Release, Unlink, NoOrphan, FilesOK, RunsOK
<1>8. ASSUME NEW p \in Procs, Interrupt(p) PROVE NoOrphan'
  BY <1>8 DEF Interrupt, Unlink, NoOrphan, FilesOK, RunsOK, Held
<1>9. ASSUME NEW p \in Procs, Kill(p) PROVE NoOrphan'
  BY <1>9 DEF Kill, NoOrphan, FilesOK, RunsOK, Held
<1>10. ASSUME NEW p \in Procs, Reuse(p) PROVE NoOrphan'
  BY <1>10 DEF Reuse, NoOrphan
<1>11. CASE UNCHANGED lock_vars
  BY <1>11 DEF lock_vars, NoOrphan
<1> QED BY <1>1, <1>2, <1>3, <1>4, <1>5, <1>6, <1>7, <1>8, <1>9, <1>10, <1>11 DEF LockNext, Step

\* A lock that names a live build is the lock of the target that build is at, for
\* any number of processes, hosts, targets and crashes.
THEOREM NoLockOutlives == LockSpec => []NoOrphan
<1>1. LockInit => NoOrphan
  BY NoOrphansBegin
<1>2. TypeOK /\ NoOrphan /\ [LockNext]_lock_vars => NoOrphan'
  BY NoOrphansKept
<1> QED BY <1>1, <1>2, TypeCorrect, PTL DEF LockSpec

-----------------------------------------------------------------------------
(* One builder of a target that was always taken undisturbed                *)

Keeping(p, t) == cur[p] = t /\ at[p] \in Held

OneTaker(t) == \A p, q \in Procs : Acquiring(p, t) /\ Acquiring(q, t) => p = q

\* The file of a target that is being built names its builder.
NamesHolder(t) == \A p \in Procs : Keeping(p, t) => file[t] # NoProc /\ pid[t] = p

\* What a taker is about to write to is the file in the directory, and empty.
WritesFile(t) ==
    \A p \in Procs : cur[p] = t /\ at[p] = "write" =>
        file[t] = fd[p] /\ fd[p] # NoProc /\ pid[t] = NoProc

\* Who found a lock that is held has not gone on to take it.
TakersWait(t) == \A p, q \in Procs : Keeping(p, t) /\ Acquiring(q, t) => at[q] = "read"

Apart == \A t \in Targets \ met :
    OneTaker(t) /\ NamesHolder(t) /\ WritesFile(t) /\ TakersWait(t)

LEMMA ApartBegins == LockInit => Apart
BY DEF LockInit, Apart, OneTaker, NamesHolder, WritesFile, TakersWait, Keeping, Acquiring, Held, Window

\* A step that moves no process into the window and no process to its stages, and
\* writes to no lock file, keeps a target apart.
LEMMA ApartByLeaving ==
    ASSUME TypeOK, NEW t \in Targets, NEW p \in Procs,
           OneTaker(t), NamesHolder(t), WritesFile(t), TakersWait(t),
           \A q \in Procs : q # p => at'[q] = at[q] /\ cur'[q] = cur[q] /\ fd'[q] = fd[q],
           at'[p] \in {"look", "done"},
           \/ file'[t] = file[t] /\ pid'[t] = pid[t]
           \/ Keeping(p, t)
    PROVE  OneTaker(t)' /\ NamesHolder(t)' /\ WritesFile(t)' /\ TakersWait(t)'
<1>1. OneTaker(t)'
  BY DEF OneTaker, Acquiring, Window
<1>2. NamesHolder(t)'
  BY DEF NamesHolder, Keeping, Held
<1>3. WritesFile(t)'
  BY DEF WritesFile, TakersWait, Keeping, Acquiring, Window
<1>4. TakersWait(t)'
  BY DEF TakersWait, Keeping, Acquiring, Window, Held
<1> QED BY <1>1, <1>2, <1>3, <1>4

LEMMA ApartKept == TypeOK /\ Apart /\ [LockNext]_lock_vars => Apart'
<1> SUFFICES ASSUME TypeOK, FilesOK, RunsOK, Apart, [LockNext]_lock_vars,
                    NEW t \in Targets, t \notin met'
             PROVE  OneTaker(t)' /\ NamesHolder(t)' /\ WritesFile(t)' /\ TakersWait(t)'
  BY DEF TypeOK, Apart
<1> USE LockAssumption DEF LockAssumption
<1> DEFINE Goal == OneTaker(t)' /\ NamesHolder(t)' /\ WritesFile(t)' /\ TakersWait(t)'
<1>a. t \notin met
  BY DEF LockNext, Step, Look, Read, Reclaim, Create, Write, RunStages, Release, Interrupt,
         Kill, Reuse, lock_vars
<1>b. OneTaker(t) /\ NamesHolder(t) /\ WritesFile(t) /\ TakersWait(t)
  BY <1>a DEF Apart
<1>1. ASSUME NEW p \in Procs, Look(p) PROVE Goal
  <2>1. cur[p] = t => \A q \in Procs : ~Acquiring(q, t)
    BY <1>1 DEF Look
  <2>2. at' = [at EXCEPT ![p] = IF file[cur[p]] = NoProc THEN "create" ELSE "read"]
        /\ UNCHANGED <<cur, file, pid, fd>> /\ at[p] = "look"
    BY <1>1 DEF Look, Goto
  <2>3. OneTaker(t)'
    BY <1>b, <2>1, <2>2 DEF OneTaker, Acquiring, Window, RunsOK
  <2>4. NamesHolder(t)'
    BY <1>b, <2>2 DEF NamesHolder, Keeping, Held, RunsOK
  <2>5. WritesFile(t)'
    BY <1>b, <2>2 DEF WritesFile, RunsOK
  <2>6. TakersWait(t)'
    BY <1>b, <2>2 DEF TakersWait, NamesHolder, Keeping, Acquiring, Window, Held, RunsOK
  <2> QED BY <2>3, <2>4, <2>5, <2>6
<1>2. ASSUME NEW p \in Procs, Read(p) PROVE Goal
  <2>1. ASSUME Goto(p, "reclaim"), ~Locked(p, pid[cur[p]]) PROVE Goal
    <3>1. at' = [at EXCEPT ![p] = "reclaim"] /\ UNCHANGED <<cur, file, pid, fd>> /\ at[p] = "read"
      BY <1>2, <2>1 DEF Read, Goto
    <3>2. cur[p] = t => \A q \in Procs : ~Keeping(q, t)
      BY <1>b, <2>1 DEF NamesHolder, Keeping, Locked, _pid_alive, Held
    <3>3. OneTaker(t)' /\ NamesHolder(t)' /\ WritesFile(t)'
      BY <1>b, <3>1 DEF OneTaker, NamesHolder, WritesFile, Acquiring, Keeping, Window, Held, RunsOK
    <3>4. TakersWait(t)'
      BY <1>b, <3>1, <3>2 DEF TakersWait, Keeping, Acquiring, Window, Held, RunsOK
    <3> QED BY <3>3, <3>4
  <2>2. ASSUME Advance(p, "skipped") PROVE Goal
    <3>1. /\ at'[p] \in {"look", "done"}
          /\ \A q \in Procs : q # p => at'[q] = at[q] /\ cur'[q] = cur[q]
      BY <2>2, AdvancePlace DEF Results
    <3>2. UNCHANGED <<file, pid, fd>>
      BY <1>2 DEF Read
    <3> QED BY <1>b, <3>1, <3>2, ApartByLeaving
  <2> QED BY <1>2, <2>1, <2>2 DEF Read
<1>3. ASSUME NEW p \in Procs, Reclaim(p) PROVE Goal
  <2>1. /\ at' = [at EXCEPT ![p] = "create"] /\ UNCHANGED <<cur, fd>> /\ at[p] = "reclaim"
        /\ cur[p] # t => UNCHANGED <<file[t], pid[t]>>
    BY <1>3 DEF Reclaim, Goto, Unlink, FilesOK, RunsOK
  <2>2. cur[p] = t => \A q \in Procs : ~Keeping(q, t)
    BY <1>b, <2>1 DEF TakersWait, Acquiring, Window
  <2>3. OneTaker(t)'
    BY <1>b, <2>1 DEF OneTaker, Acquiring, Window, RunsOK
  <2>4. NamesHolder(t)'
    BY <1>b, <2>1, <2>2 DEF NamesHolder, Keeping, Held, RunsOK
  <2>5. WritesFile(t)'
    BY <1>b, <2>1 DEF WritesFile, OneTaker, Acquiring, Window, RunsOK
  <2>6. TakersWait(t)'
    BY <1>b, <2>1, <2>2 DEF TakersWait, Keeping, Acquiring, Window, Held, RunsOK
  <2> QED BY <2>3, <2>4, <2>5, <2>6
<1>4. ASSUME NEW p \in Procs, Create(p) PROVE Goal
  <2>1. /\ at' = [at EXCEPT ![p] = "write"] /\ UNCHANGED cur /\ at[p] = "create"
        /\ cur[p] # t => UNCHANGED <<file[t], pid[t]>>
        /\ \A q \in Procs : q # p => fd'[q] = fd[q]
        /\ cur[p] = t => fd'[p] = file'[t] /\ file'[t] # NoProc /\ pid'[t] = NoProc
    BY <1>4 DEF Create, Goto, FilesOK, RunsOK
  <2>2. cur[p] = t => \A q \in Procs : ~Keeping(q, t)
    BY <1>b, <2>1 DEF TakersWait, Acquiring, Window
  <2>3. OneTaker(t)'
    BY <1>b, <2>1 DEF OneTaker, Acquiring, Window, RunsOK
  <2>4. NamesHolder(t)'
    BY <1>b, <2>1, <2>2 DEF NamesHolder, Keeping, Held, RunsOK
  <2>5. WritesFile(t)'
    BY <1>b, <2>1 DEF WritesFile, OneTaker, Acquiring, Window, RunsOK
  <2>6. TakersWait(t)'
    BY <1>b, <2>1, <2>2 DEF TakersWait, Keeping, Acquiring, Window, Held, RunsOK
  <2> QED BY <2>3, <2>4, <2>5, <2>6
<1>5. ASSUME NEW p \in Procs, Write(p) PROVE Goal
  <2>1. /\ at' = [at EXCEPT ![p] = "stage"] /\ UNCHANGED <<cur, file, fd>> /\ at[p] = "write"
        /\ cur[p] # t => UNCHANGED pid[t]
        /\ cur[p] = t => pid'[t] = p /\ file[t] # NoProc
    BY <1>5, <1>b DEF Write, Goto, WritesFile, FilesOK, RunsOK
  <2>2. cur[p] = t => \A q \in Procs : ~Keeping(q, t) /\ (q # p => ~Acquiring(q, t))
    BY <1>b, <2>1 DEF TakersWait, OneTaker, Acquiring, Window
  <2>3. OneTaker(t)'
    BY <1>b, <2>1 DEF OneTaker, Acquiring, Window, RunsOK
  <2>4. NamesHolder(t)'
    BY <1>b, <2>1, <2>2 DEF NamesHolder, Keeping, Held, RunsOK
  <2>5. WritesFile(t)'
    BY <1>b, <2>1, <2>2 DEF WritesFile, Acquiring, Window, RunsOK
  <2>6. TakersWait(t)'
    BY <1>b, <2>1, <2>2 DEF TakersWait, Keeping, Acquiring, Window, Held, RunsOK
  <2> QED BY <2>3, <2>4, <2>5, <2>6
<1>6. ASSUME NEW p \in Procs, RunStages(p) PROVE Goal
  <2>1. at' = [at EXCEPT ![p] = "release"] /\ UNCHANGED <<cur, file, pid, fd>> /\ at[p] = "stage"
    BY <1>6 DEF RunStages
  <2>2. \A q \in Procs : Keeping(q, t)' <=> Keeping(q, t)
    BY <2>1 DEF Keeping, Held, RunsOK
  <2>3. \A q \in Procs : Acquiring(q, t)' <=> Acquiring(q, t)
    BY <2>1 DEF Acquiring, Window, RunsOK
  <2>4. OneTaker(t)' /\ NamesHolder(t)'
    BY <1>b, <2>1, <2>2, <2>3 DEF OneTaker, NamesHolder
  <2>5. WritesFile(t)'
    BY <1>b, <2>1 DEF WritesFile, RunsOK
  <2>6. TakersWait(t)'
    BY <1>b, <2>1, <2>2, <2>3 DEF TakersWait, Acquiring, Window, RunsOK
  <2> QED BY <2>4, <2>5, <2>6
<1>7. ASSUME NEW p \in Procs, Release(p) PROVE Goal
  <2>1. /\ at'[p] \in {"look", "done"}
        /\ \A q \in Procs : q # p => at'[q] = at[q] /\ cur'[q] = cur[q]
    BY <1>7, AdvancePlace DEF Release, RunsOK
  <2>2. fd' = fd /\ ((file'[t] = file[t] /\ pid'[t] = pid[t]) \/ Keeping(p, t))
    BY <1>7 DEF Release, Unlink, Keeping, Held, FilesOK, RunsOK
  <2> QED BY <1>b, <2>1, <2>2, ApartByLeaving
<1>8. ASSUME NEW p \in Procs, Interrupt(p) PROVE Goal
  <2>1. /\ at'[p] = "done"
        /\ \A q \in Procs : q # p => at'[q] = at[q] /\ cur'[q] = cur[q]
    BY <1>8 DEF Interrupt, RunsOK
  <2>2. fd' = fd /\ ((file'[t] = file[t] /\ pid'[t] = pid[t]) \/ Keeping(p, t))
    BY <1>8 DEF Interrupt, Unlink, Keeping, Held, FilesOK, RunsOK
  <2> QED BY <1>b, <2>1, <2>2, ApartByLeaving
<1>9. ASSUME NEW p \in Procs, Kill(p) PROVE Goal
  <2>1. /\ at'[p] = "done"
        /\ \A q \in Procs : q # p => at'[q] = at[q] /\ cur'[q] = cur[q]
    BY <1>9 DEF Kill, RunsOK
  <2>2. UNCHANGED <<file, pid, fd>>
    BY <1>9 DEF Kill
  <2> QED BY <1>b, <2>1, <2>2, ApartByLeaving
<1>10. ASSUME NEW p \in Procs, Reuse(p) PROVE Goal
  BY <1>b, <1>10 DEF Reuse, OneTaker, NamesHolder, WritesFile, TakersWait, Acquiring, Keeping
<1>11. CASE UNCHANGED lock_vars
  BY <1>b, <1>11 DEF lock_vars, OneTaker, NamesHolder, WritesFile, TakersWait, Acquiring, Keeping
<1> QED
  BY <1>1, <1>2, <1>3, <1>4, <1>5, <1>6, <1>7, <1>8, <1>9, <1>10, <1>11 DEF LockNext, Step

LEMMA ApartIsOne == Apart => OneWhenApart
<1> SUFFICES ASSUME Apart, NEW t \in Targets \ met, NEW p \in Procs, NEW q \in Procs,
                    Building(p, t), Building(q, t)
             PROVE  p = q
  BY DEF OneWhenApart
<1>1. Keeping(p, t) /\ Keeping(q, t)
  BY DEF Building, Keeping, Held
<1> QED BY <1>1 DEF Apart, NamesHolder

\* Two processes build one target at a time only if two processes once tried to
\* take its lock at the same time, for any number of processes, hosts and targets.
THEOREM OneBuilderWhenApart == LockSpec => []OneWhenApart
<1>1. LockInit => Apart
  BY ApartBegins
<1>2. TypeOK /\ Apart /\ [LockNext]_lock_vars => Apart'
  BY ApartKept
<1>3. Apart => OneWhenApart
  BY ApartIsOne
<1> QED BY <1>1, <1>2, <1>3, TypeCorrect, PTL DEF LockSpec

-----------------------------------------------------------------------------
(* Nothing is left out                                                      *)

\* The summary of a loop: behind its target it knows every result, before it none.
Progress(p) ==
    /\ at[p] = "done" <=> exit[p] # "running"
    /\ at[p] # "done" =>
          \A t \in Targets : /\ t < cur[p] => result[p][t] # "none"
                             /\ t > cur[p] => result[p][t] = "none"
    /\ at[p] \in {"look", "stage"} \cup Window => result[p][cur[p]] = "none"
    /\ at[p] = "release" => result[p][cur[p]] \in {"ok", "failed"}
    /\ exit[p] \in {"0", "1", "3"} =>
          exit[p] = ExitCode(p, result[p]) /\ \A t \in Targets : result[p][t] # "none"
    /\ p \in KeepBootRuns => \A t \in Targets : result[p][t] # "failed"

Booked == \A p \in Procs : Progress(p)

\* The pid of a loop that came to its end by itself is in no lock file.
DeadAreKilled ==
    \A t \in Targets : pid[t] \in Procs /\ at[pid[t]] = "done" => exit[pid[t]] = "killed"

\* A target is being built, was built, or a process was killed.
Settled(t) ==
    \E q \in Procs : \/ exit[q] = "killed"
                     \/ result[q][t] \in {"ok", "failed"}
                     \/ at[q] = "stage" /\ cur[q] = t

SkipsSettled == \A p \in Procs, t \in Targets : result[p][t] = "skipped" => Settled(t)

\* A file with two texts has had writers, and each of them went on.
GarbledSettled == \A t \in Targets : pid[t] = Garbled => Settled(t)

Ledger == Booked /\ DeadAreKilled /\ SkipsSettled /\ GarbledSettled

LEMMA LedgerBegins == LockInit => Ledger
BY LockAssumption
DEF LockInit, Ledger, Booked, Progress, DeadAreKilled, SkipsSettled, GarbledSettled, Targets, Window,
    LockAssumption

\* The order of the targets around the one a process is at.
LEMMA TargetOrder ==
    /\ \A t \in Targets : t = LastTarget \/ t < LastTarget
    /\ \A c, t \in Targets : /\ t < c + 1 <=> t < c \/ t = c
                             /\ t > c + 1 => t > c /\ t # c
                             /\ c + 1 > c /\ c + 1 # c
BY LockAssumption DEF Targets, LockAssumption

LEMMA AdvanceBooks ==
    ASSUME RunsOK, NEW p \in Procs, NEW r \in {"ok", "failed", "skipped"}, Progress(p),
           p \in KeepBootRuns => r # "failed", at[p] # "done", Advance(p, r)
    PROVE  Progress(p)'
<1>1. /\ cur[p] \in Targets
      /\ \A t \in Targets : result'[p][t] = IF t = cur[p] THEN r ELSE result[p][t]
  BY DEF RunsOK, Advance
<1>2. p \in KeepBootRuns => \A t \in Targets : result'[p][t] # "failed"
  BY <1>1 DEF Progress
<1>3. CASE cur[p] = LastTarget
  <2>1. \A t \in Targets : result'[p][t] # "none"
    BY <1>1, <1>3, TargetOrder DEF Progress
  <2>2. at'[p] = "done" /\ exit'[p] = ExitCode(p, result'[p])
    BY <1>3 DEF RunsOK, Advance
  <2>3. exit'[p] \in {"0", "1", "3"}
    BY <2>2 DEF ExitCode
  <2> QED BY <1>2, <2>1, <2>2, <2>3 DEF Progress, ExitCode, Window
<1>4. CASE cur[p] # LastTarget
  <2>1. at'[p] = "look" /\ cur'[p] = cur[p] + 1 /\ exit'[p] = exit[p]
    BY <1>4 DEF RunsOK, Advance
  <2>2. cur'[p] \in Targets
    BY <1>1, <1>4, <2>1, TargetsAreNumbers
  <2>3. \A t \in Targets : /\ t < cur'[p] => result'[p][t] # "none"
                           /\ t > cur'[p] => result'[p][t] = "none"
    BY <1>1, <2>1, TargetOrder DEF Progress
  <2>4. result'[p][cur'[p]] = "none"
    BY <1>1, <2>1, <2>2, TargetOrder DEF Progress
  <2>5. exit'[p] = "running"
    BY <2>1 DEF Progress
  <2> QED BY <1>2, <2>1, <2>3, <2>4, <2>5 DEF Progress
<1> QED BY <1>3, <1>4

\* A process that does not move keeps its books.
LEMMA UnmovedBooks ==
    ASSUME NEW q \in Procs, Progress(q), at'[q] = at[q], cur'[q] = cur[q],
           exit'[q] = exit[q], result'[q] = result[q]
    PROVE  Progress(q)'
BY DEF Progress, ExitCode

LEMMA BookedKept == TypeOK /\ Booked /\ [LockNext]_lock_vars => Booked'
<1> SUFFICES ASSUME RunsOK, Booked, [LockNext]_lock_vars PROVE Booked'
  BY DEF TypeOK
<1> DEFINE Others(p) == \A q \in Procs : q # p =>
        at'[q] = at[q] /\ cur'[q] = cur[q] /\ exit'[q] = exit[q] /\ result'[q] = result[q]
<1>a. ASSUME NEW p \in Procs, Others(p), Progress(p)' PROVE Booked'
  BY <1>a, UnmovedBooks DEF Booked
<1>b. ASSUME NEW p \in Procs, NEW r, Advance(p, r) PROVE Others(p)
  BY <1>b DEF RunsOK, Advance
<1>c. ASSUME NEW p \in Procs, NEW place \in Window, Goto(p, place), at[p] \in {"look"} \cup Window
      PROVE  Booked'
  <2>1. Others(p)
    BY <1>c DEF Goto, RunsOK
  <2>2. at'[p] = place /\ UNCHANGED <<cur, exit, result>>
    BY <1>c DEF Goto, RunsOK
  <2>3. Progress(p)'
    BY <1>c, <2>2 DEF Progress, Window, ExitCode, Booked
  <2> QED BY <1>a, <2>1, <2>3
<1>1. ASSUME NEW p \in Procs, Look(p) PROVE Booked'
  BY <1>1, <1>c DEF Look, Window
<1>2. ASSUME NEW p \in Procs, Read(p) PROVE Booked'
  <2>1. ASSUME Advance(p, "skipped") PROVE Booked'
    <3>1. Progress(p)'
      BY <1>2, <2>1, AdvanceBooks DEF Read, Booked
    <3> QED BY <1>a, <1>b, <2>1, <3>1
  <2> QED BY <1>2, <1>c, <2>1 DEF Read, Window
<1>3. ASSUME NEW p \in Procs, Reclaim(p) PROVE Booked'
  BY <1>3, <1>c DEF Reclaim, Window
<1>4. ASSUME NEW p \in Procs, Create(p) PROVE Booked'
  BY <1>4, <1>c DEF Create, Window
<1>5. ASSUME NEW p \in Procs, Write(p) PROVE Booked'
  <2>1. Others(p)
    BY <1>5 DEF Write, Goto, RunsOK
  <2>2. at'[p] = "stage" /\ at[p] = "write" /\ UNCHANGED <<cur, exit, result>>
    BY <1>5 DEF Write, Goto, RunsOK
  <2>3. Progress(p)'
    BY <2>2 DEF Progress, Window, ExitCode, Booked
  <2> QED BY <1>a, <2>1, <2>3
<1>6. ASSUME NEW p \in Procs, RunStages(p) PROVE Booked'
  <2> PICK r \in Outcomes(p) : result' = [result EXCEPT ![p][cur[p]] = r]
    BY <1>6 DEF RunStages
  <2>1. Others(p)
    BY <1>6 DEF RunStages, RunsOK
  <2>2. /\ at'[p] = "release" /\ at[p] = "stage" /\ UNCHANGED <<cur, exit>>
        /\ cur[p] \in Targets
        /\ \A t \in Targets : result'[p][t] = IF t = cur[p] THEN r ELSE result[p][t]
    BY <1>6 DEF RunStages, RunsOK
  <2>3. exit[p] = "running"
    BY <2>2 DEF Booked, Progress
  <2>4. r \in {"ok", "failed"} /\ (p \in KeepBootRuns => r # "failed")
    BY DEF Outcomes
  <2>5. \A t \in Targets : /\ t < cur[p] => result'[p][t] # "none"
                           /\ t > cur[p] => result'[p][t] = "none"
    BY <2>2, TargetsAreNumbers DEF Booked, Progress
  <2>6. p \in KeepBootRuns => \A t \in Targets : result'[p][t] # "failed"
    BY <2>2, <2>4 DEF Booked, Progress
  <2>7. Progress(p)'
    BY <2>2, <2>3, <2>4, <2>5, <2>6 DEF Progress, Window
  <2> QED BY <1>a, <2>1, <2>7
<1>7. ASSUME NEW p \in Procs, Release(p) PROVE Booked'
  <2>1. /\ result[p][cur[p]] \in {"ok", "failed"} /\ at[p] # "done"
        /\ p \in KeepBootRuns => result[p][cur[p]] # "failed"
    BY <1>7 DEF Release, Booked, Progress, RunsOK
  <2>2. Progress(p)'
    BY <1>7, <2>1, AdvanceBooks DEF Release, Booked
  <2> QED BY <1>a, <1>b, <1>7, <2>2 DEF Release
<1>8. ASSUME NEW p \in Procs, Interrupt(p) \/ Kill(p) PROVE Booked'
  <2>1. Others(p)
    BY <1>8 DEF Interrupt, Kill, RunsOK
  <2>2. at'[p] = "done" /\ exit'[p] = "killed" /\ UNCHANGED <<cur, result>>
    BY <1>8 DEF Interrupt, Kill, RunsOK
  <2>3. Progress(p)'
    BY <2>2 DEF Progress, Window, Booked
  <2> QED BY <1>a, <2>1, <2>3
<1>9. ASSUME NEW p \in Procs, Reuse(p) PROVE Booked'
  BY <1>9, UnmovedBooks DEF Reuse, Booked
<1>10. CASE UNCHANGED lock_vars
  BY <1>10, UnmovedBooks DEF lock_vars, Booked
<1> QED BY <1>1, <1>2, <1>3, <1>4, <1>5, <1>6, <1>7, <1>8, <1>9, <1>10 DEF LockNext, Step

LEMMA DeadKept == TypeOK /\ NoOrphan /\ DeadAreKilled /\ [LockNext]_lock_vars => DeadAreKilled'
<1> SUFFICES ASSUME FilesOK, RunsOK, NoOrphan, DeadAreKilled, [LockNext]_lock_vars PROVE DeadAreKilled'
  BY DEF TypeOK
<1> USE LockAssumption DEF LockAssumption
<1>a. ASSUME NEW p \in Procs, NEW r \in Results, Advance(p, r)
      PROVE  \A q \in Procs : q # p => at'[q] = at[q] /\ exit'[q] = exit[q]
  BY <1>a DEF Advance, RunsOK
<1>b. ASSUME NEW p \in Procs, NEW place \in Window, Goto(p, place)
      PROVE  exit' = exit /\ \A q \in Procs : at'[q] = "done" => at[q] = "done"
  BY <1>b DEF Goto, RunsOK, Window
<1>1. ASSUME NEW p \in Procs, Look(p) PROVE DeadAreKilled'
  BY <1>1, <1>b DEF Look, Window, DeadAreKilled, FilesOK
<1>2. ASSUME NEW p \in Procs, Read(p) PROVE DeadAreKilled'
  <2>1. ASSUME Goto(p, "reclaim") PROVE DeadAreKilled'
    BY <1>2, <1>b, <2>1 DEF Read, Window, DeadAreKilled, FilesOK
  <2>2. ASSUME Advance(p, "skipped") PROVE DeadAreKilled'
    <3>1. \A t \in Targets : pid[t] # p
      BY <1>2 DEF Read, NoOrphan, Held
    <3> QED BY <1>2, <1>a, <2>2, <3>1 DEF Read, Results, DeadAreKilled, FilesOK
  <2> QED BY <1>2, <2>1, <2>2 DEF Read
<1>3. ASSUME NEW p \in Procs, Reclaim(p) PROVE DeadAreKilled'
  BY <1>3, <1>b DEF Reclaim, Unlink, Window, DeadAreKilled, FilesOK
<1>4. ASSUME NEW p \in Procs, Create(p) PROVE DeadAreKilled'
  BY <1>4, <1>b DEF Create, Window, DeadAreKilled, FilesOK
<1>5. ASSUME NEW p \in Procs, Write(p) PROVE DeadAreKilled'
  BY <1>5 DEF Write, Goto, DeadAreKilled, FilesOK, RunsOK
<1>6. ASSUME NEW p \in Procs, RunStages(p) PROVE DeadAreKilled'
  BY <1>6 DEF RunStages, DeadAreKilled, FilesOK, RunsOK
<1>7. ASSUME NEW p \in Procs, Release(p) PROVE DeadAreKilled'
  <2>1. \A t \in Targets : t # cur[p] => pid[t] # p
    BY <1>7 DEF Release, NoOrphan
  <2>2. result[p][cur[p]] \in Results
    BY DEF RunsOK
  <2> QED BY <1>7, <1>a, <2>1, <2>2 DEF Release, Unlink, DeadAreKilled, FilesOK, RunsOK
<1>8. ASSUME NEW p \in Procs, Interrupt(p) PROVE DeadAreKilled'
  BY <1>8 DEF Interrupt, Unlink, DeadAreKilled, FilesOK, RunsOK
<1>9. ASSUME NEW p \in Procs, Kill(p) PROVE DeadAreKilled'
  BY <1>9 DEF Kill, DeadAreKilled, FilesOK, RunsOK
<1>10. ASSUME NEW p \in Procs, Reuse(p) PROVE DeadAreKilled'
  BY <1>10 DEF Reuse, DeadAreKilled
<1>11. CASE UNCHANGED lock_vars
  BY <1>11 DEF lock_vars, DeadAreKilled
<1> QED BY <1>1, <1>2, <1>3, <1>4, <1>5, <1>6, <1>7, <1>8, <1>9, <1>10, <1>11 DEF LockNext, Step

\* One process witnesses that a target is settled; its next step may only turn
\* "being built" into "built" or "killed".
Witness(q, t) ==
    \/ exit[q] = "killed"
    \/ result[q][t] \in {"ok", "failed"}
    \/ at[q] = "stage" /\ cur[q] = t

LEMMA WitnessStays ==
    ASSUME RunsOK, Booked, [LockNext]_lock_vars, NEW q \in Procs, NEW t \in Targets, Witness(q, t)
    PROVE  Witness(q, t)'
<1>a. ASSUME NEW p \in Procs, NEW place, Goto(p, place), at[p] # "stage" PROVE Witness(q, t)'
  BY <1>a DEF Goto, Witness, RunsOK
<1>b. ASSUME NEW p \in Procs, NEW r \in Results, Advance(p, r), at[p] \notin {"stage", "done"},
             \/ result[p][cur[p]] = "none"
             \/ r = result[p][cur[p]]
      PROVE  Witness(q, t)'
  <2>1. CASE q # p
    BY <1>b, <2>1 DEF Advance, Witness, RunsOK
  <2>2. CASE q = p
    <3>1. exit[p] # "killed" /\ result[p][t] \in {"ok", "failed"}
      BY <1>b, <2>2 DEF Witness, Booked, Progress
    <3>2. result'[p][t] = IF t = cur[p] THEN r ELSE result[p][t]
      BY <1>b DEF Advance, RunsOK
    <3> QED BY <1>b, <2>2, <3>1, <3>2 DEF Witness
  <2> QED BY <2>1, <2>2
<1>1. ASSUME NEW p \in Procs, Look(p) \/ Reclaim(p) \/ Create(p) \/ Write(p) PROVE Witness(q, t)'
  BY <1>1, <1>a DEF Look, Reclaim, Create, Write
<1>2. ASSUME NEW p \in Procs, Read(p) PROVE Witness(q, t)'
  <2>1. at[p] = "read" /\ result[p][cur[p]] = "none"
    BY <1>2 DEF Read, Booked, Progress, Window
  <2> QED BY <1>2, <1>a, <1>b, <2>1 DEF Read, Results
<1>3. ASSUME NEW p \in Procs, RunStages(p) PROVE Witness(q, t)'
  <2> PICK r \in Outcomes(p) : result' = [result EXCEPT ![p][cur[p]] = r]
    BY <1>3 DEF RunStages
  <2>1. r \in {"ok", "failed"}
    BY DEF Outcomes
  <2> QED BY <1>3, <2>1 DEF RunStages, Witness, RunsOK
<1>4. ASSUME NEW p \in Procs, Release(p) PROVE Witness(q, t)'
  <2>1. result[p][cur[p]] \in Results
    BY DEF RunsOK
  <2> QED BY <1>4, <1>b, <2>1 DEF Release
<1>5. ASSUME NEW p \in Procs, Interrupt(p) \/ Kill(p) PROVE Witness(q, t)'
  BY <1>5 DEF Interrupt, Kill, Witness, RunsOK
<1>6. ASSUME NEW p \in Procs, Reuse(p) PROVE Witness(q, t)'
  BY <1>6 DEF Reuse, Witness
<1>7. CASE UNCHANGED lock_vars
  BY <1>7 DEF lock_vars, Witness
<1> QED BY <1>1, <1>2, <1>3, <1>4, <1>5, <1>6, <1>7 DEF LockNext, Step

LEMMA SkipsKept ==
    TypeOK /\ NoOrphan /\ Ledger /\ [LockNext]_lock_vars => SkipsSettled'
<1> SUFFICES ASSUME FilesOK, RunsOK, NoOrphan, Booked, DeadAreKilled, SkipsSettled, GarbledSettled,
                    [LockNext]_lock_vars,
                    NEW p \in Procs, NEW t \in Targets, result'[p][t] = "skipped"
             PROVE  \E q \in Procs : Witness(q, t)'
  BY DEF TypeOK, Ledger, SkipsSettled, Settled, Witness
<1> USE LockAssumption DEF LockAssumption
<1>1. CASE result[p][t] = "skipped"
  <2>1. PICK q \in Procs : Witness(q, t)
    BY <1>1 DEF SkipsSettled, Settled, Witness
  <2> QED BY <2>1, WitnessStays
<1>2. CASE result[p][t] # "skipped"
  \* Only the read that finds the lock taken skips a target.
  <2>1. Read(p) /\ t = cur[p] /\ Locked(p, pid[t])
    <3>a. ASSUME NEW q \in Procs, NEW r \in Results, Advance(q, r)
          PROVE  p = q /\ t = cur[q] /\ r = "skipped"
      BY <1>2, <3>a DEF Advance, RunsOK
    <3>b. ASSUME NEW q \in Procs, NEW place, Goto(q, place) PROVE FALSE
      BY <1>2, <3>b DEF Goto
    <3>1. ASSUME NEW q \in Procs, Look(q) \/ Reclaim(q) \/ Create(q) \/ Write(q) PROVE FALSE
      BY <3>1, <3>b DEF Look, Reclaim, Create, Write
    <3>2. ASSUME NEW q \in Procs, Read(q) PROVE Read(p) /\ t = cur[p] /\ Locked(p, pid[t])
      BY <3>2, <3>a, <3>b DEF Read, Results
    <3>3. ASSUME NEW q \in Procs, RunStages(q) PROVE FALSE
      BY <1>2, <3>3 DEF RunStages, Outcomes, RunsOK
    <3>4. ASSUME NEW q \in Procs, Release(q) PROVE FALSE
      <4>1. result[q][cur[q]] \in {"ok", "failed"}
        BY <3>4 DEF Release, Booked, Progress
      <4> QED BY <3>4, <3>a, <4>1 DEF Release, Results
    <3>5. ASSUME NEW q \in Procs, Interrupt(q) \/ Kill(q) \/ Reuse(q) PROVE FALSE
      BY <1>2, <3>5 DEF Interrupt, Kill, Reuse
    <3>6. ~UNCHANGED lock_vars
      BY <1>2 DEF lock_vars
    <3> QED BY <3>1, <3>2, <3>3, <3>4, <3>5, <3>6 DEF LockNext, Step
  <2>2. PICK q \in Procs : Witness(q, t)
    <3>1. CASE pid[t] = Garbled
      BY <3>1 DEF GarbledSettled, Settled, Witness
    <3>2. CASE pid[t] # Garbled
      <4>1. pid[t] \in Procs
        BY <2>1, <3>2 DEF Locked, FilesOK
      <4>2. CASE at[pid[t]] = "done"
        BY <4>1, <4>2 DEF DeadAreKilled, Witness
      <4>3. CASE at[pid[t]] # "done"
        <5>1. cur[pid[t]] = t /\ at[pid[t]] \in Held
          BY <4>1, <4>3 DEF NoOrphan
        <5> QED BY <4>1, <5>1 DEF Held, Witness, Booked, Progress
      <4> QED BY <4>2, <4>3
    <3> QED BY <3>1, <3>2
  <2> QED BY <2>2, WitnessStays
<1> QED BY <1>1, <1>2

\* A write that may leave two texts is the last thing its process does before
\* it is at the stages of the target.
LEMMA GarbledKept ==
    TypeOK /\ Ledger /\ [LockNext]_lock_vars => GarbledSettled'
<1> SUFFICES ASSUME FilesOK, RunsOK, Booked, GarbledSettled, [LockNext]_lock_vars,
                    NEW t \in Targets, pid'[t] = Garbled
             PROVE  \E q \in Procs : Witness(q, t)'
  BY DEF TypeOK, Ledger, GarbledSettled, Settled, Witness
<1> USE LockAssumption DEF LockAssumption
<1>1. CASE pid[t] = Garbled
  <2>1. PICK q \in Procs : Witness(q, t)
    BY <1>1 DEF GarbledSettled, Settled, Witness
  <2> QED BY <2>1, WitnessStays
<1>2. CASE pid[t] # Garbled
  <2>1. ASSUME NEW p \in Procs, Write(p) PROVE Witness(p, t)'
    <3>1. t = cur[p]
      BY <1>2, <2>1 DEF Write, FilesOK, RunsOK
    <3> QED BY <2>1, <3>1 DEF Write, Goto, Witness, RunsOK
  <2>2. ASSUME NEW p \in Procs, Reclaim(p) \/ Release(p) \/ Interrupt(p) \/ Create(p) PROVE FALSE
    <3>1. cur[p] \in Targets
      BY DEF RunsOK
    <3> QED BY <1>2, <2>2, <3>1 DEF Reclaim, Release, Interrupt, Create, Unlink, FilesOK
  <2>3. UNCHANGED pid \/ \E p \in Procs : Write(p) \/ Reclaim(p) \/ Release(p) \/ Interrupt(p) \/ Create(p)
    BY DEF LockNext, Step, Look, Read, RunStages, Kill, Reuse, lock_vars
  <2> QED BY <1>2, <2>1, <2>2, <2>3
<1> QED BY <1>1, <1>2

LEMMA LedgerIsEnough == TypeOK /\ Ledger => NothingLeftOut
<1> SUFFICES ASSUME RunsOK, Booked, SkipsSettled, NEW t \in Targets,
                    \A p \in Procs : exit[p] \in {"0", "1", "3"}
             PROVE  /\ \/ \E p \in Builders : result[p][t] \in {"ok", "failed"}
                       \/ \E p \in KeepBootRuns : result[p][t] = "ok"
                    /\ \A p \in Builders :
                        /\ result[p][t] = "failed" => exit[p] = "1"
                        /\ result[p][t] = "skipped" =>
                              \/ exit[p] = "3"
                              \/ exit[p] = "1" /\ \E u \in Targets \ {t} : result[p][u] = "failed"
  BY DEF TypeOK, Ledger, NothingLeftOut
<1>1. PICK p \in Procs : TRUE
  BY LockAssumption DEF LockAssumption
<1>2. PICK q \in Procs : result[q][t] \in {"ok", "failed"}
  <2>1. result[p][t] \in {"ok", "failed", "skipped"}
    BY <1>1 DEF Booked, Progress, RunsOK, Results
  <2>2. ASSUME result[p][t] = "skipped" PROVE \E q \in Procs : result[q][t] \in {"ok", "failed"}
    <3>1. PICK q \in Procs : \/ exit[q] = "killed"
                             \/ result[q][t] \in {"ok", "failed"}
                             \/ at[q] = "stage" /\ cur[q] = t
      BY <1>1, <2>2 DEF SkipsSettled, Settled
    <3>2. exit[q] # "killed" /\ at[q] # "stage"
      BY <3>1 DEF Booked, Progress
    <3> QED BY <3>1, <3>2
  <2> QED BY <1>1, <2>1, <2>2
<1>3. q \in KeepBootRuns => result[q][t] = "ok"
  BY <1>2 DEF Booked, Progress
<1>4. ASSUME NEW b \in Builders
      PROVE  /\ result[b][t] = "failed" => exit[b] = "1"
             /\ result[b][t] = "skipped" =>
                   \/ exit[b] = "3"
                   \/ exit[b] = "1" /\ \E u \in Targets \ {t} : result[b][u] = "failed"
  <2>1. exit[b] = ExitCode(b, result[b]) /\ b \notin KeepBootRuns
    BY <1>4 DEF Builders, Booked, Progress
  <2> QED BY <2>1 DEF ExitCode
<1> QED BY <1>2, <1>3, <1>4 DEF Builders

\* When all loops end by themselves, a target that no builder went through was
\* held back by a keep-boot clean, and every builder that failed at or skipped a
\* target says so, for any number of processes, hosts and targets.
THEOREM NoTargetLeftOut == LockSpec => []NothingLeftOut
<1>1. LockInit => Ledger
  BY LedgerBegins
<1>2. TypeOK /\ NoOrphan /\ Ledger /\ [LockNext]_lock_vars => Ledger'
  BY BookedKept, DeadKept, SkipsKept, GarbledKept DEF Ledger
<1>3. TypeOK /\ Ledger => NothingLeftOut
  BY LedgerIsEnough
<1> QED BY <1>1, <1>2, <1>3, TypeCorrect, NoLockOutlives, PTL DEF LockSpec

-----------------------------------------------------------------------------
(* The stack of a run                                                       *)

XsaSteps ==
    {Stage("ip"), Stage("project"), Stage("xsa"), Tool("ip_done"), Tool("xpr"), Tool("xsa")}
    \cup {Core(c) : c \in Elems(Cores)} \cup {Tool(c) : c \in Elems(Cores)}
WsSteps == {Stage("workspace"), Tool("ws")}
BootSteps == {Stage("standalone"), Stage("boot"), Tool("boot")}
FlashSteps == {Stage("cfgmem"), Stage("flash"), Tool("mcs")}
PetalinuxSteps == {Stage("petalinux"), Tool("petl"), Tool("petl_again")}
ImageSteps ==
    {Stage("snapshot"), Tool("hw"), Stage("configure"), Tool("configdone"), Tool("bitbake"),
     Tool("yimg"), Tool("stamp")}
PackageSteps == {Stage("package")} \cup {Stage(z) : z \in Zips} \cup {Tool(z) : z \in Zips}

Entries ==
    XsaSteps \cup WsSteps \cup BootSteps \cup FlashSteps \cup PetalinuxSteps \cup {Stage("yocto")}
    \cup ImageSteps \cup PackageSteps

\* The place of an entry in a run of all stages.
Rank(e) ==
    IF e \in XsaSteps THEN 0
    ELSE IF e \in WsSteps THEN 1
    ELSE IF e \in BootSteps THEN 2
    ELSE IF e \in FlashSteps \cup PetalinuxSteps THEN 3
    ELSE IF e = Stage("snapshot") THEN 4
    ELSE IF e = Tool("hw") THEN 5
    ELSE IF e \in {Stage("configure"), Tool("configdone")} THEN 6
    ELSE IF e = Tool("bitbake") THEN 7
    ELSE IF e = Tool("yimg") THEN 8
    ELSE IF e \in {Stage("yocto"), Tool("stamp")} THEN 9
    ELSE 10

\* What may be in front of what: the steps of the application and of Yocto come once.
Before(d, e) == Rank(d) < Rank(e) \/ (Rank(d) = Rank(e) /\ Rank(d) \in {0, 3, 10})

Sorted(s) == \A i, j \in DOMAIN s : i < j => Before(s[i], s[j])

Stack == {s \in Seq(Entries) : Sorted(s)}

Pending(e) == e \in Elems(run.todo)

LEMMA RankType == \A e \in Entries : Rank(e) \in 0 .. 10
BY DEF Rank

LEMMA BeforeBefore ==
    \A c, d, e \in Entries : Rank(c) <= Rank(d) /\ Before(d, e) => Before(c, e)
<1> TAKE c, d, e \in Entries
<1>1. Rank(c) \in Nat /\ Rank(d) \in Nat /\ Rank(e) \in Nat
  BY RankType
<1> QED BY <1>1 DEF Before

\* The names of the cores are no others of the model's.
LEMMA CoreNames ==
    /\ Elems(Cores) \subseteq STRING
    /\ \A c \in Elems(Cores) :
        c \notin TargetFiles /\ c \notin {"bitbake", "stamp", "petl_again"}
<1>1. Elems(Cores) \subseteq STRING
  <2> SUFFICES ASSUME NEW i \in DOMAIN Cores PROVE Cores[i] \in STRING
    BY DEF Elems
  <2> QED BY CoresAssumption, LenProperties, ElementOfSeq DEF CoresAssumption
<1>2. Elems(Cores) \cap (TargetFiles \cup {"bitbake", "stamp", "petl_again"}) = {}
  BY CoresAssumption DEF CoresAssumption
<1> QED BY <1>1, <1>2

LEMMA ElemsOf == ASSUME NEW S, NEW s \in Seq(S) PROVE Elems(s) \subseteq S
BY DEF Elems

LEMMA ElemsCat ==
    ASSUME NEW S, NEW s \in Seq(S), NEW t \in Seq(S)
    PROVE  s \o t \in Seq(S) /\ Elems(s \o t) = Elems(s) \cup Elems(t)
<1>1. s \o t \in Seq(S) /\ Len(s \o t) = Len(s) + Len(t)
  BY ConcatProperties
<1>2. \A i \in 1 .. Len(s) : (s \o t)[i] = s[i]
  BY ConcatProperties
<1>3. \A i \in 1 .. Len(t) : (s \o t)[Len(s) + i] = t[i]
  <2> TAKE i \in 1 .. Len(t)
  <2>1. Len(s) \in Nat /\ Len(t) \in Nat /\ Len(s) + i \in 1 .. Len(s) + Len(t) /\ ~(Len(s) + i <= Len(s))
    OBVIOUS
  <2> QED BY <2>1
<1>4. Elems(s \o t) \subseteq Elems(s) \cup Elems(t)
  <2> SUFFICES ASSUME NEW i \in DOMAIN (s \o t) PROVE (s \o t)[i] \in Elems(s) \cup Elems(t)
    BY DEF Elems
  <2>1. CASE i <= Len(s)
    <3>1. i \in 1 .. Len(s) /\ i \in DOMAIN s
      BY <2>1, <1>1
    <3> QED BY <3>1, <1>2 DEF Elems
  <2>2. CASE i > Len(s)
    <3> DEFINE j == i - Len(s)
    <3>1. j \in 1 .. Len(t) /\ i = Len(s) + j
      BY <2>2, <1>1
    <3> HIDE DEF j
    <3> QED BY <3>1, <1>3 DEF Elems
  <2> QED BY <2>1, <2>2, <1>1
<1>5. Elems(s) \cup Elems(t) \subseteq Elems(s \o t)
  <2>1. \A i \in 1 .. Len(s) : i \in DOMAIN (s \o t)
    BY <1>1
  <2>2. \A i \in 1 .. Len(t) : Len(s) + i \in DOMAIN (s \o t)
    BY <1>1
  <2>3. Elems(s) \subseteq Elems(s \o t)
    BY <2>1, <1>2 DEF Elems
  <2>4. Elems(t) \subseteq Elems(s \o t)
    <3> SUFFICES ASSUME NEW i \in DOMAIN t PROVE t[i] \in Elems(s \o t)
      BY DEF Elems
    <3>1. i \in 1 .. Len(t)
      BY LenProperties
    <3> QED BY <3>1, <2>2, <1>3 DEF Elems
  <2> QED BY <2>3, <2>4
<1> QED BY <1>1, <1>4, <1>5

LEMMA SortedCat ==
    ASSUME NEW S, NEW s \in Seq(S), NEW t \in Seq(S), Sorted(s), Sorted(t),
           \A d \in Elems(s), e \in Elems(t) : Before(d, e)
    PROVE  Sorted(s \o t)
<1>1. s \o t \in Seq(S) /\ Len(s \o t) = Len(s) + Len(t) /\ Len(s) \in Nat /\ Len(t) \in Nat
  BY ConcatProperties, LenProperties
<1>2. \A i \in 1 .. Len(s) : (s \o t)[i] = s[i]
  BY ConcatProperties
<1>3. \A i \in Len(s) + 1 .. Len(s) + Len(t) : (s \o t)[i] = t[i - Len(s)]
  BY ConcatProperties
<1> SUFFICES ASSUME NEW i \in DOMAIN (s \o t), NEW j \in DOMAIN (s \o t), i < j
             PROVE  Before((s \o t)[i], (s \o t)[j])
  BY DEF Sorted
<1>4. i \in 1 .. Len(s) + Len(t) /\ j \in 1 .. Len(s) + Len(t)
  BY <1>1
<1>5. CASE j <= Len(s)
  BY <1>5, <1>4, <1>2 DEF Sorted
<1>6. CASE i > Len(s)
  <2>1. i - Len(s) \in DOMAIN t /\ j - Len(s) \in DOMAIN t /\ i - Len(s) < j - Len(s)
    BY <1>6, <1>4, <1>1
  <2>2. (s \o t)[i] = t[i - Len(s)] /\ (s \o t)[j] = t[j - Len(s)]
    BY <1>6, <1>4, <1>3, <1>1
  <2>3. Before(t[i - Len(s)], t[j - Len(s)])
    BY <2>1 DEF Sorted
  <2> QED BY <2>2, <2>3
<1>7. CASE i <= Len(s) /\ j > Len(s)
  <2>1. i \in DOMAIN s /\ j - Len(s) \in DOMAIN t
    BY <1>7, <1>4, <1>1
  <2>2. (s \o t)[i] = s[i] /\ (s \o t)[j] = t[j - Len(s)]
    BY <1>7, <1>4, <1>2, <1>3, <1>1
  <2>3. s[i] \in Elems(s) /\ t[j - Len(s)] \in Elems(t)
    BY <2>1 DEF Elems
  <2> QED BY <2>2, <2>3
<1> QED BY <1>5, <1>6, <1>7, <1>4, <1>1

LEMMA One == \A e \in Entries : <<e>> \in Stack /\ Elems(<<e>>) = {e}
BY DEF Stack, Sorted, Elems

LEMMA None == <<>> \in Stack /\ Elems(<<>>) = {}
BY DEF Stack, Sorted, Elems

\* Two stacks, the one before the other, are a stack.
LEMMA StackCat ==
    ASSUME NEW s \in Stack, NEW t \in Stack,
           \A d \in Elems(s), e \in Elems(t) : Before(d, e)
    PROVE  s \o t \in Stack /\ Elems(s \o t) = Elems(s) \cup Elems(t)
BY ElemsCat, SortedCat DEF Stack

LEMMA HeadAndTail ==
    ASSUME NEW s \in Stack, s # <<>>
    PROVE  /\ Head(s) \in Entries /\ Tail(s) \in Stack
           /\ Elems(s) = {Head(s)} \cup Elems(Tail(s))
           /\ \A e \in Elems(Tail(s)) : Before(Head(s), e)
<1>1. s \in Seq(Entries) /\ Len(s) \in Nat /\ Len(s) # 0 /\ DOMAIN s = 1 .. Len(s)
  BY EmptySeq DEF Stack
<1>2. /\ Tail(s) \in Seq(Entries) /\ DOMAIN Tail(s) = 1 .. Len(s) - 1
      /\ \A i \in 1 .. Len(s) - 1 : Tail(s)[i] = s[i + 1]
  BY <1>1
<1>3. Head(s) = s[1] /\ s[1] \in Entries
  BY <1>1
<1>4. \A i \in DOMAIN Tail(s) : i + 1 \in DOMAIN s /\ 1 < i + 1 /\ 1 \in DOMAIN s
  BY <1>1, <1>2
<1>5. Sorted(Tail(s))
  <2> SUFFICES ASSUME NEW i \in DOMAIN Tail(s), NEW j \in DOMAIN Tail(s), i < j
               PROVE  Before(Tail(s)[i], Tail(s)[j])
    BY DEF Sorted
  <2>1. i + 1 \in DOMAIN s /\ j + 1 \in DOMAIN s /\ i + 1 < j + 1
    BY <1>2, <1>4
  <2>2. Before(s[i + 1], s[j + 1])
    BY <2>1 DEF Stack, Sorted
  <2> QED BY <2>2, <1>2
<1>6. \A i \in DOMAIN Tail(s) : Before(s[1], Tail(s)[i])
  BY <1>4, <1>2 DEF Stack, Sorted
<1>7. Elems(s) = {s[1]} \cup Elems(Tail(s))
  <2>1. \A i \in DOMAIN s : i = 1 \/ (i - 1 \in DOMAIN Tail(s) /\ Tail(s)[i - 1] = s[i])
    BY <1>1, <1>2
  <2>2. Elems(s) \subseteq {s[1]} \cup Elems(Tail(s))
    BY <2>1 DEF Elems
  <2>3. 1 \in DOMAIN s
    BY <1>1
  <2>4. {s[1]} \cup Elems(Tail(s)) \subseteq Elems(s)
    BY <2>3, <1>2, <1>4 DEF Elems
  <2> QED BY <2>2, <2>4
<1> QED BY <1>2, <1>3, <1>5, <1>6, <1>7 DEF Stack, Elems

\* What takes the place of the head of a stack is no later than it.
LEMMA Pushed ==
    ASSUME NEW s \in Stack, s # <<>>, NEW t \in Stack,
           \A e \in Elems(t) : Rank(e) <= Rank(Head(s))
    PROVE  t \o Tail(s) \in Stack /\ Elems(t \o Tail(s)) = Elems(t) \cup Elems(Tail(s))
<1>1. \A d \in Elems(t), e \in Elems(Tail(s)) : Before(d, e)
  BY HeadAndTail, BeforeBefore, ElemsOf DEF Stack
<1> QED BY <1>1, HeadAndTail, StackCat

LEMMA RankInGroup ==
    /\ \A e \in XsaSteps : Rank(e) = 0
    /\ \A e \in WsSteps : Rank(e) = 1
    /\ \A e \in BootSteps : Rank(e) = 2
    /\ \A e \in FlashSteps : Rank(e) = 3
    /\ \A e \in PetalinuxSteps : Rank(e) = 3
    /\ \A e \in PackageSteps : Rank(e) = 10
<1>1. \A e \in XsaSteps : Rank(e) = 0
  BY DEF Rank
<1>2. \A e \in WsSteps : e \notin XsaSteps
  BY CoreNames DEF WsSteps, XsaSteps, Stage, Core, Tool, TargetFiles
<1>3. \A e \in BootSteps : e \notin XsaSteps /\ e \notin WsSteps
  BY CoreNames DEF WsSteps, BootSteps, XsaSteps, Stage, Core, Tool, TargetFiles
<1>4. \A e \in FlashSteps : e \notin XsaSteps /\ e \notin WsSteps /\ e \notin BootSteps
  BY CoreNames DEF WsSteps, BootSteps, FlashSteps, XsaSteps, Stage, Core, Tool, TargetFiles
<1>5. \A e \in PetalinuxSteps : e \notin XsaSteps /\ e \notin WsSteps /\ e \notin BootSteps
  BY CoreNames DEF WsSteps, BootSteps, PetalinuxSteps, XsaSteps, Stage, Core, Tool, TargetFiles
<1>6. \A e \in PackageSteps : e \notin XsaSteps
  BY CoreNames DEF PackageSteps, Zips, XsaSteps, Stage, Core, Tool, TargetFiles
<1>7. \A e \in PackageSteps :
        e \notin WsSteps /\ e \notin BootSteps /\ e \notin FlashSteps /\ e \notin PetalinuxSteps
  BY DEF PackageSteps, Zips, WsSteps, BootSteps, FlashSteps, PetalinuxSteps, Stage, Tool
<1>8. \A e \in PackageSteps : e \notin ImageSteps /\ e # Stage("yocto")
  BY DEF PackageSteps, Zips, ImageSteps, Stage, Tool
<1>9. \A e \in PackageSteps : Rank(e) = 10
  BY <1>6, <1>7, <1>8 DEF Rank, ImageSteps
<1>10. (\A e \in WsSteps : Rank(e) = 1) /\ (\A e \in BootSteps : Rank(e) = 2)
  BY <1>2, <1>3 DEF Rank
<1>11. (\A e \in FlashSteps : Rank(e) = 3) /\ (\A e \in PetalinuxSteps : Rank(e) = 3)
  BY <1>4, <1>5 DEF Rank
<1> QED BY <1>1, <1>9, <1>10, <1>11

LEMMA RankOfImageSteps ==
    /\ Rank(Stage("yocto")) = 9 /\ Rank(Stage("snapshot")) = 4 /\ Rank(Tool("hw")) = 5
    /\ Rank(Stage("configure")) = 6 /\ Rank(Tool("configdone")) = 6
    /\ Rank(Tool("bitbake")) = 7 /\ Rank(Tool("yimg")) = 8 /\ Rank(Tool("stamp")) = 9
<1>1. \A e \in ImageSteps \cup {Stage("yocto")} : e \notin XsaSteps
  BY CoreNames DEF ImageSteps, XsaSteps, Stage, Core, Tool, TargetFiles
<1>2. \A e \in ImageSteps \cup {Stage("yocto")} :
        e \notin WsSteps /\ e \notin BootSteps /\ e \notin FlashSteps /\ e \notin PetalinuxSteps
  BY DEF ImageSteps, WsSteps, BootSteps, FlashSteps, PetalinuxSteps, Stage, Tool
<1> QED BY <1>1, <1>2 DEF Rank, ImageSteps, Stage, Tool

\* The names of the groups do not meet.
LEMMA ImageStepsApart ==
    \A e \in ImageSteps : /\ e \notin XsaSteps /\ e \notin WsSteps /\ e \notin BootSteps
                          /\ e \notin FlashSteps /\ e \notin PetalinuxSteps /\ e \notin PackageSteps
                          /\ e # Stage("yocto")
<1>1. \A e \in ImageSteps : Rank(e) \in 4 .. 9
  BY RankOfImageSteps DEF ImageSteps
<1> QED BY <1>1, RankInGroup DEF ImageSteps, Stage, Tool

\* A sequence of one group is a stack.
LEMMA GroupIsStack ==
    ASSUME NEW G \in SUBSET Entries, NEW n, n \in {0, 3, 10}, \A e \in G : Rank(e) = n,
           NEW s \in Seq(G)
    PROVE  s \in Stack /\ Elems(s) \subseteq G
<1>1. \A i \in DOMAIN s : s[i] \in G
  OBVIOUS
<1>2. Sorted(s)
  BY <1>1 DEF Sorted, Before
<1>3. s \in Seq(Entries)
  OBVIOUS
<1> QED BY <1>1, <1>2, <1>3 DEF Stack, Elems

LEMMA Groups ==
    /\ XsaSteps \subseteq Entries /\ WsSteps \subseteq Entries /\ BootSteps \subseteq Entries /\ FlashSteps \subseteq Entries
    /\ PetalinuxSteps \subseteq Entries /\ PackageSteps \subseteq Entries
    /\ ImageSteps \subseteq Entries /\ Stage("yocto") \in Entries
BY DEF Entries

\* What a stage puts in its place: steps of its own group, or of the groups in
\* front of it.
Expands(s, r) ==
    r.ok => /\ r.todo \in Stack
            /\ \A e \in Elems(r.todo) : Rank(e) <= Rank(Stage(s))
            /\ Elems(r.todo) \cap (ImageSteps \cup {Stage("yocto")}) = {}

LEMMA SkippedExpands == \A s : Expands(s, Skipped) /\ Expands(s, Fails)
BY None DEF Expands, Skipped, Fails, Does

LEMMA GroupExpands ==
    ASSUME NEW s, NEW G \in SUBSET Entries, NEW n \in {0, 3, 10},
           \A e \in G : Rank(e) = n, Rank(Stage(s)) = n,
           G \cap (ImageSteps \cup {Stage("yocto")}) = {}, NEW t \in Seq(G)
    PROVE  Expands(s, Does(t))
<1>1. t \in Stack /\ Elems(t) \subseteq G
  BY GroupIsStack
<1> QED BY <1>1 DEF Expands, Does

LEMMA NoImageSteps ==
    /\ XsaSteps \cap (ImageSteps \cup {Stage("yocto")}) = {}
    /\ WsSteps \cap (ImageSteps \cup {Stage("yocto")}) = {}
    /\ BootSteps \cap (ImageSteps \cup {Stage("yocto")}) = {}
    /\ FlashSteps \cap (ImageSteps \cup {Stage("yocto")}) = {}
    /\ PetalinuxSteps \cap (ImageSteps \cup {Stage("yocto")}) = {}
    /\ PackageSteps \cap (ImageSteps \cup {Stage("yocto")}) = {}
<1>1. \A e \in ImageSteps \cup {Stage("yocto")} : Rank(e) \in 4 .. 9
  BY RankOfImageSteps DEF ImageSteps
<1> QED BY <1>1, RankInGroup

LEMMA ToolsAreSteps ==
    /\ [i \in DOMAIN Cores |-> Core(Cores[i])] \in Seq(XsaSteps)
    /\ Tools(Cores) \o <<Tool("ip_done")>> \in Seq(XsaSteps)
<1>1. Cores \in Seq(STRING) /\ DOMAIN Cores = 1 .. Len(Cores) /\ Len(Cores) \in Nat
  BY CoresAssumption, LenProperties DEF CoresAssumption
<1>2. \A i \in DOMAIN Cores : Core(Cores[i]) \in XsaSteps /\ Tool(Cores[i]) \in XsaSteps
  BY DEF XsaSteps, Elems
<1>3. [i \in DOMAIN Cores |-> Core(Cores[i])] \in Seq(XsaSteps)
  BY <1>1, <1>2
<1>4. Tools(Cores) \in Seq(XsaSteps)
  BY <1>1, <1>2 DEF Tools
<1>5. <<Tool("ip_done")>> \in Seq(XsaSteps)
  BY DEF XsaSteps
<1> QED BY <1>3, <1>4, <1>5, ElemsCat

LEMMA CfmemExpands == Expands("cfgmem", stage_cfgmem)
<1>1. CASE ~design.cfgmem
  BY <1>1, SkippedExpands DEF stage_cfgmem
<1>2. CASE design.cfgmem
  <2> DEFINE a == <<Stage("xsa")>>  b == If(FlashesApp, "standalone")  c == <<Stage("flash")>>
  <2>1. a \in Stack /\ Elems(a) = {Stage("xsa")} /\ c \in Stack /\ Elems(c) = {Stage("flash")}
    BY One DEF Entries, XsaSteps, FlashSteps
  <2>2. b \in Stack /\ Elems(b) \subseteq {Stage("standalone")}
    BY One, None DEF If, Entries, BootSteps
  <2>3. Rank(Stage("xsa")) = 0 /\ Rank(Stage("standalone")) = 2 /\ Rank(Stage("flash")) = 3
        /\ Rank(Stage("cfgmem")) = 3
    BY RankInGroup DEF XsaSteps, BootSteps, FlashSteps
  <2> HIDE DEF a, b, c
  <2>4. a \o b \in Stack /\ Elems(a \o b) \subseteq {Stage("xsa"), Stage("standalone")}
    <3>1. \A d \in Elems(a), e \in Elems(b) : Before(d, e)
      BY <2>1, <2>2, <2>3 DEF Before
    <3> QED BY <3>1, <2>1, <2>2, StackCat
  <2>5. /\ (a \o b) \o c \in Stack
        /\ Elems((a \o b) \o c) \subseteq {Stage("xsa"), Stage("standalone"), Stage("flash")}
    <3>1. \A d \in Elems(a \o b), e \in Elems(c) : Before(d, e)
      BY <2>1, <2>4, <2>3 DEF Before
    <3> QED BY <3>1, <2>1, <2>4, StackCat
  <2>6. stage_cfgmem = Does((a \o b) \o c)
    BY <1>2 DEF stage_cfgmem, a, b, c
  <2>7. {Stage("xsa"), Stage("standalone"), Stage("flash")} \cap (ImageSteps \cup {Stage("yocto")}) = {}
    BY DEF ImageSteps, Stage, Tool
  <2>8. \A e \in Elems((a \o b) \o c) : Rank(e) <= Rank(Stage("cfgmem"))
    BY <2>5, <2>3
  <2> QED BY <2>5, <2>6, <2>7, <2>8 DEF Expands, Does
<1> QED BY <1>1, <1>2

LEMMA PackageExpands == Expands("package", stage_package)
<1>1. \A b, z : z \in Zips => If(b, z) \in Seq(PackageSteps)
  BY DEF If, PackageSteps
<1>2. /\ If(design.baremetal, "bare_zip") \in Seq(PackageSteps)
      /\ If(design.petalinux, "petl_zip") \in Seq(PackageSteps)
      /\ If(design.yocto, "yocto_zip") \in Seq(PackageSteps)
      /\ If(~has_software_flow, "bit_zip") \in Seq(PackageSteps)
  BY <1>1 DEF Zips
<1> DEFINE t == ((If(design.baremetal, "bare_zip") \o If(design.petalinux, "petl_zip"))
                    \o If(design.yocto, "yocto_zip")) \o If(~has_software_flow, "bit_zip")
<1>3. t \in Seq(PackageSteps)
  BY <1>2, ElemsCat
<1>4. stage_package = Does(t)
  BY DEF stage_package
<1>5. Rank(Stage("package")) = 10
  BY RankInGroup DEF PackageSteps
<1>6. PackageSteps \in SUBSET Entries /\ \A e \in PackageSteps : Rank(e) = 10
  BY RankInGroup, Groups
<1>7. PackageSteps \cap (ImageSteps \cup {Stage("yocto")}) = {}
  BY NoImageSteps
<1> HIDE DEF t
<1>8. Expands("package", Does(t))
  BY <1>3, <1>5, <1>6, <1>7, GroupExpands
<1> QED BY <1>4, <1>8

LEMMA StageExpands == design \in Designs => \A s \in StageNames : Expands(s, STAGE_FUNCS(s))
<1> SUFFICES ASSUME design \in Designs
             PROVE  \A s \in StageNames : Expands(s, STAGE_FUNCS(s))
  OBVIOUS
<1> USE RankInGroup, NoImageSteps, Groups, SkippedExpands
<1>1. Expands("ip", stage_ip)
  <2>1. Expands("ip", Does([i \in DOMAIN Cores |-> Core(Cores[i])]))
    BY ToolsAreSteps, GroupExpands DEF XsaSteps
  <2>2. Expands("ip", Does(Tools(Cores) \o <<Tool("ip_done")>>))
    BY ToolsAreSteps, GroupExpands DEF XsaSteps
  <2>3. design.ip \in {"none", "cores", "board"}
    BY DesignsAssumption DEF DesignsAssumption
  <2> QED BY <2>1, <2>2, <2>3 DEF stage_ip
<1>2. Expands("project", stage_project)
  <2>1. <<Stage("ip"), Tool("xpr")>> \in Seq(XsaSteps) /\ Stage("project") \in XsaSteps
    BY DEF XsaSteps
  <2> QED BY <2>1, GroupExpands DEF stage_project
<1>3. Expands("xsa", stage_xsa)
  <2>1. <<Stage("project"), Tool("xsa")>> \in Seq(XsaSteps) /\ Stage("xsa") \in XsaSteps
    BY DEF XsaSteps
  <2> QED BY <2>1, GroupExpands DEF stage_xsa
<1> DEFINE N == ImageSteps \cup {Stage("yocto")}
<1> HIDE DEF N
<1>0. /\ \A e \in WsSteps \cup BootSteps : e \in Entries /\ e \notin N
      /\ Stage("workspace") \in WsSteps /\ Tool("ws") \in WsSteps
      /\ {Stage("standalone"), Stage("boot"), Tool("boot")} \subseteq BootSteps
  BY DEF WsSteps, BootSteps, N
<1>4. Expands("standalone", stage_bootfile)
  <2> DEFINE a == <<Stage("workspace")>>  b == <<Stage("boot")>>
  <2>1. a \in Stack /\ Elems(a) = {Stage("workspace")} /\ b \in Stack /\ Elems(b) = {Stage("boot")}
    BY <1>0, One
  <2>2. Rank(Stage("workspace")) = 1 /\ Rank(Stage("boot")) = 2 /\ Rank(Stage("standalone")) = 2
    BY <1>0
  <2>3. <<Stage("workspace"), Stage("boot")>> = a \o b
    OBVIOUS
  <2> HIDE DEF a, b
  <2>4. a \o b \in Stack /\ Elems(a \o b) = {Stage("workspace"), Stage("boot")}
    <3>1. \A d \in Elems(a), e \in Elems(b) : Before(d, e)
      BY <2>1, <2>2 DEF Before
    <3> QED BY <3>1, <2>1, StackCat
  <2>5. Elems(a \o b) \cap N = {}
    BY <1>0, <2>4
  <2>6. Expands("standalone", Does(a \o b))
    BY <2>2, <2>4, <2>5 DEF Expands, Does, N
  <2> QED BY <2>3, <2>6 DEF stage_bootfile
<1>5. Expands("workspace", stage_workspace)
  <2>1. <<Tool("ws")>> \in Stack /\ Elems(<<Tool("ws")>>) = {Tool("ws")}
    BY <1>0, One
  <2>2. Rank(Stage("workspace")) = 1 /\ Rank(Tool("ws")) = 1 /\ Tool("ws") \notin N
    BY <1>0
  <2>3. Expands("workspace", Does(<<Tool("ws")>>))
    BY <2>1, <2>2 DEF Expands, Does, N
  <2> QED BY <2>3 DEF stage_workspace
<1>6. Expands("boot", stage_boot)
  <2>1. <<Tool("boot")>> \in Stack /\ Elems(<<Tool("boot")>>) = {Tool("boot")}
    BY <1>0, One
  <2>2. Rank(Stage("boot")) = 2 /\ Rank(Tool("boot")) = 2 /\ Tool("boot") \notin N
    BY <1>0
  <2>3. Expands("boot", Does(<<Tool("boot")>>))
    BY <2>1, <2>2 DEF Expands, Does, N
  <2> QED BY <2>3 DEF stage_boot
<1>7. Expands("flash", stage_flash)
  <2>1. <<Tool("mcs")>> \in Seq(FlashSteps) /\ Stage("flash") \in FlashSteps
    BY DEF FlashSteps
  <2> QED BY <2>1, GroupExpands DEF stage_flash
<1>8. Expands("petalinux", stage_petalinux)
  <2>1. <<Tool("petl")>> \in Seq(PetalinuxSteps) /\ Stage("petalinux") \in PetalinuxSteps
    BY DEF PetalinuxSteps
  <2> QED BY <2>1, GroupExpands DEF stage_petalinux
<1>9. \A z \in Zips : Expands(z, stage_zip(z))
  <2> TAKE z \in Zips
  <2>1. <<Tool(z)>> \in Seq(PackageSteps) /\ Stage(z) \in PackageSteps
    BY DEF PackageSteps
  <2> QED BY <2>1, GroupExpands DEF stage_zip
<1> QED BY <1>1, <1>2, <1>3, <1>4, <1>5, <1>6, <1>7, <1>8, <1>9, CfmemExpands, PackageExpands
        DEF StageNames, STAGE_FUNCS, Zips

LEMMA CoreExpands ==
    \A c \in Elems(Cores) :
        stage_core(c).ok /\ stage_core(c).todo \in {<<>>, <<Tool(c)>>}
BY DEF stage_core, Skipped, Does


-----------------------------------------------------------------------------
(* Every action leaves a stack                                              *)

RunOK ==
    /\ design \in Designs
    /\ run \in [cmd : BUILD_COMMANDS \cup {"none"}, todo : Stack, calm : BOOLEAN]
    /\ run.cmd = "none" => run.todo = <<>>

\* The run goes on with e in place of the head of its stack.
GoesOn(e) ==
    /\ run'.todo = e \o Tail(run.todo) /\ e \in Stack
    /\ Elems(run.todo)' = Elems(e) \cup Elems(Tail(run.todo))
    /\ run'.cmd = run.cmd /\ run'.calm = run.calm

LEMMA IdleOK ==
    /\ Idle \in [cmd : BUILD_COMMANDS \cup {"none"}, todo : Stack, calm : BOOLEAN]
    /\ Idle.cmd = "none" /\ Idle.todo = <<>>
BY None DEF Idle

LEMMA ReturnsGoesOn ==
    ASSUME RunOK, run.todo # <<>>, NEW r, Returns(r),
           r.ok => r.todo \in Stack /\ \A e \in Elems(r.todo) : Rank(e) <= Rank(Head(run.todo))
    PROVE  /\ (run' = Idle /\ ~r.ok) \/ (GoesOn(r.todo) /\ r.ok)
           /\ run' \in [cmd : BUILD_COMMANDS \cup {"none"}, todo : Stack, calm : BOOLEAN]
           /\ run'.cmd = "none" => run'.todo = <<>>
<1>1. CASE r.ok
  <2>1. run' = [run EXCEPT !.todo = r.todo \o Tail(run.todo)]
    BY <1>1 DEF Returns
  <2>2. r.todo \o Tail(run.todo) \in Stack
        /\ Elems(r.todo \o Tail(run.todo)) = Elems(r.todo) \cup Elems(Tail(run.todo))
    BY <1>1, Pushed DEF RunOK
  <2>3. run'.todo = r.todo \o Tail(run.todo) /\ run'.cmd = run.cmd /\ run'.calm = run.calm
        /\ run' \in [cmd : BUILD_COMMANDS \cup {"none"}, todo : Stack, calm : BOOLEAN]
    BY <2>1, <2>2 DEF RunOK
  <2>4. run.cmd # "none"
    BY DEF RunOK
  <2> QED BY <1>1, <2>2, <2>3, <2>4 DEF GoesOn
<1>2. CASE ~r.ok
  BY <1>2, IdleOK DEF Returns, FailRun
<1> QED BY <1>1, <1>2

LEMMA ToolDoneGoesOn ==
    ASSUME RunOK, run.todo # <<>>, ToolDone
    PROVE  /\ run'.todo = Tail(run.todo)
           /\ run'.cmd = run.cmd /\ run'.calm = run.calm
           /\ run' \in [cmd : BUILD_COMMANDS \cup {"none"}, todo : Stack, calm : BOOLEAN]
           /\ run'.cmd # "none"
BY HeadAndTail DEF RunOK, ToolDone

\* What a command starts with.
LEMMA StagesStack ==
    \A cmd \in BUILD_COMMANDS :
        /\ stages_for(cmd) \in Stack
        /\ Elems(stages_for(cmd)) \cap ImageSteps = {}
<1> SUFFICES ASSUME NEW cmd \in BUILD_COMMANDS
             PROVE  stages_for(cmd) \in Stack /\ Elems(stages_for(cmd)) \cap ImageSteps = {}
  OBVIOUS
<1> DEFINE Names == {"ip", "project", "xsa", "standalone", "cfgmem", "petalinux", "yocto", "package"}
<1>1. \A s \in Names : Stage(s) \in Entries /\ Stage(s) \notin ImageSteps
  BY DEF Entries, XsaSteps, BootSteps, FlashSteps, PetalinuxSteps, PackageSteps, ImageSteps, Stage, Tool
<1>2. /\ Rank(Stage("xsa")) = 0 /\ Rank(Stage("standalone")) = 2 /\ Rank(Stage("cfgmem")) = 3
      /\ Rank(Stage("petalinux")) = 3 /\ Rank(Stage("yocto")) = 9 /\ Rank(Stage("package")) = 10
      /\ Rank(Stage("ip")) = 0 /\ Rank(Stage("project")) = 0
  BY RankInGroup, RankOfImageSteps
  DEF XsaSteps, BootSteps, FlashSteps, PetalinuxSteps, PackageSteps
<1>3. \A s \in Names : <<Stage(s)>> \in Stack /\ Elems(<<Stage(s)>>) = {Stage(s)}
  BY <1>1, One
<1>4. \A b, s : s \in Names => If(b, s) \in Stack /\ Elems(If(b, s)) \subseteq {Stage(s)}
  BY <1>3, None DEF If
<1> HIDE DEF Names
<1>5. CASE cmd \in {"ip", "project", "xsa", "package"}
  <2>1. stages_for(cmd) = <<Stage(cmd)>> /\ cmd \in Names
    BY <1>5 DEF stages_for, Names
  <2> QED BY <2>1, <1>1, <1>3
<1>6. CASE cmd = "all"
  <2> DEFINE a == <<Stage("xsa")>>  b == If(design.baremetal, "standalone")
             c == If(design.cfgmem, "cfgmem")  d == If(design.petalinux, "petalinux")
             e == If(design.yocto, "yocto")  f == <<Stage("package")>>
  <2>1. /\ a \in Stack /\ Elems(a) = {Stage("xsa")} /\ b \in Stack /\ Elems(b) \subseteq {Stage("standalone")}
        /\ c \in Stack /\ Elems(c) \subseteq {Stage("cfgmem")} /\ d \in Stack /\ Elems(d) \subseteq {Stage("petalinux")}
        /\ e \in Stack /\ Elems(e) \subseteq {Stage("yocto")} /\ f \in Stack /\ Elems(f) = {Stage("package")}
    BY <1>3, <1>4 DEF Names
  <2>2. stages_for(cmd) = ((((a \o b) \o c) \o d) \o e) \o f
    BY <1>6 DEF stages_for
  <2> HIDE DEF a, b, c, d, e, f
  <2>3. a \o b \in Stack /\ Elems(a \o b) \subseteq {Stage("xsa"), Stage("standalone")}
    <3>1. \A g \in Elems(a), h \in Elems(b) : Before(g, h)
      BY <2>1, <1>2 DEF Before
    <3> QED BY <3>1, <2>1, StackCat
  <2> DEFINE ab == a \o b
  <2> HIDE DEF ab
  <2>4. ab \o c \in Stack /\ Elems(ab \o c) \subseteq {Stage("xsa"), Stage("standalone"), Stage("cfgmem")}
    <3>1. \A g \in Elems(ab), h \in Elems(c) : Before(g, h)
      BY <2>1, <2>3, <1>2 DEF Before, ab
    <3> QED BY <3>1, <2>1, <2>3, StackCat DEF ab
  <2> DEFINE abc == ab \o c
  <2> HIDE DEF abc
  <2>5. /\ abc \o d \in Stack
        /\ Elems(abc \o d) \subseteq {Stage("xsa"), Stage("standalone"), Stage("cfgmem"), Stage("petalinux")}
    <3>1. \A g \in Elems(abc), h \in Elems(d) : Before(g, h)
      BY <2>1, <2>4, <1>2 DEF Before, abc
    <3> QED BY <3>1, <2>1, <2>4, StackCat DEF abc
  <2> DEFINE abcd == abc \o d
  <2> HIDE DEF abcd
  <2>6. /\ abcd \o e \in Stack
        /\ Elems(abcd \o e) \subseteq {Stage("xsa"), Stage("standalone"), Stage("cfgmem"), Stage("petalinux"), Stage("yocto")}
    <3>1. \A g \in Elems(abcd), h \in Elems(e) : Before(g, h)
      BY <2>1, <2>5, <1>2 DEF Before, abcd
    <3> QED BY <3>1, <2>1, <2>5, StackCat DEF abcd
  <2> DEFINE all == abcd \o e
  <2> HIDE DEF all
  <2>7. /\ all \o f \in Stack
        /\ Elems(all \o f) \subseteq {Stage("xsa"), Stage("standalone"), Stage("cfgmem"), Stage("petalinux"), Stage("yocto"), Stage("package")}
    <3>1. \A g \in Elems(all), h \in Elems(f) : Before(g, h)
      BY <2>1, <2>6, <1>2 DEF Before, all
    <3> QED BY <3>1, <2>1, <2>6, StackCat DEF all
  <2>8. stages_for(cmd) = all \o f
    BY <2>2 DEF all, abcd, abc, ab
  <2> QED BY <2>7, <2>8, <1>1 DEF Names
<1>7. CASE cmd \in {"standalone", "cfgmem", "petalinux", "yocto"}
  <2>1. <<Stage("xsa"), Stage(cmd)>> = <<Stage("xsa")>> \o <<Stage(cmd)>>
    OBVIOUS
  <2>2. /\ <<Stage("xsa")>> \in Stack /\ Elems(<<Stage("xsa")>>) = {Stage("xsa")}
        /\ <<Stage(cmd)>> \in Stack /\ Elems(<<Stage(cmd)>>) = {Stage(cmd)}
    BY <1>7, <1>3 DEF Names
  <2>3. \A g \in Elems(<<Stage("xsa")>>), h \in Elems(<<Stage(cmd)>>) : Before(g, h)
    BY <1>7, <2>2, <1>2 DEF Before
  <2>4. stages_for(cmd) = <<Stage("xsa")>> \o <<Stage(cmd)>>
    BY <1>7, <2>1 DEF stages_for
  <2>5. Stage("xsa") \notin ImageSteps /\ Stage(cmd) \notin ImageSteps
    BY <1>7, <1>1 DEF Names
  <2> QED BY <2>2, <2>3, <2>4, <2>5, StackCat
<1> QED BY <1>5, <1>6, <1>7 DEF BUILD_COMMANDS


LEMMA ToolDoneGoesOnEmpty == ASSUME RunOK, run.todo # <<>>, ToolDone PROVE GoesOn(<<>>)
<1>1. Tail(run.todo) \in Stack
  BY HeadAndTail DEF RunOK
<1>2. <<>> \o Tail(run.todo) = Tail(run.todo)
  BY <1>1 DEF Stack
<1>3. run'.todo = Tail(run.todo) /\ run'.cmd = run.cmd /\ run'.calm = run.calm
  BY ToolDoneGoesOn
<1>4. Elems(run.todo)' = Elems(Tail(run.todo))
  BY <1>3 DEF Elems
<1> QED BY <1>2, <1>3, <1>4, None DEF GoesOn

NoImages == \A s \in ImageSteps : ~Pending(s)

\* No step of an image build comes or goes.
SameImages ==
    /\ \A s \in ImageSteps : Pending(s)' <=> Pending(s)
    /\ \A e \in Elems(run.todo)' :
        e \in Elems(run.todo) \/ NoImages \/ \E d \in Elems(run.todo) : Rank(d) < 4
    /\ At(Tool("configdone")) => run'.todo = run.todo

LEMMA RankOfSteps == \A s \in ImageSteps : Rank(s) \in 4 .. 9
BY RankOfImageSteps DEF ImageSteps

LEMMA RankOfOthers == \A e \in Entries \ ImageSteps : Rank(e) \in {0, 1, 2, 3, 9, 10}
BY RankInGroup, RankOfImageSteps DEF Entries

LEMMA GoesOnSame ==
    ASSUME RunOK, run.todo # <<>>, Head(run.todo) \notin ImageSteps, NEW t, GoesOn(t),
           Elems(t) \cap ImageSteps = {}
    PROVE  SameImages
<1>1. /\ Elems(run.todo) = {Head(run.todo)} \cup Elems(Tail(run.todo))
      /\ Head(run.todo) \in Entries
      /\ \A e \in Elems(Tail(run.todo)) : Before(Head(run.todo), e)
  BY HeadAndTail DEF RunOK
<1>2. Rank(Head(run.todo)) < 4 \/ NoImages
  <2>1. SUFFICES ASSUME Rank(Head(run.todo)) \in {9, 10}, NEW s \in ImageSteps, Pending(s)
                 PROVE  FALSE
    BY <1>1, RankOfOthers DEF NoImages
  <2>2. Before(Head(run.todo), s)
    BY <2>1, <1>1 DEF Pending
  <2> QED BY <2>1, <2>2, RankOfSteps DEF Before
<1>3. Elems(run.todo)' = Elems(t) \cup Elems(Tail(run.todo))
  BY DEF GoesOn
<1>4. \A s \in ImageSteps : Pending(s)' <=> Pending(s)
  BY <1>1, <1>3 DEF Pending
<1>5. \A e \in Elems(run.todo)' :
        e \in Elems(run.todo) \/ NoImages \/ \E d \in Elems(run.todo) : Rank(d) < 4
  BY <1>1, <1>2, <1>3
<1>6. ~At(Tool("configdone"))
  BY DEF At, ImageSteps
<1> QED BY <1>4, <1>5, <1>6 DEF SameImages

LEMMA EmptyNoImages == ASSUME run.todo = <<>> PROVE NoImages
BY None DEF NoImages, Pending

LEMMA EmptyNoImagesNext == ASSUME run'.todo = <<>> PROVE NoImages'
<1>1. Elems(run.todo)' = Elems(run'.todo)
  BY DEF Elems
<1> QED BY <1>1, None DEF NoImages, Pending

LEMMA SameTodo ==
    ASSUME RunOK, run'.todo = run.todo PROVE SameImages
<1>1. Elems(run.todo)' = Elems(run.todo)
  BY DEF Elems
<1> QED BY <1>1 DEF SameImages, Pending

\* The name of a tool is that of a step of the images nowhere.
LEMMA ToolSteps ==
    \A x \in ToolNames : Tool(x) \in Entries /\ Tool(x) \notin ImageSteps \cup {Stage("yocto")}
<1>1. \A x \in ToolNames : Tool(x) \in XsaSteps \cup WsSteps \cup BootSteps \cup FlashSteps \cup PetalinuxSteps \cup PackageSteps
  BY DEF ToolNames, XsaSteps, WsSteps, BootSteps, FlashSteps, PetalinuxSteps, PackageSteps
<1> QED BY <1>1, NoImageSteps DEF Entries

LEMMA StageSteps ==
    \A s \in StageNames : Stage(s) \in Entries /\ Stage(s) \notin ImageSteps \cup {Stage("yocto")}
<1>1. \A s \in StageNames : Stage(s) \in XsaSteps \cup WsSteps \cup BootSteps \cup FlashSteps \cup PetalinuxSteps \cup PackageSteps
  BY DEF StageNames, XsaSteps, WsSteps, BootSteps, FlashSteps, PetalinuxSteps, PackageSteps
<1> QED BY <1>1, NoImageSteps DEF Entries

CoreSteps == {Core(c) : c \in Elems(Cores)}

LEMMA CoreStepsOK ==
    /\ \A c \in Elems(Cores) : Core(c) \in XsaSteps /\ Tool(c) \in XsaSteps /\ c \in ToolNames
    /\ \A c \in Elems(Cores) : <<>> \in Stack /\ <<Tool(c)>> \in Stack
    /\ \A c \in Elems(Cores) : Rank(Core(c)) = 0 /\ Rank(Tool(c)) = 0
<1>1. \A c \in Elems(Cores) : Core(c) \in XsaSteps /\ Tool(c) \in XsaSteps /\ c \in ToolNames
  BY DEF XsaSteps, ToolNames
<1> QED BY <1>1, RankInGroup, One, None, Groups

\* What a stage or a core comes to.
LEMMA RunStageStack ==
    ASSUME RunOK, RunStage
    PROVE  RunOK' /\ (NoImages' \/ SameImages)
<1>1. design' = design /\ design \in Designs
  BY DEF RunStage, RunOK
<1>2. ASSUME NEW s \in StageNames, At(Stage(s)), Returns(STAGE_FUNCS(s))
      PROVE  RunOK' /\ (NoImages' \/ SameImages)
  <2> DEFINE r == STAGE_FUNCS(s)
  <2>1. Expands(s, r)
    BY <1>1, StageExpands
  <2>2. run.todo # <<>> /\ Head(run.todo) = Stage(s) /\ Stage(s) \notin ImageSteps
    BY <1>2, StageSteps DEF At
  <2>3. Returns(r)
    BY <1>2
  <2> HIDE DEF r
  <2>4. r.ok => r.todo \in Stack /\ \A e \in Elems(r.todo) : Rank(e) <= Rank(Head(run.todo))
    BY <2>1, <2>2 DEF Expands
  <2>5. /\ (run' = Idle /\ ~r.ok) \/ (GoesOn(r.todo) /\ r.ok)
        /\ run' \in [cmd : BUILD_COMMANDS \cup {"none"}, todo : Stack, calm : BOOLEAN]
        /\ run'.cmd = "none" => run'.todo = <<>>
    BY <2>2, <2>3, <2>4, ReturnsGoesOn
  <2>6. ASSUME run' = Idle PROVE NoImages'
    BY <2>6, IdleOK, EmptyNoImagesNext
  <2>7. ASSUME GoesOn(r.todo), r.ok PROVE SameImages
    <3>1. Elems(r.todo) \cap ImageSteps = {}
      BY <2>1, <2>7 DEF Expands
    <3> QED BY <2>2, <2>7, <3>1, GoesOnSame
  <2> QED BY <1>1, <2>5, <2>6, <2>7 DEF RunOK
<1>3. ASSUME NEW c \in Elems(Cores), At(Core(c)), Returns(stage_core(c))
      PROVE  RunOK' /\ (NoImages' \/ SameImages)
  <2> DEFINE r == stage_core(c)
  <2>1. r.ok /\ r.todo \in {<<>>, <<Tool(c)>>}
    BY CoreExpands
  <2>2. run.todo # <<>> /\ Head(run.todo) = Core(c)
    BY <1>3 DEF At
  <2>3. Returns(r)
    BY <1>3
  <2> HIDE DEF r
  <2>4. r.todo \in Stack /\ Elems(r.todo) \subseteq {Tool(c)}
    BY <2>1, CoreStepsOK, One, None, Groups
  <2>5. Rank(Core(c)) = 0 /\ Rank(Tool(c)) = 0 /\ Core(c) \notin ImageSteps /\ Tool(c) \notin ImageSteps
    BY CoreStepsOK, ImageStepsApart
  <2>6. \A e \in Elems(r.todo) : Rank(e) <= Rank(Head(run.todo))
    BY <2>2, <2>4, <2>5
  <2>7. /\ GoesOn(r.todo)
        /\ run' \in [cmd : BUILD_COMMANDS \cup {"none"}, todo : Stack, calm : BOOLEAN]
        /\ run'.cmd = "none" => run'.todo = <<>>
    BY <2>1, <2>2, <2>3, <2>4, <2>6, ReturnsGoesOn
  <2>8. SameImages
    BY <2>2, <2>4, <2>5, <2>7, GoesOnSame
  <2> QED BY <1>1, <2>7, <2>8 DEF RunOK
<1> QED BY <1>2, <1>3 DEF RunStage

LEMMA ToolDoneStack ==
    ASSUME RunOK, design' = design, NEW x \in ToolNames, At(Tool(x)), ToolDone
    PROVE  RunOK' /\ SameImages
<1>1. run.todo # <<>> /\ Head(run.todo) = Tool(x) /\ Tool(x) \notin ImageSteps
  BY ToolSteps DEF At
<1>2. GoesOn(<<>>)
  BY <1>1, ToolDoneGoesOnEmpty
<1>3. SameImages
  BY <1>1, <1>2, None, GoesOnSame
<1> QED BY <1>1, <1>3, ToolDoneGoesOn DEF RunOK

LEMMA AgainStack == ASSUME RunOK, PetalinuxAgain PROVE RunOK' /\ SameImages
<1> DEFINE t == <<Tool("petl_again")>>
<1>1. run.todo # <<>> /\ Head(run.todo) = Tool("petl") /\ Tool("petl") \notin ImageSteps
  BY ToolSteps DEF At, PetalinuxAgain, ToolNames
<1>2. Tool("petl_again") \in Entries /\ Tool("petl_again") \notin ImageSteps
      /\ Rank(Tool("petl_again")) = 3 /\ Rank(Tool("petl")) = 3
  BY ToolSteps, RankInGroup DEF PetalinuxSteps, ToolNames
<1>3. t \in Stack /\ Elems(t) = {Tool("petl_again")}
  BY <1>2, One
<1> HIDE DEF t
<1>4. \A e \in Elems(t) : Rank(e) <= Rank(Head(run.todo))
  BY <1>1, <1>2, <1>3
<1>5. run' = [run EXCEPT !.todo = t \o Tail(run.todo)]
  BY DEF PetalinuxAgain, t
<1>6. t \o Tail(run.todo) \in Stack /\ Elems(t \o Tail(run.todo)) = Elems(t) \cup Elems(Tail(run.todo))
  BY <1>1, <1>3, <1>4, Pushed DEF RunOK
<1>7. run'.todo = t \o Tail(run.todo) /\ run'.cmd = run.cmd /\ run'.calm = run.calm
      /\ run' \in [cmd : BUILD_COMMANDS \cup {"none"}, todo : Stack, calm : BOOLEAN]
  BY <1>5, <1>6 DEF RunOK
<1>8. GoesOn(t)
  BY <1>3, <1>6, <1>7 DEF GoesOn
<1>9. SameImages
  BY <1>1, <1>2, <1>3, <1>8, GoesOnSame
<1> QED BY <1>1, <1>7, <1>9 DEF RunOK, PetalinuxAgain

LEMMA FailStack == ASSUME RunOK, design' = design, FailRun PROVE RunOK' /\ NoImages'
BY IdleOK, EmptyNoImagesNext DEF FailRun, RunOK

LEMMA MeddledStack ==
    ASSUME RunOK, design' = design, Meddled
    PROVE  RunOK' /\ SameImages /\ run'.todo = run.todo /\ run'.cmd = run.cmd
<1>1. run'.todo = run.todo /\ run'.cmd = run.cmd
      /\ run' \in [cmd : BUILD_COMMANDS \cup {"none"}, todo : Stack, calm : BOOLEAN]
  BY DEF Meddled, RunOK
<1> QED BY <1>1, SameTodo DEF RunOK

LEMMA StartStack == ASSUME RunOK, Start PROVE RunOK' /\ NoImages'
<1> PICK cmd \in BUILD_COMMANDS : run' = [cmd |-> cmd, todo |-> stages_for(cmd), calm |-> TRUE]
  BY DEF Start
<1>1. stages_for(cmd) \in Stack /\ Elems(stages_for(cmd)) \cap ImageSteps = {}
  BY StagesStack
<1>2. run'.todo = stages_for(cmd) /\ run'.cmd = cmd
      /\ run' \in [cmd : BUILD_COMMANDS \cup {"none"}, todo : Stack, calm : BOOLEAN]
  BY <1>1
<1>3. Elems(run.todo)' = Elems(stages_for(cmd))
  BY <1>2 DEF Elems
<1>4. NoImages'
  BY <1>1, <1>3 DEF NoImages, Pending
<1>5. cmd # "none"
  BY DEF BUILD_COMMANDS
<1> QED BY <1>2, <1>4, <1>5 DEF RunOK, Start

LEMMA FinishStack == ASSUME RunOK, Finish PROVE RunOK' /\ NoImages'
BY IdleOK, EmptyNoImagesNext DEF Finish, RunOK

LEMMA RunSameStack ==
    ASSUME RunOK, design' = design, run' = run PROVE RunOK' /\ SameImages
BY SameTodo DEF RunOK

-----------------------------------------------------------------------------
(* The steps of an image build come in order                                *)

ImagesInOrder ==
    /\ \A s \in ImageSteps : Pending(s) => Pending(Tool("stamp"))
    /\ Pending(Tool("stamp")) =>
        \A s \in ImageSteps \ {Tool("configdone")} : \A e \in Elems(run.todo) :
            Rank(e) < Rank(s) => Pending(s)
    /\ Pending(Tool("configdone")) => At(Tool("configdone"))

LEMMA NoImagesInOrder == NoImages => ImagesInOrder
BY DEF NoImages, ImagesInOrder, ImageSteps

LEMMA TodoEntries == RunOK => \A e \in Elems(run.todo) : e \in Entries /\ Rank(e) \in 0 .. 10
BY RankType, ElemsOf DEF RunOK, Stack

LEMMA SameImagesInOrder ==
    ASSUME RunOK, RunOK', ImagesInOrder, SameImages PROVE ImagesInOrder'
<1>1. \A s \in ImageSteps : Pending(s)' => Pending(Tool("stamp"))'
  BY DEF SameImages, ImagesInOrder, ImageSteps
<1>2. ASSUME Pending(Tool("stamp"))', NEW s \in ImageSteps \ {Tool("configdone")},
             NEW e \in Elems(run.todo)', Rank(e) < Rank(s)
      PROVE  Pending(s)'
  <2>1. Pending(Tool("stamp")) /\ ~NoImages
    BY <1>2 DEF SameImages, ImageSteps, NoImages
  <2>2. \E d \in Elems(run.todo) : Rank(d) < Rank(s)
    <3>1. CASE e \in Elems(run.todo)
      BY <1>2, <3>1
    <3>2. CASE \E d \in Elems(run.todo) : Rank(d) < 4
      BY <3>2, RankOfSteps, TodoEntries
    <3> QED BY <2>1, <3>1, <3>2, <1>2 DEF SameImages
  <2>3. Pending(s)
    BY <2>1, <2>2 DEF ImagesInOrder
  <2> QED BY <2>3 DEF SameImages
<1>3. Pending(Tool("configdone"))' => At(Tool("configdone"))'
  BY DEF SameImages, ImagesInOrder, ImageSteps, At
<1> QED BY <1>1, <1>2, <1>3 DEF ImagesInOrder

\* A step of the images that is done is not to be done again, and the others stay.
LEMMA PopImage ==
    ASSUME RunOK, NEW e \in ImageSteps, At(e), GoesOn(<<>>)
    PROVE  /\ \A s \in ImageSteps : Pending(s)' <=> Pending(s) /\ s # e
           /\ \A d \in Elems(run.todo)' : d \in Elems(run.todo) /\ Rank(e) < Rank(d)
<1>1. /\ Elems(run.todo) = {e} \cup Elems(Tail(run.todo))
      /\ \A d \in Elems(Tail(run.todo)) : Before(e, d)
  BY HeadAndTail DEF RunOK, At
<1>2. Elems(run.todo)' = Elems(Tail(run.todo))
  BY None DEF GoesOn
<1>3. \A d \in Elems(Tail(run.todo)) : Rank(e) < Rank(d)
  BY <1>1, RankOfSteps DEF Before
<1>4. \A d \in Elems(Tail(run.todo)) : d # e
  BY <1>3, RankOfSteps
<1> QED BY <1>1, <1>2, <1>3, <1>4 DEF Pending

LEMMA PopImageInOrder ==
    ASSUME RunOK, ImagesInOrder, NEW e \in ImageSteps, At(e), GoesOn(<<>>)
    PROVE  ImagesInOrder'
<1>1. /\ \A s \in ImageSteps : Pending(s)' <=> Pending(s) /\ s # e
      /\ \A d \in Elems(run.todo)' : d \in Elems(run.todo) /\ Rank(e) < Rank(d)
  BY PopImage
<1>2. Pending(e)
  BY HeadAndTail DEF RunOK, At, Pending
<1>3. CASE e = Tool("stamp")
  <2>1. NoImages'
    <3> SUFFICES ASSUME NEW s \in ImageSteps, Pending(s)' PROVE FALSE
      BY DEF NoImages
    <3>1. Rank(e) < Rank(s) /\ Rank(e) = 9
      BY <1>1, <1>3, RankOfImageSteps DEF Pending
    <3> QED BY <3>1, RankOfSteps
  <2> QED BY <2>1, NoImagesInOrder, PTL
<1>4. CASE e # Tool("stamp")
  <2>1. Pending(Tool("stamp"))'
    BY <1>1, <1>2, <1>4 DEF ImagesInOrder, ImageSteps
  <2>2. ASSUME NEW s \in ImageSteps \ {Tool("configdone")}, NEW d \in Elems(run.todo)',
               Rank(d) < Rank(s)
        PROVE  Pending(s)'
    <3>1. d \in Elems(run.todo) /\ Rank(e) < Rank(d)
      BY <1>1, <2>2
    <3>2. Rank(e) < Rank(s) /\ s # e
      BY <2>2, <3>1, RankOfSteps, TodoEntries
    <3>3. Pending(s)
      <4>1. Pending(Tool("stamp")) /\ e \in Elems(run.todo)
        BY <1>2 DEF ImagesInOrder, Pending
      <4> QED BY <4>1, <2>2, <3>2 DEF ImagesInOrder
    <3> QED BY <1>1, <3>2, <3>3
  <2>3. ~Pending(Tool("configdone"))'
    <3> SUFFICES ASSUME Pending(Tool("configdone"))' PROVE FALSE
      OBVIOUS
    <3>1. Pending(Tool("configdone")) /\ e # Tool("configdone")
      BY <1>1 DEF ImageSteps
    <3> QED BY <3>1 DEF ImagesInOrder, At
  <2> QED BY <2>1, <2>2, <2>3 DEF ImagesInOrder
<1> QED BY <1>3, <1>4

\* The configure step becomes its script.
LEMMA ConfigureInOrder ==
    ASSUME RunOK, ImagesInOrder, At(Stage("configure")), GoesOn(<<Tool("configdone")>>)
    PROVE  /\ ImagesInOrder'
           /\ \A s \in ImageSteps :
                Pending(s)' <=> (Pending(s) /\ s # Stage("configure")) \/ s = Tool("configdone")
<1> DEFINE e == Stage("configure")  f == Tool("configdone")
<1>0. e \in ImageSteps /\ f \in ImageSteps /\ e # f /\ Rank(e) = 6 /\ Rank(f) = 6
      /\ f # Tool("stamp") /\ e # Tool("stamp") /\ Tool("stamp") \in ImageSteps
  BY RankOfImageSteps DEF ImageSteps, Stage, Tool
<1>1. /\ Elems(run.todo) = {e} \cup Elems(Tail(run.todo))
      /\ \A d \in Elems(Tail(run.todo)) : Before(e, d) /\ d \in Entries
      /\ Tail(run.todo) \in Stack
  BY HeadAndTail, ElemsOf DEF RunOK, At, Stack
<1>2. Elems(run.todo)' = {f} \cup Elems(Tail(run.todo))
  BY <1>0, One, Groups DEF GoesOn
<1>a. run'.todo = <<f>> \o Tail(run.todo)
  BY DEF GoesOn
<1> HIDE DEF e, f
<1>3. \A d \in Elems(Tail(run.todo)) : 6 < Rank(d)
  BY <1>1, <1>0, RankType DEF Before
<1>4. \A d \in Elems(Tail(run.todo)) : d # e /\ d # f
  BY <1>3, <1>0
<1>5. \A s \in ImageSteps : Pending(s)' <=> (Pending(s) /\ s # e) \/ s = f
  BY <1>1, <1>2, <1>4 DEF Pending
<1>6. Pending(e)
  BY <1>1 DEF Pending
<1>7. Pending(Tool("stamp"))'
  BY <1>6, <1>5, <1>0 DEF ImagesInOrder
<1>8. ASSUME NEW s \in ImageSteps \ {f}, NEW d \in Elems(run.todo)', Rank(d) < Rank(s)
      PROVE  Pending(s)'
  <2>1. 6 <= Rank(d) /\ Rank(d) \in Nat
    BY <1>2, <1>3, <1>0, <1>1, RankType
  <2>2. Rank(e) < Rank(s) /\ s # e
    BY <2>1, <1>8, <1>0, RankOfSteps
  <2>3. Pending(s)
    BY <2>2, <1>6, <1>0, <1>8 DEF ImagesInOrder, Pending, f
  <2> QED BY <2>2, <2>3, <1>5
<1>9. At(f)'
  BY <1>a, <1>1 DEF At, Stack
<1> QED BY <1>5, <1>7, <1>8, <1>9 DEF ImagesInOrder, e, f

LEMMA NoImagesAtYocto == ASSUME RunOK, At(Stage("yocto")) PROVE NoImages
<1>1. /\ Elems(run.todo) = {Stage("yocto")} \cup Elems(Tail(run.todo))
      /\ \A d \in Elems(Tail(run.todo)) : Before(Stage("yocto"), d)
  BY HeadAndTail DEF RunOK, At
<1>2. \A s \in ImageSteps : ~Before(Stage("yocto"), s)
  BY RankOfSteps, RankOfImageSteps DEF Before
<1> QED BY <1>1, <1>2, ImageStepsApart DEF NoImages, Pending

LEMMA YoctoStepsStack ==
    /\ YoctoSteps \in Stack
    /\ Elems(YoctoSteps) = {Stage("xsa")} \cup (ImageSteps \ {Tool("configdone")})
    /\ \A e \in Elems(YoctoSteps) : Rank(e) <= 9
<1>1. /\ YoctoSteps[1] = Stage("xsa") /\ YoctoSteps[2] = Stage("snapshot") /\ YoctoSteps[3] = Tool("hw")
      /\ YoctoSteps[4] = Stage("configure") /\ YoctoSteps[5] = Tool("bitbake")
      /\ YoctoSteps[6] = Tool("yimg") /\ YoctoSteps[7] = Tool("stamp")
      /\ DOMAIN YoctoSteps = 1 .. 7
  BY DEF YoctoSteps
<1>2. \A i \in 1 .. 7 : i \in {1, 2, 3, 4, 5, 6, 7}
  OBVIOUS
<1>3. \A i \in 1 .. 7 : Rank(YoctoSteps[i]) = IF i = 1 THEN 0 ELSE i + 2
  BY <1>1, <1>2, RankOfImageSteps, RankInGroup DEF XsaSteps
<1>4. Sorted(YoctoSteps)
  <2> SUFFICES ASSUME NEW i \in 1 .. 7, NEW j \in 1 .. 7, i < j
               PROVE  Rank(YoctoSteps[i]) < Rank(YoctoSteps[j])
    BY <1>1 DEF Sorted, Before
  <2> QED BY <1>3
<1>5. YoctoSteps \in Seq(Entries)
  BY Groups DEF YoctoSteps, ImageSteps, XsaSteps
<1>6. Elems(YoctoSteps) = {YoctoSteps[1], YoctoSteps[2], YoctoSteps[3], YoctoSteps[4], YoctoSteps[5],
                           YoctoSteps[6], YoctoSteps[7]}
  BY <1>1, <1>2 DEF Elems
<1>7. {Stage("snapshot"), Tool("hw"), Stage("configure"), Tool("bitbake"), Tool("yimg"), Tool("stamp")}
      = ImageSteps \ {Tool("configdone")}
  BY DEF ImageSteps, Stage, Tool
<1>8. Elems(YoctoSteps) = {Stage("xsa")} \cup (ImageSteps \ {Tool("configdone")})
  BY <1>1, <1>6, <1>7
<1>9. \A e \in Elems(YoctoSteps) : Rank(e) <= 9
  <2>1. Rank(Stage("xsa")) = 0
    BY RankInGroup DEF XsaSteps
  <2> QED BY <1>8, <2>1, RankOfSteps
<1> QED BY <1>4, <1>5, <1>8, <1>9 DEF Stack

\* The stage of the images is skipped, or all their steps are to be done.
AllImages ==
    \A s \in ImageSteps : Pending(s) <=> s # Tool("configdone")

LEMMA StageYoctoStack ==
    ASSUME RunOK, StageYocto
    PROVE  RunOK' /\ ImagesInOrder' /\ (NoImages' \/ AllImages')
<1>1. run.todo # <<>> /\ Head(run.todo) = Stage("yocto") /\ design' = design
  BY DEF StageYocto, At
<1>2. NoImages
  BY NoImagesAtYocto DEF StageYocto
<1>3. PICK r \in {Skipped, Does(YoctoSteps)} : Returns(r)
  BY DEF StageYocto
<1>4. r.ok /\ r.todo \in {<<>>, YoctoSteps}
  BY <1>3 DEF Skipped, Does
<1>5. r.todo \in Stack /\ \A e \in Elems(r.todo) : Rank(e) <= Rank(Head(run.todo))
  BY <1>1, <1>4, YoctoStepsStack, None, RankOfImageSteps
<1>6. GoesOn(r.todo) /\ RunOK'
  BY <1>1, <1>3, <1>4, <1>5, ReturnsGoesOn DEF RunOK
<1>7. Elems(run.todo)' = Elems(r.todo) \cup Elems(Tail(run.todo))
      /\ Elems(run.todo) = {Stage("yocto")} \cup Elems(Tail(run.todo))
  BY <1>1, <1>6, HeadAndTail DEF GoesOn, RunOK
<1>8. CASE r.todo = <<>>
  <2>1. NoImages'
    BY <1>2, <1>7, <1>8, None DEF NoImages, Pending
  <2> QED BY <1>6, <2>1, NoImagesInOrder, PTL
<1>9. CASE r.todo = YoctoSteps
  <2>1. AllImages'
    BY <1>2, <1>7, <1>9, YoctoStepsStack, ImageStepsApart DEF NoImages, AllImages, Pending, XsaSteps
  <2>2. ImagesInOrder'
    BY <2>1 DEF AllImages, ImagesInOrder, ImageSteps, Stage, Tool
  <2> QED BY <1>6, <2>1, <2>2
<1> QED BY <1>4, <1>8, <1>9

-----------------------------------------------------------------------------
(* What the phases of an image build know                                   *)

Hashed == Pending(Tool("stamp")) /\ ~Pending(Stage("snapshot"))
Handed == Pending(Tool("stamp")) /\ ~Pending(Tool("hw"))
Configured ==
    Pending(Tool("stamp")) /\ ~Pending(Stage("configure")) /\ ~Pending(Tool("configdone"))
Baked == Pending(Tool("stamp")) /\ ~Pending(Tool("bitbake"))
Packed == Pending(Tool("stamp")) /\ ~Pending(Tool("yimg"))

LEMMA NoPhases ==
    NoImages \/ AllImages =>
        ~Hashed /\ ~Handed /\ ~Configured /\ ~Baked /\ ~Packed /\ ~Pending(Tool("configdone"))
BY DEF NoImages, AllImages, Hashed, Handed, Configured, Baked, Packed, ImageSteps, Stage, Tool

LEMMA SamePhases ==
    ASSUME SameImages
    PROVE  /\ (Hashed' <=> Hashed) /\ (Handed' <=> Handed) /\ (Configured' <=> Configured)
           /\ (Baked' <=> Baked) /\ (Packed' <=> Packed)
           /\ Pending(Tool("configdone"))' <=> Pending(Tool("configdone"))
BY DEF SameImages, Hashed, Handed, Configured, Baked, Packed, ImageSteps

\* Each phase is after those in front of it, and what builds the XSA is over.
LEMMA PhasesInOrder ==
    ASSUME RunOK, ImagesInOrder
    PROVE  /\ Packed => Baked
           /\ Baked => Configured
           /\ Configured => Handed
           /\ Handed => Hashed
           /\ Hashed => \A e \in Elems(run.todo) : Rank(e) > 3
           /\ Pending(Tool("configdone")) => Handed
<1>1. ASSUME Pending(Tool("stamp")), NEW s \in ImageSteps \ {Tool("configdone")}, ~Pending(s)
      PROVE  \A e \in Elems(run.todo) : Rank(s) <= Rank(e)
  BY <1>1, RankOfSteps, TodoEntries DEF ImagesInOrder
<1>2. Packed => Baked
  <2>1. Packed => \A e \in Elems(run.todo) : 8 <= Rank(e)
    BY <1>1, RankOfImageSteps DEF Packed, ImageSteps, Stage, Tool
  <2> QED BY <2>1, RankOfImageSteps DEF Packed, Baked, Pending
<1>3. Baked => Configured
  <2>1. Baked => \A e \in Elems(run.todo) : 7 <= Rank(e)
    BY <1>1, RankOfImageSteps DEF Baked, ImageSteps, Stage, Tool
  <2> QED BY <2>1, RankOfImageSteps DEF Baked, Configured, Pending
<1>4. Configured => Handed
  <2>1. Configured => \A e \in Elems(run.todo) : 6 <= Rank(e)
    BY <1>1, RankOfImageSteps DEF Configured, ImageSteps, Stage, Tool
  <2> QED BY <2>1, RankOfImageSteps DEF Configured, Handed, Pending
<1>5. Handed => Hashed
  <2>1. Handed => \A e \in Elems(run.todo) : 5 <= Rank(e)
    BY <1>1, RankOfImageSteps DEF Handed, ImageSteps, Stage, Tool
  <2> QED BY <2>1, RankOfImageSteps DEF Handed, Hashed, Pending
<1>6. Hashed => \A e \in Elems(run.todo) : Rank(e) > 3
  <2>1. Hashed => \A e \in Elems(run.todo) : 4 <= Rank(e)
    BY <1>1, RankOfImageSteps DEF Hashed, ImageSteps, Stage, Tool
  <2> QED BY <2>1, TodoEntries
<1>7. Pending(Tool("configdone")) => Handed
  <2> SUFFICES ASSUME Pending(Tool("configdone")), Pending(Tool("hw")) PROVE FALSE
    BY DEF Handed, ImagesInOrder, ImageSteps
  <2>1. At(Tool("configdone"))
    BY DEF ImagesInOrder
  <2>2. \A d \in Elems(run.todo) : d = Tool("configdone") \/ Before(Tool("configdone"), d)
    BY <2>1, HeadAndTail DEF RunOK, At
  <2> QED BY <2>2, RankOfImageSteps DEF Pending, Before, Stage, Tool
<1> QED BY <1>2, <1>3, <1>4, <1>5, <1>6, <1>7

\* At a step, the phase of the step before it has been reached.
LEMMA PhaseAt ==
    ASSUME RunOK, ImagesInOrder
    PROVE  /\ At(Tool("hw")) => Hashed
           /\ At(Stage("configure")) => Handed
           /\ At(Tool("configdone")) => Handed
           /\ At(Tool("bitbake")) => Configured
           /\ At(Tool("yimg")) => Baked
           /\ At(Tool("stamp")) => Packed
<1>1. ASSUME NEW s \in ImageSteps, At(s)
      PROVE  Pending(Tool("stamp")) /\ \A d \in Elems(run.todo) : Rank(s) <= Rank(d)
  <2>1. /\ Elems(run.todo) = {s} \cup Elems(Tail(run.todo))
        /\ \A d \in Elems(Tail(run.todo)) : Before(s, d)
    BY <1>1, HeadAndTail DEF RunOK, At
  <2>2. Pending(Tool("stamp"))
    BY <2>1 DEF ImagesInOrder, Pending
  <2> QED BY <2>1, <2>2, TodoEntries DEF Before
<1>2. ASSUME NEW s \in ImageSteps, At(s), NEW d \in ImageSteps, Rank(d) < Rank(s)
      PROVE  ~Pending(d)
  BY <1>1, <1>2, RankOfSteps DEF Pending
<1> USE RankOfImageSteps DEF ImageSteps
<1>3. At(Tool("hw")) => Hashed
  BY <1>1, <1>2 DEF Hashed
<1>4. At(Stage("configure")) => Handed
  BY <1>1, <1>2 DEF Handed
<1>5. At(Tool("configdone")) => Handed
  BY <1>1, <1>2 DEF Handed
<1>6. At(Tool("bitbake")) => Configured
  BY <1>1, <1>2 DEF Configured
<1>7. At(Tool("yimg")) => Baked
  BY <1>1, <1>2 DEF Baked
<1>8. At(Tool("stamp")) => Packed
  BY <1>1, <1>2 DEF Packed
<1> QED BY <1>3, <1>4, <1>5, <1>6, <1>7, <1>8

-----------------------------------------------------------------------------
(* What an image build has seen of its inputs                               *)

InputsType == [conf : Nat, recipe : Nat, port : Nat, xsa : Nat]
YType ==
    [text : Seq(Contents \cup {Absent}), conf : Nat, recipe : Nat, port : Nat, xsa : Nat,
     hw : Nat, cfg : InputsType, snap : InputsType, baked : InputsType, img : InputsType,
     stamp : InputsType, failed : BOOLEAN]

\* Edits are numbered in the order they are made.
NoLater(r) ==
    /\ r.conf <= Len(y.text) /\ r.port <= Len(y.text)
    /\ r.recipe <= y.recipe /\ r.xsa <= y.xsa

Numbers ==
    /\ y \in YType
    /\ y.conf \in 1 .. Len(y.text) /\ y.recipe \in 1 .. Len(y.text) /\ y.port \in 1 .. Len(y.text)
    /\ y.hw <= y.xsa
    /\ Has("xsa") => y.xsa # 0
    /\ NoLater(y.cfg) /\ NoLater(y.snap) /\ NoLater(y.baked) /\ NoLater(y.img) /\ NoLater(y.stamp)

\* A handoff that is not older than the XSA is its own, or torn.
HandoffFits == Has("hw") /\ Has("xsa") => Newer("xsa", "hw") \/ y.hw \in {0, y.xsa}

\* A marker that is not older than the configuration and the handoff is of them,
\* if the build directory is still there; and the handoff is not torn.
MarkerFits == Has("configdone") =>
    /\ Has("hw") => Newer("hw", "configdone") \/ y.hw # 0
    /\ y.cfg # NoInputs =>
        /\ "conf" \in taint \/ Newer("conf", "configdone") \/ y.cfg.conf = y.conf
        /\ "conf" \in taint \/ y.cfg.port = y.port
        /\ Has("hw") => Newer("hw", "configdone") \/ y.cfg.xsa = y.hw

\* What r, of the time of the snapshot, still has of the configuration and the
\* overlay, q has.
Same(r, q) ==
    /\ r.conf = y.conf => q.conf = y.conf
    /\ r.port = y.port => q.port = y.port

SinceHashed == Hashed =>
    /\ y.stamp.recipe <= y.snap.recipe /\ Same(y.stamp, y.snap)
    /\ "edit" \notin taint =>
        y.snap.conf = y.conf /\ y.snap.port = y.port /\ y.snap.recipe = y.recipe
    /\ Has("xsa") => y.snap.xsa = y.xsa

SinceHanded == Handed =>
    /\ y.hw \in {0, y.xsa} /\ y.snap.xsa = y.xsa /\ y.xsa # 0
    /\ Has("configdone") => Has("hw")

Marking == Pending(Tool("configdone")) /\ Has("hw") =>
    /\ "conf" \in taint \/ (y.cfg.conf = y.conf /\ y.cfg.port = y.port)
    /\ y.cfg.xsa = y.hw

SinceConfigured == Configured /\ Has("configdone") /\ y.cfg # NoInputs =>
    /\ "conf" \in taint \/ Same(y.snap, y.cfg)
    /\ y.cfg.xsa = y.xsa

SinceBaked == Baked =>
    /\ y.snap.recipe <= y.baked.recipe
    /\ Has("configdone") => ("conf" \in taint \/ Same(y.snap, y.baked)) /\ y.baked.xsa = y.xsa

SincePacked == Packed /\ Has("yimg") =>
    /\ y.snap.recipe <= y.img.recipe
    /\ "image" \in taint \/ Same(y.snap, y.img)
    /\ y.img.xsa = y.xsa
    /\ "apart" \in taint

\* Images are not of older inputs than their stamp; of the same configuration and
\* overlay, if those are the present ones; and of the same edits altogether if
\* the stamp is that of their build.
StampFits ==
    /\ ~Has("yimg") => y.stamp = NoInputs
    /\ Has("yimg") /\ y.stamp.xsa = 0 => "unstamped" \in taint
    /\ Has("yimg") /\ "unstamped" \notin taint =>
        /\ y.stamp.recipe <= y.img.recipe /\ y.stamp.xsa <= y.img.xsa
        /\ "image" \notin taint => Same(y.stamp, y.img)
        /\ "apart" \notin taint =>
            /\ y.stamp.recipe = y.img.recipe
            /\ "image" \notin taint => y.stamp.conf = y.img.conf /\ y.stamp.port = y.img.port

InPhases ==
    SinceHashed /\ SinceHanded /\ Marking /\ SinceConfigured /\ SinceBaked /\ SincePacked

YoctoInv == Numbers /\ HandoffFits /\ MarkerFits /\ InPhases /\ StampFits

\* The invariant says what it should of the images.
LEMMA ImagesAreTrue == YoctoInv => YoctoTruthful
<1> SUFFICES ASSUME YoctoInv, UpToDate, y.stamp # NoInputs, taint \subseteq {"conf", "edit", "apart"},
                    "apart" \in taint => \A f \in Edited : y.stamp[f] = y[f]
             PROVE  ~yocto_input_changes(y.img, yocto_inputs)
  BY DEF YoctoTruthful
<1>1. Has("yimg") /\ ~yocto_input_changes(y.stamp, yocto_inputs)
  BY DEF UpToDate
<1>2. y.stamp.xsa = 0 \/ ~Has("xsa") \/ y.stamp.xsa = y.xsa
  BY <1>1 DEF yocto_input_changes, yocto_inputs, YoctoInv, Numbers, YType, InputsType
<1>3. "unstamped" \notin taint /\ "image" \notin taint
  OBVIOUS
<1>4. /\ y.stamp.xsa # 0 /\ y.stamp.recipe <= y.img.recipe /\ y.stamp.xsa <= y.img.xsa
      /\ Same(y.stamp, y.img)
      /\ "apart" \notin taint =>
          y.stamp.recipe = y.img.recipe /\ y.stamp.conf = y.img.conf /\ y.stamp.port = y.img.port
  BY <1>1, <1>3 DEF YoctoInv, StampFits
<1>5. y.img \in InputsType /\ y.stamp \in InputsType /\ y.recipe \in Nat /\ y.xsa \in Nat
      /\ y.img.recipe <= y.recipe /\ y.img.xsa <= y.xsa
  BY DEF YoctoInv, Numbers, YType, NoLater
<1>6. y.img.conf = y.stamp.conf /\ y.img.recipe = y.stamp.recipe /\ y.img.port = y.stamp.port
  <2>1. CASE "apart" \in taint
    <3>1. y.stamp.conf = y.conf /\ y.stamp.recipe = y.recipe /\ y.stamp.port = y.port
      BY <2>1 DEF Edited
    <3> QED BY <3>1, <1>4, <1>5 DEF Same, InputsType
  <2> QED BY <1>4, <2>1
<1>7. \A f \in Edited : y.img[f] = y.stamp[f]
  BY <1>6 DEF Edited
<1>8. Has("xsa") => y.img.xsa = y.xsa
  BY <1>2, <1>4, <1>5 DEF InputsType
<1> QED BY <1>1, <1>7, <1>8 DEF yocto_input_changes, yocto_inputs

LEMMA YoctoBegins == Init => YoctoInv
<1> SUFFICES ASSUME Init PROVE YoctoInv
  OBVIOUS
<1>1. run.todo = <<>>
  BY DEF Init, InitRun, Idle
<1>2. ~Hashed /\ ~Handed /\ ~Configured /\ ~Baked /\ ~Packed /\ ~Pending(Tool("configdone"))
  BY <1>1, EmptyNoImages, NoPhases
<1>3. ~Has("yimg") /\ ~Has("hw") /\ ~Has("configdone") /\ ~Has("xsa")
  BY DEF Init, InitYocto, Has
<1>4. Numbers
  <2>1. <<CheckedOut>> \in Seq(Contents \cup {Absent}) /\ Len(<<CheckedOut>>) = 1
    BY ContentsAssumption DEF ContentsAssumption
  <2> QED BY <1>3, <2>1 DEF Init, InitYocto, Numbers, NoLater, NoInputs, YType, InputsType
<1> QED BY <1>2, <1>3, <1>4 DEF YoctoInv, HandoffFits, MarkerFits, InPhases, SinceHashed, SinceHanded,
        Marking, SinceConfigured, SinceBaked, SincePacked, StampFits, Init, InitYocto

-----------------------------------------------------------------------------
(* Steps that are none of the image build                                   *)

Sources == {"hw", "configdone", "conf", "yimg"}

\* Nothing the images are made from is touched, but for a new XSA.
Aside ==
    /\ taint' = taint
    /\ \A x \in Sources : Has(x)' <=> Has(x)
    /\ \A x, w \in Sources : Newer(x, w)' <=> Newer(x, w)
    /\ \/ /\ y' = y
          /\ Has("xsa")' => Has("xsa") /\ (Newer("xsa", "hw") => Newer("xsa", "hw")')
       \/ /\ y' = [y EXCEPT !.xsa = @ + 1]
          /\ ~Hashed
          /\ Has("hw") => Newer("xsa", "hw")'

LEMMA AsideNumbers == ASSUME YoctoInv, Aside PROVE Numbers'
<1>1. CASE y' = y /\ (Has("xsa")' => Has("xsa"))
  BY <1>1 DEF YoctoInv, Numbers, NoLater
<1>2. CASE y' = [y EXCEPT !.xsa = @ + 1]
  <2>1. y' \in YType /\ y'.xsa = y.xsa + 1 /\ y'.xsa # 0
        /\ \A f \in {"conf", "recipe", "port", "text", "hw", "cfg", "snap", "baked", "img", "stamp", "failed"} :
            y'[f] = y[f]
    BY <1>2 DEF YoctoInv, Numbers, YType
  <2>2. /\ y'.conf = y.conf /\ y'.recipe = y.recipe /\ y'.port = y.port /\ y'.text = y.text /\ y'.hw = y.hw
        /\ y'.cfg = y.cfg /\ y'.snap = y.snap /\ y'.baked = y.baked /\ y'.img = y.img
        /\ y'.stamp = y.stamp
    BY <2>1
  <2>3. y.xsa \in Nat /\ y.hw \in Nat /\ \A r \in InputsType : r.xsa <= y.xsa => r.xsa <= y.xsa + 1
    <3>1. y.xsa \in Nat /\ y.hw \in Nat
      BY DEF YoctoInv, Numbers, YType
    <3>2. \A r \in InputsType : r.xsa \in Nat
      BY DEF InputsType
    <3> QED BY <3>1, <3>2
  <2>4. \A r \in {y.cfg, y.snap, y.baked, y.img, y.stamp} : r \in InputsType /\ NoLater(r)
    BY DEF YoctoInv, Numbers, YType
  <2>5. y'.hw <= y'.xsa /\ \A r \in {y.cfg, y.snap, y.baked, y.img, y.stamp} : NoLater(r)'
    BY <2>1, <2>2, <2>3, <2>4 DEF YoctoInv, Numbers, NoLater
  <2> QED BY <2>1, <2>2, <2>5 DEF YoctoInv, Numbers
<1> QED BY <1>1, <1>2 DEF Aside

LEMMA AsideKept ==
    ASSUME RunOK, ImagesInOrder, YoctoInv, Aside, NoImages' \/ SameImages
    PROVE  YoctoInv'
<1>1. Numbers'
  BY AsideNumbers
<1>2. /\ y'.conf = y.conf /\ y'.recipe = y.recipe /\ y'.port = y.port /\ y'.text = y.text /\ y'.hw = y.hw
      /\ y'.cfg = y.cfg /\ y'.snap = y.snap /\ y'.baked = y.baked /\ y'.img = y.img
      /\ y'.stamp = y.stamp
  BY DEF Aside, YoctoInv, Numbers, YType
<1>3. HandoffFits'
  BY <1>2 DEF Aside, YoctoInv, HandoffFits, Sources
<1>4. MarkerFits'
  BY <1>2 DEF Aside, YoctoInv, MarkerFits, Sources
<1>5. StampFits'
  BY <1>2 DEF Aside, YoctoInv, StampFits, Same, Sources
<1>6. InPhases'
  <2>1. CASE NoImages'
    <3>1. ~Hashed' /\ ~Handed' /\ ~Configured' /\ ~Baked' /\ ~Packed' /\ ~Pending(Tool("configdone"))'
      BY <2>1, NoPhases, PTL
    <3> QED BY <3>1 DEF InPhases, SinceHashed, SinceHanded, Marking, SinceConfigured, SinceBaked, SincePacked
  <2>2. CASE SameImages
    <3>1. /\ (Hashed' <=> Hashed) /\ (Handed' <=> Handed) /\ (Configured' <=> Configured)
          /\ (Baked' <=> Baked) /\ (Packed' <=> Packed)
          /\ Pending(Tool("configdone"))' <=> Pending(Tool("configdone"))
      BY <2>2, SamePhases
    <3>2. (Hashed \/ Handed \/ Configured \/ Baked \/ Packed) => y' = y /\ (Has("xsa")' => Has("xsa"))
      BY PhasesInOrder DEF Aside
    <3>3. /\ Has("hw")' <=> Has("hw")
          /\ Has("configdone")' <=> Has("configdone")
          /\ Has("yimg")' <=> Has("yimg")
          /\ taint' = taint
      BY DEF Aside, Sources
    <3>4. SinceHashed'
      BY <3>1, <3>2, <3>3 DEF YoctoInv, InPhases, SinceHashed, Same
    <3>5. SinceHanded'
      BY <3>1, <3>2, <3>3 DEF YoctoInv, InPhases, SinceHanded
    <3>6. Marking'
      BY <3>1, <1>2, <3>3 DEF YoctoInv, InPhases, Marking
    <3>7. SinceConfigured'
      BY <3>1, <3>2, <3>3 DEF YoctoInv, InPhases, SinceConfigured, Same
    <3>8. SinceBaked'
      BY <3>1, <3>2, <3>3 DEF YoctoInv, InPhases, SinceBaked, Same
    <3>9. SincePacked'
      BY <3>1, <3>2, <3>3 DEF YoctoInv, InPhases, SincePacked, Same
    <3> QED BY <3>4, <3>5, <3>6, <3>7, <3>8, <3>9 DEF InPhases
  <2> QED BY <2>1, <2>2
<1> QED BY <1>1, <1>3, <1>4, <1>5, <1>6 DEF YoctoInv

LEMMA StillAside == ASSUME UNCHANGED fvars, UNCHANGED yvars PROVE Aside
BY DEF Aside, fvars, yvars, Has, Newer

LEMMA TouchesOthers ==
    ASSUME NEW xs, Touches(xs), NEW x, NEW w, x \notin Elems(xs), w \notin Elems(xs)
    PROVE  (Has(x)' <=> Has(x)) /\ (Newer(x, w)' <=> Newer(x, w))
BY DEF Touches, Has, Newer, Elems

LEMMA TouchesNewer ==
    ASSUME NEW xs, Touches(xs), NEW x \in Elems(xs), NEW w, w \in files \ Elems(xs)
    PROVE  Has(x)' /\ Newer(x, w)' /\ ~Newer(w, x)'
BY DEF Touches, Has, Newer, Elems

LEMMA DropsOthers ==
    ASSUME NEW S, Drops(S), NEW x, NEW w
    PROVE  /\ Has(x)' <=> Has(x) /\ x \notin S
           /\ Newer(x, w)' <=> Newer(x, w) /\ x \notin S /\ w \notin S
BY DEF Drops, Has, Newer

LEMMA WritesAside ==
    ASSUME NEW xs, Writes(xs), Elems(xs) \cap Sources = {}, y' = NewXsa(xs), taint' = taint,
           "xsa" \in Elems(xs) => ~Hashed
    PROVE  Aside
<1>1. Touches(xs)
  BY DEF Writes
<1>2. \A x \in Sources : Has(x)' <=> Has(x)
  BY <1>1, TouchesOthers
<1>3. \A x, w \in Sources : Newer(x, w)' <=> Newer(x, w)
  BY <1>1, TouchesOthers
<1>4. CASE "xsa" \in Elems(xs)
  <2>1. Has("hw") => Newer("xsa", "hw")'
    BY <1>1, <1>4, TouchesNewer DEF Has, Sources
  <2>2. y' = [y EXCEPT !.xsa = @ + 1]
    BY <1>4 DEF NewXsa
  <2> QED BY <1>2, <1>3, <1>4, <2>1, <2>2 DEF Aside
<1>5. CASE "xsa" \notin Elems(xs)
  <2>1. (Has("xsa")' <=> Has("xsa")) /\ (Newer("xsa", "hw")' <=> Newer("xsa", "hw"))
    BY <1>1, <1>5, TouchesOthers DEF Sources
  <2>2. y' = y
    BY <1>5 DEF NewXsa
  <2> QED BY <1>2, <1>3, <2>1, <2>2 DEF Aside
<1> QED BY <1>4, <1>5

LEMMA RemovesAside ==
    ASSUME NEW S, Removes(S), S \cap Sources = {}, y' = y, taint' = taint
    PROVE  Aside
<1>1. Drops(S)
  BY DEF Removes
<1>2. \A x \in Sources : Has(x)' <=> Has(x)
  BY <1>1, DropsOthers
<1>3. \A x, w \in Sources : Newer(x, w)' <=> Newer(x, w)
  BY <1>1, DropsOthers
<1>4. Has("xsa")' => Has("xsa") /\ (Newer("xsa", "hw") => Newer("xsa", "hw")')
  BY <1>1, DropsOthers DEF Sources
<1> QED BY <1>2, <1>3, <1>4 DEF Aside

LEMMA ElemsOfTwo == \A a, b : Elems(<<a, b>>) = {a, b}
<1> TAKE a, b
<1>1. DOMAIN <<a, b>> = {1, 2}
  OBVIOUS
<1> QED BY <1>1 DEF Elems

\* What a tool writes.
LEMMA OutputElems ==
    ASSUME NEW x \in ToolNames
    PROVE  /\ Output(x) \in Seq(Artifacts)
           /\ Elems(Output(x)) \cap Sources = {}
           /\ "xsa" \in Elems(Output(x)) => x = "xsa"
           /\ x = "xsa" => Elems(Output(x)) = {"bit", "xsa"}
           /\ x = "ws" => Elems(Output(x)) = {"ws", "elf"}
           /\ x \in {"petl", "petl_again"} => Elems(Output(x)) = {"pwork", "petl"}
           /\ x \notin {"xsa", "ws", "petl", "petl_again"} => Elems(Output(x)) = {x}
<1>1. CASE x = "xsa"
  <2>1. Output(x) = <<"bit", "xsa">>
    BY <1>1 DEF Output
  <2>2. Elems(Output(x)) = {"bit", "xsa"}
    BY <2>1, ElemsOfTwo
  <2>3. "bit" \in Artifacts /\ "xsa" \in Artifacts /\ {"bit", "xsa"} \cap Sources = {}
    BY DEF Sources, Artifacts, TargetFiles
  <2>4. Output(x) \in Seq(Artifacts)
    BY <2>1, <2>3
  <2> QED BY <1>1, <2>2, <2>3, <2>4
<1>2. CASE x = "ws"
  <2>1. Output(x) = <<"ws", "elf">>
    BY <1>2 DEF Output
  <2>2. Elems(Output(x)) = {"ws", "elf"}
    BY <2>1, ElemsOfTwo
  <2>3. "ws" \in Artifacts /\ "elf" \in Artifacts /\ {"ws", "elf"} \cap Sources = {}
    BY DEF Sources, Artifacts, TargetFiles
  <2>4. Output(x) \in Seq(Artifacts)
    BY <2>1, <2>3
  <2> QED BY <1>2, <2>2, <2>3, <2>4
<1>3. CASE x \in {"petl", "petl_again"}
  <2>1. Output(x) = <<"pwork", "petl">>
    BY <1>3 DEF Output
  <2>2. Elems(Output(x)) = {"pwork", "petl"}
    BY <2>1, ElemsOfTwo
  <2>3. "pwork" \in Artifacts /\ "petl" \in Artifacts /\ {"pwork", "petl"} \cap Sources = {}
    BY DEF Sources, Artifacts, TargetFiles
  <2>4. Output(x) \in Seq(Artifacts)
    BY <2>1, <2>3
  <2> QED BY <1>3, <2>2, <2>3, <2>4
<1>4. CASE x \notin {"xsa", "ws", "petl", "petl_again"}
  <2>1. Output(x) = <<x>>
    BY <1>4 DEF Output
  <2>2. x \in Artifacts /\ x \notin Sources
    BY <1>4, CoreNames DEF ToolNames, Zips, Artifacts, TargetFiles, Sources
  <2>3. Elems(<<x>>) = {x}
    BY DEF Elems
  <2> QED BY <1>4, <2>1, <2>2, <2>3
<1> QED BY <1>1, <1>2, <1>3, <1>4

LEMMA CutElems ==
    ASSUME NEW x \in ToolNames, NEW n \in DOMAIN Output(x)
    PROVE  Elems(SubSeq(Output(x), 1, n)) \subseteq Elems(Output(x))
<1> DEFINE o == Output(x)
<1>1. o \in Seq(Artifacts) /\ DOMAIN o = 1 .. Len(o) /\ Len(o) \in Nat
  BY OutputElems, LenProperties
<1>2. \A i \in 1 .. n : o[i] \in Elems(o)
  BY <1>1 DEF Elems
<1> HIDE DEF o
<1>3. SubSeq(o, 1, n) \in Seq(Elems(o))
  <2>1. n \in Int /\ 1 \in Int
    BY <1>1 DEF o
  <2> QED BY <1>2, <2>1, SubSeqProperties
<1> QED BY <1>3, ElemsOf DEF o

\* A tool for the XSA runs before an image build looks at its inputs.
LEMMA XsaNotHashed == ASSUME RunOK, ImagesInOrder, At(Tool("xsa")) PROVE ~Hashed
<1>1. Rank(Tool("xsa")) = 0
  BY RankInGroup DEF XsaSteps
<1>2. Tool("xsa") \in Elems(run.todo)
  BY HeadAndTail DEF RunOK, At
<1> QED BY <1>1, <1>2, PhasesInOrder

LEMMA RunToolYocto ==
    ASSUME RunOK, ImagesInOrder, YoctoInv, RunTool PROVE RunOK' /\ ImagesInOrder' /\ YoctoInv'
<1> PICK x \in ToolNames : At(Tool(x)) /\ Writes(Output(x)) /\ ToolDone /\ y' = NewXsa(Output(x))
  BY DEF RunTool
<1>1. RunOK' /\ SameImages
  BY ToolDoneStack DEF RunTool
<1>2. Aside
  BY OutputElems, WritesAside, XsaNotHashed DEF RunTool
<1> QED BY <1>1, <1>2, SameImagesInOrder, AsideKept

\* The steps of a run that are none of the image build.
LEMMA AsideSteps ==
    ASSUME RunOK, ImagesInOrder, YoctoInv,
           \/ Start \/ Finish \/ RunStage \/ PetalinuxAgain \/ CutShort \/ Refuses
           \/ Interrupts \/ PlanKeepBoot \/ DropPlan \/ UNCHANGED vars
    PROVE  RunOK' /\ ImagesInOrder' /\ YoctoInv'
<1>1. ASSUME RunOK', NoImages' \/ SameImages, Aside
      PROVE  RunOK' /\ ImagesInOrder' /\ YoctoInv'
  <2>1. ImagesInOrder'
    <3>1. CASE NoImages'
      BY <3>1, NoImagesInOrder, PTL
    <3>2. CASE SameImages
      BY <3>2, <1>1, SameImagesInOrder
    <3> QED BY <1>1, <3>1, <3>2
  <2> QED BY <1>1, <2>1, AsideKept
<1>2. CASE Start
  BY <1>2, <1>1, StartStack, StillAside DEF Start, fvars, yvars
<1>3. CASE Finish
  BY <1>3, <1>1, FinishStack, StillAside DEF Finish, fvars, yvars
<1>4. CASE RunStage
  BY <1>4, <1>1, RunStageStack, StillAside DEF RunStage, fvars, yvars
<1>5. CASE PetalinuxAgain
  <2>1. Elems(<<"pwork">>) = {"pwork"}
    BY DEF Elems
  <2>2. Aside
    <3>1. Writes(<<"pwork">>) /\ y' = NewXsa(<<"pwork">>) /\ taint' = taint
      BY <1>5, <2>1 DEF PetalinuxAgain, NewXsa
    <3>2. Elems(<<"pwork">>) \cap Sources = {} /\ "xsa" \notin Elems(<<"pwork">>)
      BY <2>1 DEF Sources
    <3> QED BY <3>1, <3>2, WritesAside
  <2> QED BY <1>5, <2>2, <1>1, AgainStack
<1>6. CASE CutShort
  <2> PICK x \in ToolNames :
        /\ At(Tool(x))
        /\ \/ Removes(Discarded(x)) /\ UNCHANGED y
           \/ \E n \in DOMAIN Output(x) :
                LET xs == SubSeq(Output(x), 1, n)
                IN CanRun(x) /\ Writes(xs) /\ y' = NewXsa(xs)
    BY <1>6 DEF CutShort
  <2>1. RunOK' /\ NoImages'
    BY <1>6, FailStack DEF CutShort
  <2>2. taint' = taint
    BY <1>6 DEF CutShort
  <2>3. ASSUME Removes(Discarded(x)), y' = y PROVE Aside
    <3>1. Discarded(x) \cap Sources = {}
      BY DEF Discarded, Sources
    <3> QED BY <2>2, <2>3, <3>1, RemovesAside
  <2>4. ASSUME NEW n \in DOMAIN Output(x), Writes(SubSeq(Output(x), 1, n)),
               y' = NewXsa(SubSeq(Output(x), 1, n))
        PROVE  Aside
    <3>1. /\ Elems(SubSeq(Output(x), 1, n)) \cap Sources = {}
          /\ "xsa" \in Elems(SubSeq(Output(x), 1, n)) => x = "xsa"
      BY CutElems, OutputElems
    <3>2. "xsa" \in Elems(SubSeq(Output(x), 1, n)) => ~Hashed
      BY <3>1, XsaNotHashed
    <3> QED BY <2>2, <2>4, <3>1, <3>2, WritesAside
  <2> QED BY <2>1, <2>3, <2>4, <1>1
<1>7. CASE Refuses
  BY <1>7, <1>1, FailStack, StillAside DEF Refuses, fvars, yvars
<1>8. CASE Interrupts
  BY <1>8, <1>1, FailStack, StillAside DEF Interrupts, fvars, yvars
<1>9. CASE PlanKeepBoot
  BY <1>9, <1>1, RunSameStack, StillAside DEF PlanKeepBoot, fvars, yvars
<1>10. CASE DropPlan
  BY <1>10, <1>1, RunSameStack, StillAside DEF DropPlan, fvars, yvars
<1>11. CASE UNCHANGED vars
  BY <1>11, <1>1, RunSameStack, StillAside DEF vars, fvars, yvars
<1> QED BY <1>2, <1>3, <1>4, <1>5, <1>6, <1>7, <1>8, <1>9, <1>10, <1>11

-----------------------------------------------------------------------------
(* The cleans                                                               *)

\* The scopes that take something the images are made from take all of it.
LEMMA CleanTakesAll ==
    ASSUME RunOK, NEW scope \in Scopes
    PROVE  \/ clean_paths(scope) \cap Sources = {}
           \/ {"hw", "configdone", "yimg"} \subseteq clean_paths(scope) /\ "conf" \notin clean_paths(scope)
<1>1. Elems(Cores) \cap Sources = {}
  BY CoreNames DEF TargetFiles, Sources
<1>2. viv_prj \cap Sources = {} /\ vit_boot \cap Sources = {} /\ Zips \cap Sources = {}
  BY DEF viv_prj, vit_boot, Zips, Sources
<1>3. ip_output_paths \cap Sources = {} \/ scope \notin {"ip", "all"}
  <2>1. design.ip \in {"none", "cores", "board"}
    BY DesignsAssumption DEF DesignsAssumption, RunOK
  <2> QED BY <1>1, <2>1 DEF ip_output_paths, Sources
<1> QED BY <1>2, <1>3 DEF clean_paths, Scopes, ywork, Sources

LEMMA CleanYocto ==
    ASSUME RunOK, ImagesInOrder, YoctoInv, Clean PROVE RunOK' /\ ImagesInOrder' /\ YoctoInv'
<1>1. RunOK' /\ SameImages
  BY MeddledStack DEF Clean
<1>2. ImagesInOrder'
  BY <1>1, SameImagesInOrder
<1> PICK scope \in Scopes :
        /\ Removes(clean_paths(scope))
        /\ IF "yimg" \in clean_paths(scope)
           THEN /\ y' = [y EXCEPT !.img = NoInputs, !.stamp = NoInputs, !.cfg = NoInputs,
                              !.failed = FALSE]
                /\ taint' = taint \cap {"edit"}
           ELSE UNCHANGED yvars
  BY Zenon DEF Clean
<1> DEFINE gone == clean_paths(scope)
<1>3. Removes(gone) /\ Drops(gone)
  BY DEF Removes
<1>4. CASE "yimg" \notin gone
  <2>1. gone \cap Sources = {}
    BY <1>4, CleanTakesAll
  <2>2. y' = y /\ taint' = taint
    BY <1>4 DEF yvars
  <2> QED BY <1>1, <1>2, <1>3, <2>1, <2>2, RemovesAside, AsideKept
<1>5. CASE "yimg" \in gone
  <2>1. ~Has("yimg")' /\ ~Has("hw")' /\ ~Has("configdone")' /\ (Has("xsa")' => Has("xsa"))
    BY <1>3, <1>5, CleanTakesAll, DropsOthers DEF Sources
  <2>2. y' = [y EXCEPT !.img = NoInputs, !.stamp = NoInputs, !.cfg = NoInputs, !.failed = FALSE]
        /\ taint' = taint \cap {"edit"}
    BY <1>5
  <2>3. /\ y' \in YType
        /\ y'.conf = y.conf /\ y'.recipe = y.recipe /\ y'.port = y.port /\ y'.text = y.text /\ y'.hw = y.hw
        /\ y'.xsa = y.xsa /\ y'.cfg = NoInputs /\ y'.snap = y.snap /\ y'.baked = y.baked
        /\ y'.img = NoInputs /\ y'.stamp = NoInputs
    BY <2>2 DEF YoctoInv, Numbers, YType, NoInputs, InputsType
  <2> HIDE DEF gone
  <2>4. Numbers'
    BY <2>1, <2>3 DEF YoctoInv, Numbers, NoLater, YType, NoInputs
  <2>5. HandoffFits' /\ MarkerFits' /\ StampFits'
    BY <2>1, <2>3 DEF HandoffFits, MarkerFits, StampFits
  <2>6. /\ (Hashed' <=> Hashed) /\ (Handed' <=> Handed)
        /\ (Baked' <=> Baked)
    BY <1>1, SamePhases
  <2>7. SinceHashed'
    <3>1. /\ y.snap.recipe \in Nat /\ y.conf # 0 /\ y.port # 0
          /\ y'.stamp.recipe = 0 /\ y'.stamp.conf = 0 /\ y'.stamp.port = 0
      <4>1. y.snap.recipe \in Nat
        BY DEF YoctoInv, Numbers, YType, InputsType
      <4>2. y.conf # 0 /\ y.port # 0
        BY DEF YoctoInv, Numbers
      <4>3. y'.stamp.recipe = 0 /\ y'.stamp.conf = 0 /\ y'.stamp.port = 0
        BY <2>3 DEF NoInputs
      <4> QED BY <4>1, <4>2, <4>3
    <3>2. y'.stamp.recipe <= y'.snap.recipe /\ Same(y.stamp, y.snap)'
      BY <2>3, <3>1 DEF Same
    <3> QED BY <2>1, <2>2, <2>3, <2>6, <3>2 DEF YoctoInv, InPhases, SinceHashed
  <2>8. SinceHanded' /\ SinceBaked'
    BY <2>1, <2>3, <2>6 DEF YoctoInv, InPhases, SinceHanded, SinceBaked, Same
  <2>9. Marking' /\ SinceConfigured' /\ SincePacked'
    BY <2>1 DEF Marking, SinceConfigured, SincePacked
  <2> QED BY <1>1, <1>2, <2>4, <2>5, <2>7, <2>8, <2>9 DEF YoctoInv, InPhases
<1> QED BY <1>4, <1>5

LEMMA KeepBootElems == \A i \in DOMAIN keep_boot_order : keep_boot_order[i] \in Elems(keep_boot_order)
BY DEF Elems

\* What a keep-boot clean removes, also one that is killed: of its plan, and the
\* application in the workspace.
LEMMA KeepBootRemoves ==
    ASSUME KeepBoot \/ KeepBootKilled
    PROVE  \E S : RemovePaths(S) /\ S \subseteq plan \cup {"elf"} /\ ("ws" \in S => "elf" \in S)
<1>1. CASE KeepBoot
  <2> DEFINE P == UNION {Planned(i) : i \in Reached}
  <2>1. RemovePaths(Trees(P))
    BY <1>1 DEF KeepBoot
  <2>2. P \subseteq plan
    BY DEF Planned
  <2>3. Trees(P) \subseteq plan \cup {"elf"} /\ ("ws" \in Trees(P) => "elf" \in Trees(P))
    BY <2>2 DEF Trees
  <2> QED BY <2>1, <2>3
<1>2. CASE KeepBootKilled
  <2>1. PICK i \in Reached, left \in {{}, {"ws"}} : RemovePaths(Trees(Planned(i)) \ left)
    BY <1>2 DEF KeepBootKilled
  <2>2. Planned(i) \subseteq plan
    BY DEF Planned
  <2> DEFINE S == Trees(Planned(i)) \ left
  <2>3. S \subseteq plan \cup {"elf"} /\ ("ws" \in S => "elf" \in S)
    BY <2>2 DEF Trees
  <2> QED BY <2>1, <2>3
<1> QED BY <1>1, <1>2

\* The plan of a keep-boot clean is work that lies beside what was built.
PlanOK == plan \subseteq {"xpr", "ip_done", "ws", "pwork", "build", "configdone", "hw"} \cup Elems(Cores)

LEMMA KeepBootPlanOK ==
    keep_boot_plan \subseteq {"xpr", "ip_done", "ws", "pwork", "build", "configdone", "hw"} \cup Elems(Cores)
<1> DEFINE rest == <<"ip_done", "ws", "pwork", "build", "configdone", "hw">>
<1> DEFINE N == STRING \cup {"xpr", "ip_done", "ws", "pwork", "build", "configdone", "hw"}
<1>1. Cores \in Seq(N) /\ <<"xpr">> \in Seq(N) /\ rest \in Seq(N)
  BY CoresAssumption, SeqMonotonic DEF CoresAssumption
<1>2. Elems(<<"xpr">>) = {"xpr"}
  BY DEF Elems
<1>3. Elems(rest) = {"ip_done", "ws", "pwork", "build", "configdone", "hw"}
  <2>1. DOMAIN rest = {1, 2, 3, 4, 5, 6}
    OBVIOUS
  <2> QED BY <2>1 DEF Elems
<1> HIDE DEF rest, N
<1>4. Elems((<<"xpr">> \o Cores) \o rest) = Elems(<<"xpr">>) \cup Elems(Cores) \cup Elems(rest)
  <2> DEFINE u == <<"xpr">> \o Cores
  <2>1. u \in Seq(N) /\ Elems(u) = Elems(<<"xpr">>) \cup Elems(Cores)
    BY <1>1, ElemsCat
  <2> HIDE DEF u
  <2>2. Elems(u \o rest) = Elems(u) \cup Elems(rest)
    BY <1>1, <2>1, ElemsCat
  <2> QED BY <2>1, <2>2 DEF u
<1>5. keep_boot_order = (<<"xpr">> \o Cores) \o rest
  BY DEF keep_boot_order, rest
<1> QED BY <1>2, <1>3, <1>4, <1>5 DEF keep_boot_plan

LEMMA PlanKept == RunOK /\ PlanOK /\ [Next]_vars => PlanOK'
<1> SUFFICES ASSUME PlanOK, [Next]_vars PROVE PlanOK'
  OBVIOUS
<1>1. CASE PlanKeepBoot
  BY <1>1, KeepBootPlanOK DEF PlanKeepBoot, PlanOK
<1>2. CASE KeepBoot \/ KeepBootKilled
  BY <1>2 DEF KeepBoot, KeepBootKilled, PlanOK
<1>3. CASE DropPlan
  BY <1>3 DEF DropPlan, PlanOK
<1>4. CASE UNCHANGED plan
  BY <1>4 DEF PlanOK
<1> QED BY <1>1, <1>2, <1>3, <1>4 DEF Next, vars, Start, Finish, RunStage, RunTool, PetalinuxAgain,
        CutShort, Refuses, Interrupts, Clean

LEMMA KeepBootYocto ==
    ASSUME RunOK, ImagesInOrder, YoctoInv, PlanOK, KeepBoot \/ KeepBootKilled
    PROVE  RunOK' /\ ImagesInOrder' /\ YoctoInv'
<1>1. RunOK' /\ SameImages /\ NoImages /\ taint' = taint
  BY RunSameStack, EmptyNoImages DEF KeepBoot, KeepBootKilled, RunOK
<1>2. ImagesInOrder'
  BY <1>1, SameImagesInOrder
<1>3. PICK S : RemovePaths(S) /\ S \subseteq plan \cup {"elf"}
  BY KeepBootRemoves
<1>4. Drops(S) /\ "yimg" \notin S /\ "conf" \notin S /\ "xsa" \notin S
  BY <1>3, CoreNames DEF RemovePaths, Removes, PlanOK, TargetFiles
<1>5. \A x, w : /\ Has(x)' <=> Has(x) /\ x \notin S
                /\ Newer(x, w)' <=> Newer(x, w) /\ x \notin S /\ w \notin S
  BY <1>4, DropsOthers
<1>6. y' = [y EXCEPT !.cfg = NoInputs] \/ y' = y
  BY <1>3 DEF RemovePaths, YoctoInv, Numbers, YType
<1>7. /\ y' \in YType
      /\ y'.conf = y.conf /\ y'.recipe = y.recipe /\ y'.port = y.port /\ y'.text = y.text /\ y'.hw = y.hw
      /\ y'.xsa = y.xsa /\ y'.snap = y.snap /\ y'.baked = y.baked
      /\ y'.img = y.img /\ y'.stamp = y.stamp /\ y'.cfg \in {y.cfg, NoInputs}
  <2>1. NoInputs \in InputsType
    BY DEF InputsType, NoInputs
  <2> QED BY <1>6, <2>1 DEF YoctoInv, Numbers, YType
<1>8. Numbers'
  <2>1. NoLater(NoInputs)
    BY DEF NoLater, NoInputs, YoctoInv, Numbers, YType
  <2> QED BY <1>4, <1>5, <1>7, <2>1 DEF YoctoInv, Numbers, NoLater
<1>9. HandoffFits' /\ MarkerFits' /\ StampFits'
  BY <1>1, <1>4, <1>5, <1>7 DEF YoctoInv, HandoffFits, MarkerFits, StampFits, Same
<1>10. ~Hashed' /\ ~Handed' /\ ~Configured' /\ ~Baked' /\ ~Packed' /\ ~Pending(Tool("configdone"))'
  BY <1>1, SamePhases, NoPhases
<1> QED BY <1>1, <1>2, <1>8, <1>9, <1>10 DEF YoctoInv, InPhases, SinceHashed, SinceHanded,
        Marking, SinceConfigured, SinceBaked, SincePacked

-----------------------------------------------------------------------------
(* The times of the files                                                   *)

TimesOK == newer \subseteq files \X files

LEMMA TouchesTimes == ASSUME NEW xs, TimesOK, Touches(xs) PROVE TimesOK'
<1> SUFFICES ASSUME NEW p \in newer' PROVE p \in files' \X files'
  BY DEF TimesOK
<1>1. files' = files \cup Elems(xs)
  BY DEF Touches
<1>2. \A i \in DOMAIN xs : xs[i] \in Elems(xs)
  BY DEF Elems
<1>3. CASE p \in newer
  BY <1>1, <1>3 DEF TimesOK
<1>4. CASE p \in Elems(xs) \X (files \ Elems(xs))
  BY <1>1, <1>4
<1>5. CASE p \in Elems(xs) \X Elems(xs)
  BY <1>1, <1>5
<1> QED BY <1>3, <1>4, <1>5 DEF Touches

LEMMA DropsTimes == ASSUME NEW S, TimesOK, Drops(S) PROVE TimesOK'
<1> SUFFICES ASSUME NEW p \in newer' PROVE p \in files' \X files'
  BY DEF TimesOK
<1>1. p \in newer /\ p[1] \notin S /\ p[2] \notin S /\ files' = files \ S
  BY DEF Drops
<1>2. p \in files \X files
  BY <1>1 DEF TimesOK
<1> QED BY <1>1, <1>2

\* What a step does to the files and their times.
LEMMA StepTimes ==
    ASSUME [Next]_vars
    PROVE  (files' = files /\ newer' = newer) \/ (\E xs : Touches(xs)) \/ (\E S : Drops(S))
<1>1. CASE Start \/ Finish \/ RunStage \/ Refuses \/ Interrupts \/ PlanKeepBoot \/ DropPlan
  BY <1>1 DEF Start, Finish, RunStage, Refuses, Interrupts, PlanKeepBoot, DropPlan
<1>2. CASE RunTool
  BY <1>2 DEF RunTool, Writes
<1>3. CASE PetalinuxAgain
  BY <1>3 DEF PetalinuxAgain, Writes
<1>4. CASE CutShort
  <2> PICK x \in ToolNames :
        \/ Removes(Discarded(x)) /\ UNCHANGED y
        \/ \E n \in DOMAIN Output(x) :
             LET xs == SubSeq(Output(x), 1, n)
             IN CanRun(x) /\ Writes(xs) /\ y' = NewXsa(xs)
    BY <1>4 DEF CutShort
  <2> QED BY DEF Writes, Removes
<1>5. CASE Clean
  BY <1>5, Zenon DEF Clean, Removes
<1>6. CASE KeepBoot \/ KeepBootKilled
  BY <1>6, KeepBootRemoves DEF RemovePaths, Removes
<1>7. CASE StageYocto \/ YoctoSnapshot \/ YoctoConfigure \/ YoctoBitbake \/ YoctoStamp
  BY <1>7 DEF StageYocto, YoctoSnapshot, YoctoConfigure, YoctoBitbake, YoctoStamp, fvars
<1>8. CASE YoctoHandoff \/ YoctoFails
  BY <1>8 DEF YoctoHandoff, YoctoFails, Writes, fvars
<1>9. CASE YoctoConfigured \/ YoctoPackage
  BY <1>9 DEF YoctoConfigured, YoctoPackage, Writes
<1>10. CASE Edit
  <2>1. UNCHANGED <<files, newer>> \/ Touches(<<"conf">>) \/ Drops({"conf"})
    BY <1>10, Zenon DEF Edit
  <2> QED BY <2>1
<1>11. CASE UNCHANGED vars
  BY <1>11 DEF vars
<1> QED BY <1>1, <1>2, <1>3, <1>4, <1>5, <1>6, <1>7, <1>8, <1>9, <1>10, <1>11 DEF Next, Yocto

LEMMA TimesKept == TimesOK /\ [Next]_vars => TimesOK'
<1> SUFFICES ASSUME TimesOK, [Next]_vars PROVE TimesOK'
  OBVIOUS
<1>1. CASE files' = files /\ newer' = newer
  BY <1>1 DEF TimesOK
<1> QED BY <1>1, StepTimes, TouchesTimes, DropsTimes

-----------------------------------------------------------------------------
(* The steps of the image build                                             *)

LEMMA ImageStepDone ==
    ASSUME RunOK, ImagesInOrder, design' = design, NEW e \in ImageSteps, At(e),
           ToolDone \/ Returns(Skipped)
    PROVE  RunOK' /\ ImagesInOrder' /\ GoesOn(<<>>)
<1>1. run.todo # <<>>
  BY DEF At
<1>2. CASE ToolDone
  <2>1. GoesOn(<<>>) /\ RunOK'
    BY <1>1, <1>2, ToolDoneGoesOnEmpty, ToolDoneGoesOn DEF RunOK
  <2> QED BY <2>1, PopImageInOrder
<1>3. CASE Returns(Skipped)
  <2>1. Skipped.ok /\ Skipped.todo = <<>>
    BY DEF Skipped, Does
  <2>2. GoesOn(<<>>) /\ RunOK'
    <3> DEFINE r == Skipped
    <3>1. r.ok /\ r.todo = <<>> /\ Returns(r)
      BY <1>3, <2>1
    <3> HIDE DEF r
    <3>2. r.ok => r.todo \in Stack /\ \A d \in Elems(r.todo) : Rank(d) <= Rank(Head(run.todo))
      BY <3>1, None
    <3>3. /\ GoesOn(r.todo)
          /\ run' \in [cmd : BUILD_COMMANDS \cup {"none"}, todo : Stack, calm : BOOLEAN]
          /\ run'.cmd = "none" => run'.todo = <<>>
      BY <1>1, <3>1, <3>2, ReturnsGoesOn
    <3> QED BY <3>1, <3>3 DEF RunOK
  <2> QED BY <2>2, PopImageInOrder
<1> QED BY <1>2, <1>3

\* The later steps are still to be done.
LEMMA LaterPending ==
    ASSUME RunOK, ImagesInOrder, NEW e \in ImageSteps, At(e)
    PROVE  \A s \in ImageSteps \ {Tool("configdone")} : Rank(e) < Rank(s) => Pending(s)
<1>1. e \in Elems(run.todo)
  BY HeadAndTail DEF RunOK, At
<1> QED BY <1>1 DEF ImagesInOrder, Pending

LEMMA PhasesNext ==
    ASSUME RunOK, ImagesInOrder, NEW e \in ImageSteps, At(e), GoesOn(<<>>)
    PROVE  /\ ~Pending(Tool("configdone"))'
           /\ Rank(e) < 8 => ~Packed'
           /\ Rank(e) < 7 => ~Baked'
           /\ Rank(e) < 6 => ~Configured'
           /\ Rank(e) < 5 => ~Handed'
<1>1. \A s \in ImageSteps : Pending(s)' <=> Pending(s) /\ s # e
  BY PopImage
<1>2. \A s \in ImageSteps \ {Tool("configdone")} : Rank(e) < Rank(s) => Pending(s)'
  BY <1>1, LaterPending, RankOfSteps
<1>3. ~Pending(Tool("configdone"))'
  BY <1>1 DEF ImagesInOrder, At, ImageSteps
<1>4. {Tool("yimg"), Tool("bitbake"), Stage("configure"), Tool("hw")} \subseteq ImageSteps \ {Tool("configdone")}
  BY DEF ImageSteps, Tool, Stage
<1>5. Rank(e) < 8 => ~Packed'
  BY <1>2, <1>4, RankOfImageSteps DEF Packed
<1>6. Rank(e) < 7 => ~Baked'
  BY <1>2, <1>4, RankOfImageSteps DEF Baked
<1>7. Rank(e) < 6 => ~Configured'
  BY <1>2, <1>4, RankOfImageSteps DEF Configured
<1>8. Rank(e) < 5 => ~Handed'
  BY <1>2, <1>4, RankOfImageSteps DEF Handed
<1> QED BY <1>3, <1>5, <1>6, <1>7, <1>8

LEMMA InputsNow == YoctoInv => yocto_inputs \in InputsType /\ NoLater(yocto_inputs)
<1> SUFFICES ASSUME YoctoInv PROVE yocto_inputs \in InputsType /\ NoLater(yocto_inputs)
  OBVIOUS
<1>1. /\ y.conf \in Nat /\ y.recipe \in Nat /\ y.port \in Nat /\ y.xsa \in Nat
      /\ y.conf <= Len(y.text) /\ y.port <= Len(y.text)
  BY DEF YoctoInv, Numbers, YType
<1>2. yocto_inputs.xsa \in {0, y.xsa} /\ yocto_inputs.conf = y.conf
      /\ yocto_inputs.port = y.port /\ yocto_inputs.recipe = y.recipe
  BY DEF yocto_inputs
<1>3. yocto_inputs \in InputsType
  BY <1>1 DEF yocto_inputs, InputsType
<1> QED BY <1>1, <1>2, <1>3 DEF NoLater

LEMMA StageYoctoKept ==
    ASSUME RunOK, ImagesInOrder, YoctoInv, StageYocto PROVE RunOK' /\ ImagesInOrder' /\ YoctoInv'
<1>1. RunOK' /\ ImagesInOrder' /\ (NoImages' \/ AllImages')
  BY StageYoctoStack
<1>2. ~Hashed' /\ ~Handed' /\ ~Configured' /\ ~Baked' /\ ~Packed' /\ ~Pending(Tool("configdone"))'
  BY <1>1, NoPhases, PTL
<1>3. taint' = taint /\ files' = files /\ newer' = newer
  BY DEF StageYocto, fvars
<1>4. y' = y \/ (Has("yimg") /\ y.stamp.xsa = 0 /\ y' = [y EXCEPT !.stamp = yocto_inputs])
  BY DEF StageYocto, NoInputs
<1>5. yocto_inputs \in InputsType /\ NoLater(yocto_inputs)
  BY InputsNow
<1>6. /\ y' \in YType
      /\ y'.conf = y.conf /\ y'.recipe = y.recipe /\ y'.port = y.port /\ y'.text = y.text /\ y'.hw = y.hw
      /\ y'.xsa = y.xsa /\ y'.cfg = y.cfg /\ y'.snap = y.snap /\ y'.baked = y.baked /\ y'.img = y.img
      /\ y'.stamp \in {y.stamp, yocto_inputs}
  BY <1>4, <1>5 DEF YoctoInv, Numbers, YType
<1>7. Numbers'
  BY <1>3, <1>5, <1>6 DEF YoctoInv, Numbers, NoLater, Has
<1>8. HandoffFits' /\ MarkerFits'
  BY <1>3, <1>6 DEF YoctoInv, HandoffFits, MarkerFits, Has, Newer
<1>9. StampFits'
  <2>1. CASE y' = y
    BY <2>1, <1>3 DEF YoctoInv, StampFits, Same, Has
  <2>2. CASE Has("yimg") /\ y.stamp.xsa = 0
    BY <2>2, <1>3 DEF YoctoInv, StampFits, Has
  <2> QED BY <1>4, <2>1, <2>2
<1> QED BY <1>1, <1>2, <1>7, <1>8, <1>9 DEF YoctoInv, InPhases, SinceHashed, SinceHanded,
        Marking, SinceConfigured, SinceBaked, SincePacked

LEMMA SnapshotKept ==
    ASSUME RunOK, ImagesInOrder, YoctoInv, YoctoSnapshot PROVE RunOK' /\ ImagesInOrder' /\ YoctoInv'
<1> DEFINE e == Stage("snapshot")
<1>1. At(e) /\ e \in ImageSteps /\ design' = design /\ Returns(Skipped) /\ Rank(e) = 4
  BY RankOfImageSteps DEF YoctoSnapshot, ImageSteps
<1>2. RunOK' /\ ImagesInOrder' /\ GoesOn(<<>>)
  BY <1>1, ImageStepDone
<1>3. ~Handed' /\ ~Configured' /\ ~Baked' /\ ~Packed' /\ ~Pending(Tool("configdone"))'
  BY <1>1, <1>2, PhasesNext
<1>4. /\ y' = [y EXCEPT !.snap = yocto_inputs] /\ taint' = taint \ {"edit"}
      /\ files' = files /\ newer' = newer
  BY DEF YoctoSnapshot, fvars
<1>5. yocto_inputs \in InputsType /\ NoLater(yocto_inputs)
  BY InputsNow
<1>6. /\ y' \in YType
      /\ y'.conf = y.conf /\ y'.recipe = y.recipe /\ y'.port = y.port /\ y'.text = y.text /\ y'.hw = y.hw
      /\ y'.xsa = y.xsa /\ y'.cfg = y.cfg /\ y'.snap = yocto_inputs /\ y'.baked = y.baked
      /\ y'.img = y.img /\ y'.stamp = y.stamp
  BY <1>4, <1>5 DEF YoctoInv, Numbers, YType
<1>7. Numbers'
  BY <1>4, <1>5, <1>6 DEF YoctoInv, Numbers, NoLater, Has
<1>8. HandoffFits' /\ MarkerFits' /\ StampFits'
  BY <1>4, <1>6 DEF YoctoInv, HandoffFits, MarkerFits, StampFits, Same, Has, Newer
<1>9. SinceHashed'
  BY <1>4, <1>6 DEF YoctoInv, Numbers, NoLater, SinceHashed, Same, yocto_inputs, Has
<1> QED BY <1>2, <1>3, <1>7, <1>8, <1>9 DEF YoctoInv, InPhases, SinceHanded,
        Marking, SinceConfigured, SinceBaked, SincePacked

LEMMA OneElem == \A a : Elems(<<a>>) = {a}
<1> TAKE a
<1>1. DOMAIN <<a>> = {1}
  OBVIOUS
<1> QED BY <1>1 DEF Elems

LEMMA HandoffKept ==
    ASSUME RunOK, ImagesInOrder, YoctoInv, YoctoHandoff PROVE RunOK' /\ ImagesInOrder' /\ YoctoInv'
<1> DEFINE e == Tool("hw")
<1>1. At(e) /\ e \in ImageSteps /\ design' = design /\ Rank(e) = 5
  BY RankOfImageSteps DEF YoctoHandoff, ImageSteps
<1>2. Hashed
  BY <1>1, PhaseAt
<1>3. CASE ~Has("xsa")
  <2>1. FailRun /\ Aside
    BY <1>3, StillAside DEF YoctoHandoff, Returns, Fails
  <2>2. RunOK' /\ NoImages'
    BY <1>1, <2>1, FailStack
  <2>3. ImagesInOrder'
    BY <2>2, NoImagesInOrder, PTL
  <2> QED BY <2>1, <2>2, <2>3, AsideKept
<1>4. CASE Has("xsa") /\ (~Has("hw") \/ Newer("xsa", "hw"))
  <2>1. Writes(<<"hw">>) /\ ToolDone /\ y' = [y EXCEPT !.hw = y.xsa] /\ taint' = taint
    BY <1>4 DEF YoctoHandoff, CopiesHandoff
  <2>2. RunOK' /\ ImagesInOrder' /\ GoesOn(<<>>)
    BY <1>1, <2>1, ImageStepDone
  <2>3. ~Configured' /\ ~Baked' /\ ~Packed' /\ ~Pending(Tool("configdone"))'
    BY <1>1, <2>2, PhasesNext
  <2>4. Touches(<<"hw">>) /\ Elems(<<"hw">>) = {"hw"}
    BY <2>1, OneElem DEF Writes
  <2>5. /\ Has("hw")' /\ (Has("xsa")' <=> Has("xsa")) /\ (Has("configdone")' <=> Has("configdone"))
        /\ (Has("yimg")' <=> Has("yimg"))
        /\ Newer("conf", "configdone")' <=> Newer("conf", "configdone")
        /\ Has("configdone") => Newer("hw", "configdone")'
    <3>1. Has("hw")'
      BY <2>4 DEF Touches, Has
    <3>2. Has("configdone") => Newer("hw", "configdone")'
      BY <2>4, TouchesNewer DEF Has
    <3> QED BY <2>4, <3>1, <3>2, TouchesOthers
  <2>6. /\ y' \in YType
        /\ y'.conf = y.conf /\ y'.recipe = y.recipe /\ y'.port = y.port /\ y'.text = y.text /\ y'.hw = y.xsa
        /\ y'.xsa = y.xsa /\ y'.cfg = y.cfg /\ y'.snap = y.snap /\ y'.baked = y.baked
        /\ y'.img = y.img /\ y'.stamp = y.stamp
    BY <2>1 DEF YoctoInv, Numbers, YType
  <2>7. Numbers'
    BY <2>5, <2>6 DEF YoctoInv, Numbers, NoLater, YType
  <2>8. HandoffFits' /\ MarkerFits' /\ StampFits'
    BY <2>1, <2>5, <2>6 DEF YoctoInv, HandoffFits, MarkerFits, StampFits, Same
  <2>9. SinceHashed'
    BY <1>2, <2>1, <2>5, <2>6 DEF YoctoInv, InPhases, SinceHashed, Same
  <2>10. SinceHanded'
    BY <1>2, <1>4, <2>5, <2>6 DEF YoctoInv, InPhases, SinceHashed, SinceHanded, Numbers
  <2> QED BY <2>2, <2>3, <2>7, <2>8, <2>9, <2>10 DEF YoctoInv, InPhases,
          Marking, SinceConfigured, SinceBaked, SincePacked
<1>5. CASE Has("xsa") /\ Has("hw") /\ ~Newer("xsa", "hw")
  <2>1. Returns(Skipped) /\ UNCHANGED fvars /\ UNCHANGED yvars
    BY <1>5 DEF YoctoHandoff, CopiesHandoff
  <2>2. RunOK' /\ ImagesInOrder' /\ GoesOn(<<>>)
    BY <1>1, <2>1, ImageStepDone
  <2>3. ~Configured' /\ ~Baked' /\ ~Packed' /\ ~Pending(Tool("configdone"))'
    BY <1>1, <2>2, PhasesNext
  <2>4. y' = y /\ taint' = taint /\ files' = files /\ newer' = newer
    BY <2>1 DEF fvars, yvars
  <2>5. Numbers' /\ HandoffFits' /\ MarkerFits' /\ StampFits'
    BY <2>4 DEF YoctoInv, Numbers, NoLater, HandoffFits, MarkerFits, StampFits, Same, Has, Newer
  <2>6. SinceHashed'
    BY <1>2, <2>4 DEF YoctoInv, InPhases, SinceHashed, Same, Has
  <2>7. SinceHanded'
    BY <1>2, <1>5, <2>4 DEF YoctoInv, InPhases, HandoffFits, SinceHashed, SinceHanded, Numbers, Has
  <2> QED BY <2>2, <2>3, <2>5, <2>6, <2>7 DEF YoctoInv, InPhases,
          Marking, SinceConfigured, SinceBaked, SincePacked
<1> QED BY <1>3, <1>4, <1>5

LEMMA ConfigureKept ==
    ASSUME RunOK, ImagesInOrder, TimesOK, YoctoInv, YoctoConfigure PROVE RunOK' /\ ImagesInOrder' /\ YoctoInv'
<1> DEFINE e == Stage("configure")
<1>1. At(e) /\ e \in ImageSteps /\ design' = design /\ Rank(e) = 6
      /\ files' = files /\ newer' = newer
  BY RankOfImageSteps DEF YoctoConfigure, ImageSteps, fvars
<1>2. Handed /\ Hashed
  BY <1>1, PhaseAt, PhasesInOrder
<1>3. CASE MustConfigure
  <2> DEFINE t == <<Tool("configdone")>>
  <2>1. Returns(Does(t)) /\ taint' = taint \ {"conf"}
        /\ y' = [y EXCEPT !.cfg = [conf |-> y.conf, recipe |-> 0, port |-> y.port, xsa |-> y.hw]]
    BY <1>3 DEF YoctoConfigure
  <2>2. t \in Stack /\ Elems(t) = {Tool("configdone")}
    BY One, Groups DEF ImageSteps
  <2>3. run.todo # <<>> /\ Head(run.todo) = e /\ Rank(Tool("configdone")) = 6
    BY <1>1, RankOfImageSteps DEF At
  <2>4. Does(t).ok /\ Does(t).todo = t
    BY DEF Does
  <2>5. RunOK' /\ GoesOn(t)
    <3> DEFINE r == Does(t)
    <3>1. r.ok /\ r.todo = t /\ Returns(r)
      BY <2>1, <2>4
    <3> HIDE DEF r, t
    <3>2. r.ok => r.todo \in Stack /\ \A d \in Elems(r.todo) : Rank(d) <= Rank(Head(run.todo))
      BY <1>1, <2>2, <2>3, <3>1
    <3>3. /\ GoesOn(r.todo)
          /\ run' \in [cmd : BUILD_COMMANDS \cup {"none"}, todo : Stack, calm : BOOLEAN]
          /\ run'.cmd = "none" => run'.todo = <<>>
      BY <2>3, <3>1, <3>2, ReturnsGoesOn
    <3> QED BY <1>1, <3>1, <3>3 DEF RunOK
  <2>6. /\ ImagesInOrder'
        /\ \A s \in ImageSteps :
             Pending(s)' <=> (Pending(s) /\ s # Stage("configure")) \/ s = Tool("configdone")
    BY <1>1, <2>5, ConfigureInOrder
  <2>7. ~Configured' /\ ~Baked' /\ ~Packed' /\ Hashed' /\ Handed'
    <3>1. Pending(Tool("bitbake")) /\ Pending(Tool("yimg"))
      BY <1>1, LaterPending, RankOfImageSteps DEF ImageSteps, Tool
    <3> QED BY <1>2, <2>6, <3>1 DEF Configured, Baked, Packed, Hashed, Handed, ImageSteps, Stage, Tool
  <2>8. /\ y' \in YType
        /\ y'.conf = y.conf /\ y'.recipe = y.recipe /\ y'.port = y.port /\ y'.text = y.text /\ y'.hw = y.hw
        /\ y'.xsa = y.xsa /\ y'.cfg = [conf |-> y.conf, recipe |-> 0, port |-> y.port, xsa |-> y.hw]
        /\ y'.snap = y.snap /\ y'.baked = y.baked /\ y'.img = y.img /\ y'.stamp = y.stamp
    BY <2>1 DEF YoctoInv, Numbers, YType, InputsType
  <2>9. Numbers'
    BY <1>1, <2>8 DEF YoctoInv, Numbers, NoLater, YType, Has
  <2>10. HandoffFits' /\ MarkerFits' /\ Marking' /\ StampFits'
    <3>1. HandoffFits' /\ StampFits'
      BY <1>1, <2>1, <2>8 DEF YoctoInv, HandoffFits, StampFits, Same, Has, Newer
    <3>2. y'.cfg.conf = y'.conf /\ y'.cfg.port = y'.port /\ y'.cfg.xsa = y'.hw
      BY <2>8
    <3>3. MarkerFits'
      BY <1>1, <2>8, <3>2 DEF YoctoInv, MarkerFits, Has, Newer
    <3> QED BY <3>1, <3>2, <3>3 DEF Marking
  <2>11. SinceHashed' /\ SinceHanded'
    BY <1>1, <1>2, <2>1, <2>8 DEF YoctoInv, InPhases, SinceHashed, SinceHanded, Same, Has
  <2> QED BY <2>5, <2>6, <2>7, <2>9, <2>10, <2>11 DEF YoctoInv, InPhases,
          SinceConfigured, SinceBaked, SincePacked
<1>4. CASE ~MustConfigure
  <2>1. Returns(Skipped) /\ y' = y /\ taint' = taint
    BY <1>4 DEF YoctoConfigure, yvars
  <2>2. RunOK' /\ ImagesInOrder' /\ GoesOn(<<>>)
    BY <1>1, <2>1, ImageStepDone
  <2>3. ~Baked' /\ ~Packed' /\ ~Pending(Tool("configdone"))'
    BY <1>1, <2>2, PhasesNext
  <2>4. Numbers' /\ HandoffFits' /\ MarkerFits' /\ StampFits'
    BY <1>1, <2>1 DEF YoctoInv, Numbers, NoLater, HandoffFits, MarkerFits, StampFits, Same, Has, Newer
  <2>5. SinceHashed' /\ SinceHanded'
    BY <1>1, <1>2, <2>1 DEF YoctoInv, InPhases, SinceHashed, SinceHanded, Same, Has
  <2>6. y.cfg # NoInputs => ("conf" \in taint \/ Same(y.snap, y.cfg)) /\ y.cfg.xsa = y.xsa
    <3>1. Has("configdone") /\ Has("hw") /\ y.hw \in {0, y.xsa}
      BY <1>2, <1>4 DEF MustConfigure, YoctoInv, InPhases, SinceHanded
    <3>2. ~Newer("hw", "configdone")
      BY <1>4, <3>1 DEF MustConfigure
    <3>3. ~Newer("conf", "configdone")
      <4>1. Newer("conf", "configdone") => Has("conf")
        BY DEF TimesOK, Newer, Has
      <4> QED BY <1>4, <4>1 DEF MustConfigure
    <3> QED BY <3>1, <3>2, <3>3 DEF YoctoInv, MarkerFits, Same
  <2>7. SinceConfigured'
    BY <2>1, <2>6 DEF SinceConfigured, Same
  <2> QED BY <2>2, <2>3, <2>4, <2>5, <2>7 DEF YoctoInv, InPhases, Marking, SinceBaked, SincePacked
<1> QED BY <1>3, <1>4

LEMMA ConfiguredKept ==
    ASSUME RunOK, ImagesInOrder, YoctoInv, YoctoConfigured PROVE RunOK' /\ ImagesInOrder' /\ YoctoInv'
<1> DEFINE e == Tool("configdone")
<1>1. At(e) /\ e \in ImageSteps /\ design' = design /\ Rank(e) = 6 /\ ToolDone
      /\ y' = y /\ taint' = taint /\ Has("hw") /\ y.hw # 0
  BY RankOfImageSteps DEF YoctoConfigured, ImageSteps, yvars
<1>2. Handed /\ Hashed /\ Pending(e)
  BY <1>1, PhaseAt, PhasesInOrder, HeadAndTail DEF RunOK, At, Pending
<1>3. RunOK' /\ ImagesInOrder' /\ GoesOn(<<>>)
  BY <1>1, ImageStepDone
<1>4. ~Baked' /\ ~Packed' /\ ~Pending(Tool("configdone"))'
  BY <1>1, <1>3, PhasesNext
<1>5. Touches(<<"configdone">>) /\ Elems(<<"configdone">>) = {"configdone"}
  BY OneElem DEF YoctoConfigured, Writes
<1>6. /\ (Has("hw")' <=> Has("hw")) /\ (Has("xsa")' <=> Has("xsa")) /\ (Has("yimg")' <=> Has("yimg"))
      /\ (Newer("xsa", "hw")' <=> Newer("xsa", "hw"))
  <2>1. \A x, w : x # "configdone" /\ w # "configdone" =>
          (Has(x)' <=> Has(x)) /\ (Newer(x, w)' <=> Newer(x, w))
    BY <1>5, TouchesOthers
  <2> QED BY <2>1
<1>7. Numbers' /\ HandoffFits' /\ StampFits'
  BY <1>1, <1>6 DEF YoctoInv, Numbers, NoLater, HandoffFits, StampFits, Same
<1>8. /\ "conf" \in taint \/ (y.cfg.conf = y.conf /\ y.cfg.port = y.port)
      /\ y.cfg.xsa = y.hw
  BY <1>1, <1>2 DEF YoctoInv, InPhases, Marking
<1>9. MarkerFits'
  BY <1>1, <1>8 DEF MarkerFits
<1>10. SinceHashed' /\ SinceHanded'
  BY <1>1, <1>2, <1>6 DEF YoctoInv, InPhases, SinceHashed, SinceHanded, Same
<1>11. SinceConfigured'
  BY <1>1, <1>2, <1>8 DEF YoctoInv, InPhases, SinceConfigured, SinceHanded, Same
<1> QED BY <1>3, <1>4, <1>7, <1>9, <1>10, <1>11 DEF YoctoInv, InPhases, Marking, SinceBaked, SincePacked

LEMMA BitbakeKept ==
    ASSUME RunOK, ImagesInOrder, YoctoInv, YoctoBitbake PROVE RunOK' /\ ImagesInOrder' /\ YoctoInv'
<1> DEFINE e == Tool("bitbake")
<1>1. At(e) /\ e \in ImageSteps /\ design' = design /\ Rank(e) = 7 /\ ToolDone
      /\ files' = files /\ newer' = newer /\ taint' = taint /\ Has("configdone") /\ y.cfg # NoInputs
      /\ y' = [y EXCEPT !.baked = [y.cfg EXCEPT !.recipe = y.recipe]]
  BY RankOfImageSteps DEF YoctoBitbake, ImageSteps, fvars
<1>2. Configured /\ Handed /\ Hashed
  BY <1>1, PhaseAt, PhasesInOrder
<1>3. RunOK' /\ ImagesInOrder' /\ GoesOn(<<>>)
  BY <1>1, ImageStepDone
<1>4. ~Packed' /\ ~Pending(Tool("configdone"))'
  BY <1>1, <1>3, PhasesNext
<1>5. /\ y' \in YType
      /\ y'.conf = y.conf /\ y'.recipe = y.recipe /\ y'.port = y.port /\ y'.text = y.text /\ y'.hw = y.hw
      /\ y'.xsa = y.xsa /\ y'.cfg = y.cfg /\ y'.snap = y.snap
      /\ y'.baked = [y.cfg EXCEPT !.recipe = y.recipe] /\ y'.img = y.img /\ y'.stamp = y.stamp
  BY <1>1 DEF YoctoInv, Numbers, YType, InputsType
<1>6. /\ y'.baked \in InputsType /\ y'.baked.conf = y.cfg.conf /\ y'.baked.recipe = y.recipe
      /\ y'.baked.xsa = y.cfg.xsa /\ y'.baked.port = y.cfg.port
  BY <1>5 DEF YoctoInv, Numbers, YType, InputsType
<1>7. Numbers'
  BY <1>1, <1>5, <1>6 DEF YoctoInv, Numbers, NoLater, YType, Has
<1>8. HandoffFits' /\ MarkerFits' /\ StampFits'
  BY <1>1, <1>5 DEF YoctoInv, HandoffFits, MarkerFits, StampFits, Same, Has, Newer
<1>9. SinceHashed' /\ SinceHanded' /\ SinceConfigured'
  BY <1>1, <1>2, <1>5 DEF YoctoInv, InPhases, SinceHashed, SinceHanded, SinceConfigured, Same, Has
<1>10. SinceBaked'
  BY <1>1, <1>2, <1>5, <1>6
  DEF YoctoInv, InPhases, Numbers, NoLater, SinceConfigured, SinceBaked, Same, Has
<1> QED BY <1>3, <1>4, <1>7, <1>8, <1>9, <1>10 DEF YoctoInv, InPhases, Marking, SincePacked

LEMMA PackageKept ==
    ASSUME RunOK, ImagesInOrder, YoctoInv, YoctoPackage PROVE RunOK' /\ ImagesInOrder' /\ YoctoInv'
<1> DEFINE e == Tool("yimg")
<1>1. At(e) /\ e \in ImageSteps /\ design' = design /\ Rank(e) = 8 /\ ToolDone
      /\ Has("configdone") /\ y' = [y EXCEPT !.img = y.baked, !.failed = FALSE]
  BY RankOfImageSteps DEF YoctoPackage, ImageSteps
<1>2. Baked /\ Configured /\ Handed /\ Hashed
  BY <1>1, PhaseAt, PhasesInOrder
<1>3. RunOK' /\ ImagesInOrder' /\ GoesOn(<<>>)
  BY <1>1, ImageStepDone
<1>4. ~Pending(Tool("configdone"))'
  BY <1>1, <1>3, PhasesNext
<1>5. Touches(<<"yimg">>) /\ Elems(<<"yimg">>) = {"yimg"}
  BY OneElem DEF YoctoPackage, Writes
<1>6. /\ (Has("hw")' <=> Has("hw")) /\ (Has("xsa")' <=> Has("xsa"))
      /\ (Has("configdone")' <=> Has("configdone")) /\ Has("yimg")'
      /\ (Newer("xsa", "hw")' <=> Newer("xsa", "hw"))
      /\ (Newer("conf", "configdone")' <=> Newer("conf", "configdone"))
      /\ (Newer("hw", "configdone")' <=> Newer("hw", "configdone"))
  <2>1. Has("yimg")'
    BY <1>5 DEF Touches, Has
  <2>2. \A x, w : x # "yimg" /\ w # "yimg" =>
          (Has(x)' <=> Has(x)) /\ (Newer(x, w)' <=> Newer(x, w))
    BY <1>5, TouchesOthers
  <2> QED BY <2>1, <2>2
<1>7. /\ y' \in YType
      /\ y'.conf = y.conf /\ y'.recipe = y.recipe /\ y'.port = y.port /\ y'.text = y.text /\ y'.hw = y.hw
      /\ y'.xsa = y.xsa /\ y'.cfg = y.cfg /\ y'.snap = y.snap /\ y'.baked = y.baked
      /\ y'.img = y.baked /\ y'.stamp = y.stamp
  BY <1>1 DEF YoctoInv, Numbers, YType, InputsType
<1>8. /\ "conf" \in taint' <=> "conf" \in taint
      /\ "edit" \in taint' <=> "edit" \in taint
      /\ "apart" \in taint'
      /\ "conf" \in taint => "image" \in taint'
      /\ "unstamped" \in taint => "unstamped" \in taint'
      /\ y.stamp = NoInputs => "unstamped" \in taint'
  BY DEF YoctoPackage
<1>9. Numbers'
  BY <1>6, <1>7 DEF YoctoInv, Numbers, NoLater, YType
<1>10. HandoffFits' /\ MarkerFits'
  BY <1>6, <1>7, <1>8 DEF YoctoInv, HandoffFits, MarkerFits
<1>11. SinceHashed' /\ SinceHanded' /\ SinceConfigured' /\ SinceBaked'
  BY <1>1, <1>2, <1>6, <1>7, <1>8
  DEF YoctoInv, InPhases, SinceHashed, SinceHanded, SinceConfigured, SinceBaked, Same
<1>12. /\ y.snap.recipe <= y.baked.recipe /\ y.baked.xsa = y.xsa
       /\ ("conf" \in taint \/ Same(y.snap, y.baked))
  BY <1>1, <1>2 DEF YoctoInv, InPhases, SinceBaked
<1>13. SincePacked'
  BY <1>7, <1>8, <1>12 DEF SincePacked, Same
<1>14. y.stamp.recipe <= y.snap.recipe /\ Same(y.stamp, y.snap)
  BY <1>2 DEF YoctoInv, InPhases, SinceHashed
<1>15. StampFits'
  <2>1. y.stamp \in InputsType /\ y.snap \in InputsType /\ y.baked \in InputsType /\ y.stamp.xsa <= y.xsa
    BY DEF YoctoInv, Numbers, NoLater, YType
  <2>2. y.stamp.recipe <= y.baked.recipe /\ y.stamp.xsa <= y.baked.xsa
    BY <2>1, <1>12, <1>14 DEF InputsType
  <2>3. y.stamp.xsa = 0 => "unstamped" \in taint'
    BY <1>8, <2>1 DEF YoctoInv, StampFits
  <2>4. "image" \notin taint' => Same(y.stamp, y.baked)
    BY <1>8, <1>12, <1>14 DEF Same
  <2> QED BY <1>6, <1>7, <1>8, <2>2, <2>3, <2>4 DEF StampFits, Same
<1> QED BY <1>3, <1>4, <1>9, <1>10, <1>11, <1>13, <1>15 DEF YoctoInv, InPhases, Marking

LEMMA StampKept ==
    ASSUME RunOK, ImagesInOrder, YoctoInv, YoctoStamp PROVE RunOK' /\ ImagesInOrder' /\ YoctoInv'
<1> DEFINE e == Tool("stamp")
<1>1. At(e) /\ e \in ImageSteps /\ design' = design /\ Rank(e) = 9 /\ ToolDone
      /\ y' = [y EXCEPT !.stamp = IF Has("yimg") THEN y.snap ELSE @]
      /\ files' = files /\ newer' = newer
  BY RankOfImageSteps DEF YoctoStamp, ImageSteps, fvars
<1>2. Packed /\ Handed /\ Hashed
  BY <1>1, PhaseAt, PhasesInOrder
<1>3. RunOK' /\ ImagesInOrder' /\ GoesOn(<<>>)
  BY <1>1, ImageStepDone
<1>4. ~Pending(Tool("stamp"))'
  BY <1>1, <1>3, PopImage
<1>5. ~Hashed' /\ ~Handed' /\ ~Configured' /\ ~Baked' /\ ~Packed' /\ ~Pending(Tool("configdone"))'
  BY <1>1, <1>3, <1>4, PhasesNext DEF Hashed, Handed, Configured, Baked, Packed
<1>6. /\ y' \in YType
      /\ y'.conf = y.conf /\ y'.recipe = y.recipe /\ y'.port = y.port /\ y'.text = y.text /\ y'.hw = y.hw
      /\ y'.xsa = y.xsa /\ y'.cfg = y.cfg /\ y'.snap = y.snap /\ y'.baked = y.baked
      /\ y'.img = y.img /\ y'.stamp = IF Has("yimg") THEN y.snap ELSE y.stamp
  BY <1>1 DEF YoctoInv, Numbers, YType
<1>7. /\ "conf" \in taint' <=> "conf" \in taint
      /\ "image" \in taint' <=> "image" \in taint
      /\ "apart" \notin taint' => "apart" \notin taint \/ "edit" \notin taint
  BY DEF YoctoStamp
<1>8. Numbers'
  BY <1>1, <1>6 DEF YoctoInv, Numbers, NoLater, Has
<1>9. HandoffFits' /\ MarkerFits'
  BY <1>1, <1>6, <1>7 DEF YoctoInv, HandoffFits, MarkerFits, Has, Newer
<1>10. StampFits'
  <2>1. CASE ~Has("yimg")
    BY <1>1, <1>6, <2>1 DEF YoctoInv, StampFits, Has
  <2>2. CASE Has("yimg")
    <3>1. /\ y.snap.recipe <= y.img.recipe
          /\ "image" \in taint \/ Same(y.snap, y.img)
          /\ y.img.xsa = y.xsa /\ "apart" \in taint
      BY <1>2, <2>2 DEF YoctoInv, InPhases, SincePacked
    <3>2. /\ y.snap.xsa = y.xsa /\ y.xsa # 0
          /\ "edit" \notin taint =>
                y.snap.conf = y.conf /\ y.snap.port = y.port /\ y.snap.recipe = y.recipe
      BY <1>2 DEF YoctoInv, InPhases, SinceHanded, SinceHashed
    <3>3. y.xsa \in Nat
      BY DEF YoctoInv, Numbers, YType
    <3>4. y'.stamp = y.snap /\ Has("yimg")'
      BY <1>1, <1>6, <2>2 DEF Has
    <3>5. "apart" \notin taint' => y.snap.recipe = y.img.recipe
      <4>1. y.img.recipe <= y.recipe /\ y.img.recipe \in Nat /\ y.recipe \in Nat
        BY DEF YoctoInv, Numbers, NoLater, YType, InputsType
      <4> QED BY <4>1, <1>7, <3>1, <3>2
    <3>6. "image" \notin taint' =>
            /\ Same(y.snap, y.img)
            /\ "apart" \notin taint' => y.snap.conf = y.img.conf /\ y.snap.port = y.img.port
      BY <1>7, <3>1, <3>2 DEF Same
    <3>7. /\ y'.stamp = y.snap /\ y'.img = y.img
          /\ y.snap.xsa # 0 /\ y.snap.xsa <= y.img.xsa
      BY <1>6, <3>1, <3>2, <3>3, <3>4
    <3>8. ~(Has("yimg")' /\ y'.stamp.xsa = 0)
      BY <3>7
    <3>9. y'.conf = y.conf /\ y'.port = y.port
      BY <1>6
    <3> QED BY <3>1, <3>4, <3>5, <3>6, <3>7, <3>8, <3>9 DEF StampFits, Same
  <2> QED BY <2>1, <2>2
<1> QED BY <1>3, <1>5, <1>8, <1>9, <1>10 DEF YoctoInv, InPhases, SinceHashed, SinceHanded,
        Marking, SinceConfigured, SinceBaked, SincePacked

LEMMA FailsKept ==
    ASSUME RunOK, ImagesInOrder, YoctoInv, YoctoFails PROVE RunOK' /\ ImagesInOrder' /\ YoctoInv'
<1>1. /\ RunOK' /\ NoImages' /\ taint' \in {taint, taint \cup {"package"}}
      /\ \/ files' = files /\ newer' = newer /\ y' = [y EXCEPT !.failed = @ \/ ~At(Tool("stamp"))]
         \/ Touches(<<"hw">>) /\ y' = [y EXCEPT !.failed = TRUE, !.hw = 0]
  BY FailStack DEF YoctoFails, Writes, fvars
<1>2. ImagesInOrder'
  BY <1>1, NoImagesInOrder, PTL
<1>3. ~Hashed' /\ ~Handed' /\ ~Configured' /\ ~Baked' /\ ~Packed' /\ ~Pending(Tool("configdone"))'
  BY <1>1, NoPhases, PTL
<1>4. CASE files' = files /\ newer' = newer /\ y' = [y EXCEPT !.failed = @ \/ ~At(Tool("stamp"))]
  <2>1. /\ y' \in YType
        /\ y'.conf = y.conf /\ y'.recipe = y.recipe /\ y'.port = y.port /\ y'.text = y.text /\ y'.hw = y.hw
        /\ y'.xsa = y.xsa /\ y'.cfg = y.cfg /\ y'.snap = y.snap /\ y'.baked = y.baked
        /\ y'.img = y.img /\ y'.stamp = y.stamp
    <3>1. (y.failed \/ ~At(Tool("stamp"))) \in BOOLEAN
      OBVIOUS
    <3> QED BY <1>4, <3>1 DEF YoctoInv, Numbers, YType
  <2>2. Numbers'
    BY <1>4, <2>1 DEF YoctoInv, Numbers, NoLater, Has
  <2>3. HandoffFits' /\ MarkerFits' /\ StampFits'
    BY <1>1, <1>4, <2>1 DEF YoctoInv, HandoffFits, MarkerFits, StampFits, Same, Has, Newer
  <2> QED BY <1>1, <1>2, <1>3, <2>2, <2>3 DEF YoctoInv, InPhases, SinceHashed, SinceHanded,
          Marking, SinceConfigured, SinceBaked, SincePacked
<1>5. CASE Touches(<<"hw">>) /\ y' = [y EXCEPT !.failed = TRUE, !.hw = 0]
  <2>1. /\ y' \in YType
        /\ y'.conf = y.conf /\ y'.recipe = y.recipe /\ y'.port = y.port /\ y'.text = y.text /\ y'.hw = 0
        /\ y'.xsa = y.xsa /\ y'.cfg = y.cfg /\ y'.snap = y.snap /\ y'.baked = y.baked
        /\ y'.img = y.img /\ y'.stamp = y.stamp
    BY <1>5 DEF YoctoInv, Numbers, YType
  <2>2. Elems(<<"hw">>) = {"hw"}
    BY OneElem
  <2>3. /\ (Has("xsa")' <=> Has("xsa")) /\ (Has("configdone")' <=> Has("configdone"))
        /\ (Has("yimg")' <=> Has("yimg"))
        /\ Newer("conf", "configdone")' <=> Newer("conf", "configdone")
        /\ Has("configdone") => Newer("hw", "configdone")'
    <3>1. Has("configdone") => Newer("hw", "configdone")'
      BY <1>5, <2>2, TouchesNewer DEF Has
    <3>2. \A x, w : x # "hw" /\ w # "hw" =>
            (Has(x)' <=> Has(x)) /\ (Newer(x, w)' <=> Newer(x, w))
      BY <1>5, <2>2, TouchesOthers
    <3> QED BY <3>1, <3>2
  <2>4. Numbers'
    BY <2>1, <2>3 DEF YoctoInv, Numbers, NoLater, YType
  <2>5. HandoffFits' /\ MarkerFits' /\ StampFits'
    BY <1>1, <2>1, <2>3 DEF YoctoInv, HandoffFits, MarkerFits, StampFits, Same
  <2> QED BY <1>1, <1>2, <1>3, <2>4, <2>5 DEF YoctoInv, InPhases, SinceHashed, SinceHanded,
          Marking, SinceConfigured, SinceBaked, SincePacked
<1> QED BY <1>1, <1>4, <1>5

\* An edit gets a number of its own, which no build has seen.
LEMMA EditNumbers ==
    ASSUME YoctoInv, NEW f \in Edited, NEW t \in Contents \cup {Absent}, EditTo(f, t),
           Has("xsa")' <=> Has("xsa")
    PROVE  /\ Numbers'
           /\ y'[f] = Len(y.text) + 1
           /\ \A g \in Edited \ {f} : y'[g] = y[g]
           /\ y'.hw = y.hw /\ y'.xsa = y.xsa /\ y'.cfg = y.cfg /\ y'.snap = y.snap
           /\ y'.baked = y.baked /\ y'.img = y.img /\ y'.stamp = y.stamp
           /\ \A r \in {y.cfg, y.snap, y.baked, y.img, y.stamp} :
                r.conf # Len(y.text) + 1 /\ r.port # Len(y.text) + 1
<1> DEFINE n == Len(y.text)
<1>1. y \in YType /\ y.text \in Seq(Contents \cup {Absent}) /\ n \in Nat
  BY LenProperties DEF YoctoInv, Numbers, YType
<1> DEFINE more == Append(y.text, t)
<1>2. more \in Seq(Contents \cup {Absent}) /\ Len(more) = n + 1 /\ n + 1 \in Nat
  BY <1>1, AppendProperties
<1>3. \A r \in {y.cfg, y.snap, y.baked, y.img, y.stamp} :
        r \in InputsType /\ r.conf <= n /\ r.port <= n /\ r.recipe <= y.recipe /\ r.xsa <= y.xsa
  BY DEF YoctoInv, Numbers, NoLater, YType
<1> HIDE DEF n, more
<1>4. y' = [y EXCEPT !.text = more, ![f] = n + 1]
  BY DEF EditTo, n, more
<1>5. /\ y' \in YType /\ y'[f] = n + 1 /\ (\A g \in Edited \ {f} : y'[g] = y[g])
      /\ y'.text = more
      /\ y'.hw = y.hw /\ y'.xsa = y.xsa /\ y'.cfg = y.cfg /\ y'.snap = y.snap
      /\ y'.baked = y.baked /\ y'.img = y.img /\ y'.stamp = y.stamp
  <2>1. CASE f = "conf"
    <3>1. y' = [y EXCEPT !.text = more, !.conf = n + 1]
      BY <1>4, <2>1
    <3>2. y' \in YType
      BY <1>1, <1>2, <3>1 DEF YType
    <3> QED BY <1>1, <2>1, <3>1, <3>2 DEF YType, Edited
  <2>2. CASE f = "recipe"
    <3>1. y' = [y EXCEPT !.text = more, !.recipe = n + 1]
      BY <1>4, <2>2
    <3>2. y' \in YType
      BY <1>1, <1>2, <3>1 DEF YType
    <3> QED BY <1>1, <2>2, <3>1, <3>2 DEF YType, Edited
  <2>3. CASE f = "port"
    <3>1. y' = [y EXCEPT !.text = more, !.port = n + 1]
      BY <1>4, <2>3
    <3>2. y' \in YType
      BY <1>1, <1>2, <3>1 DEF YType
    <3> QED BY <1>1, <2>3, <3>1, <3>2 DEF YType, Edited
  <2> QED BY <2>1, <2>2, <2>3 DEF Edited
<1>6. \A r \in InputsType : r.conf \in Nat /\ r.port \in Nat /\ r.recipe \in Nat
  BY DEF InputsType
<1>7. \A r \in {y.cfg, y.snap, y.baked, y.img, y.stamp} : r.conf # n + 1 /\ r.port # n + 1
  <2>1. \A m \in Nat : m <= n => m # n + 1
    BY <1>1
  <2> QED BY <1>3, <1>6, <2>1
<1>8. \A g \in Edited : y[g] \in 1 .. n
  BY DEF YoctoInv, Numbers, Edited, n
<1>9. Len(y'.text) = n + 1 /\ \A g \in Edited : y'[g] \in 1 .. n + 1
  BY <1>1, <1>2, <1>5, <1>8
<1>10. y.recipe <= y'.recipe
  <2>1. y'.recipe \in {y.recipe, n + 1} /\ y.recipe \in 1 .. n
    BY <1>5, <1>8 DEF Edited
  <2> QED BY <1>1, <2>1
<1>11. \A r \in {y.cfg, y.snap, y.baked, y.img, y.stamp} :
        r.conf <= n + 1 /\ r.port <= n + 1 /\ r.recipe <= y'.recipe
  <2>1. y.recipe \in Nat /\ y'.recipe \in Nat
    BY <1>1, <1>5 DEF YType
  <2>2. \A m \in Nat : (m <= n => m <= n + 1) /\ (m <= y.recipe => m <= y'.recipe)
    BY <1>1, <1>10, <2>1
  <2> QED BY <1>3, <1>6, <2>2
<1>12. y'.conf \in 1 .. Len(y'.text) /\ y'.recipe \in 1 .. Len(y'.text) /\ y'.port \in 1 .. Len(y'.text)
  BY <1>9 DEF Edited
<1>13. Numbers'
  BY <1>3, <1>5, <1>9, <1>11, <1>12 DEF YoctoInv, Numbers, NoLater
<1> QED BY <1>5, <1>7, <1>13 DEF n

LEMMA EditKept ==
    ASSUME RunOK, ImagesInOrder, YoctoInv, Edit PROVE RunOK' /\ ImagesInOrder' /\ YoctoInv'
<1>1. RunOK' /\ SameImages
  BY MeddledStack DEF Edit
<1>2. ImagesInOrder'
  BY <1>1, SameImagesInOrder
<1>3. /\ (Hashed' <=> Hashed) /\ (Handed' <=> Handed) /\ (Configured' <=> Configured)
      /\ (Baked' <=> Baked) /\ (Packed' <=> Packed)
      /\ Pending(Tool("configdone"))' <=> Pending(Tool("configdone"))
  BY <1>1, SamePhases
<1> PICK text \in Contents, hidden \in {{}, {"conf"}} :
        /\ \/ EditTo("recipe", text) /\ UNCHANGED <<files, newer>> /\ hidden = {}
           \/ EditTo("port", text) /\ UNCHANGED <<files, newer>> /\ hidden = {"conf"}
           \/ /\ EditTo("conf", text) /\ Touches(<<"conf">>)
              /\ hidden = IF At(Tool("configdone")) THEN {"conf"} ELSE {}
           \/ EditTo("conf", Absent) /\ Drops({"conf"}) /\ hidden = {"conf"}
        /\ taint' = taint \cup hidden \cup
                    IF Tool("stamp") \in Elems(run.todo) THEN {"edit"} ELSE {}
  BY Zenon DEF Edit
<1>4. Hashed \/ Handed \/ Configured \/ Baked \/ Packed => "edit" \in taint'
  BY DEF Hashed, Handed, Configured, Baked, Packed, Pending
<1>5. /\ taint \subseteq taint' /\ hidden \subseteq taint'
      /\ \A t : t \notin {"edit", "conf"} => (t \in taint' <=> t \in taint)
  OBVIOUS
<1>6. PICK f \in Edited, t \in Contents \cup {Absent} :
        /\ EditTo(f, t)
        /\ f = "recipe" => UNCHANGED <<files, newer>>
        /\ f = "port" => UNCHANGED <<files, newer>> /\ "conf" \in taint'
        /\ f = "conf" =>
            \/ Touches(<<"conf">>) /\ (At(Tool("configdone")) => "conf" \in taint')
            \/ Drops({"conf"}) /\ "conf" \in taint'
  BY <1>5 DEF Edited
<1>7. /\ (Has("hw")' <=> Has("hw")) /\ (Has("xsa")' <=> Has("xsa"))
      /\ (Has("configdone")' <=> Has("configdone")) /\ (Has("yimg")' <=> Has("yimg"))
      /\ (Newer("xsa", "hw")' <=> Newer("xsa", "hw"))
      /\ (Newer("hw", "configdone")' <=> Newer("hw", "configdone"))
      /\ f # "conf" => (Newer("conf", "configdone")' <=> Newer("conf", "configdone"))
      /\ f = "conf" /\ Has("configdone") => "conf" \in taint' \/ Newer("conf", "configdone")'
  <2>1. CASE f # "conf"
    BY <1>6, <2>1 DEF Edited, Has, Newer
  <2>2. CASE f = "conf" /\ Touches(<<"conf">>)
    <3>1. Elems(<<"conf">>) = {"conf"}
      BY OneElem
    <3>2. Has("configdone") => Newer("conf", "configdone")'
      BY <2>2, <3>1, TouchesNewer DEF Has
    <3>3. \A x, w : x # "conf" /\ w # "conf" =>
            (Has(x)' <=> Has(x)) /\ (Newer(x, w)' <=> Newer(x, w))
      BY <2>2, <3>1, TouchesOthers
    <3> QED BY <2>2, <3>2, <3>3 DEF Edited
  <2>3. CASE f = "conf" /\ Drops({"conf"}) /\ "conf" \in taint'
    BY <2>3, DropsOthers
  <2> QED BY <1>6, <2>1, <2>2, <2>3
<1> DEFINE n == Len(y.text) + 1
<1>8. /\ Numbers'
      /\ y'[f] = n /\ \A g \in Edited \ {f} : y'[g] = y[g]
      /\ y'.hw = y.hw /\ y'.xsa = y.xsa /\ y'.cfg = y.cfg /\ y'.snap = y.snap
      /\ y'.baked = y.baked /\ y'.img = y.img /\ y'.stamp = y.stamp
      /\ \A r \in {y.cfg, y.snap, y.baked, y.img, y.stamp} : r.conf # n /\ r.port # n
  BY <1>6, <1>7, EditNumbers
<1> HIDE DEF n
<1>9. y'.conf \in {y.conf, n} /\ y'.port \in {y.port, n}
      /\ (f # "conf" => y'.conf = y.conf) /\ (f # "port" => y'.port = y.port)
  BY <1>8 DEF Edited
<1>11. HandoffFits' /\ MarkerFits'
  BY <1>5, <1>6, <1>7, <1>8, <1>9 DEF YoctoInv, HandoffFits, MarkerFits
<1>12. StampFits'
  <2>1. Same(y.stamp, y.img) => Same(y.stamp, y.img)'
    BY <1>8, <1>9 DEF Same
  <2> QED BY <1>5, <1>7, <1>8, <2>1 DEF YoctoInv, StampFits
<1>13. SinceHashed' /\ SinceHanded'
  <2>1. Same(y.stamp, y.snap) => Same(y.stamp, y.snap)'
    BY <1>8, <1>9 DEF Same
  <2> QED BY <1>3, <1>4, <1>7, <1>8, <2>1 DEF YoctoInv, InPhases, SinceHashed, SinceHanded
<1>14. Marking'
  BY <1>3, <1>5, <1>6, <1>7, <1>8, <1>9 DEF YoctoInv, InPhases, Marking, ImagesInOrder
<1>15. SinceConfigured' /\ SinceBaked' /\ SincePacked'
  <2>1. /\ Same(y.snap, y.cfg) => Same(y.snap, y.cfg)'
        /\ Same(y.snap, y.baked) => Same(y.snap, y.baked)'
        /\ Same(y.snap, y.img) => Same(y.snap, y.img)'
    BY <1>8, <1>9 DEF Same
  <2> QED BY <1>3, <1>5, <1>7, <1>8, <2>1 DEF YoctoInv, InPhases, SinceConfigured, SinceBaked, SincePacked
<1> QED BY <1>1, <1>2, <1>8, <1>11, <1>12, <1>13, <1>14, <1>15 DEF YoctoInv, InPhases

-----------------------------------------------------------------------------
(* The images are of the inputs their stamp names                           *)

StepInv == RunOK /\ ImagesInOrder /\ PlanOK /\ TimesOK /\ YoctoInv

LEMMA StepInvBegins == Init => StepInv
<1> SUFFICES ASSUME Init PROVE StepInv
  OBVIOUS
<1>1. RunOK
  BY IdleOK DEF Init, InitFiles, InitRun, RunOK
<1>2. NoImages
  BY IdleOK, EmptyNoImages DEF Init, InitRun
<1> QED BY <1>1, <1>2, NoImagesInOrder, YoctoBegins DEF StepInv, Init, PlanOK, TimesOK, InitFiles

LEMMA StepInvKept == StepInv /\ [Next]_vars => StepInv'
<1> SUFFICES ASSUME RunOK, ImagesInOrder, PlanOK, TimesOK, YoctoInv, [Next]_vars
             PROVE  RunOK' /\ ImagesInOrder' /\ YoctoInv' /\ PlanOK' /\ TimesOK'
  BY DEF StepInv
<1>1. PlanOK' /\ TimesOK'
  BY PlanKept, TimesKept
<1>2. CASE RunTool
  BY <1>1, <1>2, RunToolYocto
<1>3. CASE Clean
  BY <1>1, <1>3, CleanYocto
<1>4. CASE KeepBoot \/ KeepBootKilled
  BY <1>1, <1>4, KeepBootYocto
<1>5. CASE Yocto
  BY <1>1, <1>5, StageYoctoKept, SnapshotKept, HandoffKept, ConfigureKept, ConfiguredKept,
     BitbakeKept, PackageKept, StampKept, FailsKept, EditKept DEF Yocto
<1> QED BY <1>1, <1>2, <1>3, <1>4, <1>5, AsideSteps DEF Next

\* Images the next run would report as up to date are made from what the inputs
\* hold, but for the cases YoctoTruthful names: for any designs, cores and texts,
\* and any number of edits, undone or not, runs, cleans and failures.
THEOREM StampedImagesAreTrue == Spec => []YoctoTruthful
<1>1. Init => StepInv
  BY StepInvBegins
<1>2. StepInv /\ [Next]_vars => StepInv'
  BY StepInvKept
<1>3. StepInv => YoctoTruthful
  BY ImagesAreTrue DEF StepInv
<1> QED BY <1>1, <1>2, <1>3, PTL DEF Spec

-----------------------------------------------------------------------------
(* What is out of date                                                      *)

LEMMA InputsOf ==
    /\ \A x \in {"xsa", "bit", "yimg", "conf"} : Inputs(x) = {}
    /\ Inputs("elf") = {"xsa"} /\ Inputs("boot") = {"elf"} /\ Inputs("mcs") = {cfgmem_src}
    /\ Inputs("bare_zip") = vit_boot /\ Inputs("yocto_zip") = {"yimg"}
    /\ Inputs("bit_zip") = {"bit", "mcs"}
BY DEF Inputs

LEMMA BootOrBit ==
    /\ FlashesApp => cfgmem_src = "boot" /\ vit_boot = {"boot", "mcs"}
    /\ ~FlashesApp => cfgmem_src = "bit" /\ vit_boot = {"boot"}
BY DEF cfgmem_src, vit_boot

LEMMA MadeFromOf ==
    \A S : /\ \A x \in {"xsa", "bit", "yimg", "conf"} : x \notin MadeFrom(S)
           /\ "elf" \in MadeFrom(S) <=> "xsa" \in S
           /\ "boot" \in MadeFrom(S) <=> "elf" \in S
           /\ "mcs" \in MadeFrom(S) <=> cfgmem_src \in S
           /\ "bare_zip" \in MadeFrom(S) <=> vit_boot \cap S # {}
           /\ "yocto_zip" \in MadeFrom(S) <=> "yimg" \in S
           /\ "bit_zip" \in MadeFrom(S) <=> "bit" \in S \/ "mcs" \in S
<1> TAKE S
<1>1. {"elf", "boot", "mcs", "bare_zip", "yocto_zip", "bit_zip"} \subseteq Artifacts
  BY DEF Artifacts, TargetFiles, Zips
<1>2. \A x \in {"elf", "boot", "mcs", "bare_zip", "yocto_zip", "bit_zip"} :
        x \in MadeFrom(S) <=> Inputs(x) \cap S # {}
  BY <1>1 DEF MadeFrom
<1>3. \A x \in {"xsa", "bit", "yimg", "conf"} : x \notin MadeFrom(S)
  BY InputsOf DEF MadeFrom
<1> QED BY <1>2, <1>3, InputsOf

LEMMA OneStepOf ==
    \A S : /\ \A x \in {"xsa", "bit", "yimg", "conf"} : x \in OneStep(S) <=> x \in S
           /\ "elf" \in OneStep(S) <=> "elf" \in S \/ "xsa" \in S
           /\ "boot" \in OneStep(S) <=> "boot" \in S \/ "elf" \in S
           /\ "mcs" \in OneStep(S) <=> "mcs" \in S \/ cfgmem_src \in S
BY MadeFromOf DEF OneStep

\* What is made, in the end, from the files in W.
LEMMA DownstreamOf ==
    \A W : /\ \A x \in {"xsa", "bit", "yimg", "conf"} : x \notin Downstream(W)
           /\ "elf" \in Downstream(W) <=> "xsa" \in W
           /\ "boot" \in Downstream(W) <=> "elf" \in W \/ "xsa" \in W
           /\ FlashesApp =>
                ("mcs" \in Downstream(W) <=> "boot" \in W \/ "elf" \in W \/ "xsa" \in W)
           /\ ~FlashesApp => ("mcs" \in Downstream(W) <=> "bit" \in W)
           /\ "bare_zip" \in Downstream(W) <=>
                vit_boot \cap W # {} \/ "elf" \in W \/ "xsa" \in W
           /\ "yocto_zip" \in Downstream(W) <=> "yimg" \in W
           /\ ~FlashesApp => ("bit_zip" \in Downstream(W) <=> "bit" \in W \/ "mcs" \in W)
<1> TAKE W
<1> DEFINE W1 == OneStep(W)  W2 == OneStep(W1)  W3 == OneStep(W2)
<1>1. Downstream(W) = MadeFrom(W3)
  BY DEF Downstream
<1>2. /\ \A x \in {"xsa", "bit", "yimg", "conf"} : x \in W1 <=> x \in W
      /\ "elf" \in W1 <=> "elf" \in W \/ "xsa" \in W
      /\ "boot" \in W1 <=> "boot" \in W \/ "elf" \in W
      /\ "mcs" \in W1 <=> "mcs" \in W \/ cfgmem_src \in W
  BY OneStepOf
<1> HIDE DEF W1
<1>3. /\ \A x \in {"xsa", "bit", "yimg", "conf"} : x \in W2 <=> x \in W1
      /\ "elf" \in W2 <=> "elf" \in W1 \/ "xsa" \in W1
      /\ "boot" \in W2 <=> "boot" \in W1 \/ "elf" \in W1
      /\ "mcs" \in W2 <=> "mcs" \in W1 \/ cfgmem_src \in W1
  BY OneStepOf
<1> HIDE DEF W2
<1>4. /\ \A x \in {"xsa", "bit", "yimg", "conf"} : x \in W3 <=> x \in W2
      /\ "elf" \in W3 <=> "elf" \in W2 \/ "xsa" \in W2
      /\ "boot" \in W3 <=> "boot" \in W2 \/ "elf" \in W2
      /\ "mcs" \in W3 <=> "mcs" \in W2 \/ cfgmem_src \in W2
  BY OneStepOf
<1> HIDE DEF W3
<1>5. /\ \A x \in {"xsa", "bit", "yimg", "conf"} : x \in W3 <=> x \in W
      /\ "elf" \in W3 <=> "elf" \in W \/ "xsa" \in W
      /\ "boot" \in W3 <=> "boot" \in W \/ "elf" \in W \/ "xsa" \in W
  BY <1>2, <1>3, <1>4
<1>6. /\ FlashesApp =>
           ("mcs" \in W3 <=> "mcs" \in W \/ "boot" \in W \/ "elf" \in W \/ "xsa" \in W)
      /\ ~FlashesApp => ("mcs" \in W3 <=> "mcs" \in W \/ "bit" \in W)
  BY <1>2, <1>3, <1>4, BootOrBit
<1> DEFINE M == MadeFrom(W3)
<1>7. /\ \A x \in {"xsa", "bit", "yimg", "conf"} : x \notin M
      /\ "elf" \in M <=> "xsa" \in W3
      /\ "boot" \in M <=> "elf" \in W3
      /\ "mcs" \in M <=> cfgmem_src \in W3
      /\ "bare_zip" \in M <=> vit_boot \cap W3 # {}
      /\ "yocto_zip" \in M <=> "yimg" \in W3
      /\ "bit_zip" \in M <=> "bit" \in W3 \/ "mcs" \in W3
  BY MadeFromOf
<1> HIDE DEF M
<1>8. "bare_zip" \in M <=> vit_boot \cap W # {} \/ "elf" \in W \/ "xsa" \in W
  BY <1>5, <1>6, <1>7, BootOrBit
<1>9. /\ FlashesApp => ("mcs" \in M <=> "boot" \in W \/ "elf" \in W \/ "xsa" \in W)
      /\ ~FlashesApp => ("mcs" \in M <=> "bit" \in W)
      /\ ~FlashesApp => ("bit_zip" \in M <=> "bit" \in W \/ "mcs" \in W)
  BY <1>5, <1>6, <1>7, BootOrBit
<1> QED BY <1>1, <1>5, <1>7, <1>8, <1>9 DEF M

\* What a write does, file by file.
LEMMA WritesPoints ==
    ASSUME NEW xs, Writes(xs)
    PROVE  /\ \A w : Has(w)' <=> Has(w) \/ w \in Elems(xs)
           /\ \A w : w \in stale' <=>
                \/ w \in stale /\ w \notin Elems(xs)
                \/ w \in files /\ w \in Downstream(Elems(xs))
                \/ w \in Elems(xs) /\ Inputs(w) \cap stale # {}
           /\ \A u, w : u \notin Elems(xs) /\ w \notin Elems(xs) => (Newer(u, w)' <=> Newer(u, w))
           /\ \A u, w : u \in files \ Elems(xs) /\ w \in Elems(xs) => Newer(w, u)' /\ ~Newer(u, w)'
<1>1. Touches(xs)
  BY DEF Writes
<1>2. \A w : Has(w)' <=> Has(w) \/ w \in Elems(xs)
  BY <1>1 DEF Touches, Has
<1>3. stale' = (stale \ Elems(xs)) \cup (files \cap Downstream(Elems(xs))) \cup BuiltOn(xs, stale)
  BY DEF Writes
<1>4. \A u, w : u \notin Elems(xs) /\ w \notin Elems(xs) => (Newer(u, w)' <=> Newer(u, w))
  BY <1>1, TouchesOthers
<1>5. \A u, w : u \in files \ Elems(xs) /\ w \in Elems(xs) => Newer(w, u)' /\ ~Newer(u, w)'
  BY <1>1, TouchesNewer
<1> QED BY <1>2, <1>3, <1>4, <1>5 DEF BuiltOn

StaleHere == stale \subseteq files /\ stale \cap {"xsa", "bit", "yimg", "conf"} = {}
XsaHasBit == Has("xsa") => Has("bit")
ElfHasWs == Has("elf") => Has("ws")
McsIsOfDesign == Has("mcs") => design.cfgmem

\* What is out of date, made from what is not, fails the test of times that its
\* stage makes.
ElfTold == "elf" \in stale /\ Has("xsa") => Newer("xsa", "ws")
BootTold ==
    /\ "boot" \in stale /\ Has("elf") /\ "elf" \notin stale => ~Newer("boot", "elf")
    /\ "boot" \in stale /\ Has("xsa") => ~Newer("boot", "xsa")
McsTold ==
    "mcs" \in stale /\ Has(cfgmem_src) /\ cfgmem_src \notin stale => ~Newer("mcs", cfgmem_src)
ZipTold(z) ==
    z \in stale /\ ZipSources(z) # {} /\ ZipSources(z) \subseteq files \ stale => ~_zip_current(z)

FilesInv ==
    /\ StaleHere /\ XsaHasBit /\ ElfHasWs /\ McsIsOfDesign
    /\ ElfTold /\ BootTold /\ McsTold /\ \A z \in Shipped : ZipTold(z)

\* What is written together, and when.
Ordered(W) ==
    /\ "xsa" \in W => "bit" \in W
    /\ "elf" \in W => "ws" \in W
    /\ W \cap {"xsa", "bit"} # {} => W \subseteq {"xsa", "bit"}
    /\ "ws" \in W => /\ W \subseteq {"ws", "elf"} /\ ~Has("ws")
                     /\ Has("boot") /\ Has("xsa") => ~Newer("boot", "xsa")
    /\ "boot" \in W => W = {"boot"} /\ "elf" \notin stale
    /\ "mcs" \in W => W = {"mcs"} /\ design.cfgmem
    /\ \A z \in Zips \cap W : W = {z}
    /\ "conf" \notin W

LEMMA ShippedOf ==
    /\ Shipped \subseteq {"bare_zip", "yocto_zip", "bit_zip"}
    /\ "bit_zip" \in Shipped => ~FlashesApp
    /\ Shipped \subseteq Zips
BY DEF Shipped, FlashesApp, has_software_flow, Zips

\* What a zip gathers is what it is made from.
GathersOwn ==
    \A z \in Shipped : ZipSources(z) # {} /\ ZipSources(z) \subseteq files
        => ZipSources(z) = Inputs(z) \cap files

LEMMA GathersInputs == GathersOwn
<1> SUFFICES ASSUME NEW z \in Shipped, ZipSources(z) # {}, ZipSources(z) \subseteq files
             PROVE  ZipSources(z) = Inputs(z) \cap files
  BY DEF GathersOwn
<1>1. CASE z = "bare_zip"
  BY <1>1, InputsOf DEF ZipSources, Has
<1>2. CASE z = "yocto_zip"
  BY <1>2, InputsOf DEF ZipSources, Has
<1>3. CASE z = "bit_zip"
  BY <1>3, InputsOf DEF ZipSources, Has
<1> QED BY <1>1, <1>2, <1>3, ShippedOf

LEMMA WritesFiles ==
    ASSUME FilesInv, design' = design, NEW xs, Writes(xs), Ordered(Elems(xs))
    PROVE  FilesInv'
<1> DEFINE W == Elems(xs)
<1>1. /\ \A w : Has(w)' <=> Has(w) \/ w \in W
      /\ \A w : w \in stale' <=> \/ w \in stale /\ w \notin W
                                 \/ w \in files /\ w \in Downstream(W)
                                 \/ w \in W /\ Inputs(w) \cap stale # {}
      /\ \A u, w : u \notin W /\ w \notin W => (Newer(u, w)' <=> Newer(u, w))
      /\ \A u, w : u \in files \ W /\ w \in W => Newer(w, u)' /\ ~Newer(u, w)'
  BY WritesPoints
<1>2. Ordered(W)
  OBVIOUS
<1>3. /\ \A x \in {"xsa", "bit", "yimg", "conf"} : x \notin Downstream(W)
      /\ "elf" \in Downstream(W) <=> "xsa" \in W
      /\ "boot" \in Downstream(W) <=> "elf" \in W \/ "xsa" \in W
      /\ FlashesApp =>
           ("mcs" \in Downstream(W) <=> "boot" \in W \/ "elf" \in W \/ "xsa" \in W)
      /\ ~FlashesApp => ("mcs" \in Downstream(W) <=> "bit" \in W)
      /\ "bare_zip" \in Downstream(W) <=> vit_boot \cap W # {} \/ "elf" \in W \/ "xsa" \in W
      /\ "yocto_zip" \in Downstream(W) <=> "yimg" \in W
      /\ ~FlashesApp => ("bit_zip" \in Downstream(W) <=> "bit" \in W \/ "mcs" \in W)
  BY DownstreamOf
<1> HIDE DEF W
<1>4. files' = files \cup W
  BY DEF Writes, Touches, W
<1>5. /\ cfgmem_src' = cfgmem_src /\ vit_boot' = vit_boot /\ Shipped' = Shipped
      /\ FlashesApp' = FlashesApp
  BY DEF cfgmem_src, vit_boot, Shipped, FlashesApp, has_software_flow
<1>6. StaleHere'
  BY <1>1, <1>3, <1>4, InputsOf DEF FilesInv, StaleHere
<1>7. XsaHasBit' /\ ElfHasWs' /\ McsIsOfDesign'
  BY <1>1, <1>2 DEF FilesInv, XsaHasBit, ElfHasWs, McsIsOfDesign, Ordered
<1>8. ElfTold'
  <2> SUFFICES ASSUME "elf" \in stale', Has("xsa")' PROVE Newer("xsa", "ws")'
    BY DEF ElfTold
  <2>1. CASE "xsa" \in W
    <3>1. Has("elf") /\ "ws" \notin W
      BY <1>1, <1>2, <2>1 DEF Ordered, Has, FilesInv, StaleHere
    <3> QED BY <1>1, <2>1, <3>1 DEF FilesInv, ElfHasWs, Has
  <2>2. CASE "xsa" \notin W
    <3>1. "elf" \notin W
      BY <1>1, <1>2, <1>3, <2>2, InputsOf DEF FilesInv, StaleHere
    <3>2. "elf" \in stale /\ Has("xsa")
      BY <1>1, <1>3, <2>2, <3>1
    <3>3. "ws" \notin W
      BY <3>2, <1>2 DEF FilesInv, StaleHere, ElfHasWs, Ordered, Has
    <3> QED BY <1>1, <2>2, <3>2, <3>3 DEF FilesInv, ElfTold
  <2> QED BY <2>1, <2>2
<1>9. BootTold'
  <2>1. ASSUME "boot" \in stale' PROVE "boot" \notin W /\ Has("boot")
    <3>1. "boot" \notin W
      BY <2>1, <1>1, <1>2, <1>3, InputsOf DEF Ordered
    <3> QED BY <2>1, <3>1, <1>1 DEF FilesInv, StaleHere, Has
  <2>2. ASSUME "boot" \in stale', Has("elf")', "elf" \notin stale' PROVE ~Newer("boot", "elf")'
    <3>1. CASE "elf" \in W
      BY <3>1, <2>1, <2>2, <1>1 DEF Has
    <3>2. CASE "elf" \notin W
      <4>1. Has("elf") /\ "elf" \notin stale /\ "xsa" \notin W
        BY <3>2, <2>2, <1>1, <1>3 DEF Has
      <4>2. "boot" \in stale
        BY <4>1, <3>2, <2>1, <2>2, <1>1, <1>3
      <4> QED BY <3>2, <4>1, <4>2, <2>1, <2>2, <1>1 DEF FilesInv, BootTold
    <3> QED BY <3>1, <3>2
  <2>3. ASSUME "boot" \in stale', Has("xsa")' PROVE ~Newer("boot", "xsa")'
    <3>1. CASE "xsa" \in W
      BY <3>1, <2>1, <2>3, <1>1 DEF Has
    <3>2. CASE "xsa" \notin W
      <4>1. Has("xsa") /\ (Newer("boot", "xsa")' <=> Newer("boot", "xsa"))
        BY <3>2, <2>1, <2>3, <1>1
      <4>2. CASE "elf" \in W
        BY <4>1, <4>2, <2>1, <2>3, <1>2 DEF Ordered
      <4>3. CASE "elf" \notin W
        <5>1. "boot" \in stale
          BY <4>3, <3>2, <2>1, <2>3, <1>1, <1>3
        <5> QED BY <4>1, <5>1 DEF FilesInv, BootTold
      <4> QED BY <4>2, <4>3
    <3> QED BY <3>1, <3>2
  <2> QED BY <2>2, <2>3 DEF BootTold
<1>10. McsTold'
  <2> SUFFICES ASSUME NEW s \in {"boot", "bit"}, s = cfgmem_src,
                      "mcs" \in stale', Has(s)', s \notin stale'
               PROVE  ~Newer("mcs", s)'
    BY <1>5, BootOrBit DEF McsTold, Has, Newer
  <2>1. s # "mcs" /\ Inputs("mcs") = {s}
    BY InputsOf
  <2>2. (FlashesApp /\ s = "boot") \/ (~FlashesApp /\ s = "bit")
    BY BootOrBit
  <2>3. CASE s \in W
    <3>1. "mcs" \notin W
      BY <2>1, <2>3, <1>2 DEF Ordered
    <3>2. "mcs" \in files
      BY <3>1, <1>1 DEF FilesInv, StaleHere
    <3> QED BY <2>3, <3>1, <3>2, <1>1
  <2>4. CASE s \notin W
    <3>1. s \notin stale /\ Has(s)
      BY <2>4, <1>1
    <3>2. "mcs" \notin W
      <4>1. ASSUME "mcs" \in W PROVE FALSE
        <5>1. W = {"mcs"}
          BY <4>1, <1>2 DEF Ordered
        <5>2. "mcs" \notin Downstream(W)
          BY <5>1, <1>3
        <5> QED BY <4>1, <5>2, <3>1, <2>1, <1>1
      <4> QED BY <4>1
    <3>3. "mcs" \in stale
      <4>1. ASSUME "mcs" \in Downstream(W) PROVE FALSE
        <5>1. FlashesApp /\ s = "boot" /\ ("elf" \in W \/ "xsa" \in W)
          BY <4>1, <2>2, <2>4, <1>3
        <5>2. "boot" \in stale'
          BY <5>1, <3>1, <1>1, <1>3 DEF Has
        <5> QED BY <5>1, <5>2
      <4> QED BY <4>1, <3>2, <1>1
    <3> QED BY <3>1, <3>2, <3>3, <2>4, <1>1 DEF FilesInv, McsTold
  <2> QED BY <2>3, <2>4
<1>11. ASSUME NEW z \in Shipped PROVE ZipTold(z)'
  <2> SUFFICES ASSUME z \in stale', ZipSources(z)' # {}, ZipSources(z)' \subseteq files' \ stale',
                      _zip_current(z)'
               PROVE  FALSE
    BY DEF ZipTold
  <2>1. z \in {"bare_zip", "yocto_zip", "bit_zip"} /\ (z = "bit_zip" => ~FlashesApp)
    BY ShippedOf
  <2>2. ZipSources(z)' = Inputs(z) \cap files'
    <3>1. z \in Shipped'
      BY <1>5
    <3>2. GathersOwn'
      BY GathersInputs, PTL
    <3>3. ZipSources(z)' = Inputs(z)' \cap files'
      BY <3>1, <3>2 DEF GathersOwn
    <3>4. Inputs(z)' = Inputs(z)
      BY <2>1, <1>5 DEF Inputs
    <3> QED BY <3>3, <3>4
  <2>3. \A s \in Inputs(z) \cap files' : s \notin stale' /\ Newer(z, s)'
    BY <2>2 DEF _zip_current
  <2>4. (Inputs(z) \cap stale) \ W = {}
    BY <2>3, <1>1, <1>4 DEF FilesInv, StaleHere
  <2>5. z \notin W
    <3>1. ASSUME z \in W PROVE FALSE
      <4>1. W = {z}
        BY <3>1, <1>2, <2>1 DEF Ordered, Zips
      <4>2. z \notin Downstream(W) /\ z \notin Inputs(z)
        BY <4>1, <2>1, <1>3, InputsOf, BootOrBit
      <4> QED BY <2>4, <3>1, <4>1, <4>2, <1>1
    <3> QED BY <3>1
  <2>6. z \in files
    BY <2>5, <1>1 DEF FilesInv, StaleHere
  <2>7. Inputs(z) \cap W = {}
    <3>1. ASSUME NEW s \in Inputs(z) \cap W PROVE FALSE
      <4>1. s \in files' /\ ~Newer(z, s)'
        BY <2>5, <2>6, <1>1, <1>4
      <4> QED BY <4>1, <2>3
    <3> QED BY <3>1
  <2>8. ZipSources(z)' = Inputs(z) \cap files /\ ZipSources(z) = ZipSources(z)'
    <3>1. Inputs(z) \cap files' = Inputs(z) \cap files
      BY <2>7, <1>4
    <3>2. CASE z = "bare_zip"
      <4>1. ZipSources(z)' = IF Has("boot")' THEN vit_boot \cap files' ELSE {}
        BY <3>2, <1>5 DEF ZipSources
      <4>2. ZipSources(z) = IF Has("boot") THEN vit_boot \cap files ELSE {}
        BY <3>2 DEF ZipSources
      <4>3. "boot" \notin W
        BY <3>2, <2>7, InputsOf, BootOrBit
      <4> QED BY <4>1, <4>2, <4>3, <3>1, <3>2, <2>2, <1>1, InputsOf
    <3>3. CASE z = "yocto_zip"
      BY <3>1, <3>3, <2>2 DEF ZipSources
    <3>4. CASE z = "bit_zip"
      <4>1. ZipSources(z)' = {"bit"} \cup ({"mcs"} \cap files') /\ ZipSources(z) = {"bit"} \cup ({"mcs"} \cap files)
        BY <3>4 DEF ZipSources
      <4> QED BY <4>1, <3>1, <3>4, <2>2, <2>7, <1>4, InputsOf
    <3> QED BY <3>1, <3>2, <3>3, <3>4, <2>1, <2>2
  <2>9. z \in stale
    <3>1. ASSUME z \in Downstream(W) PROVE FALSE
      <4>1. z = "bare_zip" /\ ("elf" \in W \/ "xsa" \in W)
        BY <3>1, <2>1, <2>7, <1>3, InputsOf
      <4>2. "boot" \in Inputs(z) /\ Has("boot")
        <5>1. ZipSources(z) # {}
          BY <2>8
        <5>2. Has("boot")
          BY <4>1, <5>1 DEF ZipSources
        <5> QED BY <4>1, <5>2, InputsOf, BootOrBit
      <4>3. "boot" \in stale'
        BY <4>1, <4>2, <1>1, <1>3 DEF Has
      <4> QED BY <4>2, <4>3, <2>3, <1>4 DEF Has
    <3> QED BY <3>1, <2>5, <1>1
  <2>10. ZipSources(z) \subseteq files \ stale
    BY <2>4, <2>7, <2>8
  <2>11. \A s \in ZipSources(z) : Newer(z, s)
    BY <2>3, <2>5, <2>7, <2>8, <1>1, <1>4
  <2>12. _zip_current(z)
    BY <2>6, <2>11 DEF _zip_current, Has
  <2> QED BY <2>8, <2>9, <2>10, <2>12 DEF FilesInv, ZipTold
<1> QED BY <1>5, <1>6, <1>7, <1>8, <1>9, <1>10, <1>11 DEF FilesInv

-----------------------------------------------------------------------------
(* The paths written together                                               *)

\* The inputs of what is shipped do not leave one by one.
Together(S) ==
    /\ "bit" \in S => "xsa" \in S
    /\ "ws" \in S => "elf" \in S
    /\ "mcs" \in S => (FlashesApp /\ "boot" \in S) \/ (~FlashesApp /\ "bit" \in S)

LEMMA RemovesFiles ==
    ASSUME FilesInv, design' = design, NEW S, Removes(S), Together(S) PROVE FilesInv'
<1>1. /\ files' = files \ S /\ stale' = stale \ S
      /\ \A w : Has(w)' <=> Has(w) /\ w \notin S
      /\ \A u, w : Newer(u, w)' <=> Newer(u, w) /\ u \notin S /\ w \notin S
  BY DropsOthers DEF Removes, Drops
<1>2. /\ cfgmem_src' = cfgmem_src /\ vit_boot' = vit_boot /\ Shipped' = Shipped
      /\ FlashesApp' = FlashesApp
  BY DEF cfgmem_src, vit_boot, Shipped, FlashesApp, has_software_flow
<1>3. StaleHere' /\ XsaHasBit' /\ ElfHasWs' /\ McsIsOfDesign'
  BY <1>1 DEF FilesInv, StaleHere, XsaHasBit, ElfHasWs, McsIsOfDesign, Together
<1>4. ElfTold'
  <2> SUFFICES ASSUME "elf" \in stale', Has("xsa")' PROVE Newer("xsa", "ws")'
    BY DEF ElfTold
  <2>1. "elf" \in stale /\ "elf" \notin S /\ Has("xsa") /\ "xsa" \notin S /\ "ws" \notin S
    BY <1>1 DEF Together
  <2> QED BY <1>1, <2>1 DEF FilesInv, ElfTold
<1>5. BootTold'
  <2>1. ("boot" \in stale' => "boot" \in stale)
        /\ (Has("elf")' /\ "elf" \notin stale' => Has("elf") /\ "elf" \notin stale)
        /\ (Has("xsa")' => Has("xsa"))
    BY <1>1
  <2>2. (Newer("boot", "elf")' => Newer("boot", "elf")) /\ (Newer("boot", "xsa")' => Newer("boot", "xsa"))
    BY <1>1
  <2> QED BY <2>1, <2>2 DEF FilesInv, BootTold
<1>6. McsTold'
  <2> SUFFICES ASSUME NEW s \in {"boot", "bit"}, s = cfgmem_src,
                      "mcs" \in stale', Has(s)', s \notin stale'
               PROVE  ~Newer("mcs", s)'
    BY <1>2, BootOrBit DEF McsTold, Has, Newer
  <2>1. "mcs" \in stale /\ Has(s) /\ s \notin stale
    BY <1>1
  <2> QED BY <1>1, <2>1 DEF FilesInv, McsTold
<1>7. ASSUME NEW z \in Shipped PROVE ZipTold(z)'
  <2> SUFFICES ASSUME z \in stale', ZipSources(z)' # {}, ZipSources(z)' \subseteq files' \ stale',
                      _zip_current(z)'
               PROVE  FALSE
    BY DEF ZipTold
  <2>1. z \in {"bare_zip", "yocto_zip", "bit_zip"} /\ (z = "bit_zip" => ~FlashesApp)
    BY ShippedOf
  <2>2. ZipSources(z) = ZipSources(z)'
    <3>1. CASE z = "bare_zip"
      <4>1. ZipSources(z)' = IF Has("boot")' THEN vit_boot \cap files' ELSE {}
        BY <3>1, <1>2 DEF ZipSources
      <4>2. ZipSources(z) = IF Has("boot") THEN vit_boot \cap files ELSE {}
        BY <3>1 DEF ZipSources
      <4>3. Has("boot")' /\ "boot" \notin S /\ Has("boot")
        BY <4>1, <1>1
      <4>4. vit_boot \cap S = {}
        BY <4>3, BootOrBit DEF Together
      <4> QED BY <1>1, <4>1, <4>2, <4>3, <4>4
    <3>2. CASE z = "yocto_zip"
      BY <3>2 DEF ZipSources
    <3>3. CASE z = "bit_zip"
      <4>1. /\ ZipSources(z)' = {"bit"} \cup ({"mcs"} \cap files')
            /\ ZipSources(z) = {"bit"} \cup ({"mcs"} \cap files)
        BY <3>3 DEF ZipSources
      <4>2. "bit" \notin S /\ "mcs" \notin S
        BY <4>1, <3>3, <2>1, <1>1 DEF Together
      <4> QED BY <1>1, <4>1, <4>2
    <3> QED BY <2>1, <3>1, <3>2, <3>3
  <2>3. z \in stale /\ ZipSources(z) # {} /\ ZipSources(z) \subseteq files \ stale
    BY <1>1, <2>2
  <2>4. _zip_current(z)
    <3>1. Has(z)' /\ \A s \in ZipSources(z) : Newer(z, s)'
      BY <2>2 DEF _zip_current
    <3> QED BY <1>1, <3>1 DEF _zip_current
  <2> QED BY <2>3, <2>4 DEF FilesInv, ZipTold
<1> QED BY <1>2, <1>3, <1>4, <1>5, <1>6, <1>7 DEF FilesInv

\* The configuration of Yocto is made from nothing that is shipped.
LEMMA ConfFiles ==
    ASSUME FilesInv, design' = design, stale' = stale,
           \A w : w # "conf" => (w \in files' <=> w \in files),
           \A u, w : u # "conf" /\ w # "conf" => (Newer(u, w)' <=> Newer(u, w))
    PROVE  FilesInv'
<1>1. /\ cfgmem_src' = cfgmem_src /\ vit_boot' = vit_boot /\ Shipped' = Shipped
  BY DEF cfgmem_src, vit_boot, Shipped, FlashesApp, has_software_flow
<1>2. \A w : w # "conf" => (Has(w)' <=> Has(w))
  BY DEF Has
<1>3. StaleHere' /\ XsaHasBit' /\ ElfHasWs' /\ McsIsOfDesign'
  BY <1>2 DEF FilesInv, StaleHere, XsaHasBit, ElfHasWs, McsIsOfDesign
<1>4. ElfTold' /\ BootTold'
  BY <1>2 DEF FilesInv, ElfTold, BootTold
<1>5. McsTold'
  <2> SUFFICES ASSUME NEW s \in {"boot", "bit"}, s = cfgmem_src,
                      "mcs" \in stale', Has(s)', s \notin stale'
               PROVE  ~Newer("mcs", s)'
    BY <1>1, BootOrBit DEF McsTold, Has, Newer
  <2> QED BY <1>2 DEF FilesInv, McsTold
<1>6. ASSUME NEW z \in Shipped PROVE ZipTold(z)'
  <2>1. z \in {"bare_zip", "yocto_zip", "bit_zip"}
    BY ShippedOf
  <2>2. ZipSources(z)' = ZipSources(z) /\ "conf" \notin ZipSources(z)
    BY <1>1, <1>2, <2>1, BootOrBit DEF ZipSources
  <2>3. _zip_current(z)' => _zip_current(z)
    BY <1>2, <2>1, <2>2 DEF _zip_current, Has
  <2>4. ZipSources(z) \subseteq files' => ZipSources(z) \subseteq files
    BY <2>2
  <2> QED BY <2>2, <2>3, <2>4 DEF FilesInv, ZipTold
<1> QED BY <1>1, <1>3, <1>4, <1>5, <1>6 DEF FilesInv

LEMMA SameFiles ==
    ASSUME FilesInv, design' = design, UNCHANGED fvars PROVE FilesInv'
BY ConfFiles DEF fvars, Newer

LEMMA FilesBegin == Init => FilesInv
<1> SUFFICES ASSUME Init PROVE FilesInv
  OBVIOUS
<1>1. stale = {} /\ files \subseteq {"conf"}
  BY DEF Init, InitFiles, InitYocto
<1> QED BY <1>1 DEF FilesInv, StaleHere, XsaHasBit, ElfHasWs, McsIsOfDesign, ElfTold, BootTold,
        McsTold, ZipTold, Has

\* The cleans take what belongs together.
LEMMA CleanTogether ==
    ASSUME RunOK, NEW scope \in Scopes
    PROVE  /\ Together(clean_paths(scope))
           /\ "ws" \in clean_paths(scope) => "boot" \in clean_paths(scope)
<1>1. Elems(Cores) \cap {"bit", "xsa", "ws", "elf", "boot", "mcs"} = {}
  BY CoreNames DEF TargetFiles
<1>2. ip_output_paths \cap {"bit", "xsa", "ws", "elf", "boot", "mcs"} = {}
  <2>1. design.ip \in {"none", "cores", "board"}
    BY DesignsAssumption DEF DesignsAssumption, RunOK
  <2> QED BY <1>1, <2>1 DEF ip_output_paths
<1>3. /\ viv_prj \cap {"ws", "elf", "boot"} = {} /\ {"bit", "xsa"} \subseteq viv_prj
      /\ ("mcs" \in viv_prj <=> ~FlashesApp)
      /\ vit_boot \cap {"bit", "xsa", "ws", "elf"} = {} /\ "boot" \in vit_boot
      /\ ("mcs" \in vit_boot <=> FlashesApp)
  BY DEF viv_prj, vit_boot
<1>4. /\ Zips \cap {"bit", "xsa", "ws", "elf", "boot", "mcs"} = {}
      /\ ywork \cap {"bit", "xsa", "ws", "elf", "boot", "mcs"} = {}
  BY DEF Zips, ywork
<1>5. CASE scope = "all"
  BY <1>2, <1>3, <1>4, <1>5 DEF clean_paths, Together
<1>6. CASE scope # "all"
  BY <1>2, <1>3, <1>4, <1>6 DEF clean_paths, Together, Scopes
<1> QED BY <1>5, <1>6

LEMMA DiscardedTogether == \A x : Together(Discarded(x))
BY DEF Discarded, Together

LEMMA PlanTogether ==
    ASSUME PlanOK, KeepBoot \/ KeepBootKilled
    PROVE  \E S : Removes(S) /\ Together(S) /\ S \subseteq plan \cup {"elf"}
<1> PICK S : Removes(S) /\ S \subseteq plan \cup {"elf"} /\ ("ws" \in S => "elf" \in S)
  BY KeepBootRemoves DEF RemovePaths
<1>1. Elems(Cores) \cap {"bit", "xsa", "ws", "elf", "boot", "mcs"} = {}
  BY CoreNames DEF TargetFiles
<1>2. Together(S)
  BY <1>1 DEF PlanOK, Together
<1> QED BY <1>2

-----------------------------------------------------------------------------
(* What is still to be done of a run, and what is done                      *)

\* What is behind the head of the stack.
Rest == Elems(Tail(run.todo))

\* The run goes on with the entries of T in place of its head h.
Turns(h, T) ==
    /\ h \in Entries /\ T \subseteq Entries /\ Rest \subseteq Entries
    /\ \A e : Pending(e) <=> e = h \/ e \in Rest
    /\ \A e : Pending(e)' <=> e \in T \/ e \in Rest
    /\ \A e \in Rest : Before(h, e)
    /\ run'.cmd = run.cmd /\ run'.calm = run.calm
    /\ design' = design

LEMMA GoesOnTurns ==
    ASSUME RunOK, run.todo # <<>>, NEW t, GoesOn(t), design' = design
    PROVE  Turns(Head(run.todo), Elems(t))
<1>1. /\ Head(run.todo) \in Entries /\ Tail(run.todo) \in Stack
      /\ Elems(run.todo) = {Head(run.todo)} \cup Rest
      /\ \A e \in Rest : Before(Head(run.todo), e)
  BY HeadAndTail DEF RunOK, Rest
<1>2. Elems(run.todo)' = Elems(t) \cup Rest
  BY DEF GoesOn, Rest
<1>3. Rest \subseteq Entries /\ Elems(t) \subseteq Entries
  BY <1>1, ElemsOf DEF GoesOn, Stack, Rest
<1>4. \A e : Pending(e) <=> e = Head(run.todo) \/ e \in Rest
  BY <1>1 DEF Pending
<1>5. \A e : Pending(e)' <=> e \in Elems(t) \/ e \in Rest
  BY <1>2 DEF Pending
<1> QED BY <1>1, <1>3, <1>4, <1>5 DEF Turns, GoesOn

LEMMA ToolTurns ==
    ASSUME RunOK, run.todo # <<>>, ToolDone, design' = design PROVE Turns(Head(run.todo), {})
BY ToolDoneGoesOnEmpty, GoesOnTurns, None

\* The ranks of the entries the facts below speak of.
LEMMA RankOfNamed ==
    /\ Rank(Stage("xsa")) = 0 /\ Rank(Tool("xsa")) = 0
    /\ Rank(Stage("workspace")) = 1 /\ Rank(Tool("ws")) = 1
    /\ Rank(Stage("standalone")) = 2 /\ Rank(Stage("boot")) = 2 /\ Rank(Tool("boot")) = 2
    /\ Rank(Stage("cfgmem")) = 3 /\ Rank(Stage("flash")) = 3 /\ Rank(Tool("mcs")) = 3
    /\ Rank(Stage("package")) = 10 /\ \A z \in Zips : Rank(Stage(z)) = 10 /\ Rank(Tool(z)) = 10
BY RankInGroup DEF XsaSteps, WsSteps, BootSteps, FlashSteps, PackageSteps

AppSteps == {Stage("boot"), Tool("boot")}

LEMMA AppStepsApart ==
    /\ AppSteps \subseteq BootSteps /\ Stage("standalone") \in BootSteps
    /\ Stage("standalone") \notin AppSteps
    /\ Stage("boot") # Tool("boot") /\ Stage("workspace") # Tool("ws")
BY DEF AppSteps, BootSteps, Stage, Tool

\* A workspace is made where there is none, and before its boot file.
WsOnce == Pending(Tool("ws")) => ~Has("ws")
WsNeeded ==
    /\ Pending(Tool("ws")) \/ (Pending(Stage("workspace")) /\ ~Has("ws"))
    /\ Has("boot") /\ Has("xsa")
    => ~Newer("boot", "xsa")
BootOfElf ==
    (\E e \in AppSteps : Pending(e)) /\ (\A e \in WsSteps : ~Pending(e)) => "elf" \notin stale
WsBeforeBoot == (\E e \in WsSteps : Pending(e)) => Pending(Stage("boot"))
XsaIsDone ==
    \A d \in WsSteps \cup AppSteps : Pending(d) => \A e \in Entries : Pending(e) => Rank(e) # 0
FlashIsOfDesign == Pending(Stage("flash")) \/ Pending(Tool("mcs")) => design.cfgmem

TodoInv == WsOnce /\ WsNeeded /\ BootOfElf /\ WsBeforeBoot /\ XsaIsDone /\ FlashIsOfDesign

\* Nothing of the application is pending, and nothing new of the flash.
LEMMA NoAppTodo ==
    ASSUME \A e \in WsSteps \cup AppSteps : ~Pending(e)',
           Pending(Stage("flash"))' \/ Pending(Tool("mcs"))' => design'.cfgmem
    PROVE  TodoInv'
BY DEF TodoInv, WsOnce, WsNeeded, BootOfElf, WsBeforeBoot, XsaIsDone, FlashIsOfDesign, WsSteps

LEMMA EmptyTodo == ASSUME run'.todo = <<>> PROVE TodoInv'
<1>1. \A e : ~Pending(e)'
  <2>1. Elems(run.todo)' = Elems(run'.todo)
    BY DEF Elems
  <2> QED BY <2>1, None DEF Pending
<1> QED BY <1>1, NoAppTodo

\* Nothing changes but files that do not matter here, or files that go.
LEMMA SameTodoInv ==
    ASSUME TodoInv, design' = design, \A e : Pending(e)' <=> Pending(e),
           Has("ws")' => Has("ws"), Has("boot")' => Has("boot"), Has("xsa")' => Has("xsa"),
           Newer("boot", "xsa")' => Newer("boot", "xsa"),
           Has("ws") /\ ~Has("ws")' => ~Has("boot")',
           "elf" \in stale' => "elf" \in stale
    PROVE  TodoInv'
<1>1. WsOnce' /\ WsNeeded'
  BY DEF TodoInv, WsOnce, WsNeeded
<1>2. BootOfElf' /\ WsBeforeBoot'
  BY DEF TodoInv, BootOfElf, WsBeforeBoot
<1>3. XsaIsDone' /\ FlashIsOfDesign'
  BY DEF TodoInv, XsaIsDone, FlashIsOfDesign
<1> QED BY <1>1, <1>2, <1>3 DEF TodoInv

\* A step at h that pushes T, in front of or behind the application.
LEMMA AsideTodo ==
    ASSUME TodoInv, NEW h, NEW T, Turns(h, T), T \cap (WsSteps \cup AppSteps) = {},
           Rank(h) \in {0, 3, 4, 5, 6, 7, 8, 9, 10},
           Stage("flash") \in T \/ Tool("mcs") \in T => design.cfgmem
    PROVE  TodoInv'
<1>1. \A e \in WsSteps \cup AppSteps : ~Pending(e)'
  <2> SUFFICES ASSUME NEW e \in WsSteps \cup AppSteps, e \in Rest PROVE FALSE
    BY DEF Turns
  <2>1. Rank(e) \in {1, 2} /\ Pending(e) /\ Pending(h) /\ h \in Entries
    BY RankInGroup, AppStepsApart DEF Turns
  <2>2. Before(h, e)
    BY DEF Turns
  <2>3. Rank(h) = 0
    BY <2>1, <2>2 DEF Before
  <2> QED BY <2>1, <2>3 DEF TodoInv, XsaIsDone
<1>2. Pending(Stage("flash"))' \/ Pending(Tool("mcs"))' => design'.cfgmem
  BY DEF Turns, TodoInv, FlashIsOfDesign
<1> QED BY <1>1, <1>2, NoAppTodo

\* At a step of the application all in front of it is done.
LEMMA AtApp ==
    ASSUME NEW h, NEW T, Turns(h, T), Rank(h) \in {1, 2}
    PROVE  /\ \A e \in Rest : Rank(h) < Rank(e)
           /\ \A e \in Entries : Pending(e) => Rank(h) <= Rank(e)
           /\ h \notin Rest
<1>1. \A e \in Rest : Rank(h) < Rank(e)
  BY RankType DEF Turns, Before
<1>2. h \in Entries /\ Rest \subseteq Entries /\ \A e : Pending(e) <=> e = h \/ e \in Rest
  BY DEF Turns
<1>3. h \notin Rest
  BY <1>1, <1>2, RankType
<1>4. \A e \in Entries : Pending(e) => Rank(h) <= Rank(e)
  BY <1>1, <1>2, RankType
<1> QED BY <1>1, <1>3, <1>4

LEMMA StandaloneTodo ==
    ASSUME TodoInv, NEW T, Turns(Stage("standalone"), T),
           Has("ws")' <=> Has("ws"), Has("boot")' <=> Has("boot"), Has("xsa")' <=> Has("xsa"),
           Newer("boot", "xsa")' <=> Newer("boot", "xsa"),
           \/ T = {}
           \/ /\ T = {Stage("workspace"), Stage("boot")}
              /\ Has("boot") /\ ~Has("ws") /\ Has("xsa") => ~Newer("boot", "xsa")
    PROVE  TodoInv'
<1> DEFINE h == Stage("standalone")
<1>1. /\ \A e \in Rest : 2 < Rank(e)
      /\ \A e \in WsSteps \cup AppSteps : e \notin Rest
  <2>1. \A e \in Rest : 2 < Rank(e)
    BY RankOfNamed, AtApp
  <2> QED BY <2>1, RankInGroup, AppStepsApart
<1>2. CASE T = {}
  <2>1. \A e \in WsSteps \cup AppSteps : ~Pending(e)'
    BY <1>1, <1>2 DEF Turns
  <2>2. Pending(Stage("flash"))' \/ Pending(Tool("mcs"))' => design'.cfgmem
    BY <1>2 DEF Turns, TodoInv, FlashIsOfDesign
  <2> QED BY <2>1, <2>2, NoAppTodo
<1>3. CASE /\ T = {Stage("workspace"), Stage("boot")}
           /\ Has("boot") /\ ~Has("ws") /\ Has("xsa") => ~Newer("boot", "xsa")
  <2>1. ~Pending(Tool("ws"))' /\ Pending(Stage("workspace"))' /\ Pending(Stage("boot"))'
    BY <1>1, <1>3 DEF Turns, WsSteps, Stage, Tool
  <2>2. WsOnce' /\ WsNeeded' /\ BootOfElf' /\ WsBeforeBoot'
    BY <1>3, <2>1 DEF WsOnce, WsNeeded, BootOfElf, WsBeforeBoot, WsSteps
  <2>3. XsaIsDone'
    <3>1. \A e \in Entries : Pending(e)' => Rank(e) # 0
      BY <1>1, <1>3, RankOfNamed DEF Turns
    <3> QED BY <3>1 DEF XsaIsDone
  <2>4. FlashIsOfDesign'
    <3>1. Stage("flash") \notin T /\ Tool("mcs") \notin T
      BY <1>3, RankOfNamed
    <3> QED BY <3>1 DEF FlashIsOfDesign, Turns, TodoInv
  <2> QED BY <2>2, <2>3, <2>4 DEF TodoInv
<1> QED BY <1>2, <1>3

\* The workspace is built, or is that of the present XSA.
LEMMA WorkspaceTodo ==
    ASSUME TodoInv, NEW T, Turns(Stage("workspace"), T),
           Has("ws")' <=> Has("ws"), Has("boot")' <=> Has("boot"), Has("xsa")' <=> Has("xsa"),
           Newer("boot", "xsa")' <=> Newer("boot", "xsa"), stale' = stale,
           \/ T = {} /\ "elf" \notin stale
           \/ T = {Tool("ws")} /\ ~Has("ws")
    PROVE  TodoInv'
<1>1. /\ \A e \in Rest : 1 < Rank(e)
      /\ \A e \in WsSteps : e \notin Rest
  <2>1. \A e \in Rest : 1 < Rank(e)
    BY RankOfNamed, AtApp
  <2> QED BY <2>1, RankInGroup
<1>2. Pending(Stage("workspace")) /\ Stage("workspace") # Stage("boot")
      /\ Stage("workspace") # Tool("ws") /\ {Stage("workspace"), Tool("ws")} = WsSteps
  BY RankOfNamed DEF Turns, WsSteps, Stage, Tool
<1>3. Pending(Stage("boot"))'
  BY <1>2 DEF Turns, TodoInv, WsBeforeBoot
<1>4. ~Pending(Stage("workspace"))'
  BY <1>1, <1>2 DEF Turns
<1>5. WsOnce' /\ WsNeeded'
  BY <1>1, <1>2, <1>4 DEF Turns, TodoInv, WsOnce, WsNeeded
<1>6. BootOfElf'
  BY <1>2 DEF BootOfElf, Turns
<1>7. WsBeforeBoot'
  BY <1>3 DEF WsBeforeBoot
<1>8. XsaIsDone'
  <2>1. \A e \in Entries : Pending(e)' => Rank(e) # 0
    BY <1>1, RankOfNamed DEF Turns
  <2> QED BY <2>1 DEF XsaIsDone
<1>9. FlashIsOfDesign'
  <2>1. Stage("flash") \notin T /\ Tool("mcs") \notin T
    BY RankOfNamed
  <2> QED BY <2>1 DEF FlashIsOfDesign, Turns, TodoInv
<1> QED BY <1>5, <1>6, <1>7, <1>8, <1>9 DEF TodoInv

LEMMA WsToolTodo ==
    ASSUME TodoInv, Turns(Tool("ws"), {}), "elf" \notin stale' PROVE TodoInv'
<1>1. \A e \in Rest : 1 < Rank(e)
  BY RankOfNamed, AtApp
<1>2. \A e \in WsSteps : ~Pending(e)'
  BY <1>1, RankInGroup DEF Turns
<1>3. WsOnce' /\ WsNeeded' /\ BootOfElf' /\ WsBeforeBoot'
  BY <1>2 DEF WsOnce, WsNeeded, BootOfElf, WsBeforeBoot, WsSteps
<1>4. XsaIsDone' /\ FlashIsOfDesign'
  <2>1. \A e : Pending(e)' => Pending(e)
    BY DEF Turns
  <2> QED BY <2>1 DEF Turns, TodoInv, XsaIsDone, FlashIsOfDesign
<1> QED BY <1>3, <1>4 DEF TodoInv

LEMMA BootTodo ==
    ASSUME TodoInv, NEW h \in AppSteps, NEW T, Turns(h, T), T \subseteq {Tool("boot")},
           h = Stage("boot") => stale' = stale,
           h = Tool("boot") => T = {}
    PROVE  TodoInv'
<1>1. \A e \in Rest : 2 < Rank(e)
  BY RankOfNamed, AtApp DEF AppSteps
<1>2. \A e \in WsSteps : ~Pending(e)' /\ ~Pending(e)
  BY <1>1, RankInGroup, RankOfNamed DEF Turns, AppSteps
<1>3. WsOnce' /\ WsNeeded' /\ WsBeforeBoot'
  BY <1>2 DEF WsOnce, WsNeeded, WsBeforeBoot, WsSteps
<1>4. BootOfElf'
  <2>1. CASE h = Stage("boot")
    BY <2>1, <1>2 DEF TodoInv, BootOfElf, Turns
  <2>2. CASE h = Tool("boot")
    BY <2>2, <1>1, RankOfNamed DEF BootOfElf, AppSteps, Turns
  <2> QED BY <2>1, <2>2 DEF AppSteps
<1>5. XsaIsDone'
  <2>1. \A e \in Entries : Pending(e)' => Rank(e) # 0
    BY <1>1, RankOfNamed DEF Turns
  <2> QED BY <2>1 DEF XsaIsDone
<1>6. FlashIsOfDesign'
  <2>1. Stage("flash") \notin T /\ Tool("mcs") \notin T
    BY RankOfNamed
  <2> QED BY <2>1 DEF FlashIsOfDesign, Turns, TodoInv
<1> QED BY <1>3, <1>4, <1>5, <1>6 DEF TodoInv

-----------------------------------------------------------------------------
(* What a stage puts in its place                                           *)

\* The entries a stage comes to, if it does not fail.
Steps(r) == Elems(r.todo)

LEMMA DoesSteps ==
    /\ \A t : Does(t).ok /\ Steps(Does(t)) = Elems(t)
    /\ Skipped.ok /\ Steps(Skipped) = {} /\ ~Fails.ok
BY None DEF Does, Skipped, Fails, Steps

LEMMA CatSteps ==
    \A s, t \in Seq(Entries) : s \o t \in Seq(Entries) /\ Elems(s \o t) = Elems(s) \cup Elems(t)
BY ElemsCat

LEMMA IfSteps ==
    \A b, s : Stage(s) \in Entries =>
        If(b, s) \in Seq(Entries) /\ Elems(If(b, s)) = IF b THEN {Stage(s)} ELSE {}
BY One, None DEF If, Stack

LEMMA StageTurns ==
    ASSUME RunOK, design' = design, NEW s \in StageNames, At(Stage(s)), Returns(STAGE_FUNCS(s))
    PROVE  run' = Idle \/ (STAGE_FUNCS(s).ok /\ Turns(Stage(s), Steps(STAGE_FUNCS(s))))
<1> DEFINE r == STAGE_FUNCS(s)
<1>1. Expands(s, r) /\ Returns(r)
  BY StageExpands DEF RunOK
<1>2. run.todo # <<>> /\ Head(run.todo) = Stage(s)
  BY DEF At
<1> HIDE DEF r
<1>3. r.ok => r.todo \in Stack /\ \A e \in Elems(r.todo) : Rank(e) <= Rank(Head(run.todo))
  BY <1>1, <1>2 DEF Expands
<1>4. (run' = Idle /\ ~r.ok) \/ (GoesOn(r.todo) /\ r.ok)
  BY <1>1, <1>2, <1>3, ReturnsGoesOn
<1>5. GoesOn(r.todo) => Turns(Stage(s), Steps(r))
  BY <1>2, GoesOnTurns DEF Steps
<1> QED BY <1>4, <1>5 DEF r

LEMMA CoreTurns ==
    ASSUME RunOK, design' = design, NEW c \in Elems(Cores), At(Core(c)), Returns(stage_core(c))
    PROVE  \E T : Turns(Core(c), T) /\ T \subseteq {Tool(c)}
<1> DEFINE r == stage_core(c)
<1>1. r.ok /\ r.todo \in {<<>>, <<Tool(c)>>} /\ Returns(r)
  BY CoreExpands
<1>2. run.todo # <<>> /\ Head(run.todo) = Core(c)
  BY DEF At
<1> HIDE DEF r
<1>3. r.todo \in Stack /\ Elems(r.todo) \subseteq {Tool(c)}
  BY <1>1, CoreStepsOK, One, None, Groups
<1>4. \A e \in Elems(r.todo) : Rank(e) <= Rank(Head(run.todo))
  BY <1>2, <1>3, CoreStepsOK
<1>5. GoesOn(r.todo)
  BY <1>1, <1>2, <1>3, <1>4, ReturnsGoesOn
<1> QED BY <1>2, <1>3, <1>5, GoesOnTurns

\* The names of the stages that a stage calls.
LEMMA NamedEntries ==
    /\ Stage("xsa") \in Entries /\ Stage("standalone") \in Entries /\ Stage("cfgmem") \in Entries
    /\ Stage("flash") \in Entries /\ Stage("petalinux") \in Entries /\ Stage("yocto") \in Entries
    /\ Stage("package") \in Entries /\ \A z \in Zips : Stage(z) \in Entries
BY DEF Entries, XsaSteps, BootSteps, FlashSteps, PetalinuxSteps, PackageSteps

\* The IP, the project and the XSA.
LEMMA XsaStagesDo ==
    /\ design \in Designs => Steps(stage_ip) \subseteq XsaSteps \ {Stage("xsa"), Tool("xsa")}
    /\ Steps(stage_project) \subseteq XsaSteps \ {Stage("xsa"), Tool("xsa")}
    /\ Steps(stage_xsa) = IF Has("xsa") THEN {} ELSE {Stage("project"), Tool("xsa")}
    /\ stage_xsa.ok
<1> DEFINE own == XsaSteps \ {Stage("xsa"), Tool("xsa")}
<1>1. /\ {Stage("ip"), Stage("project"), Tool("ip_done"), Tool("xpr")} \subseteq own
      /\ \A c \in Elems(Cores) : Core(c) \in own /\ Tool(c) \in own
  BY CoreNames DEF XsaSteps, TargetFiles, Stage, Tool, Core
<1> HIDE DEF own
<1>2. design \in Designs => Steps(stage_ip) \subseteq own
  <2>1. [i \in DOMAIN Cores |-> Core(Cores[i])] \in Seq(own)
    <3>1. \A i \in DOMAIN Cores : Core(Cores[i]) \in own
      BY <1>1 DEF Elems
    <3> QED BY <3>1, CoresAssumption DEF CoresAssumption
  <2>2. Tools(Cores) \in Seq(own)
    <3>1. \A i \in DOMAIN Cores : Tool(Cores[i]) \in own
      BY <1>1 DEF Elems
    <3> QED BY <3>1, CoresAssumption DEF CoresAssumption, Tools
  <2>3. Tools(Cores) \o <<Tool("ip_done")>> \in Seq(own)
    BY <1>1, <2>2
  <2>4. design \in Designs => design.ip \in {"none", "cores", "board"}
    BY DesignsAssumption DEF DesignsAssumption
  <2>5. \A s \in Seq(own) : Elems(s) \subseteq own
    BY ElemsOf
  <2> QED BY <2>1, <2>3, <2>4, <2>5, DoesSteps DEF stage_ip
<1>3. Steps(stage_project) \subseteq own
  BY <1>1, ElemsOfTwo, DoesSteps DEF stage_project
<1>4. Steps(stage_xsa) = IF Has("xsa") THEN {} ELSE {Stage("project"), Tool("xsa")}
  BY ElemsOfTwo, DoesSteps DEF stage_xsa
<1> QED BY <1>2, <1>3, <1>4, DoesSteps DEF own, stage_xsa

\* The application and the flash image.
LEMMA AppStagesDo ==
    /\ stage_bootfile.ok
    /\ Steps(stage_bootfile) =
        IF ~design.baremetal \/ (Has("boot") /\ ~Has("ws") /\ (Has("xsa") => Newer("boot", "xsa")))
        THEN {} ELSE {Stage("workspace"), Stage("boot")}
    /\ Steps(stage_workspace) = IF Has("ws") THEN Steps(stage_workspace) ELSE {Tool("ws")}
    /\ stage_workspace.ok /\ Has("ws") =>
        Has("xsa") /\ ~Newer("xsa", "ws") /\ Has("elf") /\ Steps(stage_workspace) = {}
    /\ Steps(stage_boot) =
        IF Has("boot") /\ Has("elf") /\ Newer("boot", "elf") THEN {} ELSE {Tool("boot")}
    /\ Steps(stage_cfgmem) =
        IF ~design.cfgmem THEN {}
        ELSE {Stage("xsa"), Stage("flash")} \cup IF FlashesApp THEN {Stage("standalone")} ELSE {}
    /\ stage_flash.ok =>
        /\ Has(cfgmem_src)
        /\ Steps(stage_flash) =
            IF Has("mcs") /\ Newer("mcs", cfgmem_src) THEN {} ELSE {Tool("mcs")}
<1>1. /\ stage_bootfile.ok
      /\ Steps(stage_bootfile) =
            IF ~design.baremetal \/ (Has("boot") /\ ~Has("ws") /\ (Has("xsa") => Newer("boot", "xsa")))
            THEN {} ELSE {Stage("workspace"), Stage("boot")}
  BY ElemsOfTwo, DoesSteps DEF stage_bootfile
<1>2. /\ ~Has("ws") => Steps(stage_workspace) = {Tool("ws")}
      /\ stage_workspace.ok /\ Has("ws") =>
            Has("xsa") /\ ~Newer("xsa", "ws") /\ Has("elf") /\ Steps(stage_workspace) = {}
  BY OneElem, DoesSteps DEF stage_workspace
<1>3. Steps(stage_boot) =
        IF Has("boot") /\ Has("elf") /\ Newer("boot", "elf") THEN {} ELSE {Tool("boot")}
  BY OneElem, DoesSteps DEF stage_boot
<1>4. Steps(stage_cfgmem) =
        IF ~design.cfgmem THEN {}
        ELSE {Stage("xsa"), Stage("flash")} \cup IF FlashesApp THEN {Stage("standalone")} ELSE {}
  <2>1. CASE ~design.cfgmem
    BY <2>1, DoesSteps DEF stage_cfgmem
  <2>2. CASE design.cfgmem
    <3> DEFINE a == <<Stage("xsa")>>  b == If(FlashesApp, "standalone")  c == <<Stage("flash")>>
    <3>1. /\ a \in Seq(Entries) /\ Elems(a) = {Stage("xsa")}
          /\ c \in Seq(Entries) /\ Elems(c) = {Stage("flash")}
      BY NamedEntries, OneElem
    <3>2. b \in Seq(Entries) /\ Elems(b) = IF FlashesApp THEN {Stage("standalone")} ELSE {}
      BY NamedEntries, IfSteps
    <3>3. Steps(stage_cfgmem) = Elems((a \o b) \o c)
      BY <2>2, DoesSteps DEF stage_cfgmem
    <3> HIDE DEF a, b, c
    <3>4. a \o b \in Seq(Entries) /\ Elems(a \o b) = Elems(a) \cup Elems(b)
      BY <3>1, <3>2, CatSteps
    <3>5. Elems((a \o b) \o c) = Elems(a \o b) \cup Elems(c)
      BY <3>1, <3>4, CatSteps
    <3> QED BY <2>2, <3>1, <3>2, <3>3, <3>4, <3>5
  <2> QED BY <2>1, <2>2
<1>5. stage_flash.ok =>
        /\ Has(cfgmem_src)
        /\ Steps(stage_flash) =
            IF Has("mcs") /\ Newer("mcs", cfgmem_src) THEN {} ELSE {Tool("mcs")}
  BY OneElem, DoesSteps DEF stage_flash
<1> QED BY <1>1, <1>2, <1>3, <1>4, <1>5

\* The zips of stage_package.
Packaged ==
    (IF design.baremetal THEN {"bare_zip"} ELSE {})
    \cup (IF design.petalinux THEN {"petl_zip"} ELSE {})
    \cup (IF design.yocto THEN {"yocto_zip"} ELSE {})
    \cup (IF has_software_flow THEN {} ELSE {"bit_zip"})

\* PetaLinux and the packages.
LEMMA PackageStagesDo ==
    /\ Steps(stage_petalinux) \subseteq {Tool("petl")}
    /\ Steps(stage_package) = {Stage(z) : z \in Packaged}
    /\ Steps(stage_package) \subseteq {Stage(z) : z \in Zips}
    /\ \A z \in Shipped : Stage(z) \in Steps(stage_package)
    /\ \A z \in Zips :
        /\ Steps(stage_zip(z)) \subseteq {Tool(z)}
        /\ /\ stage_zip(z).ok /\ Steps(stage_zip(z)) = {}
           /\ ZipSources(z) # {} /\ ZipSources(z) \subseteq files
           => _zip_current(z)
<1>1. Steps(stage_petalinux) \subseteq {Tool("petl")}
  BY OneElem, DoesSteps DEF stage_petalinux
<1>2. \A z \in Zips :
        /\ Steps(stage_zip(z)) \subseteq {Tool(z)}
        /\ /\ stage_zip(z).ok /\ Steps(stage_zip(z)) = {}
           /\ ZipSources(z) # {} /\ ZipSources(z) \subseteq files
           => _zip_current(z)
  <2> SUFFICES ASSUME NEW z \in Zips
               PROVE  /\ Steps(stage_zip(z)) \subseteq {Tool(z)}
                      /\ /\ stage_zip(z).ok /\ Steps(stage_zip(z)) = {}
                         /\ ZipSources(z) # {} /\ ZipSources(z) \subseteq files
                         => _zip_current(z)
    OBVIOUS
  <2>1. Steps(Does(<<Tool(z)>>)) = {Tool(z)}
    BY OneElem, DoesSteps
  <2>2. CASE _zip_current(z)
    BY <2>2, DoesSteps DEF stage_zip
  <2>3. CASE ~_zip_current(z) /\ ZipSources(z) # {} /\ ZipSources(z) \subseteq files
    BY <2>1, <2>3 DEF stage_zip
  <2>4. CASE ~_zip_current(z) /\ ~(ZipSources(z) # {} /\ ZipSources(z) \subseteq files)
    <3>1. stage_zip(z) \in {Skipped, Fails} /\ Steps(Fails) = {}
      BY <2>4, None DEF stage_zip, Fails, Steps
    <3> QED BY <2>4, <3>1, DoesSteps
  <2> QED BY <2>2, <2>3, <2>4
<1> DEFINE a == If(design.baremetal, "bare_zip")  b == If(design.petalinux, "petl_zip")
           c == If(design.yocto, "yocto_zip")  d == If(~has_software_flow, "bit_zip")
<1>3. /\ a \in Seq(Entries) /\ Elems(a) = IF design.baremetal THEN {Stage("bare_zip")} ELSE {}
      /\ b \in Seq(Entries) /\ Elems(b) = IF design.petalinux THEN {Stage("petl_zip")} ELSE {}
      /\ c \in Seq(Entries) /\ Elems(c) = IF design.yocto THEN {Stage("yocto_zip")} ELSE {}
      /\ d \in Seq(Entries) /\ Elems(d) = IF ~has_software_flow THEN {Stage("bit_zip")} ELSE {}
  BY NamedEntries, IfSteps DEF Zips
<1>4. Steps(stage_package) = Elems(((a \o b) \o c) \o d)
  BY DoesSteps DEF stage_package
<1> HIDE DEF a, b, c, d
<1> DEFINE ab == a \o b
<1>5. ab \in Seq(Entries) /\ Elems(ab) = Elems(a) \cup Elems(b)
  BY <1>3, CatSteps
<1> HIDE DEF ab
<1> DEFINE abc == ab \o c
<1>6. abc \in Seq(Entries) /\ Elems(abc) = Elems(ab) \cup Elems(c)
  BY <1>3, <1>5, CatSteps
<1> HIDE DEF abc
<1>7. Elems(abc \o d) = Elems(abc) \cup Elems(d)
  BY <1>3, <1>6, CatSteps
<1>8. Steps(stage_package) = Elems(a) \cup Elems(b) \cup Elems(c) \cup Elems(d)
  BY <1>4, <1>5, <1>6, <1>7 DEF ab, abc
<1>9. \A z \in Shipped : Stage(z) \in Steps(stage_package)
  BY <1>3, <1>8 DEF Shipped
<1>10. Steps(stage_package) \subseteq {Stage(z) : z \in Zips}
  <2>1. /\ "bare_zip" \in Zips /\ "petl_zip" \in Zips /\ "yocto_zip" \in Zips
        /\ "bit_zip" \in Zips
    BY DEF Zips
  <2>2. /\ Elems(a) \subseteq {Stage(z) : z \in Zips} /\ Elems(b) \subseteq {Stage(z) : z \in Zips}
        /\ Elems(c) \subseteq {Stage(z) : z \in Zips} /\ Elems(d) \subseteq {Stage(z) : z \in Zips}
    BY <1>3, <2>1
  <2> QED BY <1>8, <2>2
<1>11. Steps(stage_package) = {Stage(z) : z \in Packaged}
  <2>1. Steps(stage_package) \subseteq {Stage(z) : z \in Packaged}
    BY <1>3, <1>8 DEF Packaged
  <2>2. {Stage(z) : z \in Packaged} \subseteq Steps(stage_package)
    BY <1>3, <1>8 DEF Packaged
  <2> QED BY <2>1, <2>2
<1> QED BY <1>1, <1>2, <1>9, <1>10, <1>11

LEMMA StageFuncsAre ==
    /\ STAGE_FUNCS("ip") = stage_ip /\ STAGE_FUNCS("project") = stage_project
    /\ STAGE_FUNCS("xsa") = stage_xsa /\ STAGE_FUNCS("standalone") = stage_bootfile
    /\ STAGE_FUNCS("workspace") = stage_workspace /\ STAGE_FUNCS("boot") = stage_boot
    /\ STAGE_FUNCS("cfgmem") = stage_cfgmem /\ STAGE_FUNCS("flash") = stage_flash
    /\ STAGE_FUNCS("petalinux") = stage_petalinux /\ STAGE_FUNCS("package") = stage_package
    /\ \A z \in Zips : STAGE_FUNCS(z) = stage_zip(z)
BY DEF STAGE_FUNCS, Zips

\* What the commands start with.
LEMMA StagesAre ==
    /\ \A cmd \in BUILD_COMMANDS :
        Elems(stages_for(cmd)) \subseteq {Stage(s) : s \in BUILD_COMMANDS}
    /\ Elems(stages_for("all")) =
        {Stage("xsa"), Stage("package")}
        \cup (IF design.baremetal THEN {Stage("standalone")} ELSE {})
        \cup (IF design.cfgmem THEN {Stage("cfgmem")} ELSE {})
        \cup (IF design.petalinux THEN {Stage("petalinux")} ELSE {})
        \cup (IF design.yocto THEN {Stage("yocto")} ELSE {})
<1> DEFINE a == <<Stage("xsa")>>  b == If(design.baremetal, "standalone")
           c == If(design.cfgmem, "cfgmem")  d == If(design.petalinux, "petalinux")
           e == If(design.yocto, "yocto")  f == <<Stage("package")>>
<1>1. /\ a \in Seq(Entries) /\ Elems(a) = {Stage("xsa")}
      /\ b \in Seq(Entries) /\ Elems(b) = IF design.baremetal THEN {Stage("standalone")} ELSE {}
      /\ c \in Seq(Entries) /\ Elems(c) = IF design.cfgmem THEN {Stage("cfgmem")} ELSE {}
      /\ d \in Seq(Entries) /\ Elems(d) = IF design.petalinux THEN {Stage("petalinux")} ELSE {}
      /\ e \in Seq(Entries) /\ Elems(e) = IF design.yocto THEN {Stage("yocto")} ELSE {}
      /\ f \in Seq(Entries) /\ Elems(f) = {Stage("package")}
  <2>1. /\ a \in Seq(Entries) /\ Elems(a) = {Stage("xsa")}
        /\ f \in Seq(Entries) /\ Elems(f) = {Stage("package")}
    BY NamedEntries, OneElem
  <2>2. b \in Seq(Entries) /\ Elems(b) = IF design.baremetal THEN {Stage("standalone")} ELSE {}
    BY NamedEntries, IfSteps
  <2>3. c \in Seq(Entries) /\ Elems(c) = IF design.cfgmem THEN {Stage("cfgmem")} ELSE {}
    BY NamedEntries, IfSteps
  <2>4. d \in Seq(Entries) /\ Elems(d) = IF design.petalinux THEN {Stage("petalinux")} ELSE {}
    BY NamedEntries, IfSteps
  <2>5. e \in Seq(Entries) /\ Elems(e) = IF design.yocto THEN {Stage("yocto")} ELSE {}
    BY NamedEntries, IfSteps
  <2> HIDE DEF a, b, c, d, e, f
  <2> QED BY <2>1, <2>2, <2>3, <2>4, <2>5
<1>2. stages_for("all") = ((((a \o b) \o c) \o d) \o e) \o f
  BY DEF stages_for
<1> HIDE DEF a, b, c, d, e, f
<1> DEFINE ab == a \o b
<1>3. ab \in Seq(Entries) /\ Elems(ab) = Elems(a) \cup Elems(b)
  BY <1>1, CatSteps
<1> HIDE DEF ab
<1> DEFINE abc == ab \o c
<1>4. abc \in Seq(Entries) /\ Elems(abc) = Elems(ab) \cup Elems(c)
  BY <1>1, <1>3, CatSteps
<1> HIDE DEF abc
<1> DEFINE abcd == abc \o d
<1>5. abcd \in Seq(Entries) /\ Elems(abcd) = Elems(abc) \cup Elems(d)
  BY <1>1, <1>4, CatSteps
<1> HIDE DEF abcd
<1> DEFINE abcde == abcd \o e
<1>6. abcde \in Seq(Entries) /\ Elems(abcde) = Elems(abcd) \cup Elems(e)
  BY <1>1, <1>5, CatSteps
<1> HIDE DEF abcde
<1>7. Elems(abcde \o f) = Elems(abcde) \cup Elems(f)
  BY <1>1, <1>6, CatSteps
<1>8. Elems(stages_for("all")) = Elems(a) \cup Elems(b) \cup Elems(c) \cup Elems(d) \cup Elems(e) \cup Elems(f)
  BY <1>2, <1>3, <1>4, <1>5, <1>6, <1>7 DEF ab, abc, abcd, abcde
<1>9. Elems(stages_for("all")) \subseteq {Stage(s) : s \in BUILD_COMMANDS}
  <2> DEFINE S == {Stage(s) : s \in BUILD_COMMANDS}
  <2>1. \A s \in {"xsa", "package", "standalone", "cfgmem", "petalinux", "yocto"} : Stage(s) \in S
    BY DEF BUILD_COMMANDS
  <2> HIDE DEF S
  <2>2. /\ Elems(a) \subseteq S /\ Elems(b) \subseteq S /\ Elems(c) \subseteq S
        /\ Elems(d) \subseteq S /\ Elems(e) \subseteq S /\ Elems(f) \subseteq S
    BY <1>1, <2>1
  <2> QED BY <1>8, <2>2 DEF S
<1>10. ASSUME NEW cmd \in BUILD_COMMANDS, cmd # "all"
       PROVE  Elems(stages_for(cmd)) \subseteq {Stage(s) : s \in BUILD_COMMANDS}
  BY <1>10, OneElem, ElemsOfTwo DEF stages_for, BUILD_COMMANDS
<1> QED BY <1>1, <1>8, <1>9, <1>10

-----------------------------------------------------------------------------
(* Files and steps fit in every state                                       *)

LEMMA SameHas ==
    ASSUME UNCHANGED fvars
    PROVE  /\ \A x : Has(x)' <=> Has(x)
           /\ \A x, w : Newer(x, w)' <=> Newer(x, w)
           /\ stale' = stale
BY DEF fvars, Has, Newer

LEMMA StageTodo ==
    ASSUME RunOK, FilesInv, TodoInv, design' = design, UNCHANGED fvars,
           NEW s \in StageNames, At(Stage(s)), Returns(STAGE_FUNCS(s))
    PROVE  TodoInv'
<1>1. CASE run' = Idle
  BY <1>1, IdleOK, EmptyTodo
<1>2. CASE STAGE_FUNCS(s).ok /\ Turns(Stage(s), Steps(STAGE_FUNCS(s)))
  <2> DEFINE T == Steps(STAGE_FUNCS(s))
  <2>1. STAGE_FUNCS(s).ok /\ Turns(Stage(s), T)
    BY <1>2
  <2>2. /\ (Has("ws")' <=> Has("ws")) /\ (Has("boot")' <=> Has("boot"))
        /\ (Has("xsa")' <=> Has("xsa")) /\ (Newer("boot", "xsa")' <=> Newer("boot", "xsa"))
        /\ stale' = stale
    BY SameHas
  <2> DEFINE App == WsSteps \cup AppSteps
  <2>3. /\ \A e \in XsaSteps : e \notin App /\ Rank(e) = 0
        /\ Stage("standalone") \notin App /\ Stage("flash") \notin App /\ Tool("mcs") \notin App
        /\ Tool("petl") \notin App /\ \A z \in Zips : Stage(z) \notin App /\ Tool(z) \notin App
        /\ Rank(Stage("petalinux")) = 3
    <3>1. Tool("petl") \in PetalinuxSteps /\ Stage("petalinux") \in PetalinuxSteps
      BY DEF PetalinuxSteps
    <3>2. \A e \in App : Rank(e) = 1 \/ e \in AppSteps
      BY RankInGroup
    <3>3. \A e \in App : Rank(e) \in {1, 2} /\ e # Stage("standalone")
      BY <3>2, RankInGroup, AppStepsApart
    <3> QED BY <3>1, <3>3, RankInGroup, RankOfNamed
  <2>4. Stage("flash") \notin XsaSteps /\ Tool("mcs") \notin XsaSteps
    BY RankInGroup, RankOfNamed
  <2> HIDE DEF T, App
  <2>5. ASSUME Rank(Stage(s)) \in {0, 3, 10}, T \cap App = {},
               Stage("flash") \in T \/ Tool("mcs") \in T => design.cfgmem
        PROVE  TodoInv'
    BY <2>1, <2>5, AsideTodo DEF App
  <2>6. CASE s \in {"ip", "project", "xsa"}
    <3>1. T \subseteq XsaSteps /\ Stage(s) \in XsaSteps
      <4>1. Stage("project") \in XsaSteps /\ Tool("xsa") \in XsaSteps
        BY DEF XsaSteps
      <4>2. Stage(s) \in XsaSteps
        BY <2>6 DEF XsaSteps
      <4>3. T = Steps(stage_ip) \/ T = Steps(stage_project) \/ T = Steps(stage_xsa)
        BY <2>6, StageFuncsAre DEF T
      <4> QED BY <4>1, <4>2, <4>3, XsaStagesDo DEF RunOK
    <3> QED BY <2>3, <2>4, <2>5, <3>1
  <2>7. CASE s = "standalone"
    <3>1. T = Steps(stage_bootfile) /\ Turns(Stage("standalone"), T)
      BY <2>1, <2>7, StageFuncsAre DEF T
    <3>2. \/ T = {}
          \/ /\ T = {Stage("workspace"), Stage("boot")}
             /\ Has("boot") /\ ~Has("ws") /\ Has("xsa") => ~Newer("boot", "xsa")
      BY <3>1, AppStagesDo
    <3> QED BY <2>2, <3>1, <3>2, StandaloneTodo
  <2>8. CASE s = "workspace"
    <3>1. T = Steps(stage_workspace) /\ stage_workspace.ok /\ Turns(Stage("workspace"), T)
      BY <2>1, <2>8, StageFuncsAre DEF T
    <3>2. \/ T = {} /\ "elf" \notin stale
          \/ T = {Tool("ws")} /\ ~Has("ws")
      BY <3>1, AppStagesDo DEF FilesInv, ElfTold
    <3> QED BY <2>2, <3>1, <3>2, WorkspaceTodo
  <2>9. CASE s = "boot"
    <3>1. T = Steps(stage_boot) /\ Turns(Stage("boot"), T) /\ T \subseteq {Tool("boot")}
      BY <2>1, <2>9, StageFuncsAre, AppStagesDo DEF T
    <3> QED BY <2>2, <3>1, BootTodo, AppStepsApart DEF AppSteps
  <2>10. CASE s = "cfgmem"
    <3>1. T = Steps(stage_cfgmem)
      BY <2>1, <2>10, StageFuncsAre DEF T
    <3>2. /\ T \subseteq {Stage("xsa"), Stage("flash"), Stage("standalone")}
          /\ T # {} => design.cfgmem
      BY <3>1, AppStagesDo
    <3>3. Stage("xsa") \in XsaSteps
      BY DEF XsaSteps
    <3> QED BY <2>3, <2>5, <2>10, <3>2, <3>3, RankOfNamed
  <2>11. CASE s = "flash"
    <3>1. T = Steps(stage_flash) /\ stage_flash.ok
      BY <2>1, <2>11, StageFuncsAre DEF T
    <3>2. T \subseteq {Tool("mcs")}
      BY <3>1, AppStagesDo
    <3>3. design.cfgmem
      BY <2>1, <2>11 DEF Turns, TodoInv, FlashIsOfDesign
    <3> QED BY <2>3, <2>5, <2>11, <3>2, <3>3, RankOfNamed
  <2>12. CASE s = "petalinux"
    <3>1. T \subseteq {Tool("petl")}
      BY <2>12, StageFuncsAre, PackageStagesDo DEF T
    <3>2. Tool("petl") # Stage("flash") /\ Tool("petl") # Tool("mcs")
      BY DEF Tool, Stage
    <3> QED BY <2>3, <2>5, <2>12, <3>1, <3>2
  <2>13. CASE s = "package"
    <3>1. T \subseteq {Stage(z) : z \in Zips}
      BY <2>13, StageFuncsAre, PackageStagesDo DEF T
    <3>2. Stage("flash") \notin T /\ Tool("mcs") \notin T
      BY <3>1, RankOfNamed
    <3> QED BY <2>3, <2>5, <2>13, <3>1, <3>2, RankOfNamed
  <2>14. CASE s \in Zips
    <3>1. T \subseteq {Tool(s)}
      BY <2>14, StageFuncsAre, PackageStagesDo DEF T
    <3>2. Stage("flash") \notin T /\ Tool("mcs") \notin T
      BY <2>14, <3>1, RankOfNamed
    <3> QED BY <2>3, <2>5, <2>14, <3>1, <3>2, RankOfNamed
  <2> QED BY <2>6, <2>7, <2>8, <2>9, <2>10, <2>11, <2>12, <2>13, <2>14 DEF StageNames
<1> QED BY <1>1, <1>2, StageTurns

LEMMA RunStageFilesTodo ==
    ASSUME RunOK, FilesInv, TodoInv, RunStage PROVE FilesInv' /\ TodoInv'
<1>1. design' = design /\ UNCHANGED fvars
  BY DEF RunStage, fvars
<1>2. FilesInv'
  BY <1>1, SameFiles
<1>3. CASE \E s \in StageNames : At(Stage(s)) /\ Returns(STAGE_FUNCS(s))
  BY <1>1, <1>2, <1>3, StageTodo
<1>4. CASE \E c \in Elems(Cores) : At(Core(c)) /\ Returns(stage_core(c))
  <2> PICK c \in Elems(Cores) : At(Core(c)) /\ Returns(stage_core(c))
    BY <1>4
  <2> PICK T : Turns(Core(c), T) /\ T \subseteq {Tool(c)}
    BY <1>1, CoreTurns
  <2>1. Rank(Core(c)) = 0 /\ Tool(c) \in XsaSteps
    BY CoreStepsOK
  <2>2. T \cap (WsSteps \cup AppSteps) = {} /\ Stage("flash") \notin T /\ Tool("mcs") \notin T
    BY <2>1, RankInGroup, RankOfNamed, AppStepsApart
  <2> QED BY <1>2, <2>1, <2>2, AsideTodo
<1> QED BY <1>2, <1>3, <1>4 DEF RunStage

-----------------------------------------------------------------------------
(* The tools                                                                *)

LEMMA OrderedPart ==
    ASSUME NEW V, NEW W, Ordered(V), W \subseteq V, "xsa" \in W => "bit" \in W,
           "elf" \in W => "ws" \in W
    PROVE  Ordered(W)
BY DEF Ordered

\* What has nothing to do with the application, the flash and the zips.
LEMMA OrderedOther ==
    \A W : W \cap ({"xsa", "bit", "ws", "elf", "boot", "mcs", "conf"} \cup Zips) = {} => Ordered(W)
BY DEF Ordered

\* What a tool that has its turn writes, it writes in order.
LEMMA ToolOrdered ==
    ASSUME RunOK, FilesInv, TodoInv, NEW x \in ToolNames, At(Tool(x))
    PROVE  Ordered(Elems(Output(x)))
<1>0. /\ Pending(Tool(x)) /\ Tool(x) \in Entries /\ Rest \subseteq Entries
      /\ \A e \in Entries : Pending(e) => e = Tool(x) \/ (e \in Rest /\ Before(Tool(x), e))
  <2>1. run.todo \in Stack /\ run.todo # <<>> /\ Head(run.todo) = Tool(x)
    BY DEF RunOK, At
  <2>2. /\ Tail(run.todo) \in Stack /\ Tool(x) \in Entries
        /\ Elems(run.todo) = {Tool(x)} \cup Rest /\ \A e \in Rest : Before(Tool(x), e)
    BY <2>1, HeadAndTail DEF Rest
  <2>3. Rest \subseteq Entries
    BY <2>2, ElemsOf DEF Rest, Stack
  <2> QED BY <2>2, <2>3 DEF Pending
<1> USE OutputElems
<1>1. CASE x = "xsa"
  BY <1>1 DEF Ordered, Zips
<1>2. CASE x = "ws"
  <2>1. ~Has("ws") /\ (Has("boot") /\ Has("xsa") => ~Newer("boot", "xsa"))
    BY <1>0, <1>2 DEF TodoInv, WsOnce, WsNeeded
  <2> QED BY <1>2, <2>1 DEF Ordered, Zips
<1>3. CASE x = "boot"
  <2>1. \A e \in Entries : Pending(e) => 2 <= Rank(e)
    BY <1>0, <1>3, RankType, RankOfNamed DEF Before
  <2>2. \A e \in WsSteps : ~Pending(e)
    BY <2>1, RankInGroup, Groups
  <2>3. "elf" \notin stale
    BY <1>0, <1>3, <2>2 DEF TodoInv, BootOfElf, AppSteps
  <2> QED BY <1>3, <2>3 DEF Ordered, Zips
<1>4. CASE x = "mcs"
  <2>1. design.cfgmem
    BY <1>0, <1>4 DEF TodoInv, FlashIsOfDesign
  <2> QED BY <1>4, <2>1 DEF Ordered, Zips
<1>5. CASE x \in Zips
  <2>1. Elems(Output(x)) = {x}
    BY <1>5 DEF Zips
  <2> QED BY <1>5, <2>1 DEF Ordered, Zips
<1>6. CASE x \in {"petl", "petl_again"}
  BY <1>6, OrderedOther DEF Zips
<1>7. CASE x \in {"ip_done", "xpr"} \cup Elems(Cores)
  <2>1. x \notin {"xsa", "bit", "ws", "elf", "boot", "mcs", "conf", "petl", "petl_again"} \cup Zips
    BY <1>7, CoreNames DEF TargetFiles, Zips
  <2>2. Elems(Output(x)) = {x}
    BY <2>1
  <2> QED BY <2>1, <2>2, OrderedOther
<1> QED BY <1>1, <1>2, <1>3, <1>4, <1>5, <1>6, <1>7 DEF ToolNames

\* What a tool cut short has written is the front of it.
LEMMA CutOrdered ==
    ASSUME NEW x \in ToolNames, NEW n \in DOMAIN Output(x), Ordered(Elems(Output(x)))
    PROVE  Ordered(Elems(SubSeq(Output(x), 1, n)))
<1> DEFINE W == Elems(SubSeq(Output(x), 1, n))
<1>1. W \subseteq Elems(Output(x))
  BY CutElems
<1>2. Output(x)[1] \in W
  <2> DEFINE o == Output(x)  t == SubSeq(o, 1, n)
  <2>1. o \in Seq(Artifacts) /\ DOMAIN o = 1 .. Len(o) /\ Len(o) \in Nat
    BY OutputElems, LenProperties
  <2>2. n \in Int /\ 1 <= n /\ \A i \in 1 .. n : o[i] \in Artifacts
    BY <2>1
  <2> HIDE DEF o
  <2>3. t \in Seq(Artifacts) /\ Len(t) = n /\ t[1] = o[1]
    BY <2>2, SubSeqProperties
  <2> QED BY <2>2, <2>3 DEF Elems, o
<1>3. CASE x \in {"xsa", "ws"}
  <2>1. Output("xsa")[1] = "bit" /\ Output("ws")[1] = "ws"
    BY DEF Output
  <2>2. "xsa" \in W => "bit" \in W
    BY <1>1, <1>2, <1>3, <2>1, OutputElems
  <2>3. "elf" \in W => "ws" \in W
    BY <1>1, <1>2, <1>3, <2>1, OutputElems
  <2> HIDE DEF W
  <2> QED BY <1>1, <2>2, <2>3, OrderedPart DEF W
<1>4. CASE x \notin {"xsa", "ws"}
  <2>1. Elems(Output(x)) = {x} \/ Elems(Output(x)) = {"pwork", "petl"}
    BY <1>4, OutputElems
  <2>2. "xsa" \notin W /\ "elf" \notin W
    <3>1. x # "elf"
      BY CoreNames DEF ToolNames, TargetFiles, Zips
    <3> QED BY <1>1, <1>4, <2>1, <3>1
  <2> HIDE DEF W
  <2> QED BY <1>1, <2>2, OrderedPart DEF W
<1> QED BY <1>3, <1>4

\* The tools that are not of the application stand in groups of their own.
LEMMA RankOfTools ==
    \A x \in ToolNames \ {"ws", "boot"} : Rank(Tool(x)) \in {0, 3, 10}
<1>1. \A x \in ToolNames \ {"ws", "boot"} :
        Tool(x) \in XsaSteps \cup FlashSteps \cup PetalinuxSteps \cup PackageSteps
  BY DEF ToolNames, XsaSteps, FlashSteps, PetalinuxSteps, PackageSteps
<1> QED BY <1>1, RankInGroup

LEMMA AtTool ==
    ASSUME RunOK, NEW x \in ToolNames, At(Tool(x)), ToolDone, design' = design
    PROVE  Turns(Tool(x), {})
BY ToolTurns DEF At

LEMMA RunToolFilesTodo ==
    ASSUME RunOK, FilesInv, TodoInv, RunTool PROVE FilesInv' /\ TodoInv'
<1> PICK x \in ToolNames : At(Tool(x)) /\ Writes(Output(x)) /\ ToolDone
  BY DEF RunTool
<1>1. design' = design /\ Turns(Tool(x), {})
  BY AtTool DEF RunTool
<1>2. Ordered(Elems(Output(x)))
  BY <1>1, ToolOrdered
<1>3. FilesInv'
  BY <1>1, <1>2, WritesFiles
<1>4. CASE x = "ws"
  <2>1. "elf" \notin stale'
    <3>1. Elems(Output(x)) = {"ws", "elf"}
      BY <1>4, OutputElems
    <3>2. "elf" \notin Downstream({"ws", "elf"})
      BY DownstreamOf
    <3>3. Inputs("elf") \cap stale = {}
      BY InputsOf DEF FilesInv, StaleHere
    <3> QED BY <3>1, <3>2, <3>3, WritesPoints
  <2> QED BY <1>1, <1>3, <1>4, <2>1, WsToolTodo
<1>5. CASE x = "boot"
  BY <1>1, <1>3, <1>5, BootTodo, AppStepsApart DEF AppSteps
<1>6. CASE x \notin {"ws", "boot"}
  BY <1>1, <1>3, <1>6, RankOfTools, AsideTodo
<1> QED BY <1>3, <1>4, <1>5, <1>6

\* What a step pushes in place of the tool that is to run again.
LEMMA AgainTurns ==
    ASSUME RunOK, PetalinuxAgain PROVE Turns(Tool("petl"), {Tool("petl_again")})
<1> DEFINE t == <<Tool("petl_again")>>
<1>1. run.todo # <<>> /\ Head(run.todo) = Tool("petl")
  BY DEF At, PetalinuxAgain
<1>2. Tool("petl_again") \in Entries /\ Rank(Tool("petl_again")) = 3 /\ Rank(Tool("petl")) = 3
  BY ToolSteps, RankInGroup DEF PetalinuxSteps, ToolNames
<1>3. t \in Stack /\ Elems(t) = {Tool("petl_again")}
  BY <1>2, One
<1> HIDE DEF t
<1>4. \A e \in Elems(t) : Rank(e) <= Rank(Head(run.todo))
  BY <1>1, <1>2, <1>3
<1>5. run' = [run EXCEPT !.todo = t \o Tail(run.todo)] /\ design' = design
  BY DEF PetalinuxAgain, t
<1>6. t \o Tail(run.todo) \in Stack /\ Elems(t \o Tail(run.todo)) = Elems(t) \cup Elems(Tail(run.todo))
  BY <1>1, <1>3, <1>4, Pushed DEF RunOK
<1>7. run'.todo = t \o Tail(run.todo) /\ run'.cmd = run.cmd /\ run'.calm = run.calm
  BY <1>5, <1>6 DEF RunOK
<1>8. GoesOn(t)
  BY <1>3, <1>6, <1>7 DEF GoesOn
<1> QED BY <1>1, <1>3, <1>5, <1>8, GoesOnTurns

LEMMA AgainFilesTodo ==
    ASSUME RunOK, FilesInv, TodoInv, PetalinuxAgain PROVE FilesInv' /\ TodoInv'
<1>1. Turns(Tool("petl"), {Tool("petl_again")}) /\ design' = design /\ Writes(<<"pwork">>)
  BY AgainTurns DEF PetalinuxAgain
<1>2. Elems(<<"pwork">>) = {"pwork"} /\ Ordered({"pwork"})
  BY OneElem, OrderedOther DEF Zips
<1>3. FilesInv'
  BY <1>1, <1>2, WritesFiles
<1>4. Tool("petl") \in PetalinuxSteps /\ Tool("petl_again") \in PetalinuxSteps
  BY DEF PetalinuxSteps
<1>5. /\ {Tool("petl_again")} \cap (WsSteps \cup AppSteps) = {}
      /\ Tool("petl_again") # Stage("flash") /\ Tool("petl_again") # Tool("mcs")
  BY DEF WsSteps, AppSteps, Tool, Stage
<1>6. Rank(Tool("petl")) = 3
  BY <1>4, RankInGroup
<1> QED BY <1>1, <1>3, <1>5, <1>6, AsideTodo

LEMMA FailTodo == ASSUME FailRun PROVE TodoInv' /\ run'.cmd = "none"
BY EmptyTodo, IdleOK DEF FailRun

LEMMA CutShortFilesTodo ==
    ASSUME RunOK, FilesInv, TodoInv, CutShort PROVE FilesInv' /\ TodoInv'
<1> PICK x \in ToolNames :
      /\ At(Tool(x))
      /\ \/ Removes(Discarded(x))
         \/ \E n \in DOMAIN Output(x) : Writes(SubSeq(Output(x), 1, n))
  BY DEF CutShort
<1>1. design' = design /\ FailRun
  BY DEF CutShort
<1>2. CASE Removes(Discarded(x))
  BY <1>1, <1>2, DiscardedTogether, RemovesFiles, FailTodo
<1>3. ASSUME NEW n \in DOMAIN Output(x), Writes(SubSeq(Output(x), 1, n)) PROVE FilesInv'
  <2>1. Ordered(Elems(Output(x)))
    BY ToolOrdered
  <2> QED BY <1>1, <1>3, <2>1, CutOrdered, WritesFiles
<1> QED BY <1>1, <1>2, <1>3, FailTodo

-----------------------------------------------------------------------------
(* The image build, seen from the files that are shipped                    *)

\* The steps of the image build, each with what it puts in its place and writes.
ImageTurn(e, T) ==
    /\ e \in ImageSteps /\ Turns(e, T) /\ T \subseteq ImageSteps \ {Tool("yimg")}
    /\ \/ UNCHANGED fvars /\ e # Tool("yimg")
       \/ \E w \in {"hw", "configdone", "yimg"} : e = Tool(w) /\ Writes(<<w>>)

\* Images that the stage takes for current.
ImagesGood == Has("yimg") /\ (y.stamp = NoInputs \/ UpToDate)

YoctoTurn(T) ==
    /\ Turns(Stage("yocto"), T) /\ UNCHANGED fvars
    /\ \/ T = {} /\ (design.yocto /\ ~design.windows => ImagesGood)
       \/ T = {Stage("xsa")} \cup (ImageSteps \ {Tool("configdone")})

LEMMA ImageNames ==
    /\ {Stage("snapshot"), Tool("hw"), Stage("configure"), Tool("configdone"), Tool("bitbake"),
        Tool("yimg"), Tool("stamp")} \subseteq ImageSteps
    /\ \A e \in {Stage("snapshot"), Tool("hw"), Stage("configure"), Tool("configdone"),
                 Tool("bitbake"), Tool("stamp")} : e # Tool("yimg")
BY DEF ImageSteps, Stage, Tool

LEMMA ImageDone ==
    ASSUME RunOK, ImagesInOrder, design' = design, NEW e \in ImageSteps, At(e),
           ToolDone \/ Returns(Skipped)
    PROVE  Turns(e, {})
BY ImageStepDone, GoesOnTurns, None DEF At

LEMMA YoctoTurns ==
    ASSUME RunOK, StageYocto PROVE \E T : YoctoTurn(T)
<1> DEFINE skips == ~design.yocto \/ design.windows
           r == IF skips THEN Skipped
                ELSE IF Has("yimg") /\ (y.stamp = NoInputs \/ UpToDate) THEN Skipped
                ELSE Does(YoctoSteps)
<1>1. Returns(r) /\ UNCHANGED fvars /\ design' = design
  BY DEF StageYocto
<1>2. run.todo # <<>> /\ Head(run.todo) = Stage("yocto") /\ Rank(Stage("yocto")) = 9
  BY RankOfImageSteps DEF StageYocto, At
<1>3. \/ r = Skipped /\ (design.yocto /\ ~design.windows => ImagesGood)
      \/ r = Does(YoctoSteps)
  BY DEF ImagesGood
<1>4. /\ r.ok /\ r.todo \in Stack /\ \A e \in Elems(r.todo) : Rank(e) <= 9
      /\ \/ Elems(r.todo) = {} /\ (design.yocto /\ ~design.windows => ImagesGood)
         \/ Elems(r.todo) = {Stage("xsa")} \cup (ImageSteps \ {Tool("configdone")})
  BY <1>3, YoctoStepsStack, None DEF Does, Skipped
<1> HIDE DEF r
<1>5. GoesOn(r.todo)
  BY <1>1, <1>2, <1>4, ReturnsGoesOn
<1>6. Turns(Stage("yocto"), Elems(r.todo))
  BY <1>1, <1>2, <1>5, GoesOnTurns
<1> QED BY <1>1, <1>4, <1>6 DEF YoctoTurn

LEMMA ConfigureTurns ==
    ASSUME RunOK, design' = design, At(Stage("configure")), Returns(Does(<<Tool("configdone")>>))
    PROVE  Turns(Stage("configure"), {Tool("configdone")})
<1> DEFINE t == <<Tool("configdone")>>
<1>1. t \in Stack /\ Elems(t) = {Tool("configdone")} /\ Returns(Does(t))
  BY One, ImageNames, Groups
<1>2. run.todo # <<>> /\ Head(run.todo) = Stage("configure")
  BY DEF At
<1> HIDE DEF t
<1>3. Does(t).ok /\ Does(t).todo = t
  BY DEF Does
<1>4. \A e \in Elems(t) : Rank(e) <= Rank(Head(run.todo))
  BY <1>1, <1>2, RankOfImageSteps
<1>5. GoesOn(t)
  BY <1>1, <1>2, <1>3, <1>4, ReturnsGoesOn
<1> QED BY <1>1, <1>2, <1>5, GoesOnTurns

\* What a step of the image build does to the files and the stack.
YoctoShape ==
    \/ FailRun /\ (UNCHANGED fvars \/ Writes(<<"hw">>))
    \/ Edit
    \/ \E T : YoctoTurn(T)
    \/ \E e, T : ImageTurn(e, T)

LEMMA YoctoShapes == ASSUME RunOK, ImagesInOrder, Yocto PROVE design' = design /\ YoctoShape
<1>1. design' = design
  BY DEF Yocto, StageYocto, YoctoSnapshot, YoctoHandoff, YoctoConfigure, YoctoConfigured,
         YoctoBitbake, YoctoPackage, YoctoStamp, YoctoFails, Edit
<1> USE ImageNames
<1>2. CASE StageYocto
  BY <1>1, <1>2, YoctoTurns DEF YoctoShape
<1>3. CASE YoctoSnapshot
  <2>1. ImageTurn(Stage("snapshot"), {})
    BY <1>1, <1>3, ImageDone DEF YoctoSnapshot, ImageTurn
  <2> QED BY <1>1, <2>1 DEF YoctoShape
<1>4. CASE YoctoHandoff
  <2>1. CASE Returns(Fails) /\ UNCHANGED fvars
    BY <1>1, <2>1 DEF YoctoShape, Returns, Fails
  <2>2. CASE (Writes(<<"hw">>) /\ ToolDone) \/ (Returns(Skipped) /\ UNCHANGED fvars)
    <3>1. ImageTurn(Tool("hw"), {})
      BY <1>1, <1>4, <2>2, ImageDone DEF YoctoHandoff, ImageTurn
    <3> QED BY <1>1, <3>1 DEF YoctoShape
  <2> QED BY <1>4, <2>1, <2>2 DEF YoctoHandoff
<1>5. CASE YoctoConfigure
  <2>1. UNCHANGED fvars /\ At(Stage("configure"))
    BY <1>5 DEF YoctoConfigure
  <2>2. CASE Returns(Does(<<Tool("configdone")>>))
    <3>1. ImageTurn(Stage("configure"), {Tool("configdone")})
      BY <1>1, <2>1, <2>2, ConfigureTurns DEF ImageTurn
    <3> QED BY <1>1, <3>1 DEF YoctoShape
  <2>3. CASE Returns(Skipped)
    <3>1. ImageTurn(Stage("configure"), {})
      BY <1>1, <2>1, <2>3, ImageDone DEF ImageTurn
    <3> QED BY <1>1, <3>1 DEF YoctoShape
  <2> QED BY <1>5, <2>2, <2>3 DEF YoctoConfigure
<1>6. CASE YoctoConfigured
  <2>1. ImageTurn(Tool("configdone"), {})
    BY <1>1, <1>6, ImageDone DEF YoctoConfigured, ImageTurn
  <2> QED BY <1>1, <2>1 DEF YoctoShape
<1>7. CASE YoctoBitbake
  <2>1. ImageTurn(Tool("bitbake"), {})
    BY <1>1, <1>7, ImageDone DEF YoctoBitbake, ImageTurn
  <2> QED BY <1>1, <2>1 DEF YoctoShape
<1>8. CASE YoctoPackage
  <2>1. ImageTurn(Tool("yimg"), {})
    BY <1>1, <1>8, ImageDone DEF YoctoPackage, ImageTurn
  <2> QED BY <1>1, <2>1 DEF YoctoShape
<1>9. CASE YoctoStamp
  <2>1. ImageTurn(Tool("stamp"), {})
    BY <1>1, <1>9, ImageDone DEF YoctoStamp, ImageTurn
  <2> QED BY <1>1, <2>1 DEF YoctoShape
<1>10. CASE YoctoFails
  BY <1>1, <1>10 DEF YoctoFails, YoctoShape
<1>11. CASE Edit
  BY <1>1, <1>11 DEF YoctoShape
<1> QED BY <1>2, <1>3, <1>4, <1>5, <1>6, <1>7, <1>8, <1>9, <1>10, <1>11 DEF Yocto

LEMMA ImageTurnFilesTodo ==
    ASSUME FilesInv, TodoInv, NEW e, NEW T, ImageTurn(e, T) PROVE FilesInv' /\ TodoInv'
<1>1. Turns(e, T) /\ design' = design /\ e \in ImageSteps /\ T \subseteq ImageSteps
  BY DEF ImageTurn, Turns
<1>2. FilesInv'
  <2>1. CASE UNCHANGED fvars
    BY <1>1, <2>1, SameFiles
  <2>2. ASSUME NEW w \in {"hw", "configdone", "yimg"}, Writes(<<w>>) PROVE FilesInv'
    <3>1. Elems(<<w>>) = {w} /\ Ordered({w})
      BY OneElem, OrderedOther DEF Zips
    <3> QED BY <1>1, <2>2, <3>1, WritesFiles
  <2> QED BY <2>1, <2>2 DEF ImageTurn
<1>3. Rank(e) \in {0, 3, 4, 5, 6, 7, 8, 9, 10}
  BY <1>1, RankOfSteps
<1>4. \A d \in ImageSteps : d \notin WsSteps \cup AppSteps /\ d # Stage("flash") /\ d # Tool("mcs")
  BY ImageStepsApart, AppStepsApart DEF FlashSteps
<1> QED BY <1>1, <1>2, <1>3, <1>4, AsideTodo

LEMMA YoctoTurnFilesTodo ==
    ASSUME FilesInv, TodoInv, NEW T, YoctoTurn(T) PROVE FilesInv' /\ TodoInv'
<1>1. Turns(Stage("yocto"), T) /\ design' = design /\ T \subseteq ImageSteps \cup {Stage("xsa")}
  BY DEF YoctoTurn, Turns
<1>2. FilesInv'
  BY <1>1, SameFiles DEF YoctoTurn
<1>3. \A d \in ImageSteps : d \notin WsSteps \cup AppSteps /\ d # Stage("flash") /\ d # Tool("mcs")
  BY ImageStepsApart, AppStepsApart DEF FlashSteps
<1>4. Stage("xsa") \notin WsSteps \cup AppSteps /\ Stage("xsa") # Stage("flash")
      /\ Stage("xsa") # Tool("mcs")
  BY DEF WsSteps, AppSteps, Stage, Tool
<1> QED BY <1>1, <1>2, <1>3, <1>4, RankOfImageSteps, AsideTodo

LEMMA SamePending == ASSUME run'.todo = run.todo PROVE \A e : Pending(e)' <=> Pending(e)
BY DEF Pending, Elems

LEMMA EditFilesTodo ==
    ASSUME RunOK, FilesInv, TodoInv, Edit PROVE FilesInv' /\ TodoInv' /\ run'.calm = FALSE
<1>1. design' = design /\ stale' = stale /\ Meddled
  BY DEF Edit
<1>2. /\ \A w : w # "conf" => (Has(w)' <=> Has(w))
      /\ \A u, w : u # "conf" /\ w # "conf" => (Newer(u, w)' <=> Newer(u, w))
  <2>1. CASE UNCHANGED <<files, newer>>
    BY <2>1 DEF Has, Newer
  <2>2. CASE Touches(<<"conf">>)
    BY <2>2, TouchesOthers, OneElem
  <2>3. CASE Drops({"conf"})
    BY <2>3, DropsOthers
  <2> QED BY <2>1, <2>2, <2>3 DEF Edit
<1>3. FilesInv'
  BY <1>1, <1>2, ConfFiles DEF Has
<1>4. run'.todo = run.todo /\ run'.calm = FALSE
  BY <1>1, MeddledStack DEF Meddled, RunOK
<1> QED BY <1>1, <1>2, <1>3, <1>4, SamePending, SameTodoInv

-----------------------------------------------------------------------------
(* The cleans                                                               *)

LEMMA CleanFilesTodo ==
    ASSUME RunOK, FilesInv, TodoInv, Clean PROVE FilesInv' /\ TodoInv' /\ run'.calm = FALSE
<1> PICK scope \in Scopes : Removes(clean_paths(scope))
  BY DEF Clean
<1>1. design' = design /\ Meddled
  BY DEF Clean
<1> DEFINE gone == clean_paths(scope)
<1>2. Together(gone) /\ ("ws" \in gone => "boot" \in gone) /\ Removes(gone)
  BY CleanTogether
<1> HIDE DEF gone
<1>3. FilesInv'
  BY <1>1, <1>2, RemovesFiles
<1>4. /\ \A w : Has(w)' <=> Has(w) /\ w \notin gone
      /\ \A u, w : Newer(u, w)' => Newer(u, w)
      /\ stale' = stale \ gone
  BY <1>2, DropsOthers DEF Removes
<1>5. run'.todo = run.todo /\ run'.calm = FALSE
  BY <1>1, MeddledStack DEF Meddled, RunOK
<1>6. TodoInv'
  BY <1>1, <1>2, <1>4, <1>5, SamePending, SameTodoInv
<1> QED BY <1>3, <1>5, <1>6

LEMMA KeepBootFilesTodo ==
    ASSUME RunOK, PlanOK, FilesInv, TodoInv, KeepBoot \/ KeepBootKilled PROVE FilesInv' /\ TodoInv'
<1>1. design' = design /\ run' = run /\ run.todo = <<>>
  BY DEF KeepBoot, KeepBootKilled, RunOK
<1> QED BY <1>1, PlanTogether, RemovesFiles, EmptyTodo

-----------------------------------------------------------------------------
(* Every step                                                               *)

LEMMA StartTodo == ASSUME RunOK, Start PROVE TodoInv'
<1> PICK cmd \in BUILD_COMMANDS : run' = [cmd |-> cmd, todo |-> stages_for(cmd), calm |-> TRUE]
  BY DEF Start
<1>1. \A e : Pending(e)' => \E s \in BUILD_COMMANDS : e = Stage(s)
  <2>1. Elems(run.todo)' = Elems(stages_for(cmd))
    BY DEF Elems
  <2> QED BY <2>1, StagesAre DEF Pending
<1>2. \A s \in BUILD_COMMANDS :
        Stage(s) \notin WsSteps \cup AppSteps /\ Stage(s) # Stage("flash") /\ Stage(s) # Tool("mcs")
  BY DEF BUILD_COMMANDS, WsSteps, AppSteps, Stage, Tool
<1> QED BY <1>1, <1>2, NoAppTodo

LEMMA FilesTodoKept ==
    StepInv /\ FilesInv /\ TodoInv /\ [Next]_vars => FilesInv' /\ TodoInv'
<1> SUFFICES ASSUME StepInv, FilesInv, TodoInv, [Next]_vars PROVE FilesInv' /\ TodoInv'
  OBVIOUS
<1> USE DEF StepInv
<1>1. CASE Start
  <2>1. design' = design /\ UNCHANGED fvars
    BY <1>1 DEF Start, fvars
  <2> QED BY <1>1, <2>1, StartTodo, SameFiles
<1>2. CASE Finish
  <2>1. design' = design /\ UNCHANGED fvars /\ run'.todo = <<>>
    BY <1>2, IdleOK DEF Finish, fvars
  <2> QED BY <2>1, EmptyTodo, SameFiles
<1>3. CASE RunStage
  BY <1>3, RunStageFilesTodo
<1>4. CASE RunTool
  BY <1>4, RunToolFilesTodo
<1>5. CASE PetalinuxAgain
  BY <1>5, AgainFilesTodo
<1>6. CASE CutShort
  BY <1>6, CutShortFilesTodo
<1>7. CASE Refuses \/ Interrupts
  <2>1. design' = design /\ UNCHANGED fvars /\ FailRun
    BY <1>7 DEF Refuses, Interrupts, fvars
  <2> QED BY <2>1, FailTodo, SameFiles
<1>8. CASE Clean
  BY <1>8, CleanFilesTodo
<1>9. CASE KeepBoot \/ KeepBootKilled
  BY <1>9, KeepBootFilesTodo
<1>10. CASE PlanKeepBoot \/ DropPlan \/ UNCHANGED vars
  <2>1. design' = design /\ UNCHANGED fvars /\ run' = run
    BY <1>10 DEF PlanKeepBoot, DropPlan, vars, fvars
  <2> QED BY <2>1, SameFiles, SameHas, SamePending, SameTodoInv
<1>11. CASE Yocto
  <2>1. design' = design /\ YoctoShape
    BY <1>11, YoctoShapes
  <2>2. CASE FailRun /\ UNCHANGED fvars
    BY <2>1, <2>2, FailTodo, SameFiles
  <2>3. CASE FailRun /\ Writes(<<"hw">>)
    <3>1. Elems(<<"hw">>) = {"hw"} /\ Ordered({"hw"})
      BY OneElem, OrderedOther DEF Zips
    <3> QED BY <2>1, <2>3, <3>1, FailTodo, WritesFiles
  <2> QED BY <2>1, <2>2, <2>3, EditFilesTodo, YoctoTurnFilesTodo, ImageTurnFilesTodo DEF YoctoShape
<1> QED BY <1>1, <1>2, <1>3, <1>4, <1>5, <1>6, <1>7, <1>8, <1>9, <1>10, <1>11 DEF Next

-----------------------------------------------------------------------------
(* What is done, or still to be done, of an 'all' that nobody disturbs       *)

Undisturbed == run.cmd = "all" /\ run.calm

Fresh(x) == Has(x) /\ x \notin stale
Due(S) == \E e \in S : Pending(e)

\* What comes after the XSA.
AfterXsa ==
    /\ design.baremetal => Pending(Stage("standalone"))
    /\ design.cfgmem => Pending(Stage("cfgmem"))
    /\ Pending(Stage("package"))

XsaDue ==
    /\ Pending(Tool("xsa")) \/ ~Has("xsa") => AfterXsa
    /\ ~Has("xsa") => Pending(Stage("xsa")) \/ Pending(Tool("xsa"))
BootDue == design.baremetal => Fresh("boot") \/ Due(BootSteps)
McsDue == design.cfgmem => Fresh("mcs") \/ Due(FlashSteps)
FlashDue ==
    design.cfgmem /\ Due(WsSteps \cup BootSteps) => Pending(Stage("cfgmem")) \/ Pending(Stage("flash"))
PackageDue == \A e \in Entries : Pending(e) /\ Rank(e) < 10 => Pending(Stage("package"))
ZipDue(z) == Fresh(z) \/ Due({Stage("package"), Stage(z), Tool(z)})
ImagesDue ==
    design.yocto /\ ~design.windows => Has("yimg") \/ Due({Stage("yocto"), Tool("yimg")})

AllDue ==
    /\ XsaDue /\ BootDue /\ McsDue /\ FlashDue /\ PackageDue
    /\ \A z \in Shipped : ZipDue(z)
    /\ ImagesDue

AllInv == Undisturbed => AllDue

\* The entries these speak of are different ones.
LEMMA DueNames ==
    /\ \A e \in XsaSteps : e \notin WsSteps \cup BootSteps \cup FlashSteps \cup PackageSteps \cup ImageSteps
    /\ \A e \in WsSteps : e \notin XsaSteps \cup BootSteps \cup FlashSteps \cup PackageSteps \cup ImageSteps
    /\ \A e \in BootSteps : e \notin XsaSteps \cup WsSteps \cup FlashSteps \cup PackageSteps \cup ImageSteps
    /\ \A e \in FlashSteps : e \notin XsaSteps \cup WsSteps \cup BootSteps \cup PackageSteps \cup ImageSteps
    /\ \A e \in PackageSteps : e \notin XsaSteps \cup WsSteps \cup BootSteps \cup FlashSteps \cup ImageSteps
    /\ \A e \in PetalinuxSteps : e \notin XsaSteps \cup WsSteps \cup BootSteps \cup FlashSteps \cup PackageSteps \cup ImageSteps
    /\ \A e \in ImageSteps : e \notin XsaSteps \cup WsSteps \cup BootSteps \cup FlashSteps \cup PackageSteps
    /\ Stage("yocto") \notin XsaSteps \cup WsSteps \cup BootSteps \cup FlashSteps \cup PackageSteps \cup ImageSteps
<1>1. /\ \A e \in XsaSteps : Rank(e) = 0
      /\ \A e \in WsSteps : Rank(e) = 1
      /\ \A e \in BootSteps : Rank(e) = 2
      /\ \A e \in FlashSteps : Rank(e) = 3
      /\ \A e \in PetalinuxSteps : Rank(e) = 3
      /\ \A e \in PackageSteps : Rank(e) = 10
      /\ Rank(Stage("yocto")) = 9
  BY RankInGroup, RankOfImageSteps
<1>2. \A e \in PetalinuxSteps : e \notin FlashSteps
  BY DEF PetalinuxSteps, FlashSteps, Stage, Tool
<1>3. /\ Stage("yocto") \notin ImageSteps
      /\ \A e \in PetalinuxSteps \cup FlashSteps : e \notin ImageSteps
  BY NoImageSteps, ImageStepsApart
<1>4. \A e \in ImageSteps : Rank(e) \in 4 .. 9
  BY RankOfSteps
<1> QED BY <1>1, <1>2, <1>3, <1>4

LEMMA InGroup ==
    /\ Stage("xsa") \in XsaSteps /\ Tool("xsa") \in XsaSteps /\ Stage("project") \in XsaSteps
    /\ Stage("standalone") \in BootSteps /\ Stage("boot") \in BootSteps /\ Tool("boot") \in BootSteps
    /\ Stage("workspace") \in WsSteps /\ Tool("ws") \in WsSteps
    /\ Stage("cfgmem") \in FlashSteps /\ Stage("flash") \in FlashSteps /\ Tool("mcs") \in FlashSteps
    /\ Tool("yimg") \in ImageSteps /\ Stage("package") \in PackageSteps
    /\ \A z \in Zips : Stage(z) \in PackageSteps /\ Tool(z) \in PackageSteps
    /\ Stage("petalinux") \in PetalinuxSteps /\ Tool("petl") \in PetalinuxSteps
    /\ Tool("petl_again") \in PetalinuxSteps
    /\ Stage("xsa") # Tool("xsa") /\ Stage("xsa") # Stage("project") /\ Stage("project") # Tool("xsa")
    /\ Stage("standalone") # Stage("boot") /\ Stage("standalone") # Tool("boot")
    /\ Stage("cfgmem") # Stage("flash") /\ Stage("cfgmem") # Tool("mcs") /\ Stage("flash") # Tool("mcs")
    /\ \A z \in Zips : Stage(z) # Stage("package") /\ Tool(z) # Stage("package")
    /\ \A z, w \in Zips : Stage(z) # Tool(w) /\ (Stage(z) = Stage(w) => z = w) /\ (Tool(z) = Tool(w) => z = w)
BY DEF XsaSteps, WsSteps, BootSteps, FlashSteps, PackageSteps, PetalinuxSteps, ImageSteps, Stage, Tool, Zips

-----------------------------------------------------------------------------
(* Each of these, when a step at h pushes T                                  *)

\* Past the XSA, it is there.
LEMMA XsaBuilt ==
    ASSUME XsaDue, NEW h, NEW T, Turns(h, T), 1 <= Rank(h) PROVE Has("xsa")
<1>1. \A e \in Entries : Pending(e) => Rank(e) # 0
  BY RankType DEF Turns, Before
<1>2. Stage("xsa") \in Entries /\ Tool("xsa") \in Entries
  BY InGroup, Groups
<1> QED BY <1>1, <1>2, RankOfNamed DEF XsaDue

\* Behind the XSA nothing is due of it.
LEMMA XsaDueThere ==
    ASSUME NEW h, NEW T, Turns(h, T), 1 <= Rank(h), Has("xsa")', Tool("xsa") \notin T
    PROVE  XsaDue'
<1>1. Tool("xsa") \notin Rest
  BY RankType, RankOfNamed DEF Turns, Before
<1>2. ~Pending(Tool("xsa"))'
  BY <1>1 DEF Turns
<1> QED BY <1>2 DEF XsaDue

LEMMA XsaDueAside ==
    ASSUME XsaDue, NEW h, NEW T, Turns(h, T), h \in XsaSteps \ {Stage("xsa"), Tool("xsa")},
           Tool("xsa") \notin T, Has("xsa")' <=> Has("xsa")
    PROVE  XsaDue'
<1>1. /\ h # Stage("xsa") /\ h # Tool("xsa") /\ h # Stage("standalone") /\ h # Stage("cfgmem")
      /\ h # Stage("package")
  BY InGroup, DueNames
<1>2. \A e : Pending(e) /\ e # h => Pending(e)'
  BY DEF Turns
<1>3. AfterXsa => AfterXsa'
  BY <1>1, <1>2 DEF AfterXsa, Turns
<1>4. Pending(Tool("xsa"))' => Pending(Tool("xsa"))
  BY DEF Turns
<1> QED BY <1>1, <1>2, <1>3, <1>4 DEF XsaDue

LEMMA BootDueKept ==
    ASSUME BootDue, NEW h, NEW T, Turns(h, T), h \notin BootSteps, Fresh("boot") => Fresh("boot")'
    PROVE  BootDue'
BY DEF BootDue, Due, Turns

LEMMA McsDueKept ==
    ASSUME McsDue, NEW h, NEW T, Turns(h, T), h \notin FlashSteps, Fresh("mcs") => Fresh("mcs")'
    PROVE  McsDue'
BY DEF McsDue, Due, Turns

LEMMA FlashDueKept ==
    ASSUME FlashDue, NEW h, NEW T, Turns(h, T), h \notin {Stage("cfgmem"), Stage("flash")},
           h \in WsSteps \cup BootSteps \/ T \cap (WsSteps \cup BootSteps) = {}
    PROVE  FlashDue'
<1> SUFFICES ASSUME design.cfgmem, Due(WsSteps \cup BootSteps)'
             PROVE  Pending(Stage("cfgmem"))' \/ Pending(Stage("flash"))'
  BY DEF FlashDue, Turns
<1>1. Due(WsSteps \cup BootSteps)
  BY DEF Due, Turns
<1>2. Pending(Stage("cfgmem")) \/ Pending(Stage("flash"))
  BY <1>1 DEF FlashDue
<1> QED BY <1>2 DEF Turns

\* Past the application, the flash image is not to wait for it.
LEMMA FlashDuePast ==
    ASSUME NEW h, NEW T, Turns(h, T), 3 <= Rank(h), T \cap (WsSteps \cup BootSteps) = {}
    PROVE  FlashDue'
<1>1. \A e \in Rest : 3 <= Rank(e)
  BY RankType DEF Turns, Before
<1>2. ~Due(WsSteps \cup BootSteps)'
  BY <1>1, RankInGroup DEF Due, Turns
<1> QED BY <1>2 DEF FlashDue

LEMMA PackageDueKept ==
    ASSUME PackageDue, NEW h, NEW T, Turns(h, T),
           Rank(h) < 10 \/ \A e \in T : Rank(e) = 10
    PROVE  PackageDue'
<1>0. h \in Entries /\ Rest \subseteq Entries
  BY DEF Turns
<1>1. CASE Rank(h) < 10
  <2>1. Pending(Stage("package")) /\ h # Stage("package")
    BY <1>0, <1>1, RankOfNamed DEF PackageDue, Turns
  <2> QED BY <2>1 DEF PackageDue, Turns
<1>2. CASE Rank(h) = 10 /\ \A e \in T : Rank(e) = 10
  <2>1. \A e \in Rest : Rank(e) >= 10
    BY <1>0, <1>2, RankType DEF Turns, Before
  <2>2. \A e \in Entries : Pending(e)' => ~(Rank(e) < 10)
    BY <1>0, <1>2, <2>1, RankType DEF Turns
  <2> QED BY <2>2 DEF PackageDue
<1> QED BY <1>0, <1>1, <1>2, RankType

LEMMA ZipsDueKept ==
    ASSUME \A z \in Shipped : ZipDue(z), NEW h, NEW T, Turns(h, T), h \notin PackageSteps,
           \A z \in Shipped : Fresh(z) => Fresh(z)' \/ Pending(Stage("package"))
    PROVE  \A z \in Shipped' : ZipDue(z)'
<1>1. Shipped' = Shipped
  BY DEF Turns, Shipped, has_software_flow
<1> SUFFICES ASSUME NEW z \in Shipped PROVE ZipDue(z)'
  BY <1>1
<1>2. h \notin {Stage("package"), Stage(z), Tool(z)}
  BY InGroup, ShippedOf
<1>3. \A e \in {Stage("package"), Stage(z), Tool(z)} : Pending(e) => Pending(e)'
  BY <1>2 DEF Turns
<1>4. ZipDue(z)
  OBVIOUS
<1>5. Due({Stage("package"), Stage(z), Tool(z)}) => Due({Stage("package"), Stage(z), Tool(z)})'
  BY <1>3 DEF Due
<1>6. Pending(Stage("package")) => Due({Stage("package"), Stage(z), Tool(z)})
  BY DEF Due
<1> QED BY <1>4, <1>5, <1>6 DEF ZipDue

LEMMA ImagesDueKept ==
    ASSUME ImagesDue, NEW h, NEW T, Turns(h, T), h \notin {Stage("yocto"), Tool("yimg")},
           Has("yimg") => Has("yimg")'
    PROVE  ImagesDue'
BY DEF ImagesDue, Due, Turns

\* What is shipped of the files stays as it was.
SameShipped ==
    /\ Has("xsa")' <=> Has("xsa")
    /\ Fresh("boot") => Fresh("boot")'
    /\ Fresh("mcs") => Fresh("mcs")'
    /\ \A z \in Shipped : Fresh(z) => Fresh(z)'
    /\ Has("yimg") => Has("yimg")'

LEMMA SameFilesShipped == ASSUME UNCHANGED fvars PROVE SameShipped
BY SameHas DEF SameShipped, Fresh

LEMMA WritesShipped ==
    ASSUME NEW xs, Writes(xs),
           Elems(xs) \cap ({"xsa", "bit", "ws", "elf", "boot", "mcs", "yimg"} \cup Zips) = {}
    PROVE  SameShipped
<1> DEFINE W == Elems(xs)
<1>1. /\ \A w : Has(w)' <=> Has(w) \/ w \in W
      /\ \A w : w \in stale' <=> \/ w \in stale /\ w \notin W
                                 \/ w \in files /\ w \in Downstream(W)
                                 \/ w \in W /\ Inputs(w) \cap stale # {}
  BY WritesPoints
<1>2. "boot" \notin Downstream(W) /\ "mcs" \notin Downstream(W) /\ "bare_zip" \notin Downstream(W)
      /\ "yocto_zip" \notin Downstream(W) /\ (~FlashesApp => "bit_zip" \notin Downstream(W))
  BY DownstreamOf, BootOrBit
<1>3. \A z \in Shipped : z \notin Downstream(W)
  BY <1>2, ShippedOf
<1>4. \A z \in Shipped : z \notin W
  BY ShippedOf
<1> HIDE DEF W
<1>5. "boot" \notin W /\ "mcs" \notin W /\ "xsa" \notin W
  BY DEF W
<1> QED BY <1>1, <1>2, <1>3, <1>4, <1>5 DEF SameShipped, Fresh

\* A step that has no part in what is due.
LEMMA AllAside ==
    ASSUME AllDue, SameShipped, NEW h, NEW T, Turns(h, T),
           h \in (XsaSteps \ {Stage("xsa"), Tool("xsa")}) \cup PetalinuxSteps
                 \cup (ImageSteps \ {Tool("yimg")}),
           T \subseteq Entries \ (WsSteps \cup BootSteps \cup {Tool("xsa")})
    PROVE  AllDue'
<1>1. Rank(h) < 10 /\ (h \notin XsaSteps => 1 <= Rank(h) /\ 3 <= Rank(h))
  BY RankInGroup, RankOfSteps, RankType DEF Turns
<1>2. h \notin BootSteps /\ h \notin FlashSteps /\ h \notin PackageSteps
      /\ h \notin {Stage("yocto"), Tool("yimg")}
  BY DueNames, InGroup, ImageStepsApart, NoImageSteps
<1>3. XsaDue'
  <2>1. CASE h \in XsaSteps
    <3>1. h \in XsaSteps \ {Stage("xsa"), Tool("xsa")}
      BY <2>1, DueNames
    <3>2. Tool("xsa") \notin T /\ XsaDue /\ (Has("xsa")' <=> Has("xsa"))
      BY DEF AllDue, SameShipped
    <3> QED BY <3>1, <3>2, XsaDueAside
  <2>2. CASE h \notin XsaSteps
    <3>1. 1 <= Rank(h) /\ Tool("xsa") \notin T
      BY <1>1, <2>2
    <3>2. Has("xsa")
      BY <3>1, XsaBuilt DEF AllDue
    <3> QED BY <3>1, <3>2, XsaDueThere DEF SameShipped
  <2> QED BY <2>1, <2>2
<1>4. FlashDue'
  BY <1>2, FlashDueKept, InGroup DEF AllDue
<1>5. BootDue' /\ McsDue' /\ ImagesDue'
  BY <1>2, BootDueKept, McsDueKept, ImagesDueKept DEF AllDue, SameShipped
<1>6. PackageDue'
  BY <1>1, PackageDueKept DEF AllDue
<1>7. \A z \in Shipped' : ZipDue(z)'
  BY <1>2, ZipsDueKept DEF AllDue, SameShipped
<1> QED BY <1>3, <1>4, <1>5, <1>6, <1>7 DEF AllDue

-----------------------------------------------------------------------------
(* The steps of an 'all'                                                    *)

\* All at and past a step is of its rank or behind.
LEMMA Behind ==
    ASSUME NEW h, NEW T, Turns(h, T)
    PROVE  \A e \in Entries : Pending(e) => Rank(h) <= Rank(e)
<1>1. h \in Entries /\ Rest \subseteq Entries /\ \A e : Pending(e) <=> e = h \/ e \in Rest
  BY DEF Turns
<1>2. \A e \in Rest : Before(h, e)
  BY DEF Turns
<1> QED BY <1>1, <1>2, RankType DEF Before

\* A step of the middle of the run.
LEMMA MiddleDue ==
    ASSUME AllDue, NEW h, NEW T, Turns(h, T), Rank(h) \in 1 .. 9, Tool("xsa") \notin T,
           Has("xsa") => Has("xsa")', BootDue', McsDue', FlashDue', ImagesDue'
    PROVE  AllDue'
<1>1. XsaDue'
  BY XsaBuilt, XsaDueThere DEF AllDue
<1>2. h \in Entries /\ h \notin PackageSteps
  BY RankInGroup DEF Turns
<1>3. PackageDue'
  BY PackageDueKept DEF AllDue
<1>4. Pending(Stage("package"))
  BY <1>2 DEF AllDue, PackageDue, Turns
<1>5. \A z \in Shipped' : ZipDue(z)'
  BY <1>2, <1>4, ZipsDueKept DEF AllDue
<1> QED BY <1>1, <1>3, <1>5 DEF AllDue

\* A step of the application: the flash image comes after it.
LEMMA AppDue ==
    ASSUME AllDue, NEW h \in WsSteps \cup BootSteps, NEW T, Turns(h, T), Tool("xsa") \notin T,
           Has("xsa") => Has("xsa")', Has("yimg") => Has("yimg")', BootDue'
    PROVE  AllDue'
<1>1. /\ Rank(h) \in 1 .. 9 /\ h \notin FlashSteps
      /\ h \notin {Stage("cfgmem"), Stage("flash")} /\ h \notin {Stage("yocto"), Tool("yimg")}
  BY RankInGroup, DueNames, InGroup
<1>2. FlashDue'
  BY <1>1, FlashDueKept DEF AllDue
<1>3. McsDue'
  <2> SUFFICES ASSUME design.cfgmem PROVE Due(FlashSteps)'
    BY DEF McsDue, Turns
  <2>1. Due(WsSteps \cup BootSteps)
    BY DEF Due, Turns
  <2>2. Pending(Stage("cfgmem")) \/ Pending(Stage("flash"))
    BY <2>1 DEF AllDue, FlashDue
  <2>3. Pending(Stage("cfgmem"))' \/ Pending(Stage("flash"))'
    BY <1>1, <2>2 DEF Turns
  <2> QED BY <2>3, InGroup DEF Due
<1>4. ImagesDue'
  BY <1>1, ImagesDueKept DEF AllDue
<1> QED BY <1>1, <1>2, <1>3, <1>4, MiddleDue

\* A step of the packages.
LEMMA PackDue ==
    ASSUME AllDue, NEW h \in PackageSteps, NEW T, Turns(h, T), T \subseteq PackageSteps,
           Has("xsa") => Has("xsa")', Has("yimg") => Has("yimg")',
           Fresh("boot") => Fresh("boot")', Fresh("mcs") => Fresh("mcs")',
           \A z \in Shipped' : ZipDue(z)'
    PROVE  AllDue'
<1>1. /\ Rank(h) = 10 /\ \A e \in T : Rank(e) = 10
      /\ h \notin BootSteps /\ h \notin FlashSteps /\ h \notin {Stage("yocto"), Tool("yimg")}
      /\ Tool("xsa") \notin T /\ T \cap (WsSteps \cup BootSteps) = {}
  BY RankInGroup, DueNames, InGroup, RankOfImageSteps
<1>2. XsaDue'
  BY <1>1, XsaBuilt, XsaDueThere DEF AllDue
<1>3. BootDue' /\ McsDue' /\ ImagesDue'
  BY <1>1, BootDueKept, McsDueKept, ImagesDueKept DEF AllDue
<1>4. FlashDue'
  BY <1>1, FlashDuePast
<1>5. PackageDue'
  BY <1>1, PackageDueKept DEF AllDue
<1> QED BY <1>2, <1>3, <1>4, <1>5 DEF AllDue

\* Past the application its boot file is of the present XSA, and so on.
LEMMA PastBoot ==
    ASSUME AllDue, NEW h, NEW T, Turns(h, T), 3 <= Rank(h)
    PROVE  design.baremetal => Fresh("boot")
<1>1. \A e \in Entries : Pending(e) => 3 <= Rank(e)
  <2>1. h \in Entries /\ Rank(h) \in 0 .. 10
    BY RankType DEF Turns
  <2>2. \A e \in Entries : Pending(e) => Rank(h) <= Rank(e)
    BY Behind
  <2>3. \A e \in Entries : Rank(e) \in 0 .. 10
    BY RankType
  <2> QED BY <2>1, <2>2, <2>3
<1>2. \A e \in BootSteps : e \in Entries /\ Rank(e) = 2
  BY RankInGroup, Groups
<1>3. ~Due(BootSteps)
  BY <1>1, <1>2 DEF Due
<1> QED BY <1>3 DEF AllDue, BootDue

LEMMA SrcFresh ==
    ASSUME FilesInv, AllDue, NEW h, NEW T, Turns(h, T), 3 <= Rank(h)
    PROVE  cfgmem_src \notin stale
<1>1. FlashesApp => "boot" \notin stale
  BY PastBoot DEF FlashesApp, Fresh
<1>2. "bit" \notin stale
  BY DEF FilesInv, StaleHere
<1> QED BY <1>1, <1>2, BootOrBit

\* At the packages, what a zip gathers is there and up to date.
LEMMA SourcesReady ==
    ASSUME FilesInv, AllDue, NEW h \in PackageSteps, NEW T, Turns(h, T)
    PROVE  \A z \in Shipped : /\ ZipSources(z) # {} /\ ZipSources(z) \subseteq files \ stale
                              /\ Inputs(z) \cap stale = {}
<1>1. Rank(h) = 10
  BY RankInGroup
<1>2. design.baremetal => Fresh("boot")
  BY <1>1, PastBoot
<1>3. "mcs" \notin stale
  <2>1. ~Due(FlashSteps)
    BY <1>1, Behind, RankInGroup, Groups DEF Due, Turns
  <2>2. design.cfgmem => Fresh("mcs")
    BY <2>1 DEF AllDue, McsDue
  <2> QED BY <2>2 DEF FilesInv, McsIsOfDesign, StaleHere, Fresh, Has
<1>4. Has("bit") /\ "bit" \notin stale /\ "yimg" \notin stale
  BY <1>1, XsaBuilt DEF AllDue, FilesInv, XsaHasBit, StaleHere
<1>5. design.yocto /\ ~design.windows => Has("yimg")
  <2>1. ~Pending(Stage("yocto")) /\ ~Pending(Tool("yimg"))
    BY <1>1, Behind, RankOfImageSteps, InGroup, Groups
  <2> QED BY <2>1 DEF AllDue, ImagesDue, Due
<1> SUFFICES ASSUME NEW z \in Shipped
             PROVE  /\ ZipSources(z) # {} /\ ZipSources(z) \subseteq files \ stale
                    /\ Inputs(z) \cap stale = {}
  OBVIOUS
<1>6. CASE z = "bare_zip"
  <2>1. design.baremetal
    BY <1>6 DEF Shipped
  <2>2. Has("boot") /\ "boot" \notin stale
    BY <1>2, <2>1 DEF Fresh
  <2>3. "boot" \in vit_boot /\ vit_boot \subseteq {"boot", "mcs"}
    BY BootOrBit
  <2>4. ZipSources(z) = vit_boot \cap files
    BY <1>6, <2>2 DEF ZipSources
  <2>5. Inputs(z) = vit_boot
    BY <1>6, InputsOf
  <2> QED BY <1>3, <2>2, <2>3, <2>4, <2>5 DEF Has
<1>7. CASE z = "yocto_zip"
  <2>1. Has("yimg")
    BY <1>5, <1>7 DEF Shipped
  <2> QED BY <1>4, <1>7, <2>1, InputsOf DEF ZipSources, Has
<1>8. CASE z = "bit_zip"
  BY <1>3, <1>4, <1>8, InputsOf DEF ZipSources, Has
<1> QED BY <1>6, <1>7, <1>8, ShippedOf

-----------------------------------------------------------------------------
(* The stages of an 'all'                                                   *)

LEMMA XsaStageDue ==
    ASSUME AllDue, SameShipped, NEW T, Turns(Stage("xsa"), T),
           T = IF Has("xsa") THEN {} ELSE {Stage("project"), Tool("xsa")}
    PROVE  AllDue'
<1> DEFINE h == Stage("xsa")
<1>1. /\ h \notin BootSteps /\ h \notin FlashSteps /\ h \notin PackageSteps /\ Rank(h) = 0
      /\ h \notin {Stage("yocto"), Tool("yimg")} /\ T \cap (WsSteps \cup BootSteps) = {}
      /\ h # Stage("standalone") /\ h # Stage("cfgmem") /\ h # Stage("flash") /\ h # Stage("package")
  BY InGroup, DueNames, RankOfNamed
<1>2. Turns(h, T)
  OBVIOUS
<1> HIDE DEF h
<1>3. BootDue' /\ McsDue' /\ ImagesDue'
  BY <1>1, <1>2, BootDueKept, McsDueKept, ImagesDueKept DEF AllDue, SameShipped
<1>4. FlashDue' /\ PackageDue'
  BY <1>1, <1>2, FlashDueKept, PackageDueKept DEF AllDue
<1>5. \A z \in Shipped' : ZipDue(z)'
  BY <1>1, <1>2, ZipsDueKept DEF AllDue, SameShipped
<1>6. XsaDue'
  <2>1. AfterXsa => AfterXsa'
    BY <1>1, <1>2 DEF AfterXsa, Turns
  <2>2. CASE Has("xsa")
    <3>1. Pending(Tool("xsa"))' => Pending(Tool("xsa"))
      BY <1>2, <2>2 DEF Turns
    <3> QED BY <2>1, <2>2, <3>1 DEF AllDue, XsaDue, SameShipped
  <2>3. CASE ~Has("xsa")
    <3>1. Pending(Tool("xsa"))'
      BY <1>2, <2>3 DEF Turns
    <3> QED BY <2>1, <2>3, <3>1 DEF AllDue, XsaDue
  <2> QED BY <2>2, <2>3
<1> QED BY <1>3, <1>4, <1>5, <1>6 DEF AllDue

LEMMA StandaloneDue ==
    ASSUME FilesInv, AllDue, SameShipped, NEW T, Turns(Stage("standalone"), T),
           \/ ~design.baremetal /\ T = {}
           \/ Has("boot") /\ (Has("xsa") => Newer("boot", "xsa")) /\ T = {}
           \/ T = {Stage("workspace"), Stage("boot")}
    PROVE  AllDue'
<1>1. Tool("xsa") \notin T
  BY InGroup, DueNames
<1>2. Has("xsa")
  BY XsaBuilt, RankOfNamed DEF AllDue
<1>3. BootDue'
  <2>1. CASE ~design.baremetal
    BY <2>1 DEF BootDue, Turns
  <2>2. CASE Has("boot") /\ Newer("boot", "xsa")
    <3>1. Fresh("boot")
      BY <1>2, <2>2 DEF FilesInv, BootTold, Fresh
    <3> QED BY <3>1 DEF BootDue, SameShipped
  <2>3. CASE T = {Stage("workspace"), Stage("boot")}
    BY <2>3, InGroup DEF BootDue, Due, Turns
  <2> QED BY <1>2, <2>1, <2>2, <2>3
<1> QED BY <1>1, <1>3, InGroup, AppDue DEF SameShipped

LEMMA WorkspaceDue ==
    ASSUME AllDue, SameShipped, NEW T, Turns(Stage("workspace"), T), T \subseteq {Tool("ws")}
    PROVE  AllDue'
<1>1. Tool("xsa") \notin T /\ Stage("workspace") \notin BootSteps
  BY InGroup, DueNames
<1>2. BootDue'
  BY <1>1, BootDueKept DEF AllDue, SameShipped
<1> QED BY <1>1, <1>2, InGroup, AppDue DEF SameShipped

LEMMA BootStageDue ==
    ASSUME FilesInv, TodoInv, AllDue, SameShipped, NEW T, Turns(Stage("boot"), T),
           T = IF Has("boot") /\ Has("elf") /\ Newer("boot", "elf") THEN {} ELSE {Tool("boot")}
    PROVE  AllDue'
<1>1. Tool("xsa") \notin T
  BY InGroup, DueNames
<1>2. BootDue'
  <2>1. CASE Has("boot") /\ Has("elf") /\ Newer("boot", "elf")
    <3>1. \A e \in WsSteps : ~Pending(e)
      BY Behind, RankInGroup, RankOfNamed, Groups
    <3>2. "elf" \notin stale
      BY <3>1 DEF TodoInv, BootOfElf, AppSteps, Turns
    <3>3. Fresh("boot")
      BY <2>1, <3>2 DEF FilesInv, BootTold, Fresh
    <3> QED BY <3>3 DEF BootDue, SameShipped
  <2>2. CASE T = {Tool("boot")}
    BY <2>2, InGroup DEF BootDue, Due, Turns
  <2> QED BY <2>1, <2>2
<1> QED BY <1>1, <1>2, InGroup, AppDue DEF SameShipped

LEMMA CfgmemDue ==
    ASSUME AllDue, SameShipped, NEW T, Turns(Stage("cfgmem"), T),
           T = IF ~design.cfgmem THEN {}
               ELSE {Stage("xsa"), Stage("flash")}
                    \cup IF FlashesApp THEN {Stage("standalone")} ELSE {}
    PROVE  AllDue'
<1> DEFINE h == Stage("cfgmem")
<1>1. /\ h \notin BootSteps /\ Rank(h) = 3 /\ h \notin {Stage("yocto"), Tool("yimg")}
      /\ Tool("xsa") \notin T
  BY InGroup, DueNames, RankOfNamed
<1>2. Turns(h, T)
  OBVIOUS
<1> HIDE DEF h
<1>3. BootDue' /\ ImagesDue'
  BY <1>1, <1>2, BootDueKept, ImagesDueKept DEF AllDue, SameShipped
<1>4. McsDue' /\ FlashDue'
  <2>1. CASE ~design.cfgmem
    BY <2>1, <1>2 DEF McsDue, FlashDue, Turns
  <2>2. CASE design.cfgmem
    <3>1. Pending(Stage("flash"))'
      BY <2>2, <1>2 DEF Turns
    <3> QED BY <3>1, InGroup DEF McsDue, FlashDue, Due
  <2> QED BY <2>1, <2>2
<1> QED BY <1>1, <1>2, <1>3, <1>4, MiddleDue DEF SameShipped

LEMMA FlashStageDue ==
    ASSUME FilesInv, AllDue, SameShipped, NEW T, Turns(Stage("flash"), T), Has(cfgmem_src),
           T = IF Has("mcs") /\ Newer("mcs", cfgmem_src) THEN {} ELSE {Tool("mcs")}
    PROVE  AllDue'
<1> DEFINE h == Stage("flash")
<1>1. /\ h \notin BootSteps /\ Rank(h) = 3 /\ h \notin {Stage("yocto"), Tool("yimg")}
      /\ Tool("xsa") \notin T /\ T \cap (WsSteps \cup BootSteps) = {}
  BY InGroup, DueNames, RankOfNamed
<1>2. Turns(h, T)
  OBVIOUS
<1>3. cfgmem_src \notin stale
  BY <1>1, SrcFresh
<1> HIDE DEF h
<1>4. BootDue' /\ ImagesDue' /\ FlashDue'
  BY <1>1, <1>2, BootDueKept, ImagesDueKept, FlashDuePast DEF AllDue, SameShipped
<1>5. McsDue'
  <2>1. CASE Has("mcs") /\ Newer("mcs", cfgmem_src)
    <3>1. Fresh("mcs")
      BY <1>3, <2>1 DEF FilesInv, McsTold, Fresh
    <3> QED BY <3>1 DEF McsDue, SameShipped
  <2>2. CASE T = {Tool("mcs")}
    BY <1>2, <2>2, InGroup DEF McsDue, Due, Turns
  <2> QED BY <2>1, <2>2
<1> QED BY <1>1, <1>2, <1>4, <1>5, MiddleDue DEF SameShipped

LEMMA PackageStageDue ==
    ASSUME AllDue, SameShipped, NEW T, Turns(Stage("package"), T),
           T \subseteq {Stage(z) : z \in Zips}, \A z \in Shipped : Stage(z) \in T
    PROVE  AllDue'
<1>1. T \subseteq PackageSteps /\ Stage("package") \in PackageSteps
  BY InGroup
<1>2. \A z \in Shipped' : ZipDue(z)'
  <2>1. Shipped' = Shipped
    BY DEF Turns, Shipped, has_software_flow
  <2> QED BY <2>1 DEF ZipDue, Due, Turns
<1> QED BY <1>1, <1>2, PackDue DEF SameShipped

\* The zips that are not at their stage or tool.
LEMMA OtherZips ==
    ASSUME AllDue, NEW z \in Zips, NEW h \in {Stage(z), Tool(z)}, NEW T, Turns(h, T),
           \A w \in Shipped : w # z /\ Fresh(w) => Fresh(w)'
    PROVE  \A w \in Shipped : w # z => ZipDue(w)'
<1> SUFFICES ASSUME NEW w \in Shipped, w # z PROVE ZipDue(w)'
  OBVIOUS
<1>1. w \in Zips /\ h \notin {Stage("package"), Stage(w), Tool(w)}
  BY ShippedOf, InGroup
<1>2. \A e \in {Stage("package"), Stage(w), Tool(w)} : Pending(e) => Pending(e)'
  BY <1>1 DEF Turns
<1>3. ZipDue(w)
  BY DEF AllDue
<1> QED BY <1>2, <1>3 DEF ZipDue, Due

LEMMA ZipStageDue ==
    ASSUME FilesInv, AllDue, SameShipped, NEW z \in Zips, NEW T, Turns(Stage(z), T),
           T \subseteq {Tool(z)},
           T = {} /\ ZipSources(z) # {} /\ ZipSources(z) \subseteq files => _zip_current(z)
    PROVE  AllDue'
<1>1. T \subseteq PackageSteps /\ Stage(z) \in PackageSteps
  BY InGroup
<1>2. Shipped' = Shipped
  BY DEF Turns, Shipped, has_software_flow
<1>3. \A w \in Shipped : w # z => ZipDue(w)'
  BY OtherZips DEF SameShipped
<1>4. ASSUME z \in Shipped PROVE ZipDue(z)'
  <2>1. CASE T = {}
    <3>1. ZipSources(z) # {} /\ ZipSources(z) \subseteq files \ stale
      BY <1>1, <1>4, SourcesReady
    <3>2. _zip_current(z)
      BY <2>1, <3>1
    <3>3. Fresh(z)
      BY <1>4, <3>1, <3>2 DEF FilesInv, ZipTold, Fresh, _zip_current
    <3> QED BY <1>4, <3>3 DEF ZipDue, SameShipped
  <2>2. CASE T = {Tool(z)}
    BY <2>2 DEF ZipDue, Due, Turns
  <2> QED BY <2>1, <2>2
<1> QED BY <1>1, <1>2, <1>3, <1>4, PackDue DEF SameShipped

-----------------------------------------------------------------------------
(* The tools of an 'all'                                                    *)

\* After a new XSA everything is made anew.
LEMMA XsaToolDue ==
    ASSUME AllDue, Turns(Tool("xsa"), {}), Writes(<<"bit", "xsa">>) PROVE AllDue'
<1> DEFINE h == Tool("xsa")
<1>1. /\ h \notin {Stage("yocto"), Tool("yimg")}
      /\ h # Stage("standalone") /\ h # Stage("cfgmem") /\ h # Stage("flash") /\ h # Stage("package")
  BY InGroup, DueNames
<1>2. Turns(h, {}) /\ Pending(h) /\ AfterXsa
  BY DEF Turns, AllDue, XsaDue
<1> HIDE DEF h
<1>3. AfterXsa'
  BY <1>1, <1>2 DEF AfterXsa, Turns
<1>4. Has("xsa")' /\ (Has("yimg") => Has("yimg")')
  BY WritesPoints, ElemsOfTwo
<1>5. XsaDue'
  BY <1>3, <1>4 DEF XsaDue
<1>6. ImagesDue'
  BY <1>1, <1>2, <1>4, ImagesDueKept DEF AllDue
<1>7. BootDue' /\ McsDue' /\ FlashDue' /\ PackageDue'
  BY <1>3, InGroup DEF AfterXsa, BootDue, McsDue, FlashDue, PackageDue, Due
<1>8. \A z \in Shipped' : ZipDue(z)'
  BY <1>3 DEF AfterXsa, ZipDue, Due
<1> QED BY <1>5, <1>6, <1>7, <1>8 DEF AllDue

LEMMA WsToolDue ==
    ASSUME TodoInv, AllDue, Turns(Tool("ws"), {}), Writes(<<"ws", "elf">>) PROVE AllDue'
<1>1. Has("xsa") => Has("xsa")'
  BY WritesPoints
<1>2. Has("yimg") => Has("yimg")'
  BY WritesPoints
<1>3. BootDue'
  <2>1. Pending(Stage("boot"))
    BY InGroup DEF Turns, TodoInv, WsBeforeBoot
  <2>2. Pending(Stage("boot"))'
    BY <2>1, InGroup, DueNames DEF Turns
  <2> QED BY <2>2, InGroup DEF BootDue, Due
<1> QED BY <1>1, <1>2, <1>3, InGroup, AppDue

LEMMA BootToolDue ==
    ASSUME TodoInv, AllDue, Turns(Tool("boot"), {}), Writes(<<"boot">>) PROVE AllDue'
<1>1. (Has("xsa") => Has("xsa")') /\ (Has("yimg") => Has("yimg")')
  BY WritesPoints
<1>2. BootDue'
  <2>1. \A e \in WsSteps : ~Pending(e)
    BY Behind, RankInGroup, RankOfNamed, Groups
  <2>2. "elf" \notin stale
    BY <2>1 DEF TodoInv, BootOfElf, AppSteps, Turns
  <2>3. Elems(<<"boot">>) = {"boot"} /\ Inputs("boot") = {"elf"}
    BY OneElem, InputsOf
  <2>4. "boot" \notin Downstream({"boot"})
    BY DownstreamOf
  <2>5. Fresh("boot")'
    BY <2>2, <2>3, <2>4, WritesPoints DEF Fresh
  <2> QED BY <2>5 DEF BootDue
<1> QED BY <1>1, <1>2, InGroup, AppDue

LEMMA McsToolDue ==
    ASSUME FilesInv, AllDue, Turns(Tool("mcs"), {}), Writes(<<"mcs">>) PROVE AllDue'
<1> DEFINE h == Tool("mcs")
<1>1. /\ h \notin BootSteps /\ Rank(h) = 3 /\ h \notin {Stage("yocto"), Tool("yimg")}
      /\ Rank(h) \in 1 .. 9 /\ 3 <= Rank(h)
  BY InGroup, DueNames, RankOfNamed
<1>2. Turns(h, {})
  OBVIOUS
<1>3. cfgmem_src \notin stale
  BY <1>1, SrcFresh
<1> HIDE DEF h
<1>4. Elems(<<"mcs">>) = {"mcs"} /\ Inputs("mcs") = {cfgmem_src}
  BY OneElem, InputsOf
<1>5. "mcs" \notin Downstream({"mcs"}) /\ "boot" \notin Downstream({"mcs"})
  BY DownstreamOf, BootOrBit
<1>6. Fresh("mcs")' /\ (Fresh("boot") => Fresh("boot")')
      /\ (Has("xsa") => Has("xsa")') /\ (Has("yimg") => Has("yimg")')
  <2>1. /\ \A w : Has(w)' <=> Has(w) \/ w = "mcs"
        /\ \A w : w \in stale' <=> \/ w \in stale /\ w # "mcs"
                                   \/ w \in files /\ w \in Downstream({"mcs"})
                                   \/ w = "mcs" /\ Inputs(w) \cap stale # {}
    BY <1>4, WritesPoints
  <2>2. "mcs" \notin stale'
    BY <1>3, <1>4, <1>5, <2>1
  <2>3. "boot" \notin stale => "boot" \notin stale'
    BY <1>5, <2>1
  <2> QED BY <2>1, <2>2, <2>3 DEF Fresh
<1>7. BootDue' /\ ImagesDue' /\ FlashDue'
  BY <1>1, <1>2, <1>6, BootDueKept, ImagesDueKept, FlashDuePast DEF AllDue
<1>8. McsDue'
  BY <1>6 DEF McsDue
<1> QED BY <1>1, <1>2, <1>6, <1>7, <1>8, MiddleDue

LEMMA ZipToolDue ==
    ASSUME FilesInv, AllDue, NEW z \in Zips, Turns(Tool(z), {}), Writes(<<z>>) PROVE AllDue'
<1>1. Tool(z) \in PackageSteps /\ {} \subseteq PackageSteps
  BY InGroup
<1>2. Shipped' = Shipped
  BY DEF Turns, Shipped, has_software_flow
<1>3. Elems(<<z>>) = {z} /\ z \notin {"xsa", "bit", "elf", "boot", "mcs", "yimg"}
  BY OneElem DEF Zips
<1>4. /\ "boot" \notin Downstream({z}) /\ "mcs" \notin Downstream({z})
      /\ \A w \in Shipped : w \notin Downstream({z})
  <2>1. /\ "boot" \notin Downstream({z}) /\ "mcs" \notin Downstream({z})
        /\ "bare_zip" \notin Downstream({z}) /\ "yocto_zip" \notin Downstream({z})
        /\ ~FlashesApp => "bit_zip" \notin Downstream({z})
    BY <1>3, DownstreamOf, BootOrBit
  <2> QED BY <2>1, ShippedOf
<1>5. /\ Fresh("boot") => Fresh("boot")'
      /\ Fresh("mcs") => Fresh("mcs")'
      /\ (Has("xsa") => Has("xsa")') /\ (Has("yimg") => Has("yimg")')
      /\ \A w \in Shipped : w # z /\ Fresh(w) => Fresh(w)'
  BY <1>3, <1>4, WritesPoints DEF Fresh
<1>6. \A w \in Shipped : w # z => ZipDue(w)'
  BY <1>5, OtherZips
<1>7. ASSUME z \in Shipped PROVE ZipDue(z)'
  <2>1. Inputs(z) \cap stale = {}
    BY <1>1, <1>7, SourcesReady
  <2>2. Fresh(z)'
    BY <1>3, <1>4, <1>7, <2>1, WritesPoints DEF Fresh
  <2> QED BY <2>2 DEF ZipDue
<1> QED BY <1>1, <1>2, <1>5, <1>6, <1>7, PackDue

LEMMA YoctoTurnDue ==
    ASSUME AllDue, NEW T, YoctoTurn(T) PROVE AllDue'
<1> DEFINE h == Stage("yocto")
<1>1. /\ h \notin BootSteps /\ h \notin FlashSteps /\ Rank(h) = 9
      /\ Rank(h) \in 1 .. 9 /\ 3 <= Rank(h)
  BY DueNames, RankOfImageSteps
<1>2. Turns(h, T) /\ SameShipped
  BY SameFilesShipped DEF YoctoTurn
<1>3. Tool("xsa") \notin T /\ T \cap (WsSteps \cup BootSteps) = {}
  BY InGroup, DueNames DEF YoctoTurn
<1> HIDE DEF h
<1>4. BootDue' /\ McsDue' /\ FlashDue'
  BY <1>1, <1>2, <1>3, BootDueKept, McsDueKept, FlashDuePast DEF AllDue, SameShipped
<1>5. ImagesDue'
  <2>1. CASE T = {} /\ (design.yocto /\ ~design.windows => ImagesGood)
    BY <1>2, <2>1 DEF ImagesDue, ImagesGood, SameShipped, Turns
  <2>2. CASE T = {Stage("xsa")} \cup (ImageSteps \ {Tool("configdone")})
    <3>1. Tool("yimg") \in T
      BY <2>2, ImageNames
    <3> QED BY <1>2, <3>1 DEF ImagesDue, Due, Turns
  <2> QED BY <2>1, <2>2 DEF YoctoTurn
<1> QED BY <1>1, <1>2, <1>3, <1>4, <1>5, MiddleDue DEF SameShipped

LEMMA ImageTurnDue ==
    ASSUME AllDue, NEW e, NEW T, ImageTurn(e, T) PROVE AllDue'
<1>1. e \in ImageSteps /\ Turns(e, T) /\ T \subseteq ImageSteps /\ T \subseteq Entries
  BY DEF ImageTurn, Turns
<1>2. T \subseteq Entries \ (WsSteps \cup BootSteps \cup {Tool("xsa")})
  BY <1>1, DueNames, InGroup
<1>3. CASE SameShipped /\ e # Tool("yimg")
  BY <1>1, <1>2, <1>3, AllAside
<1>4. CASE e = Tool("yimg") /\ Writes(<<"yimg">>)
  <2>1. Elems(<<"yimg">>) = {"yimg"}
    BY OneElem
  <2>2. "mcs" \notin Downstream({"yimg"}) /\ "boot" \notin Downstream({"yimg"})
    BY DownstreamOf, BootOrBit
  <2>3. /\ (Fresh("mcs") => Fresh("mcs")') /\ (Fresh("boot") => Fresh("boot")')
        /\ (Has("xsa") => Has("xsa")') /\ Has("yimg")'
    BY <1>4, <2>1, <2>2, WritesPoints DEF Fresh
  <2>4. /\ Rank(e) = 8 /\ Rank(e) \in 1 .. 9 /\ 3 <= Rank(e) /\ e \notin BootSteps /\ e \notin FlashSteps
        /\ Tool("xsa") \notin T /\ T \cap (WsSteps \cup BootSteps) = {}
    BY <1>1, <1>2, <1>4, RankOfImageSteps, DueNames
  <2>5. BootDue' /\ McsDue' /\ FlashDue'
    BY <1>1, <2>3, <2>4, BootDueKept, McsDueKept, FlashDuePast DEF AllDue
  <2>6. ImagesDue'
    BY <2>3 DEF ImagesDue
  <2> QED BY <1>1, <2>3, <2>4, <2>5, <2>6, MiddleDue
<1>5. (SameShipped /\ e # Tool("yimg")) \/ (e = Tool("yimg") /\ Writes(<<"yimg">>))
  <2>1. CASE UNCHANGED fvars /\ e # Tool("yimg")
    BY <2>1, SameFilesShipped
  <2>2. ASSUME NEW w \in {"hw", "configdone"}, Writes(<<w>>) PROVE SameShipped
    <3>1. Elems(<<w>>) = {w}
      BY OneElem
    <3> QED BY <2>2, <3>1, WritesShipped DEF Zips
  <2>3. ASSUME NEW w \in {"hw", "configdone", "yimg"}, e = Tool(w), Writes(<<w>>)
        PROVE  (SameShipped /\ e # Tool("yimg")) \/ (e = Tool("yimg") /\ Writes(<<"yimg">>))
    <3>1. CASE w = "yimg"
      BY <2>3, <3>1
    <3>2. CASE w \in {"hw", "configdone"}
      BY <2>2, <2>3, <3>2, ImageNames
    <3> QED BY <3>1, <3>2
  <2> QED BY <2>1, <2>3 DEF ImageTurn
<1> QED BY <1>3, <1>4, <1>5

-----------------------------------------------------------------------------
(* Every step                                                               *)

LEMMA TurnsUndisturbed == \A h, T : Turns(h, T) => (Undisturbed' <=> Undisturbed)
BY DEF Turns, Undisturbed

LEMMA StageAll ==
    ASSUME RunOK, FilesInv, TodoInv, AllInv, UNCHANGED fvars, design' = design,
           NEW s \in StageNames, At(Stage(s)), Returns(STAGE_FUNCS(s)), Undisturbed'
    PROVE  AllDue'
<1> DEFINE T == Steps(STAGE_FUNCS(s))
<1>1. STAGE_FUNCS(s).ok /\ Turns(Stage(s), T)
  <2>1. run' # Idle
    BY IdleOK DEF Undisturbed
  <2> QED BY <2>1, StageTurns
<1>2. AllDue /\ SameShipped
  BY <1>1, TurnsUndisturbed, SameFilesShipped DEF AllInv
<1> HIDE DEF T
<1>3. ASSUME T \subseteq Entries \ (WsSteps \cup BootSteps \cup {Tool("xsa")}),
             Stage(s) \in (XsaSteps \ {Stage("xsa"), Tool("xsa")}) \cup PetalinuxSteps
      PROVE  AllDue'
  BY <1>1, <1>2, <1>3, AllAside
<1>4. CASE s \in {"ip", "project"}
  <2>1. T \subseteq XsaSteps \ {Stage("xsa"), Tool("xsa")}
    BY <1>4, StageFuncsAre, XsaStagesDo DEF T, RunOK
  <2>2. Stage(s) \in XsaSteps \ {Stage("xsa"), Tool("xsa")}
    BY <1>4 DEF XsaSteps, Stage, Tool
  <2> QED BY <1>3, <2>1, <2>2, Groups, DueNames
<1>5. CASE s = "xsa"
  BY <1>1, <1>2, <1>5, StageFuncsAre, XsaStagesDo, XsaStageDue DEF T
<1>6. CASE s = "standalone"
  <2>1. \/ ~design.baremetal /\ T = {}
        \/ Has("boot") /\ (Has("xsa") => Newer("boot", "xsa")) /\ T = {}
        \/ T = {Stage("workspace"), Stage("boot")}
    BY <1>6, StageFuncsAre, AppStagesDo DEF T
  <2> QED BY <1>1, <1>2, <1>6, <2>1, StandaloneDue
<1>7. CASE s = "workspace"
  <2>1. T \subseteq {Tool("ws")}
    BY <1>1, <1>7, StageFuncsAre, AppStagesDo DEF T
  <2> QED BY <1>1, <1>2, <1>7, <2>1, WorkspaceDue
<1>8. CASE s = "boot"
  <2>1. T = IF Has("boot") /\ Has("elf") /\ Newer("boot", "elf") THEN {} ELSE {Tool("boot")}
    BY <1>8, StageFuncsAre, AppStagesDo DEF T
  <2> QED BY <1>1, <1>2, <1>8, <2>1, BootStageDue
<1>9. CASE s = "cfgmem"
  <2>1. T = Steps(stage_cfgmem)
    BY <1>9, StageFuncsAre DEF T
  <2> QED BY <1>1, <1>2, <1>9, <2>1, AppStagesDo, CfgmemDue
<1>10. CASE s = "flash"
  <2>1. /\ Has(cfgmem_src)
        /\ T = IF Has("mcs") /\ Newer("mcs", cfgmem_src) THEN {} ELSE {Tool("mcs")}
    BY <1>1, <1>10, StageFuncsAre, AppStagesDo DEF T
  <2> QED BY <1>1, <1>2, <1>10, <2>1, FlashStageDue
<1>11. CASE s = "petalinux"
  <2>1. T \subseteq {Tool("petl")}
    BY <1>11, StageFuncsAre, PackageStagesDo DEF T
  <2> QED BY <1>3, <1>11, <2>1, InGroup, Groups, DueNames
<1>12. CASE s = "package"
  <2>1. T \subseteq {Stage(z) : z \in Zips} /\ \A z \in Shipped : Stage(z) \in T
    BY <1>12, StageFuncsAre, PackageStagesDo DEF T
  <2> QED BY <1>1, <1>2, <1>12, <2>1, PackageStageDue
<1>13. CASE s \in Zips
  <2>1. /\ T \subseteq {Tool(s)}
        /\ T = {} /\ ZipSources(s) # {} /\ ZipSources(s) \subseteq files => _zip_current(s)
    BY <1>1, <1>13, StageFuncsAre, PackageStagesDo DEF T
  <2> QED BY <1>1, <1>2, <1>13, <2>1, ZipStageDue
<1> QED BY <1>4, <1>5, <1>6, <1>7, <1>8, <1>9, <1>10, <1>11, <1>12, <1>13 DEF StageNames

LEMMA ToolAll ==
    ASSUME RunOK, FilesInv, TodoInv, AllInv, RunTool, Undisturbed' PROVE AllDue'
<1> PICK x \in ToolNames : At(Tool(x)) /\ Writes(Output(x)) /\ ToolDone
  BY DEF RunTool
<1>1. Turns(Tool(x), {}) /\ AllDue
  <2>1. Turns(Tool(x), {})
    BY AtTool DEF RunTool
  <2> QED BY <2>1, TurnsUndisturbed DEF AllInv
<1>2. CASE x = "xsa"
  BY <1>1, <1>2, XsaToolDue DEF Output
<1>3. CASE x = "ws"
  BY <1>1, <1>3, WsToolDue DEF Output
<1>4. CASE x = "boot"
  BY <1>1, <1>4, BootToolDue DEF Output
<1>5. CASE x = "mcs"
  BY <1>1, <1>5, McsToolDue DEF Output
<1>6. CASE x \in Zips
  <2>1. Output(x) = <<x>>
    BY <1>6 DEF Output, Zips
  <2> QED BY <1>1, <1>6, <2>1, ZipToolDue
<1>7. CASE x \in {"ip_done", "xpr", "petl", "petl_again"} \cup Elems(Cores)
  <2>1. x \notin {"xsa", "bit", "ws", "elf", "boot", "mcs", "yimg"} \cup Zips
    BY <1>7, CoreNames DEF TargetFiles, Zips
  <2>2. Elems(Output(x)) \subseteq {x, "pwork", "petl"}
    BY <2>1, OutputElems
  <2>3. SameShipped
    <3>1. {"pwork", "petl"} \cap ({"xsa", "bit", "ws", "elf", "boot", "mcs", "yimg"} \cup Zips) = {}
      BY DEF Zips
    <3> QED BY <2>1, <2>2, <3>1, WritesShipped
  <2>4. Tool(x) \in (XsaSteps \ {Stage("xsa"), Tool("xsa")}) \cup PetalinuxSteps
    <3>1. Tool(x) # Stage("xsa") /\ Tool(x) # Tool("xsa")
      BY <2>1 DEF Tool, Stage
    <3> QED BY <1>7, <3>1 DEF XsaSteps, PetalinuxSteps
  <2> QED BY <1>1, <2>3, <2>4, AllAside
<1> QED BY <1>2, <1>3, <1>4, <1>5, <1>6, <1>7 DEF ToolNames

LEMMA StartAll == ASSUME RunOK, Start, Undisturbed' PROVE AllDue'
<1>1. run' = [cmd |-> "all", todo |-> stages_for("all"), calm |-> TRUE] /\ design' = design
  BY DEF Start, Undisturbed
<1> DEFINE S == Elems(stages_for("all"))
<1>2. Elems(run.todo)' = S
  BY <1>1 DEF Elems
<1>3. S = {Stage("xsa"), Stage("package")}
          \cup (IF design.baremetal THEN {Stage("standalone")} ELSE {})
          \cup (IF design.cfgmem THEN {Stage("cfgmem")} ELSE {})
          \cup (IF design.petalinux THEN {Stage("petalinux")} ELSE {})
          \cup (IF design.yocto THEN {Stage("yocto")} ELSE {})
  BY StagesAre
<1> HIDE DEF S
<1>4. /\ Pending(Stage("xsa"))' /\ AfterXsa' /\ (design.yocto => Pending(Stage("yocto"))')
  BY <1>1, <1>2, <1>3 DEF Pending, AfterXsa
<1>5. XsaDue' /\ PackageDue'
  BY <1>4 DEF XsaDue, AfterXsa, PackageDue
<1>6. BootDue' /\ McsDue' /\ FlashDue' /\ ImagesDue'
  BY <1>1, <1>4, InGroup DEF AfterXsa, BootDue, McsDue, FlashDue, ImagesDue, Due
<1>7. \A z \in Shipped' : ZipDue(z)'
  BY <1>4 DEF AfterXsa, ZipDue, Due
<1> QED BY <1>5, <1>6, <1>7 DEF AllDue

LEMMA SameAll == ASSUME AllInv, design' = design, UNCHANGED fvars, run' = run PROVE AllInv'
<1>1. Undisturbed' <=> Undisturbed
  BY DEF Undisturbed
<1>2. /\ \A e : Pending(e)' <=> Pending(e)
      /\ \A x : (Has(x)' <=> Has(x)) /\ (Fresh(x)' <=> Fresh(x)) /\ Shipped' = Shipped
  BY SamePending, SameHas DEF Fresh, Shipped, has_software_flow
<1>3. (XsaDue' <=> XsaDue) /\ (BootDue' <=> BootDue) /\ (McsDue' <=> McsDue)
  BY <1>2 DEF XsaDue, AfterXsa, BootDue, McsDue, Due
<1>4. (FlashDue' <=> FlashDue) /\ (PackageDue' <=> PackageDue) /\ (ImagesDue' <=> ImagesDue)
  BY <1>2 DEF FlashDue, PackageDue, ImagesDue, Due
<1>5. \A z : ZipDue(z)' <=> ZipDue(z)
  BY <1>2 DEF ZipDue, Due
<1> QED BY <1>1, <1>2, <1>3, <1>4, <1>5 DEF AllInv, AllDue

LEMMA AllKept ==
    StepInv /\ FilesInv /\ TodoInv /\ AllInv /\ [Next]_vars => AllInv'
<1> SUFFICES ASSUME StepInv, FilesInv, TodoInv, AllInv, [Next]_vars, Undisturbed' PROVE AllDue'
  BY DEF AllInv
<1> USE DEF StepInv
<1>1. CASE Start
  BY <1>1, StartAll
<1>2. CASE Finish \/ CutShort \/ Refuses \/ Interrupts
  BY <1>2, IdleOK DEF Finish, CutShort, Refuses, Interrupts, FailRun, Undisturbed
<1>3. CASE RunStage
  <2>1. design' = design /\ UNCHANGED fvars
    BY <1>3 DEF RunStage, fvars
  <2>2. CASE \E s \in StageNames : At(Stage(s)) /\ Returns(STAGE_FUNCS(s))
    BY <2>1, <2>2, StageAll
  <2>3. CASE \E c \in Elems(Cores) : At(Core(c)) /\ Returns(stage_core(c))
    <3> PICK c \in Elems(Cores) : At(Core(c)) /\ Returns(stage_core(c))
      BY <2>3
    <3> PICK T : Turns(Core(c), T) /\ T \subseteq {Tool(c)}
      BY <2>1, CoreTurns
    <3>1. AllDue /\ SameShipped
      BY <2>1, TurnsUndisturbed, SameFilesShipped DEF AllInv
    <3>2. Core(c) \in XsaSteps \ {Stage("xsa"), Tool("xsa")}
          /\ Tool(c) \in XsaSteps \ {Stage("xsa"), Tool("xsa")}
      BY CoreStepsOK, CoreNames DEF Core, Stage, Tool, TargetFiles
    <3> QED BY <3>1, <3>2, Groups, DueNames, AllAside
  <2> QED BY <1>3, <2>2, <2>3 DEF RunStage
<1>4. CASE RunTool
  BY <1>4, ToolAll
<1>5. CASE PetalinuxAgain
  <2>1. Turns(Tool("petl"), {Tool("petl_again")}) /\ Writes(<<"pwork">>)
    BY <1>5, AgainTurns DEF PetalinuxAgain
  <2>2. AllDue
    BY <2>1, TurnsUndisturbed DEF AllInv
  <2>3. Elems(<<"pwork">>) = {"pwork"}
    BY OneElem
  <2>4. SameShipped
    BY <2>1, <2>3, WritesShipped DEF Zips
  <2> QED BY <2>1, <2>2, <2>4, InGroup, Groups, DueNames, AllAside
<1>6. CASE Clean
  BY <1>6, CleanFilesTodo DEF Undisturbed
<1>7. CASE KeepBoot \/ KeepBootKilled
  BY <1>7 DEF KeepBoot, KeepBootKilled, Undisturbed
<1>8. CASE PlanKeepBoot \/ DropPlan \/ UNCHANGED vars
  <2>1. design' = design /\ UNCHANGED fvars /\ run' = run
    BY <1>8 DEF PlanKeepBoot, DropPlan, vars, fvars
  <2> QED BY <2>1, SameAll DEF AllInv
<1>9. CASE Yocto
  <2>1. YoctoShape
    BY <1>9, YoctoShapes
  <2>2. CASE FailRun
    BY <2>2, IdleOK DEF FailRun, Undisturbed
  <2>3. CASE Edit
    BY <2>3, EditFilesTodo DEF Undisturbed
  <2>4. ASSUME NEW T, YoctoTurn(T) PROVE AllDue'
    BY <2>4, YoctoTurnDue, TurnsUndisturbed DEF AllInv, YoctoTurn
  <2>5. ASSUME NEW e, NEW T, ImageTurn(e, T) PROVE AllDue'
    BY <2>5, ImageTurnDue, TurnsUndisturbed DEF AllInv, ImageTurn
  <2> QED BY <2>1, <2>2, <2>3, <2>4, <2>5 DEF YoctoShape
<1> QED BY <1>1, <1>2, <1>3, <1>4, <1>5, <1>6, <1>7, <1>8, <1>9 DEF Next

-----------------------------------------------------------------------------
(* The zips after an 'all'                                                  *)

ShipInv == StepInv /\ FilesInv /\ TodoInv /\ AllInv /\ ShippedFresh

LEMMA ShipBegins == Init => ShipInv
<1> SUFFICES ASSUME Init PROVE ShipInv
  OBVIOUS
<1>1. StepInv /\ FilesInv
  BY StepInvBegins, FilesBegin
<1>2. run = Idle /\ settled = FALSE
  BY DEF Init, InitRun
<1>3. \A e : ~Pending(e)
  BY <1>2, IdleOK, None DEF Pending
<1>4. TodoInv
  BY <1>3 DEF TodoInv, WsOnce, WsNeeded, BootOfElf, WsBeforeBoot, XsaIsDone, FlashIsOfDesign
<1>5. AllInv
  BY <1>2, IdleOK DEF AllInv, Undisturbed
<1> QED BY <1>1, <1>2, <1>4, <1>5 DEF ShipInv, ShippedFresh

\* A settled target keeps its files, but for what a keep-boot clean takes.
LEMMA SettledSteps ==
    ASSUME [Next]_vars, settled'
    PROVE  \/ Finish
           \/ KeepBoot /\ settled
           \/ settled /\ design' = design /\ UNCHANGED fvars
<1>1. CASE Yocto
  <2>1. CASE YoctoHandoff \/ YoctoConfigured \/ YoctoBitbake \/ YoctoPackage \/ YoctoStamp \/ YoctoFails \/ Edit
    BY <2>1 DEF YoctoHandoff, YoctoConfigured, YoctoBitbake, YoctoPackage, YoctoStamp, YoctoFails,
               Edit, Meddled, ToolDone, FailRun, Returns
  <2>2. CASE StageYocto \/ YoctoSnapshot \/ YoctoConfigure
    BY <2>2 DEF StageYocto, YoctoSnapshot, YoctoConfigure, Returns, FailRun
  <2> QED BY <1>1, <2>1, <2>2 DEF Yocto
<1>2. CASE RunTool \/ PetalinuxAgain \/ CutShort \/ Refuses \/ Interrupts \/ Clean
  BY <1>2 DEF RunTool, PetalinuxAgain, CutShort, Refuses, Interrupts, Clean, ToolDone, FailRun, Meddled
<1>3. CASE Start \/ RunStage \/ PlanKeepBoot \/ DropPlan \/ UNCHANGED vars
  BY <1>3 DEF Start, RunStage, PlanKeepBoot, DropPlan, vars, fvars, Returns, FailRun
<1> QED BY <1>1, <1>2, <1>3 DEF Next, KeepBoot, KeepBootKilled

LEMMA ShippedKept == ShipInv /\ [Next]_vars => ShippedFresh'
<1> SUFFICES ASSUME ShipInv, [Next]_vars, settled', NEW z \in Shipped' PROVE Fresh(z)'
  BY DEF ShippedFresh, Fresh
<1> USE DEF ShipInv
<1>1. CASE settled /\ design' = design /\ UNCHANGED fvars
  BY <1>1, SameHas DEF ShippedFresh, Fresh, Shipped, has_software_flow
<1>2. CASE KeepBoot /\ settled
  <2>1. z \in Shipped /\ Fresh(z) /\ z \in Zips
    BY <1>2, ShippedOf DEF KeepBoot, ShippedFresh, Fresh, Shipped, has_software_flow
  <2> PICK S : Removes(S) /\ S \subseteq plan \cup {"elf"}
    BY <1>2, KeepBootRemoves DEF RemovePaths
  <2>2. z \notin S
    <3>1. plan \subseteq {"xpr", "ip_done", "ws", "pwork", "build", "configdone", "hw"} \cup Elems(Cores)
      BY DEF StepInv, PlanOK
    <3>2. z \notin Elems(Cores)
      BY <2>1, CoreNames DEF TargetFiles
    <3> QED BY <2>1, <3>1, <3>2 DEF Zips
  <2> QED BY <2>1, <2>2 DEF Removes, Drops, Fresh, Has
<1>3. CASE Finish /\ ~settled
  <2>1. Undisturbed /\ run.todo = <<>> /\ design' = design /\ UNCHANGED fvars
    BY <1>3 DEF Finish, Undisturbed, fvars
  <2>2. \A e : ~Pending(e)
    BY <2>1, None DEF Pending
  <2>3. z \in Shipped
    BY <2>1 DEF Shipped, has_software_flow
  <2>4. Fresh(z)
    BY <2>1, <2>2, <2>3 DEF AllInv, AllDue, ZipDue, Due
  <2> QED BY <2>1, <2>4, SameHas DEF Fresh
<1>4. CASE Finish /\ settled
  BY <1>1, <1>4 DEF Finish, fvars
<1> QED BY <1>1, <1>2, <1>3, <1>4, SettledSteps

\* After an 'all' that nobody disturbed every zip is there and holds what was made
\* from the present XSA and application, for any designs, cores, and numbers of
\* edits, runs, cleans and failures before it, in any order.
THEOREM ShippedIsFresh == Spec => []ShippedFresh
<1>1. Init => ShipInv
  BY ShipBegins
<1>2. ShipInv /\ [Next]_vars => ShipInv'
  BY StepInvKept, FilesTodoKept, AllKept, ShippedKept DEF ShipInv
<1>3. ShipInv => ShippedFresh
  BY DEF ShipInv
<1> QED BY <1>1, <1>2, <1>3, PTL DEF Spec

-----------------------------------------------------------------------------
(* What an 'all' that nobody disturbs leaves for the next one to look at     *)

\* What the stages want to find to be skipped. The application is looked at only
\* while its workspace is there.
WsGood == Has("ws") /\ Has("elf") /\ ~Newer("xsa", "ws")
BootGood ==
    Has("boot") /\ Newer("boot", "xsa") /\ (Has("ws") => WsGood /\ Newer("boot", "elf"))
McsGood == Has(cfgmem_src) /\ Has("mcs") /\ Newer("mcs", cfgmem_src)
Stamped == Has("yimg") /\ UpToDate /\ y.stamp.xsa # 0
ZipGood(z) ==
    \/ _zip_current(z)
    \/ NotGathered(z) /\ ~(ZipSources(z) # {} /\ ZipSources(z) \subseteq files)

Quiet ==
    /\ Has("xsa")
    /\ design.baremetal => BootGood
    /\ design.cfgmem => McsGood
    /\ design.petalinux /\ ~design.windows => Has("petl")
    /\ design.yocto /\ ~design.windows => Stamped
    /\ \A z \in Packaged : ZipGood(z)

\* The same of a run that is not done: it is so, or a step that makes it so is
\* still on the stack.
BootDone == design.baremetal => BootGood \/ Due(BootSteps)
AppReady == Due(AppSteps) /\ ~Due(WsSteps) => WsGood
McsDone == design.cfgmem => McsGood \/ Due(FlashSteps)
PetlDone == design.petalinux /\ ~design.windows => Has("petl") \/ Due(PetalinuxSteps)
ImagesDone ==
    design.yocto /\ ~design.windows =>
        /\ Stamped \/ Due({Stage("yocto"), Tool("stamp")})
        /\ Pending(Tool("xsa")) \/ ~Has("xsa") => Pending(Stage("yocto"))
\* What is hashed is still what it was, and what is packed is there.
PhasesDone == (Hashed => y.snap = yocto_inputs) /\ (Packed => Has("yimg"))
ZipDone(z) == ZipGood(z) \/ Due({Stage("package"), Stage(z), Tool(z)})

AllDone ==
    /\ BootDone /\ AppReady /\ McsDone /\ PetlDone /\ ImagesDone /\ PhasesDone
    /\ \A z \in Packaged : ZipDone(z)

\* A boot file that was made from its application is newer than the XSA of that.
BootAbove ==
    Has("boot") /\ Has("elf") /\ Has("xsa") /\ Newer("boot", "elf") /\ ~Newer("xsa", "ws")
    => Newer("boot", "xsa")

\* The stages that an 'all' goes through when there is nothing to do.
QuietStages ==
    {Stage("xsa"), Stage("standalone"), Stage("workspace"), Stage("boot"), Stage("cfgmem"),
     Stage("flash"), Stage("petalinux"), Stage("yocto"), Stage("package")}
    \cup {Stage(z) : z \in Packaged}

OnlyLooks ==
    /\ \A e \in Elems(run.todo) : e \in QuietStages
    /\ Pending(Stage("workspace")) \/ Pending(Stage("boot")) => design.baremetal /\ Has("ws")

QuietInv ==
    /\ BootAbove
    /\ Undisturbed => AllDone
    /\ settled => Quiet
    /\ settled /\ Undisturbed => OnlyLooks

-----------------------------------------------------------------------------
(* The times of the boot file                                               *)

\* What a step does to the files.
LEMMA FileSteps ==
    ASSUME RunOK, ImagesInOrder, PlanOK, FilesInv, TodoInv, [Next]_vars
    PROVE  \/ UNCHANGED fvars
           \/ \E xs : Writes(xs) /\ Ordered(Elems(xs))
           \/ \E S : Removes(S) /\ Together(S)
           \/ Edit
<1>1. CASE Start \/ Finish \/ RunStage \/ Refuses \/ Interrupts \/ PlanKeepBoot \/ DropPlan
           \/ UNCHANGED vars
  BY <1>1 DEF Start, Finish, RunStage, Refuses, Interrupts, PlanKeepBoot, DropPlan, vars, fvars
<1>2. CASE RunTool
  <2> PICK x \in ToolNames : At(Tool(x)) /\ Writes(Output(x))
    BY <1>2 DEF RunTool
  <2> QED BY ToolOrdered
<1>3. CASE PetalinuxAgain
  <2>1. Elems(<<"pwork">>) = {"pwork"} /\ Ordered({"pwork"})
    BY OneElem, OrderedOther DEF Zips
  <2> QED BY <1>3, <2>1 DEF PetalinuxAgain
<1>4. CASE CutShort
  <2> PICK x \in ToolNames :
        /\ At(Tool(x))
        /\ \/ Removes(Discarded(x))
           \/ \E n \in DOMAIN Output(x) : Writes(SubSeq(Output(x), 1, n))
    BY <1>4 DEF CutShort
  <2> QED BY DiscardedTogether, ToolOrdered, CutOrdered
<1>5. CASE Clean
  <2> PICK scope \in Scopes : Removes(clean_paths(scope))
    BY <1>5 DEF Clean
  <2> QED BY CleanTogether
<1>6. CASE KeepBoot \/ KeepBootKilled
  BY <1>6, PlanTogether
<1>7. CASE Yocto
  <2>1. YoctoShape
    BY <1>7, YoctoShapes
  <2>2. ASSUME NEW w \in {"hw", "configdone", "yimg"}, Writes(<<w>>)
        PROVE  \E xs : Writes(xs) /\ Ordered(Elems(xs))
    <3>1. Elems(<<w>>) = {w} /\ Ordered({w})
      BY OneElem, OrderedOther DEF Zips
    <3> QED BY <2>2, <3>1
  <2> QED BY <2>1, <2>2 DEF YoctoShape, YoctoTurn, ImageTurn
<1> QED BY <1>1, <1>2, <1>3, <1>4, <1>5, <1>6, <1>7 DEF Next

LEMMA WritesAbove ==
    ASSUME FilesInv, BootAbove, NEW xs, Writes(xs), Ordered(Elems(xs)) PROVE BootAbove'
<1> DEFINE W == Elems(xs)
<1>1. /\ \A w : Has(w)' <=> Has(w) \/ w \in W
      /\ \A u, w : u \notin W /\ w \notin W => (Newer(u, w)' <=> Newer(u, w))
      /\ \A u, w : u \in files \ W /\ w \in W => Newer(w, u)' /\ ~Newer(u, w)'
  BY WritesPoints
<1>2. Ordered(W) /\ ElfHasWs
  BY DEF FilesInv
<1> HIDE DEF W
<1> SUFFICES ASSUME Has("boot")', Has("elf")', Has("xsa")', Newer("boot", "elf")', ~Newer("xsa", "ws")'
             PROVE  Newer("boot", "xsa")'
  BY DEF BootAbove
<1>3. CASE "xsa" \in W
  <2>1. "elf" \notin W /\ "ws" \notin W
    BY <1>2, <1>3 DEF Ordered
  <2>2. Has("ws")
    BY <1>1, <1>2, <2>1 DEF ElfHasWs
  <2> QED BY <1>1, <1>3, <2>1, <2>2 DEF Has
<1>4. CASE "boot" \in W
  <2>1. "xsa" \notin W /\ Has("xsa")
    BY <1>1, <1>2, <1>4 DEF Ordered
  <2> QED BY <1>1, <1>4, <2>1 DEF Has
<1>5. CASE "ws" \in W
  <2>1. ~Has("elf") /\ W \subseteq {"ws", "elf"}
    BY <1>2, <1>5 DEF Ordered, ElfHasWs
  <2>2. "elf" \in W /\ "boot" \notin W /\ Has("boot")
    BY <1>1, <2>1
  <2> QED BY <1>1, <2>2 DEF Has
<1>6. CASE W \cap {"xsa", "boot", "ws", "elf"} = {}
  BY <1>1, <1>6 DEF BootAbove
<1> QED BY <1>2, <1>3, <1>4, <1>5, <1>6 DEF Ordered

LEMMA AboveKept == StepInv /\ FilesInv /\ TodoInv /\ BootAbove /\ [Next]_vars => BootAbove'
<1> SUFFICES ASSUME StepInv, FilesInv, TodoInv, BootAbove, [Next]_vars PROVE BootAbove'
  OBVIOUS
<1>1. CASE UNCHANGED fvars
  BY <1>1, SameHas DEF BootAbove
<1>2. ASSUME NEW S, Removes(S), Together(S) PROVE BootAbove'
  <2>1. /\ \A w : Has(w)' <=> Has(w) /\ w \notin S
        /\ \A u, w : Newer(u, w)' <=> Newer(u, w) /\ u \notin S /\ w \notin S
    BY <1>2, DropsOthers DEF Removes
  <2> QED BY <1>2, <2>1 DEF BootAbove, Together
<1>3. CASE Edit
  <2>1. /\ \A w : w # "conf" => (Has(w)' <=> Has(w))
        /\ \A u, w : u # "conf" /\ w # "conf" => (Newer(u, w)' <=> Newer(u, w))
    <3>1. CASE UNCHANGED <<files, newer>>
      BY <3>1 DEF Has, Newer
    <3>2. CASE Touches(<<"conf">>)
      BY <3>2, TouchesOthers, OneElem
    <3>3. CASE Drops({"conf"})
      BY <3>3, DropsOthers
    <3> QED BY <1>3, <3>1, <3>2, <3>3 DEF Edit
  <2> QED BY <2>1 DEF BootAbove
<1> QED BY <1>1, <1>2, <1>3, FileSteps, WritesAbove DEF StepInv

-----------------------------------------------------------------------------
(* What leaves the files of a stage as they are                             *)

Alike(L) ==
    /\ \A x \in L : Has(x)' <=> Has(x)
    /\ \A x, w \in L : Newer(x, w)' <=> Newer(x, w)

AppFiles == {"xsa", "ws", "elf", "boot"}
FlashFiles == {"boot", "bit", "mcs"}
GatheredFiles == {"boot", "bit", "mcs", "petl", "yimg"}
LookedAt == AppFiles \cup GatheredFiles \cup Zips

\* The inputs of the images, what was hashed of them and what was stamped.
InputsKept ==
    /\ y'.text = y.text /\ y'.conf = y.conf /\ y'.recipe = y.recipe /\ y'.port = y.port
    /\ y'.xsa = y.xsa
    /\ y'.snap = y.snap /\ y'.stamp = y.stamp

LEMMA WritesAlike == ASSUME NEW xs, Writes(xs), NEW L, Elems(xs) \cap L = {} PROVE Alike(L)
BY WritesPoints DEF Alike

LEMMA SameAlike == ASSUME UNCHANGED fvars PROVE \A L : Alike(L)
BY SameHas DEF Alike

LEMMA AlikePart == ASSUME NEW L, Alike(L), NEW M \in SUBSET L PROVE Alike(M)
BY DEF Alike

LEMMA LookedAtParts ==
    /\ AppFiles \subseteq LookedAt /\ FlashFiles \subseteq LookedAt
    /\ \A z \in Zips : GatheredFiles \cup {z} \subseteq LookedAt
    /\ "yimg" \in LookedAt /\ "petl" \in LookedAt /\ "xsa" \in LookedAt
BY DEF LookedAt, AppFiles, FlashFiles, GatheredFiles

LEMMA AppAlike ==
    ASSUME Alike(AppFiles)
    PROVE  (WsGood' <=> WsGood) /\ (BootGood' <=> BootGood)
BY DEF Alike, AppFiles, WsGood, BootGood

LEMMA FlashAlike == ASSUME Alike(FlashFiles), design' = design PROVE McsGood' <=> McsGood
<1> SUFFICES ASSUME NEW s \in {"boot", "bit"}, s = cfgmem_src PROVE McsGood' <=> McsGood
  BY BootOrBit
<1>1. s = cfgmem_src'
  BY DEF cfgmem_src, FlashesApp
<1>2. McsGood <=> Has(s) /\ Has("mcs") /\ Newer("mcs", s)
  BY DEF McsGood
<1>3. McsGood' <=> Has(s)' /\ Has("mcs")' /\ Newer("mcs", s)'
  BY <1>1 DEF McsGood, Has, Newer
<1> QED BY <1>2, <1>3 DEF Alike, FlashFiles

LEMMA ImagesAlike ==
    ASSUME Alike({"xsa", "yimg"}), InputsKept
    PROVE  (Stamped' <=> Stamped) /\ yocto_inputs' = yocto_inputs
<1>1. (Has("xsa")' <=> Has("xsa")) /\ (Has("yimg")' <=> Has("yimg"))
  BY DEF Alike
<1>2. yocto_inputs' = yocto_inputs
  BY <1>1 DEF yocto_inputs, InputsKept
<1>3. UpToDate' <=> UpToDate
  BY <1>1, <1>2 DEF UpToDate, InputsKept, yocto_input_changes, Text
<1> QED BY <1>1, <1>2, <1>3 DEF Stamped, InputsKept

LEMMA PackagedOf == Packaged \subseteq Zips
BY DEF Packaged, Zips

LEMMA SourcesAlike ==
    ASSUME Alike(GatheredFiles), design' = design
    PROVE  \A z \in Zips : ZipSources(z)' = ZipSources(z) /\ ZipSources(z) \subseteq GatheredFiles
<1>1. vit_boot' = vit_boot /\ vit_boot \subseteq {"boot", "mcs"}
  BY BootOrBit DEF vit_boot, FlashesApp
<1>2. /\ "boot" \in files' <=> "boot" \in files
      /\ "mcs" \in files' <=> "mcs" \in files
  BY DEF Alike, GatheredFiles, Has
<1> QED BY <1>1, <1>2 DEF ZipSources, Zips, GatheredFiles, Has

LEMMA ZipAlike ==
    ASSUME NEW z \in Zips, Alike(GatheredFiles \cup {z}), design' = design
    PROVE  ZipGood(z)' <=> ZipGood(z)
<1>1. \A x \in GatheredFiles \cup {z} : (Has(x)' <=> Has(x)) /\ (Newer(z, x)' <=> Newer(z, x))
  BY DEF Alike
<1>2. ZipSources(z)' = ZipSources(z) /\ ZipSources(z) \subseteq GatheredFiles
  BY AlikePart, SourcesAlike
<1>3. ZipSources(z) \subseteq files' <=> ZipSources(z) \subseteq files
  BY <1>1, <1>2 DEF Has
<1>4. NotGathered(z)' <=> NotGathered(z)
  BY DEF NotGathered
<1>5. _zip_current(z)' <=> _zip_current(z)
  <2>1. \A x \in ZipSources(z) : Newer(z, x)' <=> Newer(z, x)
    BY <1>1, <1>2
  <2>2. Has(z)' <=> Has(z)
    BY <1>1
  <2> QED BY <1>2, <1>3, <2>1, <2>2 DEF _zip_current
<1> QED BY <1>2, <1>3, <1>4, <1>5 DEF ZipGood

-----------------------------------------------------------------------------
(* Each of these, when a step at h pushes T                                  *)

LEMMA BootDoneKept ==
    ASSUME BootDone, NEW h, NEW T, Turns(h, T), h \notin BootSteps, BootGood => BootGood'
    PROVE  BootDone'
BY DEF BootDone, Due, Turns

LEMMA AppReadyKept ==
    ASSUME AppReady, NEW h, NEW T, Turns(h, T), h \notin WsSteps, T \cap AppSteps = {},
           WsGood => WsGood'
    PROVE  AppReady'
BY DEF AppReady, Due, Turns

\* Past the application nothing of it is pending.
LEMMA AppReadyPast ==
    ASSUME NEW h, NEW T, Turns(h, T), 2 <= Rank(h), T \cap AppSteps = {}
    PROVE  AppReady'
<1>1. \A e \in AppSteps : Rank(e) = 2 /\ e \in Entries
  BY AppStepsApart, RankInGroup, Groups
<1>2. h \in Entries /\ Rest \subseteq Entries /\ \A e \in Rest : Before(h, e)
  BY DEF Turns
<1>3. \A e \in AppSteps : e \notin Rest
  <2> SUFFICES ASSUME NEW e \in AppSteps, e \in Rest PROVE FALSE
    OBVIOUS
  <2>1. Rank(h) \in 0 .. 10 /\ Rank(e) = 2 /\ Before(h, e)
    BY <1>1, <1>2, RankType
  <2> QED BY <2>1 DEF Before
<1>4. ~Due(AppSteps)'
  BY <1>3 DEF Due, Turns
<1> QED BY <1>4 DEF AppReady

LEMMA McsDoneKept ==
    ASSUME McsDone, NEW h, NEW T, Turns(h, T), h \notin FlashSteps, McsGood => McsGood'
    PROVE  McsDone'
BY DEF McsDone, Due, Turns

LEMMA PetlDoneKept ==
    ASSUME PetlDone, NEW h, NEW T, Turns(h, T), h \notin PetalinuxSteps, Has("petl") => Has("petl")'
    PROVE  PetlDone'
BY DEF PetlDone, Due, Turns

LEMMA ImagesDoneKept ==
    ASSUME ImagesDone, NEW h, NEW T, Turns(h, T), h \notin {Stage("yocto"), Tool("stamp")},
           Stamped => Stamped', Has("xsa") => Has("xsa")', Tool("xsa") \in T => ~Has("xsa")
    PROVE  ImagesDone'
BY DEF ImagesDone, Due, Turns

LEMMA PhasesDoneKept ==
    ASSUME PhasesDone, NEW h, NEW T, Turns(h, T), h \notin ImageSteps, T \cap ImageSteps = {},
           Hashed => y'.snap = y.snap /\ yocto_inputs' = yocto_inputs, Has("yimg") => Has("yimg")'
    PROVE  PhasesDone'
<1>1. \A s \in ImageSteps : Pending(s)' <=> Pending(s)
  BY DEF Turns
<1>2. (Hashed' <=> Hashed) /\ (Packed' <=> Packed)
  BY <1>1, ImageNames DEF Hashed, Packed
<1> QED BY <1>2 DEF PhasesDone

\* Before the packages, all of them are to come.
LEMMA ZipsToCome ==
    ASSUME PackageDue, NEW h, NEW T, Turns(h, T), Rank(h) < 10
    PROVE  \A z \in Packaged' : ZipDone(z)'
<1>1. Pending(Stage("package")) /\ h # Stage("package")
  BY RankOfNamed DEF PackageDue, Turns
<1>2. Pending(Stage("package"))'
  BY <1>1 DEF Turns
<1> QED BY <1>2 DEF ZipDone, Due

\* A step that has no part in the application, the images and the packages.
LEMMA DoneMiddle ==
    ASSUME PackageDue, AllDone, Alike(AppFiles), Alike({"xsa", "yimg"}), InputsKept,
           NEW h, NEW T, Turns(h, T),
           h \in (XsaSteps \ {Tool("xsa")}) \cup FlashSteps \cup PetalinuxSteps,
           T \cap (AppSteps \cup ImageSteps) = {}, Tool("xsa") \in T => ~Has("xsa"),
           McsDone', PetlDone'
    PROVE  AllDone'
<1>1. Rank(h) < 10 /\ h \in Entries
  BY RankInGroup DEF Turns
<1>2. /\ h \notin BootSteps /\ h \notin WsSteps /\ h \notin ImageSteps
      /\ h \notin {Stage("yocto"), Tool("stamp")}
  BY DueNames, InGroup, ImageStepsApart, NoImageSteps, ImageNames
<1>3. T \cap AppSteps = {} /\ T \cap ImageSteps = {}
  OBVIOUS
<1>4. /\ BootGood' <=> BootGood
      /\ WsGood' <=> WsGood
      /\ (Stamped' <=> Stamped) /\ yocto_inputs' = yocto_inputs /\ y'.snap = y.snap
      /\ (Has("xsa")' <=> Has("xsa")) /\ (Has("yimg")' <=> Has("yimg"))
  BY AppAlike, ImagesAlike DEF Alike, InputsKept
<1>5. BootDone' /\ ImagesDone' /\ PhasesDone'
  BY <1>2, <1>3, <1>4, BootDoneKept, ImagesDoneKept, PhasesDoneKept DEF AllDone
<1>6. AppReady'
  BY <1>2, <1>3, <1>4, AppReadyKept DEF AllDone
<1> QED BY <1>1, <1>5, <1>6, ZipsToCome DEF AllDone

\* A step of the application: the flash image comes after it.
LEMMA DoneApp ==
    ASSUME PackageDue, FlashDue, AllDone, Alike({"xsa", "yimg"}), InputsKept,
           Has("petl") => Has("petl")', NEW h \in WsSteps \cup BootSteps, NEW T, Turns(h, T),
           T \cap ImageSteps = {}, Tool("xsa") \notin T, BootDone', AppReady'
    PROVE  AllDone'
<1>1. /\ Rank(h) < 10 /\ h \notin PetalinuxSteps /\ h \notin ImageSteps
      /\ h \notin {Stage("cfgmem"), Stage("flash")} /\ h \notin {Stage("yocto"), Tool("stamp")}
  BY RankInGroup, DueNames, InGroup, ImageNames
<1>2. (Stamped' <=> Stamped) /\ yocto_inputs' = yocto_inputs /\ y'.snap = y.snap
      /\ (Has("xsa")' <=> Has("xsa")) /\ (Has("yimg")' <=> Has("yimg"))
  BY ImagesAlike DEF Alike, InputsKept
<1>3. PetlDone' /\ ImagesDone' /\ PhasesDone'
  BY <1>1, <1>2, PetlDoneKept, ImagesDoneKept, PhasesDoneKept DEF AllDone
<1>4. McsDone'
  <2> SUFFICES ASSUME design.cfgmem PROVE Due(FlashSteps)'
    BY DEF McsDone, Turns
  <2>1. Pending(Stage("cfgmem")) \/ Pending(Stage("flash"))
    BY DEF FlashDue, Due, Turns
  <2>2. Pending(Stage("cfgmem"))' \/ Pending(Stage("flash"))'
    BY <1>1, <2>1 DEF Turns
  <2> QED BY <2>2, InGroup DEF Due
<1> QED BY <1>1, <1>3, <1>4, ZipsToCome DEF AllDone

\* A step of the packages.
LEMMA DonePack ==
    ASSUME AllDone, Alike(LookedAt \ Zips), InputsKept, NEW h \in PackageSteps, NEW T,
           Turns(h, T), T \subseteq PackageSteps, \A z \in Packaged' : ZipDone(z)'
    PROVE  AllDone'
<1>1. /\ h \notin BootSteps /\ h \notin WsSteps /\ h \notin FlashSteps /\ h \notin PetalinuxSteps
      /\ h \notin ImageSteps /\ h \notin {Stage("yocto"), Tool("stamp")}
      /\ Tool("xsa") \notin T /\ T \cap AppSteps = {} /\ T \cap ImageSteps = {}
  BY DueNames, InGroup, ImageNames, AppStepsApart
<1>2. Alike(AppFiles) /\ Alike(FlashFiles) /\ Alike({"xsa", "yimg"}) /\ Alike({"petl"})
  <2>1. {AppFiles, FlashFiles, {"xsa", "yimg"}, {"petl"}} \subseteq SUBSET (LookedAt \ Zips)
    BY DEF LookedAt, AppFiles, FlashFiles, GatheredFiles, Zips
  <2> QED BY <2>1, AlikePart
<1>3. design' = design
  BY DEF Turns
<1>4. /\ BootGood' <=> BootGood
      /\ WsGood' <=> WsGood
      /\ McsGood' <=> McsGood
      /\ (Stamped' <=> Stamped) /\ yocto_inputs' = yocto_inputs /\ y'.snap = y.snap
      /\ (Has("xsa")' <=> Has("xsa")) /\ (Has("yimg")' <=> Has("yimg")) /\ (Has("petl")' <=> Has("petl"))
  BY <1>2, <1>3, AppAlike, FlashAlike, ImagesAlike DEF Alike, InputsKept
<1>5. BootDone' /\ McsDone' /\ PetlDone'
  BY <1>1, <1>4, BootDoneKept, McsDoneKept, PetlDoneKept DEF AllDone
<1>6. AppReady' /\ ImagesDone' /\ PhasesDone'
  BY <1>1, <1>4, AppReadyKept, ImagesDoneKept, PhasesDoneKept DEF AllDone
<1> QED BY <1>5, <1>6 DEF AllDone

\* A step of the image build.
LEMMA DoneImage ==
    ASSUME PackageDue, AllDone, Alike(AppFiles), Alike(FlashFiles), Has("petl") => Has("petl")',
           NEW h \in ImageSteps \cup {Stage("yocto")}, NEW T, Turns(h, T),
           T \subseteq ImageSteps \cup {Stage("xsa")}, ImagesDone', PhasesDone'
    PROVE  AllDone'
<1>1. /\ h \notin BootSteps /\ h \notin WsSteps /\ h \notin FlashSteps /\ h \notin PetalinuxSteps
      /\ T \cap AppSteps = {} /\ Rank(h) < 10
  <2>1. h \notin BootSteps /\ h \notin WsSteps /\ h \notin FlashSteps /\ h \notin PetalinuxSteps
    BY NoImageSteps
  <2>2. Stage("xsa") \notin BootSteps /\ \A e \in ImageSteps : e \notin BootSteps
    BY InGroup, DueNames
  <2>3. T \cap AppSteps = {}
    BY <2>2, AppStepsApart
  <2>4. Rank(h) < 10
    BY RankOfSteps, RankOfImageSteps
  <2> QED BY <2>1, <2>3, <2>4
<1>2. design' = design
  BY DEF Turns
<1>3. (BootGood' <=> BootGood) /\ (WsGood' <=> WsGood) /\ (McsGood' <=> McsGood)
  BY <1>2, AppAlike, FlashAlike
<1>4. BootDone' /\ McsDone' /\ PetlDone' /\ AppReady'
  BY <1>1, <1>3, BootDoneKept, McsDoneKept, PetlDoneKept, AppReadyKept DEF AllDone
<1> QED BY <1>1, <1>4, ZipsToCome DEF AllDone

-----------------------------------------------------------------------------
(* The stages of an 'all', seen from the next one                            *)

\* A stage looks at the files and leaves them.
LEMMA LooksOnly ==
    ASSUME UNCHANGED fvars, y' = y
    PROVE  /\ InputsKept /\ \A L : Alike(L)
           /\ (Has("petl") => Has("petl")')
           /\ (WsGood' <=> WsGood) /\ (BootGood' <=> BootGood)
BY SameAlike, AppAlike, SameHas DEF InputsKept

LEMMA StandaloneDone ==
    ASSUME AllDue, AllDone, UNCHANGED fvars, y' = y, NEW T, Turns(Stage("standalone"), T),
           T = Steps(stage_bootfile)
    PROVE  AllDone'
<1>1. T \cap ImageSteps = {} /\ Tool("xsa") \notin T
  BY AppStagesDo, InGroup, DueNames
<1>2. Has("xsa")
  BY XsaBuilt, RankOfNamed DEF AllDue
<1>3. CASE T = {}
  <2>1. ~design.baremetal \/ BootGood
    BY <1>2, <1>3, AppStagesDo DEF BootGood
  <2>2. BootDone'
    BY <2>1, LooksOnly DEF BootDone, Turns
  <2>3. AppReady'
    BY <1>3, RankOfNamed, AppReadyPast
  <2> QED BY <1>1, <2>2, <2>3, LooksOnly, InGroup, DoneApp DEF AllDue
<1>4. CASE T = {Stage("workspace"), Stage("boot")}
  <2>1. BootDone' /\ AppReady'
    BY <1>4, InGroup DEF BootDone, AppReady, Due, Turns
  <2> QED BY <1>1, <2>1, LooksOnly, InGroup, DoneApp DEF AllDue
<1> QED BY <1>3, <1>4, AppStagesDo

LEMMA WorkspaceDone ==
    ASSUME AllDue, AllDone, UNCHANGED fvars, y' = y, NEW T, Turns(Stage("workspace"), T),
           stage_workspace.ok, T = Steps(stage_workspace)
    PROVE  AllDone'
<1>1. (Has("ws") /\ T = {} /\ WsGood) \/ T = {Tool("ws")}
  BY AppStagesDo DEF WsGood
<1>2. T \cap ImageSteps = {} /\ Tool("xsa") \notin T
  BY <1>1, InGroup, DueNames
<1>3. BootDone'
  BY LooksOnly, InGroup, DueNames, BootDoneKept DEF AllDone
<1>4. AppReady'
  BY <1>1, LooksOnly, InGroup DEF AppReady, Due, Turns
<1> QED BY <1>2, <1>3, <1>4, LooksOnly, InGroup, DoneApp DEF AllDue

\* At the boot file the workspace has been looked at.
LEMMA WsLookedAt ==
    ASSUME AllDone, NEW h \in AppSteps, NEW T, Turns(h, T) PROVE WsGood
<1>1. \A e \in WsSteps : ~Pending(e)
  BY Behind, AppStepsApart, RankInGroup, Groups
<1>2. Due(AppSteps)
  BY DEF Due, Turns
<1> QED BY <1>1, <1>2 DEF AllDone, AppReady, Due

LEMMA BootStageDone ==
    ASSUME BootAbove, AllDue, AllDone, UNCHANGED fvars, y' = y, NEW T, Turns(Stage("boot"), T),
           T = Steps(stage_boot)
    PROVE  AllDone'
<1>1. T = IF Has("boot") /\ Has("elf") /\ Newer("boot", "elf") THEN {} ELSE {Tool("boot")}
  BY AppStagesDo
<1>2. T \cap ImageSteps = {} /\ Tool("xsa") \notin T
  BY <1>1, InGroup, DueNames
<1>3. WsGood /\ Has("xsa")
  BY WsLookedAt, XsaBuilt, RankOfNamed DEF AppSteps, AllDue
<1>4. BootDone'
  <2>1. CASE T = {}
    <3>1. BootGood
      BY <1>1, <1>3, <2>1 DEF BootAbove, BootGood, WsGood
    <3> QED BY <3>1, LooksOnly DEF BootDone
  <2>2. CASE T = {Tool("boot")}
    BY <2>2, InGroup DEF BootDone, Due, Turns
  <2> QED BY <1>1, <2>1, <2>2
<1>5. AppReady'
  BY <1>3, LooksOnly DEF AppReady
<1> QED BY <1>2, <1>4, <1>5, LooksOnly, InGroup, DoneApp DEF AllDue

LEMMA CfgmemDone ==
    ASSUME AllDue, AllDone, UNCHANGED fvars, y' = y, NEW T, Turns(Stage("cfgmem"), T),
           T = Steps(stage_cfgmem)
    PROVE  AllDone'
<1>1. T = IF ~design.cfgmem THEN {}
          ELSE {Stage("xsa"), Stage("flash")} \cup IF FlashesApp THEN {Stage("standalone")} ELSE {}
  BY AppStagesDo
<1>2. T \cap (AppSteps \cup ImageSteps) = {} /\ Tool("xsa") \notin T
  <2>1. \A e \in {Stage("xsa"), Stage("flash"), Stage("standalone")} :
          e \notin AppSteps /\ e \notin ImageSteps /\ e # Tool("xsa")
    BY InGroup, DueNames, AppStepsApart
  <2> QED BY <1>1, <2>1
<1>3. McsDone'
  BY <1>1, InGroup DEF McsDone, Due, Turns
<1>4. PetlDone'
  BY LooksOnly, InGroup, DueNames, PetlDoneKept DEF AllDone
<1> QED BY <1>2, <1>3, <1>4, LooksOnly, InGroup, DoneMiddle DEF AllDue

LEMMA FlashStageDone ==
    ASSUME AllDue, AllDone, UNCHANGED fvars, y' = y, NEW T, Turns(Stage("flash"), T),
           stage_flash.ok, T = Steps(stage_flash)
    PROVE  AllDone'
<1>1. (McsGood /\ T = {}) \/ T = {Tool("mcs")}
  BY AppStagesDo DEF McsGood
<1>2. T \cap (AppSteps \cup ImageSteps) = {} /\ Tool("xsa") \notin T
  <2>1. Tool("mcs") \notin AppSteps /\ Tool("mcs") \notin ImageSteps /\ Tool("mcs") # Tool("xsa")
    BY InGroup, DueNames, AppStepsApart
  <2> QED BY <1>1, <2>1
<1>3. McsDone'
  <2>1. CASE McsGood
    <3>1. McsGood'
      BY <2>1, LooksOnly, FlashAlike DEF Turns
    <3> QED BY <3>1 DEF McsDone
  <2>2. CASE T = {Tool("mcs")}
    BY <2>2, InGroup DEF McsDone, Due, Turns
  <2> QED BY <1>1, <2>1, <2>2
<1>4. PetlDone'
  BY LooksOnly, InGroup, DueNames, PetlDoneKept DEF AllDone
<1> QED BY <1>2, <1>3, <1>4, LooksOnly, InGroup, DoneMiddle DEF AllDue

LEMMA PetalinuxDone ==
    ASSUME AllDue, AllDone, UNCHANGED fvars, y' = y, NEW T, Turns(Stage("petalinux"), T),
           T = Steps(stage_petalinux)
    PROVE  AllDone'
<1>1. T \subseteq {Tool("petl")} /\ (T = {} /\ design.petalinux /\ ~design.windows => Has("petl"))
  <2>1. Steps(Does(<<Tool("petl")>>)) = {Tool("petl")}
    BY OneElem, DoesSteps
  <2> QED BY <2>1, PackageStagesDo, DoesSteps DEF stage_petalinux
<1>2. T \cap (AppSteps \cup ImageSteps) = {} /\ Tool("xsa") \notin T
  <2>1. Tool("petl") \notin AppSteps /\ Tool("petl") \notin ImageSteps /\ Tool("petl") # Tool("xsa")
    BY InGroup, DueNames, NoImageSteps, AppStepsApart
  <2> QED BY <1>1, <2>1
<1>3. McsDone'
  <2>1. Stage("petalinux") \notin FlashSteps
    BY InGroup, DueNames
  <2>2. McsGood' <=> McsGood
    BY LooksOnly, FlashAlike DEF Turns
  <2> QED BY <2>1, <2>2, McsDoneKept DEF AllDone
<1>4. PetlDone'
  BY <1>1, LooksOnly, InGroup DEF PetlDone, Due, Turns
<1> QED BY <1>2, <1>3, <1>4, LooksOnly, InGroup, DoneMiddle DEF AllDue

\* A step of the making of the XSA.
LEMMA XsaDone ==
    ASSUME AllDue, AllDone, Alike(LookedAt), InputsKept, NEW h \in XsaSteps \ {Tool("xsa")}, NEW T,
           Turns(h, T), T \subseteq XsaSteps, Tool("xsa") \in T => ~Has("xsa")
    PROVE  AllDone'
<1>1. T \cap (AppSteps \cup ImageSteps) = {}
  BY DueNames, AppStepsApart
<1>2. h \notin FlashSteps /\ h \notin PetalinuxSteps
  BY DueNames
<1>3. Alike(AppFiles) /\ Alike({"xsa", "yimg"}) /\ Alike(FlashFiles) /\ Alike({"petl"})
  BY LookedAtParts, AlikePart
<1>4. McsDone'
  BY <1>2, <1>3, FlashAlike, McsDoneKept DEF AllDone, Turns
<1>5. PetlDone'
  BY <1>2, <1>3, PetlDoneKept DEF AllDone, Alike
<1> QED BY <1>1, <1>3, <1>4, <1>5, DoneMiddle DEF AllDue

LEMMA PackageDone ==
    ASSUME AllDone, UNCHANGED fvars, y' = y, NEW T, Turns(Stage("package"), T),
           T = Steps(stage_package)
    PROVE  AllDone'
<1>1. T = {Stage(z) : z \in Packaged} /\ T \subseteq PackageSteps
  BY PackageStagesDo, InGroup
<1>2. Packaged' = Packaged
  BY DEF Turns, Packaged, has_software_flow
<1>3. \A z \in Packaged' : ZipDone(z)'
  BY <1>1, <1>2 DEF ZipDone, Due, Turns
<1> QED BY <1>1, <1>3, LooksOnly, InGroup, DonePack

\* The zips that are not at their stage or tool.
LEMMA OtherZipsDone ==
    ASSUME AllDone, NEW z \in Zips, NEW h \in {Stage(z), Tool(z)}, NEW T, Turns(h, T),
           Alike(LookedAt \ {z})
    PROVE  \A w \in Packaged : w # z => ZipDone(w)'
<1> SUFFICES ASSUME NEW w \in Packaged, w # z PROVE ZipDone(w)'
  OBVIOUS
<1>1. w \in Zips /\ h \notin {Stage("package"), Stage(w), Tool(w)}
  BY PackagedOf, InGroup
<1>2. \A e \in {Stage("package"), Stage(w), Tool(w)} : Pending(e) => Pending(e)'
  BY <1>1 DEF Turns
<1>3. ZipDone(w)
  BY DEF AllDone
<1>4. ZipGood(w)' <=> ZipGood(w)
  <2>1. GatheredFiles \cup {w} \subseteq LookedAt \ {z}
    BY <1>1 DEF LookedAt, GatheredFiles, Zips
  <2> QED BY <1>1, <2>1, AlikePart, ZipAlike DEF Turns
<1> QED BY <1>2, <1>3, <1>4 DEF ZipDone, Due

LEMMA ZipDoesOr ==
    ASSUME NEW z \in Zips, stage_zip(z).ok PROVE ZipGood(z) \/ Steps(stage_zip(z)) = {Tool(z)}
<1>1. Steps(Does(<<Tool(z)>>)) = {Tool(z)}
  BY OneElem, DoesSteps
<1> QED BY <1>1, DoesSteps DEF stage_zip, ZipGood

LEMMA ZipStageDone ==
    ASSUME AllDone, UNCHANGED fvars, y' = y, NEW z \in Zips, NEW T, Turns(Stage(z), T),
           stage_zip(z).ok, T = Steps(stage_zip(z))
    PROVE  AllDone'
<1>1. T \subseteq PackageSteps /\ Stage(z) \in PackageSteps
  BY PackageStagesDo, InGroup
<1>2. Packaged' = Packaged
  BY DEF Turns, Packaged, has_software_flow
<1>3. \A w \in Packaged : w # z => ZipDone(w)'
  BY LooksOnly, OtherZipsDone
<1>4. ZipDone(z)'
  <2>1. CASE ZipGood(z)
    <3>1. ZipGood(z)'
      BY <2>1, LooksOnly, ZipAlike DEF Turns
    <3> QED BY <3>1 DEF ZipDone
  <2>2. CASE T = {Tool(z)}
    BY <2>2 DEF ZipDone, Due, Turns
  <2> QED BY <2>1, <2>2, ZipDoesOr
<1> QED BY <1>1, <1>2, <1>3, <1>4, LooksOnly, DonePack

LEMMA StageDone ==
    ASSUME RunOK, BootAbove, Undisturbed => AllDue /\ AllDone, UNCHANGED fvars, y' = y,
           design' = design, NEW s \in StageNames, At(Stage(s)), Returns(STAGE_FUNCS(s)), Undisturbed'
    PROVE  AllDone'
<1> DEFINE T == Steps(STAGE_FUNCS(s))
<1>1. STAGE_FUNCS(s).ok /\ Turns(Stage(s), T)
  <2>1. run' # Idle
    BY IdleOK DEF Undisturbed
  <2> QED BY <2>1, StageTurns
<1>2. AllDue /\ AllDone
  BY <1>1, TurnsUndisturbed
<1> HIDE DEF T
<1>3. CASE s \in {"ip", "project", "xsa"}
  <2>1. T \subseteq XsaSteps /\ (Tool("xsa") \in T => ~Has("xsa"))
    BY <1>3, StageFuncsAre, XsaStagesDo, InGroup DEF T, RunOK
  <2>2. Stage(s) \in XsaSteps \ {Tool("xsa")}
    BY <1>3 DEF XsaSteps, Stage, Tool
  <2> QED BY <1>1, <1>2, <2>1, <2>2, LooksOnly, XsaDone
<1>4. CASE s = "standalone"
  BY <1>1, <1>2, <1>4, StageFuncsAre, StandaloneDone DEF T
<1>5. CASE s = "workspace"
  BY <1>1, <1>2, <1>5, StageFuncsAre, WorkspaceDone DEF T
<1>6. CASE s = "boot"
  BY <1>1, <1>2, <1>6, StageFuncsAre, BootStageDone DEF T
<1>7. CASE s = "cfgmem"
  BY <1>1, <1>2, <1>7, StageFuncsAre, CfgmemDone DEF T
<1>8. CASE s = "flash"
  BY <1>1, <1>2, <1>8, StageFuncsAre, FlashStageDone DEF T
<1>9. CASE s = "petalinux"
  BY <1>1, <1>2, <1>9, StageFuncsAre, PetalinuxDone DEF T
<1>10. CASE s = "package"
  BY <1>1, <1>2, <1>10, StageFuncsAre, PackageDone DEF T
<1>11. CASE s \in Zips
  BY <1>1, <1>2, <1>11, StageFuncsAre, ZipStageDone DEF T
<1> QED BY <1>3, <1>4, <1>5, <1>6, <1>7, <1>8, <1>9, <1>10, <1>11 DEF StageNames

-----------------------------------------------------------------------------
(* The tools of an 'all', seen from the next one                             *)

LEMMA XsaToolDone ==
    ASSUME RunOK, ImagesInOrder, TodoInv, AllDue, AllDone, At(Tool("xsa")),
           Turns(Tool("xsa"), {}), Writes(<<"bit", "xsa">>)
    PROVE  AllDone'
<1> DEFINE h == Tool("xsa")
<1>1. /\ h \in Entries /\ Rank(h) = 0 /\ h \notin PetalinuxSteps /\ h \notin ImageSteps
      /\ h # Stage("standalone") /\ h # Stage("cfgmem") /\ h # Stage("package") /\ h # Stage("yocto")
  BY InGroup, DueNames, RankOfNamed, Groups
<1>2. Turns(h, {}) /\ Pending(h) /\ AfterXsa /\ ~Hashed
  BY XsaNotHashed DEF Turns, AllDue, XsaDue
<1> HIDE DEF h
<1>3. AfterXsa'
  BY <1>1, <1>2 DEF AfterXsa, Turns
<1>4. /\ Has("yimg") => Has("yimg")'
      /\ Has("petl") => Has("petl")'
  BY WritesPoints
<1>5. BootDone' /\ McsDone'
  BY <1>3, InGroup DEF AfterXsa, BootDone, McsDone, Due
<1>6. PetlDone' /\ PhasesDone'
  BY <1>1, <1>2, <1>4, PetlDoneKept, PhasesDoneKept DEF AllDone
<1>7. AppReady'
  <2>1. \A e \in AppSteps : ~Pending(e)
    BY <1>1, <1>2 DEF TodoInv, XsaIsDone
  <2> QED BY <1>2, <2>1 DEF AppReady, Due, Turns
<1>8. ImagesDone'
  <2> SUFFICES ASSUME design.yocto, ~design.windows PROVE Pending(Stage("yocto"))'
    BY <1>2 DEF ImagesDone, Due, Turns
  <2>1. Pending(Stage("yocto"))
    BY <1>2 DEF AllDone, ImagesDone, h
  <2> QED BY <1>1, <1>2, <2>1 DEF Turns
<1> QED BY <1>1, <1>2, <1>5, <1>6, <1>7, <1>8, ZipsToCome DEF AllDone, AllDue

LEMMA WsToolDone ==
    ASSUME TodoInv, AllDue, AllDone, Turns(Tool("ws"), {}), Writes(<<"ws", "elf">>), y' = y
    PROVE  AllDone'
<1>1. Elems(<<"ws", "elf">>) = {"ws", "elf"}
  BY ElemsOfTwo
<1>2. Alike({"xsa", "yimg"}) /\ InputsKept /\ (Has("petl") => Has("petl")')
  BY <1>1, WritesAlike, WritesPoints DEF InputsKept
<1>3. WsGood'
  <2>1. Has("xsa")
    BY XsaBuilt, RankOfNamed DEF AllDue
  <2> QED BY <1>1, <2>1, WritesPoints DEF WsGood, Has
<1>4. BootDone'
  <2>1. Pending(Stage("boot"))
    BY InGroup DEF Turns, TodoInv, WsBeforeBoot
  <2>2. Pending(Stage("boot"))'
    BY <2>1, InGroup, DueNames DEF Turns
  <2> QED BY <2>2, InGroup DEF BootDone, Due
<1>5. AppReady'
  BY <1>3 DEF AppReady
<1> QED BY <1>2, <1>4, <1>5, InGroup, DoneApp DEF AllDue

LEMMA BootToolDone ==
    ASSUME AllDue, AllDone, Turns(Tool("boot"), {}), Writes(<<"boot">>), y' = y PROVE AllDone'
<1>1. Elems(<<"boot">>) = {"boot"}
  BY OneElem
<1>2. Alike({"xsa", "yimg"}) /\ InputsKept /\ (Has("petl") => Has("petl")')
  BY <1>1, WritesAlike, WritesPoints DEF InputsKept
<1>3. Has("xsa") /\ WsGood
  BY XsaBuilt, RankOfNamed, WsLookedAt DEF AllDue, AppSteps
<1>4. WsGood'
  BY <1>1, <1>3, WritesPoints DEF WsGood
<1>5. BootGood'
  <2>1. Newer("boot", "xsa")' /\ Newer("boot", "elf")' /\ Has("boot")'
    BY <1>1, <1>3, WritesPoints DEF WsGood, Has
  <2> QED BY <1>4, <2>1 DEF BootGood
<1>6. BootDone' /\ AppReady'
  BY <1>4, <1>5 DEF BootDone, AppReady
<1> QED BY <1>2, <1>6, InGroup, DoneApp DEF AllDue

LEMMA McsToolDone ==
    ASSUME AllDue, AllDone, Turns(Tool("mcs"), {}), Writes(<<"mcs">>), y' = y, Has(cfgmem_src)
    PROVE  AllDone'
<1>1. Elems(<<"mcs">>) = {"mcs"}
  BY OneElem
<1>2. /\ Alike(AppFiles) /\ Alike({"xsa", "yimg"}) /\ InputsKept
      /\ Has("petl") => Has("petl")'
  <2>1. {"mcs"} \cap AppFiles = {}
    BY DEF AppFiles
  <2> QED BY <1>1, <2>1, WritesAlike, WritesPoints DEF InputsKept
<1>3. McsGood'
  <2> SUFFICES ASSUME NEW s \in {"boot", "bit"}, s = cfgmem_src PROVE McsGood'
    BY BootOrBit
  <2>1. s = cfgmem_src'
    BY DEF cfgmem_src, FlashesApp, Turns
  <2>2. Has(s)' /\ Has("mcs")' /\ Newer("mcs", s)'
    BY <1>1, WritesPoints DEF Has
  <2> QED BY <2>1, <2>2 DEF McsGood, Has, Newer
<1>4. McsDone'
  BY <1>3 DEF McsDone
<1>5. PetlDone'
  BY <1>2, InGroup, DueNames, PetlDoneKept DEF AllDone
<1> QED BY <1>2, <1>4, <1>5, InGroup, DoneMiddle DEF AllDue

LEMMA PetalinuxToolDone ==
    ASSUME AllDue, AllDone, NEW x \in {"petl", "petl_again"}, NEW T, Turns(Tool(x), T), y' = y,
           T \subseteq {Tool("petl_again")}, NEW xs, Writes(xs), Elems(xs) \subseteq {"pwork", "petl"},
           Tool("petl_again") \in T \/ "petl" \in Elems(xs)
    PROVE  AllDone'
<1>1. Alike(AppFiles) /\ Alike({"xsa", "yimg"}) /\ Alike(FlashFiles) /\ InputsKept
  <2>1. {"pwork", "petl"} \cap (AppFiles \cup FlashFiles \cup {"xsa", "yimg"}) = {}
    BY DEF AppFiles, FlashFiles
  <2>2. /\ Elems(xs) \cap AppFiles = {} /\ Elems(xs) \cap FlashFiles = {}
        /\ Elems(xs) \cap {"xsa", "yimg"} = {}
    BY <2>1
  <2> QED BY <2>2, WritesAlike DEF InputsKept
<1>2. Tool(x) \in PetalinuxSteps /\ Tool(x) \notin FlashSteps
  BY InGroup, DueNames
<1>3. T \cap (AppSteps \cup ImageSteps) = {} /\ Tool("xsa") \notin T
  <2>1. /\ Tool("petl_again") \notin AppSteps /\ Tool("petl_again") \notin ImageSteps
        /\ Tool("petl_again") # Tool("xsa")
    BY InGroup, DueNames, NoImageSteps, AppStepsApart
  <2> QED BY <2>1
<1>4. McsDone'
  <2>1. McsGood' <=> McsGood
    BY <1>1, FlashAlike DEF Turns
  <2> QED BY <1>2, <2>1, McsDoneKept DEF AllDone
<1>5. PetlDone'
  <2>1. CASE Tool("petl_again") \in T
    BY <2>1, InGroup DEF PetlDone, Due, Turns
  <2>2. CASE "petl" \in Elems(xs)
    BY <2>2, WritesPoints DEF PetlDone
  <2> QED BY <2>1, <2>2
<1> QED BY <1>1, <1>2, <1>3, <1>4, <1>5, DoneMiddle DEF AllDue

LEMMA ZipToolDone ==
    ASSUME AllDone, NEW z \in Zips, Turns(Tool(z), {}), Writes(<<z>>), y' = y,
           ZipSources(z) \subseteq files
    PROVE  AllDone'
<1>1. Elems(<<z>>) = {z} /\ Tool(z) \in PackageSteps
  BY OneElem, InGroup
<1>2. Alike(LookedAt \ {z}) /\ InputsKept
  BY <1>1, WritesAlike DEF InputsKept
<1>3. Packaged' = Packaged
  BY DEF Turns, Packaged, has_software_flow
<1>4. \A w \in Packaged : w # z => ZipDone(w)'
  BY <1>2, OtherZipsDone
<1>5. Alike(LookedAt \ Zips)
  <2>1. LookedAt \ Zips \subseteq LookedAt \ {z}
    OBVIOUS
  <2> QED BY <1>2, <2>1, AlikePart
<1>6. _zip_current(z)'
  <2>1. GatheredFiles \subseteq LookedAt \ {z}
    BY DEF LookedAt, GatheredFiles, Zips
  <2>2. ZipSources(z)' = ZipSources(z) /\ ZipSources(z) \subseteq GatheredFiles
    BY <1>2, <2>1, AlikePart, SourcesAlike DEF Turns
  <2>3. Has(z)' /\ \A s \in ZipSources(z) : Newer(z, s)'
    BY <1>1, <2>1, <2>2, WritesPoints
  <2> QED BY <2>2, <2>3 DEF _zip_current
<1>7. ZipDone(z)'
  BY <1>6 DEF ZipDone, ZipGood
<1> QED BY <1>1, <1>2, <1>3, <1>4, <1>5, <1>7, DonePack

LEMMA ToolsDone ==
    ASSUME RunOK, ImagesInOrder, TodoInv, Undisturbed => AllDue /\ AllDone, RunTool, Undisturbed'
    PROVE  AllDone'
<1> PICK x \in ToolNames :
        At(Tool(x)) /\ CanRun(x) /\ Writes(Output(x)) /\ ToolDone /\ y' = NewXsa(Output(x))
  BY DEF RunTool
<1>1. Turns(Tool(x), {}) /\ AllDue /\ AllDone
  <2>1. Turns(Tool(x), {})
    BY AtTool DEF RunTool
  <2> QED BY <2>1, TurnsUndisturbed
<1>2. x # "xsa" => y' = y
  BY OutputElems DEF NewXsa
<1>3. CASE x = "xsa"
  BY <1>1, <1>3, XsaToolDone DEF Output
<1>4. CASE x = "ws"
  BY <1>1, <1>2, <1>4, WsToolDone DEF Output
<1>5. CASE x = "boot"
  BY <1>1, <1>2, <1>5, BootToolDone DEF Output
<1>6. CASE x = "mcs"
  <2>1. Output(x) = <<"mcs">> /\ Elems(<<"mcs">>) = {"mcs"} /\ Inputs("mcs") = {cfgmem_src}
    BY <1>6, OneElem, InputsOf DEF Output
  <2>2. Has(cfgmem_src)
    BY <1>6, <2>1 DEF CanRun, Zips, Has
  <2> QED BY <1>1, <1>2, <1>6, <2>1, <2>2, McsToolDone
<1>7. CASE x \in Zips
  <2>1. Output(x) = <<x>>
    BY <1>7 DEF Output, Zips
  <2>2. ZipSources(x) \subseteq files /\ x # "xsa"
    BY <1>7 DEF CanRun, Zips
  <2> QED BY <1>1, <1>2, <1>7, <2>1, <2>2, ZipToolDone
<1>8. CASE x \in {"petl", "petl_again"}
  <2>1. Elems(Output(x)) = {"pwork", "petl"}
    BY <1>8, OutputElems
  <2> QED BY <1>1, <1>2, <1>8, <2>1, PetalinuxToolDone
<1>9. CASE x \in {"ip_done", "xpr"} \cup Elems(Cores)
  <2>1. x \notin LookedAt /\ x \notin {"xsa", "ws", "petl", "petl_again"}
    BY <1>9, CoreNames DEF LookedAt, AppFiles, GatheredFiles, Zips, TargetFiles
  <2>2. Elems(Output(x)) = {x}
    BY <2>1, OutputElems
  <2>3. Alike(LookedAt) /\ InputsKept
    BY <1>2, <2>1, <2>2, WritesAlike DEF InputsKept
  <2>4. Tool(x) \in XsaSteps \ {Tool("xsa")}
    <3>1. Tool(x) # Tool("xsa")
      BY <2>1 DEF Tool
    <3> QED BY <1>9, <3>1 DEF XsaSteps
  <2> QED BY <1>1, <2>3, <2>4, XsaDone
<1> QED BY <1>3, <1>4, <1>5, <1>6, <1>7, <1>8, <1>9 DEF ToolNames

-----------------------------------------------------------------------------
(* The image build of an 'all', seen from the next one                       *)

\* What the steps of the image build do to the inputs, the snapshot and the stamp.
ImageData(e) ==
    /\ y'.text = y.text /\ y'.conf = y.conf /\ y'.recipe = y.recipe /\ y'.port = y.port
    /\ y'.xsa = y.xsa
    /\ y'.snap = IF e = Stage("snapshot") THEN yocto_inputs ELSE y.snap
    /\ y'.stamp = IF e = Tool("stamp") /\ Has("yimg") THEN y.snap ELSE y.stamp

LEMMA ImageNamesApart ==
    /\ \A e \in {Tool("hw"), Stage("configure"), Tool("configdone"), Tool("bitbake"), Tool("yimg")} :
        e # Stage("snapshot") /\ e # Tool("stamp")
    /\ Tool("stamp") # Stage("snapshot") /\ Tool("stamp") # Tool("yimg")
    /\ Stage("snapshot") # Tool("yimg")
BY DEF Stage, Tool

LEMMA ImageInputs ==
    ASSUME RunOK, ImagesInOrder, Numbers, Yocto
    PROVE  \/ FailRun \/ Edit \/ StageYocto
           \/ \E e, T : At(e) /\ ImageTurn(e, T) /\ ImageData(e)
<1>1. design' = design
  BY YoctoShapes
<1>2. y \in YType
  BY DEF Numbers
<1> USE ImageNames, ImageNamesApart
<1>3. CASE YoctoSnapshot
  <2>1. ImageTurn(Stage("snapshot"), {}) /\ At(Stage("snapshot"))
    BY <1>1, <1>3, ImageDone DEF YoctoSnapshot, ImageTurn
  <2>2. ImageData(Stage("snapshot"))
    BY <1>2, <1>3 DEF YoctoSnapshot, ImageData, YType
  <2> QED BY <2>1, <2>2
<1>4. CASE YoctoHandoff
  <2>1. CASE Returns(Fails)
    BY <2>1 DEF Returns, Fails
  <2>2. CASE \/ Writes(<<"hw">>) /\ ToolDone /\ y' = [y EXCEPT !.hw = y.xsa]
             \/ Returns(Skipped) /\ UNCHANGED fvars /\ UNCHANGED yvars
    <3>1. ImageTurn(Tool("hw"), {}) /\ At(Tool("hw"))
      BY <1>1, <1>4, <2>2, ImageDone DEF YoctoHandoff, ImageTurn
    <3>2. ImageData(Tool("hw"))
      BY <1>2, <2>2 DEF ImageData, YType, yvars
    <3> QED BY <3>1, <3>2
  <2> QED BY <1>4, <2>1, <2>2 DEF YoctoHandoff
<1>5. CASE YoctoConfigure
  <2>1. UNCHANGED fvars /\ At(Stage("configure"))
    BY <1>5 DEF YoctoConfigure
  <2>2. ImageData(Stage("configure"))
    BY <1>2, <1>5 DEF ImageData, YType, yvars, YoctoConfigure
  <2>3. CASE Returns(Does(<<Tool("configdone")>>))
    <3>1. ImageTurn(Stage("configure"), {Tool("configdone")})
      BY <1>1, <2>1, <2>3, ConfigureTurns DEF ImageTurn
    <3> QED BY <2>1, <2>2, <3>1
  <2>4. CASE Returns(Skipped)
    <3>1. ImageTurn(Stage("configure"), {})
      BY <1>1, <2>1, <2>4, ImageDone DEF ImageTurn
    <3> QED BY <2>1, <2>2, <3>1
  <2> QED BY <1>5, <2>3, <2>4 DEF YoctoConfigure
<1>6. CASE YoctoConfigured
  <2>1. ImageTurn(Tool("configdone"), {}) /\ At(Tool("configdone"))
    BY <1>1, <1>6, ImageDone DEF YoctoConfigured, ImageTurn
  <2>2. ImageData(Tool("configdone"))
    BY <1>6 DEF ImageData, yvars, YoctoConfigured
  <2> QED BY <2>1, <2>2
<1>7. CASE YoctoBitbake
  <2>1. ImageTurn(Tool("bitbake"), {}) /\ At(Tool("bitbake"))
    BY <1>1, <1>7, ImageDone DEF YoctoBitbake, ImageTurn
  <2>2. ImageData(Tool("bitbake"))
    BY <1>2, <1>7 DEF ImageData, YType, YoctoBitbake
  <2> QED BY <2>1, <2>2
<1>8. CASE YoctoPackage
  <2>1. ImageTurn(Tool("yimg"), {}) /\ At(Tool("yimg"))
    BY <1>1, <1>8, ImageDone DEF YoctoPackage, ImageTurn
  <2>2. ImageData(Tool("yimg"))
    BY <1>2, <1>8 DEF ImageData, YType, YoctoPackage
  <2> QED BY <2>1, <2>2
<1>9. CASE YoctoStamp
  <2>1. ImageTurn(Tool("stamp"), {}) /\ At(Tool("stamp"))
    BY <1>1, <1>9, ImageDone DEF YoctoStamp, ImageTurn
  <2>2. ImageData(Tool("stamp"))
    BY <1>2, <1>9 DEF ImageData, YType, YoctoStamp
  <2> QED BY <2>1, <2>2
<1>10. CASE YoctoFails
  BY <1>10 DEF YoctoFails
<1> QED BY <1>3, <1>4, <1>5, <1>6, <1>7, <1>8, <1>9, <1>10 DEF Yocto

LEMMA ImageTurnDone ==
    ASSUME RunOK, ImagesInOrder, Numbers, AllDue, AllDone, NEW e, NEW T, At(e), ImageTurn(e, T), ImageData(e)
    PROVE  AllDone'
<1>1. /\ e \in ImageSteps /\ Turns(e, T) /\ T \subseteq ImageSteps \cup {Stage("xsa")}
      /\ Pending(Tool("stamp")) /\ e # Stage("yocto") /\ Tool("xsa") \notin T
      /\ design' = design
  BY InGroup, DueNames DEF ImageTurn, Turns, ImagesInOrder
<1>2. /\ Alike(AppFiles) /\ Alike(FlashFiles) /\ (Has("petl") => Has("petl")')
      /\ Has("xsa")' <=> Has("xsa")
      /\ Has("yimg") \/ e = Tool("yimg") => Has("yimg")'
  <2>1. CASE UNCHANGED fvars /\ e # Tool("yimg")
    BY <2>1, SameAlike, SameHas
  <2>2. ASSUME NEW w \in {"hw", "configdone", "yimg"}, e = Tool(w), Writes(<<w>>)
        PROVE  /\ Alike(AppFiles) /\ Alike(FlashFiles) /\ (Has("petl") => Has("petl")')
               /\ Has("xsa")' <=> Has("xsa")
               /\ Has("yimg") \/ e = Tool("yimg") => Has("yimg")'
    <3>1. Elems(<<w>>) = {w} /\ {w} \cap AppFiles = {} /\ {w} \cap FlashFiles = {}
      BY OneElem DEF AppFiles, FlashFiles
    <3>2. Alike(AppFiles) /\ Alike(FlashFiles)
      BY <2>2, <3>1, WritesAlike
    <3>3. e = Tool("yimg") => w = "yimg"
      BY <2>2 DEF Tool
    <3> QED BY <2>2, <3>1, <3>2, <3>3, WritesPoints
  <2> QED BY <2>1, <2>2 DEF ImageTurn
<1>3. yocto_inputs' = yocto_inputs
  BY <1>2 DEF yocto_inputs, ImageData
<1>4. \A s \in ImageSteps : s # e /\ ~Pending(s)' => ~Pending(s)
  BY <1>1 DEF Turns
<1>5. PhasesDone'
  <2>1. ASSUME Hashed' PROVE y'.snap = yocto_inputs'
    <3>1. e # Stage("snapshot") => Hashed
      BY <1>1, <1>4, <2>1, ImageNames DEF Hashed
    <3> QED BY <1>3, <3>1 DEF AllDone, PhasesDone, ImageData
  <2>2. ASSUME Packed' PROVE Has("yimg")'
    <3>1. e # Tool("yimg") => Packed
      BY <1>1, <1>4, <2>2, ImageNames DEF Packed
    <3> QED BY <1>2, <3>1 DEF AllDone, PhasesDone
  <2> QED BY <2>1, <2>2 DEF PhasesDone
<1>6. ImagesDone'
  <2> SUFFICES ASSUME design.yocto, ~design.windows
               PROVE  /\ Stamped' \/ Due({Stage("yocto"), Tool("stamp")})'
                      /\ Pending(Tool("xsa"))' \/ ~Has("xsa")' => Pending(Stage("yocto"))'
    BY <1>1 DEF ImagesDone
  <2>1. Pending(Tool("xsa"))' \/ ~Has("xsa")' => Pending(Stage("yocto"))'
    BY <1>1, <1>2 DEF AllDone, ImagesDone, Turns
  <2>2. CASE e # Tool("stamp")
    BY <1>1, <2>1, <2>2 DEF Due, Turns
  <2>3. CASE e = Tool("stamp")
    <3>1. Packed /\ Hashed
      BY <2>3, PhaseAt, PhasesInOrder
    <3>2. Has("yimg") /\ y'.stamp = yocto_inputs'
      BY <1>3, <2>3, <3>1 DEF AllDone, PhasesDone, ImageData
    <3>3. Has("xsa") /\ Has("yimg")'
      <4>1. Rank(e) = 9
        BY <2>3, RankOfImageSteps
      <4> QED BY <1>1, <1>2, <3>2, <4>1, XsaBuilt DEF AllDue
    <3>4. yocto_inputs'.xsa # 0
      BY <1>2, <3>3 DEF yocto_inputs, ImageData, Numbers
    <3> QED BY <2>1, <3>2, <3>3, <3>4 DEF Stamped, UpToDate, yocto_input_changes
  <2> QED BY <2>1, <2>2, <2>3
<1> QED BY <1>1, <1>2, <1>5, <1>6, DoneImage DEF AllDue

\* The stage completes the stamp of what it takes for current.
LEMMA ImagesAdopted ==
    ASSUME Numbers, StageYocto, design.yocto, ~design.windows, Has("xsa"), ImagesGood
    PROVE  Stamped'
<1>1. (\A x : Has(x)' <=> Has(x)) /\ y \in YType /\ yocto_inputs.xsa # 0
  BY SameHas DEF StageYocto, Numbers, yocto_inputs
<1>2. CASE y' = y /\ UpToDate /\ y.stamp.xsa # 0
  <2>1. yocto_inputs' = yocto_inputs
    BY <1>1, <1>2 DEF yocto_inputs
  <2> QED BY <1>1, <1>2, <2>1 DEF Stamped, ImagesGood, UpToDate, yocto_input_changes, Text
<1>3. CASE y' = [y EXCEPT !.stamp = yocto_inputs]
  <2>1. /\ y'.conf = y.conf /\ y'.recipe = y.recipe /\ y'.port = y.port
        /\ y'.xsa = y.xsa /\ y'.stamp = yocto_inputs
    BY <1>1, <1>3 DEF YType
  <2>2. yocto_inputs' = yocto_inputs
    BY <1>1, <2>1 DEF yocto_inputs
  <2> QED BY <1>1, <2>1, <2>2 DEF Stamped, ImagesGood, UpToDate, yocto_input_changes
<1> QED BY <1>2, <1>3 DEF StageYocto, ImagesGood

\* A complete stamp is left as it is.
LEMMA StampStays == ASSUME StageYocto, Stamped PROVE y' = y /\ ImagesGood
<1>1. y.stamp # NoInputs
  BY DEF Stamped, NoInputs
<1> QED BY <1>1 DEF StageYocto, Stamped, ImagesGood

LEMMA StageYoctoDone ==
    ASSUME RunOK, Numbers, StageYocto, AllDue, AllDone, NEW T, YoctoTurn(T) PROVE AllDone'
<1> DEFINE h == Stage("yocto")
<1>1. /\ Turns(h, T) /\ UNCHANGED fvars /\ NoImages /\ Rank(h) = 9 /\ h \in Entries
      /\ Rank(Tool("xsa")) = 0 /\ design' = design
  BY NoImagesAtYocto, RankOfImageSteps, RankOfNamed, Groups DEF YoctoTurn, StageYocto
<1>2. /\ T \subseteq ImageSteps \cup {Stage("xsa")} /\ Tool("xsa") \notin T
      /\ T = {} \/ (Stage("snapshot") \in T /\ Tool("yimg") \in T /\ Tool("stamp") \in T)
  <2>1. /\ Stage("snapshot") # Tool("configdone") /\ Tool("yimg") # Tool("configdone")
        /\ Tool("stamp") # Tool("configdone")
    BY DEF Stage, Tool
  <2>2. Tool("xsa") \notin ImageSteps /\ Tool("xsa") # Stage("xsa")
    BY InGroup, DueNames
  <2> QED BY <2>1, <2>2, ImageNames DEF YoctoTurn
<1>3. T = {} => (design.yocto /\ ~design.windows => ImagesGood)
  BY <1>2 DEF YoctoTurn
<1> HIDE DEF h
<1>4. PhasesDone'
  <2>1. CASE T = {}
    <3>1. ~Pending(Tool("stamp"))'
      BY <1>1, <2>1, ImageNames DEF NoImages, Turns
    <3> QED BY <3>1 DEF PhasesDone, Hashed, Packed
  <2>2. CASE T # {}
    <3>1. Pending(Stage("snapshot"))' /\ Pending(Tool("yimg"))'
      BY <1>1, <1>2, <2>2 DEF Turns
    <3> QED BY <3>1 DEF PhasesDone, Hashed, Packed
  <2> QED BY <2>1, <2>2
<1>5. ImagesDone'
  <2>1. Has("xsa")'
    <3>1. Has("xsa")
      BY <1>1, XsaBuilt DEF AllDue
    <3> QED BY <1>1, <3>1, SameHas
  <2>2. ~Pending(Tool("xsa"))'
    <3>1. Tool("xsa") \notin Rest
      BY <1>1, RankType DEF Turns, Before
    <3> QED BY <1>1, <1>2, <3>1 DEF Turns
  <2>3. CASE T = {}
    <3>1. design.yocto /\ ~design.windows => Stamped'
      <4>1. Has("xsa")
        BY <1>1, <2>1, SameHas
      <4> QED BY <1>3, <2>3, <4>1, ImagesAdopted
    <3> QED BY <1>1, <2>1, <2>2, <3>1 DEF ImagesDone
  <2>4. CASE T # {}
    <3>1. Pending(Tool("stamp"))'
      BY <1>1, <1>2, <2>4 DEF Turns
    <3> QED BY <2>1, <2>2, <3>1 DEF ImagesDone, Due
  <2> QED BY <2>3, <2>4
<1>6. Alike(AppFiles) /\ Alike(FlashFiles) /\ (Has("petl") => Has("petl")')
  BY <1>1, SameAlike, SameHas
<1> QED BY <1>1, <1>2, <1>4, <1>5, <1>6, DoneImage DEF AllDue, h

LEMMA YoctoDone ==
    ASSUME RunOK, ImagesInOrder, Numbers, Undisturbed => AllDue /\ AllDone, Yocto, Undisturbed'
    PROVE  AllDone'
<1>1. CASE FailRun
  BY <1>1, IdleOK DEF FailRun, Undisturbed
<1>2. CASE Edit
  BY <1>2 DEF Edit, Meddled, RunOK, Undisturbed
<1>3. CASE StageYocto
  <2> PICK T : YoctoTurn(T)
    BY <1>3, YoctoTurns
  <2> QED BY <1>3, StageYoctoDone, TurnsUndisturbed DEF YoctoTurn
<1>4. ASSUME NEW e, NEW T, At(e), ImageTurn(e, T), ImageData(e) PROVE AllDone'
  BY <1>4, ImageTurnDone, TurnsUndisturbed DEF ImageTurn
<1> QED BY <1>1, <1>2, <1>3, <1>4, ImageInputs

-----------------------------------------------------------------------------
(* Every step of an 'all', seen from the next one                            *)

LEMMA StartDone == ASSUME RunOK, Start, Undisturbed' PROVE AllDone'
<1>1. run' = [cmd |-> "all", todo |-> stages_for("all"), calm |-> TRUE] /\ design' = design
  BY DEF Start, Undisturbed
<1> DEFINE S == Elems(stages_for("all"))
<1>2. Elems(run.todo)' = S
  BY <1>1 DEF Elems
<1>3. S = {Stage("xsa"), Stage("package")}
          \cup (IF design.baremetal THEN {Stage("standalone")} ELSE {})
          \cup (IF design.cfgmem THEN {Stage("cfgmem")} ELSE {})
          \cup (IF design.petalinux THEN {Stage("petalinux")} ELSE {})
          \cup (IF design.yocto THEN {Stage("yocto")} ELSE {})
  BY StagesAre
<1> HIDE DEF S
<1>4. /\ Pending(Stage("package"))'
      /\ design.baremetal => Pending(Stage("standalone"))'
      /\ design.cfgmem => Pending(Stage("cfgmem"))'
      /\ design.petalinux => Pending(Stage("petalinux"))'
      /\ design.yocto => Pending(Stage("yocto"))'
  BY <1>2, <1>3 DEF Pending
<1>5. BootDone' /\ McsDone' /\ PetlDone' /\ ImagesDone'
  BY <1>1, <1>4, InGroup DEF BootDone, McsDone, PetlDone, ImagesDone, Due
<1>6. AppReady'
  <2>1. \A e \in AppSteps : e \notin S
    BY <1>3 DEF AppSteps, Stage, Tool
  <2> QED BY <1>2, <2>1 DEF AppReady, Due, Pending
<1>7. PhasesDone'
  <2>1. ~Pending(Tool("stamp"))'
    BY StartStack, ImageNames DEF NoImages
  <2> QED BY <2>1 DEF PhasesDone, Hashed, Packed
<1>8. \A z \in Packaged' : ZipDone(z)'
  BY <1>4 DEF ZipDone, Due
<1> QED BY <1>5, <1>6, <1>7, <1>8 DEF AllDone

LEMMA SameDone ==
    ASSUME AllDone, design' = design, UNCHANGED fvars, y' = y, run' = run PROVE AllDone'
<1>1. \A e : Pending(e)' <=> Pending(e)
  BY SamePending
<1>2. /\ WsGood' <=> WsGood
      /\ BootGood' <=> BootGood
      /\ McsGood' <=> McsGood
      /\ (Stamped' <=> Stamped) /\ yocto_inputs' = yocto_inputs /\ y'.snap = y.snap
      /\ \A z \in Zips : ZipGood(z)' <=> ZipGood(z)
      /\ \A x : Has(x)' <=> Has(x)
  BY LooksOnly, FlashAlike, ImagesAlike, ZipAlike, SameHas
<1>3. BootDone' /\ AppReady' /\ McsDone'
  BY <1>1, <1>2 DEF AllDone, BootDone, AppReady, McsDone, Due
<1>4. PetlDone' /\ ImagesDone'
  BY <1>1, <1>2 DEF AllDone, PetlDone, ImagesDone, Due
<1>5. PhasesDone'
  BY <1>1, <1>2 DEF AllDone, PhasesDone, Hashed, Packed
<1>6. \A z \in Packaged' : ZipDone(z)'
  <2>1. Packaged' = Packaged
    BY DEF Packaged, has_software_flow
  <2> QED BY <1>1, <1>2, <2>1, PackagedOf DEF AllDone, ZipDone, Due
<1> QED BY <1>3, <1>4, <1>5, <1>6 DEF AllDone

LEMMA DoneKept ==
    StepInv /\ FilesInv /\ TodoInv /\ AllInv /\ BootAbove /\ (Undisturbed => AllDone) /\ [Next]_vars
    => (Undisturbed => AllDone)'
<1> SUFFICES ASSUME StepInv, FilesInv, TodoInv, AllInv, BootAbove, Undisturbed => AllDone,
                    [Next]_vars, Undisturbed'
             PROVE  AllDone'
  OBVIOUS
<1> USE DEF StepInv
<1>0. Undisturbed => AllDue /\ AllDone
  BY DEF AllInv
<1>1. CASE Start
  BY <1>1, StartDone
<1>2. CASE Finish \/ CutShort \/ Refuses \/ Interrupts
  BY <1>2, IdleOK DEF Finish, CutShort, Refuses, Interrupts, FailRun, Undisturbed
<1>3. CASE RunStage
  <2>1. design' = design /\ UNCHANGED fvars /\ y' = y
    BY <1>3 DEF RunStage, fvars
  <2>2. CASE \E s \in StageNames : At(Stage(s)) /\ Returns(STAGE_FUNCS(s))
    BY <1>0, <2>1, <2>2, StageDone
  <2>3. CASE \E c \in Elems(Cores) : At(Core(c)) /\ Returns(stage_core(c))
    <3> PICK c \in Elems(Cores) : At(Core(c)) /\ Returns(stage_core(c))
      BY <2>3
    <3> PICK T : Turns(Core(c), T) /\ T \subseteq {Tool(c)}
      BY <2>1, CoreTurns
    <3>1. AllDue /\ AllDone /\ Alike(LookedAt) /\ InputsKept
      BY <1>0, <2>1, TurnsUndisturbed, LooksOnly
    <3>2. /\ Core(c) \in XsaSteps \ {Tool("xsa")}
          /\ Tool(c) \in XsaSteps /\ Tool(c) # Tool("xsa")
      BY CoreStepsOK, CoreNames DEF Core, Stage, Tool, TargetFiles
    <3> QED BY <3>1, <3>2, XsaDone
  <2> QED BY <1>3, <2>2, <2>3 DEF RunStage
<1>4. CASE RunTool
  BY <1>0, <1>4, ToolsDone
<1>5. CASE PetalinuxAgain
  <2>1. Turns(Tool("petl"), {Tool("petl_again")}) /\ Writes(<<"pwork">>) /\ y' = y
    BY <1>5, AgainTurns DEF PetalinuxAgain
  <2>2. AllDue /\ AllDone
    BY <1>0, <2>1, TurnsUndisturbed
  <2>3. Elems(<<"pwork">>) = {"pwork"}
    BY OneElem
  <2> QED BY <2>1, <2>2, <2>3, PetalinuxToolDone
<1>6. CASE Clean
  BY <1>6, CleanFilesTodo DEF Undisturbed
<1>7. CASE KeepBoot \/ KeepBootKilled
  BY <1>7 DEF KeepBoot, KeepBootKilled, Undisturbed
<1>8. CASE PlanKeepBoot \/ DropPlan \/ UNCHANGED vars
  <2>1. design' = design /\ UNCHANGED fvars /\ run' = run /\ y' = y
    BY <1>8 DEF PlanKeepBoot, DropPlan, vars, fvars
  <2> QED BY <1>0, <2>1, SameDone DEF Undisturbed
<1>9. CASE Yocto
  BY <1>0, <1>9, YoctoDone DEF YoctoInv
<1> QED BY <1>1, <1>2, <1>3, <1>4, <1>5, <1>6, <1>7, <1>8, <1>9 DEF Next

-----------------------------------------------------------------------------
(* What a settled target keeps                                               *)

LEMMA AtPending == ASSUME RunOK, NEW e, At(e) PROVE Pending(e)
BY HeadAndTail DEF RunOK, At, Pending

\* A keep-boot clean takes the workspace and its application together.
LEMMA KeepBootTakes ==
    ASSUME PlanOK, KeepBoot
    PROVE  \E S : Removes(S) /\ S \cap (LookedAt \ {"ws", "elf"}) = {} /\ ("ws" \in S <=> "elf" \in S)
<1> DEFINE P == UNION {Planned(i) : i \in Reached}
<1>1. Removes(Trees(P))
  BY DEF KeepBoot, RemovePaths
<1>2. P \subseteq plan
  BY DEF Planned
<1> HIDE DEF P
<1>3. plan \cap (LookedAt \ {"ws"}) = {} /\ "elf" \notin plan
  <2>1. \A c \in Elems(Cores) : c \notin LookedAt
    BY CoreNames DEF LookedAt, AppFiles, GatheredFiles, Zips, TargetFiles
  <2>2. {"xpr", "ip_done", "pwork", "build", "configdone", "hw"} \cap LookedAt = {} /\ "elf" \in LookedAt
    BY DEF LookedAt, AppFiles, GatheredFiles, Zips
  <2> QED BY <2>1, <2>2 DEF PlanOK
<1>4. Trees(P) \cap (LookedAt \ {"ws", "elf"}) = {} /\ ("ws" \in Trees(P) <=> "elf" \in Trees(P))
  BY <1>2, <1>3 DEF Trees
<1> QED BY <1>1, <1>4

LEMMA KeepBootQuiet == ASSUME PlanOK, Numbers, KeepBoot, Quiet PROVE Quiet'
<1>1. PICK S : Removes(S) /\ S \cap (LookedAt \ {"ws", "elf"}) = {} /\ ("ws" \in S <=> "elf" \in S)
  BY KeepBootTakes
<1>2. /\ \A w : Has(w)' <=> Has(w) /\ w \notin S
      /\ \A u, w : Newer(u, w)' <=> Newer(u, w) /\ u \notin S /\ w \notin S
  BY <1>1, DropsOthers DEF Removes
<1>3. design' = design /\ InputsKept
  BY DEF KeepBoot, RemovePaths, Numbers, YType, InputsKept
<1>4. /\ Alike(FlashFiles) /\ Alike({"xsa", "yimg"}) /\ InputsKept
      /\ \A z \in Zips : Alike(GatheredFiles \cup {z})
      /\ (Has("petl")' <=> Has("petl")) /\ (Has("xsa")' <=> Has("xsa"))
      /\ {"xsa", "boot"} \cap S = {}
  <2>1. /\ FlashFiles \subseteq LookedAt \ {"ws", "elf"}
        /\ {"xsa", "boot", "yimg", "petl"} \subseteq LookedAt \ {"ws", "elf"}
        /\ \A z \in Zips : GatheredFiles \cup {z} \subseteq LookedAt \ {"ws", "elf"}
    BY DEF FlashFiles, GatheredFiles, LookedAt, AppFiles, Zips
  <2>2. Alike(LookedAt \ {"ws", "elf"})
    BY <1>1, <1>2 DEF Alike
  <2>3. /\ Alike(FlashFiles) /\ Alike({"xsa", "yimg"})
        /\ \A z \in Zips : Alike(GatheredFiles \cup {z})
    BY <2>1, <2>2 DEF Alike
  <2> QED BY <1>1, <1>2, <1>3, <2>1, <2>3
<1>5. BootGood => BootGood'
  BY <1>1, <1>2, <1>4 DEF BootGood, WsGood
<1>6. McsGood' <=> McsGood
  BY <1>3, <1>4, FlashAlike
<1>7. Stamped' <=> Stamped
  BY <1>4, ImagesAlike
<1>8. \A z \in Packaged' : ZipGood(z)'
  <2>1. Packaged' = Packaged
    BY <1>3 DEF Packaged, has_software_flow
  <2> QED BY <1>3, <1>4, <2>1, PackagedOf, ZipAlike DEF Quiet
<1> QED BY <1>3, <1>4, <1>5, <1>6, <1>7, <1>8 DEF Quiet

\* The images of a settled target stay as the stage wants them.
LEMMA SettledImages ==
    ASSUME Numbers, UNCHANGED fvars, [Next]_vars, settled', Stamped PROVE Stamped'
<1>1. (\A x : Has(x)' <=> Has(x)) /\ y \in YType
  BY SameHas DEF Numbers
<1>2. CASE /\ y'.text = y.text /\ y'.conf = y.conf /\ y'.recipe = y.recipe /\ y'.port = y.port
           /\ y'.xsa = y.xsa /\ y'.stamp = y.stamp
  <2>1. yocto_inputs' = yocto_inputs
    BY <1>1, <1>2 DEF yocto_inputs
  <2> QED BY <1>1, <1>2, <2>1 DEF Stamped, UpToDate, yocto_input_changes, Text
<1>3. CASE StageYocto
  BY <1>2, <1>3, StampStays
<1>4. CASE YoctoSnapshot
  BY <1>1, <1>2, <1>4 DEF YoctoSnapshot, YType
<1>5. CASE YoctoConfigure
  BY <1>1, <1>2, <1>5 DEF YoctoConfigure, YType, yvars
<1>6. CASE Yocto /\ ~StageYocto /\ ~YoctoSnapshot /\ ~YoctoConfigure
  <2>1. y' = y
    BY <1>6 DEF Yocto, YoctoHandoff, YoctoConfigured, YoctoBitbake, YoctoPackage, YoctoStamp,
               YoctoFails, Edit, Meddled, ToolDone, FailRun, Returns, yvars
  <2> QED BY <1>2, <2>1
<1>7. CASE RunTool \/ PetalinuxAgain \/ CutShort \/ Refuses \/ Interrupts \/ Clean
  BY <1>7 DEF RunTool, PetalinuxAgain, CutShort, Refuses, Interrupts, Clean, ToolDone, FailRun, Meddled
<1>8. CASE Start \/ Finish \/ RunStage \/ PlanKeepBoot \/ DropPlan \/ UNCHANGED vars
  BY <1>2, <1>8 DEF Start, Finish, RunStage, PlanKeepBoot, DropPlan, vars
<1>9. CASE KeepBoot
  BY <1>1, <1>2, <1>9 DEF KeepBoot, RemovePaths, YType
<1>10. CASE KeepBootKilled
  BY <1>10 DEF KeepBootKilled
<1> QED BY <1>3, <1>4, <1>5, <1>6, <1>7, <1>8, <1>9, <1>10 DEF Next

LEMMA SettledQuiet ==
    ASSUME Numbers, UNCHANGED fvars, design' = design, [Next]_vars, settled', Quiet PROVE Quiet'
<1>1. /\ (\A x : Has(x)' <=> Has(x)) /\ Alike(AppFiles) /\ Alike(FlashFiles)
      /\ \A z \in Zips : Alike(GatheredFiles \cup {z})
  BY SameAlike, SameHas
<1>2. (BootGood' <=> BootGood) /\ (McsGood' <=> McsGood) /\ (Stamped => Stamped')
  BY <1>1, AppAlike, FlashAlike, SettledImages
<1>3. \A z \in Packaged' : ZipGood(z)'
  <2>1. Packaged' = Packaged
    BY DEF Packaged, has_software_flow
  <2> QED BY <1>1, <2>1, PackagedOf, ZipAlike DEF Quiet
<1> QED BY <1>1, <1>2, <1>3 DEF Quiet

\* An 'all' at its end has left nothing to do.
LEMMA FinishQuiet ==
    ASSUME AllDue, AllDone, run.todo = <<>> PROVE Quiet
<1>1. \A e : ~Pending(e)
  BY None DEF Pending
<1>2. Has("xsa")
  BY <1>1 DEF AllDue, XsaDue
<1>3. \A z \in Packaged : ZipGood(z)
  BY <1>1 DEF AllDone, ZipDone, Due
<1> QED BY <1>1, <1>2, <1>3 DEF AllDone, BootDone, McsDone, PetlDone, ImagesDone, Due, Quiet

LEMMA QuietKept ==
    ASSUME StepInv, AllInv, Undisturbed => AllDone, settled => Quiet, [Next]_vars, settled'
    PROVE  Quiet'
<1> USE DEF StepInv, YoctoInv
<1>1. CASE settled /\ design' = design /\ UNCHANGED fvars
  BY <1>1, SettledQuiet
<1>2. CASE KeepBoot /\ settled
  BY <1>2, KeepBootQuiet
<1>3. CASE Finish
  <2>1. design' = design /\ UNCHANGED fvars
    BY <1>3 DEF Finish, fvars
  <2>2. CASE settled
    BY <1>1, <2>1, <2>2
  <2>3. CASE ~settled
    <3>1. Undisturbed /\ run.todo = <<>>
      BY <1>3, <2>3 DEF Finish, Undisturbed
    <3>2. Quiet
      BY <3>1, FinishQuiet DEF AllInv
    <3> QED BY <2>1, <3>2, SettledQuiet
  <2> QED BY <2>2, <2>3
<1> QED BY <1>1, <1>2, <1>3, SettledSteps

-----------------------------------------------------------------------------
(* An 'all' on a settled target                                              *)

LEMMA QuietNames ==
    /\ \A x : Tool(x) \notin QuietStages
    /\ \A c : Core(c) \notin QuietStages
    /\ ImageSteps \cap QuietStages = {}
    /\ \A s : Stage(s) \in QuietStages =>
        s \in {"xsa", "standalone", "workspace", "boot", "cfgmem", "flash", "petalinux", "yocto",
               "package"} \cup Packaged
BY DEF QuietStages, ImageSteps, Packaged, Stage, Tool, Core

LEMMA QuietStage ==
    ASSUME RunOK, TodoInv, Quiet, OnlyLooks, NEW s \in StageNames, At(Stage(s))
    PROVE  LET r == STAGE_FUNCS(s)
           IN /\ r.ok /\ Steps(r) \subseteq QuietStages
              /\ Stage("workspace") \in Steps(r) \/ Stage("boot") \in Steps(r)
                 => design.baremetal /\ Has("ws")
<1> DEFINE Looks(r) ==
        /\ r.ok /\ Steps(r) \subseteq QuietStages
        /\ Stage("workspace") \in Steps(r) \/ Stage("boot") \in Steps(r)
           => design.baremetal /\ Has("ws")
<1>1. Pending(Stage(s)) /\ Stage(s) \in QuietStages
  BY AtPending DEF OnlyLooks, Pending
<1>2. s \in {"xsa", "standalone", "workspace", "boot", "cfgmem", "flash", "petalinux", "package"}
            \cup Packaged
  BY <1>1, QuietNames DEF StageNames, Zips
<1>3. Looks(Skipped)
  BY DoesSteps
<1>4. CASE s = "xsa"
  <2>1. stage_xsa = Skipped
    BY DEF stage_xsa, Quiet
  <2> QED BY <1>3, <1>4, <2>1, StageFuncsAre
<1>5. CASE s = "standalone"
  <2>1. CASE ~design.baremetal \/ ~Has("ws")
    <3>1. stage_bootfile = Skipped
      BY <2>1 DEF stage_bootfile, Quiet, BootGood
    <3> QED BY <1>3, <1>5, <3>1, StageFuncsAre
  <2>2. CASE design.baremetal /\ Has("ws")
    <3>1. stage_bootfile.ok /\ Steps(stage_bootfile) \subseteq {Stage("workspace"), Stage("boot")}
      BY AppStagesDo
    <3> QED BY <1>5, <2>2, <3>1, StageFuncsAre DEF QuietStages
  <2> QED BY <2>1, <2>2
<1>6. CASE s = "workspace"
  <2>1. WsGood /\ Has("xsa")
    BY <1>1, <1>6 DEF OnlyLooks, Quiet, BootGood
  <2>2. stage_workspace = Skipped
    BY <2>1 DEF stage_workspace, WsGood
  <2> QED BY <1>3, <1>6, <2>2, StageFuncsAre
<1>7. CASE s = "boot"
  <2>1. Has("boot") /\ Has("elf") /\ Newer("boot", "elf")
    BY <1>1, <1>7 DEF OnlyLooks, Quiet, BootGood, WsGood
  <2>2. stage_boot = Skipped
    BY <2>1 DEF stage_boot
  <2> QED BY <1>3, <1>7, <2>2, StageFuncsAre
<1>8. CASE s = "cfgmem"
  <2>1. stage_cfgmem.ok
    BY DoesSteps DEF stage_cfgmem
  <2>2. Steps(stage_cfgmem) \subseteq {Stage("xsa"), Stage("flash"), Stage("standalone")}
    BY AppStagesDo
  <2>3. /\ Stage("workspace") \notin {Stage("xsa"), Stage("flash"), Stage("standalone")}
        /\ Stage("boot") \notin {Stage("xsa"), Stage("flash"), Stage("standalone")}
    BY DEF Stage
  <2> QED BY <1>8, <2>1, <2>2, <2>3, StageFuncsAre DEF QuietStages
<1>9. CASE s = "flash"
  <2>1. McsGood
    BY <1>1, <1>9 DEF TodoInv, FlashIsOfDesign, Quiet
  <2>2. stage_flash = Skipped
    BY <2>1 DEF stage_flash, McsGood
  <2> QED BY <1>3, <1>9, <2>2, StageFuncsAre
<1>10. CASE s = "petalinux"
  <2>1. stage_petalinux = Skipped
    BY DEF stage_petalinux, Quiet
  <2> QED BY <1>3, <1>10, <2>1, StageFuncsAre
<1>11. CASE s = "package"
  <2>1. stage_package.ok /\ Steps(stage_package) = {Stage(z) : z \in Packaged}
    BY PackageStagesDo, DoesSteps DEF stage_package
  <2>2. /\ Stage("workspace") \notin {Stage(z) : z \in Packaged}
        /\ Stage("boot") \notin {Stage(z) : z \in Packaged}
    BY PackagedOf DEF Stage, Zips
  <2> QED BY <1>11, <2>1, <2>2, StageFuncsAre DEF QuietStages
<1>12. CASE s \in Packaged
  <2>1. ZipGood(s) /\ s \in Zips
    BY <1>12, PackagedOf DEF Quiet
  <2>2. stage_zip(s) = Skipped
    BY <2>1 DEF stage_zip, ZipGood
  <2> QED BY <1>3, <2>1, <2>2, StageFuncsAre
<1> QED BY <1>2, <1>4, <1>5, <1>6, <1>7, <1>8, <1>9, <1>10, <1>11, <1>12

\* Of the image build there is the stage, and it is skipped.
LEMMA QuietYocto ==
    ASSUME RunOK, Quiet, OnlyLooks, Yocto
    PROVE  Edit \/ (StageYocto /\ At(Stage("yocto")) /\ Returns(Skipped))
<1>1. /\ \A x : ~At(Tool(x))
      /\ ~At(Stage("snapshot")) /\ ~At(Stage("configure"))
  BY AtPending, QuietNames, ImageNames DEF OnlyLooks, Pending
<1>2. StageYocto \/ Edit
  BY <1>1 DEF Yocto, YoctoSnapshot, YoctoHandoff, YoctoConfigure, YoctoConfigured, YoctoBitbake,
              YoctoPackage, YoctoStamp, YoctoFails
<1>3. StageYocto => At(Stage("yocto")) /\ Returns(Skipped)
  BY StampStays DEF StageYocto, Quiet, ImagesGood
<1> QED BY <1>2, <1>3

\* A run that looks only goes on to look, when its stage puts T in its place.
LEMMA LooksOn ==
    ASSUME OnlyLooks, UNCHANGED fvars, NEW h, NEW T, Turns(h, T), T \subseteq QuietStages,
           Stage("workspace") \in T \/ Stage("boot") \in T => design.baremetal /\ Has("ws")
    PROVE  OnlyLooks'
<1>1. design' = design /\ QuietStages' = QuietStages /\ (Has("ws")' <=> Has("ws"))
  BY SameHas DEF Turns, QuietStages, Packaged, has_software_flow
<1>2. \A e : Pending(e)' => e \in QuietStages
  BY DEF Turns, OnlyLooks, Pending
<1>3. /\ Pending(Stage("workspace"))' => Pending(Stage("workspace")) \/ Stage("workspace") \in T
      /\ Pending(Stage("boot"))' => Pending(Stage("boot")) \/ Stage("boot") \in T
  BY DEF Turns
<1> QED BY <1>1, <1>2, <1>3 DEF OnlyLooks, Pending

LEMMA StartLooks == ASSUME Start, run'.cmd = "all" PROVE OnlyLooks'
<1>1. run' = [cmd |-> "all", todo |-> stages_for("all"), calm |-> TRUE] /\ design' = design
  BY DEF Start
<1> DEFINE S == Elems(stages_for("all"))
<1>2. Elems(run.todo)' = S
  BY <1>1 DEF Elems
<1>3. S \subseteq {Stage("xsa"), Stage("package"), Stage("standalone"), Stage("cfgmem"),
                  Stage("petalinux"), Stage("yocto")}
  BY StagesAre
<1> HIDE DEF S
<1>4. Stage("workspace") \notin S /\ Stage("boot") \notin S
  BY <1>3 DEF Stage
<1> QED BY <1>2, <1>3, <1>4 DEF OnlyLooks, QuietStages, Pending

LEMMA LooksKept ==
    ASSUME StepInv, TodoInv, settled => Quiet, settled /\ Undisturbed => OnlyLooks,
           [Next]_vars, settled', Undisturbed'
    PROVE  OnlyLooks'
<1> USE DEF StepInv
<1>1. CASE Start
  BY <1>1, StartLooks DEF Undisturbed
<1>2. CASE Finish
  BY <1>2, IdleOK DEF Finish, Undisturbed
<1>3. CASE RunStage
  <2>1. design' = design /\ UNCHANGED fvars
    BY <1>3 DEF RunStage, fvars
  <2>2. CASE \E s \in StageNames : At(Stage(s)) /\ Returns(STAGE_FUNCS(s))
    <3> PICK s \in StageNames : At(Stage(s)) /\ Returns(STAGE_FUNCS(s))
      BY <2>2
    <3>1. Turns(Stage(s), Steps(STAGE_FUNCS(s))) /\ STAGE_FUNCS(s).ok
      <4>1. run' # Idle
        BY IdleOK DEF Undisturbed
      <4> QED BY <2>1, <4>1, StageTurns
    <3>2. settled /\ Undisturbed
      BY <3>1, TurnsUndisturbed DEF Returns
    <3>3. Quiet /\ OnlyLooks
      BY <3>2
    <3> QED BY <2>1, <3>1, <3>3, QuietStage, LooksOn
  <2>3. CASE \E c \in Elems(Cores) : At(Core(c)) /\ Returns(stage_core(c))
    <3> PICK c \in Elems(Cores) : At(Core(c)) /\ Returns(stage_core(c))
      BY <2>3
    <3> PICK T : Turns(Core(c), T)
      BY <2>1, CoreTurns
    <3>1. settled /\ Undisturbed
      BY TurnsUndisturbed DEF Returns, FailRun
    <3> QED BY <3>1, AtPending, QuietNames DEF OnlyLooks, Pending
  <2> QED BY <1>3, <2>2, <2>3 DEF RunStage
<1>4. CASE RunTool \/ PetalinuxAgain \/ CutShort \/ Refuses \/ Interrupts \/ Clean
  BY <1>4 DEF RunTool, PetalinuxAgain, CutShort, Refuses, Interrupts, Clean, ToolDone, FailRun, Meddled
<1>5. CASE KeepBoot \/ KeepBootKilled
  BY <1>5 DEF KeepBoot, KeepBootKilled, Undisturbed
<1>6. CASE PlanKeepBoot \/ DropPlan \/ UNCHANGED vars
  <2>1. design' = design /\ UNCHANGED fvars /\ run' = run /\ settled' = settled
    BY <1>6 DEF PlanKeepBoot, DropPlan, vars, fvars
  <2>2. (\A e : Pending(e)' <=> Pending(e)) /\ (Has("ws")' <=> Has("ws")) /\ QuietStages' = QuietStages
    BY <2>1, SamePending, SameHas DEF QuietStages, Packaged, has_software_flow
  <2>3. OnlyLooks
    BY <2>1 DEF Undisturbed
  <2> QED BY <2>1, <2>2, <2>3 DEF OnlyLooks, Pending
<1>7. CASE Yocto
  <2>1. settled
    BY <1>7, SettledSteps DEF Yocto, StageYocto, YoctoSnapshot, YoctoHandoff, YoctoConfigure,
          YoctoConfigured, YoctoBitbake, YoctoPackage, YoctoStamp, YoctoFails, Edit, Meddled, ToolDone,
          FailRun, Returns
  <2>2. PICK h, T : Turns(h, T)
    <3>1. ~FailRun /\ ~Edit
      BY DEF FailRun, Edit, Meddled
    <3> QED BY <1>7, <3>1, YoctoShapes DEF YoctoShape, YoctoTurn, ImageTurn
  <2>3. Quiet /\ OnlyLooks
    BY <2>1, <2>2, TurnsUndisturbed
  <2>4. StageYocto /\ At(Stage("yocto")) /\ Returns(Skipped)
    <3>1. ~Edit
      BY DEF Edit, Meddled
    <3> QED BY <1>7, <2>3, <3>1, QuietYocto
  <2>5. UNCHANGED fvars /\ design' = design
    BY <2>4 DEF StageYocto
  <2>6. Turns(Stage("yocto"), {})
    <3>1. run.todo # <<>> /\ Head(run.todo) = Stage("yocto")
      BY <2>4 DEF At
    <3>2. Skipped.ok /\ Skipped.todo = <<>>
      BY DEF Skipped, Does
    <3>3. GoesOn(<<>>)
      BY <2>4, <3>1, <3>2, None, ReturnsGoesOn
    <3> QED BY <2>5, <3>1, <3>3, None, GoesOnTurns
  <2> QED BY <2>3, <2>5, <2>6, LooksOn
<1> QED BY <1>1, <1>2, <1>3, <1>4, <1>5, <1>6, <1>7 DEF Next

LEMMA QuietInvBegins == Init => QuietInv
<1> SUFFICES ASSUME Init PROVE QuietInv
  OBVIOUS
<1>1. run = Idle /\ settled = FALSE /\ ~Newer("boot", "elf")
  BY DEF Init, InitRun, InitFiles, Newer
<1> QED BY <1>1, IdleOK DEF QuietInv, BootAbove, Undisturbed

LEMMA QuietInvKept == ShipInv /\ QuietInv /\ [Next]_vars => QuietInv'
<1> SUFFICES ASSUME ShipInv, QuietInv, [Next]_vars PROVE QuietInv'
  OBVIOUS
<1> USE DEF ShipInv
<1>1. BootAbove'
  BY AboveKept DEF QuietInv
<1>2. (Undisturbed => AllDone)'
  BY DoneKept DEF QuietInv
<1>3. (settled => Quiet)'
  BY QuietKept DEF QuietInv
<1>4. (settled /\ Undisturbed => OnlyLooks)'
  BY LooksKept DEF QuietInv
<1> QED BY <1>1, <1>2, <1>3, <1>4 DEF QuietInv

\* No step of an 'all' on a settled target writes a file or fails.
LEMMA NoopSteps ==
    ShipInv /\ QuietInv /\ [Next]_vars
    => [settled /\ run.cmd = "all" /\ run.calm
          => (settled' /\ UNCHANGED <<files, newer, y>>) \/ Meddled \/ Interrupts]_vars
<1> SUFFICES ASSUME ShipInv, QuietInv, [Next]_vars, settled, Undisturbed
             PROVE  \/ settled' /\ UNCHANGED <<files, newer, y>>
                    \/ Meddled \/ Interrupts \/ UNCHANGED vars
  BY DEF Undisturbed
<1> USE DEF ShipInv, StepInv
<1>1. Quiet /\ OnlyLooks
  BY DEF QuietInv
<1>2. \A x : ~At(Tool(x)) /\ ~At(Core(x))
  BY <1>1, AtPending, QuietNames DEF OnlyLooks, Pending
<1>3. CASE RunStage
  <2>1. PICK s \in StageNames : At(Stage(s)) /\ Returns(STAGE_FUNCS(s))
    BY <1>2, <1>3 DEF RunStage
  <2>2. STAGE_FUNCS(s).ok
    BY <1>1, <2>1, QuietStage
  <2> QED BY <1>3, <2>1, <2>2 DEF Returns, RunStage
<1>4. CASE RunTool \/ PetalinuxAgain \/ CutShort \/ Refuses
  BY <1>2, <1>4 DEF RunTool, PetalinuxAgain, CutShort, Refuses
<1>5. CASE Start \/ KeepBoot \/ KeepBootKilled
  BY <1>5, IdleOK DEF Start, KeepBoot, KeepBootKilled, Undisturbed
<1>6. CASE Finish \/ PlanKeepBoot \/ DropPlan
  BY <1>6 DEF Finish, PlanKeepBoot, DropPlan
<1>7. CASE Clean
  BY <1>7 DEF Clean
<1>8. CASE Yocto
  <2>1. Edit => Meddled
    BY DEF Edit
  <2>2. Returns(Skipped) => settled' = settled
    BY DoesSteps DEF Returns
  <2>3. StageYocto => UNCHANGED <<files, newer, y>>
    <3>1. CASE design.yocto /\ ~design.windows
      BY <1>1, <3>1, StampStays DEF StageYocto, fvars, Quiet
    <3>2. CASE ~(design.yocto /\ ~design.windows)
      BY <3>2 DEF StageYocto, fvars
    <3> QED BY <3>1, <3>2
  <2> QED BY <1>1, <1>8, <2>1, <2>2, <2>3, QuietYocto
<1> QED BY <1>3, <1>4, <1>5, <1>6, <1>7, <1>8 DEF Next

\* Once an 'all' that nobody disturbed has ended, an 'all' finds nothing to do: no
\* step of it runs a tool, changes a file, adopts a stamp or fails, unless the user
\* stops it or meddles, and no keep-boot clean in between changes that.
THEOREM AllIsNoop == Spec => NoopWhenSettled
<1>1. Init => ShipInv /\ QuietInv
  BY ShipBegins, QuietInvBegins
<1>2. ShipInv /\ QuietInv /\ [Next]_vars => ShipInv' /\ QuietInv'
  BY StepInvKept, FilesTodoKept, AllKept, ShippedKept, QuietInvKept DEF ShipInv
<1>3. ShipInv /\ QuietInv /\ [Next]_vars
      => [settled /\ run.cmd = "all" /\ run.calm
            => (settled' /\ UNCHANGED <<files, newer, y>>) \/ Meddled \/ Interrupts]_vars
  BY NoopSteps
<1> QED BY <1>1, <1>2, <1>3, PTL DEF Spec, NoopWhenSettled
=============================================================================
