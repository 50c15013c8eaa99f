--------------------------- MODULE DaemonRunsProof ---------------------------
(***************************************************************************)
(* More theorems about Daemon: where tasks, attempts and agent processes   *)
(* go.  They rest on the slots, hands and locks of DaemonProof.            *)
(***************************************************************************)
EXTENDS DaemonProof, FiniteSetTheorems

-----------------------------------------------------------------------------
(* The invariants                                                          *)

\* While no command copies a task back, what leaves one directory is in another: the
\* task being cleaned up has an outcome, the one being requeued has its queue file,
\* unless that was cancelled.
Settled(t) == retry[t] # "none" \/ t \in done \cup failed \cup dead
Kept(t) == t \in submitted \ cancelled => lane[t] # "none" \/ t \in cur \/ Settled(t)
KeptInv ==
  /\ \A t \in Task : Kept(t)
  /\ erasing = {}
  /\ pc = "cleanup" => Settled(hand.task)
  /\ pc = "requeue" => /\ hand.task \in Task
                       /\ hand.task \in submitted \ cancelled => lane[hand.task] # "none"

\* A task nobody submitted is nowhere and nobody runs it.
Unknown(t) ==
  /\ lane[t] = "none" /\ retry[t] = "none" /\ attempts[t] = 0 /\ spawned[t] = 0
  /\ t \notin cur \cup done \cup failed \cup dead /\ active[t] = NoRun /\ hand.task # t
Known == \A t \in Task \ submitted : Unknown(t)

\* The task whose run is being started, and the tasks with a run at all.
Starts(t)  == pc \in {"spawn", "register"} /\ hand.task = t
Working(t) == t \in Active \/ Starts(t)
Live(t)    == Working(t) \/ lane[t] # "none" \/ retry[t] # "none"

\* While the daemon does not crash, a task is queued, at work or waiting, and only one of
\* these (but for the two steps of a requeue); then it has no outcome, but for one that a
\* retry by hand is about to remove, and that is not a success.
Single(t) ==
  /\ t \notin erasing => ~ (t \in done \cap failed \/ t \in done \cap dead \/ t \in failed \cap dead)
  /\ Working(t) => lane[t] = "none" /\ retry[t] = "none"
  /\ lane[t] # "none" /\ retry[t] # "none" => pc = "requeue" /\ hand.task = t
  /\ pc \in Handling /\ hand.task = t => t \notin Active
  /\ Live(t) => t \notin done /\ (t \notin erasing => t \notin failed \cup dead)
  /\ t \in cur => Working(t) \/ (pc = "cleanup" /\ hand.task = t)
SingleInv == \A t \in Task : Single(t)

\* The pid file of a tracked run names its process.
Tracks(t) ==
  active[t].pid \in Pid /\ pidfile[t] = active[t].pid /\ proc[active[t].pid].task = t

\* The daemon holds the run of a process that runs.
Followed(p) ==
  proc[p].st = "running" =>
    LET t == proc[p].task
    IN  \/ t \in Active /\ active[t].pid = p
        \/ pc = "register" /\ hand.task = t /\ hand.run.pid = p

\* While nothing crashes and nobody cancels, every process that runs is that of a run the
\* daemon holds, and the pid file of a tracked run names its process.
ProcInv ==
  /\ signal = {}
  /\ \A t \in Active : Tracks(t)
  /\ pc = "register" => hand.run.pid \in Pid /\ proc[hand.run.pid].task = hand.task
  /\ \A p \in Pid : Followed(p)

\* Attempts of a task, the one being registered included; and what may still become one:
\* a queue file, a retry file, a run that can be repeated.
Tried(t) == IF pc = "register" /\ hand.task = t THEN hand.run.attempt ELSE attempts[t]
Repeats(t) ==
  \/ pc = "spawn" /\ hand.task = t
  \/ pc = "register" /\ hand.task = t /\ hand.run.attempt < MaxAttempts
Chances(t) ==
  (IF lane[t] # "none" THEN 1 ELSE 0)
  + (IF retry[t] # "none" /\ ~(pc = "requeue" /\ hand.task = t) THEN 1 ELSE 0)
  + (IF Repeats(t) THEN 1 ELSE 0)
  + (IF t \in Active /\ active[t].attempt < MaxAttempts THEN 1 ELSE 0)
AtLeast(n, m) == IF n >= m THEN n ELSE m

\* Each chance adds at most one attempt once MaxAttempts are made; only a crash and a retry
\* by hand make a new one.  Processes exceed attempts by those a crash kept from their
\* run file.
Bounded(t) ==
  AtLeast(Tried(t), MaxAttempts - 1) + Chances(t) + AtLeast(spawned[t] - Tried(t), 0)
    <= MaxAttempts + spent.retry + spent.crash
AttemptsInv ==
  /\ \A t \in Task : Bounded(t)
  /\ pc = "register" => hand.run.attempt = attempts[hand.task] + 1

-----------------------------------------------------------------------------
(* What the actions do to the daemon's hand                                *)

\* Spawn adds pid and attempt to the run in hand and changes nothing else in it.
LEMMA SpawnHand ==
  ASSUME TypeOK, Spawn
  PROVE  \E p \in Pid :
           /\ hand'.task = hand.task
           /\ hand'.run = [slot |-> hand.run.slot, pid |-> p,
                           attempt |-> attempts[hand.task] + 1]
           /\ proc[p] = NoProc /\ \A u \in Task : pidfile[u] # p
           /\ proc' = [proc EXCEPT ![p] = [task |-> hand.task, st |-> "running"]]
<1>1. PICK p \in Pid :
        /\ hand' = [hand EXCEPT !.run.pid = p, !.run.attempt = attempts[hand.task] + 1]
        /\ proc[p] = NoProc /\ \A u \in Task : pidfile[u] # p
        /\ proc' = [proc EXCEPT ![p] = [task |-> hand.task, st |-> "running"]]
  BY DEF Spawn
<1>2. hand \in [task : Task \cup {NoTask}, run : RunType] /\ hand.run \in RunType
  BY DEF TypeOK
<1>3. hand' = [hand EXCEPT !.run = [hand.run EXCEPT !.pid = p,
                                   !.attempt = attempts[hand.task] + 1]]
  BY <1>1, <1>2 DEF RunType
<1>4. hand'.task = hand.task
  BY <1>2, <1>3
<1>5. hand'.run = [hand.run EXCEPT !.pid = p, !.attempt = attempts[hand.task] + 1]
  BY <1>2, <1>3
<1>6. hand'.run = [slot |-> hand.run.slot, pid |-> p, attempt |-> attempts[hand.task] + 1]
  BY <1>2, <1>5 DEF RunType
<1> QED
  BY <1>1, <1>4, <1>6

-----------------------------------------------------------------------------
(* Tasks nobody submitted                                                  *)

\* Nothing reaches a task before it is submitted: every step that writes something of a
\* task finds a file of it or a run of it first.
LEMMA KnownStep ==
  ASSUME SlotInv, Known, [Next]_vars
  PROVE  Known'
<1> SUFFICES ASSUME NEW x \in Task \ submitted', x \notin submitted, Unknown(x)
             PROVE  Unknown(x)'
  <2>1. submitted \subseteq submitted'
    BY DEF Next, Loop, World, Start, RecoverSlots, SweepOrphans, ClearLocks, Tick,
       ProcessCancels, Cleanup, EndCollect, EndReap, RequeueClean, BeginDispatch, EndDispatch,
       SpawnRefused, Spawn, Register, Collect, Reap, RequeueWrite, Skip, Claim, ProcExit,
       CooldownElapses, BackoffElapses, HeartbeatAges, Submit, CliCancel, CliRetryCopy,
       CliRetryRemove, Crash, vars, histVars
  <2> QED
    BY <2>1 DEF Known
<1> USE DEF SlotInv, Unknown
<1>0. NoTask \notin Task
  BY ConstantsAssumption DEF ConstantsAssumption
<1>1. CASE \/ Start \/ RecoverSlots \/ ClearLocks \/ Tick \/ EndCollect \/ EndReap
           \/ BeginDispatch \/ EndDispatch \/ Crash
  BY <1>0, <1>1 DEF Start, RecoverSlots, ClearLocks, Tick, EndCollect, EndReap, BeginDispatch,
     EndDispatch, Crash, NoHand, busVars, trackVars, memVars, histVars, envVars
<1>2. CASE SweepOrphans
  BY <1>2 DEF SweepOrphans, FailOrphans, histVars, envVars
<1>3. CASE ProcessCancels
  BY <1>3 DEF ProcessCancels, MoveStaging, Active, histVars, envVars
<1>4. CASE Cleanup \/ RequeueClean
  BY <1>0, <1>4 DEF TypeOK, Cleanup, RequeueClean, NoHand, busVars, trackVars, histVars, envVars
<1>5. CASE SpawnRefused
  BY <1>0, <1>5 DEF TypeOK, SpawnRefused, NoHand, HandOK, Handling, histVars, envVars
<1>6. CASE Spawn
  BY <1>6, SpawnHand DEF TypeOK, Spawn, HandOK, Handling, busVars, trackVars, envVars
<1>7. CASE Register
  BY <1>0, <1>7 DEF TypeOK, Register, NoHand, HandOK, Handling, histVars, envVars
<1>8. ASSUME NEW t \in Task, Collect(t) PROVE Unknown(x)'
  BY <1>8 DEF TypeOK, Collect, MoveStaging, Active, trackVars, envVars
<1>9. ASSUME NEW t \in Task, Reap(t) \/ RequeueWrite(t) \/ Skip(t) \/ Claim(t)
      PROVE  Unknown(x)'
  BY <1>9 DEF TypeOK, Reap, RequeueWrite, Skip, Claim, MoveStaging, Stale, Active, busVars,
     trackVars, envVars, histVars
<1>10. ASSUME NEW t \in Task, \/ BackoffElapses(t) \/ HeartbeatAges(t) \/ Submit(t)
                              \/ CliCancel(t) \/ CliRetryCopy(t) \/ CliRetryRemove(t)
       PROVE  Unknown(x)'
  BY <1>10 DEF TypeOK, BackoffElapses, HeartbeatAges, Submit, CliCancel, CliRetryCopy,
     CliRetryRemove, busVars, trackVars, memVars, envVars, histVars
<1>11. CASE \/ (\E p \in Pid : ProcExit(p)) \/ (\E m \in Model : CooldownElapses(m))
            \/ UNCHANGED vars
  BY <1>11 DEF ProcExit, CooldownElapses, vars, busVars, trackVars, memVars, envVars, histVars
<1> QED
  BY <1>1, <1>2, <1>3, <1>4, <1>5, <1>6, <1>7, <1>8, <1>9, <1>10, <1>11 DEF Next, Loop, World

-----------------------------------------------------------------------------
(* One place and one verdict                                               *)

\* While the daemon does not crash, every step keeps every task in one place: a queue
\* file becomes a run, a run an outcome or a retry file, a retry file a queue file.
LEMMA SingleStep ==
  ASSUME MaxCrashes = 0, SlotInv, Known, SingleInv, [Next]_vars
  PROVE  SingleInv'
<1> SUFFICES ASSUME NEW x \in Task PROVE Single(x)'
  BY DEF SingleInv
<1> USE DEF SlotInv
<1>s. Single(x)
  BY DEF SingleInv
<1> HIDE DEF SingleInv
<1> USE DEF Single, Live, Working, Starts
<1>a. NoTask \notin Task
  BY ConstantsAssumption DEF ConstantsAssumption
<1>b. pc \in Handling => hand.task \in Task
  BY DEF HandOK
<1>1. CASE \/ Start \/ RecoverSlots \/ ClearLocks \/ Tick \/ EndCollect \/ EndReap
           \/ BeginDispatch \/ EndDispatch
  <2>1. /\ pc \notin Handling \cup {"requeue"} /\ pc' \notin Handling \cup {"requeue"}
        /\ UNCHANGED <<lane, cur, done, failed, dead, retry, erasing, active, hand>>
    BY <1>1 DEF Start, RecoverSlots, ClearLocks, Tick, EndCollect, EndReap, BeginDispatch,
       EndDispatch, Handling, busVars, trackVars, memVars, histVars, envVars
  <2> QED
    BY <1>s, <2>1 DEF Handling, Active
<1>2. CASE SweepOrphans
  <2>1. /\ pc = "orphans" /\ pc' = "clear_locks"
        /\ UNCHANGED <<lane, done, dead, retry, erasing, active, hand>>
        /\ cur' \subseteq cur /\ failed' \subseteq failed \cup cur
    BY <1>2 DEF SweepOrphans, FailOrphans, envVars
  <2>2. x \notin cur
    BY <1>s, <2>1 DEF Untracked, Starting
  <2> QED
    BY <1>s, <2>1, <2>2 DEF Handling, Active
<1>3. CASE ProcessCancels
  <2>1. /\ pc = "cancel" /\ pc' = "collect"
        /\ UNCHANGED <<lane, done, dead, retry, erasing, hand>>
        /\ x \notin Active \cap signal => /\ x \in Active' <=> x \in Active
                                          /\ x \in cur' <=> x \in cur
                                          /\ x \in failed' <=> x \in failed
        /\ x \in Active \cap signal => x \notin Active' /\ x \notin cur'
    BY <1>3 DEF TypeOK, ProcessCancels, MoveStaging, Active, envVars
  <2> QED
    BY <1>s, <2>1 DEF Handling
<1>4. ASSUME NEW t \in Task, Collect(t) PROVE Single(x)'
  <2>1. /\ pc = "collect" /\ pc' = "cleanup" /\ t \in Active
        /\ UNCHANGED <<lane, cur, erasing>> /\ hand'.task = t
        /\ \/ retry' = [retry EXCEPT ![t] = "waiting"] /\ UNCHANGED <<done, failed, dead>>
           \/ UNCHANGED <<failed, dead, retry>> /\ done' = MoveStaging(done, {t})
           \/ UNCHANGED <<done, dead, retry>> /\ failed' = MoveStaging(failed, {t})
           \/ UNCHANGED <<done, failed, retry>> /\ dead' = MoveStaging(dead, {t})
    BY <1>4 DEF Collect, envVars, RetryDecision
  <2>2. Active' = Active \ {t}
    BY <1>4 DEF TypeOK, Collect, Active
  <2>3. CASE x # t
    BY <1>s, <2>1, <2>2, <2>3 DEF Handling, TypeOK, MoveStaging
  <2>4. CASE x = t
    BY <1>s, <2>1, <2>2, <2>4 DEF Handling, TypeOK, MoveStaging
  <2> QED
    BY <2>3, <2>4
<1>5. CASE Cleanup
  <2>1. /\ pc = "cleanup" /\ pc' = "collect" /\ hand'.task = NoTask
        /\ cur' = cur \ {hand.task}
        /\ UNCHANGED <<lane, done, failed, dead, retry, erasing, active>>
    BY <1>5 DEF Cleanup, NoHand, envVars
  <2> QED
    BY <1>s, <1>b, <2>1 DEF Handling, Active
<1>6. ASSUME NEW t \in Task, Reap(t) PROVE Single(x)'
  <2>1. /\ pc = "reap" /\ t \in cur /\ cur' = cur \ {t}
        /\ UNCHANGED <<pc, hand, lane, done, dead, retry, erasing>>
        /\ failed' \subseteq failed \cup {t} /\ failed \subseteq failed'
        /\ Active' = Active \ {t}
    BY <1>6 DEF TypeOK, Reap, Stale, MoveStaging, envVars, Active
  <2>2. t \in Active
    BY <2>1 DEF SingleInv
  <2> QED
    BY <1>s, <2>1, <2>2 DEF Handling
<1>7. ASSUME NEW t \in Task, RequeueWrite(t) PROVE Single(x)'
  <2>1. /\ pc = "retries" /\ pc' = "requeue" /\ retry[t] = "due" /\ hand'.task = t
        /\ lane' = [lane EXCEPT ![t] = RequeueLane]
        /\ UNCHANGED <<cur, done, failed, dead, retry, erasing, active>>
    BY <1>7 DEF RequeueWrite, envVars
  <2> QED
    BY <1>s, <2>1 DEF Handling, Active, TypeOK
<1>8. CASE RequeueClean
  <2>1. /\ pc = "requeue" /\ pc' = "retries" /\ hand'.task = NoTask
        /\ retry' = [retry EXCEPT ![hand.task] = "none"]
        /\ UNCHANGED <<lane, cur, done, failed, dead, erasing, active>>
    BY <1>8 DEF RequeueClean, NoHand, envVars
  <2> QED
    BY <1>s, <2>1 DEF Handling, Active, TypeOK
<1>9. ASSUME NEW t \in Task, Claim(t) PROVE Single(x)'
  <2>1. /\ pc = "dispatch" /\ pc' = "spawn" /\ lane[t] # "none" /\ hand'.task = t
        /\ lane' = [lane EXCEPT ![t] = "none"] /\ cur' = cur \cup {t}
        /\ UNCHANGED <<done, failed, dead, retry, erasing, active>>
    BY <1>9 DEF Claim, envVars
  <2> QED
    BY <1>s, <2>1 DEF Handling, Active, TypeOK
<1>10. CASE SpawnRefused
  <2>1. /\ pc = "spawn" /\ pc' = "dispatch" /\ hand'.task = NoTask
        /\ cur' = cur \ {hand.task} /\ failed' = failed \cup {hand.task}
        /\ UNCHANGED <<lane, done, dead, retry, erasing, active>>
    BY <1>10 DEF SpawnRefused, NoHand, envVars
  <2> QED
    BY <1>s, <2>1 DEF Handling, Active
<1>11. CASE Spawn
  <2>1. /\ pc = "spawn" /\ pc' = "register" /\ hand'.task = hand.task
        /\ UNCHANGED <<lane, cur, done, failed, dead, retry, erasing, active>>
    BY <1>11, SpawnHand DEF Spawn, busVars, envVars
  <2> QED
    BY <1>s, <2>1 DEF Handling, Active
<1>12. CASE Register
  <2>1. /\ pc = "register" /\ pc' = "dispatch" /\ hand'.task = NoTask /\ hand.run # NoRun
        /\ UNCHANGED <<lane, cur, done, failed, dead, retry, erasing>>
        /\ active' = [active EXCEPT ![hand.task] = hand.run]
    BY <1>12 DEF Register, NoHand, envVars, HandOK, Handling, NoRun, Slot
  <2>2. Active' = Active \cup {hand.task}
    BY <1>b, <2>1 DEF Active, TypeOK, Handling
  <2> QED
    BY <1>s, <1>b, <2>1, <2>2 DEF Handling
<1>13. ASSUME NEW t \in Task, Submit(t) PROVE Single(x)'
  <2>1. /\ t \notin submitted
        /\ \A u \in Task \ {t} : lane'[u] = lane[u]
        /\ UNCHANGED <<pc, hand, cur, done, failed, dead, retry, erasing, active>>
    BY <1>13 DEF TypeOK, Submit, memVars, envVars
  <2>2. Unknown(t)
    BY <2>1 DEF Known
  <2> QED
    BY <1>s, <2>1, <2>2 DEF Active, Unknown, Handling
<1>14. ASSUME NEW t \in Task, CliCancel(t) PROVE Single(x)'
  <2>1. /\ lane' = lane \/ lane' = [lane EXCEPT ![t] = "none"]
        /\ UNCHANGED <<pc, hand, cur, done, failed, dead, retry, erasing, active>>
    BY <1>14 DEF CliCancel, memVars
  <2> QED
    BY <1>s, <2>1 DEF Active, TypeOK
<1>15. ASSUME NEW t \in Task, CliRetryCopy(t) PROVE Single(x)'
  <2>1. /\ t \in failed \cup dead /\ t \notin erasing
        /\ lane' = [lane EXCEPT ![t] = "p1"] /\ erasing' = erasing \cup {t}
        /\ UNCHANGED <<pc, hand, cur, done, failed, dead, retry, active>>
    BY <1>15 DEF CliRetryCopy, memVars
  <2> QED
    BY <1>s, <2>1 DEF Active, TypeOK, Handling
<1>16. ASSUME NEW t \in Task, CliRetryRemove(t) PROVE Single(x)'
  <2>1. /\ failed' = failed \ {t} /\ dead' = dead \ {t} /\ erasing' = erasing \ {t}
        /\ UNCHANGED <<pc, hand, lane, cur, done, retry, active>>
    BY <1>16 DEF CliRetryRemove, memVars
  <2> QED
    BY <1>s, <2>1 DEF Active, Handling
<1>17. CASE \/ \E t \in Task : Skip(t) \/ HeartbeatAges(t) \/ BackoffElapses(t)
            \/ \E p \in Pid : ProcExit(p)
            \/ \E m \in Model : CooldownElapses(m)
            \/ UNCHANGED vars
  <2>1. /\ UNCHANGED <<pc, hand, lane, cur, done, failed, dead, erasing, active>>
        /\ retry'[x] = "none" <=> retry[x] = "none"
    BY <1>17 DEF TypeOK, Skip, HeartbeatAges, BackoffElapses, ProcExit, CooldownElapses, vars,
       busVars, memVars, envVars
  <2> QED
    BY <1>s, <2>1 DEF Active, Handling
<1>18. ~Crash
  BY DEF Crash, TypeOK
<1> QED
  BY <1>1, <1>2, <1>3, <1>4, <1>5, <1>6, <1>7, <1>8, <1>9, <1>10, <1>11, <1>12, <1>13, <1>14,
     <1>15, <1>16, <1>17, <1>18
  DEF Next, Loop, World

-----------------------------------------------------------------------------
(* No slot leaks                                                           *)

\* SlotsAccounted, slot by slot.
HasRun(s) == (\E t \in Active : active[t].slot = s) \/ (InHand /\ hand.run.slot = s)
Accounted == \A s \in Slot : ~slot[s].free => HasRun(s)

\* Slots of runs are taken, so what accounts for each taken slot accounts for all.
LEMMA AccountedSuffices ==
  ASSUME SlotInv, Accounted
  PROVE  SlotsAccounted
<1> DEFINE Held == {active[t].slot : t \in Active} \cup (IF InHand THEN {hand.run.slot} ELSE {})
<1>1. \A s \in Held : s \in Slot /\ HasRun(s)
  BY DEF SlotInv, Owned, HandOK, InHand, HasRun
<1>2. \A s \in Slot : HasRun(s) => s \in Held
  BY DEF HasRun
<1>3. ASSUME NEW s \in Slot, HasRun(s) PROVE ~slot[s].free
  <2>1. PICK t : slot[s] = OwnedBy(t)
    BY <1>3 DEF SlotInv, Owned, HasRun
  <2> QED
    BY <2>1 DEF OwnedBy
<1>4. \A s \in Slot : ~slot[s].free <=> s \in Held
  BY <1>1, <1>2, <1>3 DEF Accounted
<1>5. \A s : s \in Occupied <=> s \in Held
  BY <1>1, <1>4 DEF Occupied
<1>6. Occupied = Held
  BY <1>5
<1> QED
  BY <1>6 DEF SlotsAccounted

\* Every step but a crash keeps each taken slot with its run.  Recovery meets an empty
\* table, and so no taken slot.
LEMMA AccountedStep ==
  ASSUME MaxCrashes = 0, SlotInv, SingleInv, Accounted, [Next]_vars
  PROVE  Accounted'
<1> USE DEF SlotInv
<1>a. pc \notin Handling => ~InHand
  BY DEF HandOK, InHand
<1>b. pc \in Handling => InHand /\ hand.task \in Task /\ hand.run.slot \in Slot
  BY DEF HandOK, InHand, NoRun, Slot
<1>1. CASE Aside
  BY <1>1, AsideKeeps DEF Accounted, HasRun, Active, InHand
<1>2. CASE MoveOn
  BY <1>2, MoveOnKeeps DEF Accounted, HasRun, Active, InHand
<1>3. CASE RecoverSlots
  <2>1. Active = {} /\ ~InHand
    BY <1>a, <1>3 DEF RecoverSlots, Untracked, Starting, Handling
  <2>2. \A s \in Slot : slot[s].free
    BY <2>1 DEF Accounted, HasRun
  <2>3. \A s \in Slot : slot'[s] = Free \/ slot'[s] = slot[s]
    BY <1>3 DEF RecoverSlots, FreeSlots
  <2> QED
    BY <2>2, <2>3 DEF Accounted, Free
<1>4. CASE ProcessCancels
  <2>1. /\ ~InHand /\ \A s \in Slot : slot'[s] = Free \/ slot'[s] = slot[s]
        /\ \A t \in signal \cap Active : active[t].slot \in Slot => slot'[active[t].slot] = Free
    BY <1>a, <1>4 DEF ProcessCancels, Handling, FreeSlots
  <2>2. \A t \in Active \ signal : t \in Active' /\ active'[t] = active[t]
    BY <1>4 DEF ProcessCancels, Active, TypeOK
  <2>3. ASSUME NEW s \in Slot, ~slot'[s].free PROVE HasRun(s)'
    <3>1. slot'[s] # Free /\ ~slot[s].free
      BY <2>1, <2>3 DEF Free
    <3>2. PICK t \in Active : active[t].slot = s
      BY <2>1, <3>1 DEF Accounted, HasRun
    <3>3. t \notin signal
      BY <2>1, <3>1, <3>2
    <3> QED
      BY <2>2, <3>2, <3>3 DEF HasRun
  <2> QED
    BY <2>3 DEF Accounted
<1>5. ASSUME NEW t \in Task, Collect(t) PROVE Accounted'
  <2>1. /\ t \in Active /\ ~InHand /\ slot' = slot
        /\ hand' = [task |-> t, run |-> active[t]]
        /\ active' = [active EXCEPT ![t] = NoRun]
    BY <1>a, <1>5 DEF Collect, trackVars, Handling
  <2>2. \A u \in Active \ {t} : u \in Active' /\ active'[u] = active[u]
    BY <2>1 DEF Active, TypeOK
  <2>3. InHand' /\ hand'.run.slot = active[t].slot
    BY <2>1 DEF InHand, Active
  <2> QED
    BY <2>1, <2>2, <2>3 DEF Accounted, HasRun
<1>6. CASE Cleanup \/ SpawnRefused
  <2>1. pc \in Handling /\ UNCHANGED active /\ slot' = FreeSlots({hand.run.slot})
    BY <1>6 DEF Cleanup, SpawnRefused, Handling
  <2>2. \A s \in Slot : IF s = hand.run.slot THEN slot'[s] = Free ELSE slot'[s] = slot[s]
    BY <2>1 DEF FreeSlots
  <2>3. ASSUME NEW s \in Slot, ~slot'[s].free PROVE HasRun(s)'
    <3>1. s # hand.run.slot /\ ~slot[s].free
      BY <2>2, <2>3 DEF Free
    <3>2. PICK t \in Active : active[t].slot = s
      BY <3>1 DEF Accounted, HasRun
    <3> QED
      BY <2>1, <3>2 DEF HasRun, Active
  <2> QED
    BY <2>3 DEF Accounted
<1>7. ASSUME NEW t \in Task, Reap(t) PROVE Accounted'
  <2>1. /\ ~InHand /\ active' = [active EXCEPT ![t] = NoRun]
        /\ slot' = IF t \in Active THEN FreeSlots({active[t].slot}) ELSE slot
    BY <1>a, <1>7 DEF Reap, Handling
  <2>2. \A u \in Active \ {t} : u \in Active' /\ active'[u] = active[u]
    BY <2>1 DEF Active, TypeOK
  <2>3. ASSUME NEW s \in Slot, ~slot'[s].free PROVE HasRun(s)'
    <3>1. ~slot[s].free /\ (t \in Active => s # active[t].slot)
      BY <2>1, <2>3 DEF FreeSlots, Free
    <3> QED
      BY <2>1, <2>2, <3>1 DEF Accounted, HasRun
  <2> QED
    BY <2>3 DEF Accounted
<1>8. ASSUME NEW t \in Task, Claim(t) PROVE Accounted'
  <2>1. /\ ~InHand /\ UNCHANGED active /\ Occupied # Slot
        /\ hand'.run.slot = LowestFree /\ hand'.run = [slot |-> LowestFree, pid |-> NoPid, attempt |-> 0]
        /\ slot' = [slot EXCEPT ![LowestFree] = OwnedBy(t)]
    BY <1>a, <1>8 DEF Claim, NoRoom, Handling
  <2>2. LowestFree \in Slot
    BY <2>1, LowestFreeIsFree
  <2>3. InHand'
    BY <2>1, <2>2 DEF InHand, NoRun, Slot
  <2>4. \A s \in Slot : s # LowestFree => slot'[s] = slot[s]
    BY <2>1, <2>2 DEF TypeOK
  <2> QED
    BY <2>1, <2>3, <2>4 DEF Accounted, HasRun, Active
<1>9. CASE Spawn
  <2>1. /\ pc = "spawn" /\ pc' = "register" /\ UNCHANGED <<active, slot>> /\ InHand
        /\ hand.run.slot \in Slot
    BY <1>9, <1>b DEF Spawn, trackVars, Handling
  <2>2. hand'.run.slot = hand.run.slot
    <3>1. PICK p \in Pid : hand'.run = [slot |-> hand.run.slot, pid |-> p,
                                        attempt |-> attempts[hand.task] + 1]
      BY <1>9, SpawnHand
    <3> QED
      BY <3>1
  <2>3. InHand'
    BY <2>1, <2>2 DEF InHand, NoRun, Slot
  <2> QED
    BY <2>1, <2>2, <2>3 DEF Accounted, HasRun, Active
<1>10. CASE Register
  <2>1. /\ UNCHANGED slot /\ hand.task \in Task /\ hand.task \notin Active
        /\ active' = [active EXCEPT ![hand.task] = hand.run] /\ InHand
    BY <1>b, <1>10 DEF Register, Handling, SingleInv, Single
  <2>2. active'[hand.task] = hand.run /\ hand.task \in Active'
    BY <2>1 DEF TypeOK, Active, InHand
  <2>3. \A u \in Active : u # hand.task => u \in Active' /\ active'[u] = active[u]
    BY <2>1 DEF Active, TypeOK
  <2> QED
    BY <2>1, <2>2, <2>3 DEF Accounted, HasRun
<1>11. ~Crash
  BY DEF Crash, TypeOK
<1> QED
  BY <1>1, <1>2, <1>3, <1>4, <1>5, <1>6, <1>7, <1>8, <1>9, <1>10, <1>11
  DEF Next, Loop, World, Aside, MoveOn

-----------------------------------------------------------------------------
(* Nothing lost                                                            *)

\* Every step that takes a task's file away has put another one before, crashes
\* included; a retry by hand, which first removes, is excluded.
LEMMA KeptStep ==
  ASSUME StagingRenames, MaxRetries = 0, SlotInv, KeptInv, [Next]_vars
  PROVE  KeptInv'
<1> USE DEF SlotInv
<1>b. pc \in Handling => hand.task \in Task
  BY DEF HandOK
<1>c. \A t \in Task : Kept(t)
  BY DEF KeptInv
<1>1. CASE \/ Start \/ RecoverSlots \/ ClearLocks \/ Tick \/ EndCollect \/ EndReap
           \/ BeginDispatch \/ EndDispatch \/ Crash
  <2>1. /\ pc' \notin {"cleanup", "requeue"}
        /\ UNCHANGED <<lane, cur, done, failed, dead, retry, erasing, submitted, cancelled>>
    BY <1>1 DEF Start, RecoverSlots, ClearLocks, Tick, EndCollect, EndReap, BeginDispatch,
       EndDispatch, Crash, busVars, trackVars, memVars, histVars, envVars
  <2> QED
    BY <2>1 DEF KeptInv, Kept, Settled
<1>2. CASE SweepOrphans
  <2>1. /\ pc' = "clear_locks"
        /\ UNCHANGED <<lane, done, dead, retry, erasing, submitted, cancelled>>
        /\ \A t \in Task : t \in cur \cup failed => t \in cur' \cup failed'
    BY <1>2 DEF SweepOrphans, FailOrphans, histVars, envVars
  <2>2. \A t \in Task : Kept(t)'
    BY <1>c, <2>1 DEF Kept, Settled
  <2> QED
    BY <2>1, <2>2 DEF KeptInv
<1>3. CASE ProcessCancels
  <2>1. /\ pc' = "collect"
        /\ UNCHANGED <<lane, done, dead, retry, erasing, submitted, cancelled>>
        /\ \A t \in Task : t \in cur \cup failed => t \in cur' \cup failed'
    BY <1>3 DEF ProcessCancels, MoveStaging, histVars, envVars
  <2>2. \A t \in Task : Kept(t)'
    BY <1>c, <2>1 DEF Kept, Settled
  <2> QED
    BY <2>1, <2>2 DEF KeptInv
<1>4. ASSUME NEW t \in Task, Collect(t) PROVE KeptInv'
  <2>1. /\ pc' = "cleanup" /\ hand'.task = t
        /\ UNCHANGED <<lane, cur, erasing, submitted, cancelled>>
        /\ done \subseteq done' /\ failed \subseteq failed' /\ dead \subseteq dead'
        /\ \A u \in Task : retry[u] # "none" => retry'[u] # "none"
    BY <1>4 DEF Collect, envVars, MoveStaging, TypeOK
  <2>2. t \in done' \cup failed' \cup dead' \/ retry'[t] # "none"
    BY <1>4 DEF Collect, MoveStaging, RetryDecision, TypeOK
  <2>3. \A u \in Task : Kept(u)'
    BY <1>c, <2>1 DEF Kept, Settled
  <2>4. Settled(hand.task)'
    BY <2>1, <2>2 DEF Settled
  <2> QED
    BY <2>1, <2>3, <2>4 DEF KeptInv
<1>5. CASE Cleanup
  <2>1. /\ pc = "cleanup" /\ pc' = "collect" /\ cur' = cur \ {hand.task}
        /\ UNCHANGED <<lane, done, failed, dead, retry, erasing, submitted, cancelled>>
    BY <1>5 DEF Cleanup, envVars, histVars
  <2>2. Settled(hand.task)
    BY <2>1 DEF KeptInv
  <2>3. \A t \in Task : Kept(t)'
    BY <1>c, <2>1, <2>2 DEF Kept, Settled
  <2> QED
    BY <2>1, <2>3 DEF KeptInv
<1>6. ASSUME NEW t \in Task, Reap(t) PROVE KeptInv'
  <2>1. /\ pc = "reap" /\ pc' = pc /\ cur' = cur \ {t} /\ failed' = failed \cup {t}
        /\ UNCHANGED <<lane, done, dead, retry, erasing, submitted, cancelled>>
    BY <1>6 DEF Reap, MoveStaging, envVars, histVars
  <2>2. \A u \in Task : Kept(u)'
    BY <1>c, <2>1 DEF Kept, Settled
  <2> QED
    BY <2>1, <2>2 DEF KeptInv
<1>7. ASSUME NEW t \in Task, RequeueWrite(t) PROVE KeptInv'
  <2>1. /\ pc' = "requeue" /\ hand'.task = t /\ lane' = [lane EXCEPT ![t] = RequeueLane]
        /\ UNCHANGED <<cur, done, failed, dead, retry, erasing, submitted, cancelled>>
    BY <1>7 DEF RequeueWrite, envVars, histVars
  <2>2. \A u \in Task : lane'[u] = IF u = t THEN "p1" ELSE lane[u]
    BY <2>1 DEF RequeueLane, TypeOK
  <2>3. \A u \in Task : Kept(u)'
    BY <1>c, <2>1, <2>2 DEF Kept, Settled
  <2> QED
    BY <2>1, <2>2, <2>3 DEF KeptInv
<1>8. CASE RequeueClean
  <2>1. /\ pc = "requeue" /\ pc' = "retries" /\ retry' = [retry EXCEPT ![hand.task] = "none"]
        /\ UNCHANGED <<lane, cur, done, failed, dead, erasing, submitted, cancelled>>
    BY <1>8 DEF RequeueClean, envVars, histVars
  <2>2. hand.task \in submitted \ cancelled => lane[hand.task] # "none"
    BY <2>1 DEF KeptInv
  <2>3. \A u \in Task : u # hand.task => retry'[u] = retry[u]
    BY <2>1 DEF TypeOK
  <2>4. \A u \in Task : Kept(u)'
    BY <1>c, <2>1, <2>2, <2>3 DEF Kept, Settled
  <2> QED
    BY <2>1, <2>4 DEF KeptInv
<1>9. ASSUME NEW t \in Task, Claim(t) PROVE KeptInv'
  <2>1. /\ pc' = "spawn" /\ cur' = cur \cup {t}
        /\ \A u \in Task : u # t => lane'[u] = lane[u]
        /\ UNCHANGED <<done, failed, dead, retry, erasing, submitted, cancelled>>
    BY <1>9 DEF Claim, envVars, TypeOK
  <2>2. \A u \in Task : Kept(u)'
    BY <1>c, <2>1 DEF Kept, Settled
  <2> QED
    BY <2>1, <2>2 DEF KeptInv
<1>10. CASE SpawnRefused
  <2>1. /\ pc' = "dispatch" /\ cur' = cur \ {hand.task} /\ failed' = failed \cup {hand.task}
        /\ UNCHANGED <<lane, done, dead, retry, erasing, submitted, cancelled>>
    BY <1>10 DEF SpawnRefused, envVars, histVars
  <2>2. \A u \in Task : Kept(u)'
    BY <1>c, <2>1 DEF Kept, Settled
  <2> QED
    BY <2>1, <2>2 DEF KeptInv
<1>11. CASE Spawn \/ Register
  <2>1. /\ pc' \in {"register", "dispatch"}
        /\ UNCHANGED <<lane, cur, done, failed, dead, retry, erasing, submitted, cancelled>>
    BY <1>11 DEF Spawn, Register, busVars, envVars, histVars
  <2> QED
    BY <1>c, <2>1 DEF KeptInv, Kept, Settled
<1>12. ASSUME NEW t \in Task, Submit(t) PROVE KeptInv'
  <2>1. /\ lane'[t] # "none" /\ submitted' = submitted \cup {t}
        /\ \A u \in Task : u # t => lane'[u] = lane[u]
        /\ UNCHANGED <<pc, hand, cur, done, failed, dead, retry, erasing, cancelled>>
    BY <1>12, ConstantsAssumption
    DEF Submit, memVars, envVars, TypeOK, ConstantsAssumption, Lane
  <2>2. \A u \in Task : Kept(u)'
    BY <1>c, <2>1 DEF Kept, Settled
  <2> QED
    BY <2>1, <2>2 DEF KeptInv, Settled
<1>13. ASSUME NEW t \in Task, CliCancel(t) PROVE KeptInv'
  <2>1. /\ \/ UNCHANGED <<lane, cancelled>>
           \/ /\ cancelled' = cancelled \cup {t}
              /\ \A u \in Task : u # t => lane'[u] = lane[u]
        /\ UNCHANGED <<pc, hand, cur, done, failed, dead, retry, erasing, submitted>>
    BY <1>13 DEF CliCancel, memVars, TypeOK
  <2>2. \A u \in Task : Kept(u)'
    BY <1>c, <2>1 DEF Kept, Settled
  <2> QED
    BY <2>1, <2>2 DEF KeptInv, Settled
<1>14. ~ \E t \in Task : CliRetryCopy(t) \/ CliRetryRemove(t)
  BY DEF CliRetryCopy, CliRetryRemove, KeptInv, TypeOK
<1>15. CASE \/ \E t \in Task : Skip(t) \/ HeartbeatAges(t) \/ BackoffElapses(t)
            \/ \E p \in Pid : ProcExit(p)
            \/ \E m \in Model : CooldownElapses(m)
            \/ UNCHANGED vars
  <2>1. /\ UNCHANGED <<pc, hand, lane, cur, done, failed, dead, erasing, submitted, cancelled>>
        /\ \A u \in Task : retry'[u] = "none" <=> retry[u] = "none"
    BY <1>15 DEF TypeOK, Skip, HeartbeatAges, BackoffElapses, ProcExit, CooldownElapses, vars,
       busVars, memVars, envVars, histVars
  <2>2. \A u \in Task : Kept(u)'
    BY <1>c, <2>1 DEF Kept, Settled
  <2>3. (pc = "cleanup" => Settled(hand.task))'
    BY <1>b, <2>1 DEF KeptInv, Settled, Handling
  <2> QED
    BY <2>1, <2>2, <2>3 DEF KeptInv
<1> QED
  BY <1>1, <1>2, <1>3, <1>4, <1>5, <1>6, <1>7, <1>8, <1>9, <1>10, <1>11, <1>12, <1>13, <1>14,
     <1>15
  DEF Next, Loop, World

-----------------------------------------------------------------------------
(* One process per task                                                    *)

\* While nothing crashes and nobody cancels, a process enters with a run in hand and
\* leaves with it: Collect waits for it, Reap kills the pid that the pid file names.
LEMMA ProcStep ==
  ASSUME MaxCrashes = 0, MaxCancels = 0, SlotInv, SingleInv, ProcInv, [Next]_vars
  PROVE  ProcInv'
<1> USE DEF SlotInv
<1>a. NoTask \notin Task /\ NoPid \notin Pid
  BY ConstantsAssumption DEF ConstantsAssumption
<1>b. pc \in Handling => hand.task \in Task /\ hand.task \notin Active
  BY DEF HandOK, SingleInv, Single
<1>c. /\ signal = {} /\ \A t \in Active : Tracks(t)
      /\ pc = "register" => hand.run.pid \in Pid /\ proc[hand.run.pid].task = hand.task
      /\ \A p \in Pid : Followed(p)
  BY DEF ProcInv
<1>1. CASE \/ Start \/ RecoverSlots \/ ClearLocks \/ Tick \/ EndCollect \/ EndReap
           \/ RequeueClean \/ BeginDispatch \/ EndDispatch
           \/ \E t \in Task : Skip(t) \/ Claim(t) \/ RequeueWrite(t)
  <2>1. pc # "register" /\ pc' # "register" /\ UNCHANGED <<signal, active, pidfile, proc>>
    BY <1>1 DEF Start, RecoverSlots, ClearLocks, Tick, EndCollect, EndReap, BeginDispatch,
       EndDispatch, Skip, Claim, RequeueWrite, RequeueClean, busVars, trackVars, memVars,
       histVars, envVars
  <2> QED
    BY <1>c, <2>1 DEF ProcInv, Tracks, Followed, Active
<1>2. CASE SweepOrphans
  <2>1. /\ pc = "orphans" /\ pc' # "register" /\ Active = {}
        /\ UNCHANGED <<signal, active, proc>>
    BY <1>2 DEF SweepOrphans, Untracked, Starting, histVars, envVars
  <2> QED
    BY <1>c, <2>1 DEF ProcInv, Tracks, Followed, Active
<1>3. CASE ProcessCancels
  <2>1. /\ pc = "cancel" /\ pc' # "register" /\ signal' = {}
        /\ \A t \in Task : active'[t] = active[t] /\ pidfile'[t] = pidfile[t]
        /\ \A p \in Pid : proc'[p] = proc[p]
    BY <1>c, <1>3 DEF ProcessCancels, TypeOK
  <2> QED
    BY <1>c, <2>1 DEF ProcInv, Tracks, Followed, Active
<1>4. ASSUME NEW t \in Active, NEW P \in SUBSET Pid, active[t].pid \in P,
             \A p \in P : p = active[t].pid,
             \A u \in Task : active'[u] = IF u = t THEN NoRun ELSE active[u],
             \A u \in Task : u # t => pidfile'[u] = pidfile[u],
             \A p \in Pid : proc'[p] = IF p \in P THEN NoProc ELSE proc[p],
             pc # "register", pc' # "register", signal' = signal
      PROVE  /\ signal' = {} /\ \A u \in Active' : Tracks(u)'
             /\ \A p \in Pid : Followed(p)'
  <2>1. \A u \in Active' : u \in Active /\ u # t /\ active'[u] = active[u]
    BY <1>4 DEF Active
  <2>2. Tracks(t)
    BY <1>c, <1>4
  <2>3. ASSUME NEW u \in Active' PROVE Tracks(u)'
    <3>1. Tracks(u) /\ u # t /\ active'[u] = active[u]
      BY <1>c, <2>1
    <3>2. active[u].pid \notin P
      BY <1>4, <2>2, <3>1 DEF Tracks
    <3> QED
      BY <1>4, <3>1, <3>2 DEF Tracks, Active
  <2>4. ASSUME NEW p \in Pid, proc'[p].st = "running" PROVE Followed(p)'
    <3>1. p \notin P /\ proc'[p] = proc[p]
      BY <1>4, <2>4 DEF NoProc
    <3>2. proc[p].task \in Active /\ active[proc[p].task].pid = p
      BY <1>c, <1>4, <2>4, <3>1 DEF Followed
    <3>3. proc[p].task # t
      BY <1>4, <3>1, <3>2
    <3> QED
      BY <1>4, <3>1, <3>2, <3>3 DEF Followed, Active
  <2> QED
    BY <1>c, <1>4, <2>3, <2>4 DEF Followed
<1>5. ASSUME NEW t \in Task, Collect(t) PROVE ProcInv'
  <2>1. /\ t \in Active /\ pc = "collect" /\ pc' = "cleanup" /\ active[t].pid \in Pid
        /\ \A u \in Task : active'[u] = IF u = t THEN NoRun ELSE active[u]
        /\ UNCHANGED <<pidfile, signal>>
        /\ \A p \in Pid : proc'[p] = IF p \in {active[t].pid} THEN NoProc ELSE proc[p]
    BY <1>c, <1>5 DEF Collect, trackVars, TypeOK, Tracks
  <2> QED
    BY <2>1, <1>4 DEF ProcInv
<1>6. CASE Cleanup \/ SpawnRefused
  <2>1. /\ pc \in Handling \ {"register"} /\ pc' # "register"
        /\ UNCHANGED <<signal, active, proc>>
        /\ \A t \in Task : t # hand.task => pidfile'[t] = pidfile[t]
    BY <1>6 DEF Cleanup, SpawnRefused, Handling, TypeOK, histVars, envVars
  <2> QED
    BY <1>b, <1>c, <2>1 DEF ProcInv, Tracks, Followed, Active
<1>7. ASSUME NEW t \in Task, Reap(t) PROVE ProcInv'
  <2>1. t \in Active /\ pc = "reap"
    BY <1>7 DEF Reap, Stale, SingleInv, Single, Working, Starts
  <2>2. pidfile[t] = active[t].pid /\ active[t].pid \in Pid
    BY <1>c, <2>1 DEF Tracks
  <2>3. /\ pc' = pc
        /\ \A u \in Task : active'[u] = IF u = t THEN NoRun ELSE active[u]
        /\ \A u \in Task : u # t => pidfile'[u] = pidfile[u]
        /\ UNCHANGED signal
        /\ \A p \in Pid : proc'[p] = IF p \in {active[t].pid} THEN NoProc ELSE proc[p]
    BY <1>7, <2>2 DEF Reap, Kill, TypeOK
  <2> QED
    BY <2>1, <2>2, <2>3, <1>4 DEF ProcInv
<1>8. CASE Spawn
  <2>1. PICK p \in Pid : /\ hand'.task = hand.task /\ hand'.run.pid = p
                         /\ proc[p] = NoProc /\ \A u \in Task : pidfile[u] # p
                         /\ proc' = [proc EXCEPT ![p] = [task |-> hand.task, st |-> "running"]]
    <3>1. PICK p \in Pid :
            /\ hand'.task = hand.task
            /\ hand'.run = [slot |-> hand.run.slot, pid |-> p,
                            attempt |-> attempts[hand.task] + 1]
            /\ proc[p] = NoProc /\ \A u \in Task : pidfile[u] # p
            /\ proc' = [proc EXCEPT ![p] = [task |-> hand.task, st |-> "running"]]
      BY <1>8, SpawnHand
    <3>2. hand'.run.pid = p
      BY <3>1
    <3> QED
      BY <3>1, <3>2
  <2>2. pc = "spawn" /\ pc' = "register" /\ UNCHANGED <<signal, active, pidfile>>
    BY <1>8 DEF Spawn, trackVars
  <2>3. \A q \in Pid : proc'[q] = IF q = p THEN [task |-> hand.task, st |-> "running"] ELSE proc[q]
    BY <2>1 DEF TypeOK
  <2>4. ASSUME NEW t \in Active' PROVE Tracks(t)'
    <3>1. t \in Active /\ Tracks(t)
      BY <1>c, <2>2, <2>4 DEF Active
    <3>2. active[t].pid # p
      BY <2>1, <3>1 DEF Tracks, Active
    <3> QED
      BY <2>2, <2>3, <3>1, <3>2 DEF Tracks
  <2>5. hand'.run.pid \in Pid /\ proc'[hand'.run.pid].task = hand'.task
    BY <2>1, <2>3
  <2>6. ASSUME NEW q \in Pid PROVE Followed(q)'
    BY <1>c, <2>1, <2>2, <2>3 DEF Followed, Active
  <2> QED
    BY <1>c, <2>2, <2>4, <2>5, <2>6 DEF ProcInv
<1>9. CASE Register
  <2>1. /\ pc = "register" /\ pc' # "register" /\ UNCHANGED <<signal, proc>> /\ hand.run # NoRun
        /\ \A t \in Task : /\ active'[t] = IF t = hand.task THEN hand.run ELSE active[t]
                           /\ pidfile'[t] = IF t = hand.task THEN hand.run.pid ELSE pidfile[t]
    BY <1>9 DEF Register, TypeOK, HandOK, Handling, NoRun, Slot, histVars, envVars
  <2>2. hand.task \in Task /\ hand.task \notin Active
    BY <1>b, <2>1 DEF Handling
  <2>3. Active' = Active \cup {hand.task}
    BY <2>1, <2>2 DEF Active
  <2> QED
    BY <1>c, <2>1, <2>2, <2>3 DEF ProcInv, Tracks, Followed, Active
<1>10. ASSUME NEW p \in Pid, ProcExit(p) PROVE ProcInv'
  <2>1. hand.run.pid = p \/ \E t \in Active : active[t].pid = p
    BY <1>c, <1>10 DEF ProcExit, Followed
  <2>2. PICK e \in Exit : proc' = [proc EXCEPT ![p] = [@ EXCEPT !.st = e]]
    BY <1>10, <2>1 DEF ProcExit
  <2>3. \A q \in Pid : /\ proc'[q].task = proc[q].task
                       /\ proc'[q].st = "running" => proc[q].st = "running"
    <3>1. [proc[p] EXCEPT !.st = e].task = proc[p].task /\ [proc[p] EXCEPT !.st = e].st = e
      BY DEF TypeOK
    <3>2. e # "running"
      BY DEF Exit
    <3>3. \A q \in Pid : q # p => proc'[q] = proc[q]
      BY <2>2 DEF TypeOK
    <3>4. proc'[p] = [proc[p] EXCEPT !.st = e]
      BY <2>2 DEF TypeOK
    <3> QED
      BY <3>1, <3>2, <3>3, <3>4
  <2>4. UNCHANGED <<pc, hand, signal, active, pidfile>>
    BY <1>10 DEF ProcExit, memVars, trackVars
  <2> QED
    BY <1>c, <2>3, <2>4 DEF ProcInv, Tracks, Followed, Active
<1>11. CASE \/ \E t \in Task : \/ BackoffElapses(t) \/ HeartbeatAges(t) \/ Submit(t)
                               \/ CliRetryCopy(t) \/ CliRetryRemove(t)
            \/ \E m \in Model : CooldownElapses(m)
            \/ UNCHANGED vars
  <2>1. UNCHANGED <<pc, hand, signal, active, pidfile, proc>>
    BY <1>11 DEF BackoffElapses, HeartbeatAges, Submit, CliRetryCopy, CliRetryRemove,
       CooldownElapses, vars, busVars, trackVars, memVars, envVars, histVars
  <2> QED
    BY <1>c, <2>1 DEF ProcInv, Tracks, Followed, Active
<1>12. ~Crash /\ \A t \in Task : ~CliCancel(t)
  BY DEF Crash, CliCancel, TypeOK
<1> QED
  BY <1>1, <1>2, <1>3, <1>5, <1>6, <1>7, <1>8, <1>9, <1>10, <1>11, <1>12 DEF Next, Loop, World

-----------------------------------------------------------------------------
(* Attempts                                                                *)

\* Every step pays for the attempts it makes possible: a claim with the queue file, a
\* repetition with the run, a requeue with the retry file, and only a crash or a retry by
\* hand with a larger bound.
LEMMA AttemptsStep ==
  ASSUME MaxAttempts # 0, SlotInv, Known, AttemptsInv, [Next]_vars
  PROVE  AttemptsInv'
<1> USE DEF SlotInv
<1>a. NoTask \notin Task /\ MaxAttempts \in Nat /\ MaxAttempts >= 1
  BY ConstantsAssumption DEF ConstantsAssumption
<1>b. pc \in Handling => hand.task \in Task
  BY DEF HandOK
<1>c. /\ \A t \in Task : Bounded(t)
      /\ pc = "register" => hand.run.attempt = attempts[hand.task] + 1
  BY DEF AttemptsInv
<1>d. /\ spent.retry \in Nat /\ spent.crash \in Nat /\ hand.run.attempt \in Nat
      /\ \A t \in Task : attempts[t] \in Nat /\ spawned[t] \in Nat /\ active[t].attempt \in Nat
  BY DEF TypeOK, RunType
<1>1. CASE \/ Start \/ RecoverSlots \/ SweepOrphans \/ ClearLocks \/ Tick \/ EndCollect
           \/ EndReap \/ BeginDispatch \/ EndDispatch \/ Cleanup
  <2>1. /\ pc \notin {"spawn", "register", "requeue"}
        /\ pc' \notin {"spawn", "register", "requeue"}
        /\ UNCHANGED <<lane, retry, attempts, active, spent, spawned>>
    BY <1>1 DEF Start, RecoverSlots, SweepOrphans, ClearLocks, Tick, EndCollect, EndReap,
       BeginDispatch, EndDispatch, Cleanup, busVars, trackVars, memVars, histVars, envVars
  <2>2. ASSUME NEW x \in Task PROVE Bounded(x)'
    <3>1. Tried(x)' = Tried(x) /\ Chances(x)' = Chances(x)
      BY <2>1 DEF Tried, Chances, Repeats, Active
    <3> QED
      BY <1>c, <2>1, <3>1 DEF Bounded
  <2> QED
    BY <2>1, <2>2 DEF AttemptsInv
<1>2. CASE ProcessCancels
  <2>1. /\ pc = "cancel" /\ pc' = "collect"
        /\ UNCHANGED <<lane, retry, attempts, spent, spawned>>
        /\ \A t \in Task : active'[t] \in {active[t], NoRun}
    BY <1>2 DEF ProcessCancels, TypeOK, histVars, envVars
  <2>2. ASSUME NEW x \in Task PROVE Bounded(x)'
    <3>1. /\ Tried(x)' = Tried(x) /\ Chances(x)' <= Chances(x)
          /\ Chances(x) \in Nat /\ Chances(x)' \in Nat
      BY <2>1 DEF Tried, Chances, Repeats, Active
    <3> QED
      BY <1>a, <1>c, <1>d, <2>1, <3>1 DEF Bounded, Tried, AtLeast
  <2> QED
    BY <2>1, <2>2 DEF AttemptsInv
<1>3. ASSUME NEW t \in Task, Collect(t) PROVE AttemptsInv'
  <2>1. /\ pc = "collect" /\ pc' = "cleanup" /\ t \in Active
        /\ UNCHANGED <<lane, attempts, spent, spawned>>
        /\ \A u \in Task : u # t => active'[u] = active[u] /\ retry'[u] = retry[u]
        /\ active'[t] = NoRun
        /\ retry'[t] = retry[t] \/ active[t].attempt < MaxAttempts
    BY <1>3, <1>a, <1>d DEF Collect, RetryDecision, TypeOK, envVars
  <2>2. ASSUME NEW x \in Task PROVE Bounded(x)'
    <3>1. /\ Tried(x)' = Tried(x) /\ Chances(x)' <= Chances(x)
          /\ Chances(x) \in Nat /\ Chances(x)' \in Nat
      <4>1. CASE x = t
        BY <2>1, <4>1 DEF Tried, Chances, Repeats, Active
      <4>2. CASE x # t
        BY <2>1, <4>2 DEF Tried, Chances, Repeats, Active
      <4> QED
        BY <4>1, <4>2
    <3> QED
      BY <1>a, <1>c, <1>d, <2>1, <3>1 DEF Bounded, Tried, AtLeast
  <2> QED
    BY <2>1, <2>2 DEF AttemptsInv
<1>4. ASSUME NEW t \in Task, Reap(t) PROVE AttemptsInv'
  <2>1. /\ pc = "reap" /\ UNCHANGED <<pc, lane, retry, attempts, spent, spawned>>
        /\ \A u \in Task : active'[u] \in {active[u], NoRun}
    BY <1>4 DEF Reap, TypeOK, histVars, envVars
  <2>2. ASSUME NEW x \in Task PROVE Bounded(x)'
    <3>1. /\ Tried(x)' = Tried(x) /\ Chances(x)' <= Chances(x)
          /\ Chances(x) \in Nat /\ Chances(x)' \in Nat
      BY <2>1 DEF Tried, Chances, Repeats, Active
    <3> QED
      BY <1>a, <1>c, <1>d, <2>1, <3>1 DEF Bounded, Tried, AtLeast
  <2> QED
    BY <2>1, <2>2 DEF AttemptsInv
<1>5. ASSUME NEW t \in Task, RequeueWrite(t) PROVE AttemptsInv'
  <2>1. /\ pc = "retries" /\ pc' = "requeue" /\ hand'.task = t /\ retry[t] = "due"
        /\ \A u \in Task : u # t => lane'[u] = lane[u]
        /\ UNCHANGED <<retry, attempts, active, spent, spawned>>
    BY <1>5 DEF RequeueWrite, TypeOK, histVars, envVars
  <2>2. ASSUME NEW x \in Task PROVE Bounded(x)'
    <3>1. /\ Tried(x)' = Tried(x) /\ Chances(x)' <= Chances(x)
          /\ Chances(x) \in Nat /\ Chances(x)' \in Nat
      BY <2>1 DEF Tried, Chances, Repeats, Active
    <3> QED
      BY <1>a, <1>c, <1>d, <2>1, <3>1 DEF Bounded, Tried, AtLeast
  <2> QED
    BY <2>1, <2>2 DEF AttemptsInv
<1>6. CASE RequeueClean
  <2>1. /\ pc = "requeue" /\ pc' = "retries"
        /\ \A u \in Task : retry'[u] = IF u = hand.task THEN "none" ELSE retry[u]
        /\ UNCHANGED <<lane, attempts, active, spent, spawned>>
    BY <1>6 DEF RequeueClean, TypeOK, histVars, envVars
  <2>2. ASSUME NEW x \in Task PROVE Bounded(x)'
    <3>1. Tried(x)' = Tried(x) /\ Chances(x)' = Chances(x)
      BY <2>1 DEF Tried, Chances, Repeats, Active
    <3> QED
      BY <1>c, <2>1, <3>1 DEF Bounded
  <2> QED
    BY <2>1, <2>2 DEF AttemptsInv
<1>7. ASSUME NEW t \in Task, Claim(t) PROVE AttemptsInv'
  <2>1. /\ pc = "dispatch" /\ pc' = "spawn" /\ hand'.task = t /\ lane[t] # "none"
        /\ \A u \in Task : lane'[u] = IF u = t THEN "none" ELSE lane[u]
        /\ UNCHANGED <<retry, attempts, active, spent, spawned>>
    BY <1>7 DEF Claim, TypeOK, envVars
  <2>2. ASSUME NEW x \in Task PROVE Bounded(x)'
    <3>1. Tried(x)' = Tried(x) /\ Chances(x)' = Chances(x)
      BY <2>1 DEF Tried, Chances, Repeats, Active
    <3> QED
      BY <1>c, <2>1, <3>1 DEF Bounded
  <2> QED
    BY <2>1, <2>2 DEF AttemptsInv
<1>8. CASE SpawnRefused
  <2>1. /\ pc = "spawn" /\ pc' = "dispatch" /\ UNCHANGED <<lane, retry, active, spent, spawned>>
        /\ \A u \in Task : u # hand.task => attempts'[u] = attempts[u]
        /\ attempts'[hand.task] \in {attempts[hand.task], attempts[hand.task] + 1}
    BY <1>8, <1>b DEF SpawnRefused, TypeOK, histVars, envVars, Handling
  <2>2. ASSUME NEW x \in Task PROVE Bounded(x)'
    <3>1. CASE x # hand.task
      <4>1. Tried(x)' = Tried(x) /\ Chances(x)' = Chances(x)
        BY <2>1, <3>1 DEF Tried, Chances, Repeats, Active
      <4> QED
        BY <1>c, <2>1, <4>1 DEF Bounded
    <3>2. CASE x = hand.task
      <4>1. /\ Tried(x)' = Tried(x) \/ Tried(x)' = Tried(x) + 1
            /\ Chances(x) = Chances(x)' + 1 /\ Chances(x)' \in Nat
        BY <2>1, <3>2 DEF Tried, Chances, Repeats, Active
      <4>2. Tried(x) \in Nat
        BY <1>d DEF Tried
      <4> QED
        BY <1>a, <1>c, <1>d, <2>1, <4>1, <4>2 DEF Bounded, AtLeast
    <3> QED
      BY <3>1, <3>2
  <2> QED
    BY <2>1, <2>2 DEF AttemptsInv
<1>9. CASE Spawn
  <2>1. PICK p \in Pid : /\ hand'.task = hand.task
                         /\ hand'.run = [slot |-> hand.run.slot, pid |-> p,
                                         attempt |-> attempts[hand.task] + 1]
    BY <1>9, SpawnHand
  <2>2. hand'.run.attempt = attempts[hand.task] + 1
    BY <2>1
  <2>3. /\ pc = "spawn" /\ pc' = "register"
        /\ UNCHANGED <<lane, retry, attempts, active, spent>>
        /\ \A u \in Task : spawned'[u] = IF u = hand.task THEN spawned[u] + 1 ELSE spawned[u]
    BY <1>9 DEF Spawn, TypeOK, busVars, envVars
  <2>4. ASSUME NEW x \in Task PROVE Bounded(x)'
    <3>1. CASE x # hand.task
      <4>1. Tried(x)' = Tried(x) /\ Chances(x)' = Chances(x) /\ spawned'[x] = spawned[x]
        BY <2>1, <2>2, <2>3, <3>1 DEF Tried, Chances, Repeats, Active
      <4> QED
        BY <1>c, <2>3, <4>1 DEF Bounded
    <3>2. CASE x = hand.task
      <4>1. /\ Tried(x) = attempts[x] /\ Tried(x)' = attempts[x] + 1
            /\ spawned'[x] = spawned[x] + 1
        BY <2>1, <2>2, <2>3, <3>2 DEF Tried
      <4>2. /\ Chances(x) \in Nat /\ Chances(x)' \in Nat
            /\ IF attempts[x] + 1 < MaxAttempts THEN Chances(x)' = Chances(x)
                                                ELSE Chances(x) = Chances(x)' + 1
        BY <2>1, <2>2, <2>3, <3>2 DEF Chances, Repeats, Active
      <4> QED
        BY <1>a, <1>c, <1>d, <2>3, <4>1, <4>2 DEF Bounded, AtLeast
    <3> QED
      BY <3>1, <3>2
  <2> QED
    BY <2>1, <2>2, <2>3, <2>4 DEF AttemptsInv
<1>10. CASE Register
  <2>1. /\ pc = "register" /\ pc' = "dispatch" /\ UNCHANGED <<lane, retry, spent, spawned>>
        /\ hand.task \in Task
        /\ \A u \in Task : /\ attempts'[u] = IF u = hand.task THEN hand.run.attempt ELSE attempts[u]
                           /\ active'[u] = IF u = hand.task THEN hand.run ELSE active[u]
    BY <1>b, <1>10 DEF Register, Handling, TypeOK, histVars, envVars
  <2>2. ASSUME NEW x \in Task PROVE Bounded(x)'
    <3>1. Tried(x)' = Tried(x)
      BY <2>1 DEF Tried
    <3>2. Chances(x)' <= Chances(x) /\ Chances(x) \in Nat /\ Chances(x)' \in Nat
      BY <2>1 DEF Chances, Repeats, Active
    <3> QED
      BY <1>a, <1>c, <1>d, <2>1, <3>1, <3>2 DEF Bounded, Tried, AtLeast
  <2> QED
    BY <2>1, <2>2 DEF AttemptsInv
<1>11. CASE Crash
  <2>1. /\ pc' = "down" /\ UNCHANGED <<lane, retry, attempts, spawned>>
        /\ \A u \in Task : active'[u] = NoRun
        /\ spent' = [spent EXCEPT !.crash = @ + 1]
    BY <1>11 DEF Crash, busVars, histVars
  <2>2. spent'.crash = spent.crash + 1 /\ spent'.retry = spent.retry
    BY <2>1 DEF TypeOK
  <2>3. ASSUME NEW x \in Task PROVE Bounded(x)'
    <3>1. Tried(x)' = attempts[x] /\ Chances(x)' \in Nat /\ Chances(x) \in Nat
      BY <2>1 DEF Tried, Chances, Repeats, Active
    <3>2. CASE pc = "register"
      <4>1. Chances(x)' <= Chances(x)
        BY <2>1, <3>2 DEF Chances, Repeats, Active
      <4>2. Tried(x) = attempts[x] \/ Tried(x) = attempts[x] + 1
        BY <1>c, <3>2 DEF Tried
      <4> QED
        BY <1>a, <1>c, <1>d, <2>1, <2>2, <3>1, <4>1, <4>2 DEF Bounded, AtLeast
    <3>3. CASE pc # "register"
      <4>1. Chances(x)' <= Chances(x) + 1
        BY <2>1, <3>3 DEF Chances, Repeats, Active
      <4>2. Tried(x) = attempts[x]
        BY <3>3 DEF Tried
      <4> QED
        BY <1>a, <1>c, <1>d, <2>1, <2>2, <3>1, <4>1, <4>2 DEF Bounded, AtLeast
    <3> QED
      BY <3>2, <3>3
  <2> QED
    BY <2>1, <2>3 DEF AttemptsInv
<1>12. ASSUME NEW t \in Task, Submit(t) PROVE AttemptsInv'
  <2>1. /\ t \notin submitted
        /\ UNCHANGED <<pc, hand, retry, attempts, active, spent, spawned>>
        /\ \A u \in Task : u # t => lane'[u] = lane[u]
    BY <1>12 DEF Submit, TypeOK, memVars, envVars
  <2>2. Unknown(t)
    BY <2>1 DEF Known
  <2>3. ASSUME NEW x \in Task PROVE Bounded(x)'
    <3>1. CASE x # t
      <4>1. Tried(x)' = Tried(x) /\ Chances(x)' = Chances(x)
        BY <2>1, <3>1 DEF Tried, Chances, Repeats, Active
      <4> QED
        BY <1>c, <2>1, <4>1 DEF Bounded
    <3>2. CASE x = t
      <4>1. Tried(x)' = 0 /\ spawned'[x] = 0 /\ Chances(x)' \in {0, 1}
        BY <2>1, <2>2, <3>2 DEF Unknown, Tried, Chances, Repeats, Active
      <4> QED
        BY <1>a, <1>d, <2>1, <4>1 DEF Bounded, AtLeast
    <3> QED
      BY <3>1, <3>2
  <2> QED
    BY <1>c, <2>1, <2>3 DEF AttemptsInv
<1>13. ASSUME NEW t \in Task, CliCancel(t) PROVE AttemptsInv'
  <2>1. /\ UNCHANGED <<pc, hand, retry, attempts, active, spawned>>
        /\ \A u \in Task : lane'[u] \in {lane[u], "none"}
        /\ spent' = [spent EXCEPT !.cancel = @ + 1]
    BY <1>13 DEF CliCancel, TypeOK, memVars
  <2>2. spent'.crash = spent.crash /\ spent'.retry = spent.retry
    BY <2>1 DEF TypeOK
  <2>3. ASSUME NEW x \in Task PROVE Bounded(x)'
    <3>1. /\ Tried(x)' = Tried(x) /\ Chances(x)' <= Chances(x)
          /\ Chances(x) \in Nat /\ Chances(x)' \in Nat
      BY <2>1 DEF Tried, Chances, Repeats, Active
    <3> QED
      BY <1>a, <1>c, <1>d, <2>1, <2>2, <3>1 DEF Bounded, Tried, AtLeast
  <2> QED
    BY <1>c, <2>1, <2>3 DEF AttemptsInv
<1>14. ASSUME NEW t \in Task, CliRetryCopy(t) PROVE AttemptsInv'
  <2>1. /\ UNCHANGED <<pc, hand, retry, attempts, active, spawned>>
        /\ \A u \in Task : u # t => lane'[u] = lane[u]
        /\ spent' = [spent EXCEPT !.retry = @ + 1]
    BY <1>14 DEF CliRetryCopy, TypeOK, memVars
  <2>2. spent'.crash = spent.crash /\ spent'.retry = spent.retry + 1
    BY <2>1 DEF TypeOK
  <2>3. ASSUME NEW x \in Task PROVE Bounded(x)'
    <3>1. /\ Tried(x)' = Tried(x) /\ Chances(x)' <= Chances(x) + 1
          /\ Chances(x) \in Nat /\ Chances(x)' \in Nat
      BY <2>1 DEF Tried, Chances, Repeats, Active
    <3> QED
      BY <1>a, <1>c, <1>d, <2>1, <2>2, <3>1 DEF Bounded, Tried, AtLeast
  <2> QED
    BY <1>c, <2>1, <2>3 DEF AttemptsInv
<1>15. CASE \/ \E t \in Task : Skip(t) \/ HeartbeatAges(t) \/ BackoffElapses(t) \/ CliRetryRemove(t)
            \/ \E p \in Pid : ProcExit(p)
            \/ \E m \in Model : CooldownElapses(m)
            \/ UNCHANGED vars
  <2>1. /\ UNCHANGED <<pc, hand, lane, attempts, active, spawned, spent>>
        /\ \A u \in Task : retry'[u] = "none" <=> retry[u] = "none"
    BY <1>15 DEF TypeOK, Skip, HeartbeatAges, BackoffElapses, CliRetryRemove, ProcExit,
       CooldownElapses, vars, busVars, memVars, envVars, histVars
  <2>2. ASSUME NEW x \in Task PROVE Bounded(x)'
    <3>1. Tried(x)' = Tried(x) /\ Chances(x)' = Chances(x)
      BY <2>1 DEF Tried, Chances, Repeats, Active
    <3> QED
      BY <1>c, <2>1, <3>1 DEF Bounded
  <2> QED
    BY <1>c, <2>1, <2>2 DEF AttemptsInv
<1> QED
  BY <1>1, <1>2, <1>3, <1>4, <1>5, <1>6, <1>7, <1>8, <1>9, <1>10, <1>11, <1>12, <1>13, <1>14,
     <1>15
  DEF Next, Loop, World

-----------------------------------------------------------------------------
(* Theorems                                                                *)

\* Nothing touches a task before its submission.
LEMMA KnownInvariant == Spec => [](SlotInv /\ Known)
<1>1. Init => Known
  BY ConstantsAssumption
  DEF Init, Known, Unknown, NoHand, ConstantsAssumption
<1>2. SlotInv /\ Known /\ [Next]_vars => Known'
  BY KnownStep
<1> QED
  BY <1>1, <1>2, SlotInvariant, PTL DEF Spec

\* In a life of the daemon without crashes every task is in one place.
LEMMA SingleInvariant ==
  ASSUME MaxCrashes = 0
  PROVE  Spec => [](SlotInv /\ SingleInv)
<1>1. Init => SingleInv
  BY ConstantsAssumption
  DEF Init, SingleInv, Single, Live, Working, Starts, Active, Handling, ConstantsAssumption
<1>2. SlotInv /\ Known /\ SingleInv /\ [Next]_vars => SingleInv'
  BY SingleStep
<1> QED
  BY <1>1, <1>2, KnownInvariant, PTL DEF Spec

\* In such a life, and with no cancellation, every process is that of a held run.
LEMMA ProcInvariant ==
  ASSUME MaxCrashes = 0, MaxCancels = 0
  PROVE  Spec => [](SlotInv /\ SingleInv /\ ProcInv)
<1>1. Init => ProcInv
  BY DEF Init, ProcInv, Active, Followed, NoProc
<1>2. SlotInv /\ SingleInv /\ ProcInv /\ [Next]_vars => ProcInv'
  BY ProcStep
<1> QED
  BY <1>1, <1>2, SingleInvariant, PTL DEF Spec

\* While the daemon does not crash, no slot leaks: whatever is claimed, refused, collected,
\* cancelled, reaped and retried, each taken slot directory is that of a run (acquire and
\* release of SlotManager).  After a crash, reaping an orphan gives its slot back to nobody.
THEOREM NoSlotLeaks ==
  ASSUME MaxCrashes = 0
  PROVE  Spec => []SlotsAccounted
<1>1. Init => Accounted
  BY DEF Init, Accounted, Free
<1>2. SlotInv /\ SingleInv /\ Accounted /\ [Next]_vars => Accounted'
  BY AccountedStep
<1>3. SlotInv /\ Accounted => SlotsAccounted
  BY AccountedSuffices
<1> QED
  BY <1>1, <1>2, <1>3, SingleInvariant, PTL DEF Spec

\* While the daemon does not crash a task has at most one outcome, whatever is cancelled
\* or retried by hand.
THEOREM VerdictsAreSingle ==
  ASSUME MaxCrashes = 0
  PROVE  Spec => []OneVerdict
<1>1. SingleInv => OneVerdict
  <2> SUFFICES ASSUME SingleInv, NEW t \in Task \ erasing
               PROVE  ~ (t \in done \cap failed \/ t \in done \cap dead \/ t \in failed \cap dead)
    BY DEF OneVerdict
  <2>1. Single(t)
    BY DEF SingleInv
  <2> QED
    BY <2>1 DEF Single
<1> QED
  BY <1>1, SingleInvariant, PTL

\* A submitted task that nobody cancelled stays somewhere on the bus, however often the
\* daemon crashes and wherever, if the staging directory can be renamed into place and
\* nobody retries by hand.
THEOREM TasksAreKept ==
  ASSUME StagingRenames, MaxRetries = 0
  PROVE  Spec => []NothingLost
<1>1. Init => KeptInv
  BY DEF Init, KeptInv, Kept
<1>2. SlotInv /\ KeptInv /\ [Next]_vars => KeptInv'
  BY KeptStep
<1>3. SlotInv /\ KeptInv => NothingLost
  BY DEF SlotInv, TypeOK, KeptInv, Kept, Settled, NothingLost
<1> QED
  BY <1>1, <1>2, <1>3, SlotInvariant, PTL DEF Spec

\* A task that is running has one process.
LEMMA OneRunning ==
  ASSUME SlotInv, SingleInv, ProcInv, NEW t \in Task
  PROVE  /\ Running(t) # {} => Holds(t)
         /\ \A p, q \in Running(t) : p = q
<1>1. ASSUME NEW p \in Running(t)
      PROVE  \/ t \in Active /\ active[t].pid = p
             \/ pc = "register" /\ hand.task = t /\ hand.run.pid = p
  <2>1. p \in Pid /\ proc[p].st = "running" /\ proc[p].task = t
    BY DEF Running
  <2> QED
    BY <2>1 DEF ProcInv, Followed
<1>2. pc = "register" /\ hand.task = t => InHand /\ t \notin Active
  BY DEF SlotInv, HandOK, Handling, InHand, NoRun, Slot, SingleInv, Single
<1> QED
  BY <1>1, <1>2 DEF Holds

\* While the daemon does not crash and nobody cancels, no task is executed by two
\* processes at once: not by a retry, nor by a timeout that kills the process of the pid
\* file.
THEOREM ProcessesAreSingle ==
  ASSUME MaxCrashes = 0, MaxCancels = 0
  PROVE  Spec => []OneProcessPerTask
<1>1. SlotInv /\ SingleInv /\ ProcInv => OneProcessPerTask
  <2> SUFFICES ASSUME SlotInv, SingleInv, ProcInv, NEW t \in Task
               PROVE  Cardinality(Running(t)) <= 1
    BY DEF OneProcessPerTask
  <2>1. CASE Running(t) = {}
    BY <2>1, FS_EmptySet
  <2>2. CASE Running(t) # {}
    <3>1. PICK p : Running(t) = {p}
      BY <2>2, OneRunning
    <3> QED
      BY <3>1, FS_Singleton
  <2> QED
    BY <2>1, <2>2
<1> QED
  BY <1>1, ProcInvariant, PTL

\* Under the same conditions the project lock excludes processes and not only table
\* entries, where no project mixes worktree tasks with others.
THEOREM WorkersAreExclusive ==
  ASSUME MaxCrashes = 0, MaxCancels = 0, NoMixedProjects
  PROVE  Spec => []WorkersExclusive
<1>1. SlotInv /\ SingleInv /\ ProcInv /\ ActiveExclusive => WorkersExclusive
  <2>1. SlotInv /\ SingleInv /\ ProcInv => \A t \in Task : Running(t) # {} => Holds(t)
    BY OneRunning
  <2> QED
    BY <2>1 DEF ActiveExclusive, WorkersExclusive
<1> QED
  BY <1>1, ProcInvariant, ProjectsAreExclusive, PTL

\* Across any crashes, cancellations and retries, a task is started at most MaxAttempts
\* times plus once for each retry by hand and each crash: should_retry counts the run
\* files, and those survive.
THEOREM StartsAreBounded ==
  ASSUME MaxAttempts # 0
  PROVE  Spec => []SpawnsBounded
<1>1. Init => AttemptsInv
  <2> SUFFICES ASSUME Init PROVE AttemptsInv
    OBVIOUS
  <2>1. MaxAttempts \in Nat
    BY ConstantsAssumption DEF ConstantsAssumption
  <2>2. spent.crash = 0 /\ spent.retry = 0 /\ pc = "down"
    BY DEF Init
  <2>3. ASSUME NEW t \in Task PROVE Tried(t) = 0 /\ Chances(t) = 0 /\ spawned[t] = 0
    BY <2>2 DEF Init, Tried, Chances, Repeats, Active
  <2> QED
    BY <2>1, <2>2, <2>3 DEF AttemptsInv, Bounded, AtLeast
<1>2. SlotInv /\ Known /\ AttemptsInv /\ [Next]_vars => AttemptsInv'
  BY AttemptsStep
<1>3. SlotInv /\ AttemptsInv => SpawnsBounded
  <2> SUFFICES ASSUME SlotInv, AttemptsInv, NEW t \in Task
               PROVE  spawned[t] <= MaxAttempts + spent.retry + spent.crash
    BY DEF SpawnsBounded
  <2>1. /\ MaxAttempts \in Nat /\ spawned[t] \in Nat /\ spent.retry \in Nat /\ spent.crash \in Nat
        /\ attempts[t] \in Nat /\ hand.run.attempt \in Nat
    BY ConstantsAssumption DEF ConstantsAssumption, SlotInv, TypeOK, RunType
  <2>2. Tried(t) \in Nat /\ Chances(t) \in Nat
    BY <2>1 DEF Tried, Chances
  <2>3. Bounded(t)
    BY DEF AttemptsInv
  <2> QED
    BY <2>1, <2>2, <2>3 DEF Bounded, AtLeast
<1> QED
  BY <1>1, <1>2, <1>3, KnownInvariant, PTL DEF Spec
=============================================================================
