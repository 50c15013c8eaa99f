----------------------------- MODULE DaemonProof -----------------------------
(***************************************************************************)
(* Theorems about Daemon, for every value of its constants: any number of  *)
(* tasks, projects, pids and providers, any bounds, every environment.     *)
(***************************************************************************)
EXTENDS Daemon, WellFoundedInduction, TLAPS

-----------------------------------------------------------------------------
(* Slots                                                                   *)

\* The first mkdir that succeeds exists whenever some slot directory is missing.
LEMMA LowestFreeIsFree ==
  ASSUME Occupied # Slot
  PROVE  LowestFree \in Slot \ Occupied
<1> DEFINE F == Slot \ Occupied
           R == OpToRel(<, Nat)
<1>1. Occupied \subseteq Slot
  BY DEF Occupied
<1>2a. F # {}
  BY <1>1
<1>2b. Slot \subseteq Nat
  BY ConstantsAssumption DEF ConstantsAssumption, Slot
<1>2. F # {} /\ F \subseteq Nat
  BY <1>2a, <1>2b
<1>3. IsWellFoundedOn(R, Nat)
  BY NatLessThanWellFounded
<1>4. PICK x \in F : \A y \in F : ~ (<<y, x>> \in R)
  <2> HIDE DEF F, R
  <2> QED BY <1>2, <1>3, WFMin
<1>5. \A y \in F : x <= y
  <2> SUFFICES ASSUME NEW y \in F PROVE x <= y
    OBVIOUS
  <2>1. x \in Nat /\ y \in Nat
    BY <1>2
  <2>2. y < x => <<y, x>> \in R
    BY <2>1 DEF OpToRel
  <2> HIDE DEF F, R
  <2> QED
    BY <1>4, <2>1, <2>2
<1> QED
  BY <1>5 DEF LowestFree

-----------------------------------------------------------------------------
(* Types.  The loop indexes its tables with the task in its hand, so types *)
(* are inductive only together with what the hand holds at each step.      *)

Handling == {"cleanup", "spawn", "register"}

\* While the loop handles one run, the hand names a task and one of its slots.
HandOK ==
  /\ pc \in Handling => hand.task \in Task /\ hand.run.slot \in Slot
  /\ pc \notin Handling => hand.run = NoRun

\* The breaker's transitions yield breakers.
LEMMA CircuitTypes ==
  ASSUME NEW c \in CircuitType
  PROVE  /\ CheckCooldown(c) \in CircuitType
         /\ RecordSuccess(c) \in CircuitType
         /\ RecordFailure(c) \in CircuitType
<1> USE ConstantsAssumption DEF ConstantsAssumption, CircuitType
<1>1. CheckCooldown(c) \in CircuitType
  BY DEF CheckCooldown
<1>2. RecordSuccess(c) \in CircuitType
  BY DEF RecordSuccess, Closed
<1>3. RecordFailure(c) \in CircuitType
  BY DEF RecordFailure
<1> QED
  BY <1>1, <1>2, <1>3

\* The empty bus and the stopped daemon are well typed, and the hand is empty.
LEMMA InitTypes == Init => TypeOK /\ HandOK
<1> SUFFICES ASSUME Init PROVE TypeOK /\ HandOK
  OBVIOUS
<1> USE ConstantsAssumption DEF ConstantsAssumption, Init
<1>1. TypeOK
  BY DEF TypeOK, Lane, Level, SlotState, Free, RunType, NoRun, NoHand, NoProc, Closed, Exit,
       Places, CircuitType
<1>2. HandOK
  BY DEF HandOK, Handling, NoHand
<1> QED
  BY <1>1, <1>2

\* Every action of the loop and of its environment keeps the types, given what the
\* hand holds at that point of the loop; one proof step per action.
LEMMA TypeStep ==
  ASSUME TypeOK, HandOK, [Next]_vars
  PROVE  TypeOK'
<1> USE ConstantsAssumption
<1>1. ASSUME Start PROVE TypeOK'
  BY <1>1 DEF TypeOK, Start, busVars, trackVars, memVars, histVars, envVars, Places
<1>2. ASSUME RecoverSlots PROVE TypeOK'
  BY <1>2 DEF TypeOK, RecoverSlots, busVars, trackVars, memVars, histVars, envVars, Places,
      FreeSlots, Free, SlotState
<1>3. ASSUME SweepOrphans PROVE TypeOK'
  BY <1>3 DEF TypeOK, SweepOrphans, busVars, trackVars, memVars, histVars, envVars, Places,
      FailOrphans
<1>4. ASSUME ClearLocks PROVE TypeOK'
  BY <1>4 DEF TypeOK, ClearLocks, busVars, trackVars, memVars, histVars, envVars, Places
<1>5. ASSUME Tick PROVE TypeOK'
  BY <1>5 DEF TypeOK, Tick, busVars, trackVars, memVars, histVars, envVars, Places
<1>6. ASSUME ProcessCancels PROVE TypeOK'
  <2>1. signal' \subseteq Task
    BY <1>6 DEF TypeOK, ProcessCancels
  <2>2. failed' \subseteq Task
    BY <1>6 DEF TypeOK, ProcessCancels, MoveStaging
  <2>3. cur' \subseteq Task
    BY <1>6 DEF TypeOK, ProcessCancels
  <2>4. slot' \in [Slot -> SlotState]
    BY <1>6 DEF TypeOK, ProcessCancels, FreeSlots, Free, SlotState
  <2>5. lock' \in [Project -> Task \cup {NoTask}]
    BY <1>6 DEF TypeOK, ProcessCancels, Unlocked
  <2>6. pidfile' \in [Task -> Pid \cup {NoPid}]
    BY <1>6 DEF TypeOK, ProcessCancels
  <2>7. hb' \in [Task -> {"none", "fresh", "stale"}]
    BY <1>6 DEF TypeOK, ProcessCancels
  <2>8. active' \in [Task -> RunType]
    BY <1>6 DEF TypeOK, ProcessCancels, NoRun, RunType
  <2>9. proc' \in [Pid -> [task : Task \cup {NoTask}, st : Exit \cup {"gone", "running"}]]
    BY <1>6 DEF TypeOK, ProcessCancels, NoProc
  <2>10. pc' \in Places
    BY <1>6 DEF TypeOK, ProcessCancels, Places
  <2>11. UNCHANGED <<lane, done, dead, retry, attempts, circuit, hand, scan, level,
                     erasing, spent, submitted, cancelled, spawned, probes>>
    BY <1>6 DEF ProcessCancels, busVars, trackVars, memVars, histVars, envVars
  <2> QED
    BY <2>1, <2>2, <2>3, <2>4, <2>5, <2>6, <2>7, <2>8, <2>9, <2>10, <2>11 DEF TypeOK
<1>7. ASSUME Cleanup PROVE TypeOK'
  <2>1. cur' \subseteq Task
    BY <1>7 DEF TypeOK, Cleanup
  <2>2. slot' \in [Slot -> SlotState]
    BY <1>7 DEF TypeOK, Cleanup, FreeSlots, Free, SlotState
  <2>3. lock' \in [Project -> Task \cup {NoTask}]
    BY <1>7 DEF TypeOK, Cleanup, Unlocked
  <2>4. hb' \in [Task -> {"none", "fresh", "stale"}]
    BY <1>7 DEF TypeOK, Cleanup
  <2>5. pidfile' \in [Task -> Pid \cup {NoPid}]
    BY <1>7 DEF TypeOK, Cleanup
  <2>6. pc' \in Places
    BY <1>7 DEF TypeOK, Cleanup, Places
  <2>7. hand' \in [task : Task \cup {NoTask}, run : RunType]
    BY <1>7 DEF TypeOK, Cleanup, NoHand, NoRun, RunType
  <2>8. UNCHANGED <<lane, done, failed, dead, retry, attempts, signal, active, circuit,
                    scan, level, proc, erasing, spent, submitted, cancelled, spawned,
                    probes>>
    BY <1>7 DEF Cleanup, busVars, trackVars, memVars, histVars, envVars
  <2> QED
    BY <2>1, <2>2, <2>3, <2>4, <2>5, <2>6, <2>7, <2>8 DEF TypeOK
<1>8. ASSUME EndCollect PROVE TypeOK'
  BY <1>8 DEF TypeOK, EndCollect, busVars, trackVars, memVars, histVars, envVars, Places
<1>9. ASSUME EndReap PROVE TypeOK'
  BY <1>9 DEF TypeOK, EndReap, busVars, trackVars, memVars, histVars, envVars, Places
<1>10. ASSUME RequeueClean PROVE TypeOK'
  <2>1. retry' \in [Task -> {"none", "waiting", "due"}]
    BY <1>10 DEF TypeOK, RequeueClean
  <2>2. pc' \in Places
    BY <1>10 DEF TypeOK, RequeueClean, Places
  <2>3. hand' \in [task : Task \cup {NoTask}, run : RunType]
    BY <1>10 DEF TypeOK, RequeueClean, NoHand, NoRun, RunType
  <2>4. UNCHANGED <<lane, cur, done, failed, dead, attempts, slot, lock, hb, pidfile,
                    signal, active, circuit, scan, level, proc, erasing, spent, submitted,
                    cancelled, spawned, probes>>
    BY <1>10 DEF RequeueClean, busVars, trackVars, memVars, histVars, envVars
  <2> QED
    BY <2>1, <2>2, <2>3, <2>4 DEF TypeOK
<1>11. ASSUME BeginDispatch PROVE TypeOK'
  BY <1>11 DEF TypeOK, BeginDispatch, busVars, trackVars, memVars, histVars, envVars,
      Places, Level, Queued, ConstantsAssumption
<1>12. ASSUME EndDispatch PROVE TypeOK'
  BY <1>12 DEF TypeOK, EndDispatch, busVars, trackVars, memVars, histVars, envVars, Places,
      Level
<1>13. ASSUME SpawnRefused PROVE TypeOK'
  <2>1. cur' \subseteq Task
    BY <1>13 DEF TypeOK, SpawnRefused
  <2>2. failed' \subseteq Task
    BY <1>13 DEF TypeOK, SpawnRefused, HandOK, Handling
  <2>3. attempts' \in [Task -> Nat]
    BY <1>13 DEF TypeOK, SpawnRefused, HandOK, Handling
  <2>4. slot' \in [Slot -> SlotState]
    BY <1>13 DEF TypeOK, SpawnRefused, FreeSlots, Free, SlotState
  <2>5. lock' \in [Project -> Task \cup {NoTask}]
    BY <1>13 DEF TypeOK, SpawnRefused, Unlocked
  <2>6. hb' \in [Task -> {"none", "fresh", "stale"}]
    BY <1>13 DEF TypeOK, SpawnRefused
  <2>7. pidfile' \in [Task -> Pid \cup {NoPid}]
    BY <1>13 DEF TypeOK, SpawnRefused
  <2>8. pc' \in Places
    BY <1>13 DEF TypeOK, SpawnRefused, Places
  <2>9. hand' \in [task : Task \cup {NoTask}, run : RunType]
    BY <1>13 DEF TypeOK, SpawnRefused, NoHand, NoRun, RunType
  <2>10. UNCHANGED <<lane, done, dead, retry, signal, active, circuit, scan, level, proc,
                     erasing, spent, submitted, cancelled, spawned, probes>>
    BY <1>13 DEF SpawnRefused, busVars, trackVars, memVars, histVars, envVars
  <2> QED
    BY <2>1, <2>2, <2>3, <2>4, <2>5, <2>6, <2>7, <2>8, <2>9, <2>10 DEF TypeOK
<1>14. ASSUME Spawn PROVE TypeOK'
  <2>1. pc' \in Places
    BY <1>14 DEF TypeOK, Spawn, Places
  <2>2. hand' \in [task : Task \cup {NoTask}, run : RunType]
    <3>1. hand.task \in Task /\ attempts[hand.task] \in Nat
      BY <1>14 DEF TypeOK, Spawn, HandOK, Handling
    <3>2. PICK p \in Pid : hand' = [hand EXCEPT !.run.pid = p,
                                                !.run.attempt = attempts[hand.task] + 1]
      BY <1>14 DEF Spawn
    <3> DEFINE n == attempts[hand.task] + 1
    <3>3. [hand.run EXCEPT !.pid = p, !.attempt = n] \in RunType
      <4>1. n \in Nat /\ hand.run \in RunType
        BY <3>1 DEF TypeOK
      <4>2. p \in Pid
        BY <3>2
      <4> HIDE DEF n
      <4> QED
        BY <4>1, <4>2 DEF RunType
    <3>4. hand' = [hand EXCEPT !.run = [hand.run EXCEPT !.pid = p, !.attempt = n]]
      BY <3>2 DEF TypeOK, RunType
    <3> QED
      BY <3>3, <3>4 DEF TypeOK
  <2>3. proc' \in [Pid -> [task : Task \cup {NoTask}, st : Exit \cup {"gone", "running"}]]
    BY <1>14 DEF TypeOK, Spawn
  <2>4. spawned' \in [Task -> Nat]
    BY <1>14 DEF TypeOK, Spawn, HandOK, Handling
  <2>5. UNCHANGED <<lane, cur, done, failed, dead, retry, attempts, slot, lock, hb, pidfile,
                    signal, active, circuit, scan, level, erasing, spent, submitted,
                    cancelled, probes>>
    BY <1>14 DEF Spawn, busVars, trackVars, memVars, histVars, envVars
  <2> QED
    BY <2>1, <2>2, <2>3, <2>4, <2>5 DEF TypeOK
<1>15. ASSUME Register PROVE TypeOK'
  <2>1. attempts' \in [Task -> Nat]
    BY <1>15 DEF TypeOK, Register, RunType
  <2>2. hb' \in [Task -> {"none", "fresh", "stale"}]
    BY <1>15 DEF TypeOK, Register
  <2>3. pidfile' \in [Task -> Pid \cup {NoPid}]
    BY <1>15 DEF TypeOK, Register, RunType
  <2>4. active' \in [Task -> RunType]
    BY <1>15 DEF TypeOK, Register
  <2>5. pc' \in Places
    BY <1>15 DEF TypeOK, Register, Places
  <2>6. hand' \in [task : Task \cup {NoTask}, run : RunType]
    BY <1>15 DEF TypeOK, Register, NoHand, NoRun, RunType
  <2>7. UNCHANGED <<lane, cur, done, failed, dead, retry, slot, lock, signal, circuit, scan,
                    level, proc, erasing, spent, submitted, cancelled, spawned, probes>>
    BY <1>15 DEF Register, busVars, trackVars, memVars, histVars, envVars
  <2> QED
    BY <2>1, <2>2, <2>3, <2>4, <2>5, <2>6, <2>7 DEF TypeOK
<1>16. ASSUME Crash PROVE TypeOK'
  <2>1. active' \in [Task -> RunType]
    BY <1>16 DEF TypeOK, Crash, NoRun, RunType
  <2>2. circuit' \in [Model -> CircuitType]
    BY <1>16 DEF TypeOK, Crash, Closed, CircuitType
  <2>3. pc' \in Places
    BY <1>16 DEF TypeOK, Crash, Places
  <2>4. hand' \in [task : Task \cup {NoTask}, run : RunType]
    BY <1>16 DEF TypeOK, Crash, NoHand, NoRun, RunType
  <2>5. scan' \subseteq Task
    BY <1>16 DEF TypeOK, Crash
  <2>6. level' \in Level
    BY <1>16 DEF TypeOK, Crash, Level
  <2>7. proc' \in [Pid -> [task : Task \cup {NoTask}, st : Exit \cup {"gone", "running"}]]
    BY <1>16 DEF TypeOK, Crash, NoProc, Exit
  <2>8. spent' \in [crash : Nat, cancel : Nat, retry : Nat]
    <3>1. spent.crash \in Nat /\ spent' = [spent EXCEPT !.crash = @ + 1]
      BY <1>16 DEF TypeOK, Crash
    <3> QED
      BY <3>1 DEF TypeOK
  <2>9. UNCHANGED <<lane, cur, done, failed, dead, retry, attempts, slot, lock, hb, pidfile,
                    signal, erasing, submitted, cancelled, spawned, probes>>
    BY <1>16 DEF Crash, busVars, trackVars, memVars, histVars, envVars
  <2> QED
    BY <2>1, <2>2, <2>3, <2>4, <2>5, <2>6, <2>7, <2>8, <2>9 DEF TypeOK
<1>17. ASSUME NEW t \in Task, Collect(t) PROVE TypeOK'
  <2>1. done' \subseteq Task
    BY <1>17 DEF TypeOK, Collect, MoveStaging
  <2>2. failed' \subseteq Task
    BY <1>17 DEF TypeOK, Collect, MoveStaging
  <2>3. dead' \subseteq Task
    BY <1>17 DEF TypeOK, Collect, MoveStaging
  <2>4. retry' \in [Task -> {"none", "waiting", "due"}]
    BY <1>17 DEF TypeOK, Collect
  <2>5. active' \in [Task -> RunType]
    BY <1>17 DEF TypeOK, Collect, NoRun, RunType
  <2>6. circuit' \in [Model -> CircuitType]
    BY <1>17, CircuitTypes DEF TypeOK, Collect, Breaker, ConstantsAssumption
  <2>7. pc' \in Places
    BY <1>17 DEF TypeOK, Collect, Places
  <2>8. hand' \in [task : Task \cup {NoTask}, run : RunType]
    BY <1>17 DEF TypeOK, Collect, RunType
  <2>9. proc' \in [Pid -> [task : Task \cup {NoTask}, st : Exit \cup {"gone", "running"}]]
    BY <1>17 DEF TypeOK, Collect, NoProc, Exit
  <2>10. probes' \in [Model -> Nat]
    BY <1>17 DEF TypeOK, Collect
  <2>11. UNCHANGED <<lane, cur, attempts, slot, lock, hb, pidfile, signal, scan, level,
                     erasing, spent, submitted, cancelled, spawned>>
    BY <1>17 DEF Collect, busVars, trackVars, memVars, histVars, envVars
  <2> QED
    BY <2>1, <2>2, <2>3, <2>4, <2>5, <2>6, <2>7, <2>8, <2>9, <2>10, <2>11 DEF TypeOK
<1>18. ASSUME NEW t \in Task, Reap(t) PROVE TypeOK'
  <2>1. failed' \subseteq Task
    BY <1>18 DEF TypeOK, Reap, MoveStaging
  <2>2. slot' \in [Slot -> SlotState]
    BY <1>18 DEF TypeOK, Reap, FreeSlots, Free, SlotState
  <2>3. lock' \in [Project -> Task \cup {NoTask}]
    BY <1>18 DEF TypeOK, Reap, Unlocked
  <2>4. active' \in [Task -> RunType]
    BY <1>18 DEF TypeOK, Reap, NoRun, RunType
  <2>5. proc' \in [Pid -> [task : Task \cup {NoTask}, st : Exit \cup {"gone", "running"}]]
    BY <1>18 DEF TypeOK, Reap, Kill, NoProc
  <2>6. cur' \subseteq Task
    BY <1>18 DEF TypeOK, Reap
  <2>7. hb' \in [Task -> {"none", "fresh", "stale"}]
    BY <1>18 DEF TypeOK, Reap
  <2>8. pidfile' \in [Task -> Pid \cup {NoPid}]
    BY <1>18 DEF TypeOK, Reap
  <2>9. UNCHANGED <<lane, done, dead, retry, attempts, signal, circuit, pc, hand, scan,
                    level, erasing, spent, submitted, cancelled, spawned, probes>>
    BY <1>18 DEF Reap, busVars, trackVars, memVars, histVars, envVars
  <2> QED
    BY <2>1, <2>2, <2>3, <2>4, <2>5, <2>6, <2>7, <2>8, <2>9 DEF TypeOK
<1>19. ASSUME NEW t \in Task, RequeueWrite(t) PROVE TypeOK'
  <2>1. lane' \in [Task -> Lane \cup {"none"}]
    BY <1>19 DEF TypeOK, RequeueWrite, RequeueLane, Lane
  <2>2. hand' \in [task : Task \cup {NoTask}, run : RunType]
    BY <1>19 DEF TypeOK, RequeueWrite, NoRun, RunType
  <2>3. pc' \in Places
    BY <1>19 DEF TypeOK, RequeueWrite, Places
  <2>4. UNCHANGED <<cur, done, failed, dead, retry, attempts, slot, lock, hb, pidfile,
                    signal, active, circuit, scan, level, proc, erasing, spent, submitted,
                    cancelled, spawned, probes>>
    BY <1>19 DEF RequeueWrite, busVars, trackVars, memVars, histVars, envVars
  <2> QED
    BY <2>1, <2>2, <2>3, <2>4 DEF TypeOK
<1>20. ASSUME NEW t \in Task, Skip(t) PROVE TypeOK'
  <2>1. circuit' \in [Model -> CircuitType]
    BY <1>20, CircuitTypes DEF TypeOK, Skip, Breaker, ConstantsAssumption
  <2>2. scan' \subseteq Task
    BY <1>20 DEF TypeOK, Skip
  <2>3. UNCHANGED <<lane, cur, done, failed, dead, retry, attempts, slot, lock, hb, pidfile,
                    signal, active, pc, hand, level, proc, erasing, spent, submitted,
                    cancelled, spawned, probes>>
    BY <1>20 DEF Skip, busVars, trackVars, memVars, histVars, envVars
  <2> QED
    BY <2>1, <2>2, <2>3 DEF TypeOK
<1>21. ASSUME NEW t \in Task, Claim(t) PROVE TypeOK'
  <2>1. lane' \in [Task -> Lane \cup {"none"}]
    BY <1>21 DEF TypeOK, Claim
  <2>2. cur' \subseteq Task
    BY <1>21 DEF TypeOK, Claim
  <2>3. slot' \in [Slot -> SlotState]
    BY <1>21, LowestFreeIsFree DEF TypeOK, Claim, OwnedBy, SlotState, NoRoom, Slot,
        ConstantsAssumption
  <2>4. lock' \in [Project -> Task \cup {NoTask}]
    BY <1>21 DEF TypeOK, Claim
  <2>5. circuit' \in [Model -> CircuitType]
    BY <1>21, CircuitTypes DEF TypeOK, Claim, Breaker, ConstantsAssumption
  <2>6. pc' \in Places
    BY <1>21 DEF TypeOK, Claim, Places
  <2>7. hand' \in [task : Task \cup {NoTask}, run : RunType]
    BY <1>21, LowestFreeIsFree DEF TypeOK, Claim, RunType, NoRoom, Slot, ConstantsAssumption
  <2>8. scan' \subseteq Task
    BY <1>21 DEF TypeOK, Claim
  <2>9. probes' \in [Model -> Nat]
    BY <1>21 DEF TypeOK, Claim, ConstantsAssumption
  <2>10. UNCHANGED <<done, failed, dead, retry, attempts, hb, pidfile, signal, active,
                     level, proc, erasing, spent, submitted, cancelled, spawned>>
    BY <1>21 DEF Claim, busVars, trackVars, memVars, histVars, envVars
  <2> QED
    BY <2>1, <2>2, <2>3, <2>4, <2>5, <2>6, <2>7, <2>8, <2>9, <2>10 DEF TypeOK
<1>22. ASSUME NEW t \in Task, BackoffElapses(t) PROVE TypeOK'
  <2>1. retry' \in [Task -> {"none", "waiting", "due"}]
    BY <1>22 DEF TypeOK, BackoffElapses
  <2>2. UNCHANGED <<lane, cur, done, failed, dead, attempts, slot, lock, hb, pidfile,
                    signal, active, circuit, pc, hand, scan, level, proc, erasing, spent,
                    submitted, cancelled, spawned, probes>>
    BY <1>22 DEF BackoffElapses, busVars, trackVars, memVars, histVars, envVars
  <2> QED
    BY <2>1, <2>2 DEF TypeOK
<1>23. ASSUME NEW t \in Task, HeartbeatAges(t) PROVE TypeOK'
  <2>1. hb' \in [Task -> {"none", "fresh", "stale"}]
    BY <1>23 DEF TypeOK, HeartbeatAges
  <2>2. UNCHANGED <<lane, cur, done, failed, dead, retry, attempts, slot, lock, pidfile,
                    signal, active, circuit, pc, hand, scan, level, proc, erasing, spent,
                    submitted, cancelled, spawned, probes>>
    BY <1>23 DEF HeartbeatAges, busVars, trackVars, memVars, histVars, envVars
  <2> QED
    BY <2>1, <2>2 DEF TypeOK
<1>24. ASSUME NEW t \in Task, Submit(t) PROVE TypeOK'
  <2>1. lane' \in [Task -> Lane \cup {"none"}]
    BY <1>24 DEF TypeOK, Submit, ConstantsAssumption
  <2>2. submitted' \subseteq Task
    BY <1>24 DEF TypeOK, Submit
  <2>3. UNCHANGED <<cur, done, failed, dead, retry, attempts, slot, lock, hb, pidfile,
                    signal, active, circuit, pc, hand, scan, level, proc, erasing, spent,
                    cancelled, spawned, probes>>
    BY <1>24 DEF Submit, busVars, trackVars, memVars, histVars, envVars
  <2> QED
    BY <2>1, <2>2, <2>3 DEF TypeOK
<1>25. ASSUME NEW t \in Task, CliCancel(t) PROVE TypeOK'
  <2>1. lane' \in [Task -> Lane \cup {"none"}]
    BY <1>25 DEF TypeOK, CliCancel
  <2>2. signal' \subseteq Task
    BY <1>25 DEF TypeOK, CliCancel
  <2>3. spent' \in [crash : Nat, cancel : Nat, retry : Nat]
    BY <1>25 DEF TypeOK, CliCancel
  <2>4. cancelled' \subseteq Task
    BY <1>25 DEF TypeOK, CliCancel
  <2>5. UNCHANGED <<cur, done, failed, dead, retry, attempts, slot, lock, hb, pidfile,
                    active, circuit, pc, hand, scan, level, proc, erasing, submitted,
                    spawned, probes>>
    BY <1>25 DEF CliCancel, busVars, trackVars, memVars, histVars, envVars
  <2> QED
    BY <2>1, <2>2, <2>3, <2>4, <2>5 DEF TypeOK
<1>26. ASSUME NEW t \in Task, CliRetryCopy(t) PROVE TypeOK'
  <2>1. lane' \in [Task -> Lane \cup {"none"}]
    BY <1>26 DEF TypeOK, CliRetryCopy, Lane
  <2>2. erasing' \subseteq Task
    BY <1>26 DEF TypeOK, CliRetryCopy
  <2>3. cancelled' \subseteq Task
    BY <1>26 DEF TypeOK, CliRetryCopy
  <2>4. spent' \in [crash : Nat, cancel : Nat, retry : Nat]
    BY <1>26 DEF TypeOK, CliRetryCopy
  <2>5. UNCHANGED <<cur, done, failed, dead, retry, attempts, slot, lock, hb, pidfile,
                    signal, active, circuit, pc, hand, scan, level, proc, submitted,
                    spawned, probes>>
    BY <1>26 DEF CliRetryCopy, busVars, trackVars, memVars, histVars, envVars
  <2> QED
    BY <2>1, <2>2, <2>3, <2>4, <2>5 DEF TypeOK
<1>27. ASSUME NEW t \in Task, CliRetryRemove(t) PROVE TypeOK'
  <2>1. failed' \subseteq Task
    BY <1>27 DEF TypeOK, CliRetryRemove
  <2>2. dead' \subseteq Task
    BY <1>27 DEF TypeOK, CliRetryRemove
  <2>3. erasing' \subseteq Task
    BY <1>27 DEF TypeOK, CliRetryRemove
  <2>4. UNCHANGED <<lane, cur, done, retry, attempts, slot, lock, hb, pidfile, signal,
                    active, circuit, pc, hand, scan, level, proc, spent, submitted,
                    cancelled, spawned, probes>>
    BY <1>27 DEF CliRetryRemove, busVars, trackVars, memVars, histVars, envVars
  <2> QED
    BY <2>1, <2>2, <2>3, <2>4 DEF TypeOK
<1>28. ASSUME NEW p \in Pid, ProcExit(p) PROVE TypeOK'
  <2>1. proc' \in [Pid -> [task : Task \cup {NoTask}, st : Exit \cup {"gone", "running"}]]
    <3>1. PICK e \in Exit :
             proc' = [proc EXCEPT ![p] =
               IF hand.run.pid = p \/ \E t \in Active : active[t].pid = p
               THEN [@ EXCEPT !.st = e] ELSE NoProc]
      BY <1>28 DEF ProcExit
    <3>2. [proc[p] EXCEPT !.st = e]
            \in [task : Task \cup {NoTask}, st : Exit \cup {"gone", "running"}]
      BY DEF TypeOK
    <3>3. NoProc \in [task : Task \cup {NoTask}, st : Exit \cup {"gone", "running"}]
      BY DEF NoProc
    <3> QED
      BY <3>1, <3>2, <3>3 DEF TypeOK
  <2>2. UNCHANGED <<lane, cur, done, failed, dead, retry, attempts, slot, lock, hb,
                    pidfile, signal, active, circuit, pc, hand, scan, level, erasing,
                    spent, submitted, cancelled, spawned, probes>>
    BY <1>28 DEF ProcExit, busVars, trackVars, memVars, histVars, envVars
  <2> QED
    BY <2>1, <2>2 DEF TypeOK
<1>29. ASSUME NEW m \in Model, CooldownElapses(m) PROVE TypeOK'
  <2>1. circuit' \in [Model -> CircuitType]
    <3> DEFINE cooled == [st |-> "cooled", fails |-> circuit[m].fails]
    <3>1. circuit[m] \in [st : {"closed", "open", "cooled", "half_open"}, fails : Nat]
      BY DEF TypeOK, CircuitType
    <3>2. cooled \in CircuitType
      BY <3>1 DEF CircuitType
    <3>3. [circuit[m] EXCEPT !.st = "cooled"] = cooled
      BY <3>1
    <3>4. circuit' = [circuit EXCEPT ![m] = cooled]
      BY <1>29, <3>3 DEF CooldownElapses
    <3> QED
      BY <3>2, <3>4 DEF TypeOK
  <2>2. UNCHANGED <<lane, cur, done, failed, dead, retry, attempts, slot, lock, hb,
                    pidfile, signal, active, pc, hand, scan, level, proc, erasing, spent,
                    submitted, cancelled, spawned, probes>>
    BY <1>29 DEF CooldownElapses, busVars, trackVars, memVars, histVars, envVars
  <2> QED
    BY <2>1, <2>2 DEF TypeOK
<1>30. CASE UNCHANGED vars
  BY <1>30 DEF TypeOK, vars, busVars, trackVars, memVars, histVars, envVars
<1> QED
  BY <1>1, <1>2, <1>3, <1>4, <1>5, <1>6, <1>7, <1>8, <1>9, <1>10, <1>11, <1>12, <1>13,
      <1>14, <1>15, <1>16, <1>17, <1>18, <1>19, <1>20, <1>21, <1>22, <1>23, <1>24, <1>25,
      <1>26, <1>27, <1>28, <1>29, <1>30 DEF Next, Loop, World

-----------------------------------------------------------------------------
(* Slots.  Owned is inductive once it covers the run in the loop's hand,   *)
(* which holds a slot without being tracked yet (or any more), and once    *)
(* nothing is tracked while a restarted daemon recovers slots.             *)

Starting == {"down", "recover_slots", "orphans", "clear_locks"}

Untracked == pc \in Starting => Active = {}

\* Tracked runs own their slots; so does the run in hand, and it shares none.
Owned ==
  /\ \A t \in Active : active[t].slot \in Slot /\ slot[active[t].slot] = OwnedBy(t)
  /\ InHand => /\ slot[hand.run.slot] = OwnedBy(hand.task)
               /\ \A t \in Active : active[t].slot # hand.run.slot

SlotInv == TypeOK /\ HandOK /\ Untracked /\ Owned

\* Steps that touch neither the loop's place nor its runs nor the slots.
Aside ==
  \/ \E t \in Task : \/ Skip(t) \/ BackoffElapses(t) \/ HeartbeatAges(t) \/ Submit(t)
                     \/ CliCancel(t) \/ CliRetryCopy(t) \/ CliRetryRemove(t)
  \/ \E p \in Pid : ProcExit(p)
  \/ \E m \in Model : CooldownElapses(m)
  \/ UNCHANGED vars

\* A step aside changes neither the place of the loop, its hand, its table of runs,
\* the slots nor the locks.
LEMMA AsideKeeps == Aside => UNCHANGED <<pc, hand, active, slot, lock>>
  BY DEF Aside, Skip, BackoffElapses, HeartbeatAges, Submit, CliCancel, CliRetryCopy,
         CliRetryRemove, ProcExit, CooldownElapses, vars, busVars, trackVars, memVars,
         histVars, envVars

\* Steps that move the loop on, with nothing in its hand before or after.
MoveOn ==
  \/ Start \/ SweepOrphans \/ ClearLocks \/ Tick \/ EndCollect \/ EndReap
  \/ (\E t \in Task : RequeueWrite(t)) \/ RequeueClean \/ BeginDispatch \/ EndDispatch

\* Moving on from pass to pass changes no run and no slot and leaves the hand empty;
\* start-up is entered only from start-up.
LEMMA MoveOnKeeps ==
  ASSUME HandOK, MoveOn
  PROVE  /\ UNCHANGED <<active, slot>>
         /\ hand.run = NoRun /\ hand'.run = NoRun
         /\ pc' \notin Handling /\ (pc' \in Starting => pc \in Starting)
<1> USE DEF HandOK, Handling, Starting, NoHand, trackVars, busVars, memVars, histVars,
     envVars
<1>1. ASSUME Start \/ SweepOrphans \/ ClearLocks \/ Tick \/ EndCollect \/ EndReap
      PROVE  /\ UNCHANGED <<active, slot, hand>> /\ pc \notin Handling
             /\ pc' \notin Handling /\ (pc' \in Starting => pc \in Starting)
  BY <1>1 DEF Start, SweepOrphans, ClearLocks, Tick, EndCollect, EndReap
<1>2. ASSUME BeginDispatch \/ EndDispatch
      PROVE  /\ UNCHANGED <<active, slot, hand>> /\ pc \notin Handling
             /\ pc' \notin Handling /\ pc' \notin Starting
  BY <1>2 DEF BeginDispatch, EndDispatch
<1>3. ASSUME (\E t \in Task : RequeueWrite(t)) \/ RequeueClean
      PROVE  /\ UNCHANGED <<active, slot>> /\ pc \notin Handling
             /\ hand'.run = NoRun /\ pc' \notin Handling /\ pc' \notin Starting
  BY <1>3 DEF RequeueWrite, RequeueClean
<1> QED
  BY <1>1, <1>2, <1>3 DEF MoveOn

\* Two tracked runs in one slot directory are the same run: the directory names one.
LEMMA SlotsDistinct ==
  ASSUME Owned, NEW t \in Active, NEW u \in Active, active[t].slot = active[u].slot
  PROVE  t = u
<1>1. OwnedBy(t) = OwnedBy(u)
  BY DEF Owned
<1> QED
  BY <1>1 DEF OwnedBy

\* Every step keeps slots owned: a release frees only slots of runs that leave the
\* table, recovery runs only while the table is empty, a claim takes a free slot.
LEMMA SlotStep ==
  ASSUME SlotInv, [Next]_vars
  PROVE  HandOK' /\ Untracked' /\ Owned'
<1> USE DEF SlotInv
<1>a. pc \notin Handling => ~InHand
  BY DEF HandOK, InHand
<1>b. pc \in Handling => InHand /\ hand.task \in Task /\ hand.run.slot \in Slot
  BY DEF HandOK, InHand, NoRun, Slot
<1>1. CASE Aside
  BY <1>1, AsideKeeps DEF HandOK, Untracked, Owned, Active, InHand
<1>2. CASE MoveOn
  BY <1>2, MoveOnKeeps DEF HandOK, Untracked, Owned, Active, InHand
<1>3. CASE RecoverSlots
  <2>1. /\ Active = {} /\ ~InHand /\ UNCHANGED <<active, hand>>
        /\ pc = "recover_slots" /\ pc' = "orphans"
    BY <1>a, <1>3 DEF RecoverSlots, Untracked, Starting, Handling
  <2> QED
    BY <2>1 DEF HandOK, Handling, Untracked, Owned, Active, InHand
<1>4. CASE ProcessCancels
  <2>1. pc = "cancel" /\ pc' = "collect" /\ hand' = hand /\ ~InHand /\ hand.run = NoRun
    BY <1>a, <1>4 DEF ProcessCancels, InHand, Handling
  <2>2. ASSUME NEW t \in Active' 
        PROVE  t \in Active /\ t \notin signal /\ active'[t] = active[t]
    BY <1>4, <2>2 DEF ProcessCancels, Active, TypeOK
  <2>3. ASSUME NEW t \in Active'
        PROVE  slot'[active[t].slot] = slot[active[t].slot] /\ active[t].slot \in Slot
    <3>1. \A u \in signal \cap Active : active[u].slot # active[t].slot
      BY <2>2, <2>3, SlotsDistinct
    <3> QED
      BY <1>4, <2>2, <2>3, <3>1 DEF ProcessCancels, FreeSlots, Owned
  <2> QED
    BY <2>1, <2>2, <2>3 DEF HandOK, Handling, Untracked, Starting, Owned, InHand
<1>5. ASSUME NEW t \in Task, Collect(t)
      PROVE  HandOK' /\ Untracked' /\ Owned'
  <2>1. /\ t \in Active /\ pc' = "cleanup" /\ slot' = slot
        /\ hand' = [task |-> t, run |-> active[t]]
        /\ active' = [active EXCEPT ![t] = NoRun]
    BY <1>5 DEF Collect, trackVars
  <2>2. \A u \in Active' : u \in Active /\ u # t /\ active'[u] = active[u]
    BY <2>1 DEF Active, TypeOK
  <2>3. \A u \in Active' : active[u].slot # active[t].slot
    BY <2>1, <2>2, SlotsDistinct
  <2> QED
    BY <2>1, <2>2, <2>3 DEF HandOK, Handling, Untracked, Starting, Owned, InHand
<1>6. CASE Cleanup \/ SpawnRefused
  <2>1. /\ pc \in Handling /\ pc' \in {"collect", "dispatch"} /\ hand' = NoHand
        /\ UNCHANGED active /\ slot' = FreeSlots({hand.run.slot})
    BY <1>6 DEF Cleanup, SpawnRefused, Handling
  <2>2. InHand
    BY <1>b, <2>1
  <2>3. \A u \in Active : slot'[active[u].slot] = slot[active[u].slot]
    BY <2>1, <2>2 DEF FreeSlots, Owned
  <2> QED
    BY <2>1, <2>2, <2>3 DEF HandOK, Handling, Untracked, Starting, Owned, InHand, NoHand,
                            Active
<1>7. ASSUME NEW t \in Task, Reap(t)
      PROVE  HandOK' /\ Untracked' /\ Owned'
  <2>1. /\ pc = "reap" /\ UNCHANGED <<pc, hand>> /\ ~InHand
        /\ active' = [active EXCEPT ![t] = NoRun]
        /\ slot' = IF t \in Active THEN FreeSlots({active[t].slot}) ELSE slot
    BY <1>a, <1>7 DEF Reap, Handling
  <2>2. \A u \in Active' : u \in Active /\ u # t /\ active'[u] = active[u]
    BY <2>1 DEF Active, TypeOK
  <2>3. \A u \in Active' : slot'[active[u].slot] = slot[active[u].slot]
    BY <2>1, <2>2, SlotsDistinct DEF FreeSlots, Owned
  <2> QED
    BY <2>1, <2>2, <2>3 DEF HandOK, Handling, Untracked, Starting, Owned, InHand
<1>8. ASSUME NEW t \in Task, Claim(t)
      PROVE  HandOK' /\ Untracked' /\ Owned'
  <2>1. /\ pc = "dispatch" /\ pc' = "spawn" /\ UNCHANGED active /\ Occupied # Slot
        /\ hand'.task = t /\ hand'.run.slot = LowestFree
        /\ slot' = [slot EXCEPT ![LowestFree] = OwnedBy(t)]
    BY <1>8 DEF Claim, NoRoom
  <2>2. LowestFree \in Slot /\ slot[LowestFree].free
    BY <2>1, LowestFreeIsFree DEF Occupied
  <2>3. slot'[LowestFree] = OwnedBy(t)
    BY <2>1, <2>2 DEF TypeOK
  <2>4. \A u \in Active : active[u].slot # LowestFree
    <3>1. slot[LowestFree].free = TRUE
      BY <2>2 DEF TypeOK, SlotState
    <3>2. \A u \in Active : slot[active[u].slot] = OwnedBy(u)
      BY DEF Owned
    <3>3. \A u \in Active : OwnedBy(u).free = FALSE
      BY DEF OwnedBy
    <3> QED
      BY <3>1, <3>2, <3>3
  <2>5. \A u \in Active : slot'[active[u].slot] = slot[active[u].slot]
    BY <2>1, <2>4 DEF Owned, TypeOK
  <2> QED
    BY <2>1, <2>2, <2>3, <2>4, <2>5
    DEF HandOK, Handling, Untracked, Starting, Owned, InHand, Active
<1>9. CASE Spawn
  <2>1. /\ pc = "spawn" /\ pc' = "register" /\ UNCHANGED <<active, slot>>
        /\ hand.task \in Task /\ hand.run.slot \in Slot /\ InHand
    BY <1>b, <1>9 DEF Spawn, trackVars, Handling
  <2>2. hand'.task = hand.task /\ hand'.run.slot = hand.run.slot
    <3>1. PICK p \in Pid : hand' = [hand EXCEPT !.run.pid = p,
                                                !.run.attempt = attempts[hand.task] + 1]
      BY <1>9 DEF Spawn
    <3>2. hand \in [task : Task \cup {NoTask}, run : RunType] /\ hand.run \in RunType
      BY DEF TypeOK
    <3>3. hand' = [hand EXCEPT !.run = [hand.run EXCEPT !.pid = p,
                                               !.attempt = attempts[hand.task] + 1]]
      BY <3>1, <3>2 DEF RunType
    <3> QED
      BY <3>2, <3>3 DEF RunType
  <2> QED
    BY <2>1, <2>2 DEF HandOK, Handling, Untracked, Starting, Owned, InHand, Active
<1>10. CASE Register
  <2>1. /\ pc' = "dispatch" /\ UNCHANGED slot /\ hand' = NoHand
        /\ hand.task \in Task /\ hand.run.slot \in Slot /\ InHand
        /\ active' = [active EXCEPT ![hand.task] = hand.run]
    BY <1>b, <1>10 DEF Register, Handling
  <2>2. active'[hand.task] = hand.run
    BY <2>1 DEF TypeOK
  <2>3. \A u \in Active' : u # hand.task => u \in Active /\ active'[u] = active[u]
    BY <2>1 DEF Active, TypeOK
  <2> QED
    BY <2>1, <2>2, <2>3 DEF HandOK, Handling, Untracked, Starting, Owned, InHand, NoHand
<1>11. CASE Crash
  <2>1. pc' = "down" /\ hand' = NoHand /\ Active' = {}
    BY <1>11 DEF Crash, Active
  <2> QED
    BY <2>1 DEF HandOK, Handling, Untracked, Owned, InHand, NoHand
<1> QED
  BY <1>1, <1>2, <1>3, <1>4, <1>5, <1>6, <1>7, <1>8, <1>9, <1>10, <1>11
  DEF Next, Loop, World, Aside, MoveOn

-----------------------------------------------------------------------------
(* Project locks.  A release looks at no owner, so a worktree task, which  *)
(* takes no lock, frees that of its project.  Where no project mixes both  *)
(* kinds of task, each lock names the one task that runs in its project.   *)

NoMixedProjects ==
  \A t \in Worktree : \A u \in Task \ Worktree : ProjectOf[t] # ProjectOf[u]

Locked ==
  /\ \A t \in Task \ Worktree : Holds(t) => lock[ProjectOf[t]] = t
  /\ InHand /\ hand.task \notin Worktree => hand.task \notin Active

\* Releasing the locks of some runs leaves the locks of all the others alone.
LEMMA ReleaseIsLocal ==
  ASSUME NoMixedProjects, TypeOK, Locked,
         NEW T \in SUBSET Task, \A t \in T : Holds(t),
         NEW u \in Task \ Worktree, Holds(u), u \notin T,
         lock' = Unlocked({ProjectOf[t] : t \in T})
  PROVE  lock'[ProjectOf[u]] = u
<1> USE ConstantsAssumption DEF ConstantsAssumption
<1>1. \A t \in T : ProjectOf[t] # ProjectOf[u]
  <2> SUFFICES ASSUME NEW t \in T, ProjectOf[t] = ProjectOf[u] PROVE FALSE
    OBVIOUS
  <2>1. CASE t \in Worktree
    BY <2>1 DEF NoMixedProjects
  <2>2. CASE t \notin Worktree
    BY <2>2 DEF Locked
  <2> QED
    BY <2>1, <2>2
<1>2. ProjectOf[u] \in Project /\ ProjectOf[u] \notin {ProjectOf[t] : t \in T}
  BY <1>1
<1> QED
  BY <1>2 DEF Unlocked, Locked

\* Every step keeps the lock of each project with its one tracked task, start-up
\* clearing (which meets an empty table) included.
LEMMA LockStep ==
  ASSUME NoMixedProjects, SlotInv, Locked, [Next]_vars
  PROVE  Locked'
<1> USE DEF SlotInv
<1>a. pc \notin Handling => ~InHand
  BY DEF HandOK, InHand
<1>b. pc \in Handling => InHand /\ hand.task \in Task
  BY DEF HandOK, InHand, NoRun, Slot
<1>1. CASE Aside
  BY <1>1, AsideKeeps DEF Locked, Holds, Active, InHand
<1>2. CASE MoveOn
  <2>1. UNCHANGED active /\ ~InHand /\ ~InHand'
    BY <1>2, MoveOnKeeps DEF InHand
  <2>2. UNCHANGED lock \/ Active = {}
    BY <1>2 DEF MoveOn, Start, SweepOrphans, ClearLocks, Tick, EndCollect, EndReap,
                RequeueWrite, RequeueClean, BeginDispatch, EndDispatch, trackVars,
                Untracked, Starting
  <2> QED
    BY <2>1, <2>2 DEF Locked, Holds, Active
<1>3. CASE RecoverSlots
  BY <1>a, <1>3 DEF RecoverSlots, Handling, Locked, Holds, Active, InHand
<1>4. CASE ProcessCancels
  <2> DEFINE hit == signal \cap Active
  <2>1. /\ ~InHand /\ ~InHand'
        /\ lock' = Unlocked({ProjectOf[t] : t \in hit})
    BY <1>a, <1>4 DEF ProcessCancels, Handling, InHand
  <2>2. \A u \in Active' : u \in Active /\ u \notin hit
    BY <1>4 DEF ProcessCancels, Active, TypeOK
  <2>3. hit \in SUBSET Task /\ \A t \in hit : Holds(t)
    BY DEF Active, Holds
  <2>4. ASSUME NEW u \in Task \ Worktree, Holds(u)' PROVE lock'[ProjectOf[u]] = u
    <3>1. Holds(u) /\ u \notin hit
      BY <2>1, <2>2, <2>4 DEF Holds
    <3> HIDE DEF hit
    <3> QED
      BY <2>1, <2>3, <2>4, <3>1, ReleaseIsLocal
  <2> QED
    BY <2>1, <2>4 DEF Locked
<1>5. ASSUME NEW t \in Task, Collect(t) PROVE Locked'
  <2>1. /\ t \in Active /\ ~InHand /\ UNCHANGED lock
        /\ hand' = [task |-> t, run |-> active[t]]
        /\ active' = [active EXCEPT ![t] = NoRun]
    BY <1>a, <1>5 DEF Collect, trackVars, Handling
  <2>2. \A u \in Active' : u \in Active /\ u # t
    BY <2>1 DEF Active, TypeOK
  <2> QED
    BY <2>1, <2>2 DEF Locked, Holds, InHand
<1>6. CASE Cleanup \/ SpawnRefused
  <2>1. /\ UNCHANGED active /\ InHand /\ ~InHand' /\ hand.task \in Task
        /\ lock' = Unlocked({ProjectOf[t] : t \in {hand.task}})
    BY <1>b, <1>6 DEF Cleanup, SpawnRefused, Handling, InHand, NoHand
  <2>2. ASSUME NEW u \in Task \ Worktree, Holds(u)' PROVE lock'[ProjectOf[u]] = u
    <3>1. u \in Active /\ u # hand.task
      BY <2>1, <2>2 DEF Holds, Active, Locked
    <3>2. Holds(u) /\ \A t \in {hand.task} : Holds(t)
      BY <2>1, <3>1 DEF Holds
    <3> QED
      BY <2>1, <3>1, <3>2, ReleaseIsLocal
  <2> QED
    BY <2>1, <2>2 DEF Locked
<1>7. ASSUME NEW t \in Task, Reap(t) PROVE Locked'
  <2>1. /\ ~InHand /\ ~InHand' /\ active' = [active EXCEPT ![t] = NoRun]
        /\ lock' = IF t \in Active THEN Unlocked({ProjectOf[s] : s \in {t}}) ELSE lock
    BY <1>a, <1>7 DEF Reap, Handling, InHand
  <2>2. ASSUME NEW u \in Task \ Worktree, Holds(u)' PROVE lock'[ProjectOf[u]] = u
    <3>1. u \in Active /\ u # t /\ Holds(u)
      BY <2>1, <2>2 DEF Holds, Active, TypeOK
    <3>2. CASE t \in Active
      <4>1. \A s \in {t} : Holds(s)
        BY <3>2 DEF Holds
      <4> QED
        BY <2>1, <3>1, <3>2, <4>1, ReleaseIsLocal
    <3>3. CASE t \notin Active
      BY <2>1, <3>1, <3>3 DEF Locked
    <3> QED
      BY <3>2, <3>3
  <2> QED
    BY <2>1, <2>2 DEF Locked
<1>8. ASSUME NEW t \in Task, Claim(t) PROVE Locked'
  <2>1. /\ ~InHand /\ UNCHANGED active /\ hand'.task = t
        /\ t \in Worktree => UNCHANGED lock
        /\ t \notin Worktree => /\ lock[ProjectOf[t]] = NoTask
                                /\ lock' = [lock EXCEPT ![ProjectOf[t]] = t]
    BY <1>a, <1>8 DEF Claim, Handling, LockFree
  <2>2. \A u \in Task \ Worktree :
          u \in Active /\ t \notin Worktree => ProjectOf[u] # ProjectOf[t] /\ u # t
    BY <2>1, ConstantsAssumption DEF ConstantsAssumption, Locked, Holds
  <2>3. t \notin Worktree => lock'[ProjectOf[t]] = t
    BY <2>1, ConstantsAssumption DEF ConstantsAssumption, TypeOK
  <2>4. \A u \in Task \ Worktree : u \in Active => lock'[ProjectOf[u]] = u
    BY <2>1, <2>2, ConstantsAssumption DEF ConstantsAssumption, TypeOK, Locked, Holds
  <2> QED
    BY <2>1, <2>2, <2>3, <2>4 DEF Locked, Holds, Active
<1>9. CASE Spawn \/ Register
  <2>1. InHand /\ hand.task \in Task /\ UNCHANGED lock
    BY <1>b, <1>9 DEF Spawn, Register, Handling, trackVars
  <2>2. CASE Spawn
    <3>1. UNCHANGED active /\ hand'.task = hand.task
      BY <2>2 DEF Spawn, TypeOK
    <3> QED
      BY <2>1, <3>1 DEF Locked, Holds, Active
  <2>3. CASE Register
    <3>1. ~InHand' /\ active' = [active EXCEPT ![hand.task] = hand.run]
      BY <2>3 DEF Register, InHand, NoHand
    <3>2. \A u \in Active' : u \in Active \/ u = hand.task
      BY <3>1 DEF Active, TypeOK
    <3> QED
      BY <2>1, <3>1, <3>2 DEF Locked, Holds
  <2> QED
    BY <1>9, <2>2, <2>3
<1>10. CASE Crash
  <2>1. ~InHand' /\ Active' = {}
    BY <1>10 DEF Crash, Active, InHand, NoHand
  <2> QED
    BY <2>1 DEF Locked, Holds
<1> QED
  BY <1>1, <1>2, <1>3, <1>4, <1>5, <1>6, <1>7, <1>8, <1>9, <1>10
  DEF Next, Loop, World, Aside, MoveOn

-----------------------------------------------------------------------------
(* Theorems                                                                *)

\* The conjunction of types, hand and slot ownership is an inductive invariant.
LEMMA SlotInvariant == Spec => []SlotInv
<1>1. Init => SlotInv
  <2>1. Init => Untracked /\ Owned
    BY DEF Init, Untracked, Owned, Active, InHand, NoHand
  <2> QED
    BY <2>1, InitTypes DEF SlotInv
<1>2. SlotInv /\ [Next]_vars => SlotInv'
  BY SlotStep, TypeStep DEF SlotInv
<1> QED
  BY <1>1, <1>2, PTL DEF Spec

\* Every table, file and counter of the daemon keeps its type; in particular the
\* loop never indexes its tables with a task or slot that is not one.
THEOREM TypeCorrect == Spec => []TypeOK
<1>1. SlotInv => TypeOK
  BY DEF SlotInv
<1> QED
  BY <1>1, SlotInvariant, PTL

\* Whatever crashes, cancels, sweeps and retries came before, a tracked run and the
\* run being handled own the slot they work in (acquire, record_owner, release,
\* recover_stale), for any number of tasks and slots.
THEOREM SlotsAreOwned == Spec => []SlotsOwned
<1>1. SlotInv => SlotsOwned
  BY DEF SlotInv, Owned, SlotsOwned
<1> QED
  BY <1>1, SlotInvariant, PTL

\* The daemon never tracks two tasks of one project, provided no project has both
\* worktree tasks and others: the most that ProjectLock's release supports.
THEOREM ProjectsAreExclusive ==
  ASSUME NoMixedProjects
  PROVE  Spec => []ActiveExclusive
<1>1. Init => Locked
  BY DEF Init, Locked, Holds, Active, InHand, NoHand
<1>2. SlotInv /\ Locked /\ [Next]_vars => Locked'
  BY LockStep
<1>3. Locked => ActiveExclusive
  BY DEF Locked, ActiveExclusive
<1> QED
  BY <1>1, <1>2, <1>3, SlotInvariant, PTL DEF Spec
=============================================================================
