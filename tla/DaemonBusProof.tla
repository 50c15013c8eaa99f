---------------------------- MODULE DaemonBusProof ----------------------------
(***************************************************************************)
(* Daemon implements Bus, for any tasks, projects, slots and environment.  *)
(***************************************************************************)
EXTENDS DaemonBus, DaemonRunsProof

-----------------------------------------------------------------------------
(* The invariant                                                           *)

\* What a collected run, or one whose daemon died, leaves to be cleaned up: its process
\* is gone.
StartUp  == {"down", "recover_slots", "orphans"}
Ended(t) == ~PidAlive(pidfile[t]) /\ (pc \in StartUp \/ (pc = "cleanup" /\ hand.task = t))

\* A run at work is that of a claimed task, and its pid file names its process.
Carried(t) ==
  /\ t \in Active \/ (pc \in Handling /\ hand.task = t) => t \in cur
  /\ t \in Active => active[t].pid \in Pid /\ pidfile[t] = active[t].pid
  /\ pc \in Handling /\ hand.task = t => t \notin Active

\* A task is in one place: claimed, queued, to be repeated or over.  A claim outlives the
\* outcome until it is cleaned up, a retry file its queue file until the pass removes it
\* (and no scan of the queue sees both).
Resting(t) ==
  /\ t \in cur /\ lane[t] # "none" => MaxRetries > 0 /\ pc = "cleanup" /\ hand.task = t
  /\ t \in cur /\ (retry[t] # "none" \/ t \in done) => Ended(t)
  /\ t \in done => lane[t] = "none" /\ retry[t] = "none"
  /\ lane[t] # "none" /\ retry[t] # "none" => retry[t] = "due" /\ t \notin scan
  /\ MaxRetries = 0 /\ t \in dead =>
       lane[t] = "none" /\ retry[t] = "none" /\ (t \in cur => Ended(t))

\* Every claimed task occupies a slot, until a restart has found its process gone.
Housed(t) ==
  t \in cur => (\E s \in Slot : slot[s] = OwnedBy(t)) \/ (pc \in StartUp /\ ~PidAlive(pidfile[t]))

\* What the loop holds between its steps.
LoopInv ==
  /\ scan # {} => pc \in {"dispatch", "spawn", "register"}
  /\ pc = "register" => hand.run.pid \in Pid
  /\ pc = "requeue" => hand.task \in Task /\ (lane[hand.task] # "none" \/ MaxCancels > 0)
  /\ MaxRetries = 0 => erasing = {} /\ (pc = "cleanup" => Settled(hand.task))

PlacesInv == LoopInv /\ \A t \in Task : Carried(t) /\ Resting(t) /\ Housed(t)

\* With the invariants of a life without crashes where there is none, and those of the
\* other modules.
BusInv ==
  /\ SlotInv /\ Known /\ PlacesInv
  /\ MaxCrashes = 0 => SingleInv /\ Locked

-----------------------------------------------------------------------------
(* Steps of the daemon as steps of the bus                                 *)

States == [t \in Task |-> StateOf(t)]

\* The state of a task has one of the seven values, each for its own reason.
LEMMA StateMeans ==
  ASSUME NEW t \in Task
  PROVE  /\ StateOf(t) \in Promise!TaskState
         /\ t \in cur <=> StateOf(t) = "running"
         /\ t \notin cur /\ lane[t] # "none" <=> StateOf(t) = "queued"
         /\ t \notin cur /\ lane[t] = "none" /\ retry[t] # "none" <=> StateOf(t) = "waiting"
         /\ t \notin cur /\ lane[t] = "none" /\ retry[t] = "none" /\ t \in done
              <=> StateOf(t) = "done"
         /\ t \notin cur /\ lane[t] = "none" /\ retry[t] = "none" /\ t \notin done /\ t \in dead
              <=> StateOf(t) = "dead"
         /\ t \notin cur /\ lane[t] = "none" /\ ~Settled(t) <=> StateOf(t) = "absent"
<1>1. CASE t \in cur
  BY <1>1 DEF StateOf, Promise!TaskState, Promise!Outcome, Settled
<1>2. CASE t \notin cur /\ lane[t] # "none"
  BY <1>2 DEF StateOf, Promise!TaskState, Promise!Outcome, Settled
<1>3. CASE t \notin cur /\ lane[t] = "none" /\ retry[t] # "none"
  BY <1>3 DEF StateOf, Promise!TaskState, Promise!Outcome, Settled
<1>4. CASE t \notin cur /\ lane[t] = "none" /\ retry[t] = "none"
  BY <1>4 DEF StateOf, Promise!TaskState, Promise!Outcome, Settled
<1> QED
  BY <1>1, <1>2, <1>3, <1>4

\* If one task moves between two states and the others stay, the bus sees that move.
LEMMA OneMoves ==
  ASSUME NEW t \in Task, \A u \in Task \ {t} : StateOf(u)' = StateOf(u),
         NEW from, NEW to, StateOf(t) \in from, StateOf(t)' \in to
  PROVE  Promise!Become(t, from, to)
<1>1. States' = [States EXCEPT ![t] = StateOf(t)']
  BY DEF States
<1>2. States[t] \in from
  BY DEF States
<1> QED
  BY <1>1, <1>2 DEF Promise!Become, States

\* If no task moves, the bus stutters.
LEMMA NoneMoves ==
  ASSUME \A u \in Task : StateOf(u)' = StateOf(u)
  PROVE  States' = States
  BY DEF States

\* If some claimed tasks end at once, with an outcome or to be repeated, and the others
\* stay, the bus sees them finish.
LEMMA SomeFinish ==
  ASSUME NEW T \in SUBSET cur, T \subseteq Task,
         \A u \in Task \ T : StateOf(u)' = StateOf(u),
         \A u \in T : StateOf(u)' \in {"done", "failed", "dead", "waiting"}
  PROVE  Promise!Next \/ States' = States
<1>1. CASE T = {}
  BY <1>1, NoneMoves
<1>2. CASE T # {}
  <2> DEFINE end == [u \in T |-> StateOf(u)']
  <2>1. end \in [T -> Promise!Outcome \cup {"waiting"}]
    BY DEF Promise!Outcome
  <2>2. States' = [u \in Task |-> IF u \in T THEN end[u] ELSE States[u]]
    BY DEF States
  <2>3. T \subseteq Promise!InState("running")
    BY StateMeans DEF Promise!InState
  <2>4. Promise!Finish(T)
    BY <2>1, <2>2, <2>3 DEF Promise!Finish, States
  <2> QED
    BY <1>2, <2>4 DEF Promise!Next
<1> QED
  BY <1>1, <1>2

\* Moves of one task that the bus allows, whoever makes them.
LEMMA MoveAllowed ==
  ASSUME NEW t \in Task, \A u \in Task \ {t} : StateOf(u)' = StateOf(u),
         \/ StateOf(t)' = StateOf(t)
         \/ StateOf(t) = "running" /\ StateOf(t)' \in {"done", "failed", "dead", "waiting"}
         \/ StateOf(t) = "absent" /\ StateOf(t)' = "queued"
         \/ StateOf(t) = "waiting" /\ StateOf(t)' = "queued"
         \/ /\ MaxCancels > 0 /\ StateOf(t) = "queued"
            /\ StateOf(t)' \in {"absent", "waiting"} \cup Promise!Leftover
         \/ /\ MaxCancels > 0 /\ StateOf(t) = "waiting"
            /\ StateOf(t)' \in {"absent"} \cup Promise!Leftover
         \/ /\ MaxRetries > 0 /\ StateOf(t) \in {"failed", "dead", "running"}
            /\ StateOf(t)' \in {"queued", "absent"}
  PROVE  Promise!Next \/ States' = States
<1>1. CASE StateOf(t)' = StateOf(t)
  BY <1>1, NoneMoves
<1>2. CASE StateOf(t) = "running" /\ StateOf(t)' \in {"done", "failed", "dead", "waiting"}
  <2>1. t \in cur
    BY <1>2, StateMeans
  <2> QED
    BY <1>2, <2>1, SomeFinish
<1>3. CASE StateOf(t) = "absent" /\ StateOf(t)' = "queued"
  <2>1. Promise!Submit(t)
    BY <1>3, OneMoves DEF Promise!Submit
  <2> QED
    BY <2>1 DEF Promise!Next, Promise!TaskNext
<1>4. CASE StateOf(t) = "waiting" /\ StateOf(t)' = "queued"
  <2>1. Promise!Requeue(t)
    BY <1>4, OneMoves DEF Promise!Requeue
  <2> QED
    BY <2>1 DEF Promise!Next, Promise!TaskNext
<1>5. CASE /\ MaxCancels > 0 /\ StateOf(t) = "queued"
           /\ StateOf(t)' \in {"absent", "waiting"} \cup Promise!Leftover
  <2>1. Promise!Become(t, {"queued"}, {"absent", "waiting"} \cup Promise!Leftover)
    BY <1>5, OneMoves
  <2>2. Promise!Cancel(t)
    BY <1>5, <2>1 DEF Promise!Cancel
  <2> QED
    BY <2>2 DEF Promise!Next, Promise!TaskNext
<1>6. CASE /\ MaxCancels > 0 /\ StateOf(t) = "waiting"
           /\ StateOf(t)' \in {"absent"} \cup Promise!Leftover
  <2>1. Promise!Become(t, {"waiting"}, {"absent"} \cup Promise!Leftover)
    BY <1>6, OneMoves
  <2>2. Promise!Withdraw(t)
    BY <1>6, <2>1 DEF Promise!Withdraw
  <2> QED
    BY <2>2 DEF Promise!Next, Promise!TaskNext
<1>7. CASE /\ MaxRetries > 0 /\ StateOf(t) \in {"failed", "dead", "running"}
           /\ StateOf(t)' \in {"queued", "absent"}
  <2>1. CASE StateOf(t)' = "queued"
    <3>1. Promise!Become(t, {"failed", "dead", "running"}, {"queued"})
      BY <1>7, <2>1, OneMoves
    <3>2. Promise!Again(t)
      BY <1>7, <3>1 DEF Promise!Again
    <3> QED
      BY <3>2 DEF Promise!Next, Promise!TaskNext
  <2>2. CASE StateOf(t)' = "absent"
    <3>1. Promise!Become(t, {"failed", "dead", "running"}, {"absent"})
      BY <1>7, <2>2, OneMoves
    <3>2. Promise!Lose(t)
      BY <1>7, <3>1 DEF Promise!Lose
    <3> QED
      BY <3>2 DEF Promise!Next, Promise!TaskNext
  <2> QED
    BY <1>7, <2>1, <2>2
<1> QED
  BY <1>1, <1>2, <1>3, <1>4, <1>5, <1>6, <1>7

\* A step that writes nothing of the bus directories.
LEMMA BusUntouched ==
  ASSUME UNCHANGED <<lane, cur, done, failed, dead, retry>>
  PROVE  States' = States
<1>1. \A u \in Task : StateOf(u)' = StateOf(u)
  BY DEF StateOf
<1> QED
  BY <1>1, NoneMoves

\* Bus counts as Daemon does.
LEMMA SameCardinality ==
  ASSUME NEW S
  PROVE  Promise!Cardinality(S) = Cardinality(S)
  BY DEF Promise!Cardinality, Cardinality

\* Claimed tasks occupy slots of their own, so a free slot is room on the bus.
LEMMA RoomOnTheBus ==
  ASSUME SlotInv, \A t \in Task : Housed(t), pc = "dispatch", ~NoRoom
  PROVE  Cardinality(cur) < MaxSlots
<1> DEFINE S == {s \in Slot : \E t \in cur : slot[s] = OwnedBy(t)}
<1>1. MaxSlots \in Nat
  BY ConstantsAssumption DEF ConstantsAssumption
<1>2. IsFiniteSet(Slot) /\ Cardinality(Slot) = MaxSlots
  BY <1>1, FS_Interval DEF Slot
<1>3. S \subseteq Occupied /\ Occupied \subseteq Slot /\ Occupied # Slot
  <2>1. ASSUME NEW s \in S PROVE s \in Occupied
    <3>1. PICK t \in cur : slot[s] = OwnedBy(t)
      OBVIOUS
    <3>2. ~slot[s].free
      BY <3>1 DEF OwnedBy
    <3> QED
      BY <3>2 DEF Occupied
  <2> QED
    BY <2>1 DEF Occupied, NoRoom
<1>4. IsFiniteSet(S) /\ Cardinality(S) <= Cardinality(Occupied) /\ Cardinality(Occupied) < MaxSlots
  <2> HIDE DEF S
  <2>1. IsFiniteSet(Occupied) /\ Cardinality(Occupied) <= Cardinality(Slot)
        /\ Cardinality(Occupied) # Cardinality(Slot)
    BY <1>2, <1>3, FS_Subset
  <2>2. IsFiniteSet(S) /\ Cardinality(S) <= Cardinality(Occupied)
    BY <1>3, <2>1, FS_Subset
  <2>3. Cardinality(Occupied) \in Nat
    BY <2>1, FS_CardinalityType
  <2> QED
    BY <1>1, <1>2, <2>1, <2>2, <2>3
<1>5. \A t \in cur : \E s \in S : slot[s].owner = t
  <2> TAKE t \in cur
  <2>1. t \in Task /\ Housed(t)
    BY DEF SlotInv, TypeOK
  <2>2. PICK s \in Slot : slot[s] = OwnedBy(t)
    BY <2>1 DEF Housed, StartUp
  <2>3. slot[s].owner = t
    BY <2>2 DEF OwnedBy
  <2>4. s \in S
    BY <2>2
  <2> QED
    BY <2>3, <2>4
<1> DEFINE f == [s \in S |-> slot[s].owner]
<1>6. \A s \in S : slot[s].owner \in cur
  <2> TAKE s \in S
  <2>1. PICK t \in cur : slot[s] = OwnedBy(t)
    OBVIOUS
  <2> QED
    BY <2>1 DEF OwnedBy
<1>7. f \in [S -> cur] /\ \A t \in cur : \E s \in S : f[s] = t
  <2> HIDE DEF S
  <2> QED
    BY <1>5, <1>6
<1>8. f \in Surjection(S, cur)
  BY <1>7 DEF Surjection
<1>9. Cardinality(cur) <= Cardinality(S)
  <2> HIDE DEF S, f
  <2> QED
    BY <1>4, <1>8, FS_Surjection
<1>10. IsFiniteSet(cur) /\ IsFiniteSet(Occupied)
  <2> HIDE DEF S, f
  <2> QED
    BY <1>2, <1>3, <1>4, <1>8, FS_Surjection, FS_Subset
<1>11. /\ Cardinality(cur) \in Nat /\ Cardinality(S) \in Nat
       /\ Cardinality(Occupied) \in Nat
  BY <1>4, <1>10, FS_CardinalityType
<1> QED
  BY <1>1, <1>4, <1>9, <1>11

\* A claim starts a task whose dependencies are done, within the slots and, where the
\* daemon does not crash, beside no task of its project.
LEMMA ClaimStarts ==
  ASSUME BusInv, NEW t \in Task, Claim(t)
  PROVE  Promise!Next
<1> USE DEF BusInv, PlacesInv
<1>1. /\ pc = "dispatch" /\ ~NoRoom /\ DepsReady(t) /\ LockFree(t) /\ lane[t] # "none"
      /\ lane' = [lane EXCEPT ![t] = "none"] /\ cur' = cur \cup {t}
      /\ UNCHANGED <<done, failed, dead, retry>>
  BY DEF Claim
<1>2. \A u \in Task \ {t} : StateOf(u)' = StateOf(u)
  BY <1>1 DEF StateOf, SlotInv, TypeOK
<1>3. t \notin cur
  BY <1>1 DEF Resting
<1>4. StateOf(t) = "queued" /\ StateOf(t)' = "running"
  BY <1>1, <1>3 DEF StateOf
<1>5. Promise!Become(t, {"queued"}, {"running"})
  BY <1>2, <1>4, OneMoves
<1>6. Promise!Ready(t)
  <2> SUFFICES ASSUME NEW u \in DependsOn[t] PROVE u \in Task /\ StateOf(u) = "done"
    BY DEF Promise!Ready
  <2>1. u \in Task /\ u \in done
    BY <1>1, ConstantsAssumption DEF ConstantsAssumption, DepsReady
  <2>2. lane[u] = "none" /\ retry[u] = "none" /\ u \notin cur
    BY <1>1, <2>1 DEF Resting, Ended, StartUp
  <2> QED
    BY <2>1, <2>2 DEF StateOf
<1>7. Promise!InState("running") = cur
  BY StateMeans DEF Promise!InState, SlotInv, TypeOK
<1>8. Cardinality(Promise!InState("running")) < MaxSlots
  BY <1>1, <1>7, RoomOnTheBus
<1>9. \/ MaxCrashes > 0 \/ t \in Worktree
      \/ \A u \in Promise!InState("running") \ Worktree : ProjectOf[u] # ProjectOf[t]
  <2> SUFFICES ASSUME ~(MaxCrashes > 0), t \notin Worktree, NEW u \in cur \ Worktree,
                      ProjectOf[u] = ProjectOf[t]
               PROVE  FALSE
    BY <1>7
  <2>1. MaxCrashes = 0
    BY ConstantsAssumption DEF ConstantsAssumption
  <2>2. u \in Task /\ Single(u) /\ Locked
    BY <2>1 DEF SingleInv, SlotInv, TypeOK
  <2>3. Holds(u)
    BY <1>1, <2>2 DEF Single, Working, Starts, Holds
  <2>4. lock[ProjectOf[t]] = u
    BY <2>2, <2>3 DEF Locked
  <2> QED
    BY <1>1, <2>2, <2>4, ConstantsAssumption DEF LockFree, ConstantsAssumption
<1>10. Promise!Startable(t)
  BY <1>6, <1>8, <1>9, SameCardinality DEF Promise!Startable
<1>11. Promise!Start(t)
  BY <1>5, <1>10 DEF Promise!Start
<1> QED
  BY <1>11 DEF Promise!Next, Promise!TaskNext

\* Each step of the daemon, of a process, of a command and of a crash is a step of the bus
\* or none.
LEMMA StepImplements ==
  ASSUME StagingRenames, MaxCrashes = 0 \/ MaxRetries = 0, BusInv, [Next]_vars
  PROVE  Promise!Next \/ States' = States
<1> USE DEF BusInv, PlacesInv
<1>a. /\ MaxCrashes \in Nat /\ MaxRetries \in Nat /\ MaxCancels \in Nat /\ NoTask \notin Task
      /\ cur \subseteq Task
  BY ConstantsAssumption DEF ConstantsAssumption, SlotInv, TypeOK
<1>1. CASE \/ Start \/ RecoverSlots \/ ClearLocks \/ Tick \/ EndCollect \/ EndReap
           \/ BeginDispatch \/ EndDispatch \/ Spawn \/ Register \/ Crash \/ UNCHANGED vars
           \/ (\E t \in Task : Skip(t) \/ HeartbeatAges(t))
           \/ (\E p \in Pid : ProcExit(p)) \/ \E m \in Model : CooldownElapses(m)
  <2>1. UNCHANGED <<lane, cur, done, failed, dead, retry>>
    BY <1>1 DEF Start, RecoverSlots, ClearLocks, Tick, EndCollect, EndReap, BeginDispatch,
       EndDispatch, Spawn, Register, Crash, Skip, HeartbeatAges, ProcExit, CooldownElapses,
       vars, busVars
  <2> QED
    BY <2>1, BusUntouched
<1>2. CASE SweepOrphans
  <2> DEFINE T == {t \in cur : ~PidAlive(pidfile[t])}
  <2>1. /\ failed' = failed \cup T /\ cur' = cur \ T /\ pc = "orphans"
        /\ UNCHANGED <<lane, done, dead, retry>>
    BY <1>2 DEF SweepOrphans, FailOrphans
  <2>2. \A u \in Task \ T : StateOf(u)' = StateOf(u)
    BY <2>1 DEF StateOf
  <2>3. \A u \in T : StateOf(u)' \in {"done", "failed", "dead", "waiting"}
    BY <1>a, <2>1 DEF StateOf, Resting
  <2> QED
    BY <1>a, <2>2, <2>3, SomeFinish
<1>3. CASE ProcessCancels
  <2> DEFINE T == signal \cap Active
  <2>1. /\ failed' = failed \cup T /\ cur' = cur \ T /\ pc = "cancel"
        /\ UNCHANGED <<lane, done, dead, retry>>
    BY <1>3 DEF ProcessCancels, MoveStaging
  <2>2. T \subseteq cur
    BY DEF Carried, Active
  <2>3. \A u \in Task \ T : StateOf(u)' = StateOf(u)
    BY <2>1 DEF StateOf
  <2>4. \A u \in T : StateOf(u)' \in {"done", "failed", "dead", "waiting"}
    BY <1>a, <2>1, <2>2 DEF StateOf, Resting
  <2> QED
    BY <1>a, <2>2, <2>3, <2>4, SomeFinish
<1>4. ASSUME NEW t \in Task, Collect(t) PROVE Promise!Next \/ States' = States
  <2>1. /\ t \in cur /\ UNCHANGED <<lane, cur>>
        /\ \A u \in Task \ {t} : /\ u \in done' <=> u \in done
                                 /\ u \in failed' <=> u \in failed
                                 /\ u \in dead' <=> u \in dead
                                 /\ retry'[u] = retry[u]
    BY <1>4 DEF Collect, MoveStaging, Carried, SlotInv, TypeOK
  <2>2. \A u \in Task : StateOf(u)' = StateOf(u)
    BY <2>1 DEF StateOf
  <2> QED
    BY <2>2, NoneMoves
<1>5. ASSUME NEW t \in Task, Cleanup, hand.task = t PROVE Promise!Next \/ States' = States
  <2>1. /\ pc = "cleanup" /\ t \in Task /\ t \in cur /\ cur' = cur \ {t}
        /\ UNCHANGED <<lane, done, failed, dead, retry>>
    BY <1>5 DEF Cleanup, SlotInv, HandOK, Handling, Carried
  <2>2. \A u \in Task \ {t} : StateOf(u)' = StateOf(u)
    BY <2>1 DEF StateOf
  <2>3. StateOf(t) = "running" /\ StateOf(t)' # "running"
    BY <2>1 DEF StateOf
  <2>4. MaxRetries = 0 => StateOf(t)' \in {"done", "failed", "dead", "waiting"}
    BY <1>5, <2>1 DEF StateOf, LoopInv, Settled, Resting
  <2>5. StateOf(t)' \in {"done", "failed", "dead", "waiting", "queued", "absent"}
    BY <2>1 DEF StateOf
  <2> QED
    BY <1>a, <2>1, <2>2, <2>3, <2>4, <2>5, MoveAllowed
<1>6. ASSUME NEW t \in Task, SpawnRefused, hand.task = t PROVE Promise!Next \/ States' = States
  <2>1. /\ pc = "spawn" /\ t \in Task /\ t \in cur /\ cur' = cur \ {t}
        /\ failed' = failed \cup {t} /\ UNCHANGED <<lane, done, dead, retry>>
    BY <1>6 DEF SpawnRefused, SlotInv, HandOK, Handling, Carried
  <2>2. \A u \in Task \ {t} : StateOf(u)' = StateOf(u)
    BY <2>1 DEF StateOf
  <2>3. StateOf(t) = "running" /\ StateOf(t)' \in {"done", "failed", "dead", "waiting"}
    BY <2>1 DEF StateOf, Resting
  <2> QED
    BY <2>1, <2>2, <2>3, MoveAllowed
<1>7. ASSUME NEW t \in Task, Reap(t) PROVE Promise!Next \/ States' = States
  <2>1. /\ pc = "reap" /\ t \in cur /\ cur' = cur \ {t}
        /\ failed' = failed \cup {t} /\ UNCHANGED <<lane, done, dead, retry>>
    BY <1>7 DEF Reap, Stale, MoveStaging
  <2>2. \A u \in Task \ {t} : StateOf(u)' = StateOf(u)
    BY <2>1 DEF StateOf
  <2>3. StateOf(t) = "running" /\ StateOf(t)' \in {"done", "failed", "dead", "waiting"}
    BY <2>1 DEF StateOf, Resting
  <2> QED
    BY <2>2, <2>3, MoveAllowed
<1>8. ASSUME NEW t \in Task, RequeueWrite(t) PROVE Promise!Next \/ States' = States
  <2>1. /\ pc = "retries" /\ retry[t] = "due" /\ lane' = [lane EXCEPT ![t] = RequeueLane]
        /\ UNCHANGED <<cur, done, failed, dead, retry>>
    BY <1>8 DEF RequeueWrite
  <2>2. \A u \in Task \ {t} : StateOf(u)' = StateOf(u)
    BY <2>1 DEF StateOf, SlotInv, TypeOK
  <2>3. t \notin cur
    BY <2>1 DEF Resting, Ended, StartUp
  <2>4. lane'[t] = "p1"
    BY <2>1 DEF SlotInv, TypeOK, RequeueLane
  <2>5. StateOf(t) \in {"waiting", "queued"} /\ StateOf(t)' = "queued"
    BY <2>1, <2>3, <2>4 DEF StateOf
  <2> QED
    BY <2>2, <2>5, MoveAllowed
<1>9. ASSUME NEW t \in Task, RequeueClean, hand.task = t PROVE Promise!Next \/ States' = States
  <2>1. /\ pc = "requeue" /\ t \in Task /\ retry' = [retry EXCEPT ![t] = "none"]
        /\ UNCHANGED <<lane, cur, done, failed, dead>>
        /\ lane[t] # "none" \/ MaxCancels > 0
    BY <1>9 DEF RequeueClean, LoopInv
  <2>2. \A u \in Task \ {t} : StateOf(u)' = StateOf(u)
    BY <2>1 DEF StateOf, SlotInv, TypeOK
  <2>3. retry'[t] = "none"
    BY <2>1 DEF SlotInv, TypeOK
  <2>4. CASE t \in cur \/ lane[t] # "none" \/ retry[t] = "none"
    <3>1. StateOf(t)' = StateOf(t)
      BY <2>1, <2>3, <2>4 DEF StateOf
    <3> QED
      BY <2>1, <2>2, <3>1, MoveAllowed
  <2>5. CASE t \notin cur /\ lane[t] = "none" /\ retry[t] # "none"
    <3>1. StateOf(t) = "waiting" /\ t \notin done
      BY <2>1, <2>5 DEF StateOf, Resting
    <3>2. MaxRetries = 0 => t \notin dead
      BY <2>1, <2>5 DEF Resting
    <3>3. MaxRetries = 0 /\ MaxCrashes = 0 => t \notin failed
      BY <2>1, <2>5 DEF SingleInv, Single, Live, LoopInv
    <3>4. StateOf(t)' \in {"absent"} \cup Promise!Leftover
      BY <1>a, <2>1, <2>3, <2>5, <3>1, <3>2, <3>3 DEF StateOf, Promise!Leftover
    <3> QED
      BY <2>1, <2>2, <2>5, <3>1, <3>4, MoveAllowed
  <2> QED
    BY <2>4, <2>5
<1>10. ASSUME NEW t \in Task, BackoffElapses(t) PROVE Promise!Next \/ States' = States
  <2>1. /\ retry[t] = "waiting" /\ retry' = [retry EXCEPT ![t] = "due"]
        /\ UNCHANGED <<cur, lane, done, failed, dead>>
    BY <1>10 DEF BackoffElapses
  <2>2. \A u \in Task : retry'[u] = "none" <=> retry[u] = "none"
    BY <2>1 DEF SlotInv, TypeOK
  <2>3. \A u \in Task : StateOf(u)' = StateOf(u)
    BY <2>1, <2>2 DEF StateOf
  <2> QED
    BY <2>3, NoneMoves
<1>11. ASSUME NEW t \in Task, Submit(t) PROVE Promise!Next \/ States' = States
  <2>1. /\ t \notin submitted /\ \A u \in Task \ {t} : lane'[u] = lane[u]
        /\ UNCHANGED <<cur, done, failed, dead, retry>>
    BY <1>11 DEF Submit, SlotInv, TypeOK
  <2>2. lane'[t] # "none"
    BY <1>11, ConstantsAssumption DEF Submit, SlotInv, TypeOK, ConstantsAssumption, Lane
  <2>3. Unknown(t)
    BY <2>1 DEF Known
  <2>4. \A u \in Task \ {t} : StateOf(u)' = StateOf(u)
    BY <2>1 DEF StateOf
  <2>5. StateOf(t) = "absent" /\ StateOf(t)' = "queued"
    BY <2>1, <2>2, <2>3 DEF StateOf, Unknown
  <2> QED
    BY <2>4, <2>5, MoveAllowed
<1>12. ASSUME NEW t \in Task, CliCancel(t) PROVE Promise!Next \/ States' = States
  <2>1. /\ MaxCancels > 0 /\ UNCHANGED <<cur, done, failed, dead, retry>>
        /\ lane' = lane \/ (lane[t] # "none" /\ lane' = [lane EXCEPT ![t] = "none"])
    BY <1>12, <1>a DEF CliCancel, SlotInv, TypeOK
  <2>2. CASE lane' = lane
    BY <2>1, <2>2, BusUntouched
  <2>3. CASE lane[t] # "none" /\ lane' = [lane EXCEPT ![t] = "none"]
    <3>1. \A u \in Task \ {t} : StateOf(u)' = StateOf(u)
      BY <2>1, <2>3 DEF StateOf, SlotInv, TypeOK
    <3>2. lane'[t] = "none"
      BY <2>3 DEF SlotInv, TypeOK
    <3>3. CASE t \in cur
      <4>1. StateOf(t)' = StateOf(t)
        BY <2>1, <3>3 DEF StateOf
      <4> QED
        BY <3>1, <4>1, MoveAllowed
    <3>4. CASE t \notin cur
      <4>1. StateOf(t) = "queued" /\ t \notin done
        BY <2>3, <3>4 DEF StateOf, Resting
      <4>2. MaxRetries = 0 => t \notin dead
        BY <2>3 DEF Resting
      <4>3. MaxRetries = 0 /\ MaxCrashes = 0 => t \notin failed
        BY <2>3 DEF SingleInv, Single, Live, LoopInv
      <4>4. StateOf(t)' \in {"absent", "waiting"} \cup Promise!Leftover
        BY <1>a, <2>1, <3>2, <3>4, <4>1, <4>2, <4>3 DEF StateOf, Promise!Leftover
      <4> QED
        BY <2>1, <3>1, <4>1, <4>4, MoveAllowed
    <3> QED
      BY <3>3, <3>4
  <2> QED
    BY <2>1, <2>2, <2>3
<1>13. ASSUME NEW t \in Task, CliRetryCopy(t) PROVE Promise!Next \/ States' = States
  <2>1. /\ MaxRetries > 0 /\ t \in failed \cup dead /\ t \notin erasing
        /\ lane' = [lane EXCEPT ![t] = "p1"]
        /\ UNCHANGED <<cur, done, failed, dead, retry>>
    BY <1>13, <1>a DEF CliRetryCopy, SlotInv, TypeOK
  <2>2. \A u \in Task \ {t} : StateOf(u)' = StateOf(u)
    BY <2>1 DEF StateOf, SlotInv, TypeOK
  <2>3. lane'[t] # "none"
    BY <2>1 DEF SlotInv, TypeOK
  <2>4. CASE t \in cur
    <3>1. StateOf(t)' = StateOf(t)
      BY <2>1, <2>4 DEF StateOf
    <3> QED
      BY <2>2, <3>1, MoveAllowed
  <2>5. CASE t \notin cur
    <3>1. Single(t)
      BY <1>a, <2>1 DEF SingleInv
    <3>2. StateOf(t) \in {"failed", "dead"} /\ StateOf(t)' = "queued"
      BY <2>1, <2>3, <2>5, <3>1 DEF StateOf, Single, Live
    <3> QED
      BY <2>1, <2>2, <3>2, MoveAllowed
  <2> QED
    BY <2>4, <2>5
<1>14. ASSUME NEW t \in Task, CliRetryRemove(t) PROVE Promise!Next \/ States' = States
  <2>1. /\ MaxRetries > 0 /\ failed' = failed \ {t} /\ dead' = dead \ {t}
        /\ UNCHANGED <<cur, lane, done, retry>>
    BY <1>14, <1>a DEF CliRetryRemove, LoopInv
  <2>2. \A u \in Task \ {t} : StateOf(u)' = StateOf(u)
    BY <2>1 DEF StateOf
  <2>3. \/ StateOf(t)' = StateOf(t)
        \/ StateOf(t) \in {"failed", "dead"} /\ StateOf(t)' = "absent"
    BY <2>1 DEF StateOf
  <2> QED
    BY <2>1, <2>2, <2>3, MoveAllowed
<1>15. ASSUME NEW t \in Task, Claim(t) PROVE Promise!Next
  BY <1>15, ClaimStarts
<1>16. /\ Cleanup \/ SpawnRefused \/ RequeueClean => hand.task \in Task
  BY DEF Cleanup, SpawnRefused, RequeueClean, SlotInv, HandOK, Handling, LoopInv
<1> QED
  BY <1>1, <1>2, <1>3, <1>4, <1>5, <1>6, <1>7, <1>8, <1>9, <1>10, <1>11, <1>12, <1>13, <1>14,
     <1>15, <1>16
  DEF Next, Loop, World

-----------------------------------------------------------------------------
(* The invariant is inductive                                              *)

\* The process of a pid file that is gone does not come back before the task is registered
\* again.
LEMMA GoneStays ==
  ASSUME SlotInv, NEW x \in Task, ~PidAlive(pidfile[x]), [Next]_vars, ~Register
  PROVE  ~PidAlive(pidfile[x])'
<1> USE DEF PidAlive
<1>a. /\ pidfile \in [Task -> Pid \cup {NoPid}]
      /\ proc \in [Pid -> [task : Task \cup {NoTask}, st : Exit \cup {"gone", "running"}]]
  BY DEF SlotInv, TypeOK
<1>1. CASE UNCHANGED <<proc, pidfile>>
  BY <1>1
<1>2. CASE SweepOrphans
  BY <1>2 DEF SweepOrphans
<1>3. CASE ProcessCancels
  BY <1>a, <1>3 DEF ProcessCancels, NoProc
<1>4. CASE Cleanup \/ SpawnRefused
  BY <1>a, <1>4 DEF Cleanup, SpawnRefused
<1>5. CASE Spawn
  <2>1. UNCHANGED pidfile
    BY <1>5 DEF Spawn, trackVars
  <2>2. PICK p \in Pid : /\ pidfile[x] # p
                         /\ proc' = [proc EXCEPT ![p] = [task |-> hand.task, st |-> "running"]]
    BY <1>5, SpawnHand DEF SlotInv
  <2> QED
    BY <1>a, <2>1, <2>2
<1>6. ASSUME NEW t \in Task, Collect(t) PROVE ~PidAlive(pidfile[x])'
  <2>1. UNCHANGED pidfile /\ proc' = [proc EXCEPT ![active[t].pid] = NoProc]
    BY <1>6 DEF Collect, trackVars
  <2> QED
    BY <1>a, <2>1 DEF NoProc
<1>7. ASSUME NEW t \in Task, Reap(t) PROVE ~PidAlive(pidfile[x])'
  BY <1>a, <1>7 DEF Reap, Kill, NoProc
<1>8. ASSUME NEW p \in Pid, ProcExit(p) PROVE ~PidAlive(pidfile[x])'
  <2>1. UNCHANGED pidfile /\ proc[p].st = "running" /\ \A q \in Pid \ {p} : proc'[q] = proc[q]
    BY <1>a, <1>8 DEF ProcExit, trackVars
  <2> QED
    BY <1>a, <2>1
<1>9. CASE Crash
  <2>1. UNCHANGED pidfile
        /\ proc' = [p \in Pid |-> IF proc[p].st = "running" THEN proc[p] ELSE NoProc]
    BY <1>9 DEF Crash, trackVars
  <2> QED
    BY <1>a, <2>1 DEF NoProc
<1>10. CASE \/ Start \/ RecoverSlots \/ ClearLocks \/ Tick \/ EndCollect \/ EndReap
            \/ RequeueClean \/ BeginDispatch \/ EndDispatch
            \/ (\E t \in Task : RequeueWrite(t) \/ Skip(t) \/ Claim(t))
            \/ UNCHANGED vars
  <2>1. UNCHANGED <<proc, pidfile>>
    BY <1>10 DEF Start, RecoverSlots, ClearLocks, Tick, EndCollect, EndReap, RequeueClean,
       BeginDispatch, EndDispatch, RequeueWrite, Skip, Claim, vars, trackVars
  <2> QED
    BY <2>1
<1>11. CASE \/ (\E t \in Task : \/ BackoffElapses(t) \/ HeartbeatAges(t) \/ Submit(t)
                                \/ CliCancel(t) \/ CliRetryCopy(t) \/ CliRetryRemove(t))
            \/ \E m \in Model : CooldownElapses(m)
  <2>1. UNCHANGED <<proc, pidfile>>
    BY <1>11 DEF CooldownElapses, BackoffElapses, HeartbeatAges, Submit, CliCancel,
       CliRetryCopy, CliRetryRemove, trackVars
  <2> QED
    BY <2>1
<1> QED
  BY <1>2, <1>3, <1>4, <1>5, <1>6, <1>7, <1>8, <1>9, <1>10, <1>11 DEF Next, Loop, World

\* A run at work is one of a claimed task in the whole loop: only the steps that end a run
\* take its file from cur/.
LEMMA CarriedStep ==
  ASSUME SlotInv, PlacesInv, NEW x \in Task, [Next]_vars
  PROVE  Carried(x)'
<1> USE DEF SlotInv
<1>s. Carried(x) /\ LoopInv
  BY DEF PlacesInv
<1>a. NoTask \notin Task
  BY ConstantsAssumption DEF ConstantsAssumption
<1>b. pc \in Handling => hand.task \in Task
  BY DEF HandOK
<1> USE DEF Carried
<1>1. CASE UNCHANGED <<cur, active, pidfile, pc, hand>>
  BY <1>s, <1>1 DEF Active
<1>2. CASE SweepOrphans
  <2>1. pc = "orphans" /\ pc' = "clear_locks" /\ UNCHANGED <<active, hand>>
    BY <1>2 DEF SweepOrphans
  <2>2. x \notin Active /\ x \notin Active'
    BY <2>1 DEF Untracked, Starting, Active
  <2> QED
    BY <2>1, <2>2 DEF Handling
<1>3. CASE \/ Start \/ RecoverSlots \/ ClearLocks \/ Tick \/ EndCollect \/ EndReap
           \/ BeginDispatch \/ EndDispatch \/ RequeueClean \/ \E t \in Task : RequeueWrite(t)
  <2>1. pc' \notin Handling /\ UNCHANGED <<active, cur, pidfile>>
    BY <1>3 DEF Start, RecoverSlots, ClearLocks, Tick, EndCollect, EndReap, RequeueClean,
       BeginDispatch, EndDispatch, RequeueWrite, Handling, trackVars, busVars
  <2> QED
    BY <1>s, <2>1 DEF Active
<1>4. CASE ProcessCancels
  <2>1. /\ pc' \notin Handling
        /\ x \in signal \cap Active => x \notin Active'
        /\ x \notin signal \cap Active => /\ UNCHANGED <<active[x], pidfile[x]>>
                                          /\ x \in cur => x \in cur'
    BY <1>4 DEF ProcessCancels, TypeOK, Handling, Active
  <2> QED
    BY <1>s, <2>1 DEF Active
<1>5. ASSUME NEW t \in Task, Collect(t) PROVE Carried(x)'
  <2>1. /\ pc' = "cleanup" /\ hand'.task = t /\ t \in Active
        /\ active' = [active EXCEPT ![t] = NoRun] /\ UNCHANGED <<cur, pidfile>>
    BY <1>5 DEF Collect, trackVars
  <2>2. CASE x = t
    BY <1>s, <2>1, <2>2 DEF TypeOK, Active
  <2>3. CASE x # t
    BY <1>s, <2>1, <2>3 DEF TypeOK, Active
  <2> QED
    BY <2>2, <2>3
<1>6. CASE Cleanup
  <2>1. /\ pc = "cleanup" /\ pc' = "collect" /\ UNCHANGED active /\ cur' = cur \ {hand.task}
        /\ pidfile' = [pidfile EXCEPT ![hand.task] = NoPid]
    BY <1>6 DEF Cleanup
  <2> QED
    BY <1>s, <1>b, <2>1 DEF TypeOK, Active, Handling
<1>7. CASE SpawnRefused
  <2>1. /\ pc = "spawn" /\ pc' = "dispatch" /\ UNCHANGED active /\ cur' = cur \ {hand.task}
        /\ pidfile' = pidfile \/ pidfile' = [pidfile EXCEPT ![hand.task] = NoPid]
    BY <1>7 DEF SpawnRefused
  <2> QED
    BY <1>s, <1>b, <2>1 DEF TypeOK, Active, Handling
<1>8. ASSUME NEW t \in Task, Reap(t) PROVE Carried(x)'
  <2>1. /\ pc = "reap" /\ pc' = pc /\ active' = [active EXCEPT ![t] = NoRun]
        /\ cur' = cur \ {t} /\ pidfile' = [pidfile EXCEPT ![t] = NoPid]
    BY <1>8 DEF Reap
  <2> QED
    BY <1>s, <2>1 DEF TypeOK, Active, Handling
<1>9. ASSUME NEW t \in Task, Claim(t) PROVE Carried(x)'
  <2>1. /\ pc = "dispatch" /\ pc' = "spawn" /\ hand'.task = t /\ lane[t] # "none"
        /\ cur' = cur \cup {t} /\ UNCHANGED <<active, pidfile>>
    BY <1>9 DEF Claim
  <2>2. t \notin Active
    BY <2>1 DEF PlacesInv, Resting
  <2> QED
    BY <1>s, <2>1, <2>2 DEF Active, Handling
<1>10. CASE Spawn
  <2>1. pc = "spawn" /\ hand'.task = hand.task /\ UNCHANGED <<active, pidfile, cur>>
    BY <1>10, SpawnHand DEF Spawn, trackVars, busVars
  <2> QED
    BY <1>s, <2>1 DEF Active, Handling
<1>11. CASE Register
  <2>1. /\ pc = "register" /\ pc' = "dispatch" /\ UNCHANGED cur /\ hand.run.pid \in Pid
        /\ pidfile' = [pidfile EXCEPT ![hand.task] = hand.run.pid]
        /\ active' = [active EXCEPT ![hand.task] = hand.run]
    BY <1>s, <1>11 DEF Register, LoopInv
  <2> QED
    BY <1>s, <1>b, <2>1 DEF TypeOK, Active, Handling
<1>12. CASE Crash
  <2>1. pc' = "down" /\ Active' = {}
    BY <1>12 DEF Crash, Active
  <2> QED
    BY <2>1 DEF Handling
<1>13. CASE \/ (\E t \in Task : \/ Skip(t) \/ BackoffElapses(t) \/ HeartbeatAges(t) \/ Submit(t)
                                \/ CliCancel(t) \/ CliRetryCopy(t) \/ CliRetryRemove(t))
            \/ (\E p \in Pid : ProcExit(p)) \/ (\E m \in Model : CooldownElapses(m))
            \/ UNCHANGED vars
  <2>1. UNCHANGED <<cur, active, pidfile, pc, hand>>
    BY <1>13 DEF Skip, BackoffElapses, HeartbeatAges, Submit, CliCancel, CliRetryCopy,
       CliRetryRemove, ProcExit, CooldownElapses, vars, busVars, trackVars, memVars
  <2> QED
    BY <1>1, <2>1
<1> QED
  BY <1>2, <1>3, <1>4, <1>5, <1>6, <1>7, <1>8, <1>9, <1>10, <1>11, <1>12, <1>13
  DEF Next, Loop, World

\* A claimed task keeps a slot directory with its name: releases name the slots of other
\* runs, and recovery frees one only when its process is gone.
LEMMA HousedStep ==
  ASSUME SlotInv, PlacesInv, NEW x \in Task, [Next]_vars
  PROVE  Housed(x)'
<1> SUFFICES ASSUME x \in cur' PROVE Housed(x)'
  BY DEF Housed
<1> USE DEF SlotInv
<1>s. Housed(x) /\ Carried(x)
  BY DEF PlacesInv
<1>a. NoTask \notin Task
  BY ConstantsAssumption DEF ConstantsAssumption
<1>1. CASE SweepOrphans
  <2>1. UNCHANGED slot /\ x \in cur /\ PidAlive(pidfile[x])
    BY <1>1 DEF SweepOrphans
  <2> QED
    BY <1>s, <2>1 DEF Housed
<1>2. CASE RecoverSlots
  <2>1. /\ x \in cur /\ pc' = "orphans" /\ UNCHANGED <<pidfile, proc>>
        /\ slot' = FreeSlots({s \in Slot : \/ slot[s].owner = NoTask
                                           \/ ~PidAlive(pidfile[slot[s].owner])})
    BY <1>2 DEF RecoverSlots, busVars
  <2>2. CASE PidAlive(pidfile[x])
    <3>1. PICK s \in Slot : slot[s] = OwnedBy(x)
      BY <1>s, <2>1, <2>2 DEF Housed
    <3>2. slot'[s] = slot[s]
      BY <1>a, <2>1, <2>2, <3>1 DEF FreeSlots, OwnedBy
    <3> QED
      BY <3>1, <3>2 DEF Housed
  <2>3. CASE ~PidAlive(pidfile[x])
    BY <2>1, <2>3 DEF Housed, StartUp, PidAlive
  <2> QED
    BY <2>2, <2>3
<1>3. ASSUME NEW S, S \subseteq Slot, slot' = FreeSlots(S), \A s \in S : slot[s] # OwnedBy(x),
             x \in cur, pc \notin StartUp
      PROVE  Housed(x)'
  <2>1. PICK s \in Slot : slot[s] = OwnedBy(x)
    BY <1>s, <1>3 DEF Housed
  <2>2. slot'[s] = slot[s]
    BY <1>3, <2>1 DEF FreeSlots
  <2> QED
    BY <2>1, <2>2 DEF Housed
<1>4. \A t \in Task : OwnedBy(t) = OwnedBy(x) => t = x
  BY DEF OwnedBy
<1>5. CASE ProcessCancels
  <2> DEFINE S == {active[t].slot : t \in signal \cap Active}
  <2>1. /\ pc = "cancel" /\ slot' = FreeSlots(S) /\ x \in cur /\ x \notin signal \cap Active
    BY <1>5 DEF ProcessCancels
  <2>2. ASSUME NEW t \in signal \cap Active
        PROVE  active[t].slot \in Slot /\ slot[active[t].slot] # OwnedBy(x)
    <3>1. t \in Task /\ t # x
      BY <2>1 DEF Active
    <3> QED
      BY <1>4, <3>1 DEF Owned
  <2>3. S \subseteq Slot /\ \A s \in S : slot[s] # OwnedBy(x)
    BY <2>2
  <2> HIDE DEF S
  <2> QED
    BY <1>3, <2>1, <2>3 DEF StartUp
<1>6. CASE Cleanup \/ SpawnRefused
  <2>1. /\ pc \in {"cleanup", "spawn"} /\ slot' = FreeSlots({hand.run.slot})
        /\ x \in cur /\ x # hand.task
    BY <1>6 DEF Cleanup, SpawnRefused
  <2>2. hand.task \in Task /\ hand.run.slot \in Slot /\ slot[hand.run.slot] = OwnedBy(hand.task)
    BY <2>1 DEF HandOK, Handling, Owned, InHand, NoRun, Slot
  <2> QED
    BY <1>3, <1>4, <2>1, <2>2 DEF StartUp
<1>7. ASSUME NEW t \in Task, Reap(t) PROVE Housed(x)'
  <2>1. /\ pc = "reap" /\ x \in cur /\ x # t
        /\ slot' = IF t \in Active THEN FreeSlots({active[t].slot}) ELSE slot
    BY <1>7 DEF Reap
  <2>2. CASE t \in Active
    <3>1. active[t].slot \in Slot /\ slot[active[t].slot] = OwnedBy(t)
      BY <2>2 DEF Owned
    <3> QED
      BY <1>3, <1>4, <2>1, <2>2, <3>1 DEF StartUp
  <2>3. CASE t \notin Active
    BY <1>s, <2>1, <2>3 DEF Housed, StartUp
  <2> QED
    BY <2>2, <2>3
<1>8. ASSUME NEW t \in Task, Claim(t) PROVE Housed(x)'
  <2>1. /\ pc = "dispatch" /\ ~NoRoom /\ cur' = cur \cup {t}
        /\ slot' = [slot EXCEPT ![LowestFree] = OwnedBy(t)]
    BY <1>8 DEF Claim
  <2>2. LowestFree \in Slot /\ slot[LowestFree].free
    BY <2>1, LowestFreeIsFree DEF NoRoom, Occupied
  <2>3. CASE x = t
    BY <2>1, <2>2, <2>3 DEF Housed, TypeOK
  <2>4. CASE x # t
    <3>1. PICK s \in Slot : slot[s] = OwnedBy(x)
      BY <1>s, <2>1, <2>4 DEF Housed, StartUp
    <3>2. ~slot[s].free
      BY <3>1 DEF OwnedBy
    <3>3. slot'[s] = slot[s]
      BY <2>1, <2>2, <3>2 DEF TypeOK
    <3> QED
      BY <3>1, <3>3 DEF Housed
  <2> QED
    BY <2>3, <2>4
<1>9. ASSUME UNCHANGED slot, x \in cur, ~Register, pc \in StartUp => pc' \in StartUp
      PROVE  Housed(x)'
  <2>1. CASE \E s \in Slot : slot[s] = OwnedBy(x)
    BY <1>9, <2>1 DEF Housed
  <2>2. CASE pc \in StartUp /\ ~PidAlive(pidfile[x])
    BY <1>9, <2>2, GoneStays DEF Housed
  <2> QED
    BY <1>s, <1>9, <2>1, <2>2 DEF Housed
<1>10. CASE \/ Start \/ ClearLocks \/ Tick \/ EndCollect \/ EndReap \/ RequeueClean
            \/ BeginDispatch \/ EndDispatch \/ Spawn \/ Crash
            \/ (\E t \in Task : Collect(t) \/ RequeueWrite(t) \/ Skip(t))
            \/ UNCHANGED vars
  <2>1. /\ UNCHANGED <<slot, cur>> /\ (pc \in StartUp => pc' \in StartUp)
    BY <1>10 DEF Start, ClearLocks, Tick, EndCollect, EndReap, RequeueClean, BeginDispatch,
       EndDispatch, Spawn, Crash, Collect, RequeueWrite, Skip, StartUp, vars, busVars, trackVars,
       memVars
  <2>2. ~Register
    BY <1>10 DEF Start, ClearLocks, Tick, EndCollect, EndReap, RequeueClean, BeginDispatch,
       EndDispatch, Spawn, Crash, Collect, RequeueWrite, Skip, Register, NoHand, vars, memVars
  <2> QED
    BY <1>9, <2>1, <2>2
<1>11. CASE \/ (\E t \in Task : \/ BackoffElapses(t) \/ HeartbeatAges(t) \/ Submit(t)
                                \/ CliCancel(t) \/ CliRetryCopy(t) \/ CliRetryRemove(t))
            \/ (\E p \in Pid : ProcExit(p)) \/ (\E m \in Model : CooldownElapses(m))
  <2>1. UNCHANGED <<slot, cur, pc>>
    BY <1>11 DEF BackoffElapses, HeartbeatAges, Submit, CliCancel, CliRetryCopy,
       CliRetryRemove, ProcExit, CooldownElapses, busVars, trackVars, memVars
  <2>2. ~Register
    BY <2>1 DEF Register
  <2> QED
    BY <1>9, <2>1, <2>2
<1>12. CASE Register
  <2>1. UNCHANGED <<slot, cur>> /\ pc = "register"
    BY <1>12 DEF Register
  <2> QED
    BY <1>s, <2>1 DEF Housed, StartUp
<1> QED
  BY <1>1, <1>2, <1>5, <1>6, <1>7, <1>8, <1>10, <1>11, <1>12 DEF Next, Loop, World

\* What the loop holds between its steps.
LEMMA LoopStep ==
  ASSUME StagingRenames, SlotInv, PlacesInv, [Next]_vars
  PROVE  LoopInv'
<1> USE DEF SlotInv
<1>s. LoopInv
  BY DEF PlacesInv
<1>a. /\ MaxRetries \in Nat /\ MaxCancels \in Nat /\ "none" \notin Lane
      /\ spent \in [crash : Nat, cancel : Nat, retry : Nat]
  BY ConstantsAssumption DEF ConstantsAssumption, Lane, TypeOK
<1>1. (scan # {} => pc \in {"dispatch", "spawn", "register"})'
  <2>1. CASE UNCHANGED <<scan, pc>>
    BY <1>s, <2>1 DEF LoopInv
  <2>2. CASE Loop \/ Crash
    BY <1>s, <2>2 DEF LoopInv, Loop, Start, RecoverSlots, SweepOrphans, ClearLocks, Tick,
       ProcessCancels, Cleanup, EndCollect, EndReap, RequeueClean, BeginDispatch, EndDispatch,
       SpawnRefused, Spawn, Register, Collect, Reap, RequeueWrite, Skip, Claim, Crash
  <2>3. CASE (World /\ ~Crash) \/ UNCHANGED vars
    <3>1. UNCHANGED <<scan, pc>>
      BY <2>3 DEF World, ProcExit, CooldownElapses, BackoffElapses, HeartbeatAges, Submit,
         CliCancel, CliRetryCopy, CliRetryRemove, vars, memVars
    <3> QED
      BY <2>1, <3>1
  <2> QED
    BY <2>2, <2>3 DEF Next
<1>2. (pc = "register" => hand.run.pid \in Pid)'
  <2>1. CASE Spawn
    <3>1. PICK p \in Pid : hand'.run = [slot |-> hand.run.slot, pid |-> p,
                                         attempt |-> attempts[hand.task] + 1]
      BY <2>1, SpawnHand
    <3> QED
      BY <3>1
  <2>2. CASE Loop /\ ~Spawn
    <3>1. pc' # "register" \/ UNCHANGED <<pc, hand>>
      BY <2>2 DEF Loop, Start, RecoverSlots, SweepOrphans, ClearLocks, Tick,
       ProcessCancels, Cleanup, EndCollect, EndReap, RequeueClean, BeginDispatch, EndDispatch,
       SpawnRefused, Register, Collect, Reap, RequeueWrite, Skip, Claim
    <3> QED
      BY <1>s, <3>1 DEF LoopInv
  <2>3. CASE World \/ UNCHANGED vars
    <3>1. pc' # "register" \/ UNCHANGED <<pc, hand>>
      BY <2>3 DEF World, ProcExit, CooldownElapses, BackoffElapses, HeartbeatAges, Submit,
         CliCancel, CliRetryCopy, CliRetryRemove, Crash, vars, memVars
    <3> QED
      BY <1>s, <3>1 DEF LoopInv
  <2> QED
    BY <2>1, <2>2, <2>3 DEF Next
<1>3. (pc = "requeue" => hand.task \in Task /\ (lane[hand.task] # "none" \/ MaxCancels > 0))'
  <2>1. ASSUME NEW t \in Task, RequeueWrite(t)
        PROVE  hand'.task \in Task /\ lane'[hand'.task] # "none"
    BY <2>1 DEF RequeueWrite, TypeOK, RequeueLane
  <2>2. CASE Loop /\ ~(\E t \in Task : RequeueWrite(t))
    <3>1. pc' # "requeue"
      BY <2>2 DEF Loop, Start, RecoverSlots, SweepOrphans, ClearLocks, Tick,
       ProcessCancels, Cleanup, EndCollect, EndReap, RequeueClean, BeginDispatch, EndDispatch,
       SpawnRefused, Spawn, Register, Collect, Reap, Skip, Claim
    <3> QED
      BY <3>1
  <2>3. CASE World \/ UNCHANGED vars
    <3>1. pc' # "requeue" \/ UNCHANGED <<pc, hand>>
      BY <2>3 DEF World, ProcExit, CooldownElapses, BackoffElapses, HeartbeatAges, Submit,
         CliCancel, CliRetryCopy, CliRetryRemove, Crash, vars, memVars
    <3>2. \A t \in Task : lane[t] # "none" => lane'[t] # "none" \/ MaxCancels > 0
      <4>1. CASE \E t \in Task : Submit(t) \/ CliRetryCopy(t)
        BY <1>a, <4>1, ConstantsAssumption
        DEF Submit, CliRetryCopy, TypeOK, ConstantsAssumption, Lane
      <4>2. CASE \E t \in Task : CliCancel(t)
        BY <1>a, <4>2 DEF CliCancel
      <4>3. CASE UNCHANGED lane
        BY <4>3
      <4> QED
        BY <2>3, <4>1, <4>2, <4>3 DEF World, ProcExit, CooldownElapses, BackoffElapses,
           HeartbeatAges, CliRetryRemove, Crash, vars, busVars
    <3> QED
      BY <1>s, <3>1, <3>2 DEF LoopInv
  <2> QED
    BY <2>1, <2>2, <2>3 DEF Next
<1>4. (MaxRetries = 0 => erasing = {} /\ (pc = "cleanup" => Settled(hand.task)))'
  <2> SUFFICES ASSUME MaxRetries = 0
               PROVE  erasing' = {} /\ (pc = "cleanup" => Settled(hand.task))'
    OBVIOUS
  <2>1. erasing = {} /\ (pc = "cleanup" => Settled(hand.task))
    BY <1>s DEF LoopInv
  <2>2. ASSUME NEW t \in Task, Collect(t)
        PROVE  erasing' = {} /\ Settled(t)' /\ hand'.task = t
    BY <2>1, <2>2 DEF Collect, MoveStaging, RetryDecision, Settled, TypeOK, envVars
  <2>3. CASE Loop /\ ~(\E t \in Task : Collect(t))
    <3>1. pc' # "cleanup" /\ UNCHANGED erasing
      BY <2>3 DEF Loop, Start, RecoverSlots, SweepOrphans, ClearLocks, Tick,
       ProcessCancels, Cleanup, EndCollect, EndReap, RequeueClean, BeginDispatch, EndDispatch,
       SpawnRefused, Spawn, Register, Reap, RequeueWrite, Skip, Claim, envVars
    <3> QED
      BY <2>1, <3>1
  <2>4. CASE World \/ UNCHANGED vars
    <3>1. ~(\E t \in Task : CliRetryCopy(t) \/ CliRetryRemove(t))
      BY <1>a, <2>1 DEF CliRetryCopy, CliRetryRemove
    <3>2. /\ UNCHANGED <<erasing, done, failed, dead>>
          /\ pc' # "cleanup" \/ UNCHANGED <<pc, hand>>
      BY <2>4, <3>1 DEF World, ProcExit, CooldownElapses, BackoffElapses, HeartbeatAges, Submit,
         CliCancel, Crash, vars, memVars, busVars, envVars
    <3>3. \A t \in Task : retry[t] # "none" => retry'[t] # "none"
      BY <2>4, <3>1 DEF World, ProcExit, CooldownElapses, BackoffElapses, HeartbeatAges, Submit,
         CliCancel, Crash, vars, busVars, TypeOK
    <3>4. pc = "cleanup" => hand.task \in Task
      BY DEF HandOK, Handling
    <3> QED
      BY <2>1, <3>2, <3>3, <3>4 DEF Settled
  <2> QED
    BY <2>2, <2>3, <2>4 DEF Next
<1> QED
  BY <1>1, <1>2, <1>3, <1>4 DEF LoopInv

\* What is to be cleaned up stays so until it is cleaned up or swept, across restarts.
LEMMA EndedStays ==
  ASSUME SlotInv, NEW x \in Task, Ended(x), [Next]_vars, x \in cur'
  PROVE  Ended(x)'
<1>1. ~Register
  BY DEF Ended, StartUp, Register
<1>2. ~PidAlive(pidfile[x])'
  BY <1>1, GoneStays DEF Ended
<1>3. CASE pc = "cleanup" /\ hand.task = x
  <2>1. ~Cleanup
    BY <1>3 DEF Cleanup
  <2>2. UNCHANGED <<pc, hand>> \/ pc' = "down"
    BY <1>3, <2>1 DEF Next, Loop, World, Start, RecoverSlots, SweepOrphans, ClearLocks, Tick,
       ProcessCancels, EndCollect, EndReap, RequeueClean, BeginDispatch, EndDispatch,
       SpawnRefused, Spawn, Register, Collect, Reap, RequeueWrite, Skip, Claim, ProcExit,
       CooldownElapses, BackoffElapses, HeartbeatAges, Submit, CliCancel, CliRetryCopy,
       CliRetryRemove, Crash, vars, memVars
  <2> QED
    BY <1>2, <1>3, <2>2 DEF Ended, StartUp
<1>4. CASE pc \in StartUp
  <2>1. ~SweepOrphans
    BY DEF SweepOrphans, Ended
  <2>2. pc' \in StartUp
    BY <1>4, <2>1 DEF Next, Loop, World, Start, RecoverSlots, ClearLocks, Tick,
       ProcessCancels, Cleanup, EndCollect, EndReap, RequeueClean, BeginDispatch, EndDispatch,
       SpawnRefused, Spawn, Register, Collect, Reap, RequeueWrite, Skip, Claim, ProcExit,
       CooldownElapses, BackoffElapses, HeartbeatAges, Submit, CliCancel, CliRetryCopy,
       CliRetryRemove, Crash, vars, memVars, StartUp
  <2> QED
    BY <1>2, <2>2 DEF Ended
<1> QED
  BY <1>3, <1>4 DEF Ended

\* Every task stays in one place.
LEMMA RestingStep ==
  ASSUME MaxCrashes = 0 \/ MaxRetries = 0, BusInv, NEW x \in Task, [Next]_vars
  PROVE  Resting(x)'
<1> USE DEF BusInv
<1>s. /\ Resting(x) /\ Carried(x) /\ LoopInv /\ TypeOK
      /\ x \in cur /\ lane[x] # "none" => pc = "cleanup"
  BY DEF PlacesInv, SlotInv, Resting
<1>a. MaxRetries \in Nat /\ MaxCrashes \in Nat /\ NoTask \notin Task
  BY ConstantsAssumption DEF ConstantsAssumption
<1>b. Ended(x) /\ x \in cur' => Ended(x)'
  BY EndedStays
<1>1. ASSUME UNCHANGED lane[x], retry'[x] \in {retry[x], "none"}, x \in cur' => x \in cur,
             x \in done' <=> x \in done, x \in dead' => x \in dead, x \in scan' => x \in scan,
             UNCHANGED <<pc, hand>> \/ x \notin cur' \/ pc # "cleanup" \/ lane[x] = "none"
      PROVE  Resting(x)'
  BY <1>s, <1>1, <1>b DEF Resting
<1>2. CASE \/ Start \/ RecoverSlots \/ SweepOrphans \/ ClearLocks \/ Tick \/ ProcessCancels
           \/ EndCollect \/ EndReap \/ EndDispatch \/ Spawn \/ Register \/ SpawnRefused
           \/ UNCHANGED vars \/ (\E t \in Task : Reap(t) \/ Skip(t) \/ HeartbeatAges(t))
           \/ (\E p \in Pid : ProcExit(p)) \/ \E m \in Model : CooldownElapses(m)
  <2>1. /\ UNCHANGED <<lane, retry, done, dead>> /\ cur' \subseteq cur /\ scan' \subseteq scan
        /\ UNCHANGED <<pc, hand>> \/ pc # "cleanup"
    BY <1>2 DEF Start, RecoverSlots, SweepOrphans, ClearLocks, Tick, ProcessCancels, EndCollect,
       EndReap, EndDispatch, Spawn, Register, SpawnRefused, Reap, Skip, HeartbeatAges, ProcExit,
       CooldownElapses, vars, busVars, memVars
  <2> QED
    BY <1>1, <2>1
<1>3. CASE Cleanup
  <2>1. /\ UNCHANGED <<lane, retry, done, dead, scan>> /\ cur' = cur \ {hand.task}
    BY <1>3 DEF Cleanup
  <2> QED
    BY <1>s, <1>1, <2>1 DEF Resting
<1>4. CASE BeginDispatch
  <2>1. /\ UNCHANGED <<lane, retry, done, dead, cur>> /\ pc = "retries" /\ retry[x] # "due"
    BY <1>4 DEF BeginDispatch, busVars
  <2>2. x \notin cur \/ lane[x] = "none"
    BY <1>s, <2>1
  <2> QED
    BY <1>s, <1>b, <2>1, <2>2 DEF Resting
<1>5. CASE RequeueClean
  <2>1. /\ UNCHANGED <<lane, done, dead, cur, scan>> /\ pc = "requeue"
        /\ retry' = [retry EXCEPT ![hand.task] = "none"]
    BY <1>5 DEF RequeueClean
  <2>2. retry'[x] \in {retry[x], "none"}
    BY <1>s, <2>1 DEF TypeOK
  <2> QED
    BY <1>1, <2>1, <2>2
<1>6. ASSUME NEW t \in Task, Collect(t) PROVE Resting(x)'
  <2>1. /\ pc = "collect" /\ pc' = "cleanup" /\ hand'.task = t /\ t \in Active
        /\ proc' = [proc EXCEPT ![active[t].pid] = NoProc]
        /\ UNCHANGED <<lane, cur, scan, pidfile>>
        /\ \/ retry' = [retry EXCEPT ![t] = "waiting"] /\ UNCHANGED <<done, dead>>
           \/ UNCHANGED <<dead, retry>> /\ done' = MoveStaging(done, {t})
           \/ UNCHANGED <<done, dead, retry>>
           \/ UNCHANGED <<done, retry>> /\ dead' = MoveStaging(dead, {t})
    BY <1>6 DEF Collect, trackVars, RetryDecision
  <2>2. CASE x # t
    <3>1. UNCHANGED retry[x] /\ (x \in done' <=> x \in done) /\ (x \in dead' <=> x \in dead)
      BY <1>s, <2>1, <2>2 DEF MoveStaging, TypeOK
    <3> QED
      BY <1>1, <2>1, <3>1
  <2>3. CASE x = t
    <3>1. x \in cur /\ lane[x] = "none" /\ retry[x] = "none" /\ x \notin done
          /\ (MaxRetries = 0 => x \notin dead)
      BY <1>s, <2>1, <2>3 DEF Carried, Resting, Ended, StartUp
    <3>2. ~PidAlive(pidfile[x])'
      BY <1>s, <2>1, <2>3 DEF Carried, PidAlive, NoProc, TypeOK
    <3>3. Ended(x)'
      BY <2>1, <2>3, <3>2 DEF Ended
    <3>4. lane'[x] = "none" /\ ~(x \in done' /\ retry'[x] # "none")
          /\ (MaxRetries = 0 => ~(x \in dead' /\ retry'[x] # "none"))
      BY <1>s, <2>1, <2>3, <3>1 DEF MoveStaging, TypeOK
    <3> QED
      BY <3>3, <3>4 DEF Resting
  <2> QED
    BY <2>2, <2>3
<1>7. ASSUME NEW t \in Task, Claim(t) PROVE Resting(x)'
  <2>1. /\ pc = "dispatch" /\ lane[t] # "none" /\ t \in scan /\ cur' = cur \cup {t}
        /\ lane' = [lane EXCEPT ![t] = "none"] /\ scan' = scan \ {t}
        /\ UNCHANGED <<done, dead, retry>>
    BY <1>7 DEF Claim, NextInScan
  <2>2. CASE x = t
    <3>1. retry[x] = "none" /\ x \notin done /\ (MaxRetries = 0 => x \notin dead)
      BY <1>s, <2>1, <2>2 DEF Resting
    <3>2. lane'[x] = "none"
      BY <1>s, <2>1, <2>2 DEF TypeOK
    <3> QED
      BY <2>1, <3>1, <3>2 DEF Resting
  <2>3. CASE x # t
    BY <1>s, <1>1, <2>1, <2>3 DEF TypeOK
  <2> QED
    BY <2>2, <2>3
<1>8. ASSUME NEW t \in Task, RequeueWrite(t) PROVE Resting(x)'
  <2>1. /\ pc = "retries" /\ retry[t] = "due" /\ lane' = [lane EXCEPT ![t] = RequeueLane]
        /\ UNCHANGED <<cur, done, dead, retry, scan>>
    BY <1>8 DEF RequeueWrite
  <2>2. CASE x = t
    <3>1. x \notin cur /\ x \notin done /\ (MaxRetries = 0 => x \notin dead) /\ x \notin scan
      BY <1>s, <2>1, <2>2 DEF Resting, Ended, StartUp, LoopInv
    <3> QED
      BY <2>1, <2>2, <3>1 DEF Resting
  <2>3. CASE x # t
    BY <1>s, <1>1, <2>1, <2>3 DEF TypeOK
  <2> QED
    BY <2>2, <2>3
<1>9. CASE Crash
  <2>1. UNCHANGED <<lane, cur, done, dead, retry>> /\ scan' = {} /\ pc' = "down"
    BY <1>9 DEF Crash, busVars
  <2>2. x \in cur /\ lane[x] # "none" => FALSE
    <3>1. MaxRetries = 0
      BY <1>9, <1>a DEF Crash, SlotInv, TypeOK
    <3> QED
      BY <1>s, <3>1 DEF Resting
  <2> QED
    BY <1>s, <1>1, <2>1, <2>2
<1>10. ASSUME NEW t \in Task, BackoffElapses(t) PROVE Resting(x)'
  <2>1. /\ retry[t] = "waiting" /\ retry' = [retry EXCEPT ![t] = "due"]
        /\ UNCHANGED <<cur, lane, done, dead, pc, hand, scan>>
    BY <1>10 DEF BackoffElapses, memVars
  <2>2. /\ retry'[x] = "none" <=> retry[x] = "none"
        /\ retry[x] = "due" => retry'[x] = "due"
    BY <1>s, <2>1 DEF TypeOK
  <2> QED
    BY <1>s, <1>b, <2>1, <2>2 DEF Resting
<1>11. ASSUME NEW t \in Task, Submit(t) PROVE Resting(x)'
  <2>1. /\ t \notin submitted /\ \A u \in Task \ {t} : lane'[u] = lane[u]
        /\ UNCHANGED <<cur, done, dead, retry, pc, hand, scan>>
    BY <1>11 DEF Submit, SlotInv, TypeOK, memVars
  <2>2. CASE x = t
    <3>1. Unknown(x)
      BY <2>1, <2>2 DEF Known
    <3> QED
      BY <2>1, <3>1 DEF Unknown, Resting
  <2>3. CASE x # t
    BY <1>1, <2>1, <2>3
  <2> QED
    BY <2>2, <2>3
<1>12. ASSUME NEW t \in Task, CliCancel(t) PROVE Resting(x)'
  <2>1. /\ lane' = lane \/ lane' = [lane EXCEPT ![t] = "none"]
        /\ UNCHANGED <<cur, done, dead, retry, pc, hand, scan>>
    BY <1>12 DEF CliCancel, memVars
  <2>2. lane'[x] \in {lane[x], "none"}
    BY <1>s, <2>1 DEF TypeOK
  <2> QED
    BY <1>s, <1>b, <2>1, <2>2 DEF Resting
<1>13. ASSUME NEW t \in Task, CliRetryCopy(t) PROVE Resting(x)'
  <2>1. /\ MaxRetries > 0 /\ t \in failed \cup dead /\ t \notin erasing
        /\ lane' = [lane EXCEPT ![t] = "p1"]
        /\ UNCHANGED <<cur, done, dead, retry, pc, hand, scan>>
    BY <1>13, <1>a DEF CliRetryCopy, SlotInv, TypeOK, memVars
  <2>2. CASE x = t
    <3>1. Single(x)
      BY <1>a, <2>1 DEF SingleInv
    <3>2. retry[x] = "none" /\ x \notin done /\ (x \in cur => pc = "cleanup" /\ hand.task = x)
      BY <2>1, <2>2, <3>1 DEF Single, Live
    <3> QED
      BY <1>a, <2>1, <3>2 DEF Resting
  <2>3. CASE x # t
    BY <1>s, <1>1, <2>1, <2>3 DEF TypeOK
  <2> QED
    BY <2>2, <2>3
<1>14. ASSUME NEW t \in Task, CliRetryRemove(t) PROVE Resting(x)'
  <2>1. dead' = dead \ {t} /\ UNCHANGED <<cur, lane, done, retry, pc, hand, scan>>
    BY <1>14 DEF CliRetryRemove, memVars
  <2> QED
    BY <1>1, <2>1
<1> QED
  BY <1>2, <1>3, <1>4, <1>5, <1>6, <1>7, <1>8, <1>9, <1>10, <1>11, <1>12, <1>13, <1>14
  DEF Next, Loop, World

-----------------------------------------------------------------------------
(* The theorem                                                             *)

\* The bus of a daemon that never ran is empty.
LEMMA InitImplements == Init => PlacesInv /\ Promise!Init
<1> SUFFICES ASSUME Init PROVE PlacesInv /\ Promise!Init
  OBVIOUS
<1>1. /\ pc = "down" /\ cur = {} /\ done = {} /\ dead = {} /\ failed = {} /\ scan = {}
      /\ erasing = {} /\ active = [t \in Task |-> NoRun]
      /\ \A t \in Task : lane[t] = "none" /\ retry[t] = "none"
  BY DEF Init
<1>2. PlacesInv
  BY <1>1 DEF PlacesInv, LoopInv, Carried, Resting, Housed, Active, Handling
<1>3. Promise!Init
  BY <1>1 DEF Promise!Init, StateOf
<1> QED
  BY <1>2, <1>3

\* The invariant holds at every step, under the assumptions of the theorem below.
LEMMA BusInvariant ==
  ASSUME StagingRenames, MaxCrashes = 0 => NoMixedProjects, MaxCrashes = 0 \/ MaxRetries = 0
  PROVE  Spec => []BusInv
<1>1. Init => PlacesInv
  BY InitImplements
<1>2. BusInv /\ [Next]_vars => PlacesInv'
  <2> SUFFICES ASSUME BusInv, [Next]_vars PROVE PlacesInv'
    OBVIOUS
  <2>1. LoopInv'
    BY LoopStep DEF BusInv
  <2>2. \A x \in Task : Carried(x)' /\ Housed(x)'
    BY CarriedStep, HousedStep DEF BusInv
  <2>3. \A x \in Task : Resting(x)'
    BY RestingStep
  <2> QED
    BY <2>1, <2>2, <2>3 DEF PlacesInv
<1>3. Spec => [](MaxCrashes = 0 => SingleInv /\ Locked)
  <2>1. CASE MaxCrashes = 0
    <3>1. Init => Locked
      BY DEF Init, Locked, Holds, Active, InHand, NoHand
    <3>2. SlotInv /\ Locked /\ [Next]_vars => Locked'
      BY <2>1, LockStep
    <3>3. Spec => [](SlotInv /\ SingleInv)
      BY <2>1, SingleInvariant
    <3> QED
      BY <3>1, <3>2, <3>3, PTL DEF Spec
  <2>2. CASE MaxCrashes # 0
    <3>1. MaxCrashes = 0 => SingleInv /\ Locked
      BY <2>2
    <3> QED
      BY <3>1, PTL
  <2> QED
    BY <2>1, <2>2
<1>4. SlotInv /\ Known /\ PlacesInv /\ (MaxCrashes = 0 => SingleInv /\ Locked) => BusInv
  BY DEF BusInv
<1> QED
  BY <1>1, <1>2, <1>3, <1>4, KnownInvariant, PTL DEF Spec

\* The daemon implements the bus: where the staging directory can be renamed into place,
\* no project mixes worktree tasks with others unless the daemon may crash (then the bus
\* promises nothing of projects), and commands retry tasks only of a daemon that does not
\* crash.
THEOREM BusIsImplemented ==
  ASSUME StagingRenames, MaxCrashes = 0 => NoMixedProjects, MaxCrashes = 0 \/ MaxRetries = 0
  PROVE  Spec => Implements
<1>1. Init => Promise!Init
  BY InitImplements
<1>2. BusInv /\ [Next]_vars => [Promise!Next]_States
  BY StepImplements
<1>3. Spec => Promise!Init /\ [][Promise!Next]_States
  BY <1>1, <1>2, BusInvariant, PTL DEF Spec
<1> QED
  BY <1>3, PTL DEF Implements, Promise!Spec, States

-----------------------------------------------------------------------------
(* What users of the bus rely on (BusProof), said of the daemon's directories *)

Users == INSTANCE BusProof WITH
  st <- [t \in Task |-> StateOf(t)],
  Crashes <- MaxCrashes > 0, Cancels <- MaxCancels > 0, Retries <- MaxRetries > 0

\* BusProof speaks of the same bus.
LEMMA UsersSeeBus == Promise!Spec => Users!Spec
<1>1. Promise!Init => Users!Init
  BY DEF Promise!Init, Users!Init
<1>2. /\ Promise!Outcome = Users!Outcome /\ Promise!Leftover = Users!Leftover
      /\ Promise!InState("running") = Users!InState("running")
  BY DEF Promise!Outcome, Users!Outcome, Promise!Leftover, Users!Leftover,
         Promise!InState, Users!InState
<1>3. ASSUME NEW t \in Task PROVE Promise!Startable(t) <=> Users!Startable(t)
  <2>1. Promise!Cardinality(Promise!InState("running")) = Users!Cardinality(Users!InState("running"))
    BY <1>2 DEF Promise!Cardinality, Users!Cardinality, Promise!IsFiniteSet, Users!IsFiniteSet
  <2>2. Promise!Ready(t) <=> Users!Ready(t)
    BY DEF Promise!Ready, Users!Ready
  <2> QED
    BY <1>2, <2>1, <2>2 DEF Promise!Startable, Users!Startable
<1>4. ASSUME NEW t \in Task, NEW from, NEW to
      PROVE  Promise!Become(t, from, to) <=> Users!Become(t, from, to)
  BY DEF Promise!Become, Users!Become
<1>5. ASSUME NEW t \in Task, Promise!TaskNext(t) PROVE Users!TaskNext(t)
  BY <1>2, <1>3, <1>4, <1>5
     DEF Promise!TaskNext, Promise!Submit, Promise!Start, Promise!Requeue,
         Promise!Cancel, Promise!Withdraw, Promise!Again, Promise!Lose,
         Users!TaskNext, Users!Submit, Users!Start, Users!Requeue,
         Users!Cancel, Users!Withdraw, Users!Again, Users!Lose
<1>6. ASSUME NEW T \in SUBSET Task, Promise!Finish(T) PROVE Users!Finish(T)
  BY <1>2, <1>6 DEF Promise!Finish, Users!Finish
<1>7. [Promise!Next]_States => [Users!Next]_States
  BY <1>5, <1>6 DEF Promise!Next, Users!Next
<1> QED
  BY <1>1, <1>7, PTL DEF Promise!Spec, Users!Spec, States

\* What cur/ holds: no more tasks than slots, none before its dependencies are done, and
\* while the daemon does not crash no two of a project that share its directory.
ClaimsInOrder ==
  /\ IsFiniteSet(cur) /\ Cardinality(cur) <= MaxSlots
  /\ \A t \in cur : DependsOn[t] \subseteq done
  /\ MaxCrashes = 0 =>
       \A t, u \in cur \ Worktree : ProjectOf[t] = ProjectOf[u] => t = u

\* A task that succeeded and was cleaned up is not touched again.
SuccessStays == [][\A t \in done \ cur : t \in done' \ cur']_vars

\* Whatever crashes or is cancelled, what claim_task has moved to cur/ fits the slots and
\* waited for its dependencies, and while the daemon does not crash it is alone in its
\* project's directory.
THEOREM ClaimsAreOrderly ==
  ASSUME StagingRenames, MaxCrashes = 0 => NoMixedProjects, MaxCrashes = 0 \/ MaxRetries = 0
  PROVE  Spec => []ClaimsInOrder
<1>1. MaxSlots \in Nat /\ DependsOn \in [Task -> SUBSET Task]
  BY ConstantsAssumption DEF ConstantsAssumption
<1>2. Users!Spec => [](Users!WithinSlots /\ Users!DependenciesDone /\ Users!ProjectsApart)
  <2>1. Users!Spec => []Users!WithinSlots
    BY <1>1, Users!RunningFitsSlots
  <2>2. Users!Spec => []Users!DependenciesDone
    BY <1>1, Users!DependenciesComeFirst
  <2>3. Users!Spec => []Users!ProjectsApart
    BY Users!ProjectsStayApart
  <2> QED
    BY <2>1, <2>2, <2>3, PTL
<1>3. SlotInv /\ Users!WithinSlots /\ Users!DependenciesDone /\ Users!ProjectsApart => ClaimsInOrder
  <2> SUFFICES ASSUME SlotInv, Users!WithinSlots, Users!DependenciesDone, Users!ProjectsApart
               PROVE  ClaimsInOrder
    OBVIOUS
  <2>1. /\ cur \subseteq Task /\ Users!InState("running") = cur
        /\ \A t \in Task : (t \in cur <=> StateOf(t) = "running")
    BY StateMeans DEF Users!InState, SlotInv, TypeOK
  <2>2. IsFiniteSet(cur) /\ Cardinality(cur) <= MaxSlots
    BY <2>1 DEF Users!WithinSlots, Users!Cardinality, Cardinality, Users!IsFiniteSet, IsFiniteSet
  <2>3. ASSUME NEW t \in cur, NEW u \in DependsOn[t] PROVE u \in done
    <3>1. t \in Task /\ u \in Task /\ StateOf(t) = "running"
      BY <1>1, <2>1
    <3>2. StateOf(u) = "done"
      BY <3>1 DEF Users!DependenciesDone
    <3> QED
      BY <3>2 DEF StateOf
  <2>4. ASSUME MaxCrashes = 0
        PROVE  \A t, u \in cur \ Worktree : ProjectOf[t] = ProjectOf[u] => t = u
    BY <2>1, <2>4 DEF Users!ProjectsApart
  <2> QED
    BY <2>2, <2>3, <2>4 DEF ClaimsInOrder
<1>4. Spec => Promise!Spec
  BY BusIsImplemented DEF Implements
<1> QED
  BY <1>2, <1>3, <1>4, UsersSeeBus, SlotInvariant, PTL

\* No sweep, cancel, timeout or retry by hand takes back a success that was cleaned up, or
\* claims its task again.
THEOREM SuccessesStay ==
  ASSUME StagingRenames, MaxCrashes = 0 => NoMixedProjects, MaxCrashes = 0 \/ MaxRetries = 0
  PROVE  Spec => SuccessStays
<1>1. Users!Spec => [][Users!DoneKept]_States
  BY Users!SuccessIsFinal, PTL DEF Users!DoneStays, States
<1>2. BusInv /\ [Users!DoneKept]_States => [\A t \in done \ cur : t \in done' \ cur']_vars
  <2> SUFFICES ASSUME BusInv, [Users!DoneKept]_States, NEW t \in done \ cur PROVE t \in done' \ cur'
    OBVIOUS
  <2>1. t \in Task /\ Resting(t)
    BY DEF BusInv, SlotInv, TypeOK, PlacesInv
  <2>2. StateOf(t) = "done"
    BY <2>1 DEF StateOf, Resting
  <2>3. StateOf(t)' = "done"
    BY <2>1, <2>2 DEF Users!DoneKept, States
  <2> QED
    BY <2>3 DEF StateOf
<1>3. Spec => Promise!Spec
  BY BusIsImplemented DEF Implements
<1> QED
  BY <1>1, <1>2, <1>3, UsersSeeBus, BusInvariant, PTL DEF SuccessStays
=============================================================================
