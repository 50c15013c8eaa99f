------------------------------- MODULE Daemon -------------------------------
(***************************************************************************)
(* The dispatch daemon of the legacy workspace (punk/punk-orch): one loop  *)
(* that moves task files new/ -> cur/ -> done/ | failed/ | dead/ on a bus  *)
(* directory, bounded by mkdir slots, one lock file per project,           *)
(* heartbeats, pid files, a retry area and a circuit breaker per provider. *)
(*                                                                         *)
(* Every variable of the first group is a file or directory of the bus and *)
(* survives a crash of the daemon; active, circuit and the cursors are the *)
(* memory of the daemon and do not.  Agent processes are children that     *)
(* outlive a crashed daemon.  The loop is cut into steps where a crash, an *)
(* exiting process or a command-line actor can come between.               *)
(***************************************************************************)
EXTENDS Integers, FiniteSets

CONSTANTS
  Task, Project, Pid, Model,
  NoTask, NoPid, NoAdapter,
  ProjectOf,      \* [Task -> Project], "project" of the task file
  ModelOf,        \* [Task -> Model], the agent or provider the task file names
  AdapterOf,      \* [Model -> Model \cup {NoAdapter}], agent -> provider
  DependsOn,      \* [Task -> SUBSET Task]
  Worktree,       \* tasks submitted with "worktree": true
  ShortTimeout,   \* tasks whose timeout is shorter than one pass of the loop
  SpawnFails,     \* tasks whose CLI or project directory is missing
  SubmitLane,     \* lanes `punk-run queue --priority` is called with
  Pressure,       \* budget pressure levels the receipts index can yield
  StagingRenames, \* the staging directory is on the file system of the bus
  MaxSlots, MaxAttempts, FailureThreshold,
  MaxCrashes, MaxCancels, MaxRetries   \* bounds on the environment

Lane  == {"p0", "p1", "p2"}
Level == {"normal", "soft", "hard", "stop"}
Slot  == 1 .. MaxSlots
Exit  == {"ok", "retryable", "fatal"}

ASSUME ConstantsAssumption ==
  /\ ProjectOf \in [Task -> Project]
  /\ ModelOf \in [Task -> Model]
  /\ AdapterOf \in [Model -> Model \cup {NoAdapter}]
  /\ DependsOn \in [Task -> SUBSET Task]
  /\ Worktree \subseteq Task
  /\ SubmitLane \subseteq Lane
  /\ Pressure \subseteq Level
  /\ StagingRenames \in BOOLEAN
  /\ MaxSlots \in Nat /\ MaxAttempts \in Nat /\ FailureThreshold \in Nat \ {0}
  /\ MaxCrashes \in Nat /\ MaxCancels \in Nat /\ MaxRetries \in Nat
  /\ NoTask \notin Task /\ NoPid \notin Pid /\ NoAdapter \notin Model

VARIABLES
  lane,      \* new/: the lane that holds the task's file, or "none"
  cur,       \* cur/: claimed tasks
  done, failed, dead,   \* tasks with a directory under done/, failed/, dead/
  retry,     \* runs/<task>/retry-*.json: "none", "waiting" or "due"
  attempts,  \* number of runs/<task>/run-*.json files
  slot,      \* .slots/: free, taken but unowned, or owned by a task
  lock,      \* .locks/: the task named in the lock file, or NoTask
  hb,        \* .heartbeats/: "none", "fresh" or "stale"
  pidfile,   \* .pids/
  signal,    \* .cancel/
  active,    \* the daemon's map of tracked runs
  circuit,   \* the daemon's circuit breakers
  pc, hand, scan, level,  \* where the loop is and what it holds
  proc,      \* agent processes
  erasing,   \* tasks whose `punk-run retry` has copied but not yet removed
  spent,     \* environment steps used so far
  submitted, cancelled, spawned, probes  \* history: submissions, queue cancels,
                                         \* spawns, claims in a half-open circuit

busVars  == <<lane, cur, done, failed, dead, retry, attempts>>
trackVars == <<slot, lock, hb, pidfile>>
memVars  == <<active, circuit, pc, hand, scan, level>>
histVars == <<submitted, cancelled, spawned, probes>>
envVars  == <<erasing, spent>>
vars == <<busVars, trackVars, signal, memVars, proc, envVars, histVars>>

NoRun  == [slot |-> 0, pid |-> NoPid, attempt |-> 0]
NoHand == [task |-> NoTask, run |-> NoRun]
NoProc == [task |-> NoTask, st |-> "gone"]
Closed == [st |-> "closed", fails |-> 0]

SlotState == [free : BOOLEAN, owner : Task \cup {NoTask}]
Free      == [free |-> TRUE, owner |-> NoTask]
OwnedBy(t) == [free |-> FALSE, owner |-> t]

Active == {t \in Task : active[t] # NoRun}

-----------------------------------------------------------------------------
(* Slots, locks, processes                                                 *)

Occupied == {s \in Slot : ~slot[s].free}

\* Mutant: a slot directory that exists is taken as acquired.
FirstSlot == 1

\* SlotManager::acquire: the first mkdir that succeeds.
LowestFree == CHOOSE s \in Slot \ Occupied : \A r \in Slot \ Occupied : s <= r

\* Mutants: the directory or lock file is not removed.
LeakSlots(S) == slot
KeepLocks(P) == lock

\* SlotManager::release and ProjectLock::release look at no owner.
FreeSlots(S) == [s \in Slot |-> IF s \in S THEN Free ELSE slot[s]]
Unlocked(P)  == [p \in Project |-> IF p \in P THEN NoTask ELSE lock[p]]

\* kill(pid, 0): a child that exited and is not yet waited for still counts.
PidAlive(p) == p # NoPid /\ proc[p].st # "gone"

\* Rename of the staging directory into done/, failed/ or dead/; the error is
\* dropped by the code, so across file systems nothing arrives.
MoveStaging(dir, T) == IF StagingRenames THEN dir \cup T ELSE dir

-----------------------------------------------------------------------------
(* Circuit breaker and retry policy                                        *)

RecordSuccess(c) == Closed
RecordFailure(c) ==
  LET n == IF c.fails < FailureThreshold THEN c.fails + 1 ELSE c.fails
  IN  [st |-> IF n = FailureThreshold THEN "open" ELSE c.st, fails |-> n]
CheckCooldown(c) == IF c.st = "cooled" THEN [c EXCEPT !.st = "half_open"] ELSE c
Allows(c) == c.st # "open"

\* Mutant: one attempt too many.
RetryOnceMore(exit, attempt) ==
  IF exit = "fatal" THEN "not_retryable"
  ELSE IF attempt > MaxAttempts THEN "exhausted" ELSE "retry"

\* should_retry: permanent failures never, others up to MaxAttempts.
RetryDecision(exit, attempt) ==
  IF exit = "fatal" THEN "not_retryable"
  ELSE IF attempt >= MaxAttempts THEN "exhausted" ELSE "retry"

\* Budget pressure.
EffectiveSlots(l) ==
  CASE l = "hard" -> IF MaxSlots < 2 THEN MaxSlots ELSE 2
    [] l = "stop" -> 1
    [] OTHER -> MaxSlots
PriorityAllowed(l, ln) ==
  CASE l = "hard" -> ln \in {"p0", "p1"}
    [] l = "stop" -> ln = "p0"
    [] OTHER -> TRUE

-----------------------------------------------------------------------------
Init ==
  /\ lane = [t \in Task |-> "none"]
  /\ cur = {} /\ done = {} /\ failed = {} /\ dead = {}
  /\ retry = [t \in Task |-> "none"]
  /\ attempts = [t \in Task |-> 0]
  /\ slot = [s \in Slot |-> Free]
  /\ lock = [p \in Project |-> NoTask]
  /\ hb = [t \in Task |-> "none"]
  /\ pidfile = [t \in Task |-> NoPid]
  /\ signal = {}
  /\ active = [t \in Task |-> NoRun]
  /\ circuit = [m \in Model |-> Closed]
  /\ pc = "down" /\ hand = NoHand /\ scan = {} /\ level = "normal"
  /\ proc = [p \in Pid |-> NoProc]
  /\ erasing = {}
  /\ spent = [crash |-> 0, cancel |-> 0, retry |-> 0]
  /\ submitted = {} /\ cancelled = {}
  /\ spawned = [t \in Task |-> 0]
  /\ probes = [m \in Model |-> 0]

-----------------------------------------------------------------------------
(* Start-up: recover slots, sweep orphans, clear locks                     *)

Start ==
  /\ pc = "down"
  /\ pc' = "recover_slots"
  /\ UNCHANGED <<busVars, trackVars, signal, active, circuit, hand, scan, level,
                 proc, envVars, histVars>>

\* A slot survives only if a task recorded in it has a pid file of a live process.
RecoverSlots ==
  /\ pc = "recover_slots"
  /\ slot' = FreeSlots({s \in Slot : \/ slot[s].owner = NoTask
                                     \/ ~PidAlive(pidfile[slot[s].owner])})
  /\ pc' = "orphans"
  /\ UNCHANGED <<busVars, lock, hb, pidfile, signal, active, circuit, hand, scan,
                 level, proc, envVars, histVars>>

\* Mutant: an orphan's file is removed from cur/ before it is moved to failed/.
DropOrphans(orphans) == failed

FailOrphans(orphans) == failed \cup orphans

\* Dead orphans fail; live ones are left in cur/ and enter no table.
SweepOrphans ==
  LET orphans == {t \in cur : ~PidAlive(pidfile[t])}
  IN  /\ pc = "orphans"
      /\ failed' = FailOrphans(orphans)
      /\ cur' = cur \ orphans
      /\ hb' = [t \in Task |-> IF t \in orphans THEN "none" ELSE hb[t]]
      /\ pidfile' = [t \in Task |-> IF t \in orphans THEN NoPid ELSE pidfile[t]]
      /\ pc' = "clear_locks"
      /\ UNCHANGED <<lane, done, dead, retry, attempts, slot, lock, signal, active,
                     circuit, hand, scan, level, proc, envVars, histVars>>

ClearLocks ==
  /\ pc = "clear_locks"
  /\ lock' = [p \in Project |-> NoTask]
  /\ pc' = "tick"
  /\ UNCHANGED <<busVars, slot, hb, pidfile, signal, active, circuit, hand, scan,
                 level, proc, envVars, histVars>>

Tick ==
  /\ pc = "tick"
  /\ pc' = "cancel"
  /\ UNCHANGED <<busVars, trackVars, signal, active, circuit, hand, scan, level,
                 proc, envVars, histVars>>

-----------------------------------------------------------------------------
(* Pass of the loop, part 1: cancel signals and heartbeats                 *)

\* Every signal file goes, also those of tasks the daemon does not track.
\* A cancelled process gets SIGTERM and is not waited for.
ProcessCancels ==
  LET hit   == signal \cap Active
      alive == Active \ hit
  IN  /\ pc = "cancel"
      /\ signal' = {}
      /\ failed' = MoveStaging(failed, hit)
      /\ cur' = cur \ hit
      /\ slot' = FreeSlots({active[t].slot : t \in hit})
      /\ lock' = Unlocked({ProjectOf[t] : t \in hit})
      /\ pidfile' = [t \in Task |-> IF t \in hit THEN NoPid ELSE pidfile[t]]
      /\ hb' = [t \in Task |-> IF t \in hit THEN "none"
                               ELSE IF t \in alive THEN "fresh" ELSE hb[t]]
      /\ active' = [t \in Task |-> IF t \in hit THEN NoRun ELSE active[t]]
      /\ proc' = [p \in Pid |-> IF \E t \in hit : active[t].pid = p /\ proc[p].st \in Exit
                                THEN NoProc ELSE proc[p]]
      /\ pc' = "collect"
      /\ UNCHANGED <<lane, done, dead, retry, attempts, circuit, hand, scan, level,
                     envVars, histVars>>

-----------------------------------------------------------------------------
(* Part 2: collect completed processes                                     *)

\* The outcome is recorded first, then Cleanup gives the resources back.
Collect(t) ==
  LET run  == active[t]
      exit == proc[run.pid].st
      prov == AdapterOf[ModelOf[t]]
      then == RetryDecision(exit, run.attempt)
  IN  /\ pc = "collect"
      /\ t \in Active
      /\ exit \in Exit
      /\ circuit' = [circuit EXCEPT ![prov] =
                       IF exit = "ok" THEN RecordSuccess(@) ELSE RecordFailure(@)]
      /\ done' = IF exit = "ok" THEN MoveStaging(done, {t}) ELSE done
      /\ failed' = IF exit # "ok" /\ then = "not_retryable"
                   THEN MoveStaging(failed, {t}) ELSE failed
      /\ dead' = IF exit # "ok" /\ then = "exhausted"
                 THEN MoveStaging(dead, {t}) ELSE dead
      /\ retry' = IF exit # "ok" /\ then = "retry"
                  THEN [retry EXCEPT ![t] = "waiting"] ELSE retry
      /\ active' = [active EXCEPT ![t] = NoRun]
      /\ proc' = [proc EXCEPT ![run.pid] = NoProc]
      /\ hand' = [task |-> t, run |-> run]
      /\ pc' = "cleanup"
      /\ probes' = [probes EXCEPT ![prov] = 0]
      /\ UNCHANGED <<lane, cur, attempts, trackVars, signal, scan, level, envVars,
                     submitted, cancelled, spawned>>

\* The project lock goes whether or not this task took it.
Cleanup ==
  LET t == hand.task
  IN  /\ pc = "cleanup"
      /\ hb' = [hb EXCEPT ![t] = "none"]
      /\ pidfile' = [pidfile EXCEPT ![t] = NoPid]
      /\ slot' = FreeSlots({hand.run.slot})
      /\ lock' = Unlocked({ProjectOf[t]})
      /\ cur' = cur \ {t}
      /\ hand' = NoHand
      /\ pc' = "collect"
      /\ UNCHANGED <<lane, done, failed, dead, retry, attempts, signal, active,
                     circuit, scan, level, proc, envVars, histVars>>

EndCollect ==
  /\ pc = "collect"
  /\ \A t \in Active : proc[active[t].pid].st \notin Exit
  /\ pc' = "reap"
  /\ UNCHANGED <<busVars, trackVars, signal, active, circuit, hand, scan, level,
                 proc, envVars, histVars>>

-----------------------------------------------------------------------------
(* Part 3: reap tasks whose heartbeat file is older than their timeout     *)

\* Mutant: only SIGTERM, which the process may ignore.
Terminate(t) == proc

\* SIGTERM, two seconds, SIGKILL to the pid the pid file names.
Kill(t) == [p \in Pid |-> IF p = pidfile[t] THEN NoProc ELSE proc[p]]

Stale == {t \in cur : hb[t] = "stale"}

\* A tracked task gives slot and lock back; an untracked one gives back neither.
Reap(t) ==
  /\ pc = "reap"
  /\ t \in Stale
  /\ failed' = IF t \in Active THEN MoveStaging(failed, {t}) ELSE failed \cup {t}
  /\ slot' = IF t \in Active THEN FreeSlots({active[t].slot}) ELSE slot
  /\ lock' = IF t \in Active THEN Unlocked({ProjectOf[t]}) ELSE lock
  /\ active' = [active EXCEPT ![t] = NoRun]
  /\ proc' = Kill(t)
  /\ cur' = cur \ {t}
  /\ hb' = [hb EXCEPT ![t] = "none"]
  /\ pidfile' = [pidfile EXCEPT ![t] = NoPid]
  /\ UNCHANGED <<lane, done, dead, retry, attempts, signal, circuit, pc, hand, scan,
                 level, envVars, histVars>>

EndReap ==
  /\ pc = "reap"
  /\ Stale = {}
  /\ pc' = "retries"
  /\ UNCHANGED <<busVars, trackVars, signal, active, circuit, hand, scan, level,
                 proc, envVars, histVars>>

-----------------------------------------------------------------------------
(* Part 4: requeue failed attempts whose backoff is over                   *)

\* Mutant: a lane below p2, which scan_queue does not read.
RequeueLaneUnscanned == "p3"

RequeueLane == "p1"

RequeueWrite(t) ==
  /\ pc = "retries"
  /\ retry[t] = "due"
  /\ lane' = [lane EXCEPT ![t] = RequeueLane]
  /\ hand' = [task |-> t, run |-> NoRun]
  /\ pc' = "requeue"
  /\ UNCHANGED <<cur, done, failed, dead, retry, attempts, trackVars, signal, active,
                 circuit, scan, level, proc, envVars, histVars>>

RequeueClean ==
  /\ pc = "requeue"
  /\ retry' = [retry EXCEPT ![hand.task] = "none"]
  /\ hand' = NoHand
  /\ pc' = "retries"
  /\ UNCHANGED <<lane, cur, done, failed, dead, attempts, trackVars, signal, active,
                 circuit, scan, level, proc, envVars, histVars>>

-----------------------------------------------------------------------------
(* Part 5: scan the queue and dispatch                                     *)

Queued == {t \in Task : lane[t] # "none"}

\* Budget pressure is read once per pass, the queue is listed once per pass.
BeginDispatch ==
  /\ pc = "retries"
  /\ \A t \in Task : retry[t] # "due"
  /\ \E l \in Pressure :
       IF Cardinality(Occupied) >= EffectiveSlots(l)
       THEN pc' = "tick" /\ UNCHANGED <<scan, level>>
       ELSE pc' = "dispatch" /\ scan' = Queued /\ level' = l
  /\ UNCHANGED <<busVars, trackVars, signal, active, circuit, hand, proc, envVars,
                 histVars>>

LaneRank(t) ==
  CASE lane[t] = "p0" -> 1 [] lane[t] = "p1" -> 2 [] lane[t] = "p2" -> 3 [] OTHER -> 0

NextInScan(t) == t \in scan /\ \A u \in scan : LaneRank(t) <= LaneRank(u)

NoRoom    == Cardinality(Occupied) >= EffectiveSlots(level) \/ Occupied = Slot
DepsReady(t) == DependsOn[t] \subseteq done
Breaker(t)   == CheckCooldown(circuit[ModelOf[t]])

\* Mutant: the result of try_acquire is ignored.
LockIgnored(t) == TRUE

LockFree(t) == t \in Worktree \/ lock[ProjectOf[t]] = NoTask

EndDispatch ==
  /\ pc = "dispatch"
  /\ scan = {} \/ NoRoom
  /\ scan' = {}
  /\ level' = "normal"
  /\ pc' = "tick"
  /\ UNCHANGED <<busVars, trackVars, signal, active, circuit, hand, proc, envVars,
                 histVars>>

\* The checks in their order; only the breaker leaves a trace when a later one fails.
Skip(t) ==
  LET asked == PriorityAllowed(level, lane[t]) /\ DepsReady(t)
  IN  /\ pc = "dispatch"
      /\ ~NoRoom
      /\ NextInScan(t)
      /\ ~asked \/ ~Allows(Breaker(t)) \/ ~LockFree(t) \/ lane[t] = "none"
      /\ circuit' = IF asked THEN [circuit EXCEPT ![ModelOf[t]] = Breaker(t)] ELSE circuit
      /\ scan' = scan \ {t}
      /\ UNCHANGED <<busVars, trackVars, signal, active, pc, hand, level, proc,
                     envVars, histVars>>

Claim(t) ==
  /\ pc = "dispatch"
  /\ ~NoRoom
  /\ NextInScan(t)
  /\ PriorityAllowed(level, lane[t])
  /\ DepsReady(t)
  /\ Allows(Breaker(t))
  /\ LockFree(t)
  /\ lane[t] # "none"
  /\ circuit' = [circuit EXCEPT ![ModelOf[t]] = Breaker(t)]
  /\ slot' = [slot EXCEPT ![LowestFree] = OwnedBy(t)]
  /\ lock' = IF t \in Worktree THEN lock ELSE [lock EXCEPT ![ProjectOf[t]] = t]
  /\ lane' = [lane EXCEPT ![t] = "none"]
  /\ cur' = cur \cup {t}
  /\ scan' = scan \ {t}
  /\ hand' = [task |-> t, run |-> [slot |-> LowestFree, pid |-> NoPid, attempt |-> 0]]
  /\ pc' = "spawn"
  /\ probes' = [probes EXCEPT ![ModelOf[t]] =
                   IF Breaker(t).st = "half_open" THEN @ + 1 ELSE 0]
  /\ UNCHANGED <<done, failed, dead, retry, attempts, hb, pidfile, signal, active,
                 level, proc, envVars, submitted, cancelled, spawned>>

\* Unknown provider or failed spawn: failed/, slot and lock back, lock also for a
\* worktree task.  Only a failed spawn leaves a run file and clears tracking files.
SpawnRefused ==
  LET t == hand.task
      known == AdapterOf[ModelOf[t]] # NoAdapter
  IN  /\ pc = "spawn"
      /\ ~known \/ t \in SpawnFails
      /\ attempts' = IF known THEN [attempts EXCEPT ![t] = @ + 1] ELSE attempts
      /\ hb' = IF known THEN [hb EXCEPT ![t] = "none"] ELSE hb
      /\ pidfile' = IF known THEN [pidfile EXCEPT ![t] = NoPid] ELSE pidfile
      /\ failed' = failed \cup {t}
      /\ cur' = cur \ {t}
      /\ slot' = FreeSlots({hand.run.slot})
      /\ lock' = Unlocked({ProjectOf[t]})
      /\ hand' = NoHand
      /\ pc' = "dispatch"
      /\ UNCHANGED <<lane, done, dead, retry, signal, active, circuit, scan, level,
                     proc, envVars, histVars>>

\* The kernel does not reuse a pid that a pid file still names (see README).
Spawn ==
  LET t == hand.task
  IN  /\ pc = "spawn"
      /\ AdapterOf[ModelOf[t]] # NoAdapter /\ t \notin SpawnFails
      /\ \E p \in Pid :
           /\ proc[p] = NoProc
           /\ \A u \in Task : pidfile[u] # p
           /\ proc' = [proc EXCEPT ![p] = [task |-> t, st |-> "running"]]
           /\ hand' = [hand EXCEPT !.run.pid = p, !.run.attempt = attempts[t] + 1]
      /\ spawned' = [spawned EXCEPT ![t] = @ + 1]
      /\ pc' = "register"
      /\ UNCHANGED <<busVars, trackVars, signal, active, circuit, scan, level, envVars,
                     submitted, cancelled, probes>>

Register ==
  LET t == hand.task
  IN  /\ pc = "register"
      /\ hb' = [hb EXCEPT ![t] = "fresh"]
      /\ pidfile' = [pidfile EXCEPT ![t] = hand.run.pid]
      /\ attempts' = [attempts EXCEPT ![t] = hand.run.attempt]
      /\ active' = [active EXCEPT ![t] = hand.run]
      /\ hand' = NoHand
      /\ pc' = "dispatch"
      /\ UNCHANGED <<lane, cur, done, failed, dead, retry, slot, lock, signal, circuit,
                     scan, level, proc, envVars, histVars>>

-----------------------------------------------------------------------------
(* The environment: agent processes, time, the command line, crashes       *)

\* A child of the running daemon stays a zombie until Collect waits for it.
ProcExit(p) ==
  /\ proc[p].st = "running"
  /\ \E e \in Exit :
       proc' = [proc EXCEPT ![p] =
         IF hand.run.pid = p \/ \E t \in Active : active[t].pid = p
         THEN [@ EXCEPT !.st = e] ELSE NoProc]
  /\ UNCHANGED <<busVars, trackVars, signal, memVars, envVars, histVars>>

BackoffElapses(t) ==
  /\ retry[t] = "waiting"
  /\ retry' = [retry EXCEPT ![t] = "due"]
  /\ UNCHANGED <<lane, cur, done, failed, dead, attempts, trackVars, signal, memVars,
                 proc, envVars, histVars>>

CooldownElapses(m) ==
  /\ circuit[m].st = "open"
  /\ circuit' = [circuit EXCEPT ![m].st = "cooled"]
  /\ UNCHANGED <<busVars, trackVars, signal, active, pc, hand, scan, level, proc,
                 envVars, histVars>>

\* The daemon itself touches the heartbeats of tracked tasks in every pass, so a
\* tracked one can grow old only if its timeout is shorter than a pass.
HeartbeatAges(t) ==
  /\ hb[t] = "fresh"
  /\ t \in ShortTimeout \/ pc \in {"tick", "down"}
  /\ hb' = [hb EXCEPT ![t] = "stale"]
  /\ UNCHANGED <<busVars, slot, lock, pidfile, signal, memVars, proc, envVars, histVars>>

Submit(t) ==
  /\ t \notin submitted
  /\ \E l \in SubmitLane : lane' = [lane EXCEPT ![t] = l]
  /\ submitted' = submitted \cup {t}
  /\ UNCHANGED <<cur, done, failed, dead, retry, attempts, trackVars, signal, memVars,
                 proc, envVars, cancelled, spawned, probes>>

\* `punk-run cancel`: out of the queue if it is there, else a signal file.
CliCancel(t) ==
  /\ spent.cancel < MaxCancels
  /\ \/ /\ lane[t] # "none"
        /\ lane' = [lane EXCEPT ![t] = "none"]
        /\ cancelled' = cancelled \cup {t}
        /\ UNCHANGED signal
     \/ /\ lane[t] = "none" /\ t \in cur
        /\ signal' = signal \cup {t}
        /\ UNCHANGED <<lane, cancelled>>
  /\ spent' = [spent EXCEPT !.cancel = @ + 1]
  /\ UNCHANGED <<cur, done, failed, dead, retry, attempts, trackVars, memVars, proc,
                 erasing, submitted, spawned, probes>>

\* `punk-run retry`: copy the task file to new/p1, then remove the old directories.
CliRetryCopy(t) ==
  /\ spent.retry < MaxRetries
  /\ t \in failed \cup dead
  /\ t \notin erasing
  /\ lane' = [lane EXCEPT ![t] = "p1"]
  /\ erasing' = erasing \cup {t}
  /\ cancelled' = cancelled \ {t}
  /\ spent' = [spent EXCEPT !.retry = @ + 1]
  /\ UNCHANGED <<cur, done, failed, dead, retry, attempts, trackVars, signal, memVars,
                 proc, submitted, spawned, probes>>

\* Mutant: only the failed/ directory is removed.
CliRetryRemoveFailed(t) ==
  /\ t \in erasing
  /\ failed' = failed \ {t}
  /\ erasing' = erasing \ {t}
  /\ UNCHANGED <<lane, cur, done, dead, retry, attempts, trackVars, signal, memVars,
                 proc, spent, histVars>>

CliRetryRemove(t) ==
  /\ t \in erasing
  /\ failed' = failed \ {t}
  /\ dead' = dead \ {t}
  /\ erasing' = erasing \ {t}
  /\ UNCHANGED <<lane, cur, done, retry, attempts, trackVars, signal, memVars, proc,
                 spent, histVars>>

Crash ==
  /\ pc # "down"
  /\ spent.crash < MaxCrashes
  /\ spent' = [spent EXCEPT !.crash = @ + 1]
  /\ pc' = "down" /\ hand' = NoHand /\ scan' = {} /\ level' = "normal"
  /\ active' = [t \in Task |-> NoRun]
  /\ circuit' = [m \in Model |-> Closed]
  /\ proc' = [p \in Pid |-> IF proc[p].st = "running" THEN proc[p] ELSE NoProc]
  /\ UNCHANGED <<busVars, trackVars, signal, erasing, histVars>>

-----------------------------------------------------------------------------
Loop ==
  \/ Start \/ RecoverSlots \/ SweepOrphans \/ ClearLocks \/ Tick
  \/ ProcessCancels \/ Cleanup \/ EndCollect \/ EndReap \/ RequeueClean
  \/ BeginDispatch \/ EndDispatch \/ SpawnRefused \/ Spawn \/ Register
  \/ \E t \in Task : Collect(t) \/ Reap(t) \/ RequeueWrite(t) \/ Skip(t) \/ Claim(t)

World ==
  \/ \E p \in Pid : ProcExit(p)
  \/ \E m \in Model : CooldownElapses(m)
  \/ \E t \in Task : \/ BackoffElapses(t) \/ HeartbeatAges(t) \/ Submit(t)
                     \/ CliCancel(t) \/ CliRetryCopy(t) \/ CliRetryRemove(t)
  \/ Crash

Next == Loop \/ World

Spec == Init /\ [][Next]_vars

-----------------------------------------------------------------------------
(* Properties                                                              *)

Places == {"down", "recover_slots", "orphans", "clear_locks", "tick", "cancel", "collect",
           "cleanup", "reap", "retries", "requeue", "dispatch", "spawn", "register"}
CircuitType == [st : {"closed", "open", "cooled", "half_open"}, fails : Nat]
RunType == [slot : 0 .. MaxSlots, pid : Pid \cup {NoPid}, attempt : Nat]

\* Every variable keeps its type; in particular a requeued task is written to
\* a lane that scan_queue reads.
TypeOK ==
  /\ lane \in [Task -> Lane \cup {"none"}]
  /\ cur \subseteq Task /\ done \subseteq Task /\ failed \subseteq Task /\ dead \subseteq Task
  /\ retry \in [Task -> {"none", "waiting", "due"}]
  /\ attempts \in [Task -> Nat]
  /\ slot \in [Slot -> SlotState]
  /\ lock \in [Project -> Task \cup {NoTask}]
  /\ hb \in [Task -> {"none", "fresh", "stale"}]
  /\ pidfile \in [Task -> Pid \cup {NoPid}]
  /\ signal \subseteq Task
  /\ active \in [Task -> RunType]
  /\ circuit \in [Model -> CircuitType]
  /\ pc \in Places
  /\ hand \in [task : Task \cup {NoTask}, run : RunType]
  /\ scan \subseteq Task
  /\ level \in Level
  /\ proc \in [Pid -> [task : Task \cup {NoTask}, st : Exit \cup {"gone", "running"}]]
  /\ erasing \subseteq Task
  /\ spent \in [crash : Nat, cancel : Nat, retry : Nat]
  /\ submitted \subseteq Task /\ cancelled \subseteq Task
  /\ spawned \in [Task -> Nat] /\ probes \in [Model -> Nat]

\* A run holds its resources while it is tracked or in the daemon's hand.
InHand   == hand.run # NoRun
Holds(t) == t \in Active \/ (InHand /\ hand.task = t)

\* Every run works in a slot directory that names its task, so two runs never
\* share a slot and never more than MaxSlots are tracked: whatever crashes,
\* cancels and sweeps came before (acquire, record_owner, release, recover_stale).
SlotsOwned ==
  /\ \A t \in Active : slot[active[t].slot] = OwnedBy(t)
  /\ InHand => slot[hand.run.slot] = OwnedBy(hand.task)

\* The daemon never tracks two tasks of one project unless one of them is a
\* worktree task: the promise of ProjectLock, seen from the daemon's own map.
ActiveExclusive ==
  \A t, u \in Task \ Worktree :
     Holds(t) /\ Holds(u) /\ ProjectOf[t] = ProjectOf[u] => t = u

\* While the daemon does not crash no slot leaks: the taken slots are those of the
\* runs it holds, however dispatch, collection, retries and reaping interleave.
SlotsAccounted ==
  Occupied = {active[t].slot : t \in Active} \cup (IF InHand THEN {hand.run.slot} ELSE {})

Running(t) == {p \in Pid : proc[p] = [task |-> t, st |-> "running"]}

\* The promise of ProjectLock on the agent processes themselves: two tasks of one
\* project, neither in a worktree, never run at the same time.
WorkersExclusive ==
  \A t, u \in Task \ Worktree :
     ProjectOf[t] = ProjectOf[u] /\ Running(t) # {} /\ Running(u) # {} => t = u

\* No task is executed by two processes at once, retries by hand included.
OneProcessPerTask == \A t \in Task : Cardinality(Running(t)) <= 1

\* A submitted task that nobody cancelled in the queue is always somewhere on the
\* bus, at every point where the daemon may crash.
NothingLost ==
  \A t \in submitted \ cancelled :
     lane[t] # "none" \/ retry[t] # "none" \/ t \in cur \cup done \cup failed \cup dead

\* Outside the two steps of `punk-run retry` a task has at most one outcome.
OneVerdict ==
  \A t \in Task \ erasing :
     ~ (t \in done \cap failed \/ t \in done \cap dead \/ t \in failed \cap dead)

\* Attempts are counted from the run files; the processes really started exceed
\* MaxAttempts only by retries asked for by hand and by crashes before a run file.
SpawnsBounded ==
  \A t \in Task : spawned[t] <= MaxAttempts + spent.retry + spent.crash

\* "allow 1 probe" of CircuitBreaker::allows: a half-open circuit lets one run
\* through until that run has told success from failure.
OneProbe == \A m \in Model : probes[m] <= 1

-----------------------------------------------------------------------------
(* Fairness: the loop keeps running, agents end, backoffs and cooldowns    *)
(* elapse.  Nothing is assumed of the command line.                        *)

Timers == /\ \A t \in Task : WF_vars(BackoffElapses(t))
          /\ \A m \in Model : WF_vars(CooldownElapses(m))
Agents == \A p \in Pid : WF_vars(ProcExit(p))

FairSpec == Spec /\ WF_vars(Loop) /\ Timers /\ Agents

\* The same without agents that end by themselves, and with time for heartbeat
\* files to age whenever they can.
HungSpec == Spec /\ WF_vars(Loop) /\ Timers /\ \A t \in Task : SF_vars(HeartbeatAges(t))

\* A queued task whose dependencies are done gets an outcome: it is not starved by
\* the project lock, the slots, the breaker or its own retries.  (From states before
\* the first retry by hand: the two steps of CliRetry can lose a task, see README.)
Settles ==
  \A t \in Task : (t \in submitted /\ DepsReady(t) /\ spent.retry = 0)
                     ~> (t \in done \cup failed \cup dead)

\* The task timeout: a tracked task does not stay tracked for ever.
TimeoutEnds == \A t \in Task : (t \in Active) ~> (t \notin Active)
=============================================================================
