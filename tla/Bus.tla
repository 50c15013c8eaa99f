-------------------------------- MODULE Bus --------------------------------
(***************************************************************************)
(* What the legacy task bus promises to its users (punk-run, goals): every *)
(* task is in one state, moves along few edges, waits for its              *)
(* dependencies, and runs within the slots and project locks.  Daemon      *)
(* implements it (Daemon!Implements); Goals builds on it.                  *)
(***************************************************************************)
EXTENDS Integers, FiniteSets

CONSTANTS
  Task, Project,
  ProjectOf, DependsOn,   \* [Task -> Project], [Task -> SUBSET Task]
  Worktree,               \* tasks that take no project lock
  MaxSlots,
  Crashes,    \* the daemon may crash: it then forgets the project locks
  Cancels,    \* `punk-run cancel` may be used
  Retries     \* `punk-run retry` may be used: it may lose a task

VARIABLE st   \* the state of each task

Outcome == {"done", "failed", "dead"}
TaskState == {"absent", "queued", "running", "waiting"} \cup Outcome

InState(s) == {t \in Task : st[t] = s}

Init == st = [t \in Task |-> "absent"]

Become(t, from, to) == st[t] \in from /\ \E s \in to : st' = [st EXCEPT ![t] = s]

Submit(t) == Become(t, {"absent"}, {"queued"})

\* Mutant: a retried task starts without its dependencies.
ReadyWhenRetried(t) == \A u \in DependsOn[t] : st[u] \in Outcome

Ready(t) == \A u \in DependsOn[t] : st[u] = "done"

\* Only a crash lets two tasks of a project run side by side.
Startable(t) ==
  /\ Ready(t)
  /\ Cardinality(InState("running")) < MaxSlots
  /\ Crashes \/ t \in Worktree
     \/ \A u \in InState("running") \ Worktree : ProjectOf[u] # ProjectOf[t]

Start(t) == Startable(t) /\ Become(t, {"queued"}, {"running"})

\* An attempt ends with an outcome, or is to be repeated after a backoff.  A restart
\* and a pass over the cancel signals end several at once.
Finish(T) ==
  /\ T \subseteq InState("running")
  /\ \E end \in [T -> Outcome \cup {"waiting"}] :
       st' = [t \in Task |-> IF t \in T THEN end[t] ELSE st[t]]

Requeue(t) == Become(t, {"waiting"}, {"queued"})

\* A cancel takes a task out of the queue.  Between the two steps of a requeue the
\* retry file is still there, and goes with the second one; a task that a restart had
\* failed as an orphan while its retry was pending is failed again, and one that was
\* being retried by hand has its old outcome again.
Leftover == (IF Crashes THEN {"failed"} ELSE {}) \cup (IF Retries THEN {"failed", "dead"} ELSE {})

Cancel(t)   == Cancels /\ Become(t, {"queued"}, {"absent", "waiting"} \cup Leftover)
Withdraw(t) == Cancels /\ Become(t, {"waiting"}, {"absent"} \cup Leftover)

\* By hand: again into the queue, also before the last claim is cleaned away; then
\* the old outcome is removed, or a new one that is there by now.
Again(t) == Retries /\ Become(t, {"failed", "dead", "running"}, {"queued"})
Lose(t)  == Retries /\ Become(t, {"failed", "dead", "running"}, {"absent"})

TaskNext(t) ==
  \/ Submit(t) \/ Start(t) \/ Requeue(t)
  \/ Cancel(t) \/ Withdraw(t) \/ Again(t) \/ Lose(t)

Next == (\E t \in Task : TaskNext(t)) \/ (\E T \in SUBSET Task : T # {} /\ Finish(T))

Spec == Init /\ [][Next]_st
=============================================================================
