------------------------------- MODULE Goals -------------------------------
(***************************************************************************)
(* Goals of the legacy workspace (punk/punk-orch/src/goal.rs): a goal file *)
(* holds a plan whose steps become tasks of the bus.  The daemon evaluates *)
(* the active goals once per pass; punk-run approves, pauses, cancels and  *)
(* replans them.  Both read the whole file, work, and write the whole file *)
(* back, without a lock.  The bus is the one Daemon implements (Bus).      *)
(***************************************************************************)
EXTENDS Integers, FiniteSets, FiniteSetsExt

CONSTANTS
  Goal,
  Step,          \* step numbers of a plan
  Deps,          \* [Step -> SUBSET Step], "depends_on"; every plan has these
  MaxSlots,
  Commands,      \* the goal commands that are used
  MaxCommands, MaxCrashes, MaxTaskCancels   \* bounds on the environment

Op   == {"approve", "pause", "resume", "cancel", "budget", "replan"}
Task == Goal \X Step

ASSUME GoalsAssumption ==
  /\ Step \subseteq Nat /\ IsFiniteSet(Step)
  /\ Deps \in [Step -> SUBSET Step]
  /\ Commands \subseteq Op
  /\ MaxSlots \in Nat /\ MaxCommands \in Nat
  /\ MaxCrashes \in Nat /\ MaxTaskCancels \in Nat

VARIABLES
  st,        \* the bus: state of every task
  twice,     \* tasks queued again while their retry file was pending
  goal,      \* goals/<g>.json
  pass,      \* the daemon's pass: the copies list_goals read, or NoCopy
  cmd,       \* the punk-run command in flight on a goal, and the copy it read
  earned,    \* history: how often each task was done
  lost,      \* history: a save was overwritten by an older copy, or never made
  used       \* commands, crashes and task cancels so far

busVars == <<st, twice>>
vars == <<busVars, goal, pass, cmd, earned, lost, used>>

TheBus == INSTANCE Bus WITH
  Project <- Goal, ProjectOf <- [t \in Task |-> t[1]],
  DependsOn <- [t \in Task |-> {}], Worktree <- {},
  Crashes <- MaxCrashes > 0, Cancels <- MaxTaskCancels > 0, Retries <- FALSE

\* Steps carry "pending" while there is no plan.  spent[s]: how often the cost of
\* step s was added; the model stops counting it, and earned, at 2.
NewGoal == [status |-> "planning", plan |-> FALSE, deadEnd |-> FALSE,
            step |-> [s \in Step |-> "pending"], spent |-> [s \in Step |-> 0]]
NoCopy  == [status |-> "none"]
NoCmd   == [op |-> "none", read |-> NoCopy]

-----------------------------------------------------------------------------
(* What the code computes from a goal and the bus                          *)

Terminal == {"done", "blocked", "failed"}
Inflight == {"queued", "running"}

\* Mutant: any directory of a finished task counts as success.
SeenFinished(g, s) ==
  CASE st[<<g, s>>] \in Inflight -> st[<<g, s>>]
    [] st[<<g, s>>] \in {"done", "failed", "dead"} -> "done"
    [] OTHER -> "none"

\* Mutant: a failed attempt counts, whether or not it is repeated.
SeenAttempt(g, s) ==
  CASE st[<<g, s>>] \in Inflight -> st[<<g, s>>]
    [] st[<<g, s>>] = "done" -> "done"
    [] st[<<g, s>>] \in {"failed", "dead", "waiting"} -> "failed"
    [] OTHER -> "none"

\* task_step_status: during a retry backoff a task is in no directory it looks at.
Seen(g, s) ==
  CASE st[<<g, s>>] \in Inflight -> st[<<g, s>>]
    [] st[<<g, s>>] = "done" -> "done"
    [] st[<<g, s>>] \in {"failed", "dead"} -> "failed"
    [] OTHER -> "none"

HasInflight(rec) == \E s \in Step : rec.plan /\ rec.step[s] \in Inflight

\* Mutant: a dependency that was started is good enough.
DepsStarted(rec, s) == \A d \in Deps[s] : rec.step[d] # "pending"

DepsMet(rec, s)     == \A d \in Deps[s] : rec.step[d] = "done"

\* Mutant: no step is ever blocked.
NeverBlocked(rec, s) == FALSE

DepsBlocked(rec, s) == \E d \in Deps[s] : rec.step[d] \in {"blocked", "failed"}

Ready(rec) == {s \in Step : rec.plan /\ rec.step[s] = "pending" /\ DepsMet(rec, s)}

\* queue_ready_steps: a ready step whose task the bus knows takes that task's status,
\* whichever plan it was queued for; the others are queued.
ToSubmit(g, rec) == {s \in Ready(rec) : Seen(g, s) = "none"}
WithReady(g, rec) ==
  [rec EXCEPT !.step = [s \in Step |->
     IF s \in ToSubmit(g, rec) THEN "queued" ELSE IF s \in Ready(rec) THEN Seen(g, s) ELSE @[s]]]

\* Creating new/p1/<goal>-step<n>.json.  A pending retry file stays pending.
SubmitSteps(g, S) ==
  /\ st' = [t \in Task |-> IF t \in {g} \X S THEN "queued" ELSE st[t]]
  /\ twice' = twice \cup {t \in {g} \X S : st[t] = "waiting"}

-----------------------------------------------------------------------------
(* evaluate_goals                                                          *)

\* Mutant: a step that is over is looked up again.
SyncAlways(g, rec) == {s \in Step : Seen(g, s) # "none"}

Synced(g, rec) ==
  {s \in Step : rec.step[s] \in Inflight /\ Seen(g, s) \notin {"none", rec.step[s]}}

\* Only the receipt in done/ is asked for a cost.
SyncSteps(g, rec) ==
  [rec EXCEPT
     !.step  = [s \in Step |-> IF s \in Synced(g, rec) THEN Seen(g, s) ELSE @[s]],
     !.spent = [s \in Step |-> IF s \in Synced(g, rec) /\ Seen(g, s) = "done" /\ @[s] < 2
                               THEN @[s] + 1 ELSE @[s]]]

\* Mutant: a blocked step gets a status that no step has.
BlockStepsFailed(rec) ==
  [rec EXCEPT !.step = [s \in Step |->
     IF @[s] = "pending" /\ DepsBlocked(rec, s) THEN "skipped" ELSE @[s]]]

\* One level per pass: the statuses are those before the loop.
BlockSteps(rec) ==
  [rec EXCEPT !.step = [s \in Step |->
     IF @[s] = "pending" /\ DepsBlocked(rec, s) THEN "blocked" ELSE @[s]]]

IsDeadEnd(rec) ==
  /\ \E s \in Step : rec.step[s] \in {"blocked", "failed"}
  /\ \A s \in Step : rec.step[s] \in Terminal

Conclude(rec) ==
  IF \A s \in Step : rec.step[s] = "done"
  THEN [rec EXCEPT !.status = "done", !.deadEnd = FALSE]
  ELSE IF rec.status # "failed" /\ IsDeadEnd(rec)
  THEN [rec EXCEPT !.status = "failed", !.deadEnd = TRUE]
  ELSE rec

\* A save is lost when it replaces a file its author has not read.
Save(g, read, rec) ==
  /\ goal' = [goal EXCEPT ![g] = rec]
  /\ lost' = (lost \/ goal[g] # read)

EvaluateBegin ==
  /\ \A g \in Goal : pass[g] = NoCopy
  /\ \E g \in Goal : goal[g].status = "active"
  /\ pass' = [g \in Goal |-> IF goal[g].status = "active" /\ goal[g].plan
                             THEN goal[g] ELSE NoCopy]
  /\ UNCHANGED <<busVars, goal, cmd, earned, lost, used>>

\* Steps that only took over the status of a task that exists do not count as a change.
Evaluate(g) ==
  LET synced == SyncSteps(g, pass[g])
      marked == BlockSteps(synced)
      queued == WithReady(g, marked)
      Finished(rec, S) ==
        LET end == Conclude(rec)
        IN  /\ SubmitSteps(g, S)
            /\ IF marked # pass[g] \/ S # {} \/ end.status # "active"
               THEN Save(g, pass[g], end) ELSE UNCHANGED <<goal, lost>>
  IN  /\ pass[g] # NoCopy
      /\ \/ Finished(queued, ToSubmit(g, marked))
         \* the configuration cannot be read
         \/ /\ Ready(marked) # {}
            /\ Finished([marked EXCEPT !.status = "failed"], {})
      /\ pass' = [pass EXCEPT ![g] = NoCopy]
      /\ UNCHANGED <<cmd, earned, used>>

\* The daemon dies in the middle of an evaluation: some step files are written, the
\* goal is not saved.
EvaluateDies(g) ==
  LET marked == BlockSteps(SyncSteps(g, pass[g]))
  IN  /\ pass[g] # NoCopy
      /\ used.crashes < MaxCrashes
      /\ used' = [used EXCEPT !.crashes = @ + 1]
      /\ \E S \in SUBSET ToSubmit(g, marked) :
           SubmitSteps(g, S) /\ lost' = (lost \/ S # {})
      /\ pass' = [h \in Goal |-> NoCopy]
      /\ UNCHANGED <<goal, cmd, earned>>

-----------------------------------------------------------------------------
(* punk-run goal ...                                                       *)

\* The planner runs for minutes on a goal that was saved first.
PlannerEnds(g) ==
  LET rec == [cmd[g].read EXCEPT !.plan = TRUE, !.status = "awaiting_approval"]
  IN  /\ cmd[g].op = "create"
      /\ \/ UNCHANGED <<goal, lost>> /\ cmd' = [cmd EXCEPT ![g] = NoCmd]
         \/ /\ Save(g, cmd[g].read, rec)
            /\ \/ cmd' = [cmd EXCEPT ![g] = NoCmd]
               \/ cmd' = [cmd EXCEPT ![g] = [op |-> "approve", read |-> rec]]   \* --approve
      /\ UNCHANGED <<busVars, pass, earned, used>>

\* A user writes the plan into the file of a planning goal.
PlanByHand(g) ==
  /\ goal[g].status = "planning" /\ ~goal[g].plan
  /\ cmd[g].op = "none"
  /\ goal' = [goal EXCEPT ![g].plan = TRUE]
  /\ UNCHANGED <<busVars, pass, cmd, earned, lost, used>>

\* Mutants: any goal that is not active is resumed; steps in flight do not matter.
MayResumeAny(rec) == rec.status # "active"
MayReplanAny(rec) == rec.plan

MayResume(rec) == rec.status = "paused"
MayReplan(rec) == ~HasInflight(rec)

\* What approve, the status commands and replan refuse.
Allowed(op, rec) ==
  CASE op = "approve" -> rec.plan /\ rec.status \in {"awaiting_approval", "planning"}
    [] op = "pause"   -> rec.status = "active"
    [] op = "resume"  -> MayResume(rec)
    [] op = "cancel"  -> rec.status \notin {"done", "failed"}
    [] op = "budget"  -> TRUE
    [] op = "replan"  -> MayReplan(rec)

CommandBegin(g) ==
  /\ cmd[g].op = "none"
  /\ used.commands < MaxCommands
  /\ \E op \in Commands : Allowed(op, goal[g])
                          /\ cmd' = [cmd EXCEPT ![g] = [op |-> op, read |-> goal[g]]]
  /\ used' = [used EXCEPT !.commands = @ + 1]
  /\ UNCHANGED <<busVars, goal, pass, earned, lost>>

\* activate_goal: saved only if something was queued or is in flight.
Approve(g) ==
  LET read == cmd[g].read
      rec  == WithReady(g, read)
      new  == ToSubmit(g, read)
  IN  /\ cmd[g].op = "approve"
      /\ SubmitSteps(g, new)
      /\ IF new # {} \/ HasInflight(rec)
         THEN Save(g, read, [rec EXCEPT !.status = "active"])
         ELSE UNCHANGED <<goal, lost>>
      /\ cmd' = [cmd EXCEPT ![g] = NoCmd]
      /\ UNCHANGED <<pass, earned, used>>

\* The command dies between the step files and the goal file.
ApproveDies(g) ==
  /\ cmd[g].op = "approve"
  /\ used.crashes < MaxCrashes
  /\ used' = [used EXCEPT !.crashes = @ + 1]
  /\ \E S \in SUBSET ToSubmit(g, cmd[g].read) :
       SubmitSteps(g, S) /\ lost' = (lost \/ S # {})
  /\ cmd' = [cmd EXCEPT ![g] = NoCmd]
  /\ UNCHANGED <<goal, pass, earned>>

\* Step tasks are cancelled in order; the first that is neither queued nor running
\* ends the command without a save.
CancelGoal(g) ==
  LET read == cmd[g].read
      live == {s \in Step : read.plan /\ read.step[s] \in Inflight}
      bad  == {s \in live : st[<<g, s>>] \notin Inflight}
      hit  == IF bad = {} THEN live ELSE {s \in live : s < Min(bad)}
  IN  /\ cmd[g].op = "cancel"
      /\ st' = [t \in Task |-> IF t \in {g} \X hit /\ st[t] = "queued" THEN "absent" ELSE st[t]]
      /\ IF bad = {} THEN Save(g, read, [read EXCEPT !.status = "failed"])
                     ELSE UNCHANGED <<goal, lost>>
      /\ cmd' = [cmd EXCEPT ![g] = NoCmd]
      /\ UNCHANGED <<twice, pass, earned, used>>

SetGoal(g) ==
  LET read == cmd[g].read
      rec  == CASE cmd[g].op = "pause"  -> [read EXCEPT !.status = "paused"]
                [] cmd[g].op = "resume" -> [read EXCEPT !.status = "active"]
                [] cmd[g].op = "replan" ->
                     [NewGoal EXCEPT !.spent = read.spent]
                [] OTHER -> read
  IN  /\ cmd[g].op \in {"pause", "resume", "budget", "replan"}
      /\ Save(g, read, rec)
      /\ cmd' = [cmd EXCEPT ![g] = NoCmd]
      /\ UNCHANGED <<busVars, pass, earned, used>>

CommandEnds(g) == Approve(g) \/ CancelGoal(g) \/ SetGoal(g)

-----------------------------------------------------------------------------
(* The bus.  The daemon moves tasks and evaluates goals in one thread.     *)

Evaluating == \E g \in Goal : pass[g] # NoCopy

BusStep(A) ==
  /\ ~Evaluating /\ A
  /\ earned' = [t \in Task |-> IF st'[t] = "done" /\ st[t] # "done" /\ earned[t] < 2
                               THEN earned[t] + 1 ELSE earned[t]]
  /\ UNCHANGED <<twice, goal, pass, cmd, lost, used>>

StartTask(t)   == BusStep(TheBus!Start(t))
RequeueTask(t) == BusStep(t \notin twice /\ TheBus!Requeue(t))
EndTasks       == BusStep(\E T \in SUBSET Task : T # {} /\ TheBus!Finish(T))
SettleTask(t)  == BusStep(TheBus!Become(t, {"running"}, TheBus!Outcome))

\* The retry file of a task that was queued a second time comes due.
RequeueTwice(t) ==
  /\ ~Evaluating
  /\ t \in twice
  /\ st' = [st EXCEPT ![t] = "queued"]
  /\ twice' = twice \ {t}
  /\ UNCHANGED <<goal, pass, cmd, earned, lost, used>>

\* `punk-run cancel` on a single task.
CancelTask(t) ==
  /\ used.cancels < MaxTaskCancels
  /\ TheBus!Cancel(t)
  /\ used' = [used EXCEPT !.cancels = @ + 1]
  /\ UNCHANGED <<twice, goal, pass, cmd, earned, lost>>

-----------------------------------------------------------------------------
Init ==
  /\ TheBus!Init /\ twice = {}
  /\ goal = [g \in Goal |-> NewGoal]
  /\ pass = [g \in Goal |-> NoCopy]
  /\ cmd = [g \in Goal |-> [op |-> "create", read |-> NewGoal]]
  /\ earned = [t \in Task |-> 0] /\ lost = FALSE
  /\ used = [commands |-> 0, crashes |-> 0, cancels |-> 0]

Next ==
  \/ EvaluateBegin \/ EndTasks
  \/ \E g \in Goal : \/ Evaluate(g) \/ EvaluateDies(g)
                     \/ PlannerEnds(g) \/ PlanByHand(g) \/ CommandBegin(g)
                     \/ CommandEnds(g) \/ ApproveDies(g)
  \/ \E t \in Task : \/ StartTask(t) \/ RequeueTask(t) \/ RequeueTwice(t) \/ CancelTask(t)

Spec == Init /\ [][Next]_vars

\* The daemon's loop runs; a command that was started ends; and the bus settles what
\* it is given, as Daemon!Settles says (attempts are bounded there).
FairSpec ==
  /\ Spec
  /\ WF_vars(EvaluateBegin)
  /\ \A g \in Goal : WF_vars(Evaluate(g)) /\ WF_vars(CommandEnds(g))
  /\ SF_vars(\E t \in Task : StartTask(t))
  /\ SF_vars(\E t \in Task : RequeueTask(t) \/ RequeueTwice(t))
  /\ SF_vars(\E t \in Task : SettleTask(t))

-----------------------------------------------------------------------------
(* Properties                                                              *)

GoalType == [status : {"planning", "awaiting_approval", "active", "paused", "done", "failed"},
             plan : BOOLEAN, deadEnd : BOOLEAN,
             step : [Step -> {"pending"} \cup Inflight \cup Terminal],
             spent : [Step -> 0 .. 2]]

\* Files, copies and commands have their types.
TypeOK ==
  /\ st \in [Task -> TheBus!TaskState]
  /\ twice \subseteq Task /\ earned \in [Task -> 0 .. 2]
  /\ goal \in [Goal -> GoalType]
  /\ pass \in [Goal -> GoalType \cup {NoCopy}]
  /\ cmd \in [Goal -> [op : Op \cup {"none", "create"}, read : GoalType \cup {NoCopy}]]
  /\ lost \in BOOLEAN
  /\ used \in [commands : Nat, crashes : Nat, cancels : Nat]

\* A goal is reported done only if the task of each step was done, also when the
\* goal file was written back from old copies on the way.
DoneIsEarned ==
  \A g \in Goal : goal[g].status = "done" => \A s \in Step : earned[<<g, s>>] > 0

\* The step tasks name no dependency of their own: the order of a plan rests on the
\* evaluation alone, and no step enters the bus before those it depends on are done.
StepsInOrder ==
  \A t \in Task : st[t] # "absent" => \A d \in Deps[t[2]] : earned[<<t[1], d>>] > 0

\* The cost of a step is added at most once for each time its task was done,
\* whatever copies of the goal are written over each other, and across replans.
SpentOnce == \A t \in Task : goal[t[1]].spent[t[2]] <= earned[t]

\* While no save is lost, a goal is declared a dead end only when no task of it is
\* queued, running or waiting to be repeated.
DeadEndIsIdle ==
  \A t \in Task : goal[t[1]].deadEnd /\ ~lost => st[t] \notin Inflight \cup {"waiting"}

\* While no save is lost, no step is queued again while a retry of its task is still
\* to come: replans and re-approvals included.
QueuedOnce == ~lost => twice = {}

\* "Cannot transition a terminal goal to that status": while no save is lost, a goal
\* that has ended only starts again by a replan.
TerminalStays ==
  [][\A g \in Goal : goal[g].status \in {"done", "failed"} /\ ~lost' =>
       goal'[g].status \in {goal[g].status, "planning"}]_vars

\* A step in flight whose task was taken from the queue.
Orphaned(g) == \E s \in Step : goal[g].step[s] \in Inflight /\ st[<<g, s>>] = "absent"

\* While no save is lost, an active goal ends, unless a user pauses it or takes one
\* of its tasks out of the queue: failed and blocked steps do not leave it hanging.
GoalSettles ==
  \A g \in Goal :
     (goal[g].status = "active") ~> (goal[g].status # "active" \/ Orphaned(g) \/ lost)
=============================================================================
