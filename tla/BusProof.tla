------------------------------- MODULE BusProof -------------------------------
(***************************************************************************)
(* What users of the bus may conclude from its edges: a daemon that        *)
(* implements Bus keeps these, whatever its loop does.                     *)
(***************************************************************************)
EXTENDS Bus, FiniteSetTheorems, TLAPS

\* A task that runs or was done had all its dependencies done, and they still are.
DependenciesDone ==
  \A t \in Task : st[t] \in {"running", "done"} => \A u \in DependsOn[t] : st[u] = "done"

\* No more tasks run than there are slots.
WithinSlots == IsFiniteSet(InState("running")) /\ Cardinality(InState("running")) <= MaxSlots

\* While nothing crashes, tasks of one project run one after the other.
ProjectsApart ==
  ~Crashes => \A t, u \in InState("running") \ Worktree : ProjectOf[t] = ProjectOf[u] => t = u

\* Success is final: no edge leaves "done".
DoneKept  == \A t \in Task : st[t] = "done" => st'[t] = "done"
DoneStays == [][DoneKept]_st

StateType == st \in [Task -> TaskState]

-----------------------------------------------------------------------------

\* A move of one task changes its state only, and keeps the states.
LEMMA BecomeMoves ==
  ASSUME StateType, NEW t \in Task, NEW from, NEW to, Become(t, from, to), to \subseteq TaskState
  PROVE  /\ StateType' /\ st[t] \in from /\ st'[t] \in to
         /\ \A u \in Task \ {t} : st'[u] = st[u]
  BY DEF StateType, Become

\* A step starts one task, or starts none and leaves no task that is done.
LEMMA Steps ==
  ASSUME StateType, [Next]_st
  PROVE  /\ StateType'
         /\ \A t \in Task : st[t] = "done" => st'[t] = "done"
         /\ \/ \E t \in Task : /\ Startable(t) /\ st[t] = "queued" /\ st'[t] = "running"
                               /\ \A u \in Task \ {t} : st'[u] = st[u]
            \/ \A t \in Task : /\ st'[t] = "running" => st[t] = "running"
                               /\ st'[t] = "done" => st[t] \in {"running", "done"}
<1> DEFINE Quiet == \A t \in Task : /\ st[t] = "done" => st'[t] = "done"
                                    /\ st'[t] = "running" => st[t] = "running"
                                    /\ st'[t] = "done" => st[t] \in {"running", "done"}
<1>1. ASSUME NEW t \in Task, NEW from, NEW to, Become(t, from, to), "done" \notin from,
             to \subseteq TaskState \ {"running", "done"}
      PROVE  StateType' /\ Quiet
  BY <1>1, BecomeMoves
<1>2. ASSUME NEW t \in Task, Start(t)
      PROVE  /\ StateType' /\ Startable(t) /\ st[t] = "queued" /\ st'[t] = "running"
             /\ \A u \in Task \ {t} : st'[u] = st[u]
  <2>1. Become(t, {"queued"}, {"running"}) /\ {"running"} \subseteq TaskState
    BY <1>2 DEF Start, TaskState
  <2> QED
    BY <1>2, <2>1, BecomeMoves DEF Start
<1>3. ASSUME NEW t \in Task, Submit(t) \/ Requeue(t) \/ Cancel(t) \/ Withdraw(t) \/ Again(t) \/ Lose(t)
      PROVE  StateType' /\ Quiet
  <2>1. {"queued"} \subseteq TaskState \ {"running", "done"}
        /\ {"absent", "waiting"} \cup Leftover \subseteq TaskState \ {"running", "done"}
        /\ {"absent"} \cup Leftover \subseteq TaskState \ {"running", "done"}
        /\ {"absent"} \subseteq TaskState \ {"running", "done"}
    BY DEF TaskState, Outcome, Leftover
  <2>2. CASE Submit(t)
    BY <1>1, <2>1, <2>2 DEF Submit
  <2>3. CASE Requeue(t)
    BY <1>1, <2>1, <2>3 DEF Requeue
  <2>4. CASE Cancel(t)
    BY <1>1, <2>1, <2>4 DEF Cancel
  <2>5. CASE Withdraw(t)
    BY <1>1, <2>1, <2>5 DEF Withdraw
  <2>6. CASE Again(t)
    BY <1>1, <2>1, <2>6 DEF Again
  <2>7. CASE Lose(t)
    BY <1>1, <2>1, <2>7 DEF Lose
  <2> QED
    BY <1>3, <2>2, <2>3, <2>4, <2>5, <2>6, <2>7
<1>4. ASSUME NEW T \in SUBSET Task, Finish(T)
      PROVE  StateType' /\ Quiet
  <2>1. PICK end \in [T -> Outcome \cup {"waiting"}] :
          st' = [t \in Task |-> IF t \in T THEN end[t] ELSE st[t]]
    BY <1>4 DEF Finish
  <2>2. \A t \in T : st[t] = "running" /\ end[t] \in {"done", "failed", "dead", "waiting"}
    BY <1>4 DEF Finish, InState, Outcome
  <2> QED
    BY <2>1, <2>2 DEF StateType, TaskState, Outcome
<1>5. CASE UNCHANGED st
  BY <1>5 DEF StateType
<1> QED
  BY <1>2, <1>3, <1>4, <1>5 DEF Next, TaskNext

\* The states of the bus are those it names.
LEMMA StatesTyped == Spec => []StateType
<1>1. Init => StateType
  BY DEF Init, StateType, TaskState
<1>2. StateType /\ [Next]_st => StateType'
  BY Steps
<1> QED
  BY <1>1, <1>2, PTL DEF Spec

\* Success is final: neither a crash nor a cancel nor a retry by hand takes it back.
THEOREM SuccessIsFinal == Spec => DoneStays
<1>1. StateType /\ [Next]_st => [DoneKept]_st
  BY Steps DEF DoneKept
<1> QED
  BY <1>1, StatesTyped, PTL DEF Spec, DoneStays

\* Whoever sees a task run or done knows that what it depends on is done, at any distance
\* along the dependencies.
THEOREM DependenciesComeFirst ==
  ASSUME DependsOn \in [Task -> SUBSET Task]
  PROVE  Spec => []DependenciesDone
<1>1. Init => DependenciesDone
  BY DEF Init, DependenciesDone
<1>2. StateType /\ DependenciesDone /\ [Next]_st => DependenciesDone'
  <2> SUFFICES ASSUME StateType, DependenciesDone, [Next]_st,
                      NEW t \in Task, st'[t] \in {"running", "done"}, NEW u \in DependsOn[t]
               PROVE  st'[u] = "done"
    BY DEF DependenciesDone
  <2>1. u \in Task
    OBVIOUS
  <2>2. CASE st[t] \in {"running", "done"}
    BY <2>1, <2>2, Steps DEF DependenciesDone
  <2>3. CASE st[t] \notin {"running", "done"}
    <3>1. Startable(t)
      BY <2>3, Steps
    <3> QED
      BY <2>1, <3>1, Steps DEF Startable, Ready
  <2> QED
    BY <2>2, <2>3
<1> QED
  BY <1>1, <1>2, StatesTyped, PTL DEF Spec

\* The running tasks never outnumber the slots.
THEOREM RunningFitsSlots ==
  ASSUME MaxSlots \in Nat
  PROVE  Spec => []WithinSlots
<1>1. Init => WithinSlots
  <2> SUFFICES ASSUME Init PROVE WithinSlots
    OBVIOUS
  <2>1. InState("running") = {}
    BY DEF Init, InState
  <2> QED
    BY <2>1, FS_EmptySet DEF WithinSlots
<1>2. StateType /\ WithinSlots /\ [Next]_st => WithinSlots'
  <2> SUFFICES ASSUME StateType, WithinSlots, [Next]_st PROVE WithinSlots'
    OBVIOUS
  <2> DEFINE R == InState("running")
             S == {t \in Task : st'[t] = "running"}
  <2>a. R = {t \in Task : st[t] = "running"} /\ R' = S
    BY DEF InState
  <2>b. IsFiniteSet(R) /\ Cardinality(R) <= MaxSlots /\ Cardinality(R) \in Nat
    BY FS_CardinalityType DEF WithinSlots
  <2>1. ASSUME NEW t \in Task, Startable(t), st[t] = "queued", st'[t] = "running",
               \A u \in Task \ {t} : st'[u] = st[u]
        PROVE  IsFiniteSet(S) /\ Cardinality(S) <= MaxSlots
    <3>1. S = R \cup {t} /\ t \notin R
      BY <2>a, <2>1
    <3>2. Cardinality(R) < MaxSlots
      BY <2>1 DEF Startable
    <3> HIDE DEF R, S
    <3>3. IsFiniteSet(S) /\ Cardinality(S) = Cardinality(R) + 1
      BY <2>b, <3>1, FS_AddElement
    <3> QED
      BY <2>b, <3>2, <3>3
  <2>2. ASSUME \A t \in Task : st'[t] = "running" => st[t] = "running"
        PROVE  IsFiniteSet(S) /\ Cardinality(S) <= MaxSlots
    <3>1. S \subseteq R
      BY <2>a, <2>2
    <3> HIDE DEF R, S
    <3>2. IsFiniteSet(S) /\ Cardinality(S) <= Cardinality(R)
      BY <2>b, <3>1, FS_Subset
    <3>3. Cardinality(S) \in Nat
      BY <3>2, FS_CardinalityType
    <3> QED
      BY <2>b, <3>2, <3>3
  <2>3. IsFiniteSet(S) /\ Cardinality(S) <= MaxSlots
    BY <2>1, <2>2, Steps
  <2> QED
    BY <2>a, <2>3 DEF WithinSlots
<1> QED
  BY <1>1, <1>2, StatesTyped, PTL DEF Spec

\* While nothing crashes, the tasks of a project that share its directory run one by one.
THEOREM ProjectsStayApart == Spec => []ProjectsApart
<1>1. Init => ProjectsApart
  BY DEF Init, ProjectsApart, InState
<1>2. StateType /\ ProjectsApart /\ [Next]_st => ProjectsApart'
  <2> SUFFICES ASSUME StateType, ProjectsApart, [Next]_st, ~Crashes,
                      NEW t \in Task \ Worktree, NEW u \in Task \ Worktree,
                      st'[t] = "running", st'[u] = "running", ProjectOf[t] = ProjectOf[u]
               PROVE  t = u
    BY DEF ProjectsApart, InState
  <2>1. CASE st[t] = "running" /\ st[u] = "running"
    BY <2>1 DEF ProjectsApart, InState
  <2>2. CASE st[t] # "running"
    BY <2>2, Steps DEF Startable, InState
  <2>3. CASE st[u] # "running"
    BY <2>3, Steps DEF Startable, InState
  <2> QED
    BY <2>1, <2>2, <2>3
<1> QED
  BY <1>1, <1>2, StatesTyped, PTL DEF Spec
=============================================================================
