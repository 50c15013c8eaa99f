------------------------------ MODULE GoalsProof ------------------------------
(***************************************************************************)
(* Theorems about Goals, for any number of goals, any plan and any bounds: *)
(* what a goal file may say of the tasks on the bus although daemon and    *)
(* commands write whole copies of it over each other.                      *)
(***************************************************************************)
EXTENDS Goals, TLAPS

-----------------------------------------------------------------------------
(* The invariants                                                          *)

\* What every copy of a goal says truly of the bus and its history, however old it is:
\* a step it calls done was done, a cost it counts was paid, a step it still follows has
\* its cost ahead (the model counts up to 2), a dead end has nothing left to do.
Sound(bus, cost, g, rec) ==
  /\ rec.status = "done" => \A s \in Step : rec.step[s] = "done"
  /\ \A s \in Step : /\ rec.step[s] = "done" => cost[<<g, s>>] > 0
                     /\ rec.spent[s] <= cost[<<g, s>>]
                     /\ rec.step[s] \in Inflight /\ bus[<<g, s>>] = "done"
                          => rec.spent[s] < cost[<<g, s>>] \/ cost[<<g, s>>] = 2
  /\ rec.deadEnd => \A s \in Step : rec.step[s] \in Terminal

\* The goal file, and the copies the daemon's pass and a command work on: the first is
\* of an active goal, the second of one that the command is allowed for.
Copy(g, rec) == rec \in GoalType /\ Sound(st, earned, g, rec)
Pass(g) == pass[g] # NoCopy => Copy(g, pass[g]) /\ pass[g].status = "active"
Command(g) ==
  cmd[g].op # "none" =>
    /\ Copy(g, cmd[g].read)
    /\ IF cmd[g].op = "create" THEN cmd[g].read = NewGoal ELSE Allowed(cmd[g].op, cmd[g].read)
Copies == \A g \in Goal : Copy(g, goal[g]) /\ Pass(g) /\ Command(g)

\* A task that was done was counted; one that was ever queued had its dependencies done.
Counted(g, s) == st[<<g, s>>] = "done" => earned[<<g, s>>] > 0
Ordered(g, s) ==
  st[<<g, s>>] # "absent" \/ <<g, s>> \in twice => \A d \in Deps[s] : earned[<<g, d>>] > 0
History == \A g \in Goal, s \in Step : Counted(g, s) /\ Ordered(g, s)

\* While no save is lost the goal file follows every task that is under way, and no task
\* is queued twice.
UnderWay(g, s) == st[<<g, s>>] \in Inflight \cup {"waiting"}
Followed(g, s) == UnderWay(g, s) => goal[g].plan /\ goal[g].step[s] \in Inflight
Follows == ~lost => twice = {} /\ \A g \in Goal, s \in Step : Followed(g, s)

Inv == TypeOK /\ History /\ Copies /\ Follows

-----------------------------------------------------------------------------
(* Copies of a goal                                                        *)

\* A copy of a goal is not the missing one, and a new goal is one.
LEMMA GoalValues == NoCopy \notin GoalType /\ NewGoal \in GoalType
<1>1. NoCopy \notin GoalType
  BY DEF NoCopy, GoalType
<1>2. NewGoal \in GoalType
  BY DEF NewGoal, GoalType
<1> QED
  BY <1>1, <1>2

\* What the daemon sees of a task is a status a step can have, or nothing.
LEMMA SeenValues ==
  ASSUME TypeOK, NEW g \in Goal, NEW s \in Step
  PROVE  /\ Seen(g, s) \in Inflight \cup {"done", "failed", "none"}
         /\ Seen(g, s) \in Inflight <=> st[<<g, s>>] \in Inflight
         /\ Seen(g, s) \in Inflight => Seen(g, s) = st[<<g, s>>]
         /\ Seen(g, s) = "done" <=> st[<<g, s>>] = "done"
         /\ Seen(g, s) = "none" <=> st[<<g, s>>] \in {"absent", "waiting"}
<1>1. <<g, s>> \in Task
  BY DEF Task
<1>2. st[<<g, s>>] \in {"absent", "queued", "running", "waiting", "done", "failed", "dead"}
  BY <1>1 DEF TypeOK, TheBus!TaskState, TheBus!Outcome
<1> QED
  BY <1>2 DEF Seen, Inflight

\* Looking up the steps in flight yields a copy: it counts a cost when the task is done.
LEMMA SyncKeeps ==
  ASSUME TypeOK, History, NEW g \in Goal, NEW rec, Copy(g, rec)
  PROVE  LET new == SyncSteps(g, rec)
         IN  /\ Copy(g, new) /\ new.status = rec.status /\ new.plan = rec.plan
             /\ \A s \in Step : rec.step[s] \notin Inflight => new.step[s] = rec.step[s]
             /\ \A s \in Step : rec.step[s] \in Inflight /\ UnderWay(g, s)
                                  => new.step[s] \in Inflight
<1> DEFINE f == [s \in Step |-> IF s \in Synced(g, rec) THEN Seen(g, s) ELSE rec.step[s]]
           c == [s \in Step |-> IF s \in Synced(g, rec) /\ Seen(g, s) = "done" /\ rec.spent[s] < 2
                                THEN rec.spent[s] + 1 ELSE rec.spent[s]]
           new == [rec EXCEPT !.step = f, !.spent = c]
<1>1. rec \in GoalType /\ rec.step \in [Step -> {"pending"} \cup Inflight \cup Terminal]
      /\ rec.spent \in [Step -> 0 .. 2] /\ Sound(st, earned, g, rec)
  BY DEF Copy, GoalType
<1>2. f \in [Step -> {"pending"} \cup Inflight \cup Terminal]
  BY <1>1, SeenValues DEF Synced, Terminal
<1>3. c \in [Step -> 0 .. 2]
  BY <1>1
<1>4. SyncSteps(g, rec) = new
  BY <1>1 DEF SyncSteps
<1>5. /\ new \in GoalType /\ new.status = rec.status /\ new.plan = rec.plan
      /\ new.deadEnd = rec.deadEnd /\ new.step = f /\ new.spent = c
  <2> HIDE DEF f, c
  <2> QED
    BY <1>1, <1>2, <1>3 DEF GoalType
<1> HIDE DEF new
<1>6. \A s \in Step : rec.step[s] \notin Inflight => f[s] = rec.step[s] /\ c[s] = rec.spent[s]
  BY DEF Synced
<1>7. ASSUME NEW s \in Step, rec.step[s] \in Inflight, UnderWay(g, s) PROVE f[s] \in Inflight
  BY <1>7, SeenValues DEF Synced, UnderWay
<1>8. ASSUME NEW s \in Step
      PROVE  /\ f[s] = "done" => earned[<<g, s>>] > 0
             /\ c[s] <= earned[<<g, s>>]
             /\ f[s] \in Inflight /\ st[<<g, s>>] = "done"
                  => c[s] < earned[<<g, s>>] \/ earned[<<g, s>>] = 2
  <2>1. <<g, s>> \in Task /\ earned[<<g, s>>] \in 0 .. 2 /\ rec.spent[s] \in 0 .. 2
    BY <1>1 DEF Task, TypeOK
  <2>2. /\ rec.step[s] = "done" => earned[<<g, s>>] > 0
        /\ rec.spent[s] <= earned[<<g, s>>]
        /\ rec.step[s] \in Inflight /\ st[<<g, s>>] = "done"
             => rec.spent[s] < earned[<<g, s>>] \/ earned[<<g, s>>] = 2
    BY <1>1 DEF Sound
  <2>3. st[<<g, s>>] = "done" => earned[<<g, s>>] > 0
    BY DEF History, Counted
  <2>4. CASE s \notin Synced(g, rec)
    BY <2>2, <2>4
  <2>5. CASE s \in Synced(g, rec)
    <3>1. f[s] = Seen(g, s) /\ rec.step[s] \in Inflight
      BY <2>5 DEF Synced
    <3>2. CASE Seen(g, s) = "done"
      <4>1. st[<<g, s>>] = "done" /\ f[s] \notin Inflight
        BY <3>1, <3>2, SeenValues DEF Inflight
      <4>2. c[s] = IF rec.spent[s] < 2 THEN rec.spent[s] + 1 ELSE rec.spent[s]
        BY <2>5, <3>2
      <4> HIDE DEF f, c
      <4> QED
        BY <2>1, <2>2, <2>3, <3>1, <4>1, <4>2
    <3>3. CASE Seen(g, s) # "done"
      <4>1. st[<<g, s>>] # "done" /\ c[s] = rec.spent[s] /\ f[s] # "done"
        BY <3>1, <3>3, SeenValues
      <4> HIDE DEF f, c
      <4> QED
        BY <2>2, <4>1
    <3> QED
      BY <3>2, <3>3
  <2> QED
    BY <2>4, <2>5
<1>9. rec.status = "done" => \A s \in Step : f[s] = "done"
  BY <1>1, <1>6 DEF Sound, Inflight
<1>10. rec.deadEnd => \A s \in Step : f[s] \in Terminal
  BY <1>1, <1>6 DEF Sound, Inflight, Terminal
<1>11. Sound(st, earned, g, new)
  <2> HIDE DEF f, c
  <2> QED
    BY <1>5, <1>8, <1>9, <1>10 DEF Sound
<1> HIDE DEF f, c
<1> QED
  BY <1>4, <1>5, <1>6, <1>7, <1>11 DEF Copy

\* What new steps must satisfy for the goal with them to be a copy again.
LEMMA StepsKeep ==
  ASSUME NEW g, NEW rec, Copy(g, rec),
         NEW f \in [Step -> {"pending"} \cup Inflight \cup Terminal],
         \A s \in Step : f[s] # rec.step[s] =>
            /\ rec.step[s] = "pending"
            /\ f[s] = "done" => earned[<<g, s>>] > 0
            /\ f[s] \in Inflight => st[<<g, s>>] # "done"
  PROVE  /\ Copy(g, [rec EXCEPT !.step = f])
         /\ [rec EXCEPT !.step = f].status = rec.status
         /\ [rec EXCEPT !.step = f].plan = rec.plan
         /\ [rec EXCEPT !.step = f].step = f
<1> DEFINE new == [rec EXCEPT !.step = f]
<1>1. rec \in GoalType /\ Sound(st, earned, g, rec)
  BY DEF Copy
<1>2. /\ new \in GoalType /\ new.status = rec.status /\ new.plan = rec.plan
      /\ new.deadEnd = rec.deadEnd /\ new.step = f /\ new.spent = rec.spent
  BY <1>1 DEF GoalType
<1> HIDE DEF new
<1>3. rec.status = "done" => \A s \in Step : f[s] = "done"
  BY <1>1 DEF Sound
<1>4. rec.deadEnd => \A s \in Step : f[s] \in Terminal
  BY <1>1 DEF Sound, Terminal
<1>5. \A s \in Step : /\ f[s] = "done" => earned[<<g, s>>] > 0
                      /\ f[s] \in Inflight /\ st[<<g, s>>] = "done" =>
                           rec.spent[s] < earned[<<g, s>>] \/ earned[<<g, s>>] = 2
  BY <1>1 DEF Sound
<1>6. \A s \in Step : rec.spent[s] <= earned[<<g, s>>]
  BY <1>1 DEF Sound
<1>7. Sound(st, earned, g, new)
  BY <1>2, <1>3, <1>4, <1>5, <1>6 DEF Sound
<1>8. Copy(g, new)
  BY <1>2, <1>7 DEF Copy
<1> QED
  BY <1>2, <1>8 DEF new

\* Blocking steps yields a copy and leaves the steps in flight.
LEMMA BlockKeeps ==
  ASSUME NEW g, NEW rec, Copy(g, rec)
  PROVE  LET new == BlockSteps(rec)
         IN  /\ Copy(g, new) /\ new.status = rec.status /\ new.plan = rec.plan
             /\ \A s \in Step : rec.step[s] \in Inflight => new.step[s] = rec.step[s]
<1> DEFINE f == [s \in Step |-> IF rec.step[s] = "pending" /\ DepsBlocked(rec, s)
                                THEN "blocked" ELSE rec.step[s]]
<1>1. rec \in GoalType /\ rec.step \in [Step -> {"pending"} \cup Inflight \cup Terminal]
  BY DEF Copy, GoalType
<1>2. BlockSteps(rec) = [rec EXCEPT !.step = f]
  BY <1>1 DEF BlockSteps
<1>3. f \in [Step -> {"pending"} \cup Inflight \cup Terminal]
  BY <1>1 DEF Terminal
<1>4. \A s \in Step : f[s] # rec.step[s] => rec.step[s] = "pending" /\ f[s] = "blocked"
  OBVIOUS
<1>5. \A s \in Step : rec.step[s] \in Inflight => f[s] = rec.step[s]
  BY DEF Inflight
<1> HIDE DEF f
<1> QED
  BY <1>2, <1>3, <1>4, <1>5, StepsKeep DEF Inflight

\* Queueing the ready steps, or taking over what the bus knows of them, yields a copy and
\* leaves the steps in flight.
LEMMA ReadyKeeps ==
  ASSUME TypeOK, History, NEW g \in Goal, NEW rec, Copy(g, rec)
  PROVE  LET new == WithReady(g, rec)
         IN  /\ Copy(g, new) /\ new.status = rec.status /\ new.plan = rec.plan
             /\ \A s \in Step : rec.step[s] \in Inflight => new.step[s] = rec.step[s]
             /\ \A s \in ToSubmit(g, rec) : new.step[s] = "queued"
<1> DEFINE f == [s \in Step |-> IF s \in ToSubmit(g, rec) THEN "queued"
                                ELSE IF s \in Ready(rec) THEN Seen(g, s) ELSE rec.step[s]]
<1>1. rec \in GoalType /\ rec.step \in [Step -> {"pending"} \cup Inflight \cup Terminal]
  BY DEF Copy, GoalType
<1>2. WithReady(g, rec) = [rec EXCEPT !.step = f]
  BY <1>1 DEF WithReady
<1>3. f \in [Step -> {"pending"} \cup Inflight \cup Terminal]
  BY <1>1, SeenValues DEF Terminal, Inflight, ToSubmit
<1>4. ASSUME NEW s \in Step, f[s] # rec.step[s]
      PROVE  /\ rec.step[s] = "pending"
             /\ f[s] = "done" => earned[<<g, s>>] > 0
             /\ f[s] \in Inflight => st[<<g, s>>] # "done"
  <2>1. s \in Ready(rec)
    BY <1>4 DEF ToSubmit
  <2>2. f[s] = Seen(g, s) \/ (f[s] = "queued" /\ Seen(g, s) = "none")
    BY <2>1 DEF ToSubmit
  <2>3. Counted(g, s)
    BY DEF History
  <2> QED
    BY <2>1, <2>2, <2>3, SeenValues DEF Ready, Counted, Inflight
<1>5. \A s \in Step : rec.step[s] \in Inflight => f[s] = rec.step[s]
  BY DEF Inflight, ToSubmit, Ready
<1>6. \A s \in ToSubmit(g, rec) : f[s] = "queued"
  BY DEF ToSubmit, Ready
<1> HIDE DEF f
<1> QED
  BY <1>2, <1>3, <1>4, <1>5, <1>6, StepsKeep

\* Setting a status other than "done" yields a copy.
LEMMA StatusKeeps ==
  ASSUME NEW g, NEW rec, Copy(g, rec),
         NEW v \in {"planning", "awaiting_approval", "active", "paused", "failed"},
         NEW new, new = [rec EXCEPT !.status = v]
  PROVE  Copy(g, new) /\ new.status = v /\ new.plan = rec.plan /\ new.step = rec.step
<1>1. rec \in GoalType /\ Sound(st, earned, g, rec)
  BY DEF Copy
<1>2. /\ new \in GoalType /\ new.status = v /\ new.plan = rec.plan
      /\ new.deadEnd = rec.deadEnd /\ new.step = rec.step /\ new.spent = rec.spent
  BY <1>1 DEF GoalType
<1> QED
  BY <1>1, <1>2 DEF Copy, Sound

\* Concluding a pass yields a copy with the same steps.
LEMMA ConcludeKeeps ==
  ASSUME NEW g, NEW rec, Copy(g, rec)
  PROVE  LET new == Conclude(rec)
         IN  /\ Copy(g, new) /\ new.plan = rec.plan /\ new.step = rec.step
<1>1. rec \in GoalType /\ Sound(st, earned, g, rec)
  BY DEF Copy
<1>2. LET new == [rec EXCEPT !.status = "done", !.deadEnd = FALSE]
      IN  /\ new \in GoalType /\ new.status = "done" /\ new.plan = rec.plan
          /\ new.deadEnd = FALSE /\ new.step = rec.step /\ new.spent = rec.spent
  BY <1>1 DEF GoalType
<1>3. LET new == [rec EXCEPT !.status = "failed", !.deadEnd = TRUE]
      IN  /\ new \in GoalType /\ new.status = "failed" /\ new.plan = rec.plan
          /\ new.deadEnd = TRUE /\ new.step = rec.step /\ new.spent = rec.spent
  BY <1>1 DEF GoalType
<1>4. CASE \A s \in Step : rec.step[s] = "done"
  BY <1>1, <1>2, <1>4 DEF Conclude, Copy, Sound
<1>5. CASE ~(\A s \in Step : rec.step[s] = "done") /\ rec.status # "failed" /\ IsDeadEnd(rec)
  BY <1>1, <1>3, <1>5 DEF Conclude, Copy, Sound, IsDeadEnd
<1>6. CASE ~(\A s \in Step : rec.step[s] = "done") /\ ~(rec.status # "failed" /\ IsDeadEnd(rec))
  BY <1>6 DEF Conclude
<1> QED
  BY <1>4, <1>5, <1>6

-----------------------------------------------------------------------------
(* What the steps of the bus leave of history and copies                   *)

\* Tasks are done at most as often as they are counted.
Grows ==
  /\ earned' \in [Task -> 0 .. 2]
  /\ \A g \in Goal, s \in Step :
       /\ earned[<<g, s>>] <= earned'[<<g, s>>]
       /\ st'[<<g, s>>] = "done" => \/ st[<<g, s>>] = "done"
                                    \/ earned'[<<g, s>>] > earned[<<g, s>>]
                                    \/ earned'[<<g, s>>] = 2

\* A copy stays true while tasks are queued, run and end.
LEMMA CopyStays ==
  ASSUME TypeOK, Grows, NEW g \in Goal, NEW rec, Copy(g, rec)
  PROVE  rec \in GoalType /\ Sound(st', earned', g, rec)
<1>1. rec \in GoalType /\ Sound(st, earned, g, rec) /\ rec.spent \in [Step -> 0 .. 2]
  BY DEF Copy, GoalType
<1>2. ASSUME NEW s \in Step
      PROVE  /\ rec.step[s] = "done" => earned'[<<g, s>>] > 0
             /\ rec.spent[s] <= earned'[<<g, s>>]
             /\ rec.step[s] \in Inflight /\ st'[<<g, s>>] = "done"
                  => rec.spent[s] < earned'[<<g, s>>] \/ earned'[<<g, s>>] = 2
  <2>1. <<g, s>> \in Task /\ earned[<<g, s>>] \in 0 .. 2 /\ earned'[<<g, s>>] \in 0 .. 2
        /\ rec.spent[s] \in 0 .. 2
    BY <1>1 DEF Task, TypeOK, Grows
  <2>2. /\ rec.step[s] = "done" => earned[<<g, s>>] > 0
        /\ rec.spent[s] <= earned[<<g, s>>]
        /\ rec.step[s] \in Inflight /\ st[<<g, s>>] = "done"
             => rec.spent[s] < earned[<<g, s>>] \/ earned[<<g, s>>] = 2
    BY <1>1 DEF Sound
  <2>3. /\ earned[<<g, s>>] <= earned'[<<g, s>>]
        /\ st'[<<g, s>>] = "done" => \/ st[<<g, s>>] = "done"
                                     \/ earned'[<<g, s>>] > earned[<<g, s>>]
                                     \/ earned'[<<g, s>>] = 2
    BY DEF Grows
  <2> QED
    BY <2>1, <2>2, <2>3
<1> QED
  BY <1>1, <1>2 DEF Sound

\* So copies made from copies are copies after the step.
LEMMA CopiesStay ==
  ASSUME TypeOK, Grows,
         \A g \in Goal : Copy(g, goal'[g]),
         \A g \in Goal : pass'[g] # NoCopy => Copy(g, pass'[g]) /\ pass'[g].status = "active",
         \A g \in Goal : cmd'[g].op # "none" =>
            /\ Copy(g, cmd'[g].read)
            /\ IF cmd'[g].op = "create" THEN cmd'[g].read = NewGoal
               ELSE Allowed(cmd'[g].op, cmd'[g].read)
  PROVE  Copies'
<1>1. \A g \in Goal : Copy(g, goal[g])'
  BY CopyStays DEF Copy
<1>2. \A g \in Goal : Pass(g)'
  BY CopyStays DEF Copy, Pass
<1>3. \A g \in Goal : Command(g)'
  <2>1. ASSUME NEW g \in Goal, cmd'[g].op # "none"
        PROVE  /\ Copy(g, cmd[g].read)'
               /\ IF cmd'[g].op = "create" THEN cmd'[g].read = NewGoal
                  ELSE Allowed(cmd'[g].op, cmd'[g].read)
    BY <2>1, CopyStays DEF Copy
  <2> QED
    BY <2>1 DEF Command
<1> QED
  BY <1>1, <1>2, <1>3 DEF Copies

\* History stays true when only tasks whose dependencies were done come onto the bus.
LEMMA HistoryStays ==
  ASSUME TypeOK, History, Grows,
         \A g \in Goal, s \in Step :
            st'[<<g, s>>] # "absent" \/ <<g, s>> \in twice' =>
              \/ st[<<g, s>>] # "absent" \/ <<g, s>> \in twice
              \/ \A d \in Deps[s] : earned[<<g, d>>] > 0
  PROVE  History'
<1> SUFFICES ASSUME NEW g \in Goal, NEW s \in Step PROVE Counted(g, s)' /\ Ordered(g, s)'
  BY DEF History
<1>1. <<g, s>> \in Task /\ earned[<<g, s>>] \in 0 .. 2 /\ earned'[<<g, s>>] \in 0 .. 2
  BY DEF Task, TypeOK, Grows
<1>2. Counted(g, s) /\ Ordered(g, s)
  BY DEF History
<1>3. Counted(g, s)'
  BY <1>1, <1>2 DEF Counted, Grows
<1>4. ASSUME NEW d \in Deps[s], earned[<<g, d>>] > 0 PROVE earned'[<<g, d>>] > 0
  <2>1. d \in Step /\ <<g, d>> \in Task
    BY GoalsAssumption DEF GoalsAssumption, Task
  <2>2. earned[<<g, d>>] \in 0 .. 2 /\ earned'[<<g, d>>] \in 0 .. 2
        /\ earned[<<g, d>>] <= earned'[<<g, d>>]
    BY <2>1 DEF TypeOK, Grows
  <2> QED
    BY <1>4, <2>2
<1>5. Ordered(g, s)'
  BY <1>2, <1>4 DEF Ordered
<1> QED
  BY <1>3, <1>5

\* What SubmitSteps does to each task.
LEMMA Submits ==
  ASSUME TypeOK, History, NEW g \in Goal, NEW rec, Copy(g, rec), NEW S \in SUBSET ToSubmit(g, rec),
         SubmitSteps(g, S), earned' = earned
  PROVE  /\ st' \in [Task -> TheBus!TaskState] /\ twice' \subseteq Task
         /\ Grows /\ History'
         /\ \A h \in Goal, s \in Step :
              st'[<<h, s>>] = IF h = g /\ s \in S THEN "queued" ELSE st[<<h, s>>]
         /\ twice' = twice \/ \E s \in S : st[<<g, s>>] = "waiting"
<1> USE DEF Task
<1>1. S \subseteq Step
  BY DEF ToSubmit, Ready
<1>2. \A h \in Goal, s \in Step :
        st'[<<h, s>>] = IF h = g /\ s \in S THEN "queued" ELSE st[<<h, s>>]
  BY DEF SubmitSteps
<1>3. st' \in [Task -> TheBus!TaskState]
  <2>1. "queued" \in TheBus!TaskState
    BY DEF TheBus!TaskState
  <2> QED
    BY <2>1 DEF SubmitSteps, TypeOK
<1>4. twice' \subseteq Task
  BY <1>1 DEF SubmitSteps, TypeOK
<1>5. Grows
  <2>1. \A h \in Goal, s \in Step : earned[<<h, s>>] \in 0 .. 2
    BY DEF TypeOK
  <2> QED
    BY <1>2, <2>1 DEF Grows, TypeOK
<1>6. \A s \in S : \A d \in Deps[s] : earned[<<g, d>>] > 0
  <2> SUFFICES ASSUME NEW s \in S, NEW d \in Deps[s] PROVE earned[<<g, d>>] > 0
    OBVIOUS
  <2>1. d \in Step /\ rec.step[d] = "done"
    BY <1>1, GoalsAssumption DEF GoalsAssumption, ToSubmit, Ready, DepsMet
  <2> QED
    BY <2>1 DEF Copy, Sound
<1>7. \A h \in Goal, s \in Step : <<h, s>> \in twice' => <<h, s>> \in twice \/ (h = g /\ s \in S)
  BY DEF SubmitSteps
<1>8. History'
  BY <1>2, <1>5, <1>6, <1>7, HistoryStays
<1>9. twice' = twice \/ \E s \in S : st[<<g, s>>] = "waiting"
  BY DEF SubmitSteps
<1> QED
  BY <1>2, <1>3, <1>4, <1>5, <1>8, <1>9

\* What a step of the bus itself does: no task comes onto it, none gets under way.
LEMMA BusMoves ==
  ASSUME TypeOK, History,
         \/ EndTasks \/ \E t \in Task : StartTask(t) \/ RequeueTask(t) \/ CancelTask(t)
  PROVE  /\ st' \in [Task -> TheBus!TaskState] /\ UNCHANGED <<twice, goal, pass, cmd, lost>>
         /\ Grows /\ History'
         /\ \A g \in Goal, s \in Step : UnderWay(g, s)' => UnderWay(g, s)
         /\ used' \in [commands : Nat, crashes : Nat, cancels : Nat]
<1> USE DEF Task
<1>1. ASSUME NEW t \in Task, StartTask(t) \/ RequeueTask(t) \/ CancelTask(t)
      PROVE  /\ st' \in [Task -> TheBus!TaskState]
             /\ \A u \in Task : st'[u] = st[u] \/ (/\ st[u] \in {"queued", "waiting"}
                                                   /\ st'[u] # "done")
  <2>1. /\ st[t] \in {"queued", "waiting"}
        /\ \E s \in {"running", "queued", "absent", "waiting", "failed"} :
             st' = [st EXCEPT ![t] = s]
    BY <1>1 DEF StartTask, RequeueTask, CancelTask, BusStep, TheBus!Start, TheBus!Requeue,
       TheBus!Cancel, TheBus!Become, TheBus!Leftover
  <2> QED
    BY <2>1 DEF TypeOK, TheBus!TaskState, TheBus!Outcome
<1>2. ASSUME EndTasks
      PROVE  /\ st' \in [Task -> TheBus!TaskState]
             /\ \A u \in Task : st'[u] = st[u] \/ st[u] = "running"
  <2>1. PICK T \in SUBSET Task : TheBus!Finish(T)
    BY <1>2 DEF EndTasks, BusStep
  <2>2. PICK end \in [T -> TheBus!Outcome \cup {"waiting"}] :
          st' = [t \in Task |-> IF t \in T THEN end[t] ELSE st[t]]
    BY <2>1 DEF TheBus!Finish
  <2>3. \A u \in T : st[u] = "running"
    BY <2>1 DEF TheBus!Finish, TheBus!InState
  <2> QED
    BY <2>2, <2>3 DEF TypeOK, TheBus!TaskState
<1>3. /\ st' \in [Task -> TheBus!TaskState]
      /\ \A u \in Task : st'[u] = st[u] \/ st[u] \in {"queued", "waiting", "running"}
  BY <1>1, <1>2
<1>4. Grows
  <2>1. CASE EndTasks \/ \E t \in Task : StartTask(t) \/ RequeueTask(t)
    <3>1. earned' = [t \in Task |-> IF st'[t] = "done" /\ st[t] # "done" /\ earned[t] < 2
                                    THEN earned[t] + 1 ELSE earned[t]]
      BY <2>1 DEF EndTasks, StartTask, RequeueTask, BusStep
    <3>2. \A t \in Task : earned[t] \in 0 .. 2
      BY DEF TypeOK
    <3>3. \A t \in Task : earned'[t] \in 0 .. 2 /\ earned[t] <= earned'[t]
      BY <3>1, <3>2
    <3>4. earned' \in [Task -> 0 .. 2]
      BY <3>1, <3>3
    <3>5. \A t \in Task : st'[t] = "done" => \/ st[t] = "done" \/ earned'[t] > earned[t]
                                             \/ earned'[t] = 2
      BY <3>1, <3>2
    <3> QED
      BY <3>3, <3>4, <3>5 DEF Grows
  <2>2. ASSUME NEW t \in Task, CancelTask(t) PROVE Grows
    <3>1. earned' = earned
      BY <2>2 DEF CancelTask
    <3>2. \A g \in Goal, s \in Step : earned[<<g, s>>] \in 0 .. 2
      BY DEF TypeOK
    <3>3. \A u \in Task : st'[u] = "done" => st[u] = "done"
      BY <1>1, <2>2
    <3> QED
      BY <3>1, <3>2, <3>3 DEF Grows, TypeOK
  <2> QED
    BY <2>1, <2>2
<1>5. UNCHANGED <<twice, goal, pass, cmd, lost>>
  BY DEF EndTasks, StartTask, RequeueTask, CancelTask, BusStep
<1>6. used' \in [commands : Nat, crashes : Nat, cancels : Nat]
  BY DEF EndTasks, StartTask, RequeueTask, CancelTask, BusStep, TypeOK
<1>7. History'
  BY <1>3, <1>4, <1>5, HistoryStays
<1>8. \A g \in Goal, s \in Step : UnderWay(g, s)' => UnderWay(g, s)
  BY <1>3 DEF UnderWay, Inflight
<1> QED
  BY <1>3, <1>4, <1>5, <1>6, <1>7, <1>8

\* A step that leaves tasks and counts alone.
LEMMA QuietGrows ==
  ASSUME TypeOK, UNCHANGED <<st, earned>>
  PROVE  Grows
<1>1. \A g \in Goal, s \in Step : earned[<<g, s>>] \in 0 .. 2
  BY DEF TypeOK, Task
<1> QED
  BY <1>1 DEF Grows, TypeOK

-----------------------------------------------------------------------------
(* What saving a goal file leaves                                          *)

\* A goal file written from a copy holds a copy, and what was read unless a save is lost.
LEMMA SaveKeeps ==
  ASSUME TypeOK, Copies, NEW g \in Goal, NEW read, NEW rec, Copy(g, rec), Save(g, read, rec)
  PROVE  /\ goal' \in [Goal -> GoalType] /\ \A h \in Goal : Copy(h, goal'[h])
         /\ \A h \in Goal : goal'[h] = IF h = g THEN rec ELSE goal[h]
         /\ lost' \in BOOLEAN /\ (~lost' => ~lost /\ goal[g] = read)
<1>1. \A h \in Goal : goal'[h] = IF h = g THEN rec ELSE goal[h]
  BY DEF Save, TypeOK
<1>2. lost' \in BOOLEAN /\ (~lost' => ~lost /\ goal[g] = read)
  BY DEF Save, TypeOK
<1>3. goal' \in [Goal -> GoalType]
  BY DEF Save, TypeOK, Copy
<1>4. \A h \in Goal : Copy(h, goal'[h])
  BY <1>1 DEF Copies
<1> QED
  BY <1>1, <1>2, <1>3, <1>4

\* Queueing steps, with a goal file written after it that follows them or with a loss.
LEMMA QueueKeeps ==
  ASSUME Inv, NEW g \in Goal, NEW read, NEW base, Copy(g, base), NEW rec, Copy(g, rec),
         base.plan = read.plan, rec.plan = read.plan,
         \A s \in Step : UnderWay(g, s) /\ read.step[s] \in Inflight
                           => base.step[s] \in Inflight /\ rec.step[s] \in Inflight,
         NEW S \in SUBSET ToSubmit(g, base), \A s \in S : rec.step[s] \in Inflight,
         SubmitSteps(g, S), earned' = earned,
         Save(g, read, rec) \/ (goal' = goal /\ lost' = (lost \/ S # {}))
  PROVE  /\ st' \in [Task -> TheBus!TaskState] /\ twice' \subseteq Task /\ lost' \in BOOLEAN
         /\ goal' \in [Goal -> GoalType] /\ \A h \in Goal : Copy(h, goal'[h])
         /\ Grows /\ History' /\ Follows'
<1>1. /\ st' \in [Task -> TheBus!TaskState] /\ twice' \subseteq Task /\ Grows /\ History'
      /\ \A h \in Goal, s \in Step :
           st'[<<h, s>>] = IF h = g /\ s \in S THEN "queued" ELSE st[<<h, s>>]
      /\ twice' = twice \/ \E s \in S : st[<<g, s>>] = "waiting"
  BY Submits DEF Inv
<1>2. \A s \in S : s \in Step /\ base.plan /\ base.step[s] = "pending"
  BY DEF ToSubmit, Ready
<1>3. CASE Save(g, read, rec)
  <2>1. /\ goal' \in [Goal -> GoalType] /\ \A h \in Goal : Copy(h, goal'[h])
        /\ \A h \in Goal : goal'[h] = IF h = g THEN rec ELSE goal[h]
        /\ lost' \in BOOLEAN /\ (~lost' => ~lost /\ goal[g] = read)
    BY <1>3, SaveKeeps DEF Inv
  <2>2. ASSUME ~lost' PROVE twice' = {} /\ \A h \in Goal, s \in Step : Followed(h, s)'
    <3>1. /\ goal[g] = read /\ twice = {} /\ \A h \in Goal, s \in Step : Followed(h, s)
      BY <2>1, <2>2 DEF Inv, Follows
    <3>2. \A s \in S : ~UnderWay(g, s)
      BY <1>2, <3>1 DEF Followed, Inflight
    <3>3. twice' = {}
      BY <1>1, <3>1, <3>2 DEF UnderWay
    <3>4. ASSUME NEW h \in Goal, NEW s \in Step, UnderWay(h, s)' PROVE Followed(h, s)'
      <4>1. CASE h = g /\ s \in S
        BY <1>2, <2>1, <4>1 DEF Followed
      <4>2. CASE ~(h = g /\ s \in S)
        <5>1. UnderWay(h, s) /\ Followed(h, s)
          BY <1>1, <3>1, <3>4, <4>2 DEF UnderWay
        <5> QED
          BY <2>1, <3>1, <5>1 DEF Followed
      <4> QED
        BY <4>1, <4>2
    <3> QED
      BY <3>3, <3>4 DEF Followed
  <2> QED
    BY <1>1, <2>1, <2>2 DEF Follows
<1>4. CASE goal' = goal /\ lost' = (lost \/ S # {})
  <2>1. /\ goal' \in [Goal -> GoalType] /\ \A h \in Goal : Copy(h, goal'[h])
        /\ lost' \in BOOLEAN
    BY <1>4 DEF Inv, TypeOK, Copies
  <2>2. ASSUME ~lost' PROVE twice' = {} /\ \A h \in Goal, s \in Step : Followed(h, s)'
    <3>1. ~lost /\ S = {}
      BY <1>4, <2>2
    <3>2. \A h \in Goal, s \in Step : st'[<<h, s>>] = st[<<h, s>>]
      BY <1>1, <3>1
    <3> QED
      BY <1>1, <1>4, <3>1, <3>2 DEF Inv, Follows, Followed, UnderWay
  <2> QED
    BY <1>1, <2>1, <2>2 DEF Follows
<1> QED
  BY <1>3, <1>4

-----------------------------------------------------------------------------
(* The actions                                                             *)

\* What the daemon's evaluation of a copy writes, and what of it follows the bus.
LEMMA Evaluated ==
  ASSUME Inv, NEW g \in Goal, pass[g] # NoCopy
  PROVE  LET marked == BlockSteps(SyncSteps(g, pass[g]))
             queued == WithReady(g, marked)
             broken == [marked EXCEPT !.status = "failed"]
         IN  /\ Copy(g, marked) /\ marked.plan = pass[g].plan
             /\ \A rec \in {Conclude(queued), Conclude(broken)} :
                  /\ Copy(g, rec) /\ rec.plan = pass[g].plan
                  /\ \A s \in Step : UnderWay(g, s) /\ pass[g].step[s] \in Inflight
                       => marked.step[s] \in Inflight /\ rec.step[s] \in Inflight
             /\ \A s \in ToSubmit(g, marked) : Conclude(queued).step[s] \in Inflight
<1> DEFINE synced == SyncSteps(g, pass[g])
           marked == BlockSteps(synced)
           queued == WithReady(g, marked)
           broken == [marked EXCEPT !.status = "failed"]
<1>1. Copy(g, pass[g]) /\ TypeOK /\ History
  BY DEF Inv, Copies, Pass
<1>2. /\ Copy(g, synced) /\ synced.plan = pass[g].plan
      /\ \A s \in Step : pass[g].step[s] \in Inflight /\ UnderWay(g, s)
                           => synced.step[s] \in Inflight
  BY <1>1, SyncKeeps
<1> HIDE DEF synced
<1>3. /\ Copy(g, marked) /\ marked.plan = synced.plan
      /\ \A s \in Step : synced.step[s] \in Inflight => marked.step[s] = synced.step[s]
  BY <1>2, BlockKeeps
<1> HIDE DEF marked
<1>4. /\ Copy(g, queued) /\ queued.plan = marked.plan
      /\ \A s \in Step : marked.step[s] \in Inflight => queued.step[s] = marked.step[s]
      /\ \A s \in ToSubmit(g, marked) : queued.step[s] = "queued"
  BY <1>1, <1>3, ReadyKeeps
<1>5. Copy(g, broken) /\ broken.plan = marked.plan /\ broken.step = marked.step
  BY <1>3, StatusKeeps
<1> HIDE DEF queued, broken
<1>6. /\ Copy(g, Conclude(queued)) /\ Conclude(queued).plan = queued.plan
      /\ Conclude(queued).step = queued.step
  BY <1>4, ConcludeKeeps
<1>7. /\ Copy(g, Conclude(broken)) /\ Conclude(broken).plan = broken.plan
      /\ Conclude(broken).step = broken.step
  BY <1>5, ConcludeKeeps
<1>8. \A s \in ToSubmit(g, marked) : Conclude(queued).step[s] \in Inflight
  BY <1>4, <1>6 DEF Inflight
<1>9. \A rec \in {Conclude(queued), Conclude(broken)} :
        /\ Copy(g, rec) /\ rec.plan = pass[g].plan
        /\ \A s \in Step : UnderWay(g, s) /\ pass[g].step[s] \in Inflight
             => marked.step[s] \in Inflight /\ rec.step[s] \in Inflight
  BY <1>2, <1>3, <1>4, <1>5, <1>6, <1>7
<1> QED
  BY <1>2, <1>3, <1>8, <1>9 DEF synced, marked, queued, broken

\* The daemon's pass over one goal.
LEMMA EvaluateStep ==
  ASSUME Inv, NEW g \in Goal, Evaluate(g) \/ EvaluateDies(g)
  PROVE  Inv'
<1> DEFINE marked == BlockSteps(SyncSteps(g, pass[g]))
           queued == Conclude(WithReady(g, marked))
           broken == Conclude([marked EXCEPT !.status = "failed"])
<1>1. /\ pass[g] # NoCopy /\ UNCHANGED <<cmd, earned>>
      /\ pass' \in [Goal -> GoalType \cup {NoCopy}]
      /\ \A h \in Goal : pass'[h] \in {pass[h], NoCopy}
      /\ used' \in [commands : Nat, crashes : Nat, cancels : Nat]
  BY DEF Evaluate, EvaluateDies, Inv, TypeOK
<1>2. /\ Copy(g, marked) /\ marked.plan = pass[g].plan
      /\ \A rec \in {queued, broken} :
           /\ Copy(g, rec) /\ rec.plan = pass[g].plan
           /\ \A s \in Step : UnderWay(g, s) /\ pass[g].step[s] \in Inflight
                => marked.step[s] \in Inflight /\ rec.step[s] \in Inflight
      /\ \A s \in ToSubmit(g, marked) : queued.step[s] \in Inflight
  BY <1>1, Evaluated
<1>3. \E rec \in {queued, broken} : \E S \in SUBSET ToSubmit(g, marked) :
           /\ SubmitSteps(g, S) /\ (S # {} => rec = queued)
           /\ Save(g, pass[g], rec) \/ (goal' = goal /\ lost' = (lost \/ S # {}))
  <2>1. CASE Evaluate(g)
    <3>1. CASE /\ SubmitSteps(g, ToSubmit(g, marked))
               /\ IF marked # pass[g] \/ ToSubmit(g, marked) # {} \/ queued.status # "active"
                  THEN Save(g, pass[g], queued) ELSE UNCHANGED <<goal, lost>>
      <4> HIDE DEF marked, queued, broken
      <4>1. \/ Save(g, pass[g], queued)
            \/ goal' = goal /\ lost' = lost /\ ToSubmit(g, marked) = {}
        BY <3>1
      <4>2. lost \in BOOLEAN
        BY DEF Inv, TypeOK
      <4>3. \/ Save(g, pass[g], queued)
            \/ goal' = goal /\ lost' = (lost \/ ToSubmit(g, marked) # {})
        BY <4>1, <4>2
      <4> QED
        BY <3>1, <4>3
    <3>2. CASE /\ SubmitSteps(g, {})
               /\ IF marked # pass[g] \/ {} # {} \/ broken.status # "active"
                  THEN Save(g, pass[g], broken) ELSE UNCHANGED <<goal, lost>>
      <4> HIDE DEF marked, queued, broken
      <4>1. lost \in BOOLEAN
        BY DEF Inv, TypeOK
      <4>2. \/ Save(g, pass[g], broken)
            \/ goal' = goal /\ lost' = (lost \/ {} # {})
        BY <3>2, <4>1
      <4> QED
        BY <3>2, <4>2
    <3> QED
      BY <2>1, <3>1, <3>2 DEF Evaluate
  <2>2. CASE EvaluateDies(g)
    BY <2>2 DEF EvaluateDies
  <2> QED
    BY <2>1, <2>2
<1> HIDE DEF marked, queued, broken
<1>4. PICK rec \in {queued, broken}, S \in SUBSET ToSubmit(g, marked) :
           /\ SubmitSteps(g, S) /\ (S # {} => rec = queued)
           /\ Save(g, pass[g], rec) \/ (goal' = goal /\ lost' = (lost \/ S # {}))
  BY <1>3
<1>5. \A s \in S : rec.step[s] \in Inflight
  BY <1>2, <1>4
<1>6. /\ st' \in [Task -> TheBus!TaskState] /\ twice' \subseteq Task /\ lost' \in BOOLEAN
      /\ goal' \in [Goal -> GoalType] /\ \A h \in Goal : Copy(h, goal'[h])
      /\ Grows /\ History' /\ Follows'
  <2>1. /\ Copy(g, marked) /\ Copy(g, rec) /\ marked.plan = pass[g].plan
        /\ rec.plan = pass[g].plan
        /\ \A s \in Step : UnderWay(g, s) /\ pass[g].step[s] \in Inflight
             => marked.step[s] \in Inflight /\ rec.step[s] \in Inflight
    BY <1>2
  <2> QED
    BY <1>1, <1>4, <1>5, <2>1, QueueKeeps
<1>7. Copies'
  <2>1. \A h \in Goal : Pass(h) /\ Command(h)
    BY DEF Inv, Copies
  <2> QED
    BY <1>1, <1>6, <2>1, CopiesStay DEF Inv, Pass, Command
<1>8. TypeOK'
  BY <1>1, <1>6 DEF Inv, TypeOK, Grows
<1> QED
  BY <1>6, <1>7, <1>8 DEF Inv

\* Approving a goal.
LEMMA ApproveStep ==
  ASSUME Inv, NEW g \in Goal, Approve(g) \/ ApproveDies(g)
  PROVE  Inv'
<1> DEFINE read == cmd[g].read
           rec  == WithReady(g, read)
           new  == [rec EXCEPT !.status = "active"]
<1>1. /\ cmd[g].op = "approve" /\ UNCHANGED <<pass, earned>>
      /\ cmd' = [cmd EXCEPT ![g] = NoCmd]
      /\ used' \in [commands : Nat, crashes : Nat, cancels : Nat]
  BY DEF Approve, ApproveDies, Inv, TypeOK
<1>2. Copy(g, read) /\ TypeOK /\ History
  BY <1>1 DEF Inv, Copies, Command
<1>3. /\ Copy(g, rec) /\ rec.status = read.status /\ rec.plan = read.plan
      /\ \A s \in Step : read.step[s] \in Inflight => rec.step[s] = read.step[s]
      /\ \A s \in ToSubmit(g, read) : rec.step[s] = "queued"
  BY <1>2, ReadyKeeps
<1>4. \E S \in SUBSET ToSubmit(g, read) :
           /\ SubmitSteps(g, S)
           /\ Save(g, read, new) \/ (goal' = goal /\ lost' = (lost \/ S # {}))
  <2>1. CASE Approve(g)
    <3> DEFINE S == ToSubmit(g, read)
    <3>1. /\ SubmitSteps(g, S)
          /\ IF S # {} \/ HasInflight(rec) THEN Save(g, read, new) ELSE UNCHANGED <<goal, lost>>
      BY <2>1 DEF Approve
    <3> HIDE DEF S, new, rec, read
    <3>2. Save(g, read, new) \/ (goal' = goal /\ lost' = (lost \/ S # {}))
      BY <3>1 DEF Inv, TypeOK
    <3> QED
      BY <3>1, <3>2 DEF S
  <2>2. CASE ApproveDies(g)
    BY <2>2 DEF ApproveDies
  <2> QED
    BY <2>1, <2>2
<1> HIDE DEF read, rec
<1>5. Copy(g, new) /\ new.status = "active" /\ new.plan = rec.plan /\ new.step = rec.step
  BY <1>3, StatusKeeps
<1> HIDE DEF new
<1>6. PICK S \in SUBSET ToSubmit(g, read) :
           /\ SubmitSteps(g, S)
           /\ Save(g, read, new) \/ (goal' = goal /\ lost' = (lost \/ S # {}))
  BY <1>4
<1>7. /\ st' \in [Task -> TheBus!TaskState] /\ twice' \subseteq Task /\ lost' \in BOOLEAN
      /\ goal' \in [Goal -> GoalType] /\ \A h \in Goal : Copy(h, goal'[h])
      /\ Grows /\ History' /\ Follows'
  <2>1. /\ new.plan = read.plan
        /\ \A s \in Step : UnderWay(g, s) /\ read.step[s] \in Inflight
             => read.step[s] \in Inflight /\ new.step[s] \in Inflight
        /\ \A s \in S : new.step[s] \in Inflight
    BY <1>3, <1>5, <1>6 DEF Inflight
  <2> QED
    BY <1>1, <1>2, <1>5, <1>6, <2>1, QueueKeeps
<1>8. Copies'
  <2>1. \A h \in Goal : Pass(h) /\ Command(h)
    BY DEF Inv, Copies
  <2>2. \A h \in Goal : cmd'[h] = IF h = g THEN NoCmd ELSE cmd[h]
    BY <1>1 DEF Inv, TypeOK
  <2>3. NoCmd.op = "none"
    BY DEF NoCmd
  <2> QED
    BY <1>1, <1>7, <2>1, <2>2, <2>3, CopiesStay DEF Inv, Pass, Command
<1>9. cmd' \in [Goal -> [op : Op \cup {"none", "create"}, read : GoalType \cup {NoCopy}]]
  BY <1>1 DEF Inv, TypeOK, NoCmd
<1>10. TypeOK'
  BY <1>1, <1>7, <1>9 DEF Inv, TypeOK, Grows
<1> QED
  BY <1>7, <1>8, <1>10 DEF Inv

\* What is left of a goal file that a command sets without touching the bus.
LEMMA SetStep ==
  ASSUME Inv, NEW g \in Goal, NEW read, NEW rec, Copy(g, rec), Save(g, read, rec),
         UNCHANGED <<busVars, pass, earned, used>>,
         goal[g] = read => \A s \in Step : Followed(g, s) /\ UnderWay(g, s) =>
                              rec.plan /\ rec.step[s] \in Inflight,
         NEW c \in [op : Op \cup {"none", "create"}, read : GoalType \cup {NoCopy}],
         cmd' = [cmd EXCEPT ![g] = c],
         c.op = "none" \/ (c.op = "approve" /\ Copy(g, c.read) /\ Allowed("approve", c.read))
  PROVE  Inv'
<1>1. /\ goal' \in [Goal -> GoalType] /\ \A h \in Goal : Copy(h, goal'[h])
      /\ \A h \in Goal : goal'[h] = IF h = g THEN rec ELSE goal[h]
      /\ lost' \in BOOLEAN /\ (~lost' => ~lost /\ goal[g] = read)
  BY SaveKeeps DEF Inv
<1>2. UNCHANGED <<st, twice, pass, earned, used>>
  BY DEF busVars
<1>3. Grows
  BY <1>2, QuietGrows DEF Inv
<1>4. History'
  BY <1>2 DEF Inv, History, Counted, Ordered
<1>5. Copies'
  <2>1. \A h \in Goal : Pass(h) /\ Command(h)
    BY DEF Inv, Copies
  <2>2. \A h \in Goal : cmd'[h] = IF h = g THEN c ELSE cmd[h]
    BY DEF Inv, TypeOK
  <2> QED
    BY <1>1, <1>2, <1>3, <2>1, <2>2, CopiesStay DEF Inv, Pass, Command
<1>6. Follows'
  <2>1. ASSUME ~lost', NEW h \in Goal, NEW s \in Step, UnderWay(h, s)
        PROVE  goal'[h].plan /\ goal'[h].step[s] \in Inflight
    <3>1. ~lost /\ goal[g] = read
      BY <1>1, <2>1
    <3>2. Followed(h, s)
      BY <3>1 DEF Inv, Follows
    <3> QED
      BY <1>1, <2>1, <3>1, <3>2 DEF Followed
  <2> QED
    BY <1>1, <1>2, <2>1 DEF Inv, Follows, Followed, UnderWay
<1>7. TypeOK'
  BY <1>1, <1>2 DEF Inv, TypeOK
<1> QED
  BY <1>4, <1>5, <1>6, <1>7 DEF Inv

\* The end of a command has this type, and an end it is.
LEMMA NoCmdType ==
  /\ NoCmd \in [op : Op \cup {"none", "create"}, read : GoalType \cup {NoCopy}]
  /\ NoCmd.op = "none"
  BY DEF NoCmd

\* What the copy that a command holds says of the command.
LEMMA CommandReads ==
  ASSUME Inv, NEW g \in Goal, cmd[g].op # "none"
  PROVE  /\ Copy(g, cmd[g].read) /\ cmd[g].read \in GoalType
         /\ cmd[g].op = "create" => cmd[g].read = NewGoal
         /\ cmd[g].op # "create" => Allowed(cmd[g].op, cmd[g].read)
  BY DEF Inv, Copies, Command, Copy

\* The planner ends, with a plan or without.
LEMMA PlannerStep ==
  ASSUME Inv, NEW g \in Goal, PlannerEnds(g)
  PROVE  Inv'
<1> DEFINE read == cmd[g].read
           rec == [read EXCEPT !.plan = TRUE, !.status = "awaiting_approval"]
<1>1. cmd[g].op = "create" /\ UNCHANGED <<busVars, pass, earned, used>>
  BY DEF PlannerEnds
<1>2. Copy(g, read) /\ read \in GoalType
  BY <1>1, CommandReads
<1>3. /\ rec \in GoalType /\ rec.plan = TRUE /\ rec.status = "awaiting_approval"
      /\ rec.deadEnd = read.deadEnd /\ rec.step = read.step /\ rec.spent = read.spent
  BY <1>2 DEF GoalType
<1>4. Copy(g, rec)
  BY <1>2, <1>3 DEF Copy, Sound
<1>5. CASE UNCHANGED <<goal, lost>> /\ cmd' = [cmd EXCEPT ![g] = NoCmd]
  <2>1. UNCHANGED <<st, twice, goal, pass, earned, lost, used>>
    BY <1>1, <1>5 DEF busVars
  <2>2. Grows
    BY <2>1, QuietGrows DEF Inv
  <2>3. \A h \in Goal : cmd'[h] = IF h = g THEN NoCmd ELSE cmd[h]
    BY <1>5 DEF Inv, TypeOK
  <2>4. Copies'
    <3>1. \A h \in Goal : Copy(h, goal[h]) /\ Pass(h) /\ Command(h)
      BY DEF Inv, Copies
    <3> QED
      BY <2>1, <2>2, <2>3, <3>1, NoCmdType, CopiesStay DEF Inv, Pass, Command
  <2>5. TypeOK'
    BY <1>5, <2>1, NoCmdType DEF Inv, TypeOK
  <2>6. History' /\ Follows'
    BY <2>1 DEF Inv, History, Counted, Ordered, Follows, Followed, UnderWay
  <2> QED
    BY <2>4, <2>5, <2>6 DEF Inv
<1>6. CASE Save(g, read, rec) /\ \E c \in {NoCmd, [op |-> "approve", read |-> rec]} :
                                    cmd' = [cmd EXCEPT ![g] = c]
  <2>1. PICK c \in {NoCmd, [op |-> "approve", read |-> rec]} : cmd' = [cmd EXCEPT ![g] = c]
    BY <1>6
  <2>2. /\ c \in [op : Op \cup {"none", "create"}, read : GoalType \cup {NoCopy}]
        /\ c.op = "none" \/ (c.op = "approve" /\ Copy(g, c.read) /\ Allowed("approve", c.read))
    <3>1. Allowed("approve", rec)
      BY <1>3 DEF Allowed
    <3> HIDE DEF rec
    <3>2. CASE c = NoCmd
      BY <3>2, NoCmdType
    <3>3. CASE c = [op |-> "approve", read |-> rec]
      BY <1>3, <1>4, <3>1, <3>3 DEF Op
    <3> QED
      BY <2>1, <3>2, <3>3
  <2>3. goal[g] = read => \A s \in Step : Followed(g, s) /\ UnderWay(g, s) =>
                              rec.plan /\ rec.step[s] \in Inflight
    BY <1>3 DEF Followed
  <2> HIDE DEF read, rec
  <2> QED
    BY <1>1, <1>4, <1>6, <2>1, <2>2, <2>3, SetStep
<1> QED
  BY <1>5, <1>6 DEF PlannerEnds

\* A user writes a plan into a goal file.
LEMMA PlanByHandStep ==
  ASSUME Inv, NEW g \in Goal, PlanByHand(g)
  PROVE  Inv'
<1> DEFINE rec == [goal[g] EXCEPT !.plan = TRUE]
<1>1. UNCHANGED <<st, twice, pass, cmd, earned, lost, used>>
  BY DEF PlanByHand, busVars
<1>2. \A h \in Goal : Copy(h, goal[h]) /\ Pass(h) /\ Command(h)
  BY DEF Inv, Copies
<1>3. /\ rec \in GoalType /\ rec.plan = TRUE /\ rec.status = goal[g].status
      /\ rec.deadEnd = goal[g].deadEnd /\ rec.step = goal[g].step /\ rec.spent = goal[g].spent
  BY <1>2 DEF Copy, GoalType
<1>4. Copy(g, rec)
  BY <1>2, <1>3 DEF Copy, Sound
<1>5. goal' = [goal EXCEPT ![g] = rec]
  BY DEF PlanByHand
<1> HIDE DEF rec
<1>6. \A h \in Goal : goal'[h] = IF h = g THEN rec ELSE goal[h]
  BY <1>5 DEF Inv, TypeOK
<1>7. Grows
  BY <1>1, QuietGrows DEF Inv
<1>8. Copies'
  BY <1>1, <1>2, <1>4, <1>6, <1>7, CopiesStay DEF Inv, Pass, Command
<1>9. Follows'
  BY <1>1, <1>3, <1>6 DEF Inv, Follows, Followed, UnderWay
<1>10. History'
  BY <1>1 DEF Inv, History, Counted, Ordered
<1>11. TypeOK'
  BY <1>1, <1>3, <1>5 DEF Inv, TypeOK
<1> QED
  BY <1>8, <1>9, <1>10, <1>11 DEF Inv

\* Cancelling a goal takes tasks out of the queue and fails the goal.
LEMMA CancelStep ==
  ASSUME Inv, NEW g \in Goal, CancelGoal(g)
  PROVE  Inv'
<1> DEFINE read == cmd[g].read
           rec == [read EXCEPT !.status = "failed"]
<1>1. /\ cmd[g].op = "cancel" /\ UNCHANGED <<twice, pass, earned, used>>
      /\ cmd' = [cmd EXCEPT ![g] = NoCmd]
      /\ Save(g, read, rec) \/ UNCHANGED <<goal, lost>>
  BY DEF CancelGoal
<1>2. /\ st' \in [Task -> TheBus!TaskState]
      /\ \A t \in Task : st'[t] = st[t] \/ (st[t] = "queued" /\ st'[t] = "absent")
  <2>1. "absent" \in TheBus!TaskState
    BY DEF TheBus!TaskState
  <2> QED
    BY <2>1 DEF CancelGoal, Inv, TypeOK
<1>3. Copy(g, read)
  BY <1>1, CommandReads
<1> HIDE DEF read
<1>4. Copy(g, rec) /\ rec.plan = read.plan /\ rec.step = read.step
  BY <1>3, StatusKeeps
<1> HIDE DEF rec
<1>5. \A h \in Goal, s \in Step : st'[<<h, s>>] = st[<<h, s>>]
                                   \/ (st[<<h, s>>] = "queued" /\ st'[<<h, s>>] = "absent")
  BY <1>2 DEF Task
<1>6. Grows
  <2>1. \A h \in Goal, s \in Step : earned[<<h, s>>] \in 0 .. 2
    BY DEF Inv, TypeOK, Task
  <2> QED
    BY <1>1, <1>5, <2>1 DEF Grows, Inv, TypeOK
<1>7. History'
  BY <1>1, <1>5, <1>6, HistoryStays DEF Inv
<1>8. /\ goal' \in [Goal -> GoalType] /\ \A h \in Goal : Copy(h, goal'[h])
      /\ lost' \in BOOLEAN
      /\ ~lost' => /\ ~lost
                   /\ \A h \in Goal : goal'[h].plan = goal[h].plan /\ goal'[h].step = goal[h].step
  <2>1. CASE Save(g, read, rec)
    <3>1. /\ goal' \in [Goal -> GoalType] /\ \A h \in Goal : Copy(h, goal'[h])
          /\ \A h \in Goal : goal'[h] = IF h = g THEN rec ELSE goal[h]
          /\ lost' \in BOOLEAN /\ (~lost' => ~lost /\ goal[g] = read)
      BY <1>4, <2>1, SaveKeeps DEF Inv
    <3> QED
      BY <1>4, <3>1
  <2>2. CASE UNCHANGED <<goal, lost>>
    BY <2>2 DEF Inv, TypeOK, Copies
  <2> QED
    BY <1>1, <2>1, <2>2
<1>9. Follows'
  <2>1. ASSUME ~lost', NEW h \in Goal, NEW s \in Step, UnderWay(h, s)'
        PROVE  goal'[h].plan /\ goal'[h].step[s] \in Inflight
    <3>1. UnderWay(h, s)
      BY <1>5, <2>1 DEF UnderWay, Inflight
    <3>2. Followed(h, s)
      BY <1>8, <2>1 DEF Inv, Follows
    <3> QED
      BY <1>8, <2>1, <3>1, <3>2 DEF Followed
  <2> QED
    BY <1>1, <1>8, <2>1 DEF Inv, Follows, Followed
<1>10. Copies'
  <2>1. \A h \in Goal : Pass(h) /\ Command(h)
    BY DEF Inv, Copies
  <2>2. \A h \in Goal : cmd'[h] = IF h = g THEN NoCmd ELSE cmd[h]
    BY <1>1 DEF Inv, TypeOK
  <2> QED
    BY <1>1, <1>6, <1>8, <2>1, <2>2, NoCmdType, CopiesStay DEF Inv, Pass, Command
<1>11. TypeOK'
  <2>1. cmd' \in [Goal -> [op : Op \cup {"none", "create"}, read : GoalType \cup {NoCopy}]]
    BY <1>1, NoCmdType DEF Inv, TypeOK
  <2> QED
    BY <1>1, <1>2, <1>8, <2>1 DEF Inv, TypeOK
<1> QED
  BY <1>7, <1>9, <1>10, <1>11 DEF Inv

\* What a status command or a replan writes: a copy, with the steps it read unless it is
\* a replan, which no step in flight allows.
LEMMA SetWrites ==
  ASSUME Inv, NEW g \in Goal, SetGoal(g)
  PROVE  \E rec : /\ Save(g, cmd[g].read, rec) /\ Copy(g, rec)
                  /\ \/ rec.plan = cmd[g].read.plan /\ rec.step = cmd[g].read.step
                     \/ ~HasInflight(cmd[g].read)
                  /\ \/ rec.status \in {cmd[g].read.status, "planning"}
                     \/ cmd[g].read.status \in {"active", "paused"}
<1> DEFINE read == cmd[g].read
<1>1. Copy(g, read) /\ read \in GoalType /\ cmd[g].op \in {"pause", "resume", "budget", "replan"}
      /\ Allowed(cmd[g].op, read)
  BY CommandReads DEF SetGoal
<1>2. CASE cmd[g].op = "pause"
  <2> DEFINE rec == [read EXCEPT !.status = "paused"]
  <2>1. Save(g, read, rec) /\ read.status = "active"
    BY <1>1, <1>2 DEF SetGoal, Allowed
  <2> HIDE DEF read
  <2>2. Copy(g, rec) /\ rec.plan = read.plan /\ rec.step = read.step
    BY <1>1, StatusKeeps
  <2> HIDE DEF rec
  <2> QED
    BY <2>1, <2>2 DEF read
<1>3. CASE cmd[g].op = "resume"
  <2> DEFINE rec == [read EXCEPT !.status = "active"]
  <2>1. Save(g, read, rec) /\ read.status = "paused"
    BY <1>1, <1>3 DEF SetGoal, Allowed, MayResume
  <2> HIDE DEF read
  <2>2. Copy(g, rec) /\ rec.plan = read.plan /\ rec.step = read.step
    BY <1>1, StatusKeeps
  <2> HIDE DEF rec
  <2> QED
    BY <2>1, <2>2 DEF read
<1>4. CASE cmd[g].op = "budget"
  <2>1. Save(g, read, read)
    BY <1>4 DEF SetGoal
  <2> QED
    BY <1>1, <2>1
<1>5. CASE cmd[g].op = "replan"
  <2> DEFINE rec == [NewGoal EXCEPT !.spent = read.spent]
  <2>1. Save(g, read, rec) /\ ~HasInflight(read)
    BY <1>1, <1>5 DEF SetGoal, Allowed, MayReplan
  <2>2. read.spent \in [Step -> 0 .. 2]
    BY <1>1 DEF GoalType
  <2>3. /\ rec \in GoalType /\ rec.status = "planning" /\ rec.deadEnd = FALSE
        /\ rec.step = [s \in Step |-> "pending"] /\ rec.spent = read.spent
    BY <2>2 DEF NewGoal, GoalType
  <2>4. Copy(g, rec)
    BY <1>1, <2>3 DEF Copy, Sound, Inflight
  <2> HIDE DEF rec
  <2> QED
    BY <2>1, <2>3, <2>4
<1> QED
  BY <1>1, <1>2, <1>3, <1>4, <1>5

\* A status command, a budget or a replan.
LEMMA SetGoalStep ==
  ASSUME Inv, NEW g \in Goal, SetGoal(g)
  PROVE  Inv'
<1>1. /\ UNCHANGED <<busVars, pass, earned, used>> /\ cmd' = [cmd EXCEPT ![g] = NoCmd]
  BY DEF SetGoal
<1>2. PICK rec : /\ Save(g, cmd[g].read, rec) /\ Copy(g, rec)
                 /\ \/ rec.plan = cmd[g].read.plan /\ rec.step = cmd[g].read.step
                    \/ ~HasInflight(cmd[g].read)
  BY SetWrites
<1>3. goal[g] = cmd[g].read => \A s \in Step : Followed(g, s) /\ UnderWay(g, s) =>
                                  rec.plan /\ rec.step[s] \in Inflight
  BY <1>2 DEF Followed, HasInflight
<1> QED
  BY <1>1, <1>2, <1>3, NoCmdType, SetStep

\* The daemon reads the active goals, or a command reads one it is allowed for.
LEMMA BeginStep ==
  ASSUME Inv, EvaluateBegin \/ \E g \in Goal : CommandBegin(g)
  PROVE  Inv'
<1>1. UNCHANGED <<st, twice, goal, earned, lost>>
  BY DEF EvaluateBegin, CommandBegin, busVars
<1>2. Grows
  BY <1>1, QuietGrows DEF Inv
<1>3. History' /\ Follows'
  BY <1>1 DEF Inv, History, Counted, Ordered, Follows, Followed, UnderWay
<1>4. \A h \in Goal : Copy(h, goal[h]) /\ Pass(h) /\ Command(h)
  BY DEF Inv, Copies
<1>5. CASE EvaluateBegin
  <2>1. UNCHANGED <<cmd, used>>
        /\ pass' = [g \in Goal |-> IF goal[g].status = "active" /\ goal[g].plan
                                   THEN goal[g] ELSE NoCopy]
    BY <1>5 DEF EvaluateBegin
  <2>2. Copies'
    BY <1>1, <1>2, <1>4, <2>1, CopiesStay DEF Inv, Command
  <2>3. TypeOK'
    BY <1>1, <2>1 DEF Inv, TypeOK
  <2> QED
    BY <1>3, <2>2, <2>3 DEF Inv
<1>6. ASSUME NEW g \in Goal, CommandBegin(g) PROVE Inv'
  <2>1. PICK op \in Commands : /\ Allowed(op, goal[g])
                               /\ cmd' = [cmd EXCEPT ![g] = [op |-> op, read |-> goal[g]]]
    BY <1>6 DEF CommandBegin
  <2>2. op \in Op /\ op # "none" /\ op # "create"
    BY GoalsAssumption DEF GoalsAssumption, Op
  <2>3. pass' = pass /\ used' \in [commands : Nat, crashes : Nat, cancels : Nat]
    BY <1>6 DEF CommandBegin, Inv, TypeOK
  <2>4. \A h \in Goal : cmd'[h] = IF h = g THEN [op |-> op, read |-> goal[g]] ELSE cmd[h]
    BY <2>1 DEF Inv, TypeOK
  <2>5. Copies'
    BY <1>1, <1>2, <1>4, <2>1, <2>2, <2>3, <2>4, CopiesStay DEF Inv, Pass, Command
  <2>6. TypeOK'
    BY <1>1, <2>1, <2>2, <2>3 DEF Inv, TypeOK
  <2> QED
    BY <1>3, <2>5, <2>6 DEF Inv
<1> QED
  BY <1>5, <1>6

\* The bus moves, or the retry file of a task queued twice comes due: a save was lost.
LEMMA BusStepKeeps ==
  ASSUME Inv, \/ EndTasks
              \/ \E t \in Task : \/ StartTask(t) \/ RequeueTask(t) \/ CancelTask(t)
                                 \/ RequeueTwice(t)
  PROVE  Inv'
<1>1. \A h \in Goal : Copy(h, goal[h]) /\ Pass(h) /\ Command(h)
  BY DEF Inv, Copies
<1>2. CASE EndTasks \/ \E t \in Task : StartTask(t) \/ RequeueTask(t) \/ CancelTask(t)
  <2>1. /\ st' \in [Task -> TheBus!TaskState] /\ UNCHANGED <<twice, goal, pass, cmd, lost>>
        /\ Grows /\ History'
        /\ \A g \in Goal, s \in Step : UnderWay(g, s)' => UnderWay(g, s)
        /\ used' \in [commands : Nat, crashes : Nat, cancels : Nat]
    BY <1>2, BusMoves DEF Inv
  <2>2. Copies'
    BY <1>1, <2>1, CopiesStay DEF Inv, Pass, Command
  <2>3. Follows'
    BY <2>1 DEF Inv, Follows, Followed
  <2>4. TypeOK'
    BY <2>1 DEF Inv, TypeOK, Grows
  <2> QED
    BY <2>1, <2>2, <2>3, <2>4 DEF Inv
<1>3. ASSUME NEW t \in Task, RequeueTwice(t) PROVE Inv'
  <2>1. /\ t \in twice /\ st' = [st EXCEPT ![t] = "queued"] /\ twice' = twice \ {t}
        /\ UNCHANGED <<goal, pass, cmd, earned, lost, used>>
    BY <1>3 DEF RequeueTwice
  <2>2. lost
    BY <2>1 DEF Inv, Follows
  <2>3. st' \in [Task -> TheBus!TaskState]
    BY <2>1 DEF Inv, TypeOK, TheBus!TaskState
  <2>4. \A u \in Task : st'[u] = IF u = t THEN "queued" ELSE st[u]
    BY <2>1 DEF Inv, TypeOK
  <2>5. Grows
    <3>1. \A u \in Task : earned[u] \in 0 .. 2
      BY DEF Inv, TypeOK
    <3> QED
      BY <2>1, <2>4, <3>1 DEF Grows, Inv, TypeOK, Task
  <2>6. History'
    <3>1. \A g \in Goal, s \in Step :
            st'[<<g, s>>] # "absent" \/ <<g, s>> \in twice' =>
              st[<<g, s>>] # "absent" \/ <<g, s>> \in twice
      BY <2>1, <2>4 DEF Task
    <3> QED
      BY <2>5, <3>1, HistoryStays DEF Inv
  <2>7. Copies'
    BY <1>1, <2>1, <2>5, CopiesStay DEF Inv, Pass, Command
  <2>8. TypeOK' /\ Follows'
    BY <2>1, <2>2, <2>3 DEF Inv, TypeOK, Follows
  <2> QED
    BY <2>6, <2>7, <2>8 DEF Inv
<1> QED
  BY <1>2, <1>3

-----------------------------------------------------------------------------
(* Theorems                                                                *)

\* Nothing is queued and every goal is new.
LEMMA InitInv == Init => Inv
<1> SUFFICES ASSUME Init PROVE Inv
  OBVIOUS
<1>1. st = [t \in Task |-> "absent"]
  BY DEF Init, TheBus!Init
<1>2. TypeOK
  <2>1. st \in [Task -> TheBus!TaskState]
    BY <1>1 DEF TheBus!TaskState
  <2>2. twice \subseteq Task /\ earned \in [Task -> 0 .. 2]
    BY DEF Init
  <2>3. goal \in [Goal -> GoalType] /\ pass \in [Goal -> GoalType \cup {NoCopy}]
    BY GoalValues DEF Init
  <2>4. [op |-> "create", read |-> NewGoal]
          \in [op : Op \cup {"none", "create"}, read : GoalType \cup {NoCopy}]
    BY GoalValues
  <2>5. cmd \in [Goal -> [op : Op \cup {"none", "create"}, read : GoalType \cup {NoCopy}]]
    BY <2>4 DEF Init
  <2>6. lost \in BOOLEAN /\ used \in [commands : Nat, crashes : Nat, cancels : Nat]
    BY DEF Init
  <2> QED
    BY <2>1, <2>2, <2>3, <2>5, <2>6 DEF TypeOK
<1>3. History
  BY <1>1 DEF Init, History, Counted, Ordered, Task
<1>4. \A g \in Goal : Copy(g, NewGoal)
  BY <1>1, GoalValues DEF Init, Copy, Sound, NewGoal, Inflight, Task
<1>5. Copies
  BY <1>4 DEF Init, Copies, Pass, Command
<1>6. Follows
  BY <1>1 DEF Init, Follows, Followed, UnderWay, Inflight, Task
<1> QED
  BY <1>2, <1>3, <1>5, <1>6 DEF Inv

\* Types, history and copies form an inductive invariant.
LEMMA Invariant == Spec => []Inv
<1>1. Inv /\ [Next]_vars => Inv'
  <2> SUFFICES ASSUME Inv, [Next]_vars PROVE Inv'
    OBVIOUS
  <2>1. CASE UNCHANGED vars
    BY <2>1 DEF vars, busVars, Inv, TypeOK, History, Counted, Ordered, Copies, Copy, Pass,
       Command, Follows, Followed, UnderWay
  <2>2. CASE Next
    BY <2>2, EvaluateStep, ApproveStep, PlannerStep, PlanByHandStep, CancelStep, SetGoalStep,
       BeginStep, BusStepKeeps
    DEF Next, CommandEnds
  <2> QED
    BY <2>1, <2>2
<1> QED
  BY <1>1, InitInv, PTL DEF Spec

\* Files, copies and commands keep their types, whatever is written over what.
THEOREM TypeCorrect == Spec => []TypeOK
<1>1. Inv => TypeOK
  BY DEF Inv
<1> QED
  BY <1>1, Invariant, PTL

\* A goal reported done had the task of every step done, for any plan and any number of
\* goals, crashes, replans and stale copies (evaluate_goals, save_goal).
THEOREM DoneGoalsAreEarned == Spec => []DoneIsEarned
<1>1. Inv => DoneIsEarned
  BY DEF Inv, Copies, Copy, Sound, DoneIsEarned
<1> QED
  BY <1>1, Invariant, PTL

\* No step enters the bus before the steps it depends on were done: queue_ready_steps
\* alone keeps the order of every plan.
THEOREM PlansKeepOrder == Spec => []StepsInOrder
<1>1. Inv => StepsInOrder
  <2> SUFFICES ASSUME Inv, NEW g \in Goal, NEW s \in Step, st[<<g, s>>] # "absent"
               PROVE  \A d \in Deps[s] : earned[<<g, d>>] > 0
    BY DEF StepsInOrder, Task
  <2>1. Ordered(g, s)
    BY DEF Inv, History
  <2> QED
    BY <2>1 DEF Ordered
<1> QED
  BY <1>1, Invariant, PTL

\* The cost of a step is added at most once for each time its task was done.
THEOREM CostsAreSpentOnce == Spec => []SpentOnce
<1>1. Inv => SpentOnce
  <2> SUFFICES ASSUME Inv, NEW g \in Goal, NEW s \in Step
               PROVE  goal[g].spent[s] <= earned[<<g, s>>]
    BY DEF SpentOnce, Task
  <2> QED
    BY DEF Inv, Copies, Copy, Sound
<1> QED
  BY <1>1, Invariant, PTL

\* While no save is lost, a goal declared a dead end has no task left under way.
THEOREM DeadEndsAreIdle == Spec => []DeadEndIsIdle
<1>1. Inv => DeadEndIsIdle
  <2> SUFFICES ASSUME Inv, NEW g \in Goal, NEW s \in Step, goal[g].deadEnd, ~lost
               PROVE  ~UnderWay(g, s)
    BY DEF DeadEndIsIdle, UnderWay, Task
  <2>1. goal[g].step[s] \in Terminal
    BY DEF Inv, Copies, Copy, Sound
  <2>2. Followed(g, s)
    BY DEF Inv, Follows
  <2> QED
    BY <2>1, <2>2 DEF Followed, Terminal, Inflight
<1> QED
  BY <1>1, Invariant, PTL

\* While no save is lost, no step is queued again while its retry is still to come.
THEOREM StepsAreQueuedOnce == Spec => []QueuedOnce
<1>1. Inv => QueuedOnce
  BY DEF Inv, Follows, QueuedOnce
<1> QED
  BY <1>1, Invariant, PTL

\* While no save is lost, a goal that is done or failed starts again only by a replan:
\* the check of update_goal_status and the daemon's pass over active goals suffice.
THEOREM TerminalGoalsStay == Spec => TerminalStays
<1>1. Inv /\ [Next]_vars =>
        [\A g \in Goal : goal[g].status \in {"done", "failed"} /\ ~lost' =>
           goal'[g].status \in {goal[g].status, "planning"}]_vars
  <2> SUFFICES ASSUME Inv, Next, NEW g \in Goal, goal[g].status \in {"done", "failed"}, ~lost'
               PROVE  goal'[g].status \in {goal[g].status, "planning"}
    OBVIOUS
  <2>1. ASSUME NEW h \in Goal, NEW read, NEW rec, Save(h, read, rec), read.status \notin {"done", "failed"}
        PROVE  goal'[g] = goal[g]
    BY <2>1 DEF Save, Inv, TypeOK
  <2>2. ASSUME NEW h \in Goal, Evaluate(h) PROVE goal'[g] = goal[g]
    <3>1. pass[h].status = "active"
      BY <2>2 DEF Evaluate, Inv, Copies, Pass
    <3>2. (\E rec : Save(h, pass[h], rec)) \/ goal' = goal
      BY <2>2 DEF Evaluate
    <3> QED
      BY <2>1, <3>1, <3>2
  <2>3. ASSUME NEW h \in Goal, PlannerEnds(h) PROVE goal'[g] = goal[g]
    <3>1. cmd[h].read.status = "planning"
      BY <2>3, CommandReads DEF PlannerEnds, NewGoal
    <3>2. (\E rec : Save(h, cmd[h].read, rec)) \/ goal' = goal
      BY <2>3 DEF PlannerEnds
    <3> QED
      BY <2>1, <3>1, <3>2
  <2>4. ASSUME NEW h \in Goal, PlanByHand(h) PROVE goal'[g] = goal[g]
    BY <2>4 DEF PlanByHand, Inv, TypeOK
  <2>5. ASSUME NEW h \in Goal, Approve(h) \/ CancelGoal(h) PROVE goal'[g] = goal[g]
    <3>1. cmd[h].read.status \notin {"done", "failed"}
      BY <2>5, CommandReads DEF Approve, CancelGoal, Allowed
    <3>2. (\E rec : Save(h, cmd[h].read, rec)) \/ goal' = goal
      BY <2>5 DEF Approve, CancelGoal
    <3> QED
      BY <2>1, <3>1, <3>2
  <2>6. ASSUME NEW h \in Goal, SetGoal(h) PROVE goal'[g].status \in {goal[g].status, "planning"}
    <3>1. PICK rec : /\ Save(h, cmd[h].read, rec)
                     /\ \/ rec.status \in {cmd[h].read.status, "planning"}
                        \/ cmd[h].read.status \in {"active", "paused"}
      BY <2>6, SetWrites
    <3>2. CASE cmd[h].read.status \in {"active", "paused"}
      BY <2>1, <3>1, <3>2
    <3>3. CASE rec.status \in {cmd[h].read.status, "planning"}
      BY <3>1, <3>3 DEF Save, Inv, TypeOK
    <3> QED
      BY <3>1, <3>2, <3>3
  <2>7. CASE \/ EvaluateBegin \/ EndTasks
             \/ \E h \in Goal : EvaluateDies(h) \/ CommandBegin(h) \/ ApproveDies(h)
             \/ \E t \in Task : \/ StartTask(t) \/ RequeueTask(t) \/ RequeueTwice(t)
                                \/ CancelTask(t)
    BY <2>7 DEF EvaluateBegin, EndTasks, EvaluateDies, CommandBegin, ApproveDies, StartTask,
       RequeueTask, RequeueTwice, CancelTask, BusStep
  <2> QED
    BY <2>2, <2>3, <2>4, <2>5, <2>6, <2>7 DEF Next, CommandEnds
<1> QED
  BY <1>1, Invariant, PTL DEF Spec, TerminalStays
=============================================================================
