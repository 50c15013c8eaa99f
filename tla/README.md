# specpunk in TLA+

This directory holds TLA+ models of specpunk, their TLC configurations and TLAPS
proofs. The repository has two Rust workspaces that share ideas but no code:

- `crates/`, the active one: a command line (`specpunk`) whose commands `plot`, `cut`,
  `gate`, `proof` carry one work item from a draft contract to a proofpack;
- `punk/`, the legacy one: a daemon (`punk-run daemon`) that takes task files from a
  directory queue and runs coding agents on them.

Neither has a server or a database. Both keep their state in files that several
processes read and write without a common lock, and both start child processes that
may outlive them. That is where they are hard: a step in the models is one file (or a
few files no other process can see between), and what is checked is how those steps
interleave with crashes, kills, timeouts and other commands.

Paths below are relative to `src/`.

## 1. Inventory

### Legacy workspace, `punk/`

| Part | State it keeps | Operations | Hard behaviour | What makes it correct |
|---|---|---|---|---|
| Dispatch daemon, `punk-orch/src/daemon.rs` | map of tracked runs, circuit breakers (memory); everything else on the bus | start-up recovery, then per pass: cancels, heartbeats, collect, reap, requeue, dispatch | crash at any step, agents that outlive it, zombies, six places that release a lock | a run owns its slot; one task per project; no task lost; every runnable task settles; timeouts end runs |
| Bus, `queue.rs` | `new/<lane>`, `cur`, `done`, `failed`, `dead`, `.slots`, `.locks`, `.heartbeats`, `.pids`, `.cancel` | claim by rename, mkdir slots, lock files, stale scan, orphan scan | two owners of one directory, stale pid files | slots recovered exactly when their owner is dead |
| Run policy, `run.rs` | attempts per task, breaker per provider | `should_retry`, `CircuitBreaker::*`, fallback | backoff and cooldown race with new work | bounded attempts; a half-open breaker probes once |
| Budget, `budget.rs` | none (reads the receipts index) | pressure level, effective slots, allowed lanes | pressure changes between passes | fewer slots under pressure, never none |
| Commands, `punk-run/src/main.rs`, `ops.rs`, `punk-cli` | none | queue, cancel, retry, views | run at any time next to the daemon | retry and cancel leave one outcome |
| Goals, `goal.rs` and `evaluate_goals` in `daemon.rs` | goal files with a plan of steps | plan, approve, queue next step, replan, finish | daemon and command line both rewrite a goal file | a step is queued once, a goal ends |
| Adapters, `adapter.rs` | child process | spawn per provider, parse output | the child ignores signals or hangs | - |
| Reports and stores: eval, research, skill, resolver, ratchet, benchmark, session, recall, graph, ... | append-only logs | build views | mostly sequential | thresholds computed as documented |
| `punk-core` (legacy) | none | scan, plan, check | sequential parsing | - |

The daemon and the commands meet only in the bus directory; the daemon and its agents
meet through `waitpid`, signals, the pid files and the staging directory in `/tmp`.

### Active workspace, `crates/`

| Part | State it keeps | Operations | Hard behaviour | What makes it correct |
|---|---|---|---|---|
| Orchestrator: contracts, `punk-orch/src/lib.rs` | `contracts/` | draft, refine, approve | status read, minutes of work, status written | an approved text is the one executed and judged |
| Orchestrator: cut | `runs/<r>/` run.json, heartbeat.json, executor.json, verification-context.json, receipt.json | start, hand over to executor, seal, receipt | panic guards, heartbeat thread, kill between any two files | run, heartbeat and receipt agree; a run does not stay "running" |
| Orchestrator: stale-run quarantine | `archive/runs/` | at the start of every command | another command's cut may still be at work | only dead runs are moved |
| Gate, `punk-gate` | `decisions/` | read run, receipt, contract, workspace; run checks; judge | inputs read minutes before the decision is written | an accept is earned and judges the frozen inputs |
| Proof, `punk-proof` | `proofs/` | read decision, hash every reference | a second gate overwrites what was hashed | references resolve and stay what they were |
| Work ledger and autonomy record, `punk-orch/src/lib.rs` | `autonomy/` | derived view of a goal, next action | built from files of several commands | no stale next step |
| Incidents and research, same file | `incidents/`, `research/` | capture, promote, submit, admit; freeze, synthesise | partial failure of `gh` | a resubmission does not open a second issue |
| Command line, `specpunk/src/main.rs` | none | one process per command; `go` chains them | a chain cut short | recoverable by staged commands |
| Executor adapters, `punk-adapters` | child processes, patch lanes | execute a contract, apply or roll back patches | timeouts, retries, orphan detection | a failed lane leaves the tree as it was |
| VCS, `punk-vcs` | git or jj worktrees | isolate, snapshot, clean up | leftover worktrees | - |
| Council, `punk-council` | `council/<id>/` | proposals, anonymous reviews, scoring, synthesis | pure once inputs are there | scores are bounded and order-independent |
| Core, `punk-core` | `.punk/` JSON files | artifact I/O, capability and architecture checks | files written in place | - |
| Events, `punk-events` | event log | append, load | torn last line | - |
| Domain types, `punk-domain` | none | - | - | - |

`PROJECT.json` lists these parts with their status and every hazard met while reading,
at its line, with the properties that would catch it going wrong or the reason none
does yet.

## 2. Modules

| Module | What it is |
|---|---|
| `Daemon` | daemon, queue directories, run policy, budget, agents and the queue, cancel and retry commands |
| `Bus` | abstract: the states a task goes through as users of the bus see it |
| `DaemonBus` | `Daemon` with the refinement mapping to `Bus` |
| `MCDaemon` + 5 cfg | instances of `DaemonBus` |
| `DaemonProof` | theorems about `Daemon`: types, slots, locks |
| `DaemonRunsProof` | more of them, on the first: tasks, attempts, outcomes, processes |
| `DaemonBusProof` | `Daemon` implements `Bus`, on both, and so keeps what `BusProof` says |
| `BusProof` | what follows from the edges of `Bus` for its users |
| `Goals` | goal files, their evaluation by the daemon and the goal commands, on `Bus` |
| `MCGoals` + cfg, `GoalsProof` | instance of and theorems about `Goals` |
| `RunLifecycle` | contract, cut, quarantine, gate, proof of the active workspace |
| `MCRunLifecycle` + 4 cfg, `RunLifecycleProof` | instances of and theorems about `RunLifecycle` |
| `Executor` | the patch and exec lanes inside a cut: masking, patching, checks, rollback, repair |
| `MCExecutor` + cfg, `ExecutorProof` | instance of and theorems about `Executor` |
| `Incidents` | submissions and their issues on GitHub, admission of issues, promotions and reruns |
| `MCIncidents` + cfg, `IncidentsProof` | instance of and theorems about `Incidents` |

How they fit together. `DaemonBus!Implements` says that `Daemon` implements `Bus`; `Goals`
uses the actions of `Bus` for everything the daemon does with a step's task, so the goals
are checked against the promise and not against one run of the daemon's loop.
`RunLifecycle!SpawnChild` to `ExecutorReturns` is what `Executor` opens up, with its files.
A promotion of `Incidents` runs a whole `RunLifecycle` (approve, cut, gate, proof) as its
one action `Cycle`.

### Daemon

Variables in the order of the code they stand for:

| Variable | Code |
|---|---|
| `lane`, `cur`, `done`, `failed`, `dead` | the directories of the bus |
| `retry`, `attempts` | `runs/<task>/retry-meta.json` with its deadline, number of `run-*.json` |
| `slot`, `lock`, `hb`, `pidfile`, `signal` | `.slots/N/{task_id}`, `.locks/<project>.lock`, `.heartbeats/`, `.pids/`, `.cancel/` |
| `active`, `circuit` | `Daemon.active`, `Daemon.circuits` |
| `pc`, `hand`, `scan`, `level` | where the loop is; the entry, slot and pid in local variables; the listed queue; the budget level of this pass |
| `proc` | agent processes; an exit status is kept until the daemon waits for it |
| `erasing` | a `punk-run retry` between its copy and its removals |
| `spent`, `submitted`, `cancelled`, `spawned`, `probes` | bounds and history, read by no action's outcome except the bounds |

The loop is a process with program counter `pc`. One pass is `Tick`, `ProcessCancels`
(cancel signals, then heartbeats), `Collect`/`Cleanup` per ended child, `Reap` per stale
task, `RequeueWrite`/`RequeueClean` per due retry, and `BeginDispatch`, then per queue
entry `Skip` or `Claim` followed by `Spawn` and `Register` or by `SpawnRefused`. It is cut
where a crash or another process makes a difference: between writing an outcome and
cleaning up, between writing a requeued task and deleting its metadata, between claim,
spawn and registration, and between the three parts of start-up.

Choices a reader should know:

- Slot, lock, claim by rename and `record_owner` are one action, `Claim`. A crash between
  them leaves a slot without an owner or a lock without a task, and start-up clears both
  before anything reads them (`RecoverSlots` frees unowned slots, `ClearLocks` all locks).
- The order of checks in `Skip` and `Claim` is the code's. The breaker is moved from
  open to half-open by the check itself, also when a later check skips the entry.
- A lane entry that disappears after the scan (`punk-run cancel`) is skipped.
- `Spawn` does not reuse a pid that a pid file still names. Reuse is possible in an
  operating system; it is listed as a hazard and would make `SweepOrphans` and `Kill`
  act on a stranger.
- `punk-run queue` always names a lane, so the queue's root directory, which the scan
  reads too, stays empty.
- `StagingRenames` says whether `/tmp` is on the bus's file system. The code drops the
  rename's error. The runs take it as TRUE; the theorems hold for both.
- `punk-run retry` copies the task file and then removes old directories. If the daemon
  claims and fails the task in between, the removals erase the new outcome. So `Settles`
  speaks of states before the first retry by hand and `NothingLost` is run with
  `MaxRetries = 0`.
- Not modelled: fallback to another provider on HTTP 429, follow-up and skill tasks queued
  after a success, shadow mode, disk-full errors. Goals are a module of their own.

### Bus and DaemonBus

`Bus` has one variable, the state of each task: absent, queued, running, waiting for a
retry, done, failed or dead. Its edges are what a user or a goal may rely on: a task starts
only from the queue, with its dependencies done and a slot free, beside no other task of its
project; an outcome is left only by hand (`punk-run retry`); a crash may fail several
running tasks at once. `DaemonBus!StateOf` reads the state off the directories in the order
in which they overlap: a task is running while its file is in `cur/`, whatever outcome was
already written. Three weaknesses of the code are edges of their own, under a constant that
says which command or fault opens them:

- after a crash two tasks of a project may run side by side (`Crashes` in `Startable`),
  because all lock files are removed while an orphan lives on;
- a cancel between the two steps of a requeue takes the queue file and leaves the retry
  (`Cancel` to waiting);
- a retry by hand may lose the task (`Lose`).

What a cancelled task falls back to (`Leftover`) depends on both: after a crash it may have
been failed as an orphan while its retry was pending, and while a retry by hand is between its
copy and its removals the old outcome is still there.

The bus promises nothing of a daemon that may crash and whose tasks are also retried by hand
in the same life: a task can then be claimed and queued at once, and the start-up that follows
ends it and requeues another in one step. No single state per task describes that, so
`Implements` is run and proved with one or the other.

### Goals

| Variable | Code |
|---|---|
| `st`, `twice` | the bus, through `Bus`; `twice` are tasks queued while their retry was pending |
| `goal` | the goal file: status, whether it has a plan, step status and booked cost |
| `pass` | the copies `list_goals` read at the start of the daemon's evaluation |
| `cmd` | a goal command in flight and the copy it read |
| `earned`, `lost` | history: tasks done; a save overwritten by an older copy or never made |

A pass of `evaluate_goals` is `EvaluateBegin` (read all) and, per goal, its evaluation and
save, one action each; a command is read and write. `Seen` is `task_step_status`: it looks in
the directories, and during a backoff finds nothing. `lost` becomes true when a writer saves a
copy that another writer has replaced since, and when a crash comes between queueing the
steps and the save. The code has no defence against either, and what it then does is in the
model; `DeadEndIsIdle`, `QueuedOnce`, `TerminalStays` and `GoalSettles` speak of goals
without such an accident, `DoneIsEarned`, `StepsInOrder` and `SpentOnce` of all. Costs are
counted up to two, which is enough to see one booked twice.

### Executor

| Variable | Code |
|---|---|
| `disk` | each file of the scope: what precedes the `#[cfg(test)]` part, and whether that part is there |
| `manifest`, `masked` | the mask manifest; heads of the files truncated before it is written |
| `pc`, `lane`, `pass`, `patched`, `slow`, `result` | where the run is and its locals |
| `snap`, `created` | entry-point snapshots (patch) or progress probe (exec); stubs that were made |
| `stray` | the child of a killed exec run is still editing |
| `checked`, `exposed` | history: the files the checks passed on; files truncated without a manifest |

A head is one of gone, empty, stub, orig or an edited version: the code tells files apart by
exactly these (missing, zero bytes, the stub it wrote, unchanged). Choices:

- A patch applies as a whole or not at all (`PatchRefused`): the code puts the targets of a
  partly applied patch back before it returns.
- The patch lane's child is read-only; what empties or deletes a file there is `Damages`,
  something its checks or tools start. A stray child belongs to an exec run, whose child
  has a process group of its own.
- `MaskFails` is an error while files are truncated: it returns before the guard exists and
  past the rollback. `ControllerFails` is every other error of the controller's own after the
  masks are on: a log it cannot append to, a wrapper it cannot install, a file it cannot put
  back. Each is a `?` that skips rollback and repair, so a patch that was applied stays and
  damage is left, whatever `docs/product/CLI.md:774` says. Both end in "abort", and the
  properties say which of their promises a run that aborts still keeps.
- Scopes are files of low or medium risk; recipe, manual and blocked lanes, directory
  scopes and the bootstrap scaffold are not modelled.

### Incidents

| Variable | Code |
|---|---|
| `sub` | `.punk/submissions/`: state, incident, issue number |
| `issues`, `admitted` | the repository on GitHub, modelled from what the code asks of it; "applied" admission records |
| `source`, `target` | `.punk/promotions/` of the repository with the incident and of the one to fix |
| `proofs`, `place` | history: complete cycles of a promotion; the repository it was rerun in last, or "back" in the source after the target |
| `proc` | commands at work, with what they hold between two writes |
| `unsure` | history: what two commands worked on at once, or a kill or a lost answer left half done |

Each `incident` command is a process; every call of `gh` and every record is a step. `Publish`
has the three outcomes of a POST: created and answered, created and the answer lost, not
created. `Listed` is the page of the latest issues and pull requests an admission compares
with; pull requests fill the page and are no duplicates. `ApplyLabels` replaces all labels by
the ones fetched before, so it may remove a label a maintainer has just set. `RecordFails`
is any error while an execution is being recorded: the command then records a failure on
top of it. `WriteCopy` may fail, too: then the target has no record at all. Nothing in the code
keeps two commands apart; `unsure` tells what can then not be promised.

A promotion has a record in both repositories, and `Rerun` goes by the one of the repository it
runs in (`home`). It writes that record and then the target's: from the source both, in the
target the same file twice. So the source never learns of a rerun in the target, still calls
the promotion unexecuted, and a rerun there runs the contract again and overwrites the target's
record. `ExecutedOnce` and `CopiesAgree` leave out this one order ("back") and say that there is
no other without a kill, an overlap or a failed record.

### RunLifecycle

| Variable | Code |
|---|---|
| `contract`, `refining`, `approving` | contract file; a refine or approve between its read and its write |
| `runfile`, `context`, `heartbeat`, `quiet`, `child`, `receipt` | files of `runs/<r>/`; `quiet` is the 60-second age of `last_progress_at`, `child` the process of executor.json |
| `archived`, `sweep` | `archive/runs/`; runs listed by a quarantine and not yet moved |
| `cut` | the cut process: place, contract text it read, what the executor reported, result |
| `gate`, `decision`, `prover`, `proof` | gate and proof commands in flight and the files they write; `rev` counts gates of a run |
| `drifted` | workspace files differ from the frozen verification context |
| `overtaken`, `unheard` | history: contracts approved while a refine of them was under way; runs whose child had ended and that were silent for a minute while cut worked on |

Every command is a process. Those that read, work and write are two actions (`RefineBegin`,
`RefineEnd`, and so on), so that anything fits in between. The steps of `cut` are run.json
"running" (`CutOpen`), the heartbeat (`CutStart`), the run.started event (`StartupFailed` or
`Handoff`), the executor (`SpawnChild`, `ExecutorReturns`), `CutSeal`, `CutHeartbeat` and
`CutReceipt`; a kill fits between any two. `CutSeal` writes two files in one step:
verification-context.json counts only once run.json names it, which is the second of the
two, so a kill between them is a kill before the step. `ExecutorReturns` tells a success
with changes, one without (which `CutSeal` turns into a failure) and a failure because the
entry points were as asked before the run (which cut takes for a success). `HeartbeatBeats` is
the thread that rewrites heartbeat.json, also into a directory that was moved away.

`CutUnwinds` and `CutUnwound` are a panic or an error return with the guards running: that
of the heartbeat writes "failed" first, that of run.json after it. `KillCut` is a kill with
no guard; between the two it strands the run, because `stale_run_reason` never looks past
a heartbeat that does not say "running". `SweepBegin` and `SweepMove` are the quarantine that
`OrchService::new` (lib.rs 1112) runs at the start of every command.

Choices:

- One gate and one proof of a run are in flight at a time; contract texts are numbers;
  checks end in one of three results; scope, architecture and harness assessments are
  part of that result.
- A file is written atomically. The code writes in place; torn files are a hazard.
- An error of the last write (`receipt.json`) has the effect of `KillCut` at "closed".
- Nothing is excluded by a constant. Where the code breaks a promise, two histories name the
  case: `overtaken` (an approve of the contract ended while a refine of it was under way) and
  `unheard` (a child ended, and a minute passed in silence, before cut was over). The runs
  `lifecycle_refine` and `lifecycle_quarantine` check the bare promise and fail;
  `lifecycle_chain` checks, and the theorems prove, that there is no other way to break it.

## 3. Runs

The passing runs visit 106,532 (`daemon_pool`), 568,829 (`daemon_faults`), 58,600
(`goals_races`), 123,066 (`executor_lanes`), 1,959,404 (`incident_records`) and 511,608
(`lifecycle_chain`) distinct states, none in more than about two minutes with two workers.

| Run | Bounds | Shows |
|---|---|---|
| `daemon_pool` | three tasks (t1, t2 share a project, t3 waits for t1 and cannot spawn), two slots, two pids, two attempts, one retry by hand, no crash | no slot leaks, one process per project and task, one outcome per task, every runnable task settles, every step is one of the bus |
| `daemon_faults` | the same tasks without the dependency, lanes p0 and p1, pressure normal or stop, one crash anywhere, one cancel anywhere | types; runs own their slots; tracked runs exclude each other; nothing lost; attempts bounded; the bus again, with crashes and cancels |
| `daemon_worktree` | three tasks of one project, one in a worktree | **violation** of `WorkersExclusive` |
| `daemon_probe` | two worktree tasks, a breaker that opens after three failures | **violation** of `OneProbe` |
| `daemon_timeout` | one task whose agent never ends | **violation** of `TimeoutEnds` |
| `goals_races` | one goal, a chain of two steps, one slot, three commands of any kind, one crash, one task cancelled | done is earned, steps in order, costs booked once, no step queued twice, a goal ends and stays ended, or a save was lost |
| `executor_lanes` | three files (an entry point with tests, one that does not exist, a file with tests that is no entry point), one version, two runs of any lane, three passes, one kill, one damaged file | tests come back, reported failures roll back, damage is repaired unless the controller itself stops at an error, success is what was checked, runs end |
| `incident_records` | one incident, two submissions, one promotion, two processes, four commands, one kill, one pull request or one act of a maintainer, pages of two | a submission names its issue and is published once, duplicates are closed and the first issue stays, a promotion runs once and its copies agree, but for a rerun that comes back to the source |
| `lifecycle_chain` | one contract with three texts, a cut of it, two gates, one kill | types; receipts agree with runs; accepts are earned; only an overtaken contract is misjudged, only an unheard run moved at work; proofpacks resolve; runs settle |
| `lifecycle_quarantine` | one cut | **violation** of `ArchivedIsOver` |
| `lifecycle_refine` | one cut, three texts | **violation** of `JudgesExecutedText` |
| `lifecycle_regate` | one cut, two gates | **violation** of `ProofCurrent` |

Why the bounds are enough for the questions asked. Two tasks of one project and one of
another are the least with both competition and independence; two slots are the least
where a lowest free slot is a choice and a leak still leaves work possible; two attempts
are the least with a retry and an exhaustion; a third failure opens the breaker, so the
pool run reaches open, cooled and half-open. One crash may come at any of the loop's
places, in any recovery too if the cancel preceded it; what a second would add, a crash
during recovery, is covered by the proofs, which have no such bound. For the lifecycle, one
cut is enough: each action about a run leaves what is kept of other runs alone (the lemma `Local` of
the proofs; cuts share the contract, the bounds and a quarantine's list), no property speaks
of two runs, and the theorems hold for any number of them. Three texts are the least with a text
refined, approved and cut and a later one written over it by a refine that was overtaken; two
gates are the least that overwrite a decision.

A chain of two steps is the least plan with an order and a step that can be blocked; three
commands are approve and two that race with it or with the daemon. Two runs of an executor
are the least where one finds what a killed one left behind, and the second may be of the
other lane; three passes are all the code allows. Two commands at a time are the least that
race, four the least where two submissions of one incident are published and admitted; the
page of two with a third issue or a pull request reaches the case where a duplicate is not
listed. None of
these bounds is in the proofs of section 5: they hold for every number of tasks, goals, steps,
contracts, runs, processes and faults.

Where a bound hides a behaviour it is said at the property: `WorkersExclusive` and
`OneProcessPerTask` are about agent processes and are run without crashes and cancels,
because a cancelled agent gets SIGTERM, is not waited for, and an agent of a crashed
daemon lives on; both are in the hazard list. `SlotsAccounted` is about a daemon that
does not crash; after a crash an untracked live orphan keeps its slot on purpose. The goals
run has one goal: goals share only slots and the daemon's pass, and a second one multiplies
the states by more than the time there is.

`CHECK_DEADLOCK FALSE` in the lifecycle, goals, executor and incident runs: when the bounded
commands are used up and all processes are over the system stops, as it should. The daemon
never stops and its runs check for deadlock.

### Fairness

`Daemon!FairSpec`: weak fairness of the loop (an endless loop that sleeps five seconds a
pass), of each agent's exit, and of each backoff and cooldown deadline, which are times.
Nothing is assumed of the command line. Weak fairness of an agent's exit is an assumption
about agents; `HungSpec` drops it, adds strong fairness of the ageing of heartbeats (time
does pass whenever it can), and shows that the daemon's timeout does not replace it.

`Goals!FairSpec`: weak fairness of the daemon's pass and of its evaluation of each goal (the
loop above), and of a command's end; strong fairness of the bus starting, requeueing and
settling some task, which is what `Daemon!Settles` shows of the daemon. Nothing is assumed
of users.

`Executor!FairSpec`: weak fairness of the lane as a whole: the controller works on, and a
child that neither answers nor ends is killed with its process group at the stall or time
limit. Errors of masking, kills and edits need not happen.

`RunLifecycle!FairSpec`: weak fairness of a cut's own steps (a running process, its guards
included; that it unwinds or is killed is not assumed), of a
child's exit (the executor kills it at its timeout) and of a minute passing; strong
fairness of `ExecutorReturns`, because an executor starts finitely many children one
after another, so between two of them it can always also return; weak fairness of the
sweep, because every punk command begins with one. Nothing is assumed of plot, gate, proof.

## 4. Findings

Six runs show the code doing otherwise than a comment, a help text or a document says;
`PROJECT.json` quotes both sides.

1. A worktree task takes no project lock and releases it all the same (`daemon.rs:832`).
2. A half-open breaker lets one probe per free slot through, not one (`run.rs:321`).
3. The daemon touches the heartbeat it measures timeouts by (`daemon.rs:229`).
4. A cut whose silent child has just ended may be quarantined while at work
   (`crates/punk-orch/src/lib.rs:4540`).
5. A refine writes what it was asked minutes ago over a contract approved and executed
   since (`lib.rs:1606`), and gate judges the live contract file.
6. A second gate overwrites the decision a proofpack carries the hash of
   (`crates/punk-gate/src/lib.rs:230`).

## 5. Proofs

`DaemonProof` proves for every set of tasks, projects, models and pids, every number of
slots, crashes, cancels and retries, and any mapping of tasks to projects and providers:

- `TypeCorrect`: `Spec => []TypeOK`;
- `SlotsAreOwned`: `Spec => []SlotsOwned`;
- `ProjectsAreExclusive`: `Spec => []ActiveExclusive`, under `NoMixedProjects`: no project
  has both worktree and other tasks. The run `daemon_worktree` shows why a condition of
  this kind is needed.

The only other assumption is `ConstantsAssumption`, which TLC evaluates in every run.

`SlotsOwned` is not inductive: that a tracked task's slot names the task says nothing of a
task being dispatched, nor of a slot freed twice. The invariant `SlotInv` is

    TypeOK /\ HandOK /\ Untracked /\ Owned

`HandOK` says that at the places where the loop handles an entry its local variables name
a task and a slot, and elsewhere nothing; `Untracked` that while start-up recovers slots
nothing is tracked, so freeing them robs nobody; `Owned` that the slots of tracked runs and of
the run in hand name their tasks, and that the run in hand shares its slot with no tracked
one, so a release, which looks at no owner, frees only the releaser's slot. `ActiveExclusive`
adds `Locked`: each held task that is no worktree task is named by its project's lock
file, and such a task is not both in hand and tracked.

The preservation lemmas have one step per action and under it one per conjunct the action
disturbs; actions that touch neither runs nor slots are one case (`Aside`).

`ExecutorProof` proves, for every scope, set of tests, number of passes, runs, kills and
damaged files, whatever a stray child does and wherever the controller stops at an error of
its own: `TypeCorrect`, `TestsAreKept` (`TailKept`),
`FailuresRestore`, `DamageIsRepaired`, `SuccessIsChecked`. The invariant joins the properties
with five facts about a run at work: `Placed` (which masks can be on disk at which place),
`Marked` (a test part belongs to a whole file that has tests, in snapshots and masks too),
`SnapWhole` (snapshots of the patch lane have the tests), `StaysDamaged` (an entry point that
was damaged before the run is never masked nor touched) and `Undone` (until a patch is
applied, masks and damages are all that differs from the snapshots). A failed run without a
patch is not rolled back by the code, so `FailureRestores` rests on `Undone`: unmasking and
repairing must give the snapshot exactly. That the next pass starts on the files of the one
before it is the lemmas about `Sound` files, which every way out of a pass gives back.

`IncidentsProof` proves, for any number of incidents, submissions, promotions and commands at
once, any page size and any bounds on kills, pull requests and maintainers: `TypeCorrect`,
`SubmissionsNameIssues`, `SubmissionsPublishOnce`, `FirstIssueIsKept`, `DuplicatesAreClosed`,
`PromotionsRunOnce`, `RecordsAgree`. None of the properties is inductive, because each is
about records while the commands hold what will be written. The invariant has one part for
each kind of thing:

- `Alone`: what is in no doubt is worked on by one command at a time;
- `Submissions`, `Published`: the number a command was given is of an issue of its
  submission; a submission that says neither that it was published nor has a command about
  to say so has no issue;
- `Promotions`, `Executions`: a promotion was executed only if its record says so or a command
  is about to record it; while it was rerun in the source only, its copies differ only while a
  command holds the copy to write; once it was rerun in the target and until it comes back,
  the target's record is the one that tells;
- `Admissions`: no command that admits the first issue of a worthy incident has decided to
  close it; every command that admits a later one has, as long as one page lists all, and
  the issue is closed before the command is done. So the decision a command made from a
  listing that is old by now is still right: issues are only appended, and the first one
  of an incident stays the first.

Its assumptions are `IncidentsAssumption`: verdicts are decisions, no submission is called
"none", bounds and page size are natural numbers.

`DaemonRunsProof` builds on `SlotInv` and proves six more properties of the daemon. Each
assumption in them is a fact about the code, and the run that has the property has it too:

| Theorem | Property | Assumes | Because |
|---|---|---|---|
| `NoSlotLeaks` | `SlotsAccounted` | `MaxCrashes = 0` | a live orphan keeps its slot, reaping it gives none back |
| `VerdictsAreSingle` | `OneVerdict` | `MaxCrashes = 0` | a crash between outcome and cleanup leaves the task to a second verdict |
| `TasksAreKept` | `NothingLost` | `StagingRenames`, `MaxRetries = 0` | the error of the rename is dropped; a retry by hand may remove a new outcome |
| `ProcessesAreSingle` | `OneProcessPerTask` | no crashes, no cancels | an orphan lives on; a cancelled agent is not waited for |
| `WorkersAreExclusive` | `WorkersExclusive` | the same and `NoMixedProjects` | a worktree task releases a lock it never took |
| `StartsAreBounded` | `SpawnsBounded` | `MaxAttempts # 0` | with 0 the first attempt is made all the same (test at `run.rs:735`) |

None is inductive. `SingleInv` says where a task is in a life without crashes: queued, at work
or waiting, one of them but for the two steps of a requeue, and then without an outcome.
`Accounted` says of each taken slot whose run it is. `KeptInv` says what the loop holds while a
task changes directories, so that between any two steps one of them has it, at every place of a
crash. `ProcInv` ties a process to the run the daemon holds and to its pid file, which is what a
timeout kills by. For the attempts the invariant is a potential:
a queue file, a retry file and a run that may be repeated are each a chance of one more attempt
(`Chances`). Once all but one of the attempts are made, attempts and chances and the processes
that a crash kept from their run file add up to no more than the limit, one for each crash and
one for each retry by hand. All but `TasksAreKept` rest on `Known`: what nobody submitted is
nowhere.

`DaemonBusProof` proves `BusIsImplemented`, the property `Implements`: the initial states map
to the initial state of `Bus` and each step to one of its edges or none. It assumes
`StagingRenames`; `NoMixedProjects` if there are no crashes (with them `Bus` says nothing of
projects); and no crashes or no retries by hand, for the reason given in section 2. The
invariant is that of the two modules above and `PlacesInv`: a run at work is of a claimed task
(`Carried`), a task is in one place except where the loop's next step removes the rest
(`Resting`), and claimed tasks have slots of their own (`Housed`). The last gives the one fact
about numbers, that a claim finds fewer than `MaxSlots` tasks running: slots that name
distinct tasks are as many as the tasks, and the slot about to be taken is none of them.

Two mistakes in the models came up in this proof. `StateOf` was a CASE with overlapping guards,
which TLC reads in order and the logic does not; it is now a chain of IFs. And `Leftover` had
no outcome for a task that is cancelled while being retried by hand, a combination no run has.

`BusProof` proves what a user of the bus gets from its edges: `SuccessIsFinal` (no crash,
cancel or retry takes a success back), `DependenciesComeFirst`, `RunningFitsSlots`,
`ProjectsStayApart` (on a bus without crashes). They assume of the constants that `DependsOn`
maps tasks to sets of tasks and that `MaxSlots` is a natural number. No run checks them: they
are consequences of `Bus`, and `DaemonBusProof` puts them together with `BusIsImplemented`
into two theorems about the daemon's directories. `ClaimsAreOrderly`: `cur/` never holds more
tasks than there are slots, nor one whose dependencies are not in `done/`, nor, without
crashes, two of a project's directory. `SuccessesStay`: a task in `done/` and no longer in
`cur/` stays so.

`GoalsProof` proves all safety properties of `Goals`, for any number of goals, plans of any
shape, slots, commands, crashes and cancels, from `GoalsAssumption` alone: `TypeCorrect`,
`DoneGoalsAreEarned`, `PlansKeepOrder`, `CostsAreSpentOnce`, `DeadEndsAreIdle`,
`StepsAreQueuedOnce`, `TerminalGoalsStay` (an action property). The hard part is that the
daemon and the commands save copies read long ago. The invariant therefore says of every copy,
however old, what stays true of it (`Sound`): a step it calls done was done, it counts no cost
that was not paid, a step it still follows has its cost ahead if its task is done, and a dead
end has no step left. So whichever copy is saved last, the file is sound. `Follows` is what
only holds while no save is lost: every task under way is a step the goal file follows, hence
no step is queued a second time and a dead end is idle.

`RunLifecycleProof` proves all safety properties of `RunLifecycle`, for any number of contracts,
texts, runs, gates and kills:

- `TypeCorrect`, and `AcceptsAreEarned`: an accepted run is over, was reported a success with
  changes (or as satisfied beforehand) and passed the checks of the gate that decided;
- `ReceiptsAgree`, `ProofpacksResolve`, `ArchivedRunsAreOver` (`OnlyUnheardTaken`), and what
  `AcceptsAreEarned` says of files, for every run that is not `unheard`;
- `ExecutedTextIsJudged` (`OnlyOvertakenMisjudged`) for every contract that is not `overtaken`.

None of them has an assumption on the constants beside `LifecycleAssumption` (types of the
bounds). There are three invariants. `Inv` holds always: types, `Recorded` (what receipt, gate
and decision say of a cut) and `Earned` (a success that is sealed or judged was reported as
one). `HeardInv` holds of each run until it is unheard: `Audible` (a dead child silent for a
minute belongs to a cut that is over), `Ended` (run.json has its last status before the receipt
exists), `Buried` (what was listed for quarantine is over and has no receipt) and `Kept` (what
gate and proof have read is never moved). It is preserved although the history may grow in the
same step, because `unheard` never shrinks and grows in the very steps that break `Audible`.
`FrozenInv` holds of each contract until it is overtaken: while a plot command is under way it
is a draft, so a contract that was executed stays as it was read (`Frozen`, `SameText`).

Each inductive invariant was an invariant of a TLC run on the instances of section 3 before its
proof.

Out of the prover's reach and left to TLC: `Settles`, `GoalSettles`, `RunEnds` and `RunSettles`,
which are liveness under fairness, and anything with ENABLED. Every other property of a passing
run is a theorem. The six violated properties are, as their runs show, not. No module declares
a RECURSIVE operator.

## 6. Not modelled, and the plan

Parts of the core that are left, in the order in which they are worth modelling:

1. The work ledger and autonomy record (`lib.rs` 2931-2992, 3680-4713) on top of
   `RunLifecycle`. A view over the files of a run and one record that the view prefers to the
   decision; its known weakness, that a second gate changes the decision under it, is the
   hazard at `crates/punk-gate/src/lib.rs:230`.
2. Research records (`lib.rs` 2051-2355): sequential state machine of one file per research.
3. File writes that are not atomic, and the event log's half lines: today a write is one step.
4. Council scoring and synthesis as operators against a reference definition.
5. Follow-up and skill tasks, provider fallback and shadow mode of the daemon.

Runs stay at one per question: a passing one and, where a document disagrees, a violating
one per module, with two or three values per set as above. A further subsystem would take the
place of a run that is here now, so the list above is ordered by what it would tell.

Theorems to come are those of the parts above once they are modelled.

Left out for good: prompt and argument construction, output parsing, rendering of views and
reports, skills and recall stores, legacy scanners (sequential code over file trees, better
tested than modelled). They are the larger part of both workspaces by lines.
