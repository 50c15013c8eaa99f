------------------------------ MODULE DaemonBus ------------------------------
(***************************************************************************)
(* Daemon implements Bus: the state of a task is read off the directories  *)
(* that hold something of it, in the order a reader of the bus meets them. *)
(***************************************************************************)
EXTENDS Daemon

\* A claimed task is running until its file leaves cur/, whatever is recorded by
\* then; a task whose outcome and queue file coexist is queued.
StateOf(t) ==
  IF t \in cur                 THEN "running"
  ELSE IF lane[t] # "none"     THEN "queued"
  ELSE IF retry[t] # "none"    THEN "waiting"
  ELSE IF t \in done           THEN "done"
  ELSE IF t \in dead           THEN "dead"
  ELSE IF t \in failed         THEN "failed"
  ELSE "absent"

Promise == INSTANCE Bus WITH
  st <- [t \in Task |-> StateOf(t)],
  Crashes <- MaxCrashes > 0, Cancels <- MaxCancels > 0, Retries <- MaxRetries > 0

\* Every step of the daemon, of an agent process, of the command line and every
\* crash moves each task along an edge of Bus, one task at a time or none, and a
\* claim respects slots, dependencies and (without crashes) projects as claimed
\* tasks, not only tracked ones, see them.
Implements == Promise!Spec
=============================================================================
