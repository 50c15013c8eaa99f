------------------------------ MODULE MCDaemon ------------------------------
(* Instances of Daemon for TLC: two projects, one provider whose agent     *)
(* name is its own, tasks t1, t2, t3, two or three pids.                   *)
EXTENDS DaemonBus, TLC

CONSTANTS t1, t2, t3, p1, p2, q1, q2, q3, m1

\* t1 and t2 share a project, t3 has its own.
ProjectMap == [t \in Task |-> IF t = t3 THEN p2 ELSE p1]
OneProject == [t \in Task |-> p1]
OneModel   == [t \in Task |-> m1]
Adapters   == [m \in Model |-> m]
NoDeps     == [t \in Task |-> {}]
\* t3 was queued with --after t1.
Chain      == [t \in Task |-> IF t = t3 THEN {t1} ELSE {}]

PidSymmetry == Permutations(Pid)
=============================================================================
