----------------------------- MODULE MCIncidents -----------------------------
(* Instances of Incidents for TLC: one incident, two submissions. *)
EXTENDS Incidents, TLC

CONSTANTS i1, s1, s2, m1, c1, c2

Worthy == [i \in Incident |-> "core_now"]
Symmetry == Permutations(Process) \cup Permutations(Submission)
=============================================================================
