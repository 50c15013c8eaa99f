---------------------------- MODULE MCRunLifecycle ----------------------------
(* The instance of RunLifecycle for TLC: a contract and a cut of it. *)
EXTENDS RunLifecycle

CONSTANTS c1, r1

CutsOfOne == [r \in Run |-> c1]
=============================================================================
