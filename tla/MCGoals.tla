------------------------------- MODULE MCGoals -------------------------------
(* Instances of Goals for TLC: one goal; step 3 depends on steps 1 and 2, *)
(* or a chain of two steps.                                                *)
EXTENDS Goals

Join  == [s \in Step |-> IF s = 3 THEN {1, 2} ELSE {}]
Chain == [s \in Step |-> IF s = 2 THEN {1} ELSE {}]
=============================================================================
