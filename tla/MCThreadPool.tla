---------------------------- MODULE MCThreadPool ----------------------------
(***************************************************************************)
(* Instances of ThreadPool for TLC. Task t3 is submitted by the code of t1 *)
(* while it runs in a worker; the others come from outside.                 *)
(***************************************************************************)
EXTENDS ThreadPool, TLC

CONSTANTS t1, t2, t3, t4, t5

SpawnOne == [t \in Tasks |-> IF t = t1 THEN {t3} ELSE {}]

Symmetry == Permutations(Adders) \union Permutations(Workers)
=============================================================================
