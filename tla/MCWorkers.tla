------------------------------ MODULE MCWorkers ------------------------------
(* Instances of Workers for TLC. *)
EXTENDS Workers, TLC

Symmetric == Permutations(Callers) \cup Permutations(Threads) \cup Permutations(Jobs)
=============================================================================
