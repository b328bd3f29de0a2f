------------------------------ MODULE MCRunLife ------------------------------
(* RunLife for TLC. *)
EXTENDS RunLifeProperties, TLC

Alike == Permutations(Callers) \cup Permutations(Calls)
=============================================================================
