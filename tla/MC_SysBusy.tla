----------------------------- MODULE MC_SysBusy -----------------------------
(* Two workers against two lockers.                                         *)
EXTENDS SysBusy, TLC

Symmetry == Permutations(Workers) \union Permutations(Lockers)
=============================================================================
