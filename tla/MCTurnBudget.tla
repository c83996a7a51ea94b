---------------------------- MODULE MCTurnBudget ----------------------------
(***************************************************************************)
(* TurnBudget with its sessions and its loops interchangeable.             *)
(***************************************************************************)
EXTENDS TurnBudget, TLC

Interchangeable == Permutations(Sessions) \cup Permutations(Slots)
=============================================================================
