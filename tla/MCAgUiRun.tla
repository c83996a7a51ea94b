----------------------------- MODULE MCAgUiRun -----------------------------
(* Every branch streams for the same node: Send branches of parallel research. *)
EXTENDS AgUiRun

OneNode == [b \in Branches |-> "researcher"]
=============================================================================
