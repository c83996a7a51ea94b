---------------------------- MODULE TurnContract ----------------------------
(***************************************************************************)
(* What the supervisor graph promises the caller of one request: while it  *)
(* is being served it is delegated to a bounded number of specialists, and *)
(* the call always ends, answered, with an exception, or paused for a      *)
(* human's approval.  A paused request may be resumed; the resumption      *)
(* counts against the same bound.                                          *)
(***************************************************************************)
EXTENDS Naturals

CONSTANT MaxDelegations

VARIABLES phase,        \* "waiting" for a request or "serving" one
          delegations,  \* specialists the current request was handed to
          verdict       \* how the latest call ended

contractVars == <<phase, delegations, verdict>>

Init ==
    /\ phase = "waiting"
    /\ delegations = 0
    /\ verdict = "none"

Ask ==
    /\ phase = "waiting"
    /\ phase' = "serving"
    /\ delegations' = 0
    /\ verdict' = "none"

Approve ==
    /\ phase = "waiting"
    /\ verdict = "paused"
    /\ phase' = "serving"
    /\ verdict' = "none"
    /\ UNCHANGED delegations

Delegate ==
    /\ phase = "serving"
    /\ delegations < MaxDelegations
    /\ delegations' = delegations + 1
    /\ UNCHANGED <<phase, verdict>>

Finish ==
    /\ phase = "serving"
    /\ phase' = "waiting"
    /\ verdict' \in {"answered", "failed", "paused"}
    /\ UNCHANGED delegations

Next == Ask \/ Approve \/ Delegate \/ Finish

Spec == Init /\ [][Next]_contractVars /\ WF_contractVars(Finish)
=============================================================================
