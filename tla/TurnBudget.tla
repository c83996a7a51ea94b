----------------------------- MODULE TurnBudget -----------------------------
(***************************************************************************)
(* Cost governance of a turn: the meter and guard of prismal/budget, seeded *)
(* by the supervisor, and the react_loop of agents/tool_registry.py that   *)
(* checks the guard before it calls a model and meters each answer.        *)
(*                                                                         *)
(* The sessions belong to one tenant, each runs in a worker process of its *)
(* own, and the processes share the tenant's store (a SQLite file).  Each  *)
(* has a session_id: sessions without one, run by one process, would share *)
(* one engine under _DEFAULT_KEY, which is not modelled.  A session runs   *)
(* one turn at a time; within it the parallel research branch runs several *)
(* loops at once on the session's one meter.  One dimension is limited; a  *)
(* call costs what its answer says.  The soft cap only warns a react_loop  *)
(* and is left out, and so is context compaction, off by default.  Pricing *)
(* and what the tools do are abstracted to the cost of a call and whether  *)
(* any tool of a step succeeded.                                           *)
(***************************************************************************)
EXTENDS Naturals, FiniteSets

CONSTANTS
    Sessions,
    Slots,        \* the loops a delegation may run (settings.parallel_max_workers)
    Scopes,       \* the values of settings.budget_scope explored
    Limit,        \* the limited dimension of settings.budget_max_*
    Costs,        \* what one call may cost in it
    MaxCost,      \* the most one call may cost
    MaxIter,      \* max_iterations of react_loop (5)
    MaxHops,      \* delegations of a turn (1 when every member names itself)
    MaxTurns,     \* bound: user messages per session
    MaxWindow,    \* bound: calendar windows
    MaxFaults     \* bound: failures of the store

TurnBudgetAssumption ==
    /\ Limit \in Nat \ {0} /\ MaxCost \in Nat /\ Costs \subseteq 0..MaxCost
    /\ Scopes \subseteq {"turn", "session", "tenant"}
    /\ MaxIter \in Nat \ {0} /\ MaxHops \in Nat /\ MaxTurns \in Nat
    /\ MaxWindow \in Nat \ {0} /\ MaxFaults \in Nat
    /\ IsFiniteSet(Sessions) /\ IsFiniteSet(Slots)

ASSUME TurnBudgetAssumption

Windows == 1..MaxWindow

VARIABLES
    scope,    \* settings.budget_scope
    window,   \* the calendar window of now
    totals,   \* the tenant store: a total per window
    phase,    \* where a session's turn is
    turn,     \* its user messages so far, _turn_signature
    hops,     \* delegations of the turn
    meter,    \* its engine in _RUN_ENGINES: turn, window and usage
    loop,     \* its react_loops: where each is, and its iteration
    spent,    \* history: what the turn's answers have cost
    cut,      \* history: a loop of the turn was cut off by the hard cap
    faults    \* history: failed reads and failed increments of the store

vars == <<scope, window, totals, phase, turn, hops, meter, loop, spent, cut, faults>>

Off == [at |-> "off", iter |-> 0]

Init ==
    /\ scope \in Scopes /\ window = 1
    /\ totals = [w \in Windows |-> 0]
    /\ phase = [s \in Sessions |-> "idle"]
    /\ turn = [s \in Sessions |-> 0]
    /\ hops = [s \in Sessions |-> 0]
    /\ meter = [s \in Sessions |-> [turn |-> 0, window |-> 1, usage |-> 0]]
    /\ loop = [s \in Sessions |-> [l \in Slots |-> Off]]
    /\ spent = [s \in Sessions |-> 0]
    /\ cut = [s \in Sessions |-> FALSE]
    /\ faults = [reads |-> 0, adds |-> 0]

-----------------------------------------------------------------------------
(* The turn: the user's message, the supervisor's seeding, the delegations. *)

Ask(s) ==
    /\ phase[s] = "idle" /\ turn[s] < MaxTurns
    /\ phase' = [phase EXCEPT ![s] = "supervisor"]
    /\ turn' = [turn EXCEPT ![s] = @ + 1]
    /\ hops' = [hops EXCEPT ![s] = 0]
    /\ spent' = [spent EXCEPT ![s] = 0]
    /\ cut' = [cut EXCEPT ![s] = FALSE]
    /\ UNCHANGED <<scope, window, totals, meter, loop, faults>>

\* The usage a new meter starts from: the tenant's total, or zero when the
\* scope has none or the store cannot be read.
Opening(readable) ==
    IF scope = "tenant" /\ readable THEN totals[window] ELSE 0

FaultyRead(readable) ==
    /\ readable \/ (scope = "tenant" /\ faults.reads + faults.adds < MaxFaults)
    /\ faults' = IF readable THEN faults ELSE [faults EXCEPT !.reads = @ + 1]

\* A variant of Seeded that seeds at every hop of the supervisor.
SeededAlways(s) == FALSE

\* maybe_seed_budget_run: the turn has its engine already.
Seeded(s) == meter[s].turn = turn[s]

Seed(s, readable) ==
    IF Seeded(s)
    THEN readable /\ UNCHANGED <<meter, faults>>
    ELSE /\ FaultyRead(readable)
         /\ meter' = [meter EXCEPT ![s] =
              [turn |-> turn[s], window |-> window, usage |-> Opening(readable)]]

\* supervisor_node seeds, then hands the turn to the loops L, or ends it.
Delegate(s, L, readable) ==
    /\ phase[s] = "supervisor" /\ hops[s] < MaxHops
    /\ Seed(s, readable)
    /\ phase' = [phase EXCEPT ![s] = "run"]
    /\ hops' = [hops EXCEPT ![s] = @ + 1]
    /\ loop' = [loop EXCEPT ![s] =
         [l \in Slots |-> IF l \in L THEN [at |-> "check", iter |-> 0] ELSE Off]]
    /\ UNCHANGED <<scope, window, totals, turn, spent, cut>>

\* The tenant's store cannot be opened (SqliteTenantQuotaStore is locked for too
\* long): the exception leaves supervisor_node and the graph, and the turn is over
\* without a meter.  A process opens its store once, for its first meter.
OpenRaises(s) ==
    /\ phase[s] = "supervisor" /\ scope = "tenant" /\ meter[s].turn = 0
    /\ phase' = [phase EXCEPT ![s] = "idle"]
    /\ UNCHANGED <<scope, window, totals, turn, hops, meter, loop, spent, cut, faults>>

EndTurn(s, readable) ==
    /\ phase[s] = "supervisor"
    /\ Seed(s, readable)
    /\ phase' = [phase EXCEPT ![s] = "idle"]
    /\ UNCHANGED <<scope, window, totals, turn, hops, loop, spent, cut>>

\* A variant of Return that waits for the first loop only.
ReturnFirst(s) ==
    /\ phase[s] = "run" /\ \E l \in Slots : loop[s][l].at = "off"
    /\ phase' = [phase EXCEPT ![s] = "supervisor"]
    /\ UNCHANGED <<scope, window, totals, turn, hops, meter, loop, spent, cut, faults>>

\* The delegation's loops have all returned.
Return(s) ==
    /\ phase[s] = "run" /\ \A l \in Slots : loop[s][l].at = "off"
    /\ phase' = [phase EXCEPT ![s] = "supervisor"]
    /\ UNCHANGED <<scope, window, totals, turn, hops, meter, loop, spent, cut, faults>>

-----------------------------------------------------------------------------
(* One react_loop. *)

Goto(s, l, at) == loop' = [loop EXCEPT ![s][l] = at]

\* A variant of HardExceeded that lets a call begin at the limit.
HardExceededAbove(s) == meter[s].usage > Limit

\* BudgetGuard.check on the hard cap.
HardExceeded(s) == meter[s].usage >= Limit

\* The check before an iteration's call: a partial answer, or the call.
Check(s, l) ==
    /\ loop[s][l].at = "check"
    /\ IF HardExceeded(s)
       THEN Goto(s, l, Off) /\ cut' = [cut EXCEPT ![s] = TRUE]
       ELSE Goto(s, l, [loop[s][l] EXCEPT !.at = "call"]) /\ cut' = cut
    /\ UNCHANGED <<scope, window, totals, phase, turn, hops, meter, spent, faults>>

\* A variant of Record whose tenant meter keeps its own sum.
RecordAlone(s, c, stored) ==
    /\ spent' = [spent EXCEPT ![s] = @ + c]
    /\ meter' = [meter EXCEPT ![s].usage = @ + c]
    /\ faults' = faults /\ stored
    /\ totals' = IF scope = "tenant"
                 THEN [totals EXCEPT ![meter[s].window] = @ + c] ELSE totals

\* CostMeter.record, and TenantCostMeter.record over it: the delta goes to the
\* store and the meter adopts the store's total, whatever it had itself; when
\* the store fails the meter keeps its own sum.
Record(s, c, stored) ==
    /\ spent' = [spent EXCEPT ![s] = @ + c]
    /\ IF scope = "tenant" /\ stored
       THEN LET w == meter[s].window
            IN /\ totals' = [totals EXCEPT ![w] = @ + c]
               /\ meter' = [meter EXCEPT ![s].usage = totals[w] + c]
               /\ faults' = faults
       ELSE /\ stored \/ (scope = "tenant" /\ faults.reads + faults.adds < MaxFaults)
            /\ faults' = IF stored THEN faults ELSE [faults EXCEPT !.adds = @ + 1]
            /\ meter' = [meter EXCEPT ![s].usage = @ + c]
            /\ totals' = totals

\* The model answers: a final answer ("off"), or tools to call.
Answer(s, l, c, stored, next) ==
    /\ loop[s][l].at = "call"
    /\ Record(s, c, stored)
    /\ Goto(s, l, IF next = "off" THEN Off ELSE [loop[s][l] EXCEPT !.at = next])
    /\ UNCHANGED <<scope, window, phase, turn, hops, cut>>

\* The tools return: another iteration, or one last call of the model when
\* every tool failed or the iterations are used up (_final_llm_turn).
Tools(s, l, ok) ==
    LET iter == loop[s][l].iter + 1
    IN /\ loop[s][l].at = "tools"
       /\ Goto(s, l, IF ok /\ iter < MaxIter
                     THEN [at |-> "check", iter |-> iter]
                     ELSE [at |-> "final", iter |-> iter])
       /\ UNCHANGED <<scope, window, totals, phase, turn, hops, meter, spent, cut, faults>>

FinalAnswer(s, l, c, stored) ==
    /\ loop[s][l].at = "final"
    /\ Record(s, c, stored)
    /\ Goto(s, l, Off)
    /\ UNCHANGED <<scope, window, phase, turn, hops, cut>>

\* A call fails for good or stays rate-limited: a fallback answer.
CallFails(s, l) ==
    /\ loop[s][l].at \in {"call", "final"}
    /\ Goto(s, l, Off)
    /\ UNCHANGED <<scope, window, totals, phase, turn, hops, meter, spent, cut, faults>>

\* Any other exception of a call leaves the graph: the turn is over and the
\* loops beside it are cancelled, their calls never metered.
Raise(s, l) ==
    /\ loop[s][l].at \in {"call", "final"}
    /\ loop' = [loop EXCEPT ![s] = [k \in Slots |-> Off]]
    /\ phase' = [phase EXCEPT ![s] = "idle"]
    /\ UNCHANGED <<scope, window, totals, turn, hops, meter, spent, cut, faults>>

-----------------------------------------------------------------------------

\* The calendar moves on.
Tick ==
    /\ window < MaxWindow /\ window' = window + 1
    /\ UNCHANGED <<scope, totals, phase, turn, hops, meter, loop, spent, cut, faults>>

Supervise(s) ==
    \/ \E L \in SUBSET Slots \ {{}}, readable \in BOOLEAN : Delegate(s, L, readable)
    \/ \E readable \in BOOLEAN : EndTurn(s, readable)
    \/ OpenRaises(s)
    \/ Return(s)

React(s, l) ==
    \/ Check(s, l)
    \/ \E c \in Costs, stored \in BOOLEAN, next \in {"off", "tools"} :
          Answer(s, l, c, stored, next)
    \/ \E ok \in BOOLEAN : Tools(s, l, ok)
    \/ \E c \in Costs, stored \in BOOLEAN : FinalAnswer(s, l, c, stored)
    \/ CallFails(s, l)
    \/ Raise(s, l)

Next ==
    \/ Tick
    \/ \E s \in Sessions :
          \/ Ask(s)
          \/ Supervise(s)
          \/ \E l \in Slots : React(s, l)

Spec == Init /\ [][Next]_vars

-----------------------------------------------------------------------------
(* Properties. *)

Meters == [turn : 0..MaxTurns, window : Windows, usage : Nat]
Loops == [at : {"off", "check", "call", "tools", "final"}, iter : 0..MaxIter]

\* The types of the variables; no loop runs outside a delegation or past its
\* iterations.
TypeOK ==
    /\ scope \in Scopes /\ window \in Windows
    /\ totals \in [Windows -> Nat]
    /\ phase \in [Sessions -> {"idle", "supervisor", "run"}]
    /\ turn \in [Sessions -> 0..MaxTurns] /\ hops \in [Sessions -> 0..MaxHops]
    /\ meter \in [Sessions -> Meters]
    /\ loop \in [Sessions -> [Slots -> Loops]]
    /\ spent \in [Sessions -> Nat] /\ cut \in [Sessions -> BOOLEAN]
    /\ faults \in [reads : Nat, adds : Nat]
    /\ \A s \in Sessions : phase[s] # "run" => loop[s] = [l \in Slots |-> Off]

\* What the loops of one delegation can add to a usage just below the limit:
\* each may have a call begun before the limit, and the last call that
\* _final_llm_turn makes without a check.
Overshoot == 2 * Cardinality(Slots) * MaxCost

\* A turn with a meter of its own never spends more than its limit and the
\* overshoot, however its loops interleave between a check and the answer
\* (react_loop, tool_registry.py).
TurnCapped == scope # "tenant" => \A s \in Sessions : spent[s] < Limit + Overshoot

\* A tenant's total in a window stays below its limit and one overshoot of each
\* session, although a session sees the others' spend only with its own answers;
\* each seed that could not read the store starts one more turn from zero
\* (TenantCostMeter).
TenantCapped ==
    \A w \in Windows :
        totals[w] < Limit + Overshoot * (Cardinality(Sessions) + faults.reads)

\* Once the hard cap has cut a loop of a turn off, no loop of the turn begins a
\* call after a check, across the supervisor's hops (maybe_seed_budget_run is
\* idempotent within a turn) and whatever other sessions spend.  Not so once an
\* increment of the store has failed: the meter then holds spend the store does not,
\* and the next answer's total takes it back below the limit.
CutOffStays ==
    [][\A s \in Sessions, l \in Slots :
         cut[s] /\ turn'[s] = turn[s] /\ faults.adds = 0 /\ loop[s][l].at = "check"
            => loop'[s][l].at # "call"]_vars
=============================================================================
