----------------------------- MODULE SkynetSwarm -----------------------------
(***************************************************************************)
(* The Skynet swarm (prismal/agents/skynet, agents/subgraphs/skynet): plan *)
(* a goal into orders, fan them out to workers, reduce, evaluate and plan  *)
(* again what is unmet, then answer.  One thread runs the swarm once per   *)
(* turn; metadata.skynet and the results channel survive from one turn to  *)
(* the next, and the token meter lives as long as the process.             *)
(*                                                                         *)
(* An order is its id ord-i, here i.  The code's order lists always run by *)
(* rising id: failed orders come first and were dispatched before every    *)
(* deferred one.  A list is therefore the set of its ids and "the first n  *)
(* of a list" is First.  A turn's goal is the turn's number.  Texts,       *)
(* roles, models, tools and envelopes are left out.                        *)
(***************************************************************************)
EXTENDS Naturals, FiniteSets, Sequences

CONSTANTS
    MaxOrders,        \* most orders the planner returns (a bound)
    MaxTurns,         \* turns on the thread (a bound)
    SwarmSize,        \* settings.skynet_swarm_size, 0 when dynamic
    MaxSwarm,         \* settings.skynet_max_swarm
    ParallelMax,      \* settings.parallel_max_workers
    ParallelEnabled,  \* settings.parallel_enabled
    MaxRounds,        \* settings.skynet_max_rounds
    Budget            \* settings.skynet_token_budget, 0 when unlimited

SkynetAssumption ==
    /\ MaxOrders \in Nat /\ MaxTurns \in Nat
    /\ MaxRounds \in Nat \ {0} /\ Budget \in Nat
    /\ ParallelEnabled \in BOOLEAN
    /\ ParallelMax \in Nat \ {0}
    /\ MaxSwarm \in 1..ParallelMax  \* Settings._validate_skynet
    /\ SwarmSize \in 0..MaxSwarm

ASSUME SkynetAssumption

Ids == 1..MaxOrders

VARIABLES
    turn,     \* the turn begun last
    phase,    \* the node to run, or "idle" between turns
    sky,      \* metadata.skynet
    staged,   \* the skynet_orders channel
    log,      \* the parallel_results channel
    pending,  \* the orders whose worker is running
    tokens,   \* the meter's tokens, counted up to Budget
    saved,    \* the parent graph's metadata.skynet and parallel_results
    answer,   \* what the last turn answered
    run       \* what happened in this turn, to state properties with

vars == <<turn, phase, sky, staged, log, pending, tokens, saved, answer, run>>

NoAnswer == [kind |-> "none", goal |-> 0, rounds |-> 0]

NewRun == [planned |-> {}, rounds |-> 0, sends |-> [i \in Ids |-> 0],
           last |-> [i \in Ids |-> "none"]]

\* metadata.skynet before the first turn, the defaults its readers use.
NoSky == [goal |-> 0, round |-> 1, orders |-> {}, deferred |-> {},
          unmet |-> {}, results |-> {}, replan |-> FALSE,
          ended |-> 0, error |-> "none"]

Init ==
    /\ turn = 0 /\ phase = "idle"
    /\ sky = NoSky /\ staged = {} /\ log = <<>>
    /\ pending = {} /\ tokens = 0
    /\ saved = [sky |-> NoSky, log |-> <<>>]
    /\ answer = NoAnswer /\ run = NewRun

-----------------------------------------------------------------------------
(* Helpers. *)

Lesser(m, n) == IF m < n THEN m ELSE n

\* The first n orders of a list.
First(S, n) == {i \in S : Cardinality({j \in S : j < i}) < n}

\* SkynetSupervisor._effective_cap.
Cap == LET cap == Lesser(MaxSwarm, ParallelMax)
       IN IF SwarmSize > 0 THEN Lesser(cap, SwarmSize) ELSE cap

\* What make_parallel_dispatcher sends a worker each.
Sends(S) == IF ParallelEnabled THEN First(S, Lesser(MaxSwarm, ParallelMax)) ELSE {}

\* A variant of Latest in which an order keeps its first entry.
Earliest(entries) ==
    {entries[k] : k \in {k \in 1..Len(entries) :
        \A j \in 1..(k - 1) : entries[j].id # entries[k].id}}

\* by_id in the reduce node: the last entry of each order.
Latest(entries) ==
    {entries[k] : k \in {k \in 1..Len(entries) :
        \A j \in (k + 1)..Len(entries) : entries[j].id # entries[k].id}}

\* Calling a model may record c tokens in the meter.
Spend(c) == tokens' = Lesser(Budget, tokens + c)

-----------------------------------------------------------------------------
(* The parent graph enters the subgraph with its own state. *)
StartTurn ==
    /\ phase = "idle" /\ turn < MaxTurns
    /\ turn' = turn + 1 /\ phase' = "plan"
    /\ saved' = [sky |-> sky, log |-> log]
    /\ run' = NewRun /\ answer' = NoAnswer
    /\ UNCHANGED <<sky, staged, log, pending, tokens>>

-----------------------------------------------------------------------------
(* The plan node. *)

\* The goal kept in metadata.skynet, else the latest human message.
Goal == IF sky.goal # 0 THEN sky.goal ELSE turn

\* Stage the orders S: the first Cap of them now, the rest deferred.
Stage(S) ==
    /\ sky' = [sky EXCEPT !.goal = Goal, !.orders = First(S, Cap),
                          !.deferred = S \ First(S, Cap), !.unmet = {}]
    /\ staged' = First(S, Cap)
    /\ phase' = "dispatch"
    /\ UNCHANGED <<turn, log, pending, saved, answer>>

\* The planner splits the goal into n orders.
PlanGoal(n, c) ==
    /\ phase = "plan" /\ sky.unmet = {}
    /\ Stage(1..n)
    /\ Spend(c) /\ run' = [run EXCEPT !.planned = 1..n]

\* A later round: the unmet orders again, without the planner.
PlanUnmet ==
    /\ phase = "plan" /\ sky.unmet # {}
    /\ Stage(sky.unmet)
    /\ UNCHANGED <<tokens, run>>

\* The planner fails or finds no orders, or there is no goal to plan (0).
PlanFails(goal, c) ==
    /\ phase = "plan" /\ sky.unmet = {}
    /\ sky' = [sky EXCEPT !.goal = goal, !.error = "plan"]
    /\ staged' = {} /\ phase' = "dispatch"
    /\ Spend(c)
    /\ UNCHANGED <<turn, log, pending, saved, answer, run>>

\* A variant of Dispatch without the route for an empty list.
DispatchWorkersOnly ==
    /\ phase = "dispatch" /\ Sends(staged) # {}
    /\ pending' = Sends(staged) /\ phase' = "work"
    /\ run' = [run EXCEPT
         !.rounds = @ + 1,
         !.sends = [i \in Ids |-> IF i \in Sends(staged) THEN @[i] + 1 ELSE @[i]]]
    /\ UNCHANGED <<turn, sky, staged, log, tokens, saved, answer>>

\* The dispatcher's edge: one worker per staged order, else to the output.
Dispatch ==
    /\ phase = "dispatch"
    /\ pending' = Sends(staged)
    /\ IF Sends(staged) = {}
       THEN phase' = "output" /\ run' = run
       ELSE /\ phase' = "work"
            /\ run' = [run EXCEPT
                 !.rounds = @ + 1,
                 !.sends = [i \in Ids |-> IF i \in Sends(staged) THEN @[i] + 1 ELSE @[i]]]
    /\ UNCHANGED <<turn, sky, staged, log, tokens, saved, answer>>

-----------------------------------------------------------------------------
(* Workers, reduce, evaluate. *)

\* A worker ends its order; an exception in it is a failed result.
Work(i, ok, c) ==
    /\ phase = "work" /\ i \in pending
    /\ pending' = pending \ {i}
    /\ log' = Append(log, [id |-> i, ok |-> ok])
    /\ Spend(c)
    /\ run' = [run EXCEPT !.last[i] = IF ok THEN "ok" ELSE "failed"]
    /\ UNCHANGED <<turn, phase, sky, staged, saved, answer>>

\* All workers are done: keep one result per order and synthesize.
Reduce(c) ==
    /\ phase = "work" /\ pending = {}
    /\ sky' = [sky EXCEPT !.results = Latest(log)]
    /\ phase' = "evaluate"
    /\ Spend(c)
    /\ UNCHANGED <<turn, staged, log, pending, saved, answer, run>>

\* enforce_token_budget raises.
OverBudget == Budget > 0 /\ tokens >= Budget

\* A refused or failed evaluation ends the loop with what there is.
EvaluateFails ==
    /\ phase = "evaluate"
    /\ sky' = [sky EXCEPT !.replan = FALSE, !.ended = sky.round,
                          !.error = IF OverBudget THEN "budget" ELSE "evaluator"]
    /\ phase' = "output"
    /\ UNCHANGED <<turn, staged, log, pending, tokens, saved, answer, run>>

\* The round's orders that have no successful result.
Failed == {i \in sky.orders : \E r \in sky.results : r.id = i /\ ~r.ok}

\* Variants of UnmetNext: without the overflow; the whole round again.
FailedOnly == Failed
RoundAgain == sky.orders \cup sky.deferred

UnmetNext == Failed \cup sky.deferred

\* A variant of Replan that lets one round too many begin.
ReplanLate(complete) == ~complete /\ sky.round <= MaxRounds /\ UnmetNext # {}

Replan(complete) == ~complete /\ sky.round < MaxRounds /\ UnmetNext # {}

NextRound ==
    [sky EXCEPT !.replan = TRUE, !.round = @ + 1, !.unmet = UnmetNext, !.deferred = {}]

\* The evaluator judges the goal met or not; route_after_evaluate.
Evaluate(complete, c) ==
    /\ phase = "evaluate" /\ ~OverBudget
    /\ IF Replan(complete)
       THEN sky' = NextRound /\ phase' = "plan"
       ELSE /\ sky' = [sky EXCEPT !.replan = FALSE, !.ended = sky.round]
            /\ phase' = "output"
    /\ Spend(c)
    /\ UNCHANGED <<turn, staged, log, pending, saved, answer, run>>

-----------------------------------------------------------------------------
(* The end of a turn. *)

\* The output node: a notice of an error that left no results, else the
\* swarm's result.  The parent's operator.add channel then takes in the whole
\* of the subgraph's, the entries it had already passed down among them.
Output ==
    /\ phase = "output" /\ phase' = "idle"
    /\ answer' = IF sky.error # "none" /\ sky.results = {}
                 THEN [NoAnswer EXCEPT !.kind = "notice"]
                 ELSE [kind |-> "result", goal |-> sky.goal,
                       rounds |-> IF sky.ended # 0 THEN sky.ended ELSE sky.round]
    /\ staged' = {}
    /\ log' = saved.log \o log
    /\ UNCHANGED <<turn, sky, pending, tokens, saved, run>>

\* A hard budget cap raised in a worker, or a turn cancelled: the parent
\* keeps the state it entered the subgraph with.
Abort ==
    /\ phase # "idle" /\ phase' = "idle"
    /\ sky' = saved.sky /\ log' = saved.log
    /\ staged' = {} /\ pending' = {}
    /\ answer' = [NoAnswer EXCEPT !.kind = "aborted"]
    /\ UNCHANGED <<turn, tokens, saved, run>>

Node ==
    \/ \E n \in Ids, c \in {0, 1} : PlanGoal(n, c)
    \/ PlanUnmet
    \/ \E g \in {sky.goal, Goal}, c \in {0, 1} : PlanFails(g, c)
    \/ Dispatch
    \/ \E i \in Ids, ok \in BOOLEAN, c \in {0, 1} : Work(i, ok, c)
    \/ \E c \in {0, 1} : Reduce(c)
    \/ EvaluateFails
    \/ \E complete \in BOOLEAN, c \in {0, 1} : Evaluate(complete, c)
    \/ Output

Next == StartTurn \/ Node \/ Abort

Spec == Init /\ [][Next]_vars

\* Every node returns: model and tool calls have timeouts of their own, and
\* the graph runs the next node when one returns.
FairSpec == Spec /\ WF_vars(Node)

-----------------------------------------------------------------------------
(* Properties. *)

Phases == {"idle", "plan", "dispatch", "work", "evaluate", "output"}

Entries == [id : Ids, ok : BOOLEAN]

Skies == [goal : 0..MaxTurns, round : 1..MaxRounds, orders : SUBSET Ids,
          deferred : SUBSET Ids, unmet : SUBSET Ids,
          results : SUBSET Entries, replan : BOOLEAN,
          ended : 0..MaxRounds, error : {"none", "plan", "budget", "evaluator"}]

Logs == Seq(Entries)

Runs == [planned : SUBSET Ids, rounds : Nat, sends : [Ids -> Nat],
         last : [Ids -> {"none", "ok", "failed"}]]

\* The types of the variables; the swarm's state is well formed.
TypeOK ==
    /\ turn \in 0..MaxTurns /\ phase \in Phases
    /\ sky \in Skies /\ staged \in SUBSET Ids /\ log \in Logs
    /\ pending \in SUBSET Ids /\ tokens \in 0..Budget
    /\ saved \in [sky : Skies, log : Logs]
    /\ answer \in [kind : {"none", "notice", "result", "aborted"},
                   goal : 0..MaxTurns, rounds : 0..MaxRounds]
    /\ run \in Runs

\* A turn never dispatches more rounds than skynet_max_rounds, whatever the
\* evaluator says and whatever the last turn left behind (RF-SKY-08).
RoundsBounded == run.rounds <= MaxRounds

\* Overflow and failures are carried, never dropped (RF-SKY-03): every order
\* of the turn's plan has succeeded, or is staged, deferred or unmet; when the
\* turn answers, it has run or is reported as deferred.
NoOrderLost ==
    ParallelEnabled => \A i \in run.planned :
        CASE phase = "plan" -> run.last[i] = "ok" \/ i \in sky.unmet
          [] phase \in {"dispatch", "work", "evaluate"} ->
                run.last[i] = "ok" \/ i \in sky.orders \cup sky.deferred
          [] phase = "output" -> run.last[i] # "none" \/ i \in sky.deferred
          [] OTHER -> TRUE

\* The result reported for an order the turn ran is that of its latest attempt,
\* although failed attempts and earlier turns left entries under its id.
LatestWins ==
    phase \in {"evaluate", "output"} =>
        \A i \in Ids : run.last[i] # "none" =>
            {r.ok : r \in {r \in sky.results : r.id = i}} = {run.last[i] = "ok"}

\* Once an order has succeeded the turn never dispatches it again.
NeverTwice ==
    [][\A i \in Ids : turn' = turn /\ run.last[i] = "ok"
                        => run'.sends[i] = run.sends[i]]_vars

\* Every turn ends with an answer or an exception: the loop cannot spin.
TurnEnds == phase # "idle" ~> phase = "idle"

=============================================================================
