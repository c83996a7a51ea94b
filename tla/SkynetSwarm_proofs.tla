------------------------- MODULE SkynetSwarm_proofs -------------------------
(***************************************************************************)
(* Proofs about SkynetSwarm for every number of orders, turns and rounds   *)
(* and every cap: rounds are bounded, no order is lost, the latest attempt *)
(* is the one reported and no order that succeeded is dispatched again.    *)
(*                                                                         *)
(* The inductive invariant follows an order through the round: what is     *)
(* staged fits the dispatcher's cap, what has been dispatched is pending   *)
(* or has its outcome as the last entry of its id in the log, and what is  *)
(* in the round's orders or deferred has not succeeded before.             *)
(***************************************************************************)
EXTENDS SkynetSwarm, FiniteSetTheorems, TLAPS

\* The entry at k is the last of its order.
IsLast(entries, k) ==
    /\ k \in 1..Len(entries)
    /\ \A j \in (k + 1)..Len(entries) : entries[j].id # entries[k].id

\* A set that a cap of n does not cut.
Fits(S, n) == \A i \in S : Cardinality({j \in S : j < i}) < n

Succeeded(i) == run.last[i] = "ok"
Tried(i) == run.last[i] # "none"

\* A round begins only below the cap on rounds.
RoundInv ==
    /\ run.rounds <= MaxRounds
    /\ phase \in {"plan", "dispatch"} => run.rounds < sky.round
    /\ phase \in {"work", "evaluate", "output"} => run.rounds <= sky.round

PlanInv ==
    phase = "plan" =>
        /\ \A i \in run.planned : Succeeded(i) \/ i \in sky.unmet
        /\ \A i \in sky.unmet : ~Succeeded(i)
        /\ sky.unmet = {} => \A i \in Ids : ~Tried(i)

\* Either planning failed, or the orders are staged and fit the dispatcher.
DispatchInv ==
    phase = "dispatch" =>
        \/ staged = {} /\ \A i \in run.planned : Succeeded(i)
        \/ /\ staged = sky.orders /\ Fits(staged, Lesser(MaxSwarm, ParallelMax))
           /\ \A i \in run.planned : Succeeded(i) \/ i \in sky.orders \cup sky.deferred
           /\ \A i \in sky.orders \cup sky.deferred : ~Succeeded(i)
           /\ sky.orders \cap sky.deferred = {}

RoundOrders ==
    phase \in {"work", "evaluate"} =>
        /\ sky.orders \cap sky.deferred = {}
        /\ \A i \in run.planned : Succeeded(i) \/ i \in sky.orders \cup sky.deferred
        /\ \A i \in sky.deferred : ~Succeeded(i)
        /\ \A i \in sky.orders \ pending : Tried(i)

WorkInv == \A i \in pending : phase = "work" /\ i \in sky.orders /\ ~Succeeded(i)

OutputInv ==
    phase = "output" /\ ParallelEnabled =>
        \A i \in run.planned : Tried(i) \/ i \in sky.deferred

\* The log's last entries are what the turn's workers returned.
LogInv ==
    phase # "idle" => \A i \in Ids : Tried(i) =>
        /\ \E k \in 1..Len(log) : IsLast(log, k) /\ log[k].id = i
        /\ \A k \in 1..Len(log) : IsLast(log, k) /\ log[k].id = i
                                    => (log[k].ok <=> Succeeded(i))

\* Except while workers run, the results are those of the log.
ResultsInv ==
    phase \in {"plan", "dispatch", "evaluate", "output"} => \A i \in Ids : Tried(i) =>
        /\ \E r \in sky.results : r.id = i
        /\ \A r \in sky.results : r.id = i => (r.ok <=> Succeeded(i))

Orders == PlanInv /\ DispatchInv /\ RoundOrders /\ WorkInv /\ OutputInv

Inv == TypeOK /\ RoundInv /\ Orders /\ LogInv /\ ResultsInv

-----------------------------------------------------------------------------
(* Lists and caps. *)

\* The supervisor's cap on a plan is at most the dispatcher's on a fan-out.
LEMMA CapsAgree ==
    /\ Cap \in Nat /\ Lesser(MaxSwarm, ParallelMax) \in Nat
    /\ Cap <= Lesser(MaxSwarm, ParallelMax)
  BY SkynetAssumption DEF SkynetAssumption, Cap, Lesser

\* The first n orders of a list fit every cap that is not below n.
LEMMA FirstFits ==
    ASSUME NEW S \in SUBSET Ids, NEW n \in Nat, NEW m \in Nat, n <= m
    PROVE  First(S, n) \subseteq S /\ Fits(First(S, n), m)
  <1>1. IsFiniteSet(Ids)
    BY SkynetAssumption, FS_Interval DEF SkynetAssumption, Ids
  <1>2. ASSUME NEW i \in First(S, n)
        PROVE  Cardinality({j \in First(S, n) : j < i}) < m
    <2> DEFINE A == {j \in First(S, n) : j < i}
               B == {j \in S : j < i}
    <2>1. A \subseteq B /\ B \subseteq Ids
      BY DEF First
    <2>2. IsFiniteSet(B)
      BY <1>1, <2>1, FS_Subset
    <2>3. IsFiniteSet(A) /\ Cardinality(A) <= Cardinality(B)
      BY <2>1, <2>2, FS_Subset
    <2>4. Cardinality(A) \in Nat /\ Cardinality(B) \in Nat
      BY <2>2, <2>3, FS_CardinalityType
    <2>5. Cardinality(B) < n
      BY DEF First
    <2> QED
      BY <2>3, <2>4, <2>5
  <1> QED
    BY <1>2 DEF First, Fits

\* A list that fits is sent whole.
LEMMA SentWhole ==
    ASSUME NEW S \in SUBSET Ids, Fits(S, Lesser(MaxSwarm, ParallelMax))
    PROVE  Sends(S) = IF ParallelEnabled THEN S ELSE {}
  BY DEF Sends, First, Fits

\* The dispatcher sends staged orders only.
LEMMA SendsStaged == ASSUME NEW S \in SUBSET Ids PROVE Sends(S) \subseteq S
  BY DEF Sends, First

\* The meter stays within what is counted of it.
LEMMA LesserType ==
    ASSUME NEW m \in Nat, NEW n \in Nat PROVE Lesser(m, n) \in 0..m
  BY DEF Lesser

-----------------------------------------------------------------------------
(* Types. *)

LEMMA InitTyped == Init => TypeOK
  <1> SUFFICES ASSUME Init PROVE TypeOK
    OBVIOUS
  <1>1. NoSky \in Skies
    BY SkynetAssumption DEF SkynetAssumption, NoSky, Skies
  <1>2. NewRun \in Runs
    BY SkynetAssumption DEF SkynetAssumption, NewRun, Runs
  <1>3. <<>> \in Logs
    BY DEF Logs
  <1>4. NoAnswer \in [kind : {"none", "notice", "result", "aborted"},
                      goal : 0..MaxTurns, rounds : 0..MaxRounds]
    BY SkynetAssumption DEF SkynetAssumption, NoAnswer
  <1> QED
    BY <1>1, <1>2, <1>3, <1>4, SkynetAssumption DEF SkynetAssumption, Init, TypeOK, Phases

\* Recording tokens keeps the meter in its type.
LEMMA SpendTyped ==
    ASSUME TypeOK, NEW c \in {0, 1}, Spend(c)
    PROVE  tokens' \in 0..Budget
  <1>1. \A m \in 0..Budget : Lesser(Budget, m + c) \in 0..Budget
    BY LesserType, SkynetAssumption DEF SkynetAssumption
  <1> QED
    BY <1>1 DEF TypeOK, Spend

\* Every result kept is an entry of the log.
LEMMA LatestTyped ==
    ASSUME NEW entries \in Logs
    PROVE  Latest(entries) \subseteq Entries
  <1> SUFFICES ASSUME NEW r \in Latest(entries) PROVE r \in Entries
    OBVIOUS
  <1>1. PICK k \in 1..Len(entries) : r = entries[k]
    BY DEF Latest
  <1> QED
    BY <1>1 DEF Logs

LEMMA StageTyped ==
    ASSUME TypeOK, NEW S \in SUBSET Ids, Stage(S)
    PROVE  /\ sky' \in Skies /\ staged' \subseteq Ids /\ phase' \in Phases
           /\ turn' = turn /\ log' = log /\ pending' = pending
           /\ saved' = saved /\ answer' = answer
  <1>1. First(S, Cap) \subseteq Ids /\ S \ First(S, Cap) \subseteq Ids
    BY DEF First
  <1>2. Goal \in 0..MaxTurns
    BY DEF TypeOK, Skies, Goal
  <1> QED
    BY <1>1, <1>2 DEF TypeOK, Skies, Stage, Phases

LEMMA StepTyped == TypeOK /\ [Next]_vars => TypeOK'
  <1> SUFFICES ASSUME TypeOK, [Next]_vars PROVE TypeOK'
    OBVIOUS
  <1> USE SkynetAssumption DEF SkynetAssumption
  <1>1. CASE StartTurn
    <2>1. NewRun \in Runs
      BY DEF NewRun, Runs
    <2>2. NoAnswer \in [kind : {"none", "notice", "result", "aborted"},
                        goal : 0..MaxTurns, rounds : 0..MaxRounds]
      BY DEF NoAnswer
    <2> QED
      BY <1>1, <2>1, <2>2 DEF StartTurn, TypeOK, Phases
  <1>2. ASSUME NEW n \in Ids, NEW c \in {0, 1}, PlanGoal(n, c)
        PROVE  TypeOK'
    <2>1. 1..n \in SUBSET Ids
      BY DEF Ids
    <2>2. [run EXCEPT !.planned = 1..n] \in Runs
      BY <2>1 DEF TypeOK, Runs
    <2>3. run' \in Runs /\ tokens' \in 0..Budget
      BY <1>2, <2>2, SpendTyped DEF PlanGoal
    <2> QED
      BY <1>2, <2>1, <2>3, StageTyped DEF PlanGoal, TypeOK
  <1>3. CASE PlanUnmet
    <2>1. sky.unmet \in SUBSET Ids
      BY DEF TypeOK, Skies
    <2>2. Stage(sky.unmet) /\ tokens' = tokens /\ run' = run
      BY <1>3 DEF PlanUnmet
    <2> QED
      BY <2>1, <2>2, StageTyped DEF TypeOK
  <1>4. ASSUME NEW g \in {sky.goal, Goal}, NEW c \in {0, 1}, PlanFails(g, c)
        PROVE  TypeOK'
    <2>1. g \in 0..MaxTurns
      BY DEF TypeOK, Skies, Goal
    <2>3. run' = run /\ tokens' \in 0..Budget
      BY <1>4, SpendTyped DEF PlanFails
    <2>4. sky' \in Skies
      BY <1>4, <2>1 DEF PlanFails, TypeOK, Skies
    <2> QED
      BY <1>4, <2>3, <2>4 DEF PlanFails, TypeOK, Phases
  <1>5. CASE Dispatch
    <2>1. Sends(staged) \subseteq Ids
      BY SendsStaged DEF TypeOK
    <2> DEFINE sends == [i \in Ids |-> IF i \in Sends(staged) THEN run.sends[i] + 1
                                                             ELSE run.sends[i]]
    <2>3. run \in Runs /\ run.rounds + 1 \in Nat /\ sends \in [Ids -> Nat]
      BY DEF TypeOK, Runs
    <2>4. [run EXCEPT !.rounds = run.rounds + 1, !.sends = sends] \in Runs
      BY <2>3 DEF Runs
    <2>2. run' \in Runs /\ phase' \in Phases
      BY <1>5, <2>3, <2>4 DEF Dispatch, Phases
    <2> QED
      BY <1>5, <2>1, <2>2 DEF Dispatch, TypeOK
  <1>6. ASSUME NEW i \in Ids, NEW ok \in BOOLEAN, NEW c \in {0, 1}, Work(i, ok, c)
        PROVE  TypeOK'
    <2>1. [run EXCEPT !.last[i] = IF ok THEN "ok" ELSE "failed"] \in Runs
      BY DEF TypeOK, Runs
    <2>2. run' \in Runs /\ tokens' \in 0..Budget
      BY <1>6, <2>1, SpendTyped DEF Work
    <2>3. [id |-> i, ok |-> ok] \in Entries
      BY DEF Entries
    <2>4. log' \in Logs
      BY <1>6, <2>3 DEF Work, TypeOK, Logs
    <2> QED
      BY <1>6, <2>2, <2>4 DEF Work, TypeOK
  <1>7. ASSUME NEW c \in {0, 1}, Reduce(c)
        PROVE  TypeOK'
    <2>1. run' = run /\ tokens' \in 0..Budget
      BY <1>7, SpendTyped DEF Reduce
    <2>2. sky' \in Skies
      BY <1>7, LatestTyped DEF Reduce, TypeOK, Skies
    <2> QED
      BY <1>7, <2>1, <2>2 DEF Reduce, TypeOK, Phases
  <1>8. CASE EvaluateFails
    <2>2. sky' \in Skies
      <3> DEFINE error == IF OverBudget THEN "budget" ELSE "evaluator"
      <3>1. sky \in Skies /\ error \in {"none", "plan", "budget", "evaluator"}
        BY DEF TypeOK
      <3>2. sky' = [sky EXCEPT !.replan = FALSE, !.ended = sky.round, !.error = error]
        BY <1>8 DEF EvaluateFails
      <3>3. sky.round \in 0..MaxRounds
        BY <3>1 DEF Skies
      <3> HIDE DEF error
      <3> QED
        BY ONLY <3>1, <3>2, <3>3 DEF Skies
    <2> QED
      BY <1>8, <2>2 DEF EvaluateFails, TypeOK, Phases
  <1>9. ASSUME NEW complete \in BOOLEAN, NEW c \in {0, 1}, Evaluate(complete, c)
        PROVE  TypeOK'
    <2>1. run' = run /\ tokens' \in 0..Budget
      BY <1>9, SpendTyped DEF Evaluate
    <2>2. UnmetNext \subseteq Ids
      BY DEF UnmetNext, Failed, TypeOK, Skies
    <2>3. ASSUME Replan(complete) PROVE sky' \in Skies
      <3>1. sky \in Skies /\ sky.round \in 1..MaxRounds /\ sky.round < MaxRounds
        BY <2>3 DEF Replan, TypeOK, Skies
      <3>2. sky.round + 1 \in 1..MaxRounds
        BY <3>1
      <3>3. NextRound \in Skies
        BY ONLY <2>2, <3>1, <3>2 DEF NextRound, Skies
      <3> QED
        BY <1>9, <2>3, <3>3 DEF Evaluate
    <2>4. ASSUME ~Replan(complete) PROVE sky' \in Skies
      <3>1. sky \in Skies /\ sky.round \in 0..MaxRounds
        BY DEF TypeOK, Skies
      <3>2. sky' = [sky EXCEPT !.replan = FALSE, !.ended = sky.round]
        BY <1>9, <2>4 DEF Evaluate
      <3> QED
        BY ONLY <3>1, <3>2 DEF Skies
    <2>5. sky' \in Skies
      BY <2>3, <2>4
    <2> QED
      BY <1>9, <2>1, <2>5 DEF Evaluate, TypeOK, Phases
  <1>10. CASE Output
    <2>1. log' \in Logs
      BY <1>10 DEF Output, TypeOK, Logs
    <2>2. answer' \in [kind : {"none", "notice", "result", "aborted"},
                       goal : 0..MaxTurns, rounds : 0..MaxRounds]
      BY <1>10 DEF Output, NoAnswer, TypeOK, Skies
    <2> QED
      BY <1>10, <2>1, <2>2 DEF Output, TypeOK, Phases
  <1>11. CASE Abort
    <2>1. answer' \in [kind : {"none", "notice", "result", "aborted"},
                       goal : 0..MaxTurns, rounds : 0..MaxRounds]
      BY <1>11 DEF Abort, NoAnswer
    <2> QED
      BY <1>11, <2>1 DEF Abort, TypeOK, Phases
  <1>12. CASE UNCHANGED vars
    BY <1>12 DEF vars, TypeOK
  <1> QED
    BY <1>1, <1>2, <1>3, <1>4, <1>5, <1>6, <1>7, <1>8, <1>9, <1>10, <1>11, <1>12
    DEF Next, Node

\* TypeOK holds in every reachable state: the swarm's state, restored or
\* carried from turn to turn, is always well formed.
THEOREM TypeCorrect == Spec => []TypeOK
  <1> QED
    BY InitTyped, StepTyped, PTL DEF Spec

-----------------------------------------------------------------------------
(* The log and the results. *)

LEMMA LogGrows ==
    ASSUME NEW entries \in Logs, NEW e \in Entries
    PROVE  \A k : IsLast(Append(entries, e), k) <=>
                     \/ k = Len(entries) + 1
                     \/ IsLast(entries, k) /\ entries[k].id # e.id
  <1> DEFINE longer == Append(entries, e)
  <1>1. Len(entries) \in Nat /\ Len(longer) = Len(entries) + 1
    BY DEF Logs
  <1>2. longer[Len(entries) + 1] = e /\ \A k \in 1..Len(entries) : longer[k] = entries[k]
    BY DEF Logs
  <1> HIDE DEF longer
  <1>3. \A k : IsLast(longer, k) <=>
                     \/ k = Len(entries) + 1
                     \/ IsLast(entries, k) /\ entries[k].id # e.id
    BY <1>1, <1>2 DEF IsLast
  <1> QED
    BY <1>3 DEF longer

LEMMA LatestOf ==
    ASSUME NEW entries \in Logs
    PROVE  \A r : r \in Latest(entries) <=> \E k : IsLast(entries, k) /\ r = entries[k]
  BY DEF Latest, IsLast

LEMMA InitInv == Init => Inv
  <1> SUFFICES ASSUME Init PROVE RoundInv /\ Orders /\ LogInv /\ ResultsInv
    BY InitTyped DEF Inv
  <1>1. RoundInv
    BY SkynetAssumption DEF SkynetAssumption, Init, NewRun, RoundInv
  <1>2. Orders
    BY DEF Init, Orders, PlanInv, DispatchInv, RoundOrders, WorkInv, OutputInv
  <1> QED
    BY <1>1, <1>2 DEF Init, LogInv, ResultsInv

\* A step that leaves the orders' outcomes and the log alone.
LEMMA LogKept ==
    ASSUME LogInv, phase # "idle", log' = log, run'.last = run.last
    PROVE  LogInv'
  BY DEF LogInv, Tried, Succeeded, IsLast

-----------------------------------------------------------------------------
(* Each action. *)

LEMMA StartStep == Inv /\ StartTurn => (RoundInv /\ Orders /\ LogInv /\ ResultsInv)'
  <1> SUFFICES ASSUME Inv, StartTurn PROVE (RoundInv /\ Orders /\ LogInv /\ ResultsInv)'
    OBVIOUS
  <1>1. /\ phase' = "plan" /\ sky' = sky /\ pending' = pending /\ phase = "idle"
        /\ run'.planned = {} /\ run'.rounds = 0 /\ run'.last = [i \in Ids |-> "none"]
    BY DEF StartTurn, NewRun
  <1>2. sky.round \in 1..MaxRounds /\ sky.unmet \subseteq Ids
    BY DEF Inv, TypeOK, Skies
  <1>3. RoundInv'
    BY <1>1, <1>2, SkynetAssumption DEF SkynetAssumption, RoundInv
  <1>4. pending' = {}
    BY <1>1 DEF Inv, Orders, WorkInv
  <1>5. Orders'
    BY <1>1, <1>2, <1>4
    DEF Orders, PlanInv, DispatchInv, RoundOrders, WorkInv, OutputInv, Succeeded, Tried
  <1>6. LogInv' /\ ResultsInv'
    BY <1>1 DEF LogInv, ResultsInv, Tried
  <1> QED
    BY <1>3, <1>5, <1>6

\* Staging orders none of which has succeeded, the planned ones among them.
LEMMA StageStep ==
    ASSUME Inv, NEW S \in SUBSET Ids, phase = "plan", Stage(S),
           run'.rounds = run.rounds, run'.last = run.last,
           \A i \in S : ~Succeeded(i),
           \A i \in run'.planned : Succeeded(i) \/ i \in S
    PROVE  (RoundInv /\ Orders /\ LogInv /\ ResultsInv)'
  <1>1. /\ phase' = "dispatch" /\ staged' = First(S, Cap)
        /\ sky'.orders = First(S, Cap) /\ sky'.deferred = S \ First(S, Cap)
        /\ sky'.round = sky.round /\ sky'.results = sky.results
        /\ log' = log /\ pending' = pending
    BY DEF Stage, Inv, TypeOK, Skies
  <1>2. RoundInv'
    BY <1>1 DEF Inv, RoundInv
  <1>3. First(S, Cap) \subseteq S /\ Fits(First(S, Cap), Lesser(MaxSwarm, ParallelMax))
    BY CapsAgree, FirstFits
  <1>4. DispatchInv'
    <2>1. \A i \in sky'.orders \cup sky'.deferred : ~Succeeded(i)'
      BY <1>1, <1>3 DEF Succeeded
    <2>2. \A i \in run'.planned : Succeeded(i)' \/ i \in sky'.orders \cup sky'.deferred
      BY <1>1, <1>3 DEF Succeeded
    <2>3. /\ staged' = sky'.orders /\ Fits(staged', Lesser(MaxSwarm, ParallelMax))
          /\ sky'.orders \cap sky'.deferred = {}
      BY <1>1, <1>3
    <2> QED
      BY <2>1, <2>2, <2>3 DEF DispatchInv, Fits
  <1>5. pending = {}
    BY DEF Inv, Orders, WorkInv
  <1>6. Orders'
    BY <1>1, <1>4, <1>5 DEF Orders, PlanInv, RoundOrders, WorkInv, OutputInv
  <1>7. LogInv' /\ ResultsInv'
    BY <1>1, LogKept DEF Inv, ResultsInv, Tried, Succeeded
  <1> QED
    BY <1>2, <1>6, <1>7

LEMMA PlanStep ==
    ASSUME Inv,
           \/ \E n \in Ids, c \in {0, 1} : PlanGoal(n, c)
           \/ PlanUnmet
           \/ \E g \in {sky.goal, Goal}, c \in {0, 1} : PlanFails(g, c)
    PROVE  (RoundInv /\ Orders /\ LogInv /\ ResultsInv)'
  <1>1. ASSUME NEW n \in Ids, NEW c \in {0, 1}, PlanGoal(n, c)
        PROVE  (RoundInv /\ Orders /\ LogInv /\ ResultsInv)'
    <2>1. 1..n \in SUBSET Ids
      BY SkynetAssumption DEF SkynetAssumption, Ids
    <2>4. run'.planned = 1..n /\ run'.rounds = run.rounds /\ run'.last = run.last
      BY <1>1, <2>1 DEF PlanGoal, Inv, TypeOK, Runs
    <2>5. \A i \in 1..n : ~Succeeded(i)
      BY <1>1, <2>1 DEF PlanGoal, Inv, Orders, PlanInv, Succeeded, Tried
    <2> QED
      BY <1>1, <2>1, <2>4, <2>5, StageStep DEF PlanGoal
  <1>2. ASSUME PlanUnmet
        PROVE  (RoundInv /\ Orders /\ LogInv /\ ResultsInv)'
    <2>1. sky.unmet \in SUBSET Ids
      BY DEF Inv, TypeOK, Skies
    <2>2. Stage(sky.unmet) /\ run' = run /\ phase = "plan"
      BY <1>2 DEF PlanUnmet
    <2>3. \A i \in sky.unmet : ~Succeeded(i)
      BY <2>2 DEF Inv, Orders, PlanInv
    <2>4. \A i \in run'.planned : Succeeded(i) \/ i \in sky.unmet
      BY <2>2 DEF Inv, Orders, PlanInv
    <2> QED
      BY <2>1, <2>2, <2>3, <2>4, StageStep
  <1>3. ASSUME NEW g \in {sky.goal, Goal}, NEW c \in {0, 1}, PlanFails(g, c)
        PROVE  (RoundInv /\ Orders /\ LogInv /\ ResultsInv)'
    <2>3. run'.planned = run.planned /\ run'.rounds = run.rounds /\ run'.last = run.last
      BY <1>3 DEF PlanFails
    <2>4. /\ phase = "plan" /\ phase' = "dispatch" /\ staged' = {} /\ pending' = pending
          /\ sky'.round = sky.round /\ sky'.results = sky.results
          /\ sky.unmet = {} /\ log' = log
      BY <1>3 DEF PlanFails, Inv, TypeOK, Skies
    <2>5. RoundInv'
      BY <2>3, <2>4 DEF Inv, RoundInv
    <2>6. \A i \in run'.planned : Succeeded(i)'
      BY <2>3, <2>4 DEF Inv, Orders, PlanInv, Succeeded
    <2>7. pending' = {}
      BY <2>4 DEF Inv, Orders, WorkInv
    <2>8. Orders'
      BY <2>4, <2>6, <2>7
      DEF Orders, PlanInv, DispatchInv, RoundOrders, WorkInv, OutputInv
    <2>9. LogInv' /\ ResultsInv'
      BY <2>3, <2>4, LogKept DEF Inv, ResultsInv, Tried, Succeeded
    <2> QED
      BY <2>5, <2>8, <2>9
  <1> QED
    BY <1>1, <1>2, <1>3

LEMMA DispatchStep == Inv /\ Dispatch => (RoundInv /\ Orders /\ LogInv /\ ResultsInv)'
  <1> SUFFICES ASSUME Inv, Dispatch PROVE (RoundInv /\ Orders /\ LogInv /\ ResultsInv)'
    OBVIOUS
  <1>1. /\ phase = "dispatch" /\ sky' = sky /\ staged' = staged /\ log' = log
        /\ pending' = Sends(staged)
    BY DEF Dispatch
  <1>2. /\ run'.planned = run.planned /\ run'.last = run.last
        /\ run'.rounds = IF Sends(staged) = {} THEN run.rounds ELSE run.rounds + 1
    BY DEF Dispatch, Inv, TypeOK, Runs
  <1>3. phase' = IF Sends(staged) = {} THEN "output" ELSE "work"
    BY DEF Dispatch
  <1>4. run.rounds \in Nat /\ sky.round \in 1..MaxRounds
    BY DEF Inv, TypeOK, Runs, Skies
  <1>5. RoundInv'
    BY <1>1, <1>2, <1>3, <1>4, SkynetAssumption DEF SkynetAssumption, Inv, RoundInv
  <1>6. staged \in SUBSET Ids
    BY DEF Inv, TypeOK
  <1>7. LogInv' /\ ResultsInv'
    BY <1>1, <1>2, <1>3, LogKept DEF Inv, ResultsInv, Tried, Succeeded
  <1>8. CASE Sends(staged) = {}
    <2>1. phase' = "output" /\ pending' = {}
      BY <1>1, <1>3, <1>8
    <2>2. ASSUME ParallelEnabled, NEW i \in run.planned
          PROVE  Tried(i) \/ i \in sky.deferred
      <3>1. CASE staged = {} /\ \A j \in run.planned : Succeeded(j)
        BY <3>1 DEF Succeeded, Tried
      <3>2. CASE /\ staged = sky.orders /\ Fits(staged, Lesser(MaxSwarm, ParallelMax))
                 /\ \A j \in run.planned :
                        Succeeded(j) \/ j \in sky.orders \cup sky.deferred
        <4>1. sky.orders = {}
          BY <1>6, <1>8, <2>2, <3>2, SentWhole
        <4> QED
          BY <3>2, <4>1 DEF Succeeded, Tried
      <3> QED
        BY <1>1, <3>1, <3>2 DEF Inv, Orders, DispatchInv
    <2>3. OutputInv'
      BY <1>1, <1>2, <2>2 DEF OutputInv, Tried
    <2>4. Orders'
      BY <2>1, <2>3 DEF Orders, PlanInv, DispatchInv, RoundOrders, WorkInv
    <2> QED
      BY <1>5, <1>7, <2>4
  <1>9. CASE Sends(staged) # {}
    <2>1. ParallelEnabled /\ staged # {} /\ phase' = "work"
      BY <1>3, <1>9 DEF Sends, First
    <2>2. /\ staged = sky.orders /\ Fits(staged, Lesser(MaxSwarm, ParallelMax))
          /\ \A i \in run.planned : Succeeded(i) \/ i \in sky.orders \cup sky.deferred
          /\ \A i \in sky.orders \cup sky.deferred : ~Succeeded(i)
          /\ sky.orders \cap sky.deferred = {}
      BY <1>1, <2>1 DEF Inv, Orders, DispatchInv
    <2>3. pending' = sky.orders
      BY <1>1, <1>6, <2>1, <2>2, SentWhole
    <2>4. RoundOrders' /\ WorkInv'
      BY <1>1, <1>2, <2>1, <2>2, <2>3 DEF RoundOrders, WorkInv, Succeeded, Tried
    <2>5. Orders'
      BY <2>1, <2>4 DEF Orders, PlanInv, DispatchInv, OutputInv
    <2> QED
      BY <1>5, <1>7, <2>5
  <1> QED
    BY <1>8, <1>9

LEMMA WorkStep ==
    ASSUME Inv, NEW i \in Ids, NEW ok \in BOOLEAN, NEW c \in {0, 1}, Work(i, ok, c)
    PROVE  (RoundInv /\ Orders /\ LogInv /\ ResultsInv)'
  <1> DEFINE outcome == IF ok THEN "ok" ELSE "failed"
             e == [id |-> i, ok |-> ok]
  <1>1. /\ phase = "work" /\ phase' = phase /\ sky' = sky /\ staged' = staged
        /\ i \in pending /\ pending' = pending \ {i} /\ log' = Append(log, e)
    BY DEF Work
  <1>4. /\ run'.planned = run.planned /\ run'.rounds = run.rounds
        /\ run'.last = [run.last EXCEPT ![i] = outcome]
    BY DEF Work, Inv, TypeOK, Runs
  <1>5. RoundInv'
    BY <1>1, <1>4 DEF Inv, RoundInv
  <1>6. run.last \in [Ids -> {"none", "ok", "failed"}]
    BY DEF Inv, TypeOK, Runs
  <1>7. /\ run'.last[i] = outcome /\ outcome # "none" /\ (outcome = "ok" <=> ok)
        /\ \A j \in Ids : j # i => run'.last[j] = run.last[j]
    BY <1>4, <1>6
  <1> HIDE DEF outcome
  <1>8. /\ Tried(i)' /\ (Succeeded(i)' <=> ok)
        /\ \A j \in Ids : j # i => (Tried(j)' <=> Tried(j)) /\ (Succeeded(j)' <=> Succeeded(j))
    BY <1>7 DEF Tried, Succeeded
  <1>9. run.planned \subseteq Ids /\ sky.orders \subseteq Ids /\ sky.deferred \subseteq Ids
           /\ pending \subseteq Ids
    BY DEF Inv, TypeOK, Runs, Skies
  <1>10. i \in sky.orders
    BY <1>1 DEF Inv, Orders, WorkInv
  <1>11. RoundOrders'
    <2>1. sky.orders \cap sky.deferred = {} /\ i \notin sky.deferred
      BY <1>1, <1>10 DEF Inv, Orders, RoundOrders
    <2> QED
      BY <1>1, <1>4, <1>8, <1>9, <1>10, <2>1 DEF Inv, Orders, RoundOrders
  <1>12. WorkInv'
    BY <1>1, <1>8, <1>9 DEF Inv, Orders, WorkInv
  <1>13. Orders'
    BY <1>1, <1>11, <1>12 DEF Orders, PlanInv, DispatchInv, OutputInv
  <1>14. LogInv'
    <2>1. log \in Logs /\ e \in Entries /\ e.id = i /\ e.ok = ok
      BY DEF Inv, TypeOK, Entries
    <2> DEFINE longer == Append(log, e)
    <2>2. /\ Len(log) \in Nat /\ Len(longer) = Len(log) + 1
          /\ longer[Len(log) + 1] = e
          /\ \A k \in 1..Len(log) : longer[k] = log[k]
      BY <2>1 DEF Logs
    <2>3. \A k : IsLast(longer, k) <=>
                 k = Len(log) + 1 \/ (IsLast(log, k) /\ log[k].id # i)
      BY <2>1, LogGrows
    <2> HIDE DEF longer, e
    <2>4. \A k : IsLast(log, k) => k \in 1..Len(log)
      BY DEF IsLast
    <2>5. ASSUME NEW j \in Ids, Tried(j)'
          PROVE  /\ \E k \in 1..Len(longer) : IsLast(longer, k) /\ longer[k].id = j
                 /\ \A k \in 1..Len(longer) : IsLast(longer, k) /\ longer[k].id = j
                        => (longer[k].ok <=> Succeeded(j)')
      <3>1. CASE j = i
        BY <1>8, <2>1, <2>2, <2>3, <2>4, <3>1
      <3>2. CASE j # i
        <4>1. Tried(j) /\ (Succeeded(j)' <=> Succeeded(j))
          BY <1>8, <2>5, <3>2
        <4>2. /\ \E k \in 1..Len(log) : IsLast(log, k) /\ log[k].id = j
              /\ \A k \in 1..Len(log) : IsLast(log, k) /\ log[k].id = j
                                             => (log[k].ok <=> Succeeded(j))
          BY <1>1, <4>1 DEF Inv, LogInv
        <4> QED
          BY <2>1, <2>2, <2>3, <2>4, <3>2, <4>1, <4>2
      <3> QED
        BY <3>1, <3>2
    <2> QED
      BY <1>1, <2>5 DEF LogInv, longer
  <1> QED
    BY <1>1, <1>5, <1>13, <1>14 DEF ResultsInv

LEMMA ReduceStep ==
    ASSUME Inv, NEW c \in {0, 1}, Reduce(c)
    PROVE  (RoundInv /\ Orders /\ LogInv /\ ResultsInv)'
  <1>1. /\ phase = "work" /\ phase' = "evaluate" /\ pending = {} /\ pending' = {}
        /\ sky'.results = Latest(log) /\ sky'.round = sky.round /\ log' = log
        /\ sky'.orders = sky.orders /\ sky'.deferred = sky.deferred
    BY DEF Reduce, Inv, TypeOK, Skies
  <1>2. run'.planned = run.planned /\ run'.rounds = run.rounds /\ run'.last = run.last
    BY DEF Reduce
  <1>3. RoundInv'
    BY <1>1, <1>2 DEF Inv, RoundInv
  <1>4. RoundOrders'
    BY <1>1, <1>2 DEF Inv, Orders, RoundOrders, Succeeded, Tried
  <1>5. Orders'
    BY <1>1, <1>4 DEF Orders, PlanInv, DispatchInv, WorkInv, OutputInv
  <1>6. LogInv'
    BY <1>1, <1>2, LogKept DEF Inv
  <1>7. ASSUME NEW i \in Ids, Tried(i)
        PROVE  /\ \E r \in Latest(log) : r.id = i
               /\ \A r \in Latest(log) : r.id = i => (r.ok <=> Succeeded(i))
    <2>1. /\ \E k \in 1..Len(log) : IsLast(log, k) /\ log[k].id = i
          /\ \A k \in 1..Len(log) : IsLast(log, k) /\ log[k].id = i
                                         => (log[k].ok <=> Succeeded(i))
      BY <1>1, <1>7 DEF Inv, LogInv
    <2>2. \A r : r \in Latest(log) <=> \E k : IsLast(log, k) /\ r = log[k]
      BY LatestOf DEF Inv, TypeOK
    <2>3. \A k : IsLast(log, k) => k \in 1..Len(log)
      BY DEF IsLast
    <2> QED
      BY <2>1, <2>2, <2>3
  <1>8. ResultsInv'
    BY <1>1, <1>2, <1>7 DEF ResultsInv, Tried, Succeeded
  <1> QED
    BY <1>3, <1>5, <1>6, <1>8

\* Every order of an evaluated round has been tried.
LEMMA RoundTried ==
    ASSUME Inv, phase = "evaluate"
    PROVE  /\ \A i \in sky.orders : Tried(i) /\ (i \in Failed <=> ~Succeeded(i))
           /\ Failed \subseteq sky.orders /\ pending = {}
  <1>1. pending = {}
    BY DEF Inv, Orders, WorkInv
  <1>2. sky.orders \subseteq Ids
    BY DEF Inv, TypeOK, Skies
  <1>3. ASSUME NEW i \in sky.orders PROVE Tried(i) /\ (i \in Failed <=> ~Succeeded(i))
    <2>1. Tried(i)
      BY <1>1 DEF Inv, Orders, RoundOrders
    <2>2. /\ \E r \in sky.results : r.id = i
          /\ \A r \in sky.results : r.id = i => (r.ok <=> Succeeded(i))
      BY <1>2, <2>1 DEF Inv, ResultsInv
    <2> QED
      BY <2>1, <2>2 DEF Failed
  <1> QED
    BY <1>1, <1>3 DEF Failed

LEMMA EvaluateStep ==
    ASSUME Inv, EvaluateFails \/ \E complete \in BOOLEAN, c \in {0, 1} : Evaluate(complete, c)
    PROVE  (RoundInv /\ Orders /\ LogInv /\ ResultsInv)'
  <1>1. phase = "evaluate" /\ log' = log /\ pending' = pending
    BY DEF EvaluateFails, Evaluate
  <1>2. run'.planned = run.planned /\ run'.rounds = run.rounds /\ run'.last = run.last
    BY DEF EvaluateFails, Evaluate
  <1>3. \/ /\ phase' = "output" /\ sky'.round = sky.round
           /\ sky'.deferred = sky.deferred /\ sky'.results = sky.results
        \/ /\ phase' = "plan" /\ sky'.round = sky.round + 1
           /\ sky'.unmet = UnmetNext /\ UnmetNext # {} /\ sky'.results = sky.results
    <2>1. CASE EvaluateFails
      BY <2>1 DEF EvaluateFails, Inv, TypeOK, Skies
    <2>2. ASSUME NEW complete \in BOOLEAN, NEW c \in {0, 1}, Evaluate(complete, c)
          PROVE  \/ /\ phase' = "output" /\ sky'.round = sky.round
                    /\ sky'.deferred = sky.deferred /\ sky'.results = sky.results
                 \/ /\ phase' = "plan" /\ sky'.round = sky.round + 1
                    /\ sky'.unmet = UnmetNext /\ UnmetNext # {}
                    /\ sky'.results = sky.results
      BY <2>2 DEF Evaluate, Replan, NextRound, Inv, TypeOK, Skies
    <2> QED
      BY <2>1, <2>2
  <1>4. run.rounds \in Nat /\ sky.round \in Nat /\ run.rounds <= sky.round
    BY <1>1 DEF Inv, RoundInv, TypeOK, Runs, Skies
  <1>5. RoundInv'
    BY <1>2, <1>3, <1>4 DEF Inv, RoundInv
  <1>6. LogInv' /\ ResultsInv'
    BY <1>1, <1>2, <1>3, LogKept DEF Inv, ResultsInv, Tried, Succeeded
  <1>7. /\ \A i \in run.planned : Succeeded(i) \/ i \in sky.orders \cup sky.deferred
        /\ \A i \in sky.deferred : ~Succeeded(i)
    BY <1>1 DEF Inv, Orders, RoundOrders
  <1>8. /\ \A i \in sky.orders : Tried(i) /\ (i \in Failed <=> ~Succeeded(i))
        /\ Failed \subseteq sky.orders /\ pending' = {}
    BY <1>1, RoundTried
  <1>9. OutputInv'
    BY <1>2, <1>3, <1>7, <1>8 DEF OutputInv, Tried, Succeeded
  <1>10. PlanInv'
    BY <1>2, <1>3, <1>7, <1>8 DEF PlanInv, UnmetNext, Tried, Succeeded
  <1>11. Orders'
    BY <1>3, <1>8, <1>9, <1>10 DEF Orders, DispatchInv, RoundOrders, WorkInv
  <1> QED
    BY <1>5, <1>6, <1>11

LEMMA EndStep ==
    ASSUME Inv, Output \/ Abort
    PROVE  (RoundInv /\ Orders /\ LogInv /\ ResultsInv)'
  <1>1. phase' = "idle" /\ run' = run
    BY DEF Output, Abort
  <1>2. pending' = {}
    BY DEF Output, Abort, Inv, Orders, WorkInv
  <1>3. RoundInv'
    BY <1>1 DEF Inv, RoundInv
  <1>4. Orders'
    BY <1>1, <1>2 DEF Orders, PlanInv, DispatchInv, RoundOrders, WorkInv, OutputInv
  <1> QED
    BY <1>1, <1>3, <1>4 DEF LogInv, ResultsInv

LEMMA StepInv == Inv /\ [Next]_vars => Inv'
  <1> SUFFICES ASSUME Inv, [Next]_vars
               PROVE  (RoundInv /\ Orders /\ LogInv /\ ResultsInv)'
    BY StepTyped DEF Inv
  <1>1. CASE UNCHANGED vars
    BY <1>1 DEF vars, Inv, RoundInv, Orders, PlanInv, DispatchInv, RoundOrders, WorkInv,
                OutputInv, LogInv, ResultsInv, Tried, Succeeded
  <1>2. CASE Next
    BY <1>2, StartStep, PlanStep, DispatchStep, WorkStep, ReduceStep, EvaluateStep, EndStep
    DEF Next, Node
  <1> QED
    BY <1>1, <1>2

LEMMA Invariant == Spec => []Inv
  BY InitInv, StepInv, PTL DEF Spec

-----------------------------------------------------------------------------
(* What follows from the invariant. *)

\* The loop that dispatches, evaluates and plans again is bounded by
\* skynet_max_rounds in every turn, for every number of turns and orders.
THEOREM RoundsAreBounded == Spec => []RoundsBounded
  <1>1. Inv => RoundsBounded
    BY DEF Inv, RoundInv, RoundsBounded
  <1> QED
    BY <1>1, Invariant, PTL

\* No plan, cap, failure or re-plan loses an order of the turn (RF-SKY-03).
THEOREM NoOrderIsLost == Spec => []NoOrderLost
  <1>1. ASSUME Inv PROVE NoOrderLost
    <2> SUFFICES ASSUME ParallelEnabled, NEW i \in run.planned
                 PROVE  /\ phase = "plan" => Succeeded(i) \/ i \in sky.unmet
                        /\ phase \in {"dispatch", "work", "evaluate"} =>
                             Succeeded(i) \/ i \in sky.orders \cup sky.deferred
                        /\ phase = "output" => Tried(i) \/ i \in sky.deferred
      BY DEF NoOrderLost, Succeeded, Tried
    <2>1. phase = "plan" => Succeeded(i) \/ i \in sky.unmet
      BY <1>1 DEF Inv, Orders, PlanInv
    <2>2. phase = "dispatch" => Succeeded(i) \/ i \in sky.orders \cup sky.deferred
      BY <1>1 DEF Inv, Orders, DispatchInv
    <2>3. phase \in {"work", "evaluate"} =>
             Succeeded(i) \/ i \in sky.orders \cup sky.deferred
      BY <1>1 DEF Inv, Orders, RoundOrders
    <2>4. phase = "output" => Tried(i) \/ i \in sky.deferred
      BY <1>1 DEF Inv, Orders, OutputInv
    <2> QED
      BY <2>1, <2>2, <2>3, <2>4
  <1> QED
    BY <1>1, Invariant, PTL

\* The result reported for an order is that of its latest attempt, however many
\* attempts and earlier turns have written to the results channel.
THEOREM LatestAttemptWins == Spec => []LatestWins
  <1>1. ASSUME Inv, phase \in {"evaluate", "output"}, NEW i \in Ids, run.last[i] # "none"
        PROVE  {r.ok : r \in {r \in sky.results : r.id = i}} = {run.last[i] = "ok"}
    <2>1. /\ \E r \in sky.results : r.id = i
          /\ \A r \in sky.results : r.id = i => (r.ok <=> Succeeded(i))
      BY <1>1 DEF Inv, ResultsInv, Tried
    <2>2. \A r \in sky.results : r.ok \in BOOLEAN
      BY <1>1 DEF Inv, TypeOK, Skies, Entries
    <2>3. \A r \in sky.results : r.id = i => r.ok = (run.last[i] = "ok")
      BY <2>1, <2>2 DEF Succeeded
    <2> QED
      BY <2>1, <2>3
  <1>2. Inv => LatestWins
    BY <1>1 DEF LatestWins
  <1> QED
    BY <1>2, Invariant, PTL

\* No turn dispatches an order again once it has succeeded: the re-plan carries
\* failed and deferred orders only.
THEOREM NoOrderRunsTwice == Spec => NeverTwice
  <1>1. ASSUME Inv, Next, NEW i \in Ids, turn' = turn, Succeeded(i)
        PROVE  run'.sends[i] = run.sends[i]
    <2>1. run \in Runs /\ turn \in 0..MaxTurns /\ staged \in SUBSET Ids
      BY <1>1 DEF Inv, TypeOK
    <2>3. CASE StartTurn
      BY <1>1, <2>1, <2>3 DEF StartTurn
    <2>4. ASSUME NEW n \in Ids, NEW c \in {0, 1}, PlanGoal(n, c)
          PROVE  run'.sends = run.sends
      BY <2>1, <2>4 DEF PlanGoal, Runs
    <2>6. CASE Dispatch
      <3>1. i \notin Sends(staged)
        <4>1. Sends(staged) \subseteq staged
          BY <2>1, SendsStaged
        <4>2. \A j \in staged : ~Succeeded(j)
          BY <1>1, <2>6 DEF Dispatch, Inv, Orders, DispatchInv
        <4> QED
          BY <1>1, <4>1, <4>2
      <3>2. CASE Sends(staged) = {}
        BY <2>6, <3>2 DEF Dispatch
      <3>3. CASE Sends(staged) # {}
        <4> DEFINE sends == [j \in Ids |-> IF j \in Sends(staged) THEN run.sends[j] + 1
                                                                ELSE run.sends[j]]
        <4>1. run' = [run EXCEPT !.rounds = run.rounds + 1, !.sends = sends]
          BY <2>6, <3>3 DEF Dispatch
        <4>2. sends[i] = run.sends[i]
          BY <3>1
        <4> HIDE DEF sends
        <4>3. run'.sends = sends
          BY <2>1, <4>1 DEF Runs
        <4> QED
          BY <4>2, <4>3
      <3> QED
        BY <3>2, <3>3
    <2>7. ASSUME NEW j \in Ids, NEW ok \in BOOLEAN, NEW c \in {0, 1}, Work(j, ok, c)
          PROVE  run'.sends = run.sends
      BY <2>1, <2>7 DEF Work, Runs
    <2>8. CASE \E c \in {0, 1} : Reduce(c)
      BY <2>8 DEF Reduce
    <2>9. CASE EvaluateFails \/ \E g \in {sky.goal, Goal}, c \in {0, 1} : PlanFails(g, c)
      BY <2>9 DEF EvaluateFails, PlanFails
    <2>10. CASE \E complete \in BOOLEAN, c \in {0, 1} : Evaluate(complete, c)
      BY <2>10 DEF Evaluate
    <2>11. CASE PlanUnmet \/ Output \/ Abort
      BY <2>11 DEF PlanUnmet, Output, Abort
    <2> QED
      BY <1>1, <2>3, <2>4, <2>6, <2>7, <2>8, <2>9, <2>10, <2>11 DEF Next, Node
  <1>2. Inv /\ [Next]_vars => [\A i \in Ids : turn' = turn /\ run.last[i] = "ok"
                                             => run'.sends[i] = run.sends[i]]_vars
    BY <1>1 DEF Succeeded
  <1> QED
    BY <1>2, Invariant, PTL DEF Spec, NeverTwice
=============================================================================
