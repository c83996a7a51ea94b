--------------------------- MODULE SupervisorTurn ---------------------------
(***************************************************************************)
(* The flat supervisor graph of prismal/agents/graph.py on one checkpointed *)
(* thread, over several user turns.  A turn is one ainvoke: the supervisor *)
(* (agents/supervisor.py) chooses a route, the specialist runs and returns *)
(* to the supervisor, and the parallel branch (agents/parallel_research.py *)
(* over agents/patterns/parallel.py) fans out to one worker per pending    *)
(* task and back in.  A human-in-the-loop interrupt ends the ainvoke in    *)
(* the middle of a node.  The agent state survives from one turn to the    *)
(* next through the checkpointer.                                          *)
(*                                                                         *)
(* Messages are abstracted to what the routing reads: the intent of the    *)
(* last human message and how many AI messages follow it.  The model's     *)
(* choices (the LLM's route, the typed decision's route) are               *)
(* nondeterministic, and so are the settings, which are fixed when the     *)
(* graph is built.  Context compaction is off, its default.                *)
(***************************************************************************)
EXTENDS Naturals, FiniteSets, Sequences

CONSTANTS
    PlainMembers,        \* single nodes that write their own name to
                         \* current_agent: critic, rag_agent, cron_manager, ...
    Pipelines,           \* subgraphs of MEMBERS: dev_pipeline, ml_pipeline,
                         \* financial_analyst
    AdvancedMembers,     \* ADVANCED_MEMBERS: patterns and domain subgraphs
    Layers,              \* members with a toggle of their own: kokoro, skynet,
                         \* multimodal_pipeline, blind_review_pipeline
    Anonymous,           \* members that leave current_agent alone: all of
                         \* AdvancedMembers, kokoro, multimodal_pipeline
    HitlMembers,         \* members that may interrupt for a human: subgraphs
                         \* built with human_approval_node, and cua
    NestedAnswers,       \* AI messages a subgraph's inner nodes may append
    IntentRoutes,        \* names match_intent can return
    DispatcherWorkers,   \* max_workers of research_dispatcher (10)
    ParallelMaxWorkers,  \* settings.parallel_max_workers
    HistoryWindow,       \* _HISTORY_WINDOW (6)
    PlanSizes,           \* sizes of the plans the planner may return
    RecursionLimit,      \* LangGraph's bound on supersteps per ainvoke (25)
    MaxTurns             \* bound: user turns explored

None == "none"
NoIntent == "no_intent"

\* Stands for the name of a node inside a subgraph: reviewer, synthesis, ...
Inner == "inner"

MultiRoute == {"planner", "researcher", "parallel_researcher"}

\* Places that are not a specialist's node.
Places == {"supervisor", "END", None, "idle", "workers", "research_aggregator", Inner}

\* Subgraphs over AgentState whose inner nodes write their own names; the
\* swarm does so unless its first planning fails (skynet/plan_node.py:47-58).
Nested == Pipelines \cup (Layers \ (Anonymous \cup {"skynet"}))

\* Members after which current_agent may still be the supervisor's.
Unnamed == Anonymous \cup {"skynet"}

SupervisorTurnAssumption ==
    /\ AdvancedMembers \subseteq Anonymous
    /\ Anonymous \subseteq AdvancedMembers \cup Layers
    /\ (PlainMembers \cup MultiRoute \cup {"codeact", "coder", "cua"} \cup Pipelines)
         \cap (Anonymous \cup Layers \cup {"skynet"}) = {}
    /\ {"codeact", "coder", "cua"} \cap (PlainMembers \cup Pipelines) = {}
    /\ MultiRoute \cap Pipelines = {}
    /\ HitlMembers \subseteq Nested \cup {"cua"}
    /\ NestedAnswers \subseteq Nat \ {0}
    /\ IntentRoutes \cap {"END", "cua"} = {}
    /\ IntentRoutes \cap Pipelines = {}
    /\ DispatcherWorkers \in Nat \ {0}
    /\ ParallelMaxWorkers \in Nat \ {0}
    /\ HistoryWindow \in Nat \ {0}
    /\ PlanSizes \subseteq Nat
    /\ RecursionLimit \in Nat /\ MaxTurns \in Nat
    /\ (Places \cup {NoIntent})
         \cap (PlainMembers \cup Pipelines \cup AdvancedMembers \cup Layers) = {}

ASSUME SupervisorTurnAssumption

\* The settings read when the graph is built and at each route.
Settings ==
    [subgraphs : BOOLEAN, codeact : BOOLEAN, cua : BOOLEAN, parallel : BOOLEAN,
     layers : SUBSET Layers]

Lesser(m, n) == IF m <= n THEN m ELSE n

WorkerCap == Lesser(DispatcherWorkers, ParallelMaxWorkers)

Tasks == (1..MaxTurns) \X Nat

VARIABLES
    settings,        \* the process's Settings
    node,            \* where control is; "idle" between two ainvoke calls
    steps,           \* supersteps of this ainvoke
    turn,            \* user turns started
    intent,          \* match_intent of the last human message
    sinceHuman,      \* AI messages after the last human message
    currentAgent,    \* state["current_agent"]
    nextAgent,       \* state["next_agent"]
    pendingTasks,    \* state["pending_tasks"]: <<turn of the plan, index>>
    parallelResults, \* state["parallel_results"]: [ran |-> turn, task |-> task]
    dispatched,      \* tasks sent to the workers of the current superstep
    paused,          \* the node whose interrupt waits for a human
    routed,          \* history: the specialists routed to in this turn
    missed,          \* history: the route of this turn that had no node
    outcome          \* what the latest ainvoke gave its caller

threadVars == <<currentAgent, nextAgent, pendingTasks, parallelResults>>
vars == <<settings, node, steps, turn, intent, sinceHuman, currentAgent, nextAgent,
          pendingTasks, parallelResults, dispatched, paused, routed, missed, outcome>>

\* MEMBERS plus what the settings switch on; cua, codeact and the pipelines
\* are always in MEMBERS, whatever the settings say.
ValidRoutes ==
    PlainMembers \cup MultiRoute \cup {"codeact", "coder", "cua", "END"}
        \cup Pipelines \cup settings.layers
        \cup (IF settings.subgraphs THEN AdvancedMembers ELSE {})

\* The nodes build_supervisor_graph adds, the keys of its conditional edges.
Registered ==
    PlainMembers \cup MultiRoute \cup {"codeact", "coder"} \cup settings.layers
        \cup (IF settings.cua THEN {"cua"} ELSE {})
        \cup (IF settings.subgraphs THEN Pipelines \cup AdvancedMembers ELSE {})

Specialists == ValidRoutes \ {"END", "parallel_researcher"}

Init ==
    /\ settings \in Settings
    /\ node = "idle"
    /\ steps = 0
    /\ turn = 0
    /\ intent = NoIntent
    /\ sinceHuman = 0
    /\ currentAgent = "supervisor"
    /\ nextAgent = None
    /\ pendingTasks = {}
    /\ parallelResults = {}
    /\ dispatched = {}
    /\ paused = None
    /\ routed = <<>>
    /\ missed = None
    /\ outcome = "none"

-----------------------------------------------------------------------------
(* The host: one more message on the thread, or the human's answer to an     *)
(* interrupt.                                                                *)

\* A new message starts at the supervisor; an interrupt left open is dropped.
UserMessage(i) ==
    /\ node = "idle"
    /\ turn < MaxTurns
    /\ turn' = turn + 1
    /\ node' = "supervisor"
    /\ steps' = 0
    /\ intent' = i
    /\ sinceHuman' = 0
    /\ dispatched' = {}
    /\ paused' = None
    /\ routed' = <<>>
    /\ missed' = None
    /\ outcome' = "none"
    /\ UNCHANGED <<settings, threadVars>>

\* Command(resume=...): the interrupted node runs again, in the same turn.
Resume ==
    /\ node = "idle"
    /\ paused # None
    /\ node' = paused
    /\ steps' = 0
    /\ paused' = None
    /\ outcome' = "none"
    /\ UNCHANGED <<settings, turn, intent, sinceHuman, threadVars, dispatched,
                   routed, missed>>

-----------------------------------------------------------------------------
(* supervisor_node and supervisor_router. *)

\* The graph may take one more superstep.
Step(where) ==
    /\ node = where
    /\ steps < RecursionLimit
    /\ steps' = steps + 1

SpecialistAnswered == sinceHuman > 0 /\ currentAgent # "supervisor"

ShortCircuit == sinceHuman < HistoryWindow /\ intent \in ValidRoutes

\* A variant of Overridden that forgets the cua downgrade.
OverriddenWithoutCua(route) ==
    CASE route = "codeact" /\ ~settings.codeact -> "coder"
      [] /\ route = "researcher"
         /\ Cardinality(pendingTasks) > 1
         /\ settings.parallel -> "parallel_researcher"
      [] OTHER -> route

\* _apply_routing_overrides: downgrades first, each returning early.
Overridden(route) ==
    CASE route = "codeact" /\ ~settings.codeact -> "coder"
      [] route = "cua" /\ ~settings.cua -> "researcher"
      [] /\ route = "researcher"
         /\ Cardinality(pendingTasks) > 1
         /\ settings.parallel -> "parallel_researcher"
      [] OTHER -> route

\* A variant of EndTurn in which the direct answer is never appended.
EndTurnUnanswered(answers) ==
    /\ currentAgent' = "supervisor"
    /\ nextAgent' = None
    /\ node' = "idle"
    /\ outcome' = "answered"
    /\ UNCHANGED <<settings, turn, intent, sinceHuman, pendingTasks, parallelResults,
                   dispatched, paused, routed, missed>>

\* A variant of EndTurn that checkpoints the route it ended on.
EndTurnNamed(answers) ==
    /\ currentAgent' = "supervisor"
    /\ nextAgent' = "END"
    /\ sinceHuman' = sinceHuman + answers
    /\ node' = "idle"
    /\ outcome' = "answered"
    /\ UNCHANGED <<settings, turn, intent, pendingTasks, parallelResults, dispatched,
                   paused, routed, missed>>

\* The END edge: the ainvoke returns.
EndTurn(answers) ==
    /\ currentAgent' = "supervisor"
    /\ nextAgent' = None
    /\ sinceHuman' = sinceHuman + answers
    /\ node' = "idle"
    /\ outcome' = "answered"
    /\ UNCHANGED <<settings, turn, intent, pendingTasks, parallelResults, dispatched,
                   paused, routed, missed>>

\* A conditional edge to a node the graph does not have raises, and the
\* supervisor's update is not checkpointed.
Goto(route) ==
    IF route \in Registered
    THEN /\ currentAgent' = "supervisor"
         /\ nextAgent' = route
         /\ node' = route
         /\ routed' = Append(routed, route)
         /\ UNCHANGED <<settings, turn, intent, sinceHuman, pendingTasks,
                        parallelResults, dispatched, paused, missed, outcome>>
    ELSE /\ node' = "idle"
         /\ outcome' = "failed"
         /\ missed' = route
         /\ UNCHANGED <<settings, turn, intent, sinceHuman, threadVars, dispatched,
                        paused, routed>>

\* _loop_break_decision: the last message is a specialist's answer.
LoopBreak ==
    /\ Step("supervisor")
    /\ SpecialistAnswered
    /\ EndTurn(0)

\* _intent_short_circuit: the route matched on the last human message of the
\* window, without the overrides.
IntentRoute ==
    /\ Step("supervisor")
    /\ ~SpecialistAnswered
    /\ ShortCircuit
    /\ Goto(intent)

\* The typed decision or the LLM answers with a route; END is answered
\* directly when the last message is the user's.
ModelRoute(route) ==
    /\ Step("supervisor")
    /\ ~SpecialistAnswered
    /\ ~ShortCircuit
    /\ IF Overridden(route) = "END"
       THEN EndTurn(IF sinceHuman = 0 THEN 1 ELSE 0)
       ELSE Goto(Overridden(route))

-----------------------------------------------------------------------------
(* Specialists, each with a direct edge back to the supervisor. *)

\* A variant of AgentsAfter: coder_node forgets to name itself.
AgentsAfterAnonymousCoder(m) ==
    CASE m \in Anonymous \cup {"coder"} -> {currentAgent}
      [] m = "skynet" -> {currentAgent, Inner}
      [] m \in Nested -> {Inner}
      [] OTHER -> {m}

\* A variant of AgentsAfter: cua_node forgets to name itself.
AgentsAfterAnonymousCua(m) ==
    CASE m \in Anonymous \cup {"cua"} -> {currentAgent}
      [] m = "skynet" -> {currentAgent, Inner}
      [] m \in Nested -> {Inner}
      [] OTHER -> {m}

\* What current_agent may hold when m's node returns.
AgentsAfter(m) ==
    CASE m \in Anonymous -> {currentAgent}
      [] m = "skynet" -> {currentAgent, Inner}
      [] m \in Nested -> {Inner}
      [] OTHER -> {m}

\* How many AI messages m's node may append.
AnswersOf(m) == IF m \in Nested THEN NestedAnswers ELSE {1}

Specialist(m) ==
    /\ Step(m)
    /\ m # "planner"
    /\ currentAgent' \in AgentsAfter(m)
    /\ \E n \in AnswersOf(m) : sinceHuman' = sinceHuman + n
    /\ node' = "supervisor"
    /\ UNCHANGED <<settings, turn, intent, nextAgent, pendingTasks, parallelResults,
                   dispatched, paused, routed, missed, outcome>>

\* interrupt(): the ainvoke returns from the middle of the node, nothing of
\* which reaches the parent's channels yet.
Pause(m) ==
    /\ Step(m)
    /\ node' = "idle"
    /\ paused' = m
    /\ outcome' = "paused"
    /\ UNCHANGED <<settings, turn, intent, sinceHuman, threadVars, dispatched,
                   routed, missed>>

\* planner_node: the steps of the plan become the pending tasks.
Planner(n) ==
    /\ Step("planner")
    /\ currentAgent' = "planner"
    /\ pendingTasks' = {turn} \X (1..n)
    /\ sinceHuman' = sinceHuman + 1
    /\ node' = "supervisor"
    /\ UNCHANGED <<settings, turn, intent, nextAgent, parallelResults, dispatched,
                   paused, routed, missed, outcome>>

-----------------------------------------------------------------------------
(* The parallel research branch. *)

\* The tasks the dispatcher sends: the first WorkerCap of the plan.
Limited(tasks) == {t \in tasks : t[2] <= WorkerCap}

\* parallel_researcher_node, then research_dispatcher on its edges.
Dispatch ==
    /\ Step("parallel_researcher")
    /\ currentAgent' = "parallel_researcher"
    /\ IF settings.parallel /\ pendingTasks # {}
       THEN dispatched' = Limited(pendingTasks) /\ node' = "workers"
       ELSE dispatched' = {} /\ node' = "research_aggregator"
    /\ UNCHANGED <<settings, turn, intent, sinceHuman, nextAgent, pendingTasks,
                   parallelResults, paused, routed, missed, outcome>>

\* The parallel_researcher_worker tasks are one superstep of LangGraph: their
\* entries reach the channel together, when the last has returned.
Workers ==
    /\ Step("workers")
    /\ parallelResults' =
         parallelResults \cup {[ran |-> turn, task |-> t] : t \in dispatched}
    /\ node' = "research_aggregator"
    /\ UNCHANGED <<settings, turn, intent, sinceHuman, currentAgent, nextAgent,
                   pendingTasks, dispatched, paused, routed, missed, outcome>>

\* research_aggregator_node: one AIMessage over the whole channel.
Aggregate ==
    /\ Step("research_aggregator")
    /\ currentAgent' = "research_aggregator"
    /\ sinceHuman' = sinceHuman + 1
    /\ node' = "supervisor"
    /\ UNCHANGED <<settings, turn, intent, nextAgent, pendingTasks, parallelResults,
                   dispatched, paused, routed, missed, outcome>>

-----------------------------------------------------------------------------
(* An exception leaves the graph: a provider or a tool failed in a node that
   calls one, or the superstep bound was reached.  The checkpoint keeps the
   last completed superstep. *)

CallsModel ==
    \/ node = "supervisor" /\ ~SpecialistAnswered /\ ~ShortCircuit
    \/ node \in Specialists \cup {"workers"}

Raise ==
    /\ node # "idle"
    /\ CallsModel \/ steps = RecursionLimit
    /\ node' = "idle"
    /\ outcome' = "failed"
    /\ UNCHANGED <<settings, steps, turn, intent, sinceHuman, threadVars, dispatched,
                   paused, routed, missed>>

-----------------------------------------------------------------------------

Supervise == LoopBreak \/ IntentRoute \/ \E r \in ValidRoutes : ModelRoute(r)

RunSpecialist ==
    \/ \E m \in Specialists : Specialist(m)
    \/ \E m \in HitlMembers : Pause(m)
    \/ \E n \in PlanSizes : Planner(n)

RunParallel == Dispatch \/ Workers \/ Aggregate

Next ==
    \/ \E i \in IntentRoutes \cup {NoIntent} : UserMessage(i)
    \/ Resume
    \/ Supervise
    \/ RunSpecialist
    \/ RunParallel
    \/ Raise

\* LangGraph runs the next node as soon as a superstep ends, and every node
\* returns, interrupts or raises (calls are bounded by timeouts).
Fairness == WF_vars(Supervise) /\ WF_vars(RunSpecialist) /\ WF_vars(RunParallel)
            /\ WF_vars(node # "idle" /\ steps = RecursionLimit /\ Raise)

Spec == Init /\ [][Next]_vars /\ Fairness

-----------------------------------------------------------------------------
(* Properties. *)

\* Every variable keeps its shape: the agent names are routes, nodes or names
\* of inner nodes, the channels hold tasks of plans that were made.
TypeOK ==
    /\ settings \in Settings
    /\ node \in Registered \cup {"idle", "supervisor", "workers", "research_aggregator"}
    /\ steps \in 0..RecursionLimit
    /\ turn \in 0..MaxTurns
    /\ intent \in IntentRoutes \cup {NoIntent}
    /\ sinceHuman \in Nat
    /\ currentAgent \in Registered \cup {"supervisor", "research_aggregator", Inner}
    /\ nextAgent \in Registered \cup {None}
    /\ pendingTasks \subseteq Tasks
    /\ parallelResults \subseteq [ran : 1..MaxTurns, task : Tasks]
    /\ dispatched \subseteq Tasks
    /\ paused \in Registered \cup {None}
    /\ routed \in Seq(Registered)
    /\ missed \in ValidRoutes \cup {None}
    /\ outcome \in {"none", "answered", "failed", "paused"}

\* The supervisor never routes to two specialists for one user request, as
\* _loop_break_decision says (supervisor.py:641).  The code breaks it: a
\* member that leaves current_agent alone is not recognised as having answered.
OneSpecialistPerTurn == Len(routed) <= 1

\* A request goes on to another specialist only after a member that does not
\* name itself: whoever writes current_agent is the last one routed to in its
\* turn, whatever earlier, failed, interrupted or resumed turns left in the
\* checkpoint and whatever the settings (_loop_break_decision, supervisor.py:634).
NamedIsLast == \A i \in 1..Len(routed) : i < Len(routed) => routed[i] \in Unnamed

\* An ainvoke that returns has answered: by the supervisor itself, once, when
\* it routed to nobody, otherwise with at least one AI message per specialist,
\* and exactly one when none of them is a subgraph whose inner nodes each
\* append theirs.  A current_agent left by an earlier turn never ends a request
\* unanswered, and the direct answer (_build_direct_answer, supervisor.py:815)
\* never doubles a specialist's.
AnsweredByTheRouted ==
    outcome = "answered" =>
        IF routed = <<>> THEN sinceHuman = 1
        ELSE /\ sinceHuman >= Len(routed)
             /\ routed[Len(routed)] \notin Nested => sinceHuman = Len(routed)

\* The cast of supervisor_router (supervisor.py:1342) is safe but for one case:
\* a route without a node is a pipeline of MEMBERS picked while enable_subgraphs
\* is off.  Disabled members never reach the edge, nor does any matched intent.
OnlyPipelinesMissed == missed # None => missed \in Pipelines /\ ~settings.subgraphs

Contract == INSTANCE TurnContract WITH
    MaxDelegations <- (RecursionLimit + 1) \div 2,
    phase <- IF node = "idle" THEN "waiting" ELSE "serving",
    delegations <- Len(routed),
    verdict <- outcome

\* The graph implements the contract of a turn: a request is handed on at most
\* once per two supersteps, an interrupt and its resumption included, and every
\* ainvoke ends.
ImplementsTurnContract == Contract!Spec
=============================================================================
