----------------------- MODULE SupervisorTurn_proofs -----------------------
(***************************************************************************)
(* Proofs about the supervisor graph for every set of members, every plan  *)
(* size, every setting of the process and any number of turns.             *)
(***************************************************************************)
EXTENDS SupervisorTurn, TLAPS

\* The types, and that a turn is being served whenever control is in the graph
\* or an interrupt waits.
Typed ==
    /\ TypeOK
    /\ node # "idle" \/ paused # None => turn \in 1..MaxTurns
    /\ paused \in HitlMembers \cup {None}

\* The settings are read once: neither the routes nor the nodes change.
LEMMA SettingsKept ==
    ASSUME [Next]_vars
    PROVE  settings' = settings /\ Registered' = Registered /\ ValidRoutes' = ValidRoutes
<1>1. settings' = settings
  <2>1. ASSUME NEW r, Goto(r) PROVE settings' = settings
    BY <2>1 DEF Goto
  <2>2. ASSUME NEW n, EndTurn(n) PROVE settings' = settings
    BY <2>2 DEF EndTurn
  <2>3. CASE Supervise
    BY <2>3, <2>1, <2>2 DEF Supervise, LoopBreak, IntentRoute, ModelRoute
  <2>4. CASE RunSpecialist \/ RunParallel
    BY <2>4 DEF RunSpecialist, RunParallel, Specialist, Pause, Planner, Dispatch,
                Workers, Aggregate
  <2>5. CASE Resume \/ Raise \/ (\E i \in IntentRoutes \cup {NoIntent} : UserMessage(i))
    BY <2>5 DEF Resume, Raise, UserMessage
  <2>6. CASE UNCHANGED vars
    BY <2>6 DEF vars
  <2> QED BY <2>3, <2>4, <2>5, <2>6 DEF Next
<1> QED BY <1>1 DEF Registered, ValidRoutes

\* No route to a node is the name of a place that is not a specialist's node.
LEMMA RoutesAreNodes ==
    ASSUME settings \in Settings
    PROVE  /\ Registered \cap Places = {}
           /\ Registered \subseteq ValidRoutes
           /\ MultiRoute \cup {"coder"} \subseteq Registered
BY SupervisorTurnAssumption
   DEF SupervisorTurnAssumption, Registered, ValidRoutes, MultiRoute, Places, None,
       Inner, Settings

\* The type invariant is inductive with the turn's number.
LEMMA TypedAlways == Spec => []Typed
<1>1. Init => Typed
  BY SupervisorTurnAssumption
     DEF Init, Typed, TypeOK, SupervisorTurnAssumption
<1>2. Typed /\ [Next]_vars => Typed'
  <2> SUFFICES ASSUME Typed, [Next]_vars PROVE Typed'
    OBVIOUS
  <2>0. /\ settings' = settings /\ Registered' = Registered /\ ValidRoutes' = ValidRoutes
        /\ Registered \cap Places = {}
        /\ Registered \subseteq ValidRoutes
        /\ MultiRoute \cup {"coder"} \subseteq Registered
    BY SettingsKept, RoutesAreNodes DEF Typed, TypeOK
  <2> USE SupervisorTurnAssumption, <2>0
      DEF Typed, TypeOK, SupervisorTurnAssumption, threadVars, Places
  <2>1. ASSUME NEW i \in IntentRoutes \cup {NoIntent}, UserMessage(i) PROVE Typed'
    BY <2>1 DEF UserMessage
  <2>2. CASE Resume
    BY <2>2 DEF Resume
  <2>3. ASSUME NEW r \in ValidRoutes, Step("supervisor"), Goto(r) PROVE Typed'
    BY <2>3 DEF Step, Goto
  <2>4. ASSUME NEW n \in Nat, Step("supervisor"), EndTurn(n) PROVE Typed'
    BY <2>4 DEF Step, EndTurn
  <2>5. CASE LoopBreak
    BY <2>4, <2>5 DEF LoopBreak
  <2>6. CASE IntentRoute
    BY <2>3, <2>6 DEF IntentRoute, ShortCircuit
  <2>7. ASSUME NEW r \in ValidRoutes, ModelRoute(r) PROVE Typed'
    <3>1. Overridden(r) \in ValidRoutes
      BY DEF Overridden, MultiRoute
    <3> QED BY <2>3, <2>4, <2>7, <3>1 DEF ModelRoute
  <2>8. ASSUME NEW m \in Specialists, Specialist(m) PROVE Typed'
    <3>0. ValidRoutes \cap {"idle", "supervisor", "workers", "research_aggregator"} = {}
      BY DEF ValidRoutes, MultiRoute, Settings
    <3>1. m \in Registered
      BY <2>8, <3>0 DEF Specialist, Step, Specialists
    <3>2. currentAgent' \in Registered \cup {"supervisor", "research_aggregator", Inner}
      BY <2>8, <3>1 DEF Specialist, AgentsAfter
    <3>3. sinceHuman' \in Nat
      BY <2>8 DEF Specialist, AnswersOf
    <3> QED BY <2>8, <3>1, <3>2, <3>3 DEF Specialist, Step
  <2>9. ASSUME NEW m \in HitlMembers, Pause(m) PROVE Typed'
    <3>1. m \in Registered
      BY <2>9 DEF Pause, Step, Nested
    <3> QED BY <2>9, <3>1 DEF Pause, Step
  <2>10. ASSUME NEW n \in PlanSizes, Planner(n) PROVE Typed'
    <3>1. ({turn} \X (1..n)) \subseteq Tasks
      BY <2>10 DEF Planner, Step, Tasks
    <3> QED BY <2>10, <3>1 DEF Planner, Step, MultiRoute
  <2>11. CASE Dispatch
    BY <2>11 DEF Dispatch, Step, Limited, MultiRoute
  <2>12. CASE Workers
    <3>1. {[ran |-> turn, task |-> t] : t \in dispatched}
            \subseteq [ran : 1..MaxTurns, task : Tasks]
      BY <2>12 DEF Workers, Step
    <3> QED BY <2>12, <3>1 DEF Workers, Step
  <2>13. CASE Aggregate
    BY <2>13 DEF Aggregate, Step
  <2>14. CASE Raise
    BY <2>14 DEF Raise
  <2>15. CASE UNCHANGED vars
    BY <2>15 DEF vars
  <2> QED
    BY <2>1, <2>2, <2>5, <2>6, <2>7, <2>8, <2>9, <2>10, <2>11, <2>12, <2>13, <2>14, <2>15
       DEF Next, Supervise, RunSpecialist, RunParallel
<1> QED BY <1>1, <1>2, PTL DEF Spec

\* Every checkpointed channel of AgentState keeps its shape through routing,
\* fan-out, interrupts, exceptions and new turns.
THEOREM TypeCorrect == Spec => []TypeOK
<1>1. Typed => TypeOK
  BY DEF Typed
<1> QED BY TypedAlways, <1>1, PTL

-----------------------------------------------------------------------------
(* Where a turn stands.  Control comes back to the supervisor either with a *)
(* named answer, which the loop breaker sees, or with only members routed   *)
(* to that may leave current_agent alone; each of these took two supersteps. *)
(* A resumed turn has its steps counted anew, but only members that name    *)
(* themselves interrupt.                                                    *)

\* m works on the request it was routed to last, and has not answered.
InHand(m) ==
    /\ routed # <<>>
    /\ sinceHuman = Len(routed) - 1
    /\ m \in Registered => routed[Len(routed)] = m

\* Each routed specialist has answered.
Counted ==
    IF routed = <<>> THEN sinceHuman = 0
    ELSE /\ sinceHuman >= Len(routed)
         /\ routed[Len(routed)] \notin Nested => sinceHuman = Len(routed)

\* Nobody who names himself was routed to.
Open ==
    /\ \A i \in 1..Len(routed) : routed[i] \in Unnamed
    /\ 2 * Len(routed) <= steps

ControlInv ==
    /\ node # "idle" => outcome = "none" /\ paused = None
    /\ paused # None => outcome = "paused" /\ InHand(paused)
    /\ node \notin {"idle", "supervisor"} => InHand(node)
    /\ node = "supervisor" => Counted /\ (SpecialistAnswered \/ Open)
    /\ node \in Unnamed => 2 * Len(routed) <= steps + 1
    /\ 2 * Len(routed) <= RecursionLimit + 1
    /\ NamedIsLast
    /\ AnsweredByTheRouted

\* A member that may leave current_agent alone is no subgraph of Nested, and
\* none of the places has its name.
LEMMA UnnamedApart ==
    /\ Unnamed \cap (Nested \cup HitlMembers) = {}
    /\ Unnamed \cap (MultiRoute \cup {"codeact", "coder", "cua"}) = {}
    /\ ({"skynet"} \cup Anonymous) \cap {"supervisor", "idle", "workers", "research_aggregator", None} = {}
BY SupervisorTurnAssumption
   DEF SupervisorTurnAssumption, Unnamed, Nested, MultiRoute, Places, None

\* A route to a node is one more delegation, taken after silent members only.
LEMMA GotoKeepsControl ==
    ASSUME Typed, ControlInv, Registered' = Registered,
           Step("supervisor"), ~SpecialistAnswered, NEW r, Goto(r)
    PROVE  ControlInv'
<1>0. Registered \cap Places = {}
  BY RoutesAreNodes DEF Typed, TypeOK
<1> USE SupervisorTurnAssumption, UnnamedApart, <1>0
    DEF Typed, TypeOK, SupervisorTurnAssumption, threadVars, ControlInv, Step, Places
<1>1. Counted /\ Open
  OBVIOUS
<1>2. CASE r \in Registered
  <2>1. /\ node' = r /\ r \notin {"idle", "supervisor"}
        /\ routed' = Append(routed, r)
        /\ UNCHANGED <<sinceHuman, outcome, paused>>
    BY <1>2 DEF Goto
  <2>2. /\ Len(routed') = Len(routed) + 1
        /\ routed'[Len(routed')] = r
        /\ \A i \in 1..Len(routed) : routed'[i] = routed[i]
        /\ routed' # <<>>
    BY <1>2, <2>1
  <2>3. sinceHuman = Len(routed)
    <3>1. CASE routed = <<>>
      BY <1>1, <3>1 DEF Counted
    <3>2. CASE routed # <<>>
      <4>1. routed[Len(routed)] \in Unnamed
        BY <1>1, <3>2 DEF Open
      <4> QED BY <1>1, <3>2, <4>1 DEF Counted
    <3> QED BY <3>1, <3>2
  <2>4. InHand(node)'
    BY <2>1, <2>2, <2>3 DEF InHand
  <2>5. 2 * Len(routed') <= steps' + 1 /\ 2 * Len(routed') <= RecursionLimit + 1
    BY <1>1, <2>2 DEF Open
  <2>6. NamedIsLast'
    BY <1>1, <2>2 DEF NamedIsLast, Open
  <2>7. AnsweredByTheRouted'
    BY <2>1 DEF AnsweredByTheRouted
  <2> QED BY <2>1, <2>4, <2>5, <2>6, <2>7
<1>3. CASE r \notin Registered
  <2>1. /\ node' = "idle" /\ outcome' = "failed"
        /\ UNCHANGED <<routed, sinceHuman, paused>>
    BY <1>3 DEF Goto
  <2> QED BY <2>1 DEF NamedIsLast, AnsweredByTheRouted, Unnamed
<1> QED BY <1>2, <1>3

\* ControlInv is inductive.
LEMMA ControlInductive ==
    ASSUME Typed, ControlInv, [Next]_vars
    PROVE  ControlInv'
<1>0. /\ settings' = settings /\ Registered' = Registered
      /\ Registered \cap Places = {}
      /\ MultiRoute \subseteq Registered
  BY SettingsKept, RoutesAreNodes DEF Typed, TypeOK
<1> USE SupervisorTurnAssumption, UnnamedApart, <1>0
    DEF Typed, TypeOK, SupervisorTurnAssumption, threadVars, ControlInv, Places
<1>1. ASSUME NEW i \in IntentRoutes \cup {NoIntent}, UserMessage(i) PROVE ControlInv'
  <2>1. /\ node' = "supervisor" /\ outcome' = "none" /\ paused' = None
        /\ routed' = <<>> /\ sinceHuman' = 0 /\ steps' = 0
    BY <1>1 DEF UserMessage
  <2>2. Counted' /\ Open' /\ NamedIsLast' /\ AnsweredByTheRouted'
    BY <2>1 DEF Counted, Open, NamedIsLast, AnsweredByTheRouted
  <2>3. Len(routed') = 0 /\ "supervisor" \notin Unnamed
    BY <2>1 DEF Unnamed
  <2> QED BY <2>1, <2>2, <2>3
<1>2. CASE Resume
  <2>1. /\ node' = paused /\ paused' = None /\ outcome' = "none" /\ steps' = 0
        /\ UNCHANGED <<routed, sinceHuman>>
        /\ paused \in HitlMembers /\ paused \in Registered
        /\ InHand(paused)
    BY <1>2 DEF Resume
  <2>2. InHand(node)' /\ NamedIsLast' /\ AnsweredByTheRouted'
    BY <2>1 DEF InHand, NamedIsLast, AnsweredByTheRouted
  <2> QED BY <2>1, <2>2
<1>3. ASSUME NEW n \in {0, 1}, Step("supervisor"), EndTurn(n),
             SpecialistAnswered => n = 0,
             ~SpecialistAnswered => n = (IF sinceHuman = 0 THEN 1 ELSE 0)
      PROVE  ControlInv'
  <2>1. /\ node' = "idle" /\ outcome' = "answered" /\ sinceHuman' = sinceHuman + n
        /\ UNCHANGED <<routed, paused>> /\ paused = None
        /\ Counted
    BY <1>3 DEF Step, EndTurn
  <2>2. AnsweredByTheRouted'
    <3>1. CASE routed = <<>>
      BY <1>3, <2>1, <3>1 DEF AnsweredByTheRouted, Counted, SpecialistAnswered
    <3>2. CASE routed # <<>>
      <4>1. sinceHuman >= Len(routed) /\ Len(routed) > 0
        BY <2>1, <3>2 DEF Counted
      <4>2. sinceHuman' = sinceHuman
        BY <1>3, <2>1, <4>1
      <4> QED BY <2>1, <3>2, <4>2 DEF AnsweredByTheRouted, Counted
    <3> QED BY <3>1, <3>2
  <2>3. NamedIsLast'
    BY <2>1 DEF NamedIsLast
  <2> QED BY <2>1, <2>2, <2>3 DEF Unnamed
<1>4. CASE LoopBreak
  BY <1>3, <1>4 DEF LoopBreak
<1>5. CASE IntentRoute
  BY <1>5, GotoKeepsControl DEF IntentRoute
<1>6. ASSUME NEW r \in ValidRoutes, ModelRoute(r) PROVE ControlInv'
  <2>1. CASE Overridden(r) = "END"
    <3>1. /\ Step("supervisor") /\ ~SpecialistAnswered
          /\ EndTurn(IF sinceHuman = 0 THEN 1 ELSE 0)
      BY <1>6, <2>1 DEF ModelRoute
    <3> QED BY <1>3, <3>1
  <2>2. CASE Overridden(r) # "END"
    BY <1>6, <2>2, GotoKeepsControl DEF ModelRoute
  <2> QED BY <2>1, <2>2
<1>7. ASSUME NEW k \in Nat \ {0}, node \notin {"idle", "supervisor"},
             sinceHuman' = sinceHuman + k, steps' = steps + 1,
             node \notin Nested => k = 1,
             currentAgent' = "supervisor" => node \in Unnamed,
             node \in {"workers", "research_aggregator"} => k = 1,
             node \in Registered \cup {"research_aggregator"},
             node' = "supervisor", UNCHANGED <<routed, paused, outcome>>
      PROVE  ControlInv'
  <2>1. InHand(node) /\ Len(routed) > 0
    BY <1>7 DEF InHand
  <2>2. Counted'
    <3>1. sinceHuman' >= Len(routed)
      BY <1>7, <2>1 DEF InHand
    <3>2. CASE node \in Registered
      BY <1>7, <2>1, <3>1, <3>2 DEF InHand, Counted
    <3>3. CASE node \notin Registered
      BY <1>7, <2>1, <3>1, <3>3 DEF InHand, Counted
    <3> QED BY <3>2, <3>3
  <2>3. SpecialistAnswered' \/ Open'
    <3>1. CASE node \in Unnamed
      <4>1. node \in Registered /\ routed[Len(routed)] = node
        BY <1>7, <2>1, <3>1 DEF InHand, Unnamed
      <4>2. \A i \in 1..Len(routed) : routed[i] \in Unnamed
        BY <2>1, <3>1, <4>1 DEF NamedIsLast
      <4> QED BY <1>7, <3>1, <4>2 DEF Open
    <3>2. CASE node \notin Unnamed
      BY <1>7, <2>1, <3>2 DEF SpecialistAnswered, InHand
    <3> QED BY <3>1, <3>2
  <2>4. NamedIsLast' /\ AnsweredByTheRouted'
    BY <1>7 DEF NamedIsLast, AnsweredByTheRouted
  <2> QED BY <1>7, <2>2, <2>3, <2>4 DEF Unnamed
<1>8. ASSUME NEW m \in Specialists, Specialist(m) PROVE ControlInv'
  <2>1. node = m /\ m \notin {"idle", "supervisor", "workers", "research_aggregator"}
    BY <1>8 DEF Specialist, Step, Specialists, ValidRoutes, MultiRoute, Settings
  <2>2. m \in Registered
    BY <1>8, <2>1 DEF Specialist, Step
  <2>3. PICK k \in AnswersOf(m) : sinceHuman' = sinceHuman + k
    BY <1>8 DEF Specialist
  <2>4. k \in Nat \ {0} /\ (m \notin Nested => k = 1)
    BY DEF AnswersOf
  <2>5. currentAgent' = "supervisor" => m \in Unnamed
    BY <1>8, <2>1 DEF Specialist, AgentsAfter, Unnamed, Inner
  <2> QED BY <1>7, <1>8, <2>1, <2>2, <2>3, <2>4, <2>5 DEF Specialist, Step
<1>9. ASSUME NEW m \in HitlMembers, Pause(m) PROVE ControlInv'
  <2>1. /\ node = m /\ m \in Registered
        /\ node' = "idle" /\ paused' = m /\ outcome' = "paused"
        /\ UNCHANGED <<routed, sinceHuman>>
    BY <1>9 DEF Pause, Step, Nested
  <2>2. InHand(m)
    BY <2>1
  <2>3. InHand(paused)' /\ NamedIsLast' /\ AnsweredByTheRouted'
    BY <2>1, <2>2 DEF InHand, NamedIsLast, AnsweredByTheRouted
  <2> QED BY <2>1, <2>3 DEF Unnamed
<1>10. ASSUME NEW n \in PlanSizes, Planner(n) PROVE ControlInv'
  <2>1. /\ node = "planner" /\ currentAgent' = "planner" /\ "planner" \in Registered
        /\ sinceHuman' = sinceHuman + 1 /\ steps' = steps + 1
        /\ node' = "supervisor" /\ UNCHANGED <<routed, paused, outcome>>
    BY <1>10 DEF Planner, Step, MultiRoute
  <2> QED BY <1>7, <2>1
<1>11. CASE Dispatch \/ Workers
  <2>1. /\ node \notin {"idle", "supervisor"}
        /\ node' \in {"workers", "research_aggregator"}
        /\ UNCHANGED <<routed, sinceHuman, paused, outcome>>
    BY <1>11 DEF Dispatch, Workers, Step
  <2>2. InHand(node)' /\ NamedIsLast' /\ AnsweredByTheRouted'
    BY <2>1 DEF InHand, NamedIsLast, AnsweredByTheRouted
  <2> QED BY <2>1, <2>2 DEF Unnamed
<1>12. CASE Aggregate
  <2>1. /\ node = "research_aggregator" /\ currentAgent' = "research_aggregator"
        /\ sinceHuman' = sinceHuman + 1 /\ steps' = steps + 1
        /\ node' = "supervisor" /\ UNCHANGED <<routed, paused, outcome>>
    BY <1>12 DEF Aggregate, Step
  <2> QED BY <1>7, <2>1
<1>13. CASE Raise
  <2>1. /\ node' = "idle" /\ outcome' = "failed"
        /\ UNCHANGED <<routed, sinceHuman, paused>> /\ paused = None
    BY <1>13 DEF Raise
  <2>2. NamedIsLast' /\ AnsweredByTheRouted'
    BY <2>1 DEF NamedIsLast, AnsweredByTheRouted
  <2> QED BY <2>1, <2>2 DEF Unnamed
<1>14. CASE UNCHANGED vars
  BY <1>14 DEF vars, InHand, Counted, Open, SpecialistAnswered, NamedIsLast, AnsweredByTheRouted
<1> QED
  BY <1>1, <1>2, <1>4, <1>5, <1>6, <1>8, <1>9, <1>10, <1>11, <1>12, <1>13, <1>14
     DEF Next, Supervise, RunSpecialist, RunParallel

\* Initially nothing is routed and nothing is answered.
LEMMA ControlInitially == Init => ControlInv
BY SupervisorTurnAssumption, UnnamedApart
   DEF SupervisorTurnAssumption, Init, ControlInv, NamedIsLast, AnsweredByTheRouted,
       Unnamed, InHand

\* ControlInv always holds.
LEMMA ControlAlways == Spec => []ControlInv
<1>1. Typed /\ ControlInv /\ [Next]_vars => ControlInv'
  BY ControlInductive
<1> QED BY TypedAlways, ControlInitially, <1>1, PTL DEF Spec

\* In every setting, with the subgraphs, the layers and the patterns on or off:
\* a specialist that writes its own name ends the routing of its turn, also when
\* it was interrupted and resumed; only members that leave current_agent alone
\* can be followed by another.
THEOREM NamedEndsTheTurn == Spec => []NamedIsLast
<1>1. ControlInv => NamedIsLast
  BY DEF ControlInv
<1> QED BY ControlAlways, <1>1, PTL

\* In every setting a request that ends with an answer has one AI message per
\* specialist it was handed to (more from a subgraph), and the supervisor's own
\* answer if it was handed to none.
THEOREM RequestsAreAnswered == Spec => []AnsweredByTheRouted
<1>1. ControlInv => AnsweredByTheRouted
  BY DEF ControlInv
<1> QED BY ControlAlways, <1>1, PTL

-----------------------------------------------------------------------------
(* Routes and nodes. *)

\* A route that has no node is cua while it is disabled, or a pipeline.
LEMMA ValidButUnregistered ==
    ASSUME NEW r \in ValidRoutes, r \notin Registered, r \notin {"END", "cua"}
    PROVE  r \in Pipelines /\ ~settings.subgraphs
BY DEF ValidRoutes, Registered

\* The overrides answer the model's cua with a node.
LEMMA OverriddenIsNode ==
    ASSUME settings \in Settings, NEW r \in ValidRoutes, Overridden(r) \notin Registered \cup {"END"}
    PROVE  Overridden(r) \in Pipelines /\ ~settings.subgraphs
<1>1. MultiRoute \cup {"coder"} \subseteq Registered
  BY RoutesAreNodes
<1>2. CASE r = "cua"
  BY <1>1, <1>2, SupervisorTurnAssumption
     DEF Overridden, Registered, MultiRoute, SupervisorTurnAssumption
<1>3. CASE r # "cua"
  <2>1. Overridden(r) = r
    BY <1>1, <1>3 DEF Overridden, MultiRoute
  <2> QED BY <1>3, <2>1, ValidButUnregistered
<1> QED BY <1>2, <1>3

\* Where the cast of supervisor_router is not safe, in any setting: nowhere but
\* at a pipeline of MEMBERS that the model picks while enable_subgraphs is off.
THEOREM RoutesHaveNodes == Spec => []OnlyPipelinesMissed
<1>1. Init => OnlyPipelinesMissed
  BY DEF Init, OnlyPipelinesMissed
<1>2. Typed /\ OnlyPipelinesMissed /\ [Next]_vars => OnlyPipelinesMissed'
  <2> SUFFICES ASSUME Typed, OnlyPipelinesMissed, [Next]_vars
               PROVE  OnlyPipelinesMissed'
    OBVIOUS
  <2>0. settings' = settings
    BY SettingsKept
  <2> USE <2>0 DEF OnlyPipelinesMissed
  <2>1. ASSUME missed' = missed PROVE OnlyPipelinesMissed'
    BY <2>1
  <2>2. ASSUME NEW r, Goto(r),
               r \notin Registered => r \in Pipelines /\ ~settings.subgraphs
        PROVE  OnlyPipelinesMissed'
    BY <2>2 DEF Goto
  <2>3. CASE IntentRoute
    <3>1. intent \in ValidRoutes /\ Goto(intent)
      BY <2>3 DEF IntentRoute, ShortCircuit
    <3>2. intent \notin {"END", "cua"}
      BY SupervisorTurnAssumption DEF Typed, TypeOK, SupervisorTurnAssumption, NoIntent
    <3> QED BY <2>2, <3>1, <3>2, ValidButUnregistered
  <2>4. ASSUME NEW r \in ValidRoutes, ModelRoute(r) PROVE OnlyPipelinesMissed'
    <3>1. CASE Overridden(r) = "END"
      BY <2>1, <2>4, <3>1 DEF ModelRoute, EndTurn
    <3>2. CASE Overridden(r) # "END"
      <4>1. Goto(Overridden(r))
        BY <2>4, <3>2 DEF ModelRoute
      <4>2. Overridden(r) \notin Registered
              => Overridden(r) \in Pipelines /\ ~settings.subgraphs
        BY <3>2, OverriddenIsNode DEF Typed, TypeOK
      <4> QED BY <2>2, <4>1, <4>2
    <3> QED BY <3>1, <3>2
  <2>5. CASE LoopBreak
    BY <2>1, <2>5 DEF LoopBreak, EndTurn
  <2>6. CASE RunSpecialist \/ RunParallel
    BY <2>1, <2>6 DEF RunSpecialist, RunParallel, Specialist, Pause, Planner, Dispatch,
                      Workers, Aggregate
  <2>7. CASE Resume \/ Raise
    BY <2>1, <2>7 DEF Resume, Raise
  <2>8. ASSUME NEW i \in IntentRoutes \cup {NoIntent}, UserMessage(i)
        PROVE  OnlyPipelinesMissed'
    BY <2>8 DEF UserMessage
  <2>9. CASE UNCHANGED vars
    BY <2>1, <2>9 DEF vars
  <2> QED BY <2>3, <2>4, <2>5, <2>6, <2>7, <2>8, <2>9 DEF Next, Supervise
<1> QED BY TypedAlways, <1>1, <1>2, PTL DEF Spec

-----------------------------------------------------------------------------
(* The contract of a turn. *)

\* The contract's bound, in supersteps.
LEMMA Halves ==
    ASSUME NEW n \in Nat, NEW l \in Nat, 2 * (n + 1) <= l + 1
    PROVE  n < (l + 1) \div 2
OBVIOUS

\* A route to a node is a delegation the contract still allows, a route without
\* one is a request that failed.
LEMMA GotoRefines ==
    ASSUME Typed, ControlInv, NEW route, Step("supervisor"), ~SpecialistAnswered,
           Goto(route)
    PROVE  Contract!Delegate \/ Contract!Finish
<1>0. Registered \cap Places = {}
  BY RoutesAreNodes DEF Typed, TypeOK
<1> USE SupervisorTurnAssumption, <1>0
    DEF ControlInv, Typed, TypeOK, SupervisorTurnAssumption, Step, threadVars, Places
<1>1. Len(routed) < (RecursionLimit + 1) \div 2
  <2>1. 2 * (Len(routed) + 1) <= RecursionLimit + 1
    BY DEF Open
  <2> QED BY <2>1, Halves
<1>2. CASE route \in Registered
  <2>1. /\ node # "idle" /\ node' # "idle"
        /\ Len(routed') = Len(routed) + 1
        /\ outcome' = outcome
    BY <1>2 DEF Goto
  <2> QED BY <1>1, <2>1 DEF Contract!Delegate
<1>3. CASE route \notin Registered
  <2>1. /\ node # "idle" /\ node' = "idle"
        /\ routed' = routed
        /\ outcome' = "failed"
    BY <1>3 DEF Goto
  <2> QED BY <2>1 DEF Contract!Finish
<1> QED BY <1>2, <1>3

\* Each step of the graph is a step of the contract or leaves it alone.
LEMMA StepRefines ==
    ASSUME Typed, ControlInv, [Next]_vars
    PROVE  [Contract!Next]_(Contract!contractVars)
<1>0. Registered \cap Places = {}
  BY RoutesAreNodes DEF Typed, TypeOK
<1> USE SupervisorTurnAssumption, <1>0
    DEF SupervisorTurnAssumption, threadVars, Places
<1> DEFINE Alone == /\ node # "idle" /\ node' # "idle"
                    /\ UNCHANGED <<routed, outcome>>
           Over == /\ node # "idle" /\ node' = "idle"
                   /\ UNCHANGED routed
                   /\ outcome' \in {"answered", "failed", "paused"}
<1>1. Alone => UNCHANGED Contract!contractVars
  BY DEF Contract!contractVars
<1>2. Over => Contract!Finish
  BY DEF Contract!Finish
<1>3. ASSUME NEW i \in IntentRoutes \cup {NoIntent}, UserMessage(i)
      PROVE  Contract!Ask
  BY <1>3 DEF UserMessage, Contract!Ask
<1>4. CASE Resume
  <2>1. /\ node = "idle" /\ node' = paused /\ paused \in Registered
        /\ outcome = "paused" /\ outcome' = "none" /\ routed' = routed
    BY <1>4 DEF Resume, ControlInv, Typed, TypeOK
  <2> QED BY <2>1 DEF Contract!Approve, Contract!Next
<1>5. CASE LoopBreak
  <2>1. Over
    BY <1>5 DEF LoopBreak, Step, EndTurn
  <2> QED BY <1>2, <2>1 DEF Contract!Next
<1>6. CASE IntentRoute
  BY <1>6, GotoRefines DEF IntentRoute, Contract!Next
<1>7. ASSUME NEW r \in ValidRoutes, ModelRoute(r)
      PROVE  Contract!Delegate \/ Contract!Finish
  <2>1. CASE Overridden(r) = "END"
    <3>1. Over
      BY <1>7, <2>1 DEF ModelRoute, Step, EndTurn
    <3> QED BY <1>2, <3>1
  <2>2. CASE Overridden(r) # "END"
    BY <1>7, <2>2, GotoRefines DEF ModelRoute
  <2> QED BY <2>1, <2>2
<1>8. ASSUME NEW m \in Specialists, Specialist(m) PROVE Alone
  <2>1. m # "idle"
    BY DEF Specialists, ValidRoutes, MultiRoute, Typed, TypeOK, Settings
  <2> QED BY <1>8, <2>1 DEF Specialist, Step
<1>9. ASSUME NEW m \in HitlMembers, Pause(m) PROVE Over
  <2>1. m # "idle"
    BY DEF Nested
  <2> QED BY <1>9, <2>1 DEF Pause, Step
<1>10. ASSUME NEW n \in PlanSizes, Planner(n) PROVE Alone
  BY <1>10 DEF Planner, Step
<1>11. CASE RunParallel
  <2>1. Alone
    BY <1>11 DEF RunParallel, Dispatch, Workers, Aggregate, Step
  <2> QED BY <1>1, <2>1
<1>12. CASE Raise
  <2>1. Over
    BY <1>12 DEF Raise
  <2> QED BY <1>2, <2>1 DEF Contract!Next
<1>13. CASE UNCHANGED vars
  BY <1>13 DEF vars, Contract!contractVars
<1> HIDE DEF Alone, Over
<1> QED
  BY <1>1, <1>2, <1>3, <1>4, <1>5, <1>6, <1>7, <1>8, <1>9, <1>10, <1>11, <1>12, <1>13
     DEF Next, Supervise, RunSpecialist, Contract!Next

\* The graph implements the safety part of the contract (ImplementsTurnContract
\* without its fairness), for every RecursionLimit and in every setting: a
\* request is handed on at most once per two supersteps, though a resumption
\* counts its supersteps anew, and each call ends answered, failed or paused,
\* never by itself and never twice.
THEOREM TurnKeepsContract ==
    Spec => Contract!Init /\ [][Contract!Next]_(Contract!contractVars)
<1>1. Init => Contract!Init
  BY DEF Init, Contract!Init
<1>2. Typed /\ ControlInv /\ [Next]_vars => [Contract!Next]_(Contract!contractVars)
  BY StepRefines
<1> QED BY TypedAlways, ControlAlways, <1>1, <1>2, PTL DEF Spec
=============================================================================
