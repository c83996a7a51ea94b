# Prismal: a TLA+ verification project

Prismal is a Python library of cooperating LLM agents: a supervisor graph on
LangGraph, specialists, fan-out swarms, an agent-to-agent (A2A) server, budget
and provider-quota governance, a scheduler, connections to tool servers and
memory stores.  This directory models the parts whose correctness depends on
order, on failure and on state that survives from one call to the next.  TLC
checks every module on small instances; TLAPS proves the safety properties that
matter most for every value of the constants.

Contents: [inventory](#1-inventory-of-the-system) ·
[modules](#2-the-modules-and-the-code) · [runs](#3-the-runs) ·
[fairness](#4-fairness) · [proofs](#5-the-proofs) ·
[findings](#6-findings) · [not modelled](#7-what-is-not-modelled) ·
[plan](#8-plan)

## 1. Inventory of the system

Paths are under `src/prismal/`.  The parts of the first table are modelled, those
of the second are planned or left out (see also `PROJECT.json`, which lists every
part, and the hazards at their lines).

### 1.1 Modelled

| Part | State it keeps | Operations | What is hard | What makes it correct |
|---|---|---|---|---|
| Flat supervisor graph: `agents/supervisor.py`, `graph.py`, `state.py`, `intent_router.py` | the checkpointed `AgentState` of a thread: messages, `current_agent`, `next_agent`, `pending_tasks`, `parallel_results` | break the loop, short-circuit on an intent, ask the model, override a route, end the turn, run a specialist, plan, pause, resume | state of an earlier or failed turn read by a later one; supervisor and specialists call each other in a loop; an approval pauses a turn in the middle of a node; names and nodes are computed in two modules | who names itself is the last of its turn; every answered request has its answers; which routes have nodes; every turn ends |
| Parallel research: `agents/parallel_research.py`, `patterns/parallel.py` | `pending_tasks`, `parallel_results` | dispatch with two caps, work, aggregate | channels that no turn empties | the branch is one of the turn's specialists |
| Inbound A2A server and its task store: `a2a/server.py`, `a2a/task_store.py` | records with owner and state in order of their last put, bodies, runs in flight | reserve, run, complete, fail, drop, cancel, list pages | sends and cancels interleave with runs of the graph; callers share ids; eviction; two protocol versions; a listing under updates | tasks keep their owners but for ids evicted under a run; records, bodies and runs agree; a listing misses nothing |
| Skynet swarm: `agents/skynet/`, `agents/subgraphs/skynet/` | `metadata.skynet`, the staged orders, the results channel, a token meter | plan, dispatch, work, reduce, evaluate, plan again, output, abort | failures and overflow carried over rounds; what an earlier turn left; a model decides when to stop | no order is lost or run again after it succeeded; the latest attempt counts; rounds are bounded; a turn ends |
| Budget: `budget/`, `react_loop` of `agents/tool_registry.py` | one engine per running turn, the tenant's totals per window | seed, check, call, record, last call, cut off | a check before an await and the metering after it; parallel loops and processes on one total; a store that fails; a calendar | turn and tenant overshoot by a bounded amount; a cut-off turn stays so |
| Scheduler: `scheduler/cron_manager.py`, `executor.py`, the cron tools of `agents/tools.py` | a row per job in SQLite with its retry count; registrations, retries, runs and posted commands in memory | call a tool, post, apply, tick, retry, misfire, succeed, fail, notify, deliver, start, halt | a tool writes on its thread and the loop learns of it later; a retry has an id of its own and runs beside the job's next run, both on one stored count; the count survives the process and the retry does not | retries are bounded; a count is backed; what is paused is off; what is one-time fires once |
| Batch executor: `routing/batch.py`, `providers/batch_adapters.py` | a job per provider family, the results, what is metered | group, submit, poll, cancel, fetch, merge, call synchronously, return | a job that completed is billed whatever becomes of its results; families end in any order and any call raises; lines of a result file are skipped; three ways to a result, two prices | what a job delivered is not run again; every result is metered once; a run ends |
| AG-UI translation: `events/agui.py`, `subagent.py` | open messages, texts, tool calls, sub-agents, ids given to messages without one, the state sent last | start, chunk, whole message, tool answer, update, interrupt, sub-agent, finish, error | branches interleave; a message comes in chunks and again whole; a run breaks off anywhere, also in the translator | every event is legal where it comes; what is open belongs to a message; the client's state is the graph's |

How they meet: the host calls `graph.ainvoke` on a thread.  The supervisor seeds
the budget of the turn, routes to a specialist, and the specialist's node runs
one or more `react_loop`s, which the budget's guard governs.  The parallel
branch and the Skynet subgraph run several of them in one LangGraph superstep, whose
writes meet in reducer channels.  The A2A server is a host of the graph: each send is one
`ainvoke` on the task's thread.  The scheduler is another host, which starts
turns by itself, at its ticks and retries.  The AG-UI translator stands between a turn and a
front end: it reads the streams of the graph's nodes and of the branches of a superstep.
The batch executor is called by whoever has many prompts, with the meter that it should record on.  The modules' interfaces follow these calls: what a called part
may return is a nondeterministic choice in the module of its caller
(an answer, a failure, an exception, a cost).

### 1.2 Planned or left out

| Part | State | What is hard | Status |
|---|---|---|---|
| MCP connection: `mcp/connection.py` | session, `connected` flag, tool list, exit stack | the flag precedes the tool list; a failed listing leaves a closed session | planned: `McpConnection` |
| Gateway quota ledger: `providers/gateways/quota.py` | events of rolling and calendar windows | concurrent calls between preflight and record; window edges | planned: `GatewayQuota` |
| Memory: `memory/v2/` write gate, consolidation, forgetting | records, pending forget requests | consolidation of what is being forgotten | planned: `MemoryForget` |
| Audit log: `security/audit.py` | the last hash each logger knows | two loggers fork one chain | planned: `AuditChain` |
| LLM compiler: `agents/patterns/llm_compiler.py` | a task graph | waves, replanning, plan cache | planned: `CompilerWaves` |
| Hierarchical supervisors, swarm handoff, compaction, Kokoro, caches, routing policies, decisions, tool policy, composition runtime, identity, A2A client, MCP tool cache | see `PROJECT.json` | | after those |
| Screening, token and cost extraction, ranking, wire formats, adapters, catalogues, sandbox, monitoring, evaluation | none that steps share, or I/O | | left out |

## 2. The modules and the code

| Module | Models | Lines of the code: see `map` in `PROJECT.json` |
|---|---|---|
| `SupervisorTurn` | the flat graph over several turns of one thread, with the parallel branch | composes supervisor, specialists, planner, dispatcher, workers, aggregator |
| `TurnContract` | the abstract specification: what a caller of `ainvoke` may rely on | implemented by `SupervisorTurn` |
| `A2ATasks` (`MCA2ATasks`) | sends and cancels over records, bodies and the store's order | both protocol versions, with and without a scope |
| `A2APaging` | `ListTasks` page by page while puts refresh what it lists | the store's `list` and its cursor |
| `SkynetSwarm` | the swarm's nodes over several turns of one thread | plan, dispatcher, workers, reduce, evaluate, output |
| `TurnBudget` (`MCTurnBudget`) | meter, guard, tenant store and the `react_loop`s of the sessions of a tenant | composes the supervisor's seeding with the loops |
| `CronJobs` | store, executor loop, runs, retries and the process of the scheduler, with the tools that write beside it | composes `CronManager`, `CronExecutor` and the cron tools |
| `BatchRuns` (`MCBatchRuns`) | one `run()` over several families, with the provider's jobs | the families' coroutines, the merge and the synchronous pool |
| `AgUiRun` (`MCAgUiRun`) | the translator's context, the streams of the branches and the client that receives the events | every handler of `to_agui_events`, `start_run`, `finish_run`, `error_run` |
| `*_proofs` | theorems about the module they are named after | |

**SupervisorTurn.**  `node` is where LangGraph's control is, `"idle"` between two
`ainvoke`s; `steps` counts supersteps against the recursion limit.
`currentAgent`, `nextAgent`, `pendingTasks` and `parallelResults` are the channels of the
checkpoint, which `UserMessage` and `Raise` leave alone.  Messages are
abstracted to what the routing reads: `intent`, what `match_intent` finds in the
last human message, and `sinceHuman`, the AI messages after it.  `settings` is chosen in `Init`,
any combination of them, and decides what `ValidRoutes` the supervisor may choose and which nodes are
`Registered`; the two differ, as in the code.  `LoopBreak`,
`IntentRoute` and `ModelRoute` are the three ways `supervisor_node` decides, in
its order; the model's answer is any valid route.  `Overridden` is
`_apply_routing_overrides`, which returns at its first match, so a downgraded `cua`
is not upgraded to the parallel branch.  `Goto` is `supervisor_router` with the
conditional edges: a route with no node raises and the supervisor's writes
are lost.  Members come in four kinds.  A plain one appends an answer and writes its name.  A subgraph over
`AgentState` (`Nested`: the pipelines, the blind review) appends an answer for each of its inner nodes and leaves the last one's
name, `Inner`.  An `Anonymous` one (the patterns, the domain subgraphs, Kokoro, the multimodal pipeline) answers and writes no name,
and the swarm writes names of its inner nodes unless its planning failed.  `Pause` and `Resume` are the approval's `interrupt`, which
returns from `ainvoke` in the middle of the node, and its answer.  `Workers` is the superstep of the `Send` workers, whose
writes reach the channel together.  `routed` and `missed` are history.

**A2ATasks.**  `record` and `order` are the store's ordered dictionary, `body` the
handler's `_tasks` with the caller whose run wrote it, `call` the sends.
`Reserve` is `_claim_task_id` and the put under one lock; `Complete`, `Fail`
and `Drop` are the three ways the run behind it ends: recorded, recorded as failed, or outside of
`_invoke`'s handler.  The cancels of the two protocol versions are one step
each, there is no `await` in them.  A scope is a pair of org and principal, which a host may leave
empty; `Unscoped` is a host that passes no headers.  `displaced` is history: the ids whose record was evicted under a scoped send
that still runs.

**A2APaging.**  `updated` and `clock` are the records' times, `token` the cursor
the client holds; `ListPage` is `list`; a
task's place in the sorted list is the number of newer ones (`Newer`), and `Page` holds those
whose place is below the page size.

**SkynetSwarm.**  `sky` is `metadata.skynet`, `staged` and `log` the channels
`skynet_orders` and `parallel_results`, `saved` what the parent graph holds while
the subgraph runs.  Orders are numbers, a list of orders is the set of them, since the code's lists
always run by rising id (the module's head says why).  `Output` also models how
the parent's adding channel takes in the subgraph's list, `Abort` how an
exception leaves the parent with what it had.  `run` is a history variable.

**TurnBudget.**  `meter` is the engine of a session in `_RUN_ENGINES` with the
turn it was seeded for, `totals` the tenant store by calendar window, `loop` where
each `react_loop` is: before its check, in its call, in its tools, in the last call
that `_final_llm_turn` makes, or not running.  `Check` and `Answer` are two steps, because
the code awaits the model between them.  `Seed` is `maybe_seed_budget_run`, `Record`
is `CostMeter.record` and `TenantCostMeter.record`.  `stored` and `readable` say
whether the store takes and gives, `OpenRaises` that it cannot be opened, which ends the turn.  `spent`, `cut` and `faults` are history.

**CronJobs.**  `row` is the table `cron_jobs`, which `Halt` leaves alone; `sched` and
`retry` are what APScheduler holds, `run` where the run of each id stands, `queue` the
commands posted to the loop and `tool` the calls that have written the store and not
posted yet.  `Call*` are the writes of `CronManager`, `Post` the tools'
`schedule_coroutine`, `Apply` the executor's side of a command.  A run is `_run_job` cut at its
awaits: `Succeed`, `FailAndRetry` and `FailForGood` after the agent, `Reported` and
`Alerted` after the notification, `Delivered` after the delivery.  The skipped second
run of an id, misfires and the removal of a due date job are APScheduler's and external.  The report of a success may raise, which
sends the run into the handler of failed runs with its count already reset; `MaxFaults` bounds these and the ends of the process
together.  `ticks`, `raised`, `granted`, `fired`, `lost` and `crossed` are history.

**BatchRuns.**  `stage` is where the coroutine of each family stands, `job` what the provider has made of its
job, `result`, `batched` and `listed` the results and the two prices they are
metered at.  A job and the executor are two actors: `JobEnds` may come
before or after any poll, also for a job the executor has given up.  `fetched` is what `Fetch` delivers: any part of what the job
answered, since the adapters skip a line that does not parse.
`Merge` and `MergeRaises` are the loop over the families after `gather`, which awaits
nothing; `SyncBegins` and `SyncEnds` are the calls under the semaphore.

**AgUiRun.**  `ctx` is `AgUiContext` with, in `told`, what the client has made of
the events so far; helpers are operators from context to context, named as in
the code, so that an item is one operator applied to `ctx`.  `branch` is where each stream
stands: which message, how many chunks, whether its call was streamed.  The client
checks each event against the protocol (`Legal`); an event out of place
makes `legal` false for good.  `lost` is set by an item whose translation raised, whose events
are dropped while what it did to the context stands.  `host` is the run as its host sees it: `start_run`, `finish_run` and
`error_run` may raise too and then give the client nothing, the latter two (`Ends`) with the context emptied.

## 3. The runs

Every constant of a `.cfg` that is a bound and not a setting is marked as one where
the module declares it.  `CHECK_DEADLOCK FALSE` stands in every run
for the same reason: the bounded number of messages, sends or puts is used up and the
system rests.

| Run | Question | Instance | Result |
|---|---|---|---|
| `supervisor_turn` | types; who is followed by another route; answers of a request; routes without a node; refinement of `TurnContract` with its liveness | all settings, 3 turns, one member of each kind, plans of 0 and 3 tasks against 2 workers, 9 supersteps | 530,080 states, holds |
| `supervisor_silent` | no turn is routed to two specialists | the same | violated: see findings |
| `a2a_tasks` | ownership and agreement of records, bodies and order under races, evictions and unscoped callers; a task settles | 2 ids, room for one, 3 scopes in 2 orgs, one without a principal, and an unscoped caller, 3 sends, both versions, strict | 143,117 states, holds |
| `a2a_cancel` | a terminal task stays terminal | 1 id, v1 only | violated: see findings |
| `a2a_paging` | an untouched task is listed exactly once; the listing ends | 4 tasks, pages of 2, times 1 to 4, equal times possible | 42,228 states, holds |
| `skynet_swarm` | rounds, lost orders, repeated orders, latest attempts, end of the turn | 2 turns, 3 orders, 2 at a time, 2 rounds, 2 tokens | 156,089 states, holds |
| `turn_budget` | overshoot of a turn and of a tenant; a cut-off turn stays cut off | 2 sessions, 2 loops each, 2 hops, 2 iterations, 2 windows, 3 scopes, 1 failure of the store, stores that do not open | 2,234,224 states (sessions and loops interchangeable), holds |
| `cron_jobs` | bounds of retries, backing of the count, pause, one-time jobs; a granted retry comes to an end | 1 name, 2 rows of it, 2 callers, 1 retry, 2 regular runs, 1 posted command, 1 fault: an end of the process or a report that raises | 1,533,326 states, holds |
| `cron_resume` | what the store says is active is on the schedule | the same | violated: see findings |
| `batch_runs` | nothing delivered is run again; metered once; the run ends | 4 requests, 2 families and none, 2 workers, 2 fetch attempts, with and without deadline and fallback, any lines skipped | 1,291,528 states, holds |
| `agui_run` | legal events; ownership of what is open; state in sync; everything is ended | 2 branches of one node, one without message ids and with a sub-agent, 1 message each in up to 2 chunks or whole, a call, 2 values, one item, start or end that raises | 490,550 states, holds |
| `agui_sends` | a branch's text is ended by the branch | 2 branches of one node | violated: see findings |

Why these bounds are enough to be interesting:

- *Supervisor*: two turns are what it takes for one turn to read another's
  checkpoint, a third lets it read one that a failed or paused turn left between them; 3 tasks exceed
  the cap of 2, 0 is the planner's empty plan; one member of each kind that the code tells apart, with a name for an
  intent of three of them; 9 supersteps let a member without a name be routed to four times, past the history's window of 4.
- *A2A*: three sends are a run, a second one that races it on the id and a third
  after the outcome; the scopes are a principal and none in one org and the same principal in another, which tell the
  comparisons of the code apart.  Two ids with room for one make every second id an eviction, also of a task that runs, and the third send can
  take the id that was freed.  A send is made once, so a state space is finite without a bound on time.
- *Paging*: with 4 tasks a listing has at least two pages, and an update can fall
  between any two of them; clock steps of 0 give equal times.
- *Swarm*: 3 orders against 2 workers defer one in the first round; 2 rounds
  make one re-plan, in which failed and deferred orders compete for the cap; a budget of 2 runs
  out inside a round, at its end, or never; 2 turns make every leftover visible.
- *Budget*: two loops on one meter and two sessions on one total are the smallest
  race of each kind; a limit of 2 lets a check pass with something spent already;
  two hops ask for the second seeding; the window may turn at any step; the one failure
  may hit any read or any increment.  A session has one turn in this run, because two of them exceed what TLC can
  enumerate in minutes: that a session's next turn gets a fresh meter is only in the proofs, which bound neither turns nor sessions.
- *Scheduler*: one name is enough, since names share nothing but the queue; two rows of it
  let a run or a retry of the first count on the second; two callers overlap on a
  name; one retry makes the count pass through all of its values, and the
  collision of ids comes with the second regular run.  The one fault is an end of the process or a raising report; that both
  meet is only in the proofs, which leave all of these open.
- *Batch*: two requests of one family let a job answer a part, a second family ends
  in another order, one request has no family; any subset is excluded.
- *AG-UI*: two branches of one node share an owner, which is what makes them close
  each other's messages; the branch without ids makes the translator number them; two chunks are a first and a last one.

The properties of each module are at its end, each with the line of the code or
of a document it speaks of.  One mutant per checked property, a plausible bug in the
definition it depends on, stands before that definition in the module ("A
variant of ...") and makes the property fail; `PROJECT.json` pairs them.

## 4. Fairness

- `SupervisorTurn`: weak fairness of the supervisor, of the specialists and of the
  parallel branch, since LangGraph runs the next node when a superstep ends and every
  node returns or raises; and of the recursion error once the limit is reached.
  Nothing is assumed of the user, nor that a call ever fails.
- `A2ATasks`: weak fairness of the end of each run (`Complete \/ Fail \/ Drop`): the graph's recursion limit and the
  providers' timeouts end it.  Which of the three ends it takes is not assumed, so `WorkingSettles`
  excepts dropped sends: for those the code promises nothing.
- `A2APaging`: the client asks for the next page while it is given a token.  Puts are not fair.
- `SkynetSwarm`: weak fairness of the nodes together.  An abort may happen and need not.
- `CronJobs`: weak fairness of each run's steps, of each due retry (it fires or is missed), of
  the loop and of the tools' posts.  Nothing makes a schedule tick, a caller call or a process start,
  so `FailureSettles` excepts what an end of the process lost.
- `BatchRuns`: the executor's calls return or raise, deadlines pass, and a job ends, since providers expire
  a batch.  Of a fetch only the failing is fair: results that never come are those that `RunEnds` is about.
- `AgUiRun`: each branch streams on until its node returns, and the host finishes the run.
- `TurnBudget` states safety only and assumes no fairness.

## 5. The proofs

All theorems are of `Spec` (its fairness, where it has some, is not used), for every
value of the constants that the module's named assumption admits.

| Theorem | States |
|---|---|
| `SupervisorTurn_proofs!TypeCorrect` | `TypeOK` |
| `SupervisorTurn_proofs!NamedEndsTheTurn` | `NamedIsLast` |
| `SupervisorTurn_proofs!RequestsAreAnswered` | `AnsweredByTheRouted` |
| `SupervisorTurn_proofs!RoutesHaveNodes` | `OnlyPipelinesMissed` |
| `SupervisorTurn_proofs!TurnKeepsContract` | the safety part of `ImplementsTurnContract`: initial states and steps of the graph are those of `TurnContract` |
| `A2ATasks_proofs!TypeCorrect` | `TypeOK` |
| `A2ATasks_proofs!WorkingHasASend` | `WorkingIsWorkedOn` |
| `A2ATasks_proofs!BodiesAgree` | `BodyAgrees` |
| `A2ATasks_proofs!RegistryIsBounded` | `RegistryBounded` |
| `A2ATasks_proofs!OwnershipHolds` | `RunOwnsRecord` |
| `A2ATasks_proofs!OwnersAreStable` | `OwnerStable` |
| `A2APaging_proofs!ListedOnce` | `UntouchedListedOnce` |
| `A2APaging_proofs!PagesAreFull` | a page holds what is left, up to the page size |
| `SkynetSwarm_proofs!TypeCorrect` | `TypeOK` |
| `SkynetSwarm_proofs!RoundsAreBounded` | `RoundsBounded` |
| `SkynetSwarm_proofs!NoOrderIsLost` | `NoOrderLost` |
| `SkynetSwarm_proofs!LatestAttemptWins` | `LatestWins` |
| `SkynetSwarm_proofs!NoOrderRunsTwice` | `NeverTwice` |
| `TurnBudget_proofs!TypeCorrect` | `TypeOK` |
| `TurnBudget_proofs!TurnIsCapped` | `TurnCapped` |
| `TurnBudget_proofs!TenantIsCapped` | `TenantCapped` |
| `TurnBudget_proofs!CutOffIsFinal` | `CutOffStays` |
| `CronJobs_proofs!TypeCorrect` | `TypeOK` |
| `CronJobs_proofs!CountsAreBacked` | `CountBacked` |
| `CronJobs_proofs!RetriesAreBounded` | `RetriesBounded` |
| `CronJobs_proofs!OnceFiresOnce` | `OnceAtMostOnce` |
| `CronJobs_proofs!PausedStaysOff` | `PausedIsOff` |
| `BatchRuns_proofs!TypeCorrect` | `TypeOK` |
| `BatchRuns_proofs!AnsweredAreNotRerun` | `NeverRerun` |
| `BatchRuns_proofs!MeterMatchesResults` | `MeteredAsReturned` |
| `AgUiRun_proofs!TypeCorrect` | `TypeOK` |
| `AgUiRun_proofs!StreamIsLegal` | `LegalStream` |
| `AgUiRun_proofs!OpenOwned` | `OpenIsOwned` |
| `AgUiRun_proofs!StateStaysInSync` | `StateInSync` |

The arguments:

- *Supervisor*.  That who names itself is the last of its turn is not inductive: a state in
  which the specialist has answered but `current_agent` says `"supervisor"` would route
  again.  `ControlInv` says that control comes back to the supervisor either with a named answer, which the loop breaker
  sees, or with nothing routed but members that may leave the name alone, each of which has answered; so what earlier turns left does not enter
  into it.  It counts two supersteps for each of those members, which bounds a request's delegations; a
  resumed turn has its steps counted anew, and keeps to the bound because only members that name themselves interrupt.
  `RoutesHaveNodes` needs no invariant on the thread: an override turns what the model answers into a node, unless it is a pipeline that
  the settings leave out.
- *Contract*.  `StepRefines` maps each step to one of `TurnContract` or to a stutter, one
  action at a time; its bound on delegations is that part of `ControlInv`.
- *A2A store*.  A put moves an id to the end of `order` and drops the first ones while
  there are too many.  `StoreInv` says that `order` names each record once; `PutKeepsStore` that this remains so
  and that what is evicted is not the id just put.  `StoreEffects` reduces every action to a put,
  a step that stores nothing, and an end of a call, so that the capacity occurs in no later proof.
  `BodiesInv` says that a completed or canceled record has a body, that a body a scoped send wrote was written by its
  record's owner and has the record's status, and that there is none without a record: an eviction takes both, so it holds for any capacity.
  A body that an unscoped send wrote is excepted, by its writer and not by a setting.
- *A2A ownership*.  The invariant pairs each running scoped send with the record of its id;
  under it a completion rewrites a record that is its caller's already.  An eviction breaks the pair and makes the id `displaced`
  in the same step, for as long as such a send runs; afterwards the pairs of that id are all new ones.
- *Paging*.  `ListedInv` says that the tasks no put has touched have been
  returned once if they are as new as the token or newer, and otherwise not at all.
  It is kept because a page is the newest part of what remains (`PageIsInitial`), down to the task
  that the next token names (`OldestIsLast`), and because a put moves a task to the front, where it is
  touched.  The order is total (`CursorsAreOrdered`) because the cursor compares ids at equal times.  `PagesAreFull`
  numbers what remains by its places (`PlacesAreTaken`): as many tasks are below the size as `records[:size]` takes.
- *Swarm*.  The invariant follows an order through a round: the staged
  orders fit the dispatcher's cap, because the supervisor's cap is the smaller
  one; a dispatched order is pending or its outcome is the last entry under
  its id in the log; the round's orders and the deferred ones have not succeeded and do not
  overlap.  That the log may already hold entries of earlier turns and rounds is why the
  invariant speaks of *last* entries.
- *Budget*.  A bound on the sum of what interleaved loops spend is far from
  inductive.  The proof gives each loop two tokens, one for a call begun and one for the
  last call that is made without a check.  While its meter is below the
  limit a session holds all of its tokens; afterwards only those that its loops can
  still use.  `CreditInv` states that what is spent, plus the value of the tokens
  held, stays below the limit plus the value of all tokens.  Each answer takes one token and costs at
  most `MaxCost`; a seed that meets an exhausted total gets no tokens; one
  that could not read the store gets a set of its own, which is the `faults.reads` of the
  bound.  For the tenant this needs `LagInv`, that a meter never runs ahead of the store.
  `CutOffStays` needs `CutInv`, that a cut-off turn's meter is of this turn and at its
  limit, and that a store's total never falls.
- *Scheduler*.  That a row's count never passes `max_retries` bounds nothing: the
  count is reset by every success, while retries of earlier failures are still scheduled, run
  and count on it.  `AccountInv` is an account: every regular run and every removal of a row pays for
  `max_retries` retries (`Paid`), each run and each scheduled retry alive (`Live`) holds back that
  much, and what has been granted is covered by the rest and the count.  A failing run gives up its share as it
  grants one retry; a success gives up its share as it resets the count.  A report that raises after the reset
  pays for a round of its own (`raised`).
  `OnceInv` says that a one-time registration is of a row that has not fired, and that a
  row whose date lies ahead has not fired either: `_register_job` looks at the date before it registers.
  `PauseInv` says where a pause can be that the store already shows: in a call that has
  written the row and not posted, in the queue as the last command of its name, or applied, and then nothing is
  registered.  A process that is down has nothing queued or registered (`DownInv`), and a start registers active rows only.
- *Batch*.  `StageInv` says that what was fetched is of a completed job's family, which
  does not change any more, so that what the merge takes is what was delivered; `Books`
  relates calls, prices and results in each phase.
- *AG-UI*.  The helpers call one another on one context, so the lemmas are about contexts: one that is
  `Sound` (what is open has an open owner, the next id is new) stays so, and if
  the client agreed with it on what is open it agrees with what the helper returns
  (`Carries`).  `StreamInv` adds that a call a branch waits on has begun, which makes its answer
  legal.  `OpenIsOwned` and `StateInSync` need no agreement and hold after lost events too.

`OwnerStable`, `CutOffStays` and `OnceAtMostOnce` are action properties; they follow from the invariant
and one step.

Every safety property of the passing runs has its theorem.  Only model-checked are the properties that
need fairness: the liveness of `ImplementsTurnContract`, `WorkingSettles`, `ListingEnds`, `TurnEnds`, `FailureSettles`,
`RunEnds` and `OpenIsEnded`.  No theorem has a hypothesis beyond the named assumption of its module; where a property has an exception
(ids displaced, bodies of unscoped callers, retries lost, calls crossed, events lost) the exception is a part of the property, with the history
variable that tells when it begins and ends.

Liveness under fairness, `ENABLED`, induction over data and recursive operators are outside what the prover
reaches.  Where a proof needs the least or the last of something (the place of a task, the next token) it takes the least
element of a set of naturals or the properties of a cardinality, so the modules that are proved about are written with sets,
`Head` and `Tail` instead of sorts and filters.

## 6. Findings

Each is a run that TLC finds violated, of a sentence in the repository.

1. `supervisor_silent`: `_loop_break_decision` says that the supervisor never routes to two specialists in a row for one
   user turn.  It recognises an answer by `current_agent`, and these members answer without writing it: the six pattern nodes
   (`patterns/nodes.py`), the five domain pipelines (`code_review`, `customer_service`, `data_etl`, `document_generation`,
   `debate_consensus`), Kokoro, the multimodal pipeline, and Skynet when its first planning fails.  All of the first eleven are registered whenever
   `enable_subgraphs` is on.  With the intent matcher the same member is routed to until the history's window has lost the
   message or the recursion limit is reached.
2. `a2a_cancel`: a task cancelled while its graph runs becomes `COMPLETED` when the graph answers.
3. `cron_resume`: a job that was paused when the process started is not registered with APScheduler, and
   `cron_resume` finds nothing to resume: active in the store, it does not fire before the next start.
4. `agui_sends`: the `Send` branches of one node share an owner, so a chunk of one closes the
   text another is streaming, and the first to return closes them all; the docstring says they close independently.

Seen while modelling, and part of the modules without a run of their own:

- With the subgraphs off the model may answer a pipeline's name, which `MEMBERS` holds and the graph
  does not: the run raises at the edge.  `OnlyPipelinesMissed` says that this is the only such case.
- The last call of a loop (`_final_llm_turn`) is made without a look at the hard cap; `Overshoot` counts it.
- A call that the tenant's store failed to take is counted in the meter, and forgotten with the next one that the store
  takes, which is why `CutOffStays` excepts turns with such a failure.
- A notification that raises after a success was recorded (a Slack answer that is no JSON, an invalid URL: the notifier catches HTTP
  errors only) is taken for a failed run, and the count just reset grants another round of retries.  `RetriesBounded` counts these
  reports: with one that raises each time there is no end.
- A line of a batch's result file that does not parse, or that `splitlines()` cuts at a separator inside an answer, is
  skipped; its request, answered and billed, is `missing_result` and run again.  `NeverRerun` is for what was delivered.
- `finish_run` and `error_run` empty the translator's context before they build the last events, and send none of them if that
  raises: the client is left with open items.
- Two tools may write the store in one order and post in the other; store and schedule then
  disagree until the next start (`PausedIsOff` and `ActiveIsOn` except names whose calls overlapped).
- A retry outlives the pause or the removal of its job, and a one-time run deletes the row of its name, whichever job has it by then.
- Without a fallback the first failed family raises out of the merge: what the families after it had fetched is
  in no record of the meter.  A poll that raises is taken for a failed job, whose requests run again while it goes on.
- `metadata.skynet.goal`, which `plan_node` prefers to the user's message, outlives the turn: the second swarm turn of a thread works on the
  first one's goal.  `round` and `error` outlive it too: the second turn may begin in the last
  round and reports rounds it did not run; a planning failure is hidden by
  an earlier turn's results.  The token meter is the process's, not the run's.
- Deferred orders that were never dispatched count an attempt in the code; attempts are left out of the model.
- `pending_tasks` and `parallel_results` are never emptied: a later turn's fan-out repeats an earlier plan.
- `budget_scope = "session"` acts like `"turn"`: the supervisor seeds a fresh engine every turn, whatever the scope.
  A tenant's meter stays with the window of its seed.
- The A2A store evicts the record of a running task; its id is then free, and the first run's completion
  replaces the record of whoever took it (`OwnerStable` and `RunOwnsRecord` except the id while that run is on).  An unscoped send that began
  before a scoped caller took the id writes the body of the scoped task (`BodyAgrees` excepts what unscoped sends wrote).
- After an approval's interrupt a new message drops the paused node; its answer is lost with it.
- Two concurrent updates at equal times keep the listing correct, since the cursor compares ids too; a *refreshed* task may be listed twice or
  not at all, which nothing excludes.

## 7. What is not modelled

- Inside the modelled parts: the text of messages, plans and results; the hierarchical graph;
  context compaction (off by default, although it removes the human messages that the budget's turns count); memory recall and extraction;
  the inner nodes of the subgraphs, which are taken together as one node that appends some answers;
  wire conversion, screening, negotiation and audit of the A2A server; roles, envelopes
  and remote delivery of the swarm; the soft cap's advice, pricing and telemetry
  of the budget, and sessions without an id, which share one engine; how `react_loop` selects, screens and retries tools.
- Of the scheduler: ephemeral callables, time zones, the run history and the channels' wire formats.  Of the
  batch executor: the adapters' wire formats and prices.  Of the translator: the outcome, usage and result of
  `RUN_FINISHED`, metadata customs, the projection of `RAW` and the `include_*` options; tool calls without ids, an interrupt on a
  call that is still pending, and an exception in the midst of closing what is open.
- Of the swarm's properties, `NoOrderLost` speaks of `parallel_enabled` only: without it the dispatcher stages nothing.
- External, and modelled from how the code uses them: APScheduler's submission and misfires, a batch provider's
  jobs, the AG-UI protocol's rules, LangGraph's message stream, supersteps and barrier, its
  checkpointer and recursion limit, SQLite's atomic upsert, the calendar, and the host.
- Asyncio tasks interleave between awaits only, so what a coroutine does between
  two awaits is one action.  Threads and processes are modelled where the code shares state among
  them: the tenant store, the scheduler's tools.
- The rest of the second table of the inventory.

## 8. Plan

In the order of the system's weight; each module comes with its own run, mutants and,
where a safety property is worth it, a proofs module.

1. Done: `SupervisorTurn` with `TurnContract`, `A2ATasks`, `A2APaging`, `SkynetSwarm`, `TurnBudget`, `CronJobs`,
   `BatchRuns`, `AgUiRun`, and the eight proofs modules.
2. `McpConnection`: who holds a session holds an open one; attempts are bounded; a cleanup
   is final.  Theorem: the flag implies a session.
3. `GatewayQuota`: overshoot of a window by concurrent calls, with the token argument of `TurnBudget`.
4. `MemoryForget`, `AuditChain` and `CompilerWaves`.
5. Compositions: compaction with `TurnBudget` (the turn's signature under removal of human messages),
   hierarchical supervisors with `SupervisorTurn`, an abstract task
   lifecycle that `A2ATasks` implements.
6. Proofs: the safety properties of the modules to come; the abstract task lifecycle of item 5,
   with `StoreEffects` as the step lemma of its refinement.
