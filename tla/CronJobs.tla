------------------------------ MODULE CronJobs ------------------------------
(***************************************************************************)
(* The scheduler: the SQLite store of jobs (scheduler/cron_manager.py),    *)
(* the APScheduler executor (scheduler/executor.py) and the cron tools     *)
(* (agents/tools.py).  A tool writes the store on a worker thread, then    *)
(* posts a command to the executor's loop; the executor fires the jobs     *)
(* registered with it, and grants retries to the runs that fail.  The      *)
(* store survives the process, everything else is in memory.               *)
(*                                                                         *)
(* A name may be removed and added again: gen numbers the rows a name has  *)
(* had.  APScheduler keeps one run per id: id 0 is the job's own, id n     *)
(* stands for "<name>_retry_n".  What a run does between two awaits is one *)
(* step; SQLite's statements succeed.                                      *)
(***************************************************************************)
EXTENDS Naturals, Sequences, FiniteSets

CONSTANTS
    Jobs,          \* names of jobs
    Callers,       \* threads that call the cron tools
    MaxRetries,    \* CRON_ADD_DEFAULT_MAX_RETRIES
    MaxTicks,      \* bound: regular runs of a name
    MaxAdds,       \* bound: rows of a name
    MaxFaults,     \* bound: ends of the process and raising reports of a name
    MaxQueue,      \* bound: posted commands not yet applied
    None           \* no row, no registration, no call

Gens == 1..MaxAdds
Ids == 0..MaxRetries
Phases == {"idle", "agent", "reporting", "delivering", "delivering_once", "alerting"}

Rows == [gen : Gens, once : BOOLEAN, active : BOOLEAN, retries : 0..MaxRetries]
Entries == [gen : Gens, once : BOOLEAN, paused : BOOLEAN]
Commands == [op : {"add", "pause", "resume", "remove"}, job : Jobs,
             entry : Entries \cup {None}]

CronJobsAssumption ==
    /\ MaxRetries \in Nat /\ MaxTicks \in Nat /\ MaxAdds \in Nat
    /\ MaxFaults \in Nat /\ MaxQueue \in Nat
    /\ None \notin Rows \cup Entries \cup Commands

ASSUME CronJobsAssumption

VARIABLES
    row,      \* cron_jobs: the stored row of each name
    sched,    \* the name's registration with APScheduler
    retry,    \* retries scheduled with APScheduler and not yet due
    run,      \* where the run of each id stands
    queue,    \* commands posted to the loop, oldest first
    tool,     \* the tool call of each thread, between its write and its post
    up,       \* whether an executor runs
    ahead,    \* one-time rows whose date lies ahead
    adds,     \* rows each name has had
    halts,    \* ends of the process so far
    \* what happened, for the properties
    ticks,    \* regular runs begun
    raised,   \* reports of a success that raised
    granted,  \* retries scheduled, counted up to GrantCap
    fired,    \* one-time rows that have fired
    lost,     \* whether a retry or a run got lost since the count was last 0
    crossed   \* whether calls on the name have overlapped in this process

store == <<row, ahead, adds>>
memory == <<sched, retry, run, queue, tool, up, halts>>
history == <<ticks, raised, granted, fired, lost, crossed>>
vars == <<store, memory, history>>

Init ==
    /\ row = [j \in Jobs |-> None]
    /\ sched = [j \in Jobs |-> None]
    /\ retry = [j \in Jobs |-> {}]
    /\ run = [j \in Jobs |-> [i \in Ids |-> "idle"]]
    /\ queue = <<>>
    /\ tool = [c \in Callers |-> None]
    /\ up = FALSE
    /\ ahead = [j \in Jobs |-> {}]
    /\ adds = [j \in Jobs |-> 0]
    /\ halts = 0
    /\ ticks = [j \in Jobs |-> 0]
    /\ raised = [j \in Jobs |-> 0]
    /\ granted = [j \in Jobs |-> 0]
    /\ fired = [j \in Jobs |-> {}]
    /\ lost = [j \in Jobs |-> FALSE]
    /\ crossed = [j \in Jobs |-> FALSE]

Count(j) == IF row[j] = None THEN 0 ELSE row[j].retries
Limit(r) == IF r.once THEN 0 ELSE MaxRetries
GrantCap == MaxRetries * (MaxTicks + MaxAdds + MaxFaults) + 1

-----------------------------------------------------------------------------
(* The tools.  Each writes the store, and posts what the executor has to do. *)

Called(c, op, j, entry) ==
    /\ tool' = [tool EXCEPT ![c] = [op |-> op, job |-> j, entry |-> entry]]
    /\ crossed' = [crossed EXCEPT ![j] =
                     @ \/ \E d \in Callers : tool[d] # None /\ tool[d].job = j]

CallAdd(c, j, once) ==
    /\ tool[c] = None /\ row[j] = None /\ adds[j] < MaxAdds
    /\ LET g == adds[j] + 1 IN
       /\ adds' = [adds EXCEPT ![j] = g]
       /\ row' = [row EXCEPT ![j] =
                    [gen |-> g, once |-> once, active |-> TRUE, retries |-> 0]]
       /\ ahead' = [ahead EXCEPT ![j] = IF once THEN @ \cup {g} ELSE @]
       /\ Called(c, "add", j, [gen |-> g, once |-> once, paused |-> FALSE])
    /\ UNCHANGED <<sched, retry, run, queue, up, halts, ticks, raised, granted, fired, lost>>

CallPause(c, j) ==
    /\ tool[c] = None /\ row[j] # None
    /\ row' = [row EXCEPT ![j].active = FALSE]
    /\ Called(c, "pause", j, None)
    /\ UNCHANGED <<ahead, adds, sched, retry, run, queue, up, halts, ticks, raised, granted, fired, lost>>

\* A one-time schedule is no cron expression: its next run cannot be computed
\* and the call fails before it writes.
CallResume(c, j) ==
    /\ tool[c] = None /\ row[j] # None /\ ~row[j].once
    /\ row' = [row EXCEPT ![j].active = TRUE]
    /\ Called(c, "resume", j, None)
    /\ UNCHANGED <<ahead, adds, sched, retry, run, queue, up, halts, ticks, raised, granted, fired, lost>>

CallRemove(c, j) ==
    /\ tool[c] = None /\ row[j] # None
    /\ row' = [row EXCEPT ![j] = None]
    /\ Called(c, "remove", j, None)
    /\ UNCHANGED <<ahead, adds, sched, retry, run, queue, up, halts, ticks, raised, granted, fired, lost>>

\* Without an executor nothing is posted.
Post(c) ==
    /\ tool[c] # None /\ Len(queue) < MaxQueue
    /\ queue' = IF up THEN Append(queue, tool[c]) ELSE queue
    /\ tool' = [tool EXCEPT ![c] = None]
    /\ UNCHANGED <<store, sched, retry, run, up, halts, history>>

-----------------------------------------------------------------------------
(* The executor's loop applies the commands in the order they were posted. *)

Expired(j, e) == e.once /\ e.gen \notin ahead[j]

\* A variant of ApplyAdd that does not look at the date.
ApplyAddAnyDate(j, e) == sched' = [sched EXCEPT ![j] = e] /\ UNCHANGED row

\* The registration of a date gone by deletes the row of that name instead.
ApplyAdd(j, e) ==
    IF Expired(j, e)
    THEN row' = [row EXCEPT ![j] = None] /\ UNCHANGED sched
    ELSE sched' = [sched EXCEPT ![j] = e] /\ UNCHANGED row

\* A name that is not registered is logged and left alone.
ApplyPaused(j, paused) ==
    /\ sched' = IF sched[j] = None THEN sched ELSE [sched EXCEPT ![j].paused = paused]
    /\ UNCHANGED row

ApplyRemove(j) == sched' = [sched EXCEPT ![j] = None] /\ UNCHANGED row

Apply ==
    /\ queue # <<>>
    /\ queue' = Tail(queue)
    /\ LET q == Head(queue) IN
       \/ q.op = "add" /\ ApplyAdd(q.job, q.entry)
       \/ q.op = "pause" /\ ApplyPaused(q.job, TRUE)
       \/ q.op = "resume" /\ ApplyPaused(q.job, FALSE)
       \/ q.op = "remove" /\ ApplyRemove(q.job)
    /\ UNCHANGED <<ahead, adds, retry, run, tool, up, halts, history>>

-----------------------------------------------------------------------------
(* The clock. *)

DatePasses(j, g) ==
    /\ g \in ahead[j]
    /\ ahead' = [ahead EXCEPT ![j] = @ \ {g}]
    /\ UNCHANGED <<row, adds, memory, history>>

Begin(j, i) == run' = [run EXCEPT ![j][i] = "agent"]

\* A tick that finds the job's last run still going is skipped.
Tick(j) ==
    /\ sched[j] # None /\ ~sched[j].once /\ ~sched[j].paused
    /\ run[j][0] = "idle" /\ ticks[j] < MaxTicks
    /\ Begin(j, 0)
    /\ ticks' = [ticks EXCEPT ![j] = @ + 1]
    /\ UNCHANGED <<store, sched, retry, queue, tool, up, halts, raised, granted, fired, lost, crossed>>

\* A one-time job is off the schedule as soon as it is due, whether it could
\* be run or the name's last run is still going.
TickOnce(j) ==
    /\ sched[j] # None /\ Expired(j, sched[j]) /\ ~sched[j].paused
    /\ sched' = [sched EXCEPT ![j] = None]
    /\ \/ /\ run[j][0] = "idle" /\ ticks[j] < MaxTicks
          /\ Begin(j, 0)
          /\ ticks' = [ticks EXCEPT ![j] = @ + 1]
          /\ fired' = [fired EXCEPT ![j] = @ \cup {sched[j].gen}]
       \/ run[j][0] # "idle" /\ UNCHANGED <<run, ticks, fired>>
    /\ UNCHANGED <<store, retry, queue, tool, up, halts, raised, granted, lost, crossed>>

\* A count that may no longer have a retry behind it.
Lose(j) == lost' = [lost EXCEPT ![j] = @ \/ Count(j) > 0]

RetryFires(j, i) ==
    /\ i \in retry[j]
    /\ retry' = [retry EXCEPT ![j] = @ \ {i}]
    /\ IF run[j][i] = "idle"
       THEN Begin(j, i) /\ UNCHANGED lost
       ELSE Lose(j) /\ UNCHANGED run
    /\ UNCHANGED <<store, sched, queue, tool, up, halts, ticks, raised, granted, fired, crossed>>

\* A loop that is blocked for longer than the grace time, a second, misses
\* what was due: a retry, or a one-time job.
MisfireRetry(j, i) ==
    /\ i \in retry[j]
    /\ retry' = [retry EXCEPT ![j] = @ \ {i}]
    /\ Lose(j)
    /\ UNCHANGED <<store, sched, run, queue, tool, up, halts, ticks, raised, granted, fired, crossed>>

MisfireOnce(j) ==
    /\ sched[j] # None /\ Expired(j, sched[j]) /\ ~sched[j].paused
    /\ sched' = [sched EXCEPT ![j] = None]
    /\ UNCHANGED <<store, retry, run, queue, tool, up, halts, history>>

-----------------------------------------------------------------------------
(* A run. *)

Goes(j, i, phase) == run' = [run EXCEPT ![j][i] = phase]

\* set_retry_count(name, 0), on the row that has the name now, if any.
ZeroCount(j) ==
    /\ row' = IF row[j] = None THEN row ELSE [row EXCEPT ![j].retries = 0]
    /\ lost' = [lost EXCEPT ![j] = FALSE]

\* A variant of Succeed that leaves the count as it is.
SucceedKeepsCount(j, i) ==
    /\ run[j][i] = "agent"
    /\ Goes(j, i, "reporting")
    /\ UNCHANGED <<store, sched, retry, queue, tool, up, halts, history>>

\* The agent answers: the success is recorded, then reported.
Succeed(j, i) ==
    /\ run[j][i] = "agent"
    /\ ZeroCount(j)
    /\ Goes(j, i, "reporting")
    /\ UNCHANGED <<ahead, adds, sched, retry, queue, tool, up, halts, ticks, raised, granted, fired, crossed>>

\* The agent raises or apologises, or the report of a recorded success raises: the
\* notifier decodes Slack's reply and builds its messages outside of its handlers.
MayFail(j, i) ==
    \/ run[j][i] = "agent" /\ UNCHANGED raised
    \/ /\ run[j][i] = "reporting" /\ halts + raised[j] < MaxFaults
       /\ raised' = [raised EXCEPT ![j] = @ + 1]

\* A variant of RetryLeft that is off by one.
RetryLeftOneMore(j) == row[j] # None /\ row[j].retries <= Limit(row[j])

RetryLeft(j) == row[j] # None /\ row[j].retries < Limit(row[j])

\* A variant of Grant that does not store the count.
GrantUncounted(j) ==
    /\ retry' = [retry EXCEPT ![j] = @ \cup {row[j].retries + 1}]
    /\ granted' = [granted EXCEPT ![j] = IF @ < GrantCap THEN @ + 1 ELSE @]
    /\ UNCHANGED row

Grant(j) ==
    /\ row' = [row EXCEPT ![j].retries = @ + 1]
    /\ retry' = [retry EXCEPT ![j] = @ \cup {row[j].retries + 1}]
    /\ granted' = [granted EXCEPT ![j] = IF @ < GrantCap THEN @ + 1 ELSE @]

FailAndRetry(j, i) ==
    /\ MayFail(j, i) /\ RetryLeft(j)
    /\ Grant(j)
    /\ Goes(j, i, "idle")
    /\ UNCHANGED <<ahead, adds, sched, queue, tool, up, halts, ticks, fired, lost, crossed>>

\* A variant of FailForGood that leaves the count as it is.
FailForGoodKeepsCount(j, i) ==
    /\ MayFail(j, i)
    /\ Goes(j, i, "alerting")
    /\ UNCHANGED <<store, sched, retry, queue, tool, up, halts, ticks, granted, fired, lost, crossed>>

\* Retries are used up, or the error is permanent: the failure is notified.
FailForGood(j, i) ==
    /\ MayFail(j, i)
    /\ ZeroCount(j)
    /\ Goes(j, i, "alerting")
    /\ UNCHANGED <<ahead, adds, sched, retry, queue, tool, up, halts, ticks, granted, fired, crossed>>

Alerted(j, i) ==
    /\ run[j][i] = "alerting"
    /\ Goes(j, i, "idle")
    /\ UNCHANGED <<store, sched, retry, queue, tool, up, halts, history>>

\* The success is reported; the row read now says whether the output is
\* delivered to a channel and whether the job is a one-time job.
Reported(j, i) ==
    /\ run[j][i] = "reporting"
    /\ \/ /\ row[j] # None
          /\ Goes(j, i, IF row[j].once THEN "delivering_once" ELSE "delivering")
          /\ UNCHANGED row
       \/ /\ Goes(j, i, "idle")
          /\ row' = IF row[j] # None /\ row[j].once
                    THEN [row EXCEPT ![j] = None] ELSE row
    /\ UNCHANGED <<ahead, adds, sched, retry, queue, tool, up, halts, history>>

\* The output is delivered, or its delivery failed and was logged.  A one-time
\* job is deleted by its name.
Delivered(j, i) ==
    /\ run[j][i] \in {"delivering", "delivering_once"}
    /\ Goes(j, i, "idle")
    /\ row' = IF run[j][i] = "delivering_once" THEN [row EXCEPT ![j] = None] ELSE row
    /\ UNCHANGED <<ahead, adds, sched, retry, queue, tool, up, halts, history>>

-----------------------------------------------------------------------------
(* The process. *)

\* A variant of Start that registers paused rows too.
StartAll ==
    /\ ~up
    /\ up' = TRUE
    /\ sched' = [j \in Jobs |->
                   IF row[j] # None
                   THEN [gen |-> row[j].gen, once |-> row[j].once, paused |-> FALSE]
                   ELSE None]
    /\ UNCHANGED <<store, retry, run, queue, tool, halts, history>>

\* start(): active rows are registered, those of a date gone by are deleted.
Start ==
    /\ ~up
    /\ up' = TRUE
    /\ LET stale(j) == row[j] # None /\ row[j].active /\ Expired(j, row[j]) IN
       /\ row' = [j \in Jobs |-> IF stale(j) THEN None ELSE row[j]]
       /\ sched' = [j \in Jobs |->
                      IF row[j] # None /\ row[j].active /\ ~stale(j)
                      THEN [gen |-> row[j].gen, once |-> row[j].once, paused |-> FALSE]
                      ELSE None]
    /\ UNCHANGED <<ahead, adds, retry, run, queue, tool, halts, history>>

\* The process ends, by stop() or a crash, and takes its runs along.
Halt ==
    /\ up /\ \A j \in Jobs : halts + raised[j] < MaxFaults
    /\ halts' = halts + 1
    /\ up' = FALSE
    /\ sched' = [j \in Jobs |-> None]
    /\ retry' = [j \in Jobs |-> {}]
    /\ run' = [j \in Jobs |-> [i \in Ids |-> "idle"]]
    /\ queue' = <<>>
    /\ tool' = [c \in Callers |-> None]
    /\ lost' = [j \in Jobs |-> lost[j] \/ Count(j) > 0]
    /\ crossed' = [j \in Jobs |-> FALSE]
    /\ UNCHANGED <<store, ticks, raised, granted, fired>>

-----------------------------------------------------------------------------
Step(j, i) ==
    \/ Succeed(j, i) \/ FailAndRetry(j, i) \/ FailForGood(j, i)
    \/ Alerted(j, i) \/ Reported(j, i) \/ Delivered(j, i)

Next ==
    \/ \E c \in Callers, j \in Jobs :
          \/ \E once \in BOOLEAN : CallAdd(c, j, once)
          \/ CallPause(c, j) \/ CallResume(c, j) \/ CallRemove(c, j)
    \/ \E c \in Callers : Post(c)
    \/ Apply
    \/ \E j \in Jobs : Tick(j) \/ TickOnce(j) \/ MisfireOnce(j)
    \/ \E j \in Jobs, g \in Gens : DatePasses(j, g)
    \/ \E j \in Jobs, i \in Ids : RetryFires(j, i) \/ MisfireRetry(j, i) \/ Step(j, i)
    \/ Start \/ Halt

\* Runs end and due retries are handled; nothing makes a schedule tick, a
\* caller call or a process start.
Fairness ==
    /\ \A j \in Jobs, i \in Ids :
          /\ WF_vars(Step(j, i))
          /\ WF_vars(RetryFires(j, i) \/ MisfireRetry(j, i))
    /\ WF_vars(Apply)
    /\ \A c \in Callers : WF_vars(Post(c))

Spec == Init /\ [][Next]_vars /\ Fairness

-----------------------------------------------------------------------------
(* Every variable keeps its type. *)
TypeOK ==
    /\ row \in [Jobs -> Rows \cup {None}]
    /\ sched \in [Jobs -> Entries \cup {None}]
    /\ retry \in [Jobs -> SUBSET (Ids \ {0})]
    /\ run \in [Jobs -> [Ids -> Phases]]
    /\ queue \in Seq(Commands)
    /\ tool \in [Callers -> Commands \cup {None}]
    /\ up \in BOOLEAN
    /\ ahead \in [Jobs -> SUBSET Gens]
    /\ adds \in [Jobs -> 0..MaxAdds]
    /\ halts \in Nat
    /\ ticks \in [Jobs -> 0..MaxTicks]
    /\ raised \in [Jobs -> 0..MaxFaults]
    /\ granted \in [Jobs -> 0..GrantCap]
    /\ fired \in [Jobs -> SUBSET Gens]
    /\ lost \in [Jobs -> BOOLEAN]
    /\ crossed \in [Jobs -> BOOLEAN]

\* Rows of the name that are gone.
Removals(j) == IF row[j] = None THEN adds[j] ELSE adds[j] - 1

\* Although a job's regular runs and retries overlap and all count on one stored
\* counter, which a removed row takes along, _run_job grants no more than
\* max_retries retries for every regular run, every removal, and every success
\* whose report raised: that one is handled as a failure after it has reset the
\* counter, so the policy starts over (executor.py:465).
RetriesBounded ==
    \A j \in Jobs : granted[j] <= MaxRetries * (ticks[j] + Removals(j) + raised[j])

\* A stored retry count above zero has a scheduled retry or a run behind it that
\* will count on or reset it, unless one was lost to a misfire, to an id still
\* running or to the end of the process: `lost` excepts all three, until the
\* count is next reset.
CountBacked ==
    \A j \in Jobs : Count(j) > 0 /\ ~lost[j] =>
        retry[j] # {} \/ \E i \in Ids : run[j][i] = "agent"

\* No command is under way between the store and the executor.
Quiet == up /\ queue = <<>> /\ \A c \in Callers : tool[c] = None

\* Once the commands have been applied, a job paused in the store does not fire on
\* its schedule, through restarts, re-additions and resumes, as long as calls on
\* its name do not overlap: what two tools write in one order they may post in the
\* other.
PausedIsOff ==
    Quiet => \A j \in Jobs :
        ~crossed[j] /\ row[j] # None /\ ~row[j].active => sched[j] = None \/ sched[j].paused

\* A one-time job fires at most once, though it is registered again at every start
\* and by a late add_job, and its row is deleted only after a success.
OnceAtMostOnce ==
    [][\A j \in Jobs : fired'[j] = fired[j] =>
          ~(sched[j] # None /\ sched[j].once /\ ticks'[j] > ticks[j])]_vars

\* A failed job that was granted a retry comes to a success or to a notified
\* failure, unless a retry is lost to a misfire, to an id still running or to the
\* end of the process.  A count of 0 stands for settled: ZeroCount records both.
FailureSettles ==
    \A j \in Jobs : Count(j) > 0 ~> Count(j) = 0 \/ lost[j]

\* Once the commands have been applied, a job that is active in the store is on
\* the schedule: cron_resume "Resume a paused cron job."
ActiveIsOn ==
    Quiet => \A j \in Jobs :
        ~crossed[j] /\ row[j] # None /\ row[j].active /\ ~row[j].once =>
            sched[j] # None /\ ~sched[j].paused

=============================================================================
