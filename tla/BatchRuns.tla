------------------------------ MODULE BatchRuns ------------------------------
(***************************************************************************)
(* One run of the batch executor (routing/batch.py): requests grouped by   *)
(* provider family, one job per family submitted, polled and fetched       *)
(* concurrently, then the families merged and what is left over run        *)
(* synchronously.  The provider bills what a job answers, whether or not   *)
(* the executor learns of it; the meter is told once a result is taken.    *)
(*                                                                         *)
(* A job is what providers/batch_adapters.py makes of a provider's states: *)
(* running, completed, failed or expired.  A cancelled job ends like any   *)
(* other, whatever it has answered by then.  Lines of its results that do  *)
(* not parse are skipped, so an answer that was billed may not arrive.     *)
(***************************************************************************)
EXTENDS Naturals, FiniteSets

CONSTANTS
    Requests,     \* custom_ids
    Families,     \* provider families with an adapter
    FamilyOf,     \* the family of each request, or None
    Workers,      \* settings.parallel_max_workers
    MaxAttempts,  \* _RESULTS_MAX_ATTEMPTS
    None          \* no family, no result yet

BatchRunsAssumption ==
    /\ IsFiniteSet(Requests)
    /\ None \notin Families \cup {"content", "error"}
    /\ FamilyOf \in [Requests -> Families \cup {None}]
    /\ Workers \in Nat \ {0} /\ MaxAttempts \in Nat \ {0}

ASSUME BatchRunsAssumption

Args == [deadline : BOOLEAN, fallback : BOOLEAN, excluded : SUBSET Requests]
Stages == {"off", "submitting", "polling", "fetching",
           "completed", "unavailable", "failed"}
Merged == {"off", "completed", "unavailable", "failed"}
Jobs == [state : {"none", "running", "completed", "failed", "expired"},
         answered : SUBSET Requests]
Syncs == {"no", "waiting", "calling", "content", "error"}

VARIABLES
    args,      \* what run() was called with; excluded: _exclusion gave a reason
    phase,     \* where run() stands
    stage,     \* where _run_family of each family stands
    job,       \* the provider's job of each family
    late,      \* families whose deadline has passed
    attempts,  \* failed fetches of each family's results
    fetched,   \* the answers of each family's job that arrived
    sync,      \* the synchronous call of each request
    result,    \* results
    batched,   \* requests metered at batch price
    listed     \* requests metered at list price

vars == <<args, phase, stage, job, late, attempts, fetched, sync, result, batched, listed>>

\* groups[f]: the requests of the family that may be uploaded.
Batched(f) == {r \in Requests \ args.excluded : FamilyOf[r] = f}
Groups == {f \in Families : Batched(f) # {}}
Batchable == UNION {Batched(f) : f \in Families}

Init ==
    /\ args \in Args
    /\ phase = "batching"
    /\ stage = [f \in Families |-> IF f \in Groups THEN "submitting" ELSE "off"]
    /\ job = [f \in Families |-> [state |-> "none", answered |-> {}]]
    /\ late = {}
    /\ attempts = [f \in Families |-> 0]
    /\ fetched = [f \in Families |-> {}]
    /\ sync = [r \in Requests |-> "no"]
    /\ result = [r \in Requests |-> None]
    /\ batched = {} /\ listed = {}

Becomes(f, s) == stage' = [stage EXCEPT ![f] = s]
Runs(f) == job' = [job EXCEPT ![f].state = "running"]

-----------------------------------------------------------------------------
(* The provider and the clock. *)

JobEnds(f) ==
    /\ job[f].state = "running"
    /\ \E s \in {"completed", "failed", "expired"}, answered \in SUBSET Batched(f) :
          job' = [job EXCEPT ![f] = [state |-> s, answered |-> answered]]
    /\ UNCHANGED <<args, phase, stage, late, attempts, fetched, sync, result, batched, listed>>

DeadlinePasses(f) ==
    /\ args.deadline /\ stage[f] \in {"polling", "fetching"} /\ f \notin late
    /\ late' = late \cup {f}
    /\ UNCHANGED <<args, phase, stage, job, attempts, fetched, sync, result, batched, listed>>

-----------------------------------------------------------------------------
(* _run_family. *)

\* A submission that raises may have reached the provider.
Submit(f) ==
    /\ stage[f] = "submitting"
    /\ \/ Becomes(f, "polling") /\ Runs(f)
       \/ Becomes(f, "failed") /\ Runs(f)
       \/ Becomes(f, "failed") /\ UNCHANGED job
    /\ UNCHANGED <<args, phase, late, attempts, fetched, sync, result, batched, listed>>

\* Past the deadline a job still running is cancelled and given up.
Poll(f) ==
    /\ stage[f] = "polling"
    /\ \/ job[f].state = "completed" /\ Becomes(f, "fetching")
       \/ job[f].state \in {"failed", "expired"} /\ Becomes(f, "failed")
       \/ job[f].state = "running" /\ f \in late /\ Becomes(f, "failed")
    /\ UNCHANGED <<args, phase, job, late, attempts, fetched, sync, result, batched, listed>>

PollRaises(f) ==
    /\ stage[f] = "polling"
    /\ Becomes(f, "failed")
    /\ UNCHANGED <<args, phase, job, late, attempts, fetched, sync, result, batched, listed>>

\* The results arrive, save those on lines that _iter_jsonl and _parse_line skip.
Fetch(f) ==
    /\ stage[f] = "fetching"
    /\ Becomes(f, "completed")
    /\ \E arrived \in SUBSET job[f].answered : fetched' = [fetched EXCEPT ![f] = arrived]
    /\ UNCHANGED <<args, phase, job, late, attempts, sync, result, batched, listed>>

\* A variant of FetchRaises that is off by one.
FetchRaisesOneMore(f) ==
    /\ stage[f] = "fetching"
    /\ IF args.deadline
       THEN f \in late /\ Becomes(f, "unavailable") /\ UNCHANGED attempts
       ELSE /\ attempts' = [attempts EXCEPT ![f] = @ + 1]
            /\ IF attempts[f] >= MaxAttempts
               THEN Becomes(f, "unavailable") ELSE UNCHANGED stage
    /\ UNCHANGED <<args, phase, job, late, fetched, sync, result, batched, listed>>

\* A variant of FetchRaises that retries past the deadline.
FetchRaisesForEver(f) ==
    /\ stage[f] = "fetching" /\ ~args.deadline
    /\ attempts' = [attempts EXCEPT ![f] = @ + 1]
    /\ IF attempts[f] + 1 >= MaxAttempts
       THEN Becomes(f, "unavailable") ELSE UNCHANGED stage
    /\ UNCHANGED <<args, phase, job, late, fetched, sync, result, batched, listed>>

\* Retried until the deadline, or MaxAttempts times without one.
FetchRaises(f) ==
    /\ stage[f] = "fetching"
    /\ IF args.deadline
       THEN f \in late /\ Becomes(f, "unavailable") /\ UNCHANGED attempts
       ELSE /\ attempts' = [attempts EXCEPT ![f] = @ + 1]
            /\ IF attempts[f] + 1 >= MaxAttempts
               THEN Becomes(f, "unavailable") ELSE UNCHANGED stage
    /\ UNCHANGED <<args, phase, job, late, fetched, sync, result, batched, listed>>

-----------------------------------------------------------------------------
(* run(). *)

Failed == {f \in Groups : stage[f] = "failed"}

\* Requests whose results the merge takes from the families fs.
Taken(fs) == UNION {Batched(f) \cap fetched[f] : f \in {g \in fs : stage[g] = "completed"}}

\* Requests the merge gives an error: their job completed and was billed.
Unavailable(fs) == UNION {Batched(f) : f \in {g \in fs : stage[g] = "unavailable"}}

\* The families fs are merged: the answers that arrived are metered and taken.
MergeAlso(fs, errors, also) ==
    /\ batched' = batched \cup Taken(fs)
    /\ result' = [r \in Requests |-> IF r \in Taken(fs) THEN "content"
                                     ELSE IF r \in errors \cup also THEN "error"
                                     ELSE result[r]]

AllMerged == phase = "batching" /\ \A f \in Families : stage[f] \in Merged

\* Without a fallback the first family whose job failed ends the run; those
\* before it, in the order of the requests, have been merged.
MergeRaises ==
    /\ AllMerged /\ Failed # {} /\ ~args.fallback
    /\ \E before \in SUBSET (Groups \ Failed) :
          MergeAlso(before, Unavailable(before), {})
    /\ phase' = "raised"
    /\ UNCHANGED <<args, stage, job, late, attempts, fetched, sync, listed>>

\* A variant of Left that runs the unavailable requests again.
LeftUnavailable == Requests \ Taken(Groups)

\* Requests left for synchronous calls.
Left == Requests \ (Taken(Groups) \cup Unavailable(Groups))

Merge ==
    /\ AllMerged /\ (Failed = {} \/ args.fallback)
    /\ MergeAlso(Groups, Unavailable(Groups), IF args.fallback THEN {} ELSE Left)
    /\ IF args.fallback /\ Left # {}
       THEN /\ phase' = "syncing"
            /\ sync' = [r \in Requests |-> IF r \in Left THEN "waiting" ELSE "no"]
       ELSE phase' = "returned" /\ UNCHANGED sync
    /\ UNCHANGED <<args, stage, job, late, attempts, fetched, listed>>

Calling == {r \in Requests : sync[r] = "calling"}

SyncBegins(r) ==
    /\ sync[r] = "waiting" /\ Cardinality(Calling) < Workers
    /\ sync' = [sync EXCEPT ![r] = "calling"]
    /\ UNCHANGED <<args, phase, stage, job, late, attempts, fetched, result, batched, listed>>

\* A variant of SyncEnds that meters failed calls too.
SyncEndsMetered(r) ==
    /\ sync[r] = "calling"
    /\ \E s \in {"content", "error"} : sync' = [sync EXCEPT ![r] = s]
    /\ listed' = listed \cup {r}
    /\ UNCHANGED <<args, phase, stage, job, late, attempts, fetched, result, batched>>

SyncEnds(r) ==
    /\ sync[r] = "calling"
    /\ \/ sync' = [sync EXCEPT ![r] = "content"] /\ listed' = listed \cup {r}
       \/ sync' = [sync EXCEPT ![r] = "error"] /\ UNCHANGED listed
    /\ UNCHANGED <<args, phase, stage, job, late, attempts, fetched, result, batched>>

\* The calls are gathered.
Return ==
    /\ phase = "syncing"
    /\ \A r \in Requests : sync[r] \in {"no", "content", "error"}
    /\ result' = [r \in Requests |-> IF sync[r] = "no" THEN result[r] ELSE sync[r]]
    /\ phase' = "returned"
    /\ UNCHANGED <<args, stage, job, late, attempts, fetched, sync, batched, listed>>

-----------------------------------------------------------------------------
Next ==
    \/ \E f \in Families :
          \/ JobEnds(f) \/ DeadlinePasses(f)
          \/ Submit(f) \/ Poll(f) \/ PollRaises(f) \/ Fetch(f) \/ FetchRaises(f)
    \/ MergeRaises \/ Merge
    \/ \E r \in Requests : SyncBegins(r) \/ SyncEnds(r)
    \/ Return

\* Calls return or raise, time passes, and a job ends: providers expire a
\* batch after 24 hours.  No fetch has to succeed: the results that never come
\* are those that the executor must give up.
Fairness ==
    /\ \A f \in Families :
          /\ WF_vars(JobEnds(f)) /\ WF_vars(DeadlinePasses(f))
          /\ WF_vars(Submit(f)) /\ WF_vars(Poll(f))
          /\ WF_vars(FetchRaises(f))
    /\ WF_vars(MergeRaises \/ Merge)
    /\ \A r \in Requests : WF_vars(SyncBegins(r)) /\ WF_vars(SyncEnds(r))
    /\ WF_vars(Return)

Spec == Init /\ [][Next]_vars /\ Fairness

-----------------------------------------------------------------------------
(* Every variable keeps its type. *)
TypeOK ==
    /\ args \in Args
    /\ phase \in {"batching", "syncing", "returned", "raised"}
    /\ stage \in [Families -> Stages]
    /\ job \in [Families -> Jobs]
    /\ late \subseteq Families
    /\ attempts \in [Families -> 0..MaxAttempts]
    /\ fetched \in [Families -> SUBSET Requests]
    /\ sync \in [Requests -> Syncs]
    /\ result \in [Requests -> {"content", "error", None}]
    /\ batched \subseteq Requests /\ listed \subseteq Requests

\* The synchronous fallback runs nothing again that a completed job's results
\* delivered, and nothing of a completed job whose results could not be fetched
\* ("Already billed by the provider: never re-run synchronously", batch.py:188).
\* What it does run again, billed or not, are answers whose line was skipped
\* (missing_result, batch.py:208) and jobs the executor never saw completed: a
\* poll that raised or a deadline that passed is taken for a failed job.
NeverRerun ==
    \A f \in Families : \A r \in Batched(f) :
        stage[f] = "unavailable" \/ r \in fetched[f] => sync[r] = "no"

\* Every result run() returns with content has been metered, once and at the price
\* of the path it came by, and no result with an error has.
MeteredAsReturned ==
    /\ batched \cap listed = {}
    /\ phase = "returned" => \A r \in Requests :
          /\ result[r] # None
          /\ result[r] = "content" <=> r \in batched \cup listed
          /\ r \in listed <=> sync[r] = "content"

\* A run ends: every request has its result, or the executor has raised.
RunEnds == <>(phase \in {"returned", "raised"})

=============================================================================
