------------------------------ MODULE A2ATasks ------------------------------
(***************************************************************************)
(* The inbound A2A server (prismal/a2a/server.py) and its bounded task     *)
(* store (prismal/a2a/task_store.py).  A send reserves a task id under a   *)
(* lock, runs the graph outside of it and records the outcome; cancels and *)
(* other sends interleave with the run.  The store keeps who owns a task   *)
(* and its state, the registry keeps the task's body.                      *)
(*                                                                         *)
(* A caller is <<org, principal>>, the scope the host resolved, or         *)
(* Unscoped: a host that passes no headers, on the path that predates the  *)
(* scopes.  Refused calls change nothing but the audit log and are left    *)
(* out, as are GetTask and ListTasks, which only read.                     *)
(***************************************************************************)
EXTENDS Naturals, FiniteSets, Sequences, SequencesExt

CONSTANTS
    TaskIds,          \* task ids callers choose or the server draws
    Owners,           \* scopes: pairs <<org, principal>>
    NoPrincipal,      \* the principal of a scope that names none
    Requests,         \* sends, each made once
    Versions,         \* protocol versions the settings admit: "0.3", "v1"
    UnscopedAllowed,  \* whether some callers come without headers
    Strict,           \* settings.a2a_strict
    MaxEntries,       \* capacity of InMemoryA2ATaskStore
    Unscoped,         \* the caller without headers
    None              \* no record, no body, no call

Callers == Owners \cup (IF UnscopedAllowed THEN {Unscoped} ELSE {})

Terminal == {"COMPLETED", "FAILED", "CANCELED"}

Records == [owner : Owners, state : Terminal \cup {"WORKING"}]
Bodies == [status : {"completed", "canceled"}, by : Callers]
Calls == [phase : {"running", "answered", "failed", "dropped"},
          caller : Callers, id : TaskIds]

A2ATasksAssumption ==
    /\ IsFiniteSet(TaskIds)
    /\ UnscopedAllowed \in BOOLEAN /\ Strict \in BOOLEAN
    /\ MaxEntries \in Nat \ {0}
    /\ Versions \subseteq {"0.3", "v1"}
    /\ Unscoped \notin Owners
    /\ None \notin Records \cup Bodies \cup Calls

ASSUME A2ATasksAssumption

VARIABLES
    record,  \* InMemoryA2ATaskStore._records
    order,   \* its ids, least recently put first
    body,    \* A2AServerHandler._tasks, with the caller whose run wrote it
    call,    \* the sends in flight and those over
    displaced  \* history: ids evicted under a scoped send that still runs

vars == <<record, order, body, call, displaced>>

Init ==
    /\ record = [i \in TaskIds |-> None]
    /\ order = <<>>
    /\ body = [i \in TaskIds |-> None]
    /\ call = [r \in Requests |-> None]
    /\ displaced = {}

-----------------------------------------------------------------------------
(* The store. *)

Recorded == {i \in TaskIds : record[i] # None}

\* The other ids, least recently put first.
Older(id) == RemoveFirst(order, id)

\* A variant of Evicted that measures the store before the insertion.
EvictedLate(id) ==
    IF Cardinality(Recorded) > MaxEntries THEN {Head(Older(id))} ELSE {}

\* The entry a put of id pushes out of a full store.
Evicted(id) ==
    IF Cardinality(Recorded \cup {id}) > MaxEntries THEN {Head(Older(id))} ELSE {}

\* A variant of Put that leaves the evicted task's body in the registry.
PutKeepingBodies(id, rec, bodies) ==
    /\ record' = [i \in TaskIds |->
                    IF i = id THEN rec
                    ELSE IF i \in Evicted(id) THEN None ELSE record[i]]
    /\ order' = Append(IF Evicted(id) = {} THEN Older(id) ELSE Tail(Older(id)), id)
    /\ body' = bodies

\* put: most recent, evicting the oldest record and its body beyond capacity.
Put(id, rec, bodies) ==
    /\ record' = [i \in TaskIds |->
                    IF i = id THEN rec
                    ELSE IF i \in Evicted(id) THEN None ELSE record[i]]
    /\ order' = Append(IF Evicted(id) = {} THEN Older(id) ELSE Tail(Older(id)), id)
    /\ body' = [i \in TaskIds |-> IF i \in Evicted(id) THEN None ELSE bodies[i]]

\* get: the record, when it belongs to the caller's org.
SameOrg(c, id) == record[id] # None /\ record[id].owner[1] = c[1]

\* _update_state: nothing for an unscoped caller or another org's record.
UpdateState(c, id, state, bodies) ==
    IF c # Unscoped /\ SameOrg(c, id)
    THEN Put(id, [record[id] EXCEPT !.state = state], bodies)
    ELSE body' = bodies /\ UNCHANGED <<record, order>>

\* _scoped_record: the org must match and, under a2a_strict, the principal of a
\* caller that has one.
Visible(c, id) ==
    SameOrg(c, id) /\ (Strict /\ c[2] # NoPrincipal => record[id].owner[2] = c[2])

InScope(c, id) == IF c = Unscoped THEN record[id] = None ELSE Visible(c, id)

-----------------------------------------------------------------------------
(* A send. *)

\* A variant of MayClaim that compares the org alone.
MayClaimByOrg(c, id) ==
    \/ record[id] = None /\ body[id] = None
    \/ record[id] # None /\ c # Unscoped /\ record[id].owner[1] = c[1]

\* _claim_task_id: an unknown id, or one the caller owns.
MayClaim(c, id) ==
    \/ record[id] = None /\ body[id] = None
    \/ record[id] # None /\ record[id].owner = c

Run(r, c, id) ==
    call' = [call EXCEPT ![r] = [phase |-> "running", caller |-> c, id |-> id]]

\* _reserve: check and put under one lock, before the graph runs; v1 does not
\* continue a terminal task.
Reserve(r, c, id, version) ==
    /\ call[r] = None
    /\ MayClaim(c, id)
    /\ version = "v1" /\ record[id] # None => record[id].state \notin Terminal
    /\ Put(id, [owner |-> c, state |-> "WORKING"], body)
    /\ Run(r, c, id)

\* _claim_legacy without a scope: nothing is reserved.
SendUnscoped(r, id) ==
    /\ call[r] = None
    /\ record[id] = None
    /\ Run(r, Unscoped, id)
    /\ UNCHANGED <<record, order, body>>

Running(r) == call[r] # None /\ call[r].phase = "running"

Over(r, phase) == call' = [call EXCEPT ![r].phase = phase]

\* A variant of Complete that records the outcome under the task's old state.
CompleteUnrecorded(r) ==
    /\ Running(r)
    /\ LET c == call[r].caller  id == call[r].id IN
         /\ body' = [body EXCEPT ![id] = [status |-> "completed", by |-> c]]
         /\ UNCHANGED <<record, order>>
    /\ Over(r, "answered")

\* The graph has answered: the body is registered and, for a scoped caller,
\* _record replaces the record, whatever it holds by now.
Complete(r) ==
    /\ Running(r)
    /\ LET c == call[r].caller
           id == call[r].id
           bodies == [body EXCEPT ![id] = [status |-> "completed", by |-> c]]
       IN  IF c = Unscoped
           THEN body' = bodies /\ UNCHANGED <<record, order>>
           ELSE Put(id, [owner |-> c, state |-> "COMPLETED"], bodies)
    /\ Over(r, "answered")

\* A variant of Fail: the handler of _invoke forgets the record.
FailUnrecorded(r) ==
    /\ Running(r)
    /\ UNCHANGED <<record, order, body>>
    /\ Over(r, "failed")

\* The graph raised: _invoke marks the record FAILED and raises on.
Fail(r) ==
    /\ Running(r)
    /\ UpdateState(call[r].caller, call[r].id, "FAILED", body)
    /\ Over(r, "failed")

\* The send ends outside of _invoke's handler: the sanitizer or the audit log
\* raises, the run is cancelled, or the streaming client goes away.
Drop(r) ==
    /\ Running(r)
    /\ UNCHANGED <<record, order, body>>
    /\ Over(r, "dropped")

-----------------------------------------------------------------------------
(* Cancels, in one piece each: no await between their check and their put. *)

\* _v1_cancel
CancelV1(c, id) ==
    /\ Visible(c, id)
    /\ record[id].state \notin Terminal
    /\ LET by == IF body[id] = None THEN record[id].owner ELSE body[id].by
       IN  Put(id, [record[id] EXCEPT !.state = "CANCELED"],
               [body EXCEPT ![id] = [status |-> "canceled", by |-> by]])
    /\ UNCHANGED call

\* tasks/cancel: only of a task that has a body, in whatever state.
CancelLegacy(c, id) ==
    /\ body[id] # None
    /\ InScope(c, id)
    /\ UpdateState(c, id, "CANCELED", [body EXCEPT ![id].status = "canceled"])
    /\ UNCHANGED call

-----------------------------------------------------------------------------

Send == \E r \in Requests, id \in TaskIds :
    \/ \E c \in Owners, v \in Versions : Reserve(r, c, id, v)
    \/ Unscoped \in Callers /\ SendUnscoped(r, id)

Cancel == \E id \in TaskIds :
    \/ "v1" \in Versions /\ \E c \in Owners : CancelV1(c, id)
    \/ "0.3" \in Versions /\ \E c \in Callers : CancelLegacy(c, id)

\* A scoped send runs on id.
Busy(id) ==
    \E r \in Requests : Running(r) /\ call[r].id = id /\ call[r].caller # Unscoped

\* An id whose record is evicted under a scoped send stays displaced until the
\* last such send is over.
KeepHistory ==
    displaced' = {id \in TaskIds :
                    /\ id \in displaced \/ (record[id] # None /\ record'[id] = None)
                    /\ Busy(id)'}

End(r) == Complete(r) \/ Fail(r) \/ Drop(r)

Next ==
    /\ Send \/ Cancel \/ \E r \in Requests : End(r)
    /\ KeepHistory

\* Every run of the graph returns or raises: the recursion limit bounds it and
\* the providers' calls time out.
Fairness == \A r \in Requests : WF_vars(End(r) /\ KeepHistory)

Spec == Init /\ [][Next]_vars /\ Fairness

-----------------------------------------------------------------------------
(* Properties. *)

\* Records, bodies and calls keep their shape, and the store's order lists each
\* recorded id once, within its capacity (put and its eviction loop).
ShapeOK ==
    /\ record \in [TaskIds -> Records \cup {None}]
    /\ body \in [TaskIds -> Bodies \cup {None}]
    /\ call \in [Requests -> Calls \cup {None}]

OrderOK ==
    /\ order \in Seq(TaskIds)
    /\ ToSet(order) = Recorded
    /\ Len(order) = Cardinality(Recorded)
    /\ Len(order) <= MaxEntries

TypeOK == ShapeOK /\ OrderOK /\ displaced \subseteq TaskIds

\* A recorded task never passes from one owner to another, whatever sends race on
\* its id and however late they complete or fail (_claim_task_id's "Never
\* overwrites", server.py:520).  The exception is an id evicted under a scoped
\* send (task_store.py:147): whoever reserves it next loses it to the first
\* send's completion (_record, server.py:705).
OwnerStable ==
    [][\A id \in TaskIds \ displaced :
         record[id] # None /\ record'[id] # None
             => record'[id].owner = record[id].owner]_vars

\* A scoped send that runs owns the record of its task, so two scoped callers never
\* run one id at a time (_reserve, server.py:553: "two concurrent sends reusing
\* an id cannot both pass the ownership check"), unless the store evicted the
\* record under a send.  Unscoped sends reserve nothing: one begun before a
\* reservation goes on beside it.
RunOwnsRecord ==
    \A r \in Requests :
        /\ Running(r)
        /\ call[r].caller # Unscoped
        /\ call[r].id \notin displaced
        => /\ record[call[r].id] # None
           /\ record[call[r].id].owner = call[r].caller

\* A task is WORKING only while its owner's send works on it, or after one was
\* dropped: no order of completions, failures and cancels leaves it behind (_invoke's
\* handler and _record).
WorkingIsWorkedOn ==
    \A id \in TaskIds :
        record[id] # None /\ record[id].state = "WORKING" =>
            \E r \in Requests : /\ call[r] # None
                                /\ call[r].id = id
                                /\ call[r].caller = record[id].owner
                                /\ call[r].phase \in {"running", "dropped"}

\* What a record says is what GetTask shows of it: a COMPLETED or CANCELED record
\* has a body, and a body a scoped run wrote was written for the record's owner
\* and shows that status, also after a race of a cancel with a completion and
\* after evictions (_record, _v1_cancel, put).  An unscoped send begun before the
\* reservation still writes its body over the owner's (_aggregate_send,
\* server.py:281); what such a body shows is not claimed.
BodyAgrees ==
    \A id \in TaskIds :
        record[id] # None =>
            /\ record[id].state \in {"COMPLETED", "CANCELED"} => body[id] # None
            /\ body[id] # None /\ body[id].by # Unscoped =>
                 /\ body[id].by = record[id].owner
                 /\ record[id].state = "COMPLETED" => body[id].status = "completed"
                 /\ record[id].state = "CANCELED" => body[id].status = "canceled"

\* What scoped runs wrote is dropped with its record, so their part of the
\* registry is as bounded as the store (put, task_store.py:145); an unscoped send
\* leaves a body with no record to drop it with.
RegistryBounded ==
    \A id \in TaskIds :
        body[id] # None /\ body[id].by # Unscoped => record[id] # None

\* A terminal task is not left again by the v1 operations: what CancelTask has
\* answered stays true ("task is in a terminal state", server.py:566).
TerminalIsFinal ==
    [][\A id \in TaskIds :
         record[id] # None /\ record[id].state \in Terminal
             => record'[id] = record[id]]_vars

\* A task does not stay WORKING for ever: its send settles it, unless it is evicted
\* first or a send on it was dropped.
WorkingSettles ==
    \A id \in TaskIds :
        (record[id] # None /\ record[id].state = "WORKING") ~>
            \/ record[id] = None \/ record[id].state \in Terminal
            \/ \E r \in Requests : /\ call[r] # None
                                   /\ call[r].id = id
                                   /\ call[r].phase = "dropped"
=============================================================================
