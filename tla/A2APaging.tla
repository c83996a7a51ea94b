----------------------------- MODULE A2APaging -----------------------------
(***************************************************************************)
(* ListTasks of the in-memory A2A task store (prismal/a2a/task_store.py):  *)
(* a client reads page after page, newest first, while sends and cancels   *)
(* keep refreshing the tasks it lists.  The page token is the              *)
(* (updated_at, task_id) of the last task returned.                        *)
(*                                                                         *)
(* The records are those of one tenant that match the client's filters.    *)
(* Ids are numbers, which stand for their lexicographic rank.              *)
(***************************************************************************)
EXTENDS Naturals, FiniteSets

CONSTANTS
    TaskIds,     \* matching tasks: a set of naturals
    PageSize,    \* the effective page size, after the clamps of page_size
    MaxTime,     \* bound: the latest time of a put
    ClockSteps   \* how far the clock may move between two puts

A2APagingAssumption ==
    /\ TaskIds \subseteq Nat /\ IsFiniteSet(TaskIds)
    /\ PageSize \in Nat \ {0}
    /\ MaxTime \in Nat
    /\ ClockSteps \subseteq Nat

ASSUME A2APagingAssumption

Absent == 0   \* no record yet; puts are at times 1 to MaxTime

VARIABLES
    updated,   \* updated_at of each record
    clock,     \* time of the latest put
    token,     \* what the client passes next: <<>> for none, or <<time, id>>
    times,     \* how often each task was returned, counted up to 2
    done,      \* the latest page came with the empty token
    touched    \* history: tasks put since the client asked for its first page

vars == <<updated, clock, token, times, done, touched>>

Init ==
    /\ updated = [i \in TaskIds |-> Absent]
    /\ clock = 1
    /\ token = <<>>
    /\ times = [i \in TaskIds |-> 0]
    /\ done = FALSE
    /\ touched = {}

\* The order of cursors, by time and then by id.
Before(a, b) == a[1] < b[1] \/ (a[1] = b[1] /\ a[2] < b[2])

Cursor(i) == <<updated[i], i>>

\* A variant of Remaining that compares the times alone.
RemainingByTime ==
    {i \in TaskIds : /\ updated[i] # Absent
                     /\ token = <<>> \/ updated[i] < token[1]}

\* A variant of Remaining that forgets the token.
RemainingAll == {i \in TaskIds : updated[i] # Absent}

\* The records past the token.
Remaining ==
    {i \in TaskIds : /\ updated[i] # Absent
                     /\ token = <<>> \/ Before(Cursor(i), token)}

\* Newest first: the records that precede i in what is left of the list.
Newer(i) == {j \in Remaining : Before(Cursor(i), Cursor(j))}

Oldest(S) == CHOOSE i \in S : \A j \in S \ {i} : Before(Cursor(i), Cursor(j))

\* A send, a completion or a cancel puts the record at the present time.
Put(i, step) ==
    /\ clock + step <= MaxTime
    /\ clock' = clock + step
    /\ updated' = [updated EXCEPT ![i] = clock']
    /\ touched' = IF token = <<>> /\ ~done THEN touched ELSE touched \cup {i}
    /\ UNCHANGED <<token, times, done>>

\* The first records of what is left, at most PageSize.
Page == {i \in Remaining : Cardinality(Newer(i)) < PageSize}

\* list: one page and the token of its last record, if records are left.
ListPage ==
    /\ ~done
    /\ times' = [i \in TaskIds |-> IF i \in Page /\ times[i] < 2
                                   THEN times[i] + 1 ELSE times[i]]
    /\ done' = (Cardinality(Remaining) <= PageSize)
    /\ token' = IF done' THEN token ELSE Cursor(Oldest(Page))
    /\ UNCHANGED <<updated, clock, touched>>

Next == (\E i \in TaskIds, s \in ClockSteps : Put(i, s)) \/ ListPage

\* The client reads on for as long as it is given a token.
Spec == Init /\ [][Next]_vars /\ WF_vars(ListPage)

-----------------------------------------------------------------------------
\* A task that no put refreshed during the listing is returned exactly once,
\* however many others are: none slips between two pages, equal timestamps
\* included (list and _cursor, task_store.py:196).
UntouchedListedOnce ==
    done => \A i \in TaskIds \ touched : updated[i] # Absent => times[i] = 1

\* The client's listing ends although tasks keep being refreshed.
ListingEnds == <>done
=============================================================================
