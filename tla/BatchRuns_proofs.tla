-------------------------- MODULE BatchRuns_proofs --------------------------
(***************************************************************************)
(* Proofs about BatchRuns for every set of requests and families: the      *)
(* state is well typed, no request that a completed job's results          *)
(* delivered is run again, nor one of a job whose results could not be     *)
(* fetched, and what is metered is what is returned.                       *)
(*                                                                         *)
(* The results of a family arrive once, when it completes, so what the     *)
(* merge takes from it stays what it was; and the requests that get a      *)
(* synchronous call are exactly those the merge left.                      *)
(***************************************************************************)
EXTENDS BatchRuns, TLAPS

USE DEF vars

-----------------------------------------------------------------------------
(* Types.                                                                  *)

\* Before a fetch has failed for the last time, an attempt is left.
AttemptsLeft ==
    \A f \in Families :
        stage[f] \in {"submitting", "polling", "fetching"} => attempts[f] < MaxAttempts

TypeInv == TypeOK /\ AttemptsLeft

LEMMA TypeInit == Init => TypeInv
<1>1. Init => TypeOK
    BY BatchRunsAssumption DEF BatchRunsAssumption, Init, TypeOK, Stages, Jobs, Syncs
<1>2. Init => AttemptsLeft
    BY BatchRunsAssumption DEF BatchRunsAssumption, Init, AttemptsLeft
<1>. QED  BY <1>1, <1>2 DEF TypeInv

LEMMA BatchedTypes == TypeOK => \A f \in Families : Batched(f) \subseteq Requests
  BY DEF Batched

\* The steps of a family and of the provider.
LEMMA TypeFamily ==
    ASSUME TypeInv, NEW f \in Families,
           \/ JobEnds(f) \/ DeadlinePasses(f)
           \/ Submit(f) \/ Poll(f) \/ PollRaises(f) \/ Fetch(f) \/ FetchRaises(f)
    PROVE  TypeInv'
<1>. USE DEF TypeInv
<1>0. AttemptsLeft'
    BY BatchRunsAssumption DEF BatchRunsAssumption, AttemptsLeft, JobEnds, DeadlinePasses, Submit,
       Poll, PollRaises, Fetch, FetchRaises, Becomes, TypeOK
<1>1. CASE JobEnds(f)
  <2>1. job' \in [Families -> Jobs]
      BY <1>1, BatchedTypes DEF JobEnds, TypeOK, Jobs
  <2>. QED  BY <1>0, <1>1, <2>1 DEF JobEnds, TypeOK
<1>2. CASE DeadlinePasses(f)
    BY <1>0, <1>2 DEF DeadlinePasses, TypeOK
<1>3. CASE Submit(f)
  <2>1. job' \in [Families -> Jobs]
    <3>1. [job[f] EXCEPT !.state = "running"] \in Jobs
        BY DEF TypeOK, Jobs
    <3>. QED  BY <1>3, <3>1 DEF Submit, Runs, TypeOK
  <2>2. stage' \in [Families -> Stages]
      BY <1>3 DEF Submit, Becomes, TypeOK, Stages
  <2>. QED  BY <1>0, <1>3, <2>1, <2>2 DEF Submit, TypeOK
<1>4. CASE Poll(f) \/ PollRaises(f) \/ Fetch(f)
  <2>1. stage' \in [Families -> Stages]
      BY <1>4 DEF Poll, PollRaises, Fetch, Becomes, TypeOK, Stages
  <2>2. job[f].answered \subseteq Requests
      BY DEF TypeOK, Jobs
  <2>3. fetched' \in [Families -> SUBSET Requests]
      BY <1>4, <2>2 DEF Poll, PollRaises, Fetch, TypeOK
  <2>. QED  BY <1>0, <1>4, <2>1, <2>3 DEF Poll, PollRaises, Fetch, TypeOK
<1>5. CASE FetchRaises(f)
  <2>1. stage' \in [Families -> Stages]
      BY <1>5 DEF FetchRaises, Becomes, TypeOK, Stages
  <2>2. attempts[f] \in 0..MaxAttempts /\ attempts[f] < MaxAttempts
      BY <1>5 DEF FetchRaises, AttemptsLeft, TypeOK
  <2>3. attempts' \in [Families -> 0..MaxAttempts]
      BY <1>5, <2>2, BatchRunsAssumption DEF BatchRunsAssumption, FetchRaises, TypeOK
  <2>. QED  BY <1>0, <1>5, <2>1, <2>3 DEF FetchRaises, TypeOK
<1>. QED  BY <1>1, <1>2, <1>3, <1>4, <1>5

LEMMA TypeRun ==
    ASSUME TypeInv,
           MergeRaises \/ Merge \/ Return \/ \E r \in Requests : SyncBegins(r) \/ SyncEnds(r)
    PROVE  TypeInv'
<1>. USE DEF TypeInv, AttemptsLeft
<1>1. \A fs : Taken(fs) \subseteq Requests
    BY DEF Taken, Batched
<1>2. ASSUME NEW fs, NEW errors, NEW also, MergeAlso(fs, errors, also)
      PROVE  batched' \subseteq Requests /\ result' \in [Requests -> {"content", "error", None}]
    BY <1>1, <1>2 DEF MergeAlso, TypeOK
<1>3. CASE MergeRaises
    BY <1>2, <1>3 DEF MergeRaises, TypeOK
<1>4. CASE Merge
    BY <1>2, <1>4 DEF Merge, TypeOK, Syncs
<1>5. CASE Return
    BY <1>5 DEF Return, TypeOK, Syncs
<1>6. CASE \E r \in Requests : SyncBegins(r) \/ SyncEnds(r)
    BY <1>6 DEF SyncBegins, SyncEnds, TypeOK, Syncs
<1>. QED  BY <1>3, <1>4, <1>5, <1>6

LEMMA TypeStep == TypeInv /\ [Next]_vars => TypeInv'
<1>1. TypeInv /\ Next => TypeInv'
    BY TypeFamily, TypeRun DEF Next
<1>2. TypeInv /\ UNCHANGED vars => TypeInv'
    BY DEF TypeInv, AttemptsLeft, TypeOK
<1>. QED  BY <1>1, <1>2

\* Every variable keeps its type.
THEOREM TypeCorrect == Spec => []TypeOK
<1>1. TypeInv => TypeOK
    BY DEF TypeInv
<1>. QED  BY <1>1, TypeInit, TypeStep, PTL DEF Spec

-----------------------------------------------------------------------------
(* What the stages and the phases say of each other.                       *)

\* Results have arrived of completed families alone; nothing is merged before every
\* family is through, and nothing is called before the merge.
StageInv ==
    /\ \A f \in Families : fetched[f] # {} => stage[f] = "completed"
    /\ phase # "batching" => \A f \in Families : stage[f] \in Merged
    /\ phase # "syncing" => \A r \in Requests : sync[r] \notin {"waiting", "calling"}
    /\ phase \in {"batching", "raised"} => \A r \in Requests : sync[r] = "no"

\* The books: what was called is what the merge left, what is metered at list price
\* is what was called with success, and what has a result accordingly.
Books ==
    /\ \A r \in Requests :
          /\ r \in listed <=> sync[r] = "content"
          /\ sync[r] # "no" => r \in Left /\ r \notin batched
    /\ phase = "batching" => batched = {} /\ \A r \in Requests : result[r] = None
    /\ phase = "syncing" => \A r \in Requests :
          /\ result[r] = "content" <=> r \in batched
          /\ sync[r] = "no" => result[r] # None
    /\ phase = "returned" => \A r \in Requests :
          /\ result[r] # None
          /\ result[r] = "content" <=> r \in batched \cup listed

BatchInv == StageInv /\ Books

LEMMA BatchInit == Init => BatchInv
  BY DEF Init, BatchInv, StageInv, Books

\* What a step of a family or of the provider leaves as it is.
LEMMA FamilyFrame ==
    ASSUME TypeOK, StageInv, NEW f \in Families,
           \/ JobEnds(f) \/ DeadlinePasses(f)
           \/ Submit(f) \/ Poll(f) \/ PollRaises(f) \/ Fetch(f) \/ FetchRaises(f)
    PROVE  /\ UNCHANGED <<args, phase, sync, result, batched, listed>>
           /\ \A g \in Families \ {f} : stage'[g] = stage[g] /\ fetched'[g] = fetched[g]
           /\ stage[f] \in Merged => stage'[f] = stage[f] /\ fetched'[f] = fetched[f]
           /\ fetched'[f] # {} => stage'[f] = "completed"
<1>1. job[f] \in Jobs /\ stage[f] \in Stages
    BY DEF TypeOK
<1>2. CASE JobEnds(f) \/ DeadlinePasses(f)
    BY <1>1, <1>2 DEF JobEnds, DeadlinePasses, StageInv, TypeOK
<1>3. CASE Submit(f)
    BY <1>1, <1>3 DEF Submit, Becomes, StageInv, Merged, TypeOK
<1>4. CASE Poll(f) \/ PollRaises(f)
    BY <1>1, <1>4 DEF Poll, PollRaises, Becomes, StageInv, Merged, TypeOK
<1>5. CASE Fetch(f)
    BY <1>1, <1>5 DEF Fetch, Becomes, StageInv, Merged, TypeOK
<1>6. CASE FetchRaises(f)
    BY <1>1, <1>6 DEF FetchRaises, Becomes, StageInv, Merged, TypeOK
<1>. QED  BY <1>2, <1>3, <1>4, <1>5, <1>6

\* Once every family is through, what the merge takes and leaves is settled.
LEMMA LeftSettled ==
    ASSUME TypeOK, args' = args,
           \A f \in Families : stage'[f] = stage[f] /\ fetched'[f] = fetched[f]
    PROVE  Left' = Left
<1>1. \A f \in Families : Batched(f)' = Batched(f)
    BY DEF Batched
<1>2. Groups' = Groups
    BY <1>1 DEF Groups
<1>3. \A f \in Families : (Batched(f) \cap fetched[f])' = Batched(f) \cap fetched[f]
    BY <1>1
<1>4. Taken(Groups)' = Taken(Groups)
    BY <1>2, <1>3 DEF Taken, Groups
<1>5. Unavailable(Groups)' = Unavailable(Groups)
    BY <1>1, <1>2 DEF Unavailable, Groups
<1>. QED  BY <1>4, <1>5 DEF Left

LEMMA BatchStep == TypeOK /\ BatchInv /\ [Next]_vars => BatchInv'
<1>. SUFFICES ASSUME TypeOK, BatchInv, [Next]_vars PROVE BatchInv'
    OBVIOUS
<1>1. StageInv /\ Books
    BY DEF BatchInv
<1>2. ASSUME NEW f \in Families,
             \/ JobEnds(f) \/ DeadlinePasses(f)
             \/ Submit(f) \/ Poll(f) \/ PollRaises(f) \/ Fetch(f) \/ FetchRaises(f)
      PROVE  BatchInv'
  <2>1. /\ UNCHANGED <<args, phase, sync, result, batched, listed>>
        /\ \A g \in Families \ {f} : stage'[g] = stage[g] /\ fetched'[g] = fetched[g]
        /\ stage[f] \in Merged => stage'[f] = stage[f] /\ fetched'[f] = fetched[f]
        /\ fetched'[f] # {} => stage'[f] = "completed"
      BY <1>1, <1>2, FamilyFrame
  <2>2. StageInv'
      BY <1>1, <2>1 DEF StageInv
  <2>3. CASE phase \in {"batching", "raised"}
      BY <1>1, <2>1, <2>2, <2>3 DEF Books, StageInv, BatchInv
  <2>4. CASE phase \notin {"batching", "raised"}
    <3>1. Left' = Left
        BY <1>1, <2>1, <2>4, LeftSettled DEF StageInv
    <3>. QED  BY <1>1, <2>1, <2>2, <3>1 DEF Books, BatchInv
  <2>5. Books' /\ StageInv' => BatchInv'
      BY DEF BatchInv
  <2>. QED  BY <2>2, <2>3, <2>4, <2>5 DEF Books
<1>3. ASSUME UNCHANGED <<args, stage, fetched>> PROVE Left' = Left
    BY <1>3 DEF Left, Taken, Unavailable, Groups, Batched
<1>4. CASE MergeRaises
  <2>1. Left' = Left
      BY <1>3, <1>4 DEF MergeRaises
  <2>. QED  BY <1>1, <1>4, <2>1 DEF MergeRaises, AllMerged, BatchInv, StageInv, Books
<1>5. CASE Merge
  <2>1. Left' = Left
      BY <1>3, <1>5 DEF Merge
  <2>2. phase = "batching" /\ batched = {} /\ \A r \in Requests : result[r] = None /\ sync[r] = "no"
      BY <1>1, <1>5 DEF Merge, AllMerged, StageInv, Books
  <2>3. listed' = listed /\ \A r \in Requests : r \notin listed
      BY <1>1, <1>5, <2>2 DEF Merge, Books
  <2>4. batched' = Taken(Groups)
      BY <1>5, <2>2 DEF Merge, MergeAlso
  <2>5. \A r \in Requests :
           result'[r] = IF r \in Taken(Groups) THEN "content"
                        ELSE IF r \in Unavailable(Groups) \cup (IF args.fallback THEN {} ELSE Left)
                             THEN "error" ELSE None
      BY <1>5, <2>2 DEF Merge, MergeAlso
  <2>6. StageInv'
      BY <1>1, <1>5, <2>2 DEF Merge, AllMerged, StageInv
  <2>7. \A r \in Requests : r \in Left <=> r \notin Taken(Groups) /\ r \notin Unavailable(Groups)
      BY DEF Left
  <2>8. None # "content" /\ None # "error"
      BY BatchRunsAssumption DEF BatchRunsAssumption
  <2>9. Books'
    <3>1. CASE args.fallback /\ Left # {}
        BY <1>5, <2>1, <2>2, <2>3, <2>4, <2>5, <2>7, <2>8, <3>1 DEF Merge, Books
    <3>2. CASE ~(args.fallback /\ Left # {})
        BY <1>5, <2>1, <2>2, <2>3, <2>4, <2>5, <2>7, <2>8, <3>2 DEF Merge, Books
    <3>. QED  BY <3>1, <3>2
  <2>. QED  BY <2>6, <2>9 DEF BatchInv
<1>6. ASSUME NEW r \in Requests, SyncBegins(r) PROVE BatchInv'
  <2>1. Left' = Left
      BY <1>3, <1>6 DEF SyncBegins
  <2>2. phase = "syncing"
      BY <1>1, <1>6 DEF SyncBegins, StageInv, TypeOK
  <2>. QED  BY <1>1, <1>6, <2>1, <2>2 DEF SyncBegins, BatchInv, StageInv, Books, TypeOK
<1>7. ASSUME NEW r \in Requests, SyncEnds(r) PROVE BatchInv'
  <2>1. Left' = Left
      BY <1>3, <1>7 DEF SyncEnds
  <2>2. phase = "syncing"
      BY <1>1, <1>7 DEF SyncEnds, StageInv, TypeOK
  <2>. QED  BY <1>1, <1>7, <2>1, <2>2 DEF SyncEnds, BatchInv, StageInv, Books, TypeOK
<1>8. CASE Return
  <2>1. Left' = Left
      BY <1>3, <1>8 DEF Return
  <2>2. \A r \in Requests :
           /\ sync[r] \in {"no", "content", "error"}
           /\ result'[r] = IF sync[r] = "no" THEN result[r] ELSE sync[r]
           /\ r \in listed <=> sync[r] = "content"
           /\ sync[r] # "no" => r \in Left /\ r \notin batched
           /\ result[r] = "content" <=> r \in batched
           /\ sync[r] = "no" => result[r] # None
      BY <1>1, <1>8 DEF Return, Books
  <2>3. UNCHANGED <<stage, fetched, sync, batched, listed>> /\ phase' = "returned"
      BY <1>8 DEF Return
  <2>4. StageInv'
      BY <1>1, <1>8, <2>2, <2>3 DEF Return, StageInv
  <2>5. None # "content" /\ None # "error"
      BY BatchRunsAssumption DEF BatchRunsAssumption
  <2>6. \A r \in Requests :
           result'[r] # None /\ (result'[r] = "content" <=> r \in batched \cup listed)
      BY <2>2, <2>5
  <2>7. Books'
      BY <2>1, <2>2, <2>3, <2>6 DEF Books
  <2>. QED  BY <2>4, <2>7 DEF BatchInv
<1>9. CASE UNCHANGED vars
  <2>1. Left' = Left
      BY <1>3, <1>9
  <2>. QED  BY <1>1, <1>9, <2>1 DEF BatchInv, StageInv, Books
<1>. QED  BY <1>2, <1>4, <1>5, <1>6, <1>7, <1>8, <1>9 DEF Next

-----------------------------------------------------------------------------
\* A request whose result was delivered, or whose completed job's results could not
\* be fetched, is never run again synchronously, however families, jobs, deadlines
\* and fetches interleave.
THEOREM AnsweredAreNotRerun == Spec => []NeverRerun
<1>1. TypeOK /\ BatchInv => NeverRerun
  <2>. SUFFICES ASSUME TypeOK, BatchInv, NEW f \in Families, NEW r \in Batched(f),
                       stage[f] = "unavailable" \/ r \in fetched[f], sync[r] # "no"
                PROVE  FALSE
      BY DEF NeverRerun
  <2>1. r \in Requests /\ f \in Groups
      BY DEF Batched, Groups
  <2>2. r \in Left
      BY <2>1 DEF BatchInv, Books
  <2>3. r \in fetched[f] => stage[f] = "completed"
      BY DEF BatchInv, StageInv
  <2>. QED  BY <2>1, <2>2, <2>3 DEF Left, Taken, Unavailable
<1>2. TypeInv => TypeOK
    BY DEF TypeInv
<1>. QED  BY <1>1, <1>2, TypeInit, TypeStep, BatchInit, BatchStep, PTL DEF Spec

\* When run() returns, the requests metered are those with content, each at the
\* price of its path, though families, jobs and calls end in any order.
THEOREM MeterMatchesResults == Spec => []MeteredAsReturned
<1>1. TypeOK /\ BatchInv => MeteredAsReturned
    BY DEF BatchInv, Books, MeteredAsReturned, TypeOK
<1>2. TypeInv => TypeOK
    BY DEF TypeInv
<1>. QED  BY <1>1, <1>2, TypeInit, TypeStep, BatchInit, BatchStep, PTL DEF Spec

=============================================================================
