--------------------------- MODULE CronJobs_proofs ---------------------------
(***************************************************************************)
(* Proofs about CronJobs for every number of names, callers, retries and   *)
(* runs: the state is well typed, a stored count is backed, one-time jobs  *)
(* fire at most once, retries are bounded, and a job paused in the store   *)
(* comes off the schedule.                                                 *)
(*                                                                         *)
(* The bound on retries is an account.  A regular run, and the removal of  *)
(* a row, pay for MaxRetries retries; what a run or a scheduled retry has  *)
(* paid for is held back while it lives, and given out when the count on   *)
(* which it counted is reset.                                              *)
(***************************************************************************)
EXTENDS CronJobs, FiniteSetTheorems, TLAPS

LEMMA RowTypes ==
    ASSUME NEW r \in Rows
    PROVE  /\ \A a \in BOOLEAN : [r EXCEPT !.active = a] \in Rows
           /\ \A n \in 0..MaxRetries : [r EXCEPT !.retries = n] \in Rows
           /\ r.gen \in Gens /\ r.once \in BOOLEAN /\ r.active \in BOOLEAN
           /\ r.retries \in 0..MaxRetries
<1>1. r = [gen |-> r.gen, once |-> r.once, active |-> r.active, retries |-> r.retries]
    BY DEF Rows
<1>2. r.gen \in Gens /\ r.once \in BOOLEAN /\ r.active \in BOOLEAN
        /\ r.retries \in 0..MaxRetries
    BY DEF Rows
<1>. QED  BY <1>1, <1>2 DEF Rows

LEMMA EntryTypes ==
    /\ \A g \in Gens, o \in BOOLEAN, p \in BOOLEAN :
          [gen |-> g, once |-> o, paused |-> p] \in Entries
    /\ \A e \in Entries :
          /\ \A p \in BOOLEAN : [e EXCEPT !.paused = p] \in Entries
          /\ e.gen \in Gens /\ e.once \in BOOLEAN /\ e.paused \in BOOLEAN
  BY DEF Entries

LEMMA CommandTypes ==
    /\ \A op \in {"add", "pause", "resume", "remove"}, j \in Jobs, e \in Entries \cup {None} :
          [op |-> op, job |-> j, entry |-> e] \in Commands
    /\ \A q \in Commands : q.job \in Jobs /\ q.entry \in Entries \cup {None}
  BY DEF Commands

\* None is none of the records.
LEMMA NoneTypes == None \notin Rows /\ None \notin Entries /\ None \notin Commands
  BY CronJobsAssumption DEF CronJobsAssumption

USE CronJobsAssumption DEF CronJobsAssumption

-----------------------------------------------------------------------------
(* Types.                                                                  *)

LEMMA TypeInit == Init => TypeOK
<1>. SUFFICES ASSUME Init PROVE TypeOK
    OBVIOUS
<1>1. 0 \in 0..GrantCap
    BY DEF GrantCap
<1>2. queue \in Seq(Commands)
    BY DEF Init
<1>3. run \in [Jobs -> [Ids -> Phases]]
    BY DEF Init, Phases
<1>4. /\ row \in [Jobs -> Rows \cup {None}] /\ sched \in [Jobs -> Entries \cup {None}]
      /\ retry \in [Jobs -> SUBSET (Ids \ {0})] /\ tool \in [Callers -> Commands \cup {None}]
    BY DEF Init
<1>5. /\ ahead \in [Jobs -> SUBSET Gens] /\ fired \in [Jobs -> SUBSET Gens]
      /\ lost \in [Jobs -> BOOLEAN] /\ crossed \in [Jobs -> BOOLEAN] /\ up \in BOOLEAN
    BY DEF Init
<1>6. /\ adds \in [Jobs -> 0..MaxAdds] /\ halts \in Nat
      /\ ticks \in [Jobs -> 0..MaxTicks] /\ raised \in [Jobs -> 0..MaxFaults]
      /\ granted \in [Jobs -> 0..GrantCap]
    BY <1>1 DEF Init
<1>. QED  BY <1>2, <1>3, <1>4, <1>5, <1>6 DEF TypeOK

LEMMA CalledTypes ==
    ASSUME TypeOK, NEW c \in Callers, NEW j \in Jobs, NEW e \in Entries \cup {None},
           NEW op \in {"add", "pause", "resume", "remove"}, Called(c, op, j, e)
    PROVE  tool' \in [Callers -> Commands \cup {None}] /\ crossed' \in [Jobs -> BOOLEAN]
  BY CommandTypes DEF Called, TypeOK

LEMMA TypeTools ==
    ASSUME TypeOK, NEW c \in Callers, NEW j \in Jobs
    PROVE  /\ \A once \in BOOLEAN : CallAdd(c, j, once) => TypeOK'
           /\ CallPause(c, j) \/ CallResume(c, j) \/ CallRemove(c, j) => TypeOK'
<1>. USE DEF vars, store, memory, history
<1>1. ASSUME NEW once \in BOOLEAN, CallAdd(c, j, once) PROVE TypeOK'
  <2>. DEFINE g == adds[j] + 1
              e == [gen |-> g, once |-> once, paused |-> FALSE]
  <2>1. g \in Gens /\ g \in 0..MaxAdds
      BY <1>1 DEF CallAdd, TypeOK, Gens
  <2>2. e \in Entries
      BY <2>1, EntryTypes
  <2>3. Called(c, "add", j, e)
      BY <1>1 DEF CallAdd
  <2>4. tool' \in [Callers -> Commands \cup {None}] /\ crossed' \in [Jobs -> BOOLEAN]
      BY <2>2, <2>3, CalledTypes
  <2>5. [gen |-> g, once |-> once, active |-> TRUE, retries |-> 0] \in Rows
      BY <2>1 DEF Rows
  <2>6. row' \in [Jobs -> Rows \cup {None}]
      BY <1>1, <2>5 DEF CallAdd, TypeOK
  <2>. QED  BY <1>1, <2>1, <2>4, <2>6 DEF CallAdd, TypeOK
<1>2. ASSUME CallPause(c, j) PROVE TypeOK'
  <2>1. row' \in [Jobs -> Rows \cup {None}]
      BY <1>2, RowTypes DEF CallPause, TypeOK
  <2>2. tool' \in [Callers -> Commands \cup {None}] /\ crossed' \in [Jobs -> BOOLEAN]
      BY <1>2, CalledTypes DEF CallPause
  <2>. QED  BY <1>2, <2>1, <2>2 DEF CallPause, TypeOK
<1>3. ASSUME CallResume(c, j) PROVE TypeOK'
  <2>1. row' \in [Jobs -> Rows \cup {None}]
      BY <1>3, RowTypes DEF CallResume, TypeOK
  <2>2. tool' \in [Callers -> Commands \cup {None}] /\ crossed' \in [Jobs -> BOOLEAN]
      BY <1>3, CalledTypes DEF CallResume
  <2>. QED  BY <1>3, <2>1, <2>2 DEF CallResume, TypeOK
<1>4. ASSUME CallRemove(c, j) PROVE TypeOK'
  <2>1. row' \in [Jobs -> Rows \cup {None}]
      BY <1>4 DEF CallRemove, TypeOK
  <2>2. tool' \in [Callers -> Commands \cup {None}] /\ crossed' \in [Jobs -> BOOLEAN]
      BY <1>4, CalledTypes DEF CallRemove
  <2>. QED  BY <1>4, <2>1, <2>2 DEF CallRemove, TypeOK
<1>. QED  BY <1>1, <1>2, <1>3, <1>4

LEMMA TypePost == ASSUME TypeOK, NEW c \in Callers, Post(c) PROVE TypeOK'
<1>1. tool[c] \in Commands
    BY DEF Post, TypeOK
<1>2. queue' \in Seq(Commands)
    BY <1>1 DEF Post, TypeOK
<1>3. tool' \in [Callers -> Commands \cup {None}]
    BY DEF Post, TypeOK
<1>. QED  BY <1>2, <1>3 DEF Post, TypeOK, store, history

LEMMA TypeApply == ASSUME TypeOK, Apply PROVE TypeOK'
<1>. DEFINE q == Head(queue)
<1>1. q \in Commands /\ queue' \in Seq(Commands)
    BY DEF Apply, TypeOK
<1>2. q.job \in Jobs /\ q.entry \in Entries \cup {None}
    BY <1>1, CommandTypes
<1>3. row' \in [Jobs -> Rows \cup {None}] /\ sched' \in [Jobs -> Entries \cup {None}]
  <2>1. CASE ApplyAdd(q.job, q.entry)
      BY <1>2, <2>1 DEF ApplyAdd, TypeOK
  <2>2. ASSUME NEW b \in BOOLEAN, ApplyPaused(q.job, b)
        PROVE  row' \in [Jobs -> Rows \cup {None}] /\ sched' \in [Jobs -> Entries \cup {None}]
    <3>1. sched[q.job] # None => [sched[q.job] EXCEPT !.paused = b] \in Entries
        BY <1>2, EntryTypes DEF TypeOK
    <3>. QED  BY <1>2, <2>2, <3>1 DEF ApplyPaused, TypeOK
  <2>3. CASE ApplyRemove(q.job)
      BY <1>2, <2>3 DEF ApplyRemove, TypeOK
  <2>. QED  BY <2>1, <2>2, <2>3 DEF Apply
<1>. QED  BY <1>1, <1>3 DEF Apply, TypeOK, history

LEMMA TypeClock ==
    ASSUME TypeOK, NEW j \in Jobs
    PROVE  /\ \A g \in Gens : DatePasses(j, g) => TypeOK'
           /\ Tick(j) \/ TickOnce(j) \/ MisfireOnce(j) => TypeOK'
           /\ \A i \in Ids : RetryFires(j, i) \/ MisfireRetry(j, i) => TypeOK'
<1>. USE DEF vars, store, memory, history
<1>1. ASSUME NEW i \in Ids, Begin(j, i) PROVE run' \in [Jobs -> [Ids -> Phases]]
  <2>1. [run[j] EXCEPT ![i] = "agent"] \in [Ids -> Phases]
      BY DEF TypeOK, Phases
  <2>. QED  BY <1>1, <2>1 DEF Begin, TypeOK
<1>2. 0 \in Ids
    BY DEF Ids
<1>3. ASSUME NEW g \in Gens, DatePasses(j, g) PROVE TypeOK'
    BY <1>3 DEF DatePasses, TypeOK
<1>4. ASSUME Tick(j) PROVE TypeOK'
  <2>1. ticks' \in [Jobs -> 0..MaxTicks]
      BY <1>4 DEF Tick, TypeOK
  <2>. QED  BY <1>1, <1>2, <1>4, <2>1 DEF Tick, TypeOK
<1>5. ASSUME TickOnce(j) PROVE TypeOK'
  <2>1. sched[j].gen \in Gens
      BY <1>5, EntryTypes DEF TickOnce, TypeOK
  <2>2. ticks' \in [Jobs -> 0..MaxTicks] /\ fired' \in [Jobs -> SUBSET Gens]
    <3>1. CASE UNCHANGED <<run, ticks, fired>>
        BY <3>1 DEF TypeOK
    <3>2. CASE /\ ticks[j] < MaxTicks
               /\ ticks' = [ticks EXCEPT ![j] = @ + 1]
               /\ fired' = [fired EXCEPT ![j] = @ \cup {sched[j].gen}]
      <4>1. ticks[j] + 1 \in 0..MaxTicks
          BY <3>2 DEF TypeOK
      <4>2. fired[j] \cup {sched[j].gen} \in SUBSET Gens
          BY <2>1 DEF TypeOK
      <4>. QED  BY <3>2, <4>1, <4>2 DEF TypeOK
    <3>. QED  BY <1>5, <3>1, <3>2 DEF TickOnce
  <2>3. run' \in [Jobs -> [Ids -> Phases]]
      BY <1>1, <1>2, <1>5 DEF TickOnce, TypeOK
  <2>4. sched' \in [Jobs -> Entries \cup {None}]
      BY <1>5 DEF TickOnce, TypeOK
  <2>. QED  BY <1>5, <2>2, <2>3, <2>4 DEF TickOnce, TypeOK
<1>6. ASSUME MisfireOnce(j) PROVE TypeOK'
    BY <1>6 DEF MisfireOnce, TypeOK
<1>7. ASSUME NEW i \in Ids, RetryFires(j, i) PROVE TypeOK'
  <2>1. run' \in [Jobs -> [Ids -> Phases]]
      BY <1>1, <1>7 DEF RetryFires, TypeOK
  <2>2. lost' \in [Jobs -> BOOLEAN] /\ retry' \in [Jobs -> SUBSET (Ids \ {0})]
      BY <1>7 DEF RetryFires, Lose, TypeOK
  <2>. QED  BY <1>7, <2>1, <2>2 DEF RetryFires, TypeOK
<1>8. ASSUME NEW i \in Ids, MisfireRetry(j, i) PROVE TypeOK'
    BY <1>8 DEF MisfireRetry, Lose, TypeOK
<1>. QED  BY <1>3, <1>4, <1>5, <1>6, <1>7, <1>8

LEMMA TypeRuns ==
    ASSUME TypeOK, NEW j \in Jobs, NEW i \in Ids, Step(j, i)
    PROVE  TypeOK'
<1>. USE DEF vars, store, memory, history
<1>1. ASSUME NEW p \in Phases, Goes(j, i, p) PROVE run' \in [Jobs -> [Ids -> Phases]]
  <2>1. [run[j] EXCEPT ![i] = p] \in [Ids -> Phases]
      BY DEF TypeOK
  <2>. QED  BY <1>1, <2>1 DEF Goes, TypeOK
<1>2. ASSUME ZeroCount(j)
      PROVE  row' \in [Jobs -> Rows \cup {None}] /\ lost' \in [Jobs -> BOOLEAN]
  <2>1. row[j] # None => [row[j] EXCEPT !.retries = 0] \in Rows
      BY RowTypes DEF TypeOK
  <2>. QED  BY <1>2, <2>1 DEF ZeroCount, TypeOK
<1>0. MayFail(j, i) => raised' \in [Jobs -> 0..MaxFaults]
  <2>1. ASSUME halts + raised[j] < MaxFaults PROVE raised[j] + 1 \in 0..MaxFaults
      BY <2>1 DEF TypeOK
  <2>. QED  BY <2>1 DEF MayFail, TypeOK
<1>3. CASE Succeed(j, i)
    BY <1>1, <1>2, <1>3 DEF Succeed, TypeOK, Phases
<1>4. CASE FailAndRetry(j, i)
  <2>1. row[j] \in Rows
      BY <1>4 DEF FailAndRetry, RetryLeft, TypeOK
  <2>2. row[j].retries \in Nat /\ row[j].retries < MaxRetries
      BY <1>4, <2>1, RowTypes DEF FailAndRetry, RetryLeft, Limit
  <2>3. row[j].retries + 1 \in 0..MaxRetries /\ row[j].retries + 1 \in Ids \ {0}
      BY <2>2 DEF Ids
  <2>4. [row[j] EXCEPT !.retries = @ + 1] \in Rows
      BY <2>1, <2>3, RowTypes
  <2>5. row' \in [Jobs -> Rows \cup {None}]
      BY <1>4, <2>4 DEF FailAndRetry, Grant, TypeOK
  <2>6. retry' \in [Jobs -> SUBSET (Ids \ {0})]
      BY <1>4, <2>3 DEF FailAndRetry, Grant, TypeOK
  <2>7. granted' \in [Jobs -> 0..GrantCap]
      BY <1>4 DEF FailAndRetry, Grant, TypeOK, GrantCap
  <2>8. run' \in [Jobs -> [Ids -> Phases]]
      BY <1>1, <1>4 DEF FailAndRetry, Phases
  <2>. QED  BY <1>0, <1>4, <2>5, <2>6, <2>7, <2>8 DEF FailAndRetry, TypeOK
<1>5. CASE FailForGood(j, i)
    BY <1>0, <1>1, <1>2, <1>5 DEF FailForGood, TypeOK, Phases
<1>6. CASE Alerted(j, i)
    BY <1>1, <1>6 DEF Alerted, TypeOK, Phases
<1>7. CASE Reported(j, i)
  <2>1. run' \in [Jobs -> [Ids -> Phases]]
      BY <1>1, <1>7 DEF Reported, Phases
  <2>. QED  BY <1>7, <2>1 DEF Reported, TypeOK
<1>8. CASE Delivered(j, i)
  <2>1. run' \in [Jobs -> [Ids -> Phases]]
      BY <1>1, <1>8 DEF Delivered, Phases
  <2>. QED  BY <1>8, <2>1 DEF Delivered, TypeOK
<1>. QED  BY <1>3, <1>4, <1>5, <1>6, <1>7, <1>8 DEF Step

LEMMA TypeProcess == ASSUME TypeOK, Start \/ Halt PROVE TypeOK'
<1>. USE DEF vars, store, memory, history
<1>1. CASE Start
  <2>1. row' \in [Jobs -> Rows \cup {None}]
      BY <1>1 DEF Start, TypeOK
  <2>2. \A j \in Jobs : row[j] # None =>
            [gen |-> row[j].gen, once |-> row[j].once, paused |-> FALSE] \in Entries
      BY RowTypes, EntryTypes DEF TypeOK
  <2>3. sched' \in [Jobs -> Entries \cup {None}]
      BY <1>1, <2>2 DEF Start
  <2>. QED  BY <1>1, <2>1, <2>3 DEF Start, TypeOK
<1>2. CASE Halt
  <2>1. run' \in [Jobs -> [Ids -> Phases]]
      BY <1>2 DEF Halt, Phases
  <2>2. queue' \in Seq(Commands) /\ halts' \in Nat
      BY <1>2 DEF Halt, TypeOK
  <2>3. lost' \in [Jobs -> BOOLEAN] /\ crossed' \in [Jobs -> BOOLEAN]
      BY <1>2 DEF Halt, TypeOK, Count
  <2>. QED  BY <1>2, <2>1, <2>2, <2>3 DEF Halt, TypeOK
<1>. QED  BY <1>1, <1>2

LEMMA TypeStep == TypeOK /\ [Next]_vars => TypeOK'
<1>. SUFFICES ASSUME TypeOK, [Next]_vars PROVE TypeOK'
    OBVIOUS
<1>1. CASE UNCHANGED vars
    BY <1>1 DEF vars, store, memory, history, TypeOK
<1>2. CASE Next
  <2>1. ASSUME NEW c \in Callers, NEW j \in Jobs,
               \/ \E once \in BOOLEAN : CallAdd(c, j, once)
               \/ CallPause(c, j) \/ CallResume(c, j) \/ CallRemove(c, j)
        PROVE  TypeOK'
      BY <2>1, TypeTools
  <2>2. ASSUME NEW c \in Callers, Post(c) PROVE TypeOK'
      BY <2>2, TypePost
  <2>3. ASSUME NEW j \in Jobs,
               \/ Tick(j) \/ TickOnce(j) \/ MisfireOnce(j)
               \/ \E g \in Gens : DatePasses(j, g)
               \/ \E i \in Ids : RetryFires(j, i) \/ MisfireRetry(j, i)
        PROVE  TypeOK'
      BY <2>3, TypeClock
  <2>4. ASSUME NEW j \in Jobs, NEW i \in Ids, Step(j, i) PROVE TypeOK'
      BY <2>4, TypeRuns
  <2>. QED  BY <1>2, <2>1, <2>2, <2>3, <2>4, TypeApply, TypeProcess DEF Next
<1>. QED  BY <1>1, <1>2

\* Every variable keeps its type.
THEOREM TypeCorrect == Spec => []TypeOK
  BY TypeInit, TypeStep, PTL DEF Spec

-----------------------------------------------------------------------------
(* What a step does to a name's count and to its removals.                 *)

Kept(k) == Count(k)' = Count(k) /\ Removals(k)' = Removals(k)
Removed(k) == Count(k)' = 0 /\ Removals(k)' = Removals(k) + 1

LEMMA RowCases ==
    ASSUME TypeOK, NEW k \in Jobs
    PROVE  /\ adds'[k] = adds[k] /\ row'[k] = row[k] => Kept(k)
           /\ adds'[k] = adds[k] /\ row'[k] = None => Kept(k) \/ Removed(k)
           /\ adds'[k] = adds[k] /\ row[k] # None /\ row'[k] # None
                 /\ row'[k].retries = row[k].retries => Kept(k)
           /\ adds'[k] = adds[k] + 1 /\ row[k] = None /\ row'[k] # None
                 /\ row'[k].retries = 0 => Kept(k)
<1>1. adds[k] \in Nat
    BY DEF TypeOK
<1>. QED  BY <1>1 DEF Kept, Removed, Count, Removals

LEMMA RowTools ==
    ASSUME TypeOK, NEW k \in Jobs, NEW c \in Callers, NEW j \in Jobs,
           \/ \E once \in BOOLEAN : CallAdd(c, j, once)
           \/ CallPause(c, j) \/ CallResume(c, j) \/ CallRemove(c, j)
    PROVE  Kept(k) \/ Removed(k)
<1>1. ASSUME NEW once \in BOOLEAN, CallAdd(c, j, once) PROVE Kept(k) \/ Removed(k)
  <2>. DEFINE r == [gen |-> adds[j] + 1, once |-> once, active |-> TRUE, retries |-> 0]
  <2>1. adds[j] + 1 \in Gens
      BY <1>1 DEF CallAdd, TypeOK, Gens
  <2>2. r \in Rows /\ r.retries = 0
      BY <2>1 DEF Rows
  <2>3. r # None
      BY <2>2, NoneTypes
  <2>4. row' = [row EXCEPT ![j] = r] /\ adds' = [adds EXCEPT ![j] = adds[j] + 1] /\ row[j] = None
      BY <1>1 DEF CallAdd
  <2>5. CASE j = k
    <3>1. row'[k] = r /\ adds'[k] = adds[k] + 1 /\ row[k] = None
        BY <2>4, <2>5 DEF TypeOK
    <3>. QED  BY ONLY <3>1, <2>2, <2>3, RowCases, TypeOK, k \in Jobs
  <2>6. CASE j # k
      BY <2>4, <2>6, RowCases DEF TypeOK
  <2>. QED  BY <2>5, <2>6
<1>2. ASSUME NEW a \in BOOLEAN, row[j] # None, row' = [row EXCEPT ![j].active = a], adds' = adds
      PROVE  Kept(k) \/ Removed(k)
  <2>1. row[j] \in Rows
      BY <1>2 DEF TypeOK
  <2>2. [row[j] EXCEPT !.active = a] \in Rows /\ [row[j] EXCEPT !.active = a].retries = row[j].retries
      BY <2>1, RowTypes DEF Rows
  <2>3. [row[j] EXCEPT !.active = a] # None
      BY <2>2, NoneTypes
  <2>4. CASE j = k
    <3>1. row'[k] # None /\ row'[k].retries = row[k].retries
        BY <1>2, <2>2, <2>3, <2>4 DEF TypeOK
    <3>. QED  BY <3>1, <1>2, <2>4, RowCases
  <2>5. CASE j # k
      BY <1>2, <2>5, RowCases DEF TypeOK
  <2>. QED  BY <2>4, <2>5
<1>3. CASE CallRemove(c, j)
    BY <1>3, RowCases DEF CallRemove, TypeOK
<1>. QED  BY <1>1, <1>2, <1>3 DEF CallPause, CallResume

LEMMA RowApply == ASSUME TypeOK, NEW k \in Jobs, Apply PROVE Kept(k) \/ Removed(k)
<1>1. Head(queue) \in Commands
    BY DEF Apply, TypeOK
<1>2. adds' = adds /\ (row'[k] = row[k] \/ row'[k] = None)
    BY <1>1, CommandTypes DEF Apply, ApplyAdd, ApplyPaused, ApplyRemove, TypeOK
<1>. QED  BY <1>2, RowCases

\* The steps of a run that end it well or for good, and those that do not.
LEMMA RowRuns ==
    ASSUME TypeOK, NEW k \in Jobs, NEW j \in Jobs, NEW i \in Ids
    PROVE  /\ ZeroCount(j) /\ adds' = adds => IF k = j THEN Count(k)' = 0 /\ Removals(k)' = Removals(k)
                                              ELSE Kept(k)
           /\ RetryLeft(j) /\ Grant(j) /\ adds' = adds =>
                 IF k = j THEN Count(k)' = Count(k) + 1 /\ Removals(k)' = Removals(k) ELSE Kept(k)
           /\ Alerted(j, i) \/ Reported(j, i) \/ Delivered(j, i) => Kept(k) \/ Removed(k)
<1>1. ASSUME ZeroCount(j), adds' = adds
      PROVE  IF k = j THEN Count(k)' = 0 /\ Removals(k)' = Removals(k) ELSE Kept(k)
  <2>1. CASE row[j] = None
    <3>1. row' = row
        BY <1>1, <2>1 DEF ZeroCount
    <3>. QED  BY <1>1, <2>1, <3>1, RowCases DEF Count, Removals
  <2>2. CASE row[j] # None
    <3>1. row[j] \in Rows
        BY <2>2 DEF TypeOK
    <3>2. [row[j] EXCEPT !.retries = 0] \in Rows /\ [row[j] EXCEPT !.retries = 0].retries = 0
        BY <3>1, RowTypes DEF Rows
    <3>3. [row[j] EXCEPT !.retries = 0] # None
        BY <3>2, NoneTypes
    <3>4. row' = [row EXCEPT ![j].retries = 0]
        BY <1>1, <2>2 DEF ZeroCount
    <3>5. CASE k = j
      <4>1. row'[k] # None /\ row'[k].retries = 0
          BY <3>2, <3>3, <3>4, <3>5 DEF TypeOK
      <4>. QED  BY <1>1, <2>2, <3>5, <4>1 DEF Count, Removals
    <3>6. CASE k # j
        BY <1>1, <3>4, <3>6, RowCases DEF TypeOK
    <3>. QED  BY <3>5, <3>6
  <2>. QED  BY <2>1, <2>2
<1>2. ASSUME RetryLeft(j), Grant(j), adds' = adds
      PROVE  IF k = j THEN Count(k)' = Count(k) + 1 /\ Removals(k)' = Removals(k) ELSE Kept(k)
  <2>1. row[j] # None /\ row[j] \in Rows
      BY <1>2 DEF RetryLeft, TypeOK
  <2>2. row[j].retries \in Nat /\ row[j].retries < MaxRetries
      BY <1>2, <2>1, RowTypes DEF RetryLeft, Limit
  <2>3. row[j].retries + 1 \in 0..MaxRetries
      BY <2>2
  <2>. DEFINE r == [row[j] EXCEPT !.retries = @ + 1]
  <2>4. r \in Rows /\ r.retries = row[j].retries + 1
      BY <2>1, <2>3, RowTypes DEF Rows
  <2>5. r # None
      BY <2>4, NoneTypes
  <2>6. row' = [row EXCEPT ![j] = r]
      BY <1>2 DEF Grant
  <2>7. CASE k = j
    <3>1. row'[k] = r
        BY <2>6, <2>7 DEF TypeOK
    <3>. QED  BY ONLY <1>2, <2>1, <2>4, <2>5, <2>7, <3>1 DEF Count, Removals
  <2>8. CASE k # j
    <3>1. row'[k] = row[k]
        BY <2>6, <2>8 DEF TypeOK
    <3>. QED  BY <1>2, <2>8, <3>1, RowCases
  <2>. QED  BY <2>7, <2>8
<1>3. ASSUME Alerted(j, i) \/ Reported(j, i) \/ Delivered(j, i) PROVE Kept(k) \/ Removed(k)
  <2>1. adds' = adds /\ (row'[k] = row[k] \/ row'[k] = None)
      BY <1>3 DEF Alerted, Reported, Delivered, store, TypeOK
  <2>. QED  BY <2>1, RowCases
<1>. QED  BY <1>1, <1>2, <1>3

-----------------------------------------------------------------------------
(* What a step does to a name: six effects.                                *)

Agents(k) == {i \in Ids : run[k][i] = "agent"}

Same(k) == ticks'[k] = ticks[k] /\ raised'[k] = raised[k] /\ granted'[k] = granted[k]

\* A run of the agent is over, or the report of a success has raised.
Spends(k) ==
    \E i \in Ids :
        /\ Agents(k)' = Agents(k) \ {i}
        /\ \/ i \in Agents(k) /\ raised'[k] = raised[k]
           \/ raised'[k] = raised[k] + 1

\* Nothing, or the row is gone.
Rests(k) ==
    /\ Kept(k) \/ Removed(k)
    /\ Same(k) /\ lost'[k] = lost[k] /\ retry'[k] = retry[k] /\ Agents(k)' = Agents(k)

\* A regular run begins.
Begins(k) ==
    /\ Kept(k) /\ lost'[k] = lost[k] /\ retry'[k] = retry[k]
    /\ ticks'[k] = ticks[k] + 1 /\ raised'[k] = raised[k] /\ granted'[k] = granted[k]
    /\ \E i \in Ids \ Agents(k) : Agents(k)' = Agents(k) \cup {i}

\* A retry is due: it runs, or it is lost.
Comes(k) ==
    /\ Kept(k) /\ Same(k)
    /\ \E i \in retry[k] :
          /\ retry'[k] = retry[k] \ {i}
          /\ \/ lost'[k] = lost[k] /\ i \notin Agents(k) /\ Agents(k)' = Agents(k) \cup {i}
             \/ Agents(k)' = Agents(k) /\ (Count(k) > 0 => lost'[k])

\* A run ends well or for good, and the count with it.
Ends(k) ==
    /\ Count(k)' = 0 /\ Removals(k)' = Removals(k) /\ retry'[k] = retry[k]
    /\ ticks'[k] = ticks[k] /\ granted'[k] = granted[k]
    /\ Spends(k)

\* A run fails and is granted a retry.
Grants(k) ==
    /\ Count(k)' = Count(k) + 1 /\ Count(k) < MaxRetries /\ Removals(k)' = Removals(k)
    /\ lost'[k] = lost[k] /\ ticks'[k] = ticks[k]
    /\ granted'[k] \in {granted[k], granted[k] + 1}
    /\ \E n \in Ids : retry'[k] = retry[k] \cup {n}
    /\ Spends(k)

\* The process ends.
Halts(k) ==
    /\ Kept(k) /\ Same(k)
    /\ retry'[k] = {} /\ Agents(k)' = {} /\ (Count(k) > 0 => lost'[k])

Effect(k) == Rests(k) \/ Begins(k) \/ Comes(k) \/ Ends(k) \/ Grants(k) \/ Halts(k)

\* The ids of a name's runs of the agent when one run changes its phase.
LEMMA AgentsOf ==
    ASSUME TypeOK, NEW k \in Jobs, NEW j \in Jobs, NEW i \in Ids, NEW p \in Phases,
           run' = [run EXCEPT ![j][i] = p]
    PROVE  Agents(k)' = IF k # j THEN Agents(k)
                        ELSE IF p = "agent" THEN Agents(k) \cup {i} ELSE Agents(k) \ {i}
<1>1. run'[k] = IF k # j THEN run[k] ELSE [run[k] EXCEPT ![i] = p]
    BY DEF TypeOK
<1>2. run[k] \in [Ids -> Phases]
    BY DEF TypeOK
<1>3. CASE k # j
    BY <1>1, <1>3 DEF Agents
<1>4. CASE k = j
  <2>1. \A x \in Ids : run'[k][x] = IF x = i THEN p ELSE run[k][x]
      BY <1>1, <1>2, <1>4
  <2>. QED  BY <1>4, <2>1 DEF Agents
<1>. QED  BY <1>3, <1>4

LEMMA EffectTools ==
    ASSUME TypeOK, NEW k \in Jobs, NEW c \in Callers,
           \/ Post(c)
           \/ \E j \in Jobs :
                 \/ \E once \in BOOLEAN : CallAdd(c, j, once)
                 \/ CallPause(c, j) \/ CallResume(c, j) \/ CallRemove(c, j)
    PROVE  Rests(k)
<1>1. CASE Post(c)
  <2>1. row' = row /\ adds' = adds /\ run' = run /\ retry' = retry /\ lost' = lost
          /\ ticks' = ticks /\ raised' = raised /\ granted' = granted
      BY <1>1 DEF Post, store, history
  <2>. QED  BY <2>1, RowCases DEF Rests, Same, Agents
<1>2. ASSUME NEW j \in Jobs,
             \/ \E once \in BOOLEAN : CallAdd(c, j, once)
             \/ CallPause(c, j) \/ CallResume(c, j) \/ CallRemove(c, j)
      PROVE  Rests(k)
  <2>1. run' = run /\ retry' = retry /\ lost' = lost /\ ticks' = ticks /\ raised' = raised /\ granted' = granted
      BY <1>2 DEF CallAdd, CallPause, CallResume, CallRemove
  <2>. QED  BY <1>2, <2>1, RowTools DEF Rests, Same, Agents
<1>. QED  BY <1>1, <1>2

LEMMA EffectApply == ASSUME TypeOK, NEW k \in Jobs, Apply PROVE Rests(k)
<1>1. run' = run /\ retry' = retry /\ lost' = lost /\ ticks' = ticks /\ raised' = raised /\ granted' = granted
    BY DEF Apply, history
<1>. QED  BY <1>1, RowApply DEF Rests, Same, Agents

LEMMA EffectClock ==
    ASSUME TypeOK, NEW k \in Jobs, NEW j \in Jobs,
           \/ \E g \in Gens : DatePasses(j, g)
           \/ Tick(j) \/ TickOnce(j) \/ MisfireOnce(j)
    PROVE  Rests(k) \/ Begins(k)
<1>1. row' = row /\ adds' = adds /\ retry' = retry /\ lost' = lost /\ raised' = raised /\ granted' = granted
    BY DEF DatePasses, Tick, TickOnce, MisfireOnce, store, memory, history
<1>2. Kept(k)
    BY <1>1, RowCases
<1>3. CASE run' = run /\ ticks' = ticks
    BY <1>1, <1>2, <1>3 DEF Rests, Same, Agents
<1>4. CASE run[j][0] = "idle" /\ Begin(j, 0) /\ ticks' = [ticks EXCEPT ![j] = @ + 1]
  <2>1. 0 \in Ids \ Agents(j)
      BY <1>4 DEF Ids, Agents
  <2>2. Agents(k)' = IF k # j THEN Agents(k) ELSE Agents(k) \cup {0}
      BY <1>4, <2>1, AgentsOf DEF Begin, Phases
  <2>3. ticks'[k] = IF k # j THEN ticks[k] ELSE ticks[k] + 1
      BY <1>4 DEF TypeOK
  <2>4. CASE k = j
      BY <1>1, <1>2, <2>1, <2>2, <2>3, <2>4 DEF Begins
  <2>5. CASE k # j
      BY <1>1, <1>2, <2>2, <2>3, <2>5 DEF Rests, Same
  <2>. QED  BY <2>4, <2>5
<1>. QED  BY <1>3, <1>4 DEF DatePasses, Tick, TickOnce, MisfireOnce, memory, history

LEMMA EffectRetries ==
    ASSUME TypeOK, NEW k \in Jobs, NEW j \in Jobs, NEW i \in Ids,
           RetryFires(j, i) \/ MisfireRetry(j, i)
    PROVE  Rests(k) \/ Comes(k)
<1>1. row' = row /\ adds' = adds /\ ticks' = ticks /\ raised' = raised /\ granted' = granted
        /\ i \in retry[j] /\ retry' = [retry EXCEPT ![j] = @ \ {i}]
    BY DEF RetryFires, MisfireRetry, store
<1>2. Kept(k) /\ Same(k)
    BY <1>1, RowCases DEF Same
<1>3. retry'[k] = IF k = j THEN retry[k] \ {i} ELSE retry[k]
    BY <1>1 DEF TypeOK
<1>4. CASE run[j][i] = "idle" /\ Begin(j, i) /\ lost' = lost
  <2>1. Agents(k)' = IF k # j THEN Agents(k) ELSE Agents(k) \cup {i}
      BY <1>4, AgentsOf DEF Begin, Phases
  <2>2. i \notin Agents(j)
      BY <1>4 DEF Agents
  <2>. QED  BY <1>1, <1>2, <1>3, <1>4, <2>1, <2>2 DEF Rests, Comes
<1>5. CASE run' = run /\ Lose(j)
  <2>1. Agents(k)' = Agents(k)
      BY <1>5 DEF Agents
  <2>2. lost'[k] = IF k = j THEN lost[k] \/ Count(k) > 0 ELSE lost[k]
      BY <1>5 DEF Lose, TypeOK
  <2>. QED  BY <1>1, <1>2, <1>3, <2>1, <2>2 DEF Rests, Comes
<1>. QED  BY <1>4, <1>5 DEF RetryFires, MisfireRetry

LEMMA EffectRuns ==
    ASSUME TypeOK, NEW k \in Jobs, NEW j \in Jobs, NEW i \in Ids, Step(j, i)
    PROVE  Effect(k)
<1>1. adds' = adds /\ ticks' = ticks
    BY DEF Step, Succeed, FailAndRetry, FailForGood, Alerted, Reported, Delivered, history, store
<1>2. MayFail(j, i) =>
        /\ k # j => raised'[k] = raised[k]
        /\ \/ i \in Agents(j) /\ raised'[j] = raised[j]
           \/ raised'[j] = raised[j] + 1
    BY DEF MayFail, Agents, TypeOK
<1>3. CASE Succeed(j, i) \/ FailForGood(j, i)
  <2>1. /\ ZeroCount(j) /\ retry' = retry /\ granted' = granted
        /\ k # j => raised'[k] = raised[k]
        /\ \/ i \in Agents(j) /\ raised'[j] = raised[j]
           \/ raised'[j] = raised[j] + 1
      BY <1>2, <1>3 DEF Succeed, FailForGood, Agents
  <2>2. Agents(k)' = IF k # j THEN Agents(k) ELSE Agents(k) \ {i}
      BY <1>3, AgentsOf DEF Succeed, FailForGood, Goes, Phases
  <2>3. lost'[k] = IF k = j THEN FALSE ELSE lost[k]
      BY <2>1 DEF ZeroCount, TypeOK
  <2>4. CASE k = j
    <3>1. Count(k)' = 0 /\ Removals(k)' = Removals(k)
        BY <1>1, <2>1, <2>4, RowRuns
    <3>. QED  BY <1>1, <2>1, <2>2, <2>4, <3>1 DEF Effect, Ends, Spends
  <2>5. CASE k # j
    <3>1. Kept(k)
        BY <1>1, <2>1, <2>5, RowRuns
    <3>. QED  BY <1>1, <2>1, <2>2, <2>3, <2>5, <3>1 DEF Effect, Rests, Same
  <2>. QED  BY <2>4, <2>5
<1>4. CASE FailAndRetry(j, i)
  <2>1. /\ RetryLeft(j) /\ Grant(j) /\ lost' = lost
        /\ k # j => raised'[k] = raised[k]
        /\ \/ i \in Agents(j) /\ raised'[j] = raised[j]
           \/ raised'[j] = raised[j] + 1
      BY <1>2, <1>4 DEF FailAndRetry
  <2>2. Agents(k)' = IF k # j THEN Agents(k) ELSE Agents(k) \ {i}
      BY <1>4, AgentsOf DEF FailAndRetry, Goes, Phases
  <2>3. row[j] \in Rows /\ row[j] # None /\ row[j].retries < MaxRetries
        /\ row[j].retries + 1 \in Ids
    <3>1. row[j] \in Rows /\ row[j] # None
        BY <2>1 DEF RetryLeft, TypeOK
    <3>2. row[j].retries \in Nat /\ row[j].retries < MaxRetries
        BY <2>1, <3>1, RowTypes DEF RetryLeft, Limit
    <3>. QED  BY <3>1, <3>2 DEF Ids
  <2>4. CASE k = j
    <3>1. Count(k)' = Count(k) + 1 /\ Removals(k)' = Removals(k)
        BY <1>1, <2>1, <2>4, RowRuns
    <3>2. Count(k) < MaxRetries
        BY <2>3, <2>4 DEF Count
    <3>3. \E n \in Ids : retry'[k] = retry[k] \cup {n}
        BY <2>1, <2>3, <2>4 DEF Grant, TypeOK
    <3>4. granted'[k] \in {granted[k], granted[k] + 1}
        BY <2>1, <2>4 DEF Grant, TypeOK
    <3>. QED  BY <1>1, <2>1, <2>2, <2>4, <3>1, <3>2, <3>3, <3>4 DEF Effect, Grants, Spends
  <2>5. CASE k # j
    <3>1. Kept(k)
        BY <1>1, <2>1, <2>5, RowRuns
    <3>2. retry'[k] = retry[k] /\ granted'[k] = granted[k]
        BY <2>1, <2>5 DEF Grant, TypeOK
    <3>. QED  BY <1>1, <2>1, <2>2, <2>5, <3>1, <3>2 DEF Effect, Rests, Same
  <2>. QED  BY <2>4, <2>5
<1>5. CASE Alerted(j, i) \/ Reported(j, i) \/ Delivered(j, i)
  <2>1. Kept(k) \/ Removed(k)
      BY <1>5, RowRuns
  <2>2. /\ i \notin Agents(j) /\ retry' = retry /\ lost' = lost
        /\ raised' = raised /\ granted' = granted
      BY <1>5 DEF Alerted, Reported, Delivered, Agents, history
  <2>3. \E p \in Phases \ {"agent"} : run' = [run EXCEPT ![j][i] = p]
      BY <1>5 DEF Alerted, Reported, Delivered, Goes, Phases
  <2>4. Agents(k)' = Agents(k)
    <3>1. PICK p \in Phases \ {"agent"} : run' = [run EXCEPT ![j][i] = p]
        BY <2>3
    <3>2. Agents(k)' = IF k # j THEN Agents(k) ELSE Agents(k) \ {i}
        BY <3>1, AgentsOf
    <3>3. Agents(j) \ {i} = Agents(j)
        BY <2>2
    <3>. QED  BY <3>2, <3>3
  <2>. QED  BY <1>1, <2>1, <2>2, <2>4 DEF Effect, Rests, Same
<1>. QED  BY <1>3, <1>4, <1>5 DEF Step

LEMMA EffectProcess ==
    ASSUME TypeOK, NEW k \in Jobs, Start \/ Halt
    PROVE  Rests(k) \/ Halts(k)
<1>1. CASE Start
  <2>1. adds' = adds /\ (row'[k] = row[k] \/ row'[k] = None)
      BY <1>1 DEF Start
  <2>2. run' = run /\ retry' = retry /\ lost' = lost /\ ticks' = ticks /\ raised' = raised /\ granted' = granted
      BY <1>1 DEF Start, history
  <2>. QED  BY <2>1, <2>2, RowCases DEF Rests, Same, Agents
<1>2. CASE Halt
  <2>1. row' = row /\ adds' = adds /\ ticks' = ticks /\ raised' = raised /\ granted' = granted
      BY <1>2 DEF Halt, store
  <2>2. retry'[k] = {} /\ Agents(k)' = {}
      BY <1>2 DEF Halt, Agents
  <2>3. Count(k) > 0 => lost'[k]
      BY <1>2 DEF Halt
  <2>. QED  BY <2>1, <2>2, <2>3, RowCases DEF Halts, Same
<1>. QED  BY <1>1, <1>2

LEMMA Effects == TypeOK /\ [Next]_vars => \A k \in Jobs : Effect(k)
<1>. SUFFICES ASSUME TypeOK, [Next]_vars, NEW k \in Jobs PROVE Effect(k)
    OBVIOUS
<1>1. CASE UNCHANGED vars
  <2>1. row' = row /\ adds' = adds /\ run' = run /\ retry' = retry /\ lost' = lost
          /\ ticks' = ticks /\ raised' = raised /\ granted' = granted
      BY <1>1 DEF vars, store, memory, history
  <2>. QED  BY <2>1, RowCases DEF Effect, Rests, Same, Agents
<1>2. CASE \E c \in Callers :
             \/ Post(c)
             \/ \E j \in Jobs :
                   \/ \E once \in BOOLEAN : CallAdd(c, j, once)
                   \/ CallPause(c, j) \/ CallResume(c, j) \/ CallRemove(c, j)
    BY <1>2, EffectTools DEF Effect
<1>3. CASE Apply
    BY <1>3, EffectApply DEF Effect
<1>4. CASE \E j \in Jobs : \/ \E g \in Gens : DatePasses(j, g)
                         \/ Tick(j) \/ TickOnce(j) \/ MisfireOnce(j)
    BY <1>4, EffectClock DEF Effect
<1>5. CASE \E j \in Jobs, i \in Ids : RetryFires(j, i) \/ MisfireRetry(j, i)
    BY <1>5, EffectRetries DEF Effect
<1>6. CASE \E j \in Jobs, i \in Ids : Step(j, i)
    BY <1>6, EffectRuns
<1>7. CASE Start \/ Halt
    BY <1>7, EffectProcess DEF Effect
<1>. QED  BY <1>1, <1>2, <1>3, <1>4, <1>5, <1>6, <1>7 DEF Next

-----------------------------------------------------------------------------
(* Counts are backed.                                                      *)

LEMMA BackedStep == TypeOK /\ CountBacked /\ [Next]_vars => CountBacked'
<1>. SUFFICES ASSUME TypeOK, CountBacked, [Next]_vars, NEW k \in Jobs, Count(k)' > 0, ~lost'[k]
              PROVE  retry'[k] # {} \/ Agents(k)' # {}
    BY DEF CountBacked, Agents
<1>1. Effect(k)
    BY Effects
<1>2. Count(k) \in Nat
    BY RowTypes DEF Count, TypeOK
<1>3. Count(k) > 0 /\ ~lost[k] => retry[k] # {} \/ Agents(k) # {}
    BY DEF CountBacked, Agents
<1>4. CASE Rests(k)
    BY <1>2, <1>3, <1>4 DEF Rests, Kept, Removed
<1>5. CASE Begins(k)
    BY <1>5 DEF Begins
<1>6. CASE Comes(k)
    BY <1>6 DEF Comes, Kept
<1>7. CASE Ends(k)
    BY <1>7 DEF Ends
<1>8. CASE Grants(k)
    BY <1>8 DEF Grants
<1>9. CASE Halts(k)
    BY <1>9 DEF Halts, Kept
<1>. QED  BY <1>1, <1>4, <1>5, <1>6, <1>7, <1>8, <1>9 DEF Effect

\* A stored retry count above zero has a scheduled retry or a run behind it, unless
\* one was lost: _run_job and set_retry_count, with misfires and ends of the process.
THEOREM CountsAreBacked == Spec => []CountBacked
<1>1. Init => CountBacked
    BY DEF Init, CountBacked, Count
<1>. QED  BY <1>1, TypeInit, TypeStep, BackedStep, PTL DEF Spec

-----------------------------------------------------------------------------
(* The account of retries.                                                 *)

Live(k) == Cardinality(retry[k]) + Cardinality(Agents(k))
Paid(k) == ticks[k] + Removals(k) + raised[k]

AccountInv ==
    \A k \in Jobs :
        /\ granted[k] <= MaxRetries * (Paid(k) - Live(k)) + Count(k)
        /\ granted[k] <= MaxRetries * Paid(k)

LEMMA Distributes ==
    ASSUME NEW m \in Nat, NEW x \in Int, NEW y \in Int
    PROVE  /\ m * x \in Int /\ m * (x + 1) = m * x + m
           /\ x <= y => m * x <= m * y
  OBVIOUS

\* One more or one less.
LEMMA Sizes ==
    ASSUME NEW S \in SUBSET Ids, NEW i \in Ids
    PROVE  /\ Cardinality(S) \in Nat
           /\ i \in S => Cardinality(S \ {i}) = Cardinality(S) - 1
           /\ Cardinality(S \ {i}) <= Cardinality(S)
           /\ i \notin S => Cardinality(S \cup {i}) = Cardinality(S) + 1
           /\ Cardinality(S \cup {i}) <= Cardinality(S) + 1
           /\ Cardinality({}) = 0
<1>1. IsFiniteSet(Ids)
    BY FS_Interval DEF Ids
<1>2. IsFiniteSet(S)
    BY <1>1, FS_Subset
<1>3. Cardinality(S) \in Nat
    BY <1>2, FS_CardinalityType
<1>4. i \notin S => Cardinality(S \cup {i}) = Cardinality(S) + 1
    BY <1>2, FS_AddElement
<1>5. i \in S => S \cup {i} = S
    OBVIOUS
<1>6. i \in S => Cardinality(S \ {i}) = Cardinality(S) - 1
    BY <1>2, FS_RemoveElement
<1>7. i \notin S => S \ {i} = S
    OBVIOUS
<1>8. Cardinality(S \ {i}) <= Cardinality(S) /\ Cardinality(S \cup {i}) <= Cardinality(S) + 1
  <2>1. CASE i \in S
    <3>1. Cardinality(S \cup {i}) = Cardinality(S)
        BY <1>5, <2>1
    <3>2. Cardinality(S \ {i}) = Cardinality(S) - 1
        BY <1>6, <2>1
    <3>. QED  BY ONLY <1>3, <3>1, <3>2
  <2>2. CASE i \notin S
    <3>1. Cardinality(S \ {i}) = Cardinality(S)
        BY <1>7, <2>2
    <3>2. Cardinality(S \cup {i}) = Cardinality(S) + 1
        BY <1>4, <2>2
    <3>. QED  BY ONLY <1>3, <3>1, <3>2
  <2>. QED  BY <2>1, <2>2
<1>9. Cardinality({}) = 0
    BY FS_EmptySet
<1>. QED  BY ONLY <1>3, <1>4, <1>6, <1>8, <1>9

LEMMA AccountStep ==
    TypeOK /\ TypeOK' /\ AccountInv /\ [Next]_vars => AccountInv'
<1>. SUFFICES ASSUME TypeOK, TypeOK', AccountInv, [Next]_vars, NEW k \in Jobs
              PROVE  /\ granted'[k] <= MaxRetries * (Paid(k)' - Live(k)') + Count(k)'
                     /\ granted'[k] <= MaxRetries * Paid(k)'
    BY DEF AccountInv
<1>1. Effect(k)
    BY Effects
<1>2. /\ granted[k] \in Nat /\ granted'[k] \in Nat /\ ticks[k] \in Nat /\ ticks'[k] \in Nat
      /\ adds[k] \in Nat /\ adds'[k] \in Nat /\ raised[k] \in Nat /\ raised'[k] \in Nat
      /\ retry[k] \in SUBSET Ids /\ retry'[k] \in SUBSET Ids
    BY DEF TypeOK, GrantCap
<1>3. Agents(k) \in SUBSET Ids /\ Agents(k)' \in SUBSET Ids
    BY DEF Agents
<1>4. /\ Cardinality(retry[k]) \in Nat /\ Cardinality(Agents(k)) \in Nat
      /\ Cardinality(retry'[k]) \in Nat /\ Cardinality(Agents(k)') \in Nat
  <2>1. 0 \in Ids
      BY DEF Ids
  <2>. QED  BY <1>2, <1>3, <2>1, Sizes
<1>5. Live(k) \in Nat /\ Live(k)' \in Nat
    BY <1>4 DEF Live
<1>6. Removals(k) \in Int /\ Removals(k)' \in Int /\ Paid(k) \in Int /\ Paid(k)' \in Int
    BY <1>2 DEF Removals, Paid
<1>7. Count(k) \in 0..MaxRetries /\ Count(k)' \in 0..MaxRetries
  <2>1. row[k] \in Rows \cup {None} /\ row'[k] \in Rows \cup {None}
      BY DEF TypeOK
  <2>. QED  BY <2>1, RowTypes DEF Count
<1>8. granted[k] <= MaxRetries * (Paid(k) - Live(k)) + Count(k) /\ granted[k] <= MaxRetries * Paid(k)
    BY DEF AccountInv
<1>. DEFINE
       S1 == granted'[k] = granted[k] /\ Paid(k)' - Live(k)' >= Paid(k) - Live(k)
               /\ Paid(k)' >= Paid(k) /\ Count(k)' = Count(k)
       S2 == granted'[k] = granted[k] /\ Paid(k)' - Live(k)' >= Paid(k) - Live(k) + 1
               /\ Paid(k)' >= Paid(k)
       S3 == granted'[k] <= granted[k] + 1 /\ Paid(k)' - Live(k)' >= Paid(k) - Live(k)
               /\ Paid(k)' = Paid(k) /\ Count(k)' = Count(k) + 1 /\ Count(k) < MaxRetries
               /\ Live(k) >= 1
       S4 == granted'[k] <= granted[k] + 1 /\ Paid(k)' - Live(k)' >= Paid(k) - Live(k)
               /\ Paid(k)' = Paid(k) + 1 /\ Count(k)' = Count(k) + 1 /\ Count(k) < MaxRetries
<1>9. S1 \/ S2 \/ S3 \/ S4
  <2>1. CASE Rests(k)
    <3>1. Live(k)' = Live(k)
        BY <2>1 DEF Rests, Live
    <3>. QED  BY <1>2, <1>5, <1>6, <2>1, <3>1 DEF Rests, Kept, Removed, Same, Paid
  <2>2. CASE Begins(k)
    <3>1. PICK i \in Ids \ Agents(k) : Agents(k)' = Agents(k) \cup {i}
        BY <2>2 DEF Begins
    <3>2. Cardinality(Agents(k)') = Cardinality(Agents(k)) + 1
        BY <1>3, <3>1, Sizes
    <3>3. Live(k)' = Live(k) + 1
        BY <1>4, <2>2, <3>2 DEF Begins, Live
    <3>. QED  BY <1>2, <1>5, <1>6, <2>2, <3>3 DEF Begins, Kept, Paid
  <2>3. CASE Comes(k)
    <3>1. PICK i \in retry[k] :
             /\ retry'[k] = retry[k] \ {i}
             /\ \/ i \notin Agents(k) /\ Agents(k)' = Agents(k) \cup {i}
                \/ Agents(k)' = Agents(k)
        BY <2>3 DEF Comes
    <3>2. Cardinality(retry'[k]) = Cardinality(retry[k]) - 1
        BY <1>2, <3>1, Sizes
    <3>3. Cardinality(Agents(k)') <= Cardinality(Agents(k)) + 1
        BY <1>2, <1>3, <1>4, <3>1, Sizes
    <3>4. Live(k)' <= Live(k)
        BY <1>4, <3>2, <3>3 DEF Live
    <3>. QED  BY <1>2, <1>5, <1>6, <2>3, <3>4 DEF Comes, Kept, Same, Paid
  <2>4. CASE Ends(k)
    <3>1. PICK i \in Ids :
             /\ Agents(k)' = Agents(k) \ {i}
             /\ \/ i \in Agents(k) /\ raised'[k] = raised[k]
                \/ raised'[k] = raised[k] + 1
        BY <2>4, Zenon DEF Ends, Spends
    <3>2. CASE i \in Agents(k) /\ raised'[k] = raised[k]
      <4>1. Cardinality(Agents(k)') = Cardinality(Agents(k)) - 1
          BY <1>3, <3>1, <3>2, Sizes
      <4>2. Live(k)' = Live(k) - 1
          BY <1>4, <2>4, <4>1 DEF Ends, Live
      <4>. QED  BY <1>2, <1>5, <1>6, <2>4, <3>2, <4>2 DEF Ends, Paid
    <3>3. CASE raised'[k] = raised[k] + 1
      <4>1. Cardinality(Agents(k)') <= Cardinality(Agents(k))
          BY <1>3, <3>1, Sizes
      <4>2. Live(k)' <= Live(k)
          BY <1>4, <2>4, <4>1 DEF Ends, Live
      <4>. QED  BY <1>2, <1>5, <1>6, <2>4, <3>3, <4>2 DEF Ends, Paid
    <3>. QED  BY <3>1, <3>2, <3>3
  <2>5. CASE Grants(k)
    <3>1. PICK i \in Ids :
             /\ Agents(k)' = Agents(k) \ {i}
             /\ \/ i \in Agents(k) /\ raised'[k] = raised[k]
                \/ raised'[k] = raised[k] + 1
        BY <2>5, Zenon DEF Grants, Spends
    <3>2. PICK n \in Ids : retry'[k] = retry[k] \cup {n}
        BY <2>5 DEF Grants
    <3>3. Cardinality(retry'[k]) <= Cardinality(retry[k]) + 1
        BY <1>2, <3>2, Sizes
    <3>4. granted'[k] <= granted[k] + 1
        BY <1>2, <2>5 DEF Grants
    <3>5. CASE i \in Agents(k) /\ raised'[k] = raised[k]
      <4>1. Cardinality(Agents(k)') = Cardinality(Agents(k)) - 1
          BY <1>3, <3>1, <3>5, Sizes
      <4>2. Live(k)' <= Live(k) /\ Live(k) >= 1
          BY <1>4, <3>3, <4>1 DEF Live
      <4>3. Paid(k)' = Paid(k)
          BY <2>5, <3>5 DEF Grants, Paid
      <4>. QED  BY <1>5, <1>6, <2>5, <3>4, <4>2, <4>3 DEF Grants
    <3>6. CASE raised'[k] = raised[k] + 1
      <4>1. Cardinality(Agents(k)') <= Cardinality(Agents(k))
          BY <1>3, <3>1, Sizes
      <4>2. Live(k)' <= Live(k) + 1
          BY <1>4, <3>3, <4>1 DEF Live
      <4>3. Paid(k)' = Paid(k) + 1
          BY <1>2, <1>6, <2>5, <3>6 DEF Grants, Paid
      <4>. QED  BY <1>5, <1>6, <2>5, <3>4, <4>2, <4>3 DEF Grants
    <3>. QED  BY <3>1, <3>5, <3>6
  <2>6. CASE Halts(k)
    <3>1. Live(k)' = 0
      <4>1. retry'[k] = {} /\ Agents(k)' = {}
          BY <2>6 DEF Halts
      <4>. QED  BY <4>1, FS_EmptySet DEF Live
    <3>. QED  BY <1>2, <1>5, <1>6, <2>6, <3>1 DEF Halts, Kept, Same, Paid
  <2>. QED  BY <1>1, <2>1, <2>2, <2>3, <2>4, <2>5, <2>6 DEF Effect
<1>. DEFINE a == MaxRetries * (Paid(k) - Live(k))
            b == MaxRetries * Paid(k)
            a1 == MaxRetries * (Paid(k)' - Live(k)')
            b1 == MaxRetries * Paid(k)'
<1>10. a \in Int /\ b \in Int /\ a1 \in Int /\ b1 \in Int
    BY <1>5, <1>6, Distributes
<1>11. Paid(k)' - Live(k)' >= Paid(k) - Live(k) => a <= a1
    BY <1>5, <1>6, Distributes
<1>12. Paid(k)' - Live(k)' >= Paid(k) - Live(k) + 1 => a + MaxRetries <= a1
  <2>1. MaxRetries * ((Paid(k) - Live(k)) + 1) = a + MaxRetries
      BY <1>5, <1>6, Distributes
  <2>. QED  BY <1>5, <1>6, <2>1, Distributes
<1>13. Paid(k)' >= Paid(k) => b <= b1
    BY <1>6, Distributes
<1>14. Live(k) >= 1 => a + MaxRetries <= b
  <2>1. MaxRetries * ((Paid(k) - Live(k)) + 1) = a + MaxRetries
      BY <1>5, <1>6, Distributes
  <2>. QED  BY <1>5, <1>6, <2>1, Distributes
<1>15. granted[k] <= a + Count(k) /\ granted[k] <= b
    BY <1>8
<1>16. Paid(k)' = Paid(k) + 1 => b + MaxRetries = b1
    BY <1>6, Distributes
<1>17. granted'[k] <= a1 + Count(k)' /\ granted'[k] <= b1
  <2>. HIDE DEF a, b, a1, b1, Paid, Live, Count
  <2>1. CASE S1 \/ S2 \/ S3
      BY ONLY <1>2, <1>5, <1>6, <1>7, <2>1, <1>10, <1>11, <1>12, <1>13, <1>14, <1>15,
              MaxRetries \in Nat
  <2>2. CASE S4
      BY ONLY <1>2, <1>5, <1>6, <1>7, <2>2, <1>10, <1>11, <1>15, <1>16, MaxRetries \in Nat
  <2>. QED  BY ONLY <1>9, <2>1, <2>2
<1>. QED  BY <1>17

LEMMA AccountInit == Init => AccountInv
<1>. SUFFICES ASSUME Init, NEW k \in Jobs
              PROVE  /\ granted[k] <= MaxRetries * (Paid(k) - Live(k)) + Count(k)
                     /\ granted[k] <= MaxRetries * Paid(k)
    BY DEF AccountInv
<1>1. retry[k] = {} /\ Agents(k) = {}
    BY DEF Init, Agents
<1>2. Live(k) = 0
    BY <1>1, FS_EmptySet DEF Live
<1>3. Paid(k) = 0 /\ Count(k) = 0 /\ granted[k] = 0
    BY DEF Init, Paid, Removals, Count
<1>. QED  BY <1>2, <1>3

\* _run_job grants at most max_retries retries for every regular run, every removed
\* row and every success whose report raised, however runs and retries overlap.
THEOREM RetriesAreBounded == Spec => []RetriesBounded
<1>1. AccountInv => RetriesBounded
    BY DEF AccountInv, RetriesBounded, Paid
<1>2. TypeOK /\ AccountInv /\ [Next]_vars => TypeOK' /\ AccountInv'
    BY TypeStep, AccountStep
<1>. QED  BY <1>1, <1>2, TypeInit, AccountInit, PTL DEF Spec

-----------------------------------------------------------------------------
(* One-time rows.                                                          *)

\* Dates lie ahead, rows fire and one-time jobs are registered for rows the name
\* has had; what has fired lies ahead no more and is not registered.
OnceInv ==
    \A k \in Jobs :
        /\ ahead[k] \subseteq 1..adds[k] /\ fired[k] \subseteq 1..adds[k]
        /\ ahead[k] \cap fired[k] = {}
        /\ sched[k] # None /\ sched[k].once => sched[k].gen \in (1..adds[k]) \ fired[k]

\* The registration of a name is left, dropped, paused or resumed, or made for a
\* row whose date lies ahead.
Registers(k) ==
    \/ sched'[k] = None
    \/ sched[k] # None /\ sched'[k].once = sched[k].once /\ sched'[k].gen = sched[k].gen
    \/ sched'[k].once => sched'[k].gen \in ahead[k]

LEMMA OnceKept ==
    ASSUME OnceInv, NEW k \in Jobs, Registers(k), fired'[k] = fired[k], adds'[k] = adds[k],
           ahead'[k] \subseteq ahead[k]
    PROVE  /\ ahead'[k] \subseteq 1..adds'[k] /\ fired'[k] \subseteq 1..adds'[k]
           /\ ahead'[k] \cap fired'[k] = {}
           /\ sched'[k] # None /\ sched'[k].once => sched'[k].gen \in (1..adds'[k]) \ fired'[k]
<1>1. /\ ahead[k] \subseteq 1..adds[k] /\ fired[k] \subseteq 1..adds[k]
      /\ ahead[k] \cap fired[k] = {}
      /\ sched[k] # None /\ sched[k].once => sched[k].gen \in (1..adds[k]) \ fired[k]
    BY DEF OnceInv
<1>2. CASE sched'[k] = None
    BY <1>1, <1>2
<1>3. CASE sched[k] # None /\ sched'[k].once = sched[k].once /\ sched'[k].gen = sched[k].gen
    BY <1>1, <1>3
<1>4. CASE sched'[k].once => sched'[k].gen \in ahead[k]
    BY <1>1, <1>4
<1>. QED  BY <1>2, <1>3, <1>4 DEF Registers

LEMMA OnceApply == ASSUME TypeOK, NEW k \in Jobs, Apply PROVE Registers(k)
<1>. DEFINE q == Head(queue)
<1>1. q.job \in Jobs
    BY CommandTypes DEF Apply, TypeOK
<1>2. CASE q.op = "add" /\ ApplyAdd(q.job, q.entry)
    BY <1>1, <1>2 DEF ApplyAdd, Expired, Registers, TypeOK
<1>3. ASSUME NEW b \in BOOLEAN, ApplyPaused(q.job, b) PROVE Registers(k)
  <2>1. CASE sched[q.job] = None \/ k # q.job
      BY <1>1, <1>3, <2>1 DEF ApplyPaused, Registers, TypeOK
  <2>2. CASE sched[q.job] # None /\ k = q.job
    <3>1. sched[k] \in Entries
        BY <2>2 DEF TypeOK
    <3>2. sched'[k] = [sched[k] EXCEPT !.paused = b]
        BY <1>3, <2>2 DEF ApplyPaused, TypeOK
    <3>3. sched'[k].once = sched[k].once /\ sched'[k].gen = sched[k].gen
        BY <3>1, <3>2 DEF Entries
    <3>. QED  BY <2>2, <3>3 DEF Registers
  <2>. QED  BY <2>1, <2>2
<1>4. CASE q.op = "remove" /\ ApplyRemove(q.job)
    BY <1>1, <1>4 DEF ApplyRemove, Registers, TypeOK
<1>. QED  BY <1>2, <1>3, <1>4 DEF Apply

LEMMA OnceStep == TypeOK /\ OnceInv /\ [Next]_vars => OnceInv'
<1>. SUFFICES ASSUME TypeOK, OnceInv, [Next]_vars, NEW k \in Jobs
              PROVE  /\ ahead'[k] \subseteq 1..adds'[k] /\ fired'[k] \subseteq 1..adds'[k]
                     /\ ahead'[k] \cap fired'[k] = {}
                     /\ sched'[k] # None /\ sched'[k].once
                           => sched'[k].gen \in (1..adds'[k]) \ fired'[k]
    BY DEF OnceInv
<1>. DEFINE Leaves == /\ Registers(k) /\ fired'[k] = fired[k] /\ adds'[k] = adds[k]
                      /\ ahead'[k] \subseteq ahead[k]
<1>. USE DEF vars, store, memory, history
<1>1. sched' = sched /\ fired' = fired /\ adds' = adds /\ ahead' = ahead => Leaves
    BY DEF Registers
<1>2. ASSUME NEW c \in Callers, NEW j \in Jobs, NEW once \in BOOLEAN, CallAdd(c, j, once)
      PROVE  /\ ahead'[k] \subseteq 1..adds'[k] /\ fired'[k] \subseteq 1..adds'[k]
             /\ ahead'[k] \cap fired'[k] = {}
             /\ sched'[k] # None /\ sched'[k].once
                   => sched'[k].gen \in (1..adds'[k]) \ fired'[k]
  <2>. DEFINE g == adds[k] + 1
  <2>0. /\ adds' = [adds EXCEPT ![j] = adds[j] + 1]
        /\ ahead' = [ahead EXCEPT ![j] = IF once THEN @ \cup {adds[j] + 1} ELSE @]
        /\ fired' = fired /\ sched' = sched
      BY <1>2 DEF CallAdd
  <2>1. /\ adds[k] \in Nat
        /\ adds'[k] = adds[k] \/ adds'[k] = g
        /\ ahead'[k] = ahead[k] \/ (ahead'[k] = ahead[k] \cup {g} /\ adds'[k] = g)
        /\ fired' = fired /\ sched' = sched
      BY <2>0 DEF TypeOK
  <2>2. /\ ahead[k] \subseteq 1..adds[k] /\ fired[k] \subseteq 1..adds[k]
        /\ ahead[k] \cap fired[k] = {}
        /\ sched[k] # None /\ sched[k].once => sched[k].gen \in (1..adds[k]) \ fired[k]
      BY DEF OnceInv
  <2>3. 1..adds[k] \subseteq 1..adds'[k] /\ g \notin 1..adds[k] /\ (adds'[k] = g => g \in 1..adds'[k])
      BY <2>1
  <2>. QED  BY <2>1, <2>2, <2>3
<1>3. ASSUME NEW c \in Callers, NEW j \in Jobs, CallPause(c, j) \/ CallResume(c, j) \/ CallRemove(c, j)
      PROVE  Leaves
    BY <1>1, <1>3 DEF CallPause, CallResume, CallRemove
<1>4. ASSUME NEW c \in Callers, Post(c) PROVE Leaves
    BY <1>1, <1>4 DEF Post
<1>5. CASE Apply
  <2>1. Registers(k)
      BY <1>5, OnceApply
  <2>2. fired' = fired /\ adds' = adds /\ ahead' = ahead
      BY <1>5 DEF Apply
  <2>. QED  BY <2>1, <2>2, OnceKept
<1>6. ASSUME NEW j \in Jobs, NEW g \in Gens, DatePasses(j, g) PROVE Leaves
    BY <1>6 DEF DatePasses, Registers, TypeOK
<1>7. ASSUME NEW j \in Jobs, Tick(j) \/ MisfireOnce(j) PROVE Leaves
    BY <1>7 DEF Tick, MisfireOnce, Registers, TypeOK
<1>8. ASSUME NEW j \in Jobs, TickOnce(j)
      PROVE  /\ ahead'[k] \subseteq 1..adds'[k] /\ fired'[k] \subseteq 1..adds'[k]
             /\ ahead'[k] \cap fired'[k] = {}
             /\ sched'[k] # None /\ sched'[k].once
                   => sched'[k].gen \in (1..adds'[k]) \ fired'[k]
  <2>1. ahead' = ahead /\ adds' = adds
      BY <1>8 DEF TickOnce
  <2>2. CASE fired' = fired
    <3>1. Leaves
        BY <1>8, <2>1, <2>2 DEF TickOnce, Registers, TypeOK
    <3>. QED  BY <3>1, OnceKept
  <2>3. CASE fired' = [fired EXCEPT ![j] = @ \cup {sched[j].gen}]
    <3>1. sched' = [sched EXCEPT ![j] = None] /\ sched[j].once /\ sched[j] # None
            /\ sched[j].gen \notin ahead[j]
        BY <1>8 DEF TickOnce, Expired
    <3>2. CASE j = k
      <4>1. fired'[k] = fired[k] \cup {sched[k].gen} /\ sched'[k] = None
          BY <2>3, <3>1, <3>2 DEF TypeOK
      <4>. QED  BY <2>1, <3>1, <3>2, <4>1 DEF OnceInv
    <3>3. CASE j # k
      <4>1. fired'[k] = fired[k] /\ sched'[k] = sched[k]
          BY <2>3, <3>1, <3>3 DEF TypeOK
      <4>. QED  BY <2>1, <4>1 DEF OnceInv
    <3>. QED  BY <3>2, <3>3
  <2>. QED  BY <1>8, <2>2, <2>3 DEF TickOnce
<1>9. ASSUME NEW j \in Jobs, NEW i \in Ids, RetryFires(j, i) \/ MisfireRetry(j, i) PROVE Leaves
    BY <1>1, <1>9 DEF RetryFires, MisfireRetry
<1>10. ASSUME NEW j \in Jobs, NEW i \in Ids, Step(j, i) PROVE Leaves
    BY <1>1, <1>10 DEF Step, Succeed, FailAndRetry, FailForGood, Alerted, Reported, Delivered
<1>11. CASE Start
  <2>1. sched'[k] = None \/ (sched'[k].once => sched'[k].gen \in ahead[k])
      BY <1>11 DEF Start, Expired
  <2>2. fired' = fired /\ adds' = adds /\ ahead' = ahead
      BY <1>11 DEF Start
  <2>. QED  BY <2>1, <2>2, OnceKept DEF Registers
<1>12. CASE Halt
  <2>1. sched'[k] = None /\ fired' = fired /\ adds' = adds /\ ahead' = ahead
      BY <1>12 DEF Halt
  <2>. QED  BY <2>1, OnceKept DEF Registers
<1>13. CASE UNCHANGED vars
  <2>1. sched' = sched /\ fired' = fired /\ adds' = adds /\ ahead' = ahead
      BY <1>13
  <2>. QED  BY <1>1, <2>1, OnceKept
<1>. QED  BY <1>2, <1>3, <1>4, <1>5, <1>6, <1>7, <1>8, <1>9, <1>10, <1>11, <1>12, <1>13, OnceKept
          DEF Next

LEMMA OnceInit == Init => OnceInv
  BY DEF Init, OnceInv

\* A run begins on the schedule in Tick and TickOnce only.
LEMMA TicksBegin ==
    ASSUME TypeOK, [Next]_vars, NEW k \in Jobs, ticks'[k] # ticks[k]
    PROVE  Tick(k) \/ (TickOnce(k) /\ fired'[k] = fired[k] \cup {sched[k].gen})
<1>. USE DEF vars, store, memory, history
<1>1. \E j \in Jobs : Tick(j) \/ TickOnce(j)
    BY DEF Next, CallAdd, CallPause, CallResume, CallRemove, Post, Apply, MisfireOnce, DatePasses,
           RetryFires, MisfireRetry, Step, Succeed, FailAndRetry, FailForGood, Alerted, Reported,
           Delivered, Start, Halt
<1>2. PICK j \in Jobs : Tick(j) \/ TickOnce(j)
    BY <1>1
<1>3. CASE Tick(j)
    BY <1>3 DEF Tick, TypeOK
<1>4. CASE TickOnce(j)
  <2>1. ticks' # ticks
      OBVIOUS
  <2>2. /\ ticks' = [ticks EXCEPT ![j] = @ + 1]
        /\ fired' = [fired EXCEPT ![j] = @ \cup {sched[j].gen}]
      BY <1>4, <2>1 DEF TickOnce
  <2>3. j = k
      BY <2>2 DEF TypeOK
  <2>. QED  BY <1>4, <2>2, <2>3 DEF TypeOK
<1>. QED  BY <1>2, <1>3, <1>4

\* A one-time row fires at most once: neither start(), which registers every
\* active row, nor an add_job that comes late registers a row whose date is gone.
THEOREM OnceFiresOnce == Spec => OnceAtMostOnce
<1>1. TypeOK /\ OnceInv /\ [Next]_vars
        => [\A j \in Jobs : fired'[j] = fired[j] =>
              ~(sched[j] # None /\ sched[j].once /\ ticks'[j] > ticks[j])]_vars
  <2>. SUFFICES ASSUME TypeOK, OnceInv, [Next]_vars, NEW j \in Jobs, fired'[j] = fired[j],
                       sched[j] # None, sched[j].once, ticks'[j] > ticks[j]
                PROVE  FALSE
      OBVIOUS
  <2>1. ticks'[j] # ticks[j]
      BY DEF TypeOK
  <2>2. Tick(j) \/ (TickOnce(j) /\ fired'[j] = fired[j] \cup {sched[j].gen})
      BY <2>1, TicksBegin
  <2>. QED  BY <2>2 DEF Tick, OnceInv
<1>2. TypeOK /\ OnceInv /\ [Next]_vars => TypeOK' /\ OnceInv'
    BY TypeStep, OnceStep
<1>. QED  BY <1>1, <1>2, TypeInit, OnceInit, PTL DEF Spec, OnceAtMostOnce

-----------------------------------------------------------------------------
(* A job paused in the store comes off the schedule.                       *)

\* The call of c on name j has written the store and not posted yet.
OnCall(c, j) == tool[c] # None /\ tool[c].job = j

IsPaused(j) == row[j] # None /\ ~row[j].active

\* Of the commands on j that are queued, the last is a pause.
PauseIsLast(j) ==
    \E k \in 1..Len(queue) :
        /\ queue[k].job = j /\ queue[k].op = "pause"
        /\ \A m \in 1..Len(queue) : m > k => queue[m].job # j

\* No command on j is queued, and j is off the schedule.
Settled(j) ==
    /\ \A k \in 1..Len(queue) : queue[k].job # j
    /\ sched[j] = None \/ sched[j].paused

\* Calls on j come one after the other, and the pause that a paused row records
\* is the call under way, or the last command on the way, or has been applied.
PauseHeld(j) ==
    /\ \A c, d \in Callers : OnCall(c, j) /\ OnCall(d, j) => c = d
    /\ IsPaused(j) =>
          \/ \E c \in Callers : OnCall(c, j) /\ tool[c].op = "pause"
          \/ (\A c \in Callers : ~OnCall(c, j)) /\ (PauseIsLast(j) \/ Settled(j))

\* Without an executor nothing is queued and nothing scheduled.
DownInv == ~up => queue = <<>> /\ \A j \in Jobs : sched[j] = None

PauseInv == DownInv /\ \A j \in Jobs : ~crossed[j] => PauseHeld(j)

LEMMA PauseInit == Init => PauseInv
<1>. SUFFICES ASSUME Init PROVE PauseInv
    OBVIOUS
<1>1. queue = <<>> /\ \A j \in Jobs : sched[j] = None /\ row[j] = None
    BY DEF Init
<1>2. \A c \in Callers : tool[c] = None
    BY DEF Init
<1>. QED  BY <1>1, <1>2 DEF PauseInv, DownInv, PauseHeld, IsPaused, OnCall

\* The step pauses no row of k and schedules nothing for it.
Spares(k) ==
    /\ row'[k] = None \/ (row[k] # None /\ row'[k].active = row[k].active)
    /\ sched'[k] \in {sched[k], None}

\* What leaves the commands alone and spares every name keeps the invariant.
LEMMA SparesKeeps ==
    ASSUME PauseInv, UNCHANGED <<queue, tool, up, crossed>>, \A k \in Jobs : Spares(k)
    PROVE  PauseInv'
<1>1. ASSUME NEW k \in Jobs, ~crossed'[k] PROVE PauseHeld(k)'
  <2>1. Spares(k) /\ PauseHeld(k)
      BY <1>1 DEF PauseInv
  <2>2. IsPaused(k)' => IsPaused(k)
      BY <2>1 DEF Spares, IsPaused
  <2>3. PauseIsLast(k)' <=> PauseIsLast(k)
      BY DEF PauseIsLast
  <2>4. Settled(k) => Settled(k)'
      BY <2>1 DEF Spares, Settled
  <2>5. \A c \in Callers : (OnCall(c, k)' <=> OnCall(c, k)) /\ tool'[c] = tool[c]
      BY DEF OnCall
  <2>. QED  BY <2>1, <2>2, <2>3, <2>4, <2>5 DEF PauseHeld
<1>2. DownInv'
    BY DEF PauseInv, DownInv, Spares
<1>. QED  BY <1>1, <1>2 DEF PauseInv

\* A call that does not overlap another on its name holds its pause itself.
LEMMA PauseCalled ==
    ASSUME TypeOK, PauseInv, NEW c \in Callers, NEW j \in Jobs, NEW e \in Entries \cup {None},
           NEW op \in {"add", "pause", "resume", "remove"}, Called(c, op, j, e),
           tool[c] = None, UNCHANGED <<sched, queue, up>>,
           \A k \in Jobs \ {j} : row'[k] = row[k],
           op = "pause" \/ ~IsPaused(j)'
    PROVE  PauseInv'
<1>. DEFINE q == [op |-> op, job |-> j, entry |-> e]
<1>1. q \in Commands /\ q # None
    BY CommandTypes, NoneTypes
<1>2. /\ tool'[c] = q
      /\ \A d \in Callers \ {c} : tool'[d] = tool[d]
    BY DEF Called, TypeOK
<1>3. /\ \A k \in Jobs \ {j} : crossed'[k] = crossed[k]
      /\ ~crossed'[j] => \A d \in Callers : ~OnCall(d, j)
    BY DEF Called, OnCall, TypeOK
<1>4. ASSUME NEW k \in Jobs \ {j}, ~crossed'[k] PROVE PauseHeld(k)'
  <2>1. PauseHeld(k) /\ row'[k] = row[k]
      BY <1>3, <1>4 DEF PauseInv
  <2>2. \A d \in Callers : /\ OnCall(d, k)' <=> OnCall(d, k)
                           /\ OnCall(d, k) => tool'[d] = tool[d]
      BY <1>2 DEF OnCall
  <2>3. (PauseIsLast(k)' <=> PauseIsLast(k)) /\ (Settled(k)' <=> Settled(k))
      BY DEF PauseIsLast, Settled
  <2>4. IsPaused(k)' <=> IsPaused(k)
      BY <2>1 DEF IsPaused
  <2>. QED  BY <2>1, <2>2, <2>3, <2>4 DEF PauseHeld
<1>5. ASSUME ~crossed'[j] PROVE PauseHeld(j)'
  <2>1. OnCall(c, j)' /\ tool'[c].op = op
      BY <1>1, <1>2 DEF OnCall
  <2>2. \A d \in Callers \ {c} : ~OnCall(d, j)'
      BY <1>2, <1>3, <1>5 DEF OnCall
  <2>. QED  BY <2>1, <2>2 DEF PauseHeld
<1>6. DownInv'
    BY DEF PauseInv, DownInv
<1>. QED  BY <1>4, <1>5, <1>6 DEF PauseInv

LEMMA PauseTools ==
    ASSUME TypeOK, PauseInv, NEW c \in Callers, NEW j \in Jobs,
           \/ \E once \in BOOLEAN : CallAdd(c, j, once)
           \/ CallPause(c, j) \/ CallResume(c, j) \/ CallRemove(c, j)
    PROVE  PauseInv'
<1>1. ASSUME NEW once \in BOOLEAN, CallAdd(c, j, once) PROVE PauseInv'
  <2>. DEFINE g == adds[j] + 1
              e == [gen |-> g, once |-> once, paused |-> FALSE]
  <2>1. g \in Gens
      BY <1>1 DEF CallAdd, TypeOK, Gens
  <2>2. e \in Entries
      BY <2>1, EntryTypes
  <2>3. row' = [row EXCEPT ![j] = [gen |-> g, once |-> once, active |-> TRUE, retries |-> 0]]
      BY <1>1 DEF CallAdd
  <2>4. ~IsPaused(j)' /\ \A k \in Jobs \ {j} : row'[k] = row[k]
      BY <2>3 DEF IsPaused, TypeOK
  <2>5. Called(c, "add", j, e) /\ tool[c] = None /\ UNCHANGED <<sched, queue, up>>
      BY <1>1 DEF CallAdd
  <2>. HIDE DEF e
  <2>. QED  BY <2>2, <2>4, <2>5, PauseCalled
<1>2. CASE CallPause(c, j)
  <2>1. /\ Called(c, "pause", j, None) /\ tool[c] = None /\ UNCHANGED <<sched, queue, up>>
        /\ \A k \in Jobs \ {j} : row'[k] = row[k]
      BY <1>2 DEF CallPause, TypeOK
  <2>. QED  BY <2>1, PauseCalled
<1>3. CASE CallResume(c, j)
  <2>1. /\ Called(c, "resume", j, None) /\ tool[c] = None /\ UNCHANGED <<sched, queue, up>>
        /\ \A k \in Jobs \ {j} : row'[k] = row[k]
      BY <1>3 DEF CallResume, TypeOK
  <2>2. row'[j] = [row[j] EXCEPT !.active = TRUE] /\ row[j] \in Rows
      BY <1>3 DEF CallResume, TypeOK
  <2>3. ~IsPaused(j)'
      BY <2>2 DEF IsPaused, Rows
  <2>. QED  BY <2>1, <2>3, PauseCalled
<1>4. CASE CallRemove(c, j)
  <2>1. /\ Called(c, "remove", j, None) /\ tool[c] = None /\ UNCHANGED <<sched, queue, up>>
        /\ \A k \in Jobs \ {j} : row'[k] = row[k]
      BY <1>4 DEF CallRemove, TypeOK
  <2>2. ~IsPaused(j)'
      BY <1>4 DEF CallRemove, IsPaused, TypeOK
  <2>. QED  BY <2>1, <2>2, PauseCalled
<1>. QED  BY <1>1, <1>2, <1>3, <1>4

\* A pause under way becomes the last command, or needs none without an executor.
LEMMA PausePost == ASSUME TypeOK, PauseInv, NEW c \in Callers, Post(c) PROVE PauseInv'
<1>. DEFINE q == tool[c]
<1>1. q \in Commands /\ q # None /\ UNCHANGED <<row, sched, up, crossed>>
    BY DEF Post, TypeOK, store, history
<1>2. /\ tool'[c] = None
      /\ \A d \in Callers \ {c} : tool'[d] = tool[d]
    BY DEF Post, TypeOK
<1>3. queue' = IF up THEN Append(queue, q) ELSE queue
    BY DEF Post
<1>4. /\ queue \in Seq(Commands) /\ Len(queue) \in Nat
    BY DEF TypeOK
<1>5. up => /\ Len(queue') = Len(queue) + 1
            /\ queue'[Len(queue) + 1] = q
            /\ \A k \in 1..Len(queue) : queue'[k] = queue[k]
    BY <1>1, <1>3, <1>4
<1>6. \A k \in Jobs, d \in Callers : OnCall(d, k)' <=> OnCall(d, k) /\ d # c
    BY <1>2 DEF OnCall
<1>7. ASSUME NEW k \in Jobs, ~crossed'[k] PROVE PauseHeld(k)'
  <2>1. PauseHeld(k) /\ (IsPaused(k)' <=> IsPaused(k))
      BY <1>1, <1>7 DEF PauseInv, IsPaused
  <2>2. ASSUME IsPaused(k), NEW d \in Callers, OnCall(d, k), tool[d].op = "pause", d # c
        PROVE  OnCall(d, k)' /\ tool'[d].op = "pause"
      BY <1>2, <1>6, <2>2
  <2>3. ASSUME IsPaused(k), OnCall(c, k), q.op = "pause"
        PROVE  (\A d \in Callers : ~OnCall(d, k)') /\ (PauseIsLast(k)' \/ Settled(k)')
    <3>1. \A d \in Callers : ~OnCall(d, k)'
        BY <1>6, <2>1, <2>3 DEF PauseHeld
    <3>2. q.job = k
        BY <2>3 DEF OnCall
    <3>3. CASE up
      <4>1. /\ Len(queue) + 1 \in 1..Len(queue')
            /\ \A m \in 1..Len(queue') : ~(m > Len(queue) + 1)
          BY <1>4, <1>5, <3>3
      <4>2. queue'[Len(queue) + 1].job = k /\ queue'[Len(queue) + 1].op = "pause"
          BY <1>5, <2>3, <3>2, <3>3
      <4>. QED  BY <3>1, <4>1, <4>2 DEF PauseIsLast
    <3>4. CASE ~up
      <4>1. queue' = <<>> /\ sched'[k] = None
          BY <1>1, <1>3, <3>4 DEF PauseInv, DownInv
      <4>. QED  BY <3>1, <4>1 DEF Settled
    <3>. QED  BY <3>3, <3>4
  <2>4. ASSUME IsPaused(k), \A d \in Callers : ~OnCall(d, k), PauseIsLast(k) \/ Settled(k)
        PROVE  (\A d \in Callers : ~OnCall(d, k)') /\ (PauseIsLast(k)' \/ Settled(k)')
    <3>1. q.job # k /\ \A d \in Callers : ~OnCall(d, k)'
        BY <1>1, <1>6, <2>4 DEF OnCall
    <3>2. PauseIsLast(k) => PauseIsLast(k)'
        BY <1>3, <1>4, <1>5, <3>1 DEF PauseIsLast
    <3>3. Settled(k) => Settled(k)'
        BY <1>1, <1>3, <1>4, <1>5, <3>1 DEF Settled
    <3>. QED  BY <2>4, <3>1, <3>2, <3>3
  <2>5. \A d, f \in Callers : OnCall(d, k)' /\ OnCall(f, k)' => d = f
      BY <1>6, <2>1 DEF PauseHeld
  <2>6. IsPaused(k) =>
          \/ \E d \in Callers : OnCall(d, k)' /\ tool'[d].op = "pause"
          \/ (\A d \in Callers : ~OnCall(d, k)') /\ (PauseIsLast(k)' \/ Settled(k)')
      BY <2>1, <2>2, <2>3, <2>4 DEF PauseHeld
  <2>. QED  BY <2>1, <2>5, <2>6 DEF PauseHeld
<1>8. DownInv'
    BY <1>1, <1>3 DEF PauseInv, DownInv
<1>. QED  BY <1>7, <1>8 DEF PauseInv

\* The last pause of a name moves up in the queue, or is applied.
LEMMA PauseApply == ASSUME TypeOK, PauseInv, Apply PROVE PauseInv'
<1>. DEFINE q == Head(queue)
<1>1. q \in Commands /\ q.job \in Jobs /\ UNCHANGED <<tool, up, crossed>>
    BY CommandTypes DEF Apply, TypeOK, history
<1>2. /\ queue \in Seq(Commands) /\ queue # <<>> /\ Len(queue) \in Nat \ {0} /\ q = queue[1]
      /\ Len(queue') = Len(queue) - 1
      /\ \A m \in 1..(Len(queue) - 1) : queue'[m] = queue[m + 1]
  <2>1. queue \in Seq(Commands) /\ queue # <<>> /\ queue' = Tail(queue)
      BY DEF Apply, TypeOK
  <2>. QED  BY <2>1
<1>3. \A k \in Jobs : /\ row'[k] \in {row[k], None}
                      /\ k # q.job => sched'[k] = sched[k]
    BY <1>1 DEF Apply, ApplyAdd, ApplyPaused, ApplyRemove, TypeOK
<1>4. q.op = "pause" => sched'[q.job] = None \/ sched'[q.job].paused
  <2>. SUFFICES ASSUME q.op = "pause" PROVE sched'[q.job] = None \/ sched'[q.job].paused
      OBVIOUS
  <2>1. ApplyPaused(q.job, TRUE)
      BY DEF Apply
  <2>2. CASE sched[q.job] = None
      BY <2>1, <2>2 DEF ApplyPaused
  <2>3. CASE sched[q.job] # None
    <3>1. sched[q.job] \in Entries
        BY <1>1, <2>3 DEF TypeOK
    <3>2. sched'[q.job] = [sched[q.job] EXCEPT !.paused = TRUE]
        BY <1>1, <2>1, <2>3 DEF ApplyPaused, TypeOK
    <3>. QED  BY <3>1, <3>2 DEF Entries
  <2>. QED  BY <2>2, <2>3
<1>. HIDE DEF q
<1>5. ASSUME NEW k \in Jobs, ~crossed'[k] PROVE PauseHeld(k)'
  <2>1. PauseHeld(k) /\ (IsPaused(k)' => IsPaused(k))
      BY <1>1, <1>3, <1>5 DEF PauseInv, IsPaused
  <2>2. \A d \in Callers : (OnCall(d, k)' <=> OnCall(d, k)) /\ tool'[d] = tool[d]
      BY <1>1 DEF OnCall
  <2>3. ASSUME PauseIsLast(k) PROVE PauseIsLast(k)' \/ Settled(k)'
    <3>1. PICK n \in 1..Len(queue) :
            /\ queue[n].job = k /\ queue[n].op = "pause"
            /\ \A m \in 1..Len(queue) : m > n => queue[m].job # k
        BY <2>3 DEF PauseIsLast
    <3>2. CASE n = 1
      <4>1. \A m \in 1..Len(queue') : queue'[m].job # k
          BY <1>2, <3>1, <3>2
      <4>2. sched'[k] = None \/ sched'[k].paused
          BY <1>2, <1>4, <3>1, <3>2
      <4>. QED  BY <4>1, <4>2 DEF Settled
    <3>3. CASE n # 1
      <4>1. n - 1 \in 1..Len(queue') /\ queue'[n - 1] = queue[n]
          BY <1>2, <3>3
      <4>2. \A m \in 1..Len(queue') : m > n - 1 => queue'[m].job # k
          BY <1>2, <3>1
      <4>. QED  BY <3>1, <4>1, <4>2 DEF PauseIsLast
    <3>. QED  BY <3>2, <3>3
  <2>4. ASSUME Settled(k) PROVE Settled(k)'
    <3>1. 1 \in 1..Len(queue)
        BY <1>2
    <3>2. k # q.job
        BY <1>2, <2>4, <3>1 DEF Settled
    <3>. QED  BY <1>2, <1>3, <2>4, <3>2 DEF Settled
  <2>. QED  BY <2>1, <2>2, <2>3, <2>4 DEF PauseHeld
<1>6. DownInv'
    BY <1>1, <1>2 DEF PauseInv, DownInv
<1>. QED  BY <1>5, <1>6 DEF PauseInv

LEMMA PauseClock ==
    ASSUME TypeOK, PauseInv, NEW j \in Jobs,
           \/ \E g \in Gens : DatePasses(j, g)
           \/ Tick(j) \/ TickOnce(j) \/ MisfireOnce(j)
           \/ \E i \in Ids : RetryFires(j, i) \/ MisfireRetry(j, i)
    PROVE  PauseInv'
<1>1. UNCHANGED <<row, queue, tool, up, crossed>>
    BY DEF DatePasses, Tick, TickOnce, MisfireOnce, RetryFires, MisfireRetry,
           store, memory, history
<1>2. sched' = sched \/ sched' = [sched EXCEPT ![j] = None]
    BY DEF DatePasses, Tick, TickOnce, MisfireOnce, RetryFires, MisfireRetry, memory
<1>3. \A k \in Jobs : Spares(k)
    BY <1>1, <1>2 DEF Spares, TypeOK
<1>. QED  BY <1>1, <1>3, SparesKeeps

LEMMA PauseRuns ==
    ASSUME TypeOK, PauseInv, NEW j \in Jobs, NEW i \in Ids, Step(j, i)
    PROVE  PauseInv'
<1>. USE DEF store, memory, history
<1>1. UNCHANGED <<sched, queue, tool, up, crossed>>
    BY DEF Step, Succeed, FailAndRetry, FailForGood, Alerted, Reported, Delivered
<1>2. \/ row' = row \/ row' = [row EXCEPT ![j] = None]
      \/ \E n \in 0..(MaxRetries + 1) : row[j] # None /\ row' = [row EXCEPT ![j].retries = n]
  <2>1. ASSUME ZeroCount(j)
        PROVE  row' = row \/ (row[j] # None /\ row' = [row EXCEPT ![j].retries = 0])
    <3>1. CASE row[j] = None
        BY <2>1, <3>1 DEF ZeroCount
    <3>2. CASE row[j] # None
        BY <2>1, <3>2 DEF ZeroCount
    <3>. QED  BY <3>1, <3>2
  <2>2. CASE FailAndRetry(j, i)
    <3>1. row[j] # None /\ row' = [row EXCEPT ![j].retries = row[j].retries + 1]
        BY <2>2 DEF FailAndRetry, RetryLeft, Grant
    <3>2. row[j] \in Rows
        BY <3>1 DEF TypeOK
    <3>3. row[j].retries + 1 \in 0..(MaxRetries + 1)
        BY <3>2, RowTypes
    <3>. QED  BY <3>1, <3>3
  <2>. QED  BY <2>1, <2>2 DEF Step, Succeed, FailForGood, Alerted, Reported, Delivered
<1>3. ASSUME NEW k \in Jobs PROVE Spares(k)
  <2>1. CASE row' = row \/ row' = [row EXCEPT ![j] = None]
      BY <1>1, <2>1 DEF Spares, TypeOK
  <2>2. ASSUME NEW n \in 0..(MaxRetries + 1), row[j] # None, row' = [row EXCEPT ![j].retries = n]
        PROVE  Spares(k)
    <3>1. row[j] \in Rows
        BY <2>2 DEF TypeOK
    <3>2. [row[j] EXCEPT !.retries = n].active = row[j].active
        BY <3>1 DEF Rows
    <3>3. row'[k] = IF k = j THEN [row[j] EXCEPT !.retries = n] ELSE row[k]
        BY <2>2 DEF TypeOK
    <3>. QED  BY <1>1, <2>2, <3>2, <3>3 DEF Spares
  <2>. QED  BY <1>2, <2>1, <2>2
<1>. QED  BY <1>1, <1>3, SparesKeeps

LEMMA PauseProcess == ASSUME TypeOK, PauseInv, Start \/ Halt PROVE PauseInv'
<1>1. CASE Start
  <2>1. queue = <<>> /\ UNCHANGED <<queue, tool, crossed>> /\ up'
      BY <1>1 DEF Start, PauseInv, DownInv, history
  <2>2. \A k \in Jobs : /\ row'[k] \in {row[k], None}
                        /\ IsPaused(k) => sched'[k] = None
      BY <1>1 DEF Start, IsPaused
  <2>3. ASSUME NEW k \in Jobs, ~crossed'[k] PROVE PauseHeld(k)'
    <3>1. PauseHeld(k) /\ (IsPaused(k)' => IsPaused(k))
        BY <2>1, <2>2, <2>3 DEF PauseInv, IsPaused
    <3>2. IsPaused(k) => Settled(k)'
        BY <2>1, <2>2 DEF Settled
    <3>3. \A d \in Callers : (OnCall(d, k)' <=> OnCall(d, k)) /\ tool'[d] = tool[d]
        BY <2>1 DEF OnCall
    <3>. QED  BY <3>1, <3>2, <3>3 DEF PauseHeld
  <2>. QED  BY <2>1, <2>3 DEF PauseInv, DownInv
<1>2. CASE Halt
  <2>1. queue' = <<>> /\ (\A k \in Jobs : sched'[k] = None) /\ \A d \in Callers : tool'[d] = None
      BY <1>2 DEF Halt
  <2>. QED  BY <2>1 DEF PauseInv, DownInv, PauseHeld, OnCall, Settled
<1>. QED  BY <1>1, <1>2

LEMMA PauseStep == TypeOK /\ PauseInv /\ [Next]_vars => PauseInv'
<1>. SUFFICES ASSUME TypeOK, PauseInv, [Next]_vars PROVE PauseInv'
    OBVIOUS
<1>1. CASE UNCHANGED vars
  <2>1. UNCHANGED <<row, sched, queue, tool, up, crossed>>
      BY <1>1 DEF vars, store, memory, history
  <2>2. \A k \in Jobs : Spares(k)
      BY <2>1 DEF Spares
  <2>. QED  BY <2>1, <2>2, SparesKeeps
<1>. QED  BY <1>1, PauseTools, PausePost, PauseApply, PauseClock, PauseRuns, PauseProcess DEF Next

\* Through restarts, re-additions and resumes, for any number of names, tools and
\* queued commands: once the commands have been applied, a job paused in the store
\* does not fire on its schedule, as long as calls on its name do not overlap
\* (cron_pause of tools.py, pause_job and start of executor.py).
THEOREM PausedStaysOff == Spec => []PausedIsOff
<1>1. PauseInv => PausedIsOff
  <2>. SUFFICES ASSUME PauseInv, Quiet, NEW j \in Jobs, ~crossed[j], IsPaused(j)
                PROVE  sched[j] = None \/ sched[j].paused
      BY DEF PausedIsOff, IsPaused
  <2>1. PauseHeld(j) /\ queue = <<>> /\ \A c \in Callers : ~OnCall(c, j)
      BY DEF PauseInv, Quiet, OnCall
  <2>2. ~PauseIsLast(j)
      BY <2>1 DEF PauseIsLast
  <2>. QED  BY <2>1, <2>2 DEF PauseHeld, Settled
<1>. QED  BY <1>1, TypeInit, TypeStep, PauseInit, PauseStep, PTL DEF Spec

=============================================================================
