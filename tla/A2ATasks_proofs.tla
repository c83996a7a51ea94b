--------------------------- MODULE A2ATasks_proofs ---------------------------
(***************************************************************************)
(* The A2A server's tasks for any number of callers, sends and ids, scoped *)
(* or not, and any capacity of the store: its order, the sends on its      *)
(* WORKING records, the bodies it keeps in step with the records, and      *)
(* ownership: only an id evicted under a send changes hands, and a scoped  *)
(* send on any other id owns the record of its task.                       *)
(***************************************************************************)
EXTENDS A2ATasks, FiniteSetTheorems, SequenceTheorems, TLAPS

CallsOK == call \in [Requests -> Calls \cup {None}]

-----------------------------------------------------------------------------
(* The order of the store. *)

Distinct(s) == \A i, j \in 1..Len(s) : s[i] = s[j] => i = j

StoreInv ==
    /\ ShapeOK
    /\ order \in Seq(TaskIds) /\ Distinct(order)
    /\ ToSet(order) = Recorded
    /\ Len(order) <= MaxEntries

\* As many elements as places.
LEMMA DistinctCardinality ==
    ASSUME NEW S, NEW s \in Seq(S), Distinct(s)
    PROVE  IsFiniteSet(ToSet(s)) /\ Cardinality(ToSet(s)) = Len(s)
<1>1. s \in Bijection(1..Len(s), ToSet(s))
  BY DEF Distinct, ToSet, Bijection, Injection, Surjection, IsInjective
<1>2. IsFiniteSet(1..Len(s)) /\ Cardinality(1..Len(s)) = Len(s)
  <2>1. Len(s) \in Int /\ 1 \in Int /\ Len(s) >= 0
    OBVIOUS
  <2>2. /\ IsFiniteSet(1..Len(s))
        /\ Cardinality(1..Len(s)) = IF 1 > Len(s) THEN 0 ELSE Len(s) - 1 + 1
    BY <2>1, FS_Interval
  <2> QED BY <2>1, <2>2
<1> QED BY <1>1, <1>2, FS_Bijection DEF ExistsBijection

\* One element is taken out and the others move up.
LEMMA RemoveAtElements ==
    ASSUME NEW S, NEW s \in Seq(S), NEW k \in 1..Len(s)
    PROVE  /\ RemoveAt(s, k) \in Seq(S)
           /\ Len(RemoveAt(s, k)) = Len(s) - 1
           /\ \A i \in 1..(Len(s) - 1) :
                 RemoveAt(s, k)[i] = IF i < k THEN s[i] ELSE s[i + 1]
<1> DEFINE l == SubSeq(s, 1, k - 1)
           r == SubSeq(s, k + 1, Len(s))
<1>1. /\ l \in Seq(S) /\ Len(l) = k - 1
      /\ \A i \in 1..(k - 1) : l[i] = s[i]
  BY SubSeqProperties
<1>2. /\ r \in Seq(S) /\ Len(r) = Len(s) - k
      /\ \A i \in 1..(Len(s) - k) : r[i] = s[k + i]
  BY SubSeqProperties
<1> HIDE DEF l, r
<1>3. /\ l \o r \in Seq(S) /\ Len(l \o r) = Len(s) - 1
      /\ \A i \in 1..(Len(s) - 1) : (l \o r)[i] = IF i <= k - 1 THEN l[i] ELSE r[i - (k - 1)]
  <2>1. /\ l \o r \in Seq(S) /\ Len(l \o r) = Len(l) + Len(r)
        /\ \A i \in 1..(Len(l) + Len(r)) :
              (l \o r)[i] = IF i <= Len(l) THEN l[i] ELSE r[i - Len(l)]
    BY <1>1, <1>2, ConcatProperties
  <2> QED BY <1>1, <1>2, <2>1
<1>4. \A i \in 1..(Len(s) - 1) : (l \o r)[i] = IF i < k THEN s[i] ELSE s[i + 1]
  BY <1>1, <1>2, <1>3
<1> QED BY <1>3, <1>4 DEF RemoveAt, l, r

\* The place of an element that a sequence holds once.
LEMMA PlaceOf ==
    ASSUME NEW S, NEW s \in Seq(S), Distinct(s), NEW k \in 1..Len(s)
    PROVE  RemoveFirst(s, s[k]) = RemoveAt(s, k)
<1>1. {i \in 1..Len(s) : s[i] = s[k]} = {k}
  BY DEF Distinct
<1>2. Min({k}) = k
  BY DEF Min
<1> QED BY <1>1, <1>2 DEF RemoveFirst, SelectInSeq

\* The order without an id is the order of the other records.
LEMMA OlderIsOthers ==
    ASSUME StoreInv, NEW id \in TaskIds
    PROVE  /\ Older(id) \in Seq(TaskIds) /\ Distinct(Older(id))
           /\ ToSet(Older(id)) = Recorded \ {id}
           /\ Len(Older(id)) <= Len(order)
<1> USE DEF StoreInv
<1>1. CASE id \in Recorded
  <2>1. PICK k \in 1..Len(order) : order[k] = id
    BY <1>1 DEF ToSet
  <2> DEFINE s == Older(id)
  <2>2. s = RemoveAt(order, k)
    BY <2>1, PlaceOf DEF Older
  <2>3. /\ s \in Seq(TaskIds) /\ Len(s) = Len(order) - 1
        /\ \A i \in 1..(Len(order) - 1) : s[i] = IF i < k THEN order[i] ELSE order[i + 1]
    BY <2>2, RemoveAtElements
  <2> HIDE DEF s
  <2>4. Distinct(s)
    <3>1. SUFFICES ASSUME NEW i \in 1..(Len(order) - 1), NEW j \in 1..(Len(order) - 1),
                          s[i] = s[j]
                   PROVE  i = j
      BY <2>3 DEF Distinct
    <3> DEFINE at(n) == IF n < k THEN n ELSE n + 1
    <3>2. at(i) \in 1..Len(order) /\ at(j) \in 1..Len(order) /\ order[at(i)] = order[at(j)]
      BY <2>3, <3>1
    <3>3. at(i) = at(j)
      BY <3>2 DEF Distinct
    <3> QED BY <3>3
  <2>5. ASSUME NEW x \in ToSet(s) PROVE x \in Recorded \ {id}
    <3>1. PICK i \in 1..(Len(order) - 1) : x = s[i]
      BY <2>3, <2>5 DEF ToSet
    <3>2. PICK j \in 1..Len(order) : j # k /\ x = order[j]
      BY <2>3, <3>1
    <3> QED BY <2>1, <3>2 DEF Distinct, ToSet
  <2>6. ASSUME NEW x \in Recorded \ {id} PROVE x \in ToSet(s)
    <3>1. PICK j \in 1..Len(order) : x = order[j]
      BY DEF ToSet
    <3>2. j # k
      BY <2>1, <2>6, <3>1
    <3>3. CASE j < k
      BY <2>3, <3>1, <3>3 DEF ToSet
    <3>4. CASE j > k
      <4>1. j - 1 \in 1..(Len(order) - 1) /\ s[j - 1] = order[j]
        BY <2>3, <3>4
      <4> QED BY <2>3, <3>1, <4>1 DEF ToSet
    <3> QED BY <3>2, <3>3, <3>4
  <2> QED BY <2>3, <2>4, <2>5, <2>6 DEF s
<1>2. CASE id \notin Recorded
  <2>1. ~ \E i \in 1..Len(order) : order[i] = id
    BY <1>2 DEF ToSet
  <2>2. Older(id) = order
    BY <2>1 DEF Older, RemoveFirst
  <2> QED BY <1>2, <2>2
<1> QED BY <1>1, <1>2

\* What a put pushes out is the oldest of the others, when they fill the store.
LEMMA EvictedIsOldest ==
    ASSUME StoreInv, NEW id \in TaskIds
    PROVE  \/ Evicted(id) = {} /\ Len(Older(id)) < MaxEntries
           \/ /\ Older(id) # <<>> /\ Len(Older(id)) <= MaxEntries
              /\ Evicted(id) = {Head(Older(id))}
<1>1. /\ Older(id) \in Seq(TaskIds) /\ Distinct(Older(id))
      /\ ToSet(Older(id)) = Recorded \ {id}
      /\ Len(Older(id)) <= MaxEntries
  BY OlderIsOthers, A2ATasksAssumption DEF StoreInv, A2ATasksAssumption
<1>2. Recorded \cup {id} = ToSet(Older(id)) \cup {id} /\ id \notin ToSet(Older(id))
  BY <1>1
<1>3. IsFiniteSet(ToSet(Older(id))) /\ Cardinality(ToSet(Older(id))) = Len(Older(id))
  BY <1>1, DistinctCardinality
<1>4. Cardinality(Recorded \cup {id}) = Len(Older(id)) + 1
  BY <1>2, <1>3, FS_AddElement
<1>5. Len(Older(id)) \in Nat /\ (Older(id) = <<>> => Len(Older(id)) = 0)
  BY <1>1
<1>6. MaxEntries \in Nat \ {0}
  BY A2ATasksAssumption DEF A2ATasksAssumption
<1>7. CASE Len(Older(id)) < MaxEntries
  BY <1>4, <1>5, <1>6, <1>7 DEF Evicted
<1>8. CASE Len(Older(id)) >= MaxEntries
  <2>1. Evicted(id) = {Head(Older(id))}
    BY <1>4, <1>5, <1>6, <1>8 DEF Evicted
  <2> QED BY <1>1, <1>5, <1>6, <1>8, <2>1
<1> QED BY <1>5, <1>6, <1>7, <1>8

\* A put writes one record and one body, and forgets the record and the body of
\* other ids together.
Stored(id, rec, bodies) ==
    \E gone \in SUBSET (TaskIds \ {id}) :
        /\ record' = [i \in TaskIds |-> IF i = id THEN rec
                                        ELSE IF i \in gone THEN None ELSE record[i]]
        /\ body' = [i \in TaskIds |-> IF i \in gone THEN None ELSE bodies[i]]

\* A put keeps the store: its order lists each record once, within the capacity.
LEMMA PutKeepsStore ==
    ASSUME StoreInv, NEW id \in TaskIds, NEW rec \in Records,
           NEW bodies \in [TaskIds -> Bodies \cup {None}],
           Put(id, rec, bodies), CallsOK'
    PROVE  StoreInv' /\ Stored(id, rec, bodies)
<1> DEFINE others == IF Evicted(id) = {} THEN Older(id) ELSE Tail(Older(id))
<1>1. /\ Older(id) \in Seq(TaskIds) /\ Distinct(Older(id))
      /\ ToSet(Older(id)) = Recorded \ {id}
  BY OlderIsOthers
<1>2. /\ Evicted(id) \subseteq Recorded \ {id}
      /\ others \in Seq(TaskIds) /\ Distinct(others)
      /\ ToSet(others) = Recorded \ ({id} \cup Evicted(id))
      /\ Len(others) < MaxEntries
  <2>1. CASE Evicted(id) = {} /\ Len(Older(id)) < MaxEntries
    BY <1>1, <2>1
  <2>2. CASE /\ Older(id) # <<>> /\ Len(Older(id)) <= MaxEntries
             /\ Evicted(id) = {Head(Older(id))}
    <3> DEFINE s == Older(id)
    <3>1. others = Tail(s) /\ Evicted(id) = {Head(s)}
      BY <2>2
    <3> HIDE DEF others, Older
    <3>2. /\ s \in Seq(TaskIds) /\ s # <<>> /\ Len(s) \in Nat \ {0} /\ Head(s) = s[1]
          /\ Len(s) <= MaxEntries
      BY <1>1, <2>2
    <3>3. /\ Tail(s) \in Seq(TaskIds) /\ Len(Tail(s)) = Len(s) - 1
          /\ \A i \in 1..(Len(s) - 1) : Tail(s)[i] = s[i + 1]
      BY <3>2, HeadTailProperties
    <3>4. Distinct(Tail(s))
      BY <1>1, <3>2, <3>3 DEF Distinct
    <3>5. ToSet(Tail(s)) = ToSet(s) \ {s[1]}
      <4>1. ASSUME NEW x \in ToSet(Tail(s)) PROVE x \in ToSet(s) \ {s[1]}
        <5>1. PICK i \in 1..(Len(s) - 1) : x = s[i + 1]
          BY <3>3, <4>1 DEF ToSet
        <5> QED BY <1>1, <3>2, <5>1 DEF ToSet, Distinct
      <4>2. ASSUME NEW x \in ToSet(s) \ {s[1]} PROVE x \in ToSet(Tail(s))
        <5>1. PICK i \in 1..Len(s) : x = s[i]
          BY <3>2 DEF ToSet
        <5>2. i - 1 \in 1..(Len(s) - 1) /\ Tail(s)[i - 1] = x
          BY <3>2, <3>3, <4>2, <5>1
        <5>3. DOMAIN Tail(s) = 1..(Len(s) - 1)
          BY <3>3
        <5> QED BY <5>2, <5>3 DEF ToSet
      <4> QED BY <4>1, <4>2
    <3>6. s[1] \in ToSet(s)
      BY <3>2 DEF ToSet
    <3> HIDE DEF s
    <3>7. ToSet(s) = Recorded \ {id}
      BY <1>1 DEF s
    <3>8. Len(Tail(s)) < MaxEntries
      BY <3>2, <3>3, A2ATasksAssumption DEF A2ATasksAssumption
    <3> QED BY <3>1, <3>2, <3>3, <3>4, <3>5, <3>6, <3>7, <3>8
  <2> QED BY <2>1, <2>2, EvictedIsOldest
<1>3. order' = Append(others, id)
  BY DEF Put
<1>4. /\ record' = [i \in TaskIds |-> IF i = id THEN rec
                                      ELSE IF i \in Evicted(id) THEN None ELSE record[i]]
      /\ body' = [i \in TaskIds |-> IF i \in Evicted(id) THEN None ELSE bodies[i]]
  BY DEF Put
<1> HIDE DEF others
<1>5. Evicted(id) \in SUBSET (TaskIds \ {id})
  BY <1>2 DEF Recorded
<1>6. Stored(id, rec, bodies)
  BY <1>4, <1>5 DEF Stored
<1>7. /\ order' \in Seq(TaskIds) /\ Len(order') = Len(others) + 1
      /\ order'[Len(others) + 1] = id
      /\ \A i \in 1..Len(others) : order'[i] = others[i]
  BY <1>2, <1>3
<1>8. id \notin ToSet(others)
  BY <1>2
<1>9. Distinct(order')
  BY <1>2, <1>7, <1>8 DEF Distinct, ToSet
<1>10. ToSet(order') = ToSet(others) \cup {id}
  <2>1. Len(others) \in Nat
    BY <1>2
  <2> QED BY <1>2, <1>7, <2>1 DEF ToSet
<1>11. Recorded' = (Recorded \ Evicted(id)) \cup {id}
  BY <1>4, A2ATasksAssumption DEF Recorded, A2ATasksAssumption
<1>12. Len(order') <= MaxEntries
  BY <1>2, <1>7, A2ATasksAssumption DEF A2ATasksAssumption
<1>13. ShapeOK'
  BY <1>4 DEF StoreInv, ShapeOK, CallsOK
<1> QED BY <1>2, <1>6, <1>7, <1>9, <1>10, <1>11, <1>12, <1>13 DEF StoreInv

-----------------------------------------------------------------------------
(* What one step does to a store of any capacity. *)

SameStore == UNCHANGED <<record, order, body>>

Ended(r, phase) ==
    /\ Running(r)
    /\ call' = [call EXCEPT ![r].phase = phase]

\* The body after a run of call[r] has answered.
Answer(r) ==
    [body EXCEPT ![call[r].id] = [status |-> "completed", by |-> call[r].caller]]

\* The effects of a step: a reservation, an unscoped send, the three ends of a
\* send, a cancel of a recorded task, one of an unrecorded task, or none.
StoreEffects ==
    \/ \E r \in Requests, c \in Owners, id \in TaskIds :
          /\ call[r] = None /\ MayClaim(c, id)
          /\ Stored(id, [owner |-> c, state |-> "WORKING"], body)
          /\ Run(r, c, id)
    \/ \E r \in Requests, id \in TaskIds :
          call[r] = None /\ Unscoped \in Callers /\ SameStore /\ Run(r, Unscoped, id)
    \/ \E r \in Requests :
          /\ Ended(r, "answered")
          /\ IF call[r].caller = Unscoped
             THEN record' = record /\ body' = Answer(r)
             ELSE Stored(call[r].id, [owner |-> call[r].caller, state |-> "COMPLETED"], Answer(r))
    \/ \E r \in Requests :
          /\ Ended(r, "failed")
          /\ IF call[r].caller # Unscoped /\ SameOrg(call[r].caller, call[r].id)
             THEN Stored(call[r].id,
                         [owner |-> record[call[r].id].owner, state |-> "FAILED"], body)
             ELSE SameStore
    \/ \E r \in Requests : Ended(r, "dropped") /\ SameStore
    \/ \E id \in TaskIds, b \in Bodies :
          /\ record[id] # None
          /\ b.status = "canceled"
          /\ b.by = IF body[id] = None THEN record[id].owner ELSE body[id].by
          /\ Stored(id, [owner |-> record[id].owner, state |-> "CANCELED"],
                    [body EXCEPT ![id] = b])
          /\ UNCHANGED call
    \/ \E id \in TaskIds, b \in Bodies :
          /\ record[id] = None /\ body[id] # None /\ b.by = body[id].by
          /\ record' = record /\ body' = [body EXCEPT ![id] = b]
          /\ UNCHANGED call
    \/ SameStore /\ UNCHANGED call

\* A send that ends is over: its call keeps its shape.
LEMMA EndKeepsCalls ==
    ASSUME ShapeOK, NEW r \in Requests,
           NEW phase \in {"answered", "failed", "dropped"}, Ended(r, phase)
    PROVE  /\ CallsOK'
           /\ call[r] # None /\ call[r].id \in TaskIds /\ call[r].caller \in Callers
<1>1. call[r] \in Calls /\ call[r] # None
  BY A2ATasksAssumption DEF Ended, Running, ShapeOK, A2ATasksAssumption
<1>2. [call[r] EXCEPT !.phase = phase] \in Calls
  BY <1>1 DEF Calls
<1> QED BY <1>1, <1>2 DEF Ended, ShapeOK, CallsOK, Calls

\* A send that begins has a call.
LEMMA RunKeepsCalls ==
    ASSUME ShapeOK, NEW r \in Requests, NEW c \in Callers, NEW id \in TaskIds, Run(r, c, id)
    PROVE  CallsOK'
<1>1. [phase |-> "running", caller |-> c, id |-> id] \in Calls
  BY DEF Calls
<1> QED BY <1>1 DEF Run, ShapeOK, CallsOK

\* Nothing recorded changes.
LEMMA SameStoreKeepsStore ==
    ASSUME StoreInv, UNCHANGED <<record, order>>,
           body' \in [TaskIds -> Bodies \cup {None}], CallsOK'
    PROVE  StoreInv'
BY DEF StoreInv, ShapeOK, CallsOK, Recorded

\* _update_state on a store of any capacity.
LEMMA UpdateStateEffect ==
    ASSUME StoreInv, CallsOK', NEW c, NEW id \in TaskIds,
           NEW state \in Terminal, NEW bodies \in [TaskIds -> Bodies \cup {None}],
           UpdateState(c, id, state, bodies)
    PROVE  /\ StoreInv'
           /\ IF c # Unscoped /\ SameOrg(c, id)
              THEN /\ record[id] \in Records
                   /\ Stored(id, [owner |-> record[id].owner, state |-> state], bodies)
              ELSE body' = bodies /\ UNCHANGED <<record, order>>
<1>1. CASE c # Unscoped /\ SameOrg(c, id)
  <2>1. record[id] \in Records
    BY <1>1 DEF SameOrg, StoreInv, ShapeOK
  <2>2. /\ [record[id] EXCEPT !.state = state] = [owner |-> record[id].owner, state |-> state]
        /\ [owner |-> record[id].owner, state |-> state] \in Records
    BY <2>1 DEF Records
  <2>3. Put(id, [owner |-> record[id].owner, state |-> state], bodies)
    BY <1>1, <2>2 DEF UpdateState
  <2> QED BY <1>1, <2>1, <2>2, <2>3, PutKeepsStore
<1>2. CASE ~(c # Unscoped /\ SameOrg(c, id))
  <2>1. body' = bodies /\ UNCHANGED <<record, order>>
    BY <1>2 DEF UpdateState
  <2> QED BY <1>2, <2>1, SameStoreKeepsStore
<1> QED BY <1>1, <1>2

\* Every step keeps the store and has one of the effects.
LEMMA StoreSteps ==
    ASSUME StoreInv, [Next]_vars
    PROVE  StoreInv' /\ StoreEffects
<1> USE A2ATasksAssumption DEF A2ATasksAssumption
<1>0. ShapeOK
  BY DEF StoreInv
<1>1. ASSUME NEW r \in Requests, NEW id \in TaskIds, NEW c \in Owners,
             NEW v \in Versions, Reserve(r, c, id, v)
      PROVE  StoreInv' /\ StoreEffects
  <2>1. /\ call[r] = None /\ MayClaim(c, id) /\ Run(r, c, id)
        /\ Put(id, [owner |-> c, state |-> "WORKING"], body)
    BY <1>1 DEF Reserve
  <2>2. CallsOK'
    BY <1>0, <2>1, RunKeepsCalls DEF Callers
  <2>3. [owner |-> c, state |-> "WORKING"] \in Records
    BY DEF Records
  <2>4. StoreInv' /\ Stored(id, [owner |-> c, state |-> "WORKING"], body)
    BY <1>0, <2>1, <2>2, <2>3, PutKeepsStore DEF ShapeOK
  <2> QED BY <2>1, <2>4 DEF StoreEffects
<1>2. ASSUME NEW r \in Requests, NEW id \in TaskIds, Unscoped \in Callers,
             SendUnscoped(r, id)
      PROVE  StoreInv' /\ StoreEffects
  <2>1. call[r] = None /\ Run(r, Unscoped, id) /\ SameStore
    BY <1>2 DEF SendUnscoped, SameStore
  <2>2. CallsOK'
    BY <1>0, <1>2, <2>1, RunKeepsCalls
  <2>3. StoreInv'
    BY <1>0, <2>1, <2>2, SameStoreKeepsStore DEF SameStore, ShapeOK
  <2> QED BY <1>2, <2>1, <2>3 DEF StoreEffects
<1>3. ASSUME NEW r \in Requests, Complete(r)
      PROVE  StoreInv' /\ StoreEffects
  <2> DEFINE c == call[r].caller
             id == call[r].id
             rec == [owner |-> c, state |-> "COMPLETED"]
  <2>1. Ended(r, "answered")
    BY <1>3 DEF Complete, Ended, Over
  <2>2. CallsOK' /\ id \in TaskIds /\ c \in Callers
    BY <1>0, <2>1, EndKeepsCalls
  <2>3. Answer(r) \in [TaskIds -> Bodies \cup {None}]
    BY <1>0, <2>2 DEF Answer, Bodies, ShapeOK
  <2>4. CASE c = Unscoped
    <3>1. body' = Answer(r) /\ UNCHANGED <<record, order>>
      BY <1>3, <2>4 DEF Complete, Answer
    <3>2. StoreInv'
      BY <2>2, <2>3, <3>1, SameStoreKeepsStore
    <3> QED BY <2>1, <2>4, <3>1, <3>2 DEF StoreEffects
  <2>5. CASE c # Unscoped
    <3>1. Put(id, rec, Answer(r))
      BY <1>3, <2>5 DEF Complete, Answer
    <3>2. rec \in Records
      BY <2>2, <2>5 DEF Records, Callers, Terminal
    <3>3. StoreInv' /\ Stored(id, rec, Answer(r))
      BY <2>2, <2>3, <3>1, <3>2, PutKeepsStore
    <3> QED BY <2>1, <2>5, <3>3 DEF StoreEffects
  <2> QED BY <2>4, <2>5
<1>4. ASSUME NEW r \in Requests, Fail(r)
      PROVE  StoreInv' /\ StoreEffects
  <2>1. Ended(r, "failed") /\ UpdateState(call[r].caller, call[r].id, "FAILED", body)
    BY <1>4 DEF Fail, Ended, Over
  <2>2. CallsOK' /\ call[r].id \in TaskIds
    BY <1>0, <2>1, EndKeepsCalls
  <2>3. "FAILED" \in Terminal
    BY DEF Terminal
  <2>4. /\ StoreInv'
        /\ IF call[r].caller # Unscoped /\ SameOrg(call[r].caller, call[r].id)
           THEN /\ record[call[r].id] \in Records
                /\ Stored(call[r].id,
                          [owner |-> record[call[r].id].owner, state |-> "FAILED"], body)
           ELSE body' = body /\ UNCHANGED <<record, order>>
    BY <1>0, <2>1, <2>2, <2>3, UpdateStateEffect DEF ShapeOK
  <2> QED BY <2>1, <2>4 DEF StoreEffects, SameStore
<1>5. ASSUME NEW r \in Requests, Drop(r)
      PROVE  StoreInv' /\ StoreEffects
  <2>1. Ended(r, "dropped") /\ SameStore
    BY <1>5 DEF Drop, Ended, Over, SameStore
  <2>2. StoreInv'
    BY <1>0, <2>1, EndKeepsCalls, SameStoreKeepsStore DEF SameStore, ShapeOK
  <2> QED BY <2>1, <2>2 DEF StoreEffects
<1>6. ASSUME NEW id \in TaskIds, NEW c \in Owners, CancelV1(c, id)
      PROVE  StoreInv' /\ StoreEffects
  <2> DEFINE by == IF body[id] = None THEN record[id].owner ELSE body[id].by
             b == [status |-> "canceled", by |-> by]
             rec == [owner |-> record[id].owner, state |-> "CANCELED"]
  <2>1. record[id] \in Records /\ record[id] # None /\ UNCHANGED call
    BY <1>0, <1>6 DEF CancelV1, Visible, SameOrg, ShapeOK
  <2>2. b \in Bodies
    <3>1. CASE body[id] = None
      BY <2>1, <3>1 DEF Bodies, Records, Callers
    <3>2. CASE body[id] # None
      BY <1>0, <3>2 DEF Bodies, ShapeOK
    <3> QED BY <3>1, <3>2
  <2>3. rec \in Records /\ rec = [record[id] EXCEPT !.state = "CANCELED"]
    BY <2>1 DEF Records, Terminal
  <2>4. Put(id, rec, [body EXCEPT ![id] = b])
    BY <1>6, <2>3 DEF CancelV1
  <2>5. [body EXCEPT ![id] = b] \in [TaskIds -> Bodies \cup {None}] /\ CallsOK'
    BY <1>0, <2>1, <2>2 DEF ShapeOK, CallsOK
  <2>6. StoreInv' /\ Stored(id, rec, [body EXCEPT ![id] = b])
    BY <2>3, <2>4, <2>5, PutKeepsStore
  <2>7. b.status = "canceled" /\ b.by = by
    OBVIOUS
  <2> HIDE DEF b
  <2> QED BY <2>1, <2>2, <2>6, <2>7 DEF StoreEffects
<1>7. ASSUME NEW id \in TaskIds, NEW c \in Callers, CancelLegacy(c, id)
      PROVE  StoreInv' /\ StoreEffects
  <2> DEFINE b == [body[id] EXCEPT !.status = "canceled"]
  <2>1. body[id] \in Bodies /\ body[id] # None /\ UNCHANGED call
    BY <1>0, <1>7 DEF CancelLegacy, ShapeOK
  <2>2. b \in Bodies /\ b.status = "canceled" /\ b.by = body[id].by
    BY <2>1 DEF Bodies
  <2>3. UpdateState(c, id, "CANCELED", [body EXCEPT ![id] = b])
    BY <1>7 DEF CancelLegacy
  <2> HIDE DEF b
  <2>4. [body EXCEPT ![id] = b] \in [TaskIds -> Bodies \cup {None}] /\ CallsOK'
    BY <1>0, <2>1, <2>2 DEF ShapeOK, CallsOK
  <2>5. "CANCELED" \in Terminal
    BY DEF Terminal
  <2>6. /\ StoreInv'
        /\ IF c # Unscoped /\ SameOrg(c, id)
           THEN /\ record[id] \in Records
                /\ Stored(id, [owner |-> record[id].owner, state |-> "CANCELED"],
                          [body EXCEPT ![id] = b])
           ELSE body' = [body EXCEPT ![id] = b] /\ UNCHANGED <<record, order>>
    BY <2>3, <2>4, <2>5, UpdateStateEffect
  <2>7. CASE c # Unscoped
    <3>1. SameOrg(c, id) /\ record[id] # None
      BY <1>7, <2>7 DEF CancelLegacy, InScope, Visible, SameOrg
    <3> QED BY <2>1, <2>2, <2>6, <2>7, <3>1 DEF StoreEffects
  <2>8. CASE c = Unscoped
    <3>1. record[id] = None
      BY <1>7, <2>8 DEF CancelLegacy, InScope
    <3>2. record' = record /\ body' = [body EXCEPT ![id] = b]
      BY <2>6, <2>8
    <3> QED BY <2>1, <2>2, <2>6, <3>1, <3>2 DEF StoreEffects
  <2> QED BY <2>7, <2>8
<1>8. CASE UNCHANGED vars
  <2>1. SameStore /\ UNCHANGED call
    BY <1>8 DEF vars, SameStore
  <2>2. StoreInv'
    BY <1>0, <2>1, SameStoreKeepsStore DEF SameStore, ShapeOK, CallsOK
  <2> QED BY <2>1, <2>2 DEF StoreEffects
<1> QED
  BY <1>1, <1>2, <1>3, <1>4, <1>5, <1>6, <1>7, <1>8 DEF Next, Send, Cancel, End

LEMMA StoreInitially == Init => StoreInv
<1> SUFFICES ASSUME Init PROVE StoreInv
  OBVIOUS
<1>1. ShapeOK /\ Recorded = {}
  BY DEF Init, ShapeOK, Recorded
<1>2. order = <<>> /\ order \in Seq(TaskIds) /\ Len(order) = 0
  BY DEF Init
<1>3. ToSet(order) = {} /\ Distinct(order)
  BY <1>2 DEF ToSet, Distinct
<1> QED BY <1>1, <1>2, <1>3, A2ATasksAssumption DEF StoreInv, A2ATasksAssumption

\* Whatever the capacity and however sends, cancels and evictions interleave,
\* the store's order lists each recorded id exactly once and fits its capacity
\* (put and its eviction loop, task_store.py:145).
THEOREM TypeCorrect == Spec => []TypeOK
<1>1. Init => StoreInv /\ displaced \subseteq TaskIds
  BY StoreInitially DEF Init
<1>2. StoreInv /\ displaced \subseteq TaskIds /\ [Next]_vars
        => StoreInv' /\ (displaced \subseteq TaskIds)'
  BY StoreSteps DEF Next, KeepHistory, vars
<1>3. StoreInv /\ displaced \subseteq TaskIds => TypeOK
  BY DistinctCardinality DEF StoreInv, TypeOK, OrderOK
<1> QED BY <1>1, <1>2, <1>3, PTL DEF Spec

-----------------------------------------------------------------------------
(* A WORKING record has a send on it, whatever is evicted. *)

\* The call k works on task id for its owner, or was dropped from it.
WorksOn(k, id, owner) ==
    /\ k # None
    /\ k.id = id
    /\ k.caller = owner
    /\ k.phase \in {"running", "dropped"}

\* What a put leaves of the records.
LEMMA StoredRecords ==
    ASSUME NEW id \in TaskIds, NEW rec \in Records, NEW bodies, Stored(id, rec, bodies)
    PROVE  /\ record'[id] = rec
           /\ \A i \in TaskIds : i # id /\ record'[i] # None => record'[i] = record[i]
BY DEF Stored

\* A send that begins leaves the others alone.
LEMMA RunWorks ==
    ASSUME NEW r \in Requests, ShapeOK, call[r] = None,
           NEW c \in Callers, NEW id \in TaskIds, Run(r, c, id)
    PROVE  /\ WorksOn(call'[r], id, c)
           /\ \A q \in Requests : \A i, o : WorksOn(call[q], i, o) => WorksOn(call'[q], i, o)
<1>1. [phase |-> "running", caller |-> c, id |-> id] \in Calls
  BY DEF Calls
<1> QED BY <1>1, A2ATasksAssumption DEF Run, ShapeOK, WorksOn, A2ATasksAssumption

\* A send that ends leaves the others alone, and its own task if it was dropped.
LEMMA EndWorks ==
    ASSUME ShapeOK, NEW r \in Requests,
           NEW phase \in {"answered", "failed", "dropped"}, Ended(r, phase)
    PROVE  \A q \in Requests : \A i, o :
              WorksOn(call[q], i, o) /\ (q # r \/ phase = "dropped") => WorksOn(call'[q], i, o)
<1>1. call[r] \in Calls /\ call[r] # None
  BY A2ATasksAssumption DEF Ended, Running, ShapeOK, A2ATasksAssumption
<1>2. PICK c \in Callers, i \in TaskIds, ph \in {"running", "answered", "failed", "dropped"} :
        call[r] = [phase |-> ph, caller |-> c, id |-> i]
  BY <1>1 DEF Calls
<1>3. [call[r] EXCEPT !.phase = phase] = [phase |-> phase, caller |-> c, id |-> i]
  BY <1>2
<1>4. [phase |-> phase, caller |-> c, id |-> i] \in Calls
  BY DEF Calls
<1> QED BY <1>2, <1>3, <1>4, A2ATasksAssumption
        DEF Ended, ShapeOK, WorksOn, A2ATasksAssumption

\* The end of a send that is not dropped settles the record of its task, if that
\* is still its caller's; other records keep their sends.
LEMMA WorkedOnInductive ==
    ASSUME StoreInv, WorkingIsWorkedOn, StoreInv', StoreEffects
    PROVE  WorkingIsWorkedOn'
<1> USE A2ATasksAssumption DEF A2ATasksAssumption
<1>0. /\ ShapeOK
      /\ \A id \in TaskIds :
            record[id] # None /\ record[id].state = "WORKING" =>
                \E r \in Requests : WorksOn(call[r], id, record[id].owner)
  BY DEF StoreInv, WorkingIsWorkedOn, WorksOn
<1> SUFFICES ASSUME NEW id \in TaskIds, record'[id] # None, record'[id].state = "WORKING"
             PROVE  \E r \in Requests : WorksOn(call'[r], id, record'[id].owner)
  BY DEF WorkingIsWorkedOn, WorksOn
<1>1. record'[id] \in Records
  BY DEF StoreInv, ShapeOK
<1>2. ASSUME NEW r \in Requests, NEW c \in Owners, NEW i \in TaskIds,
             call[r] = None, Stored(i, [owner |-> c, state |-> "WORKING"], body), Run(r, c, i)
      PROVE  \E q \in Requests : WorksOn(call'[q], id, record'[id].owner)
  <2>0. [owner |-> c, state |-> "WORKING"] \in Records /\ c \in Callers
    BY DEF Records, Callers
  <2>1. CASE id = i
    <3>1. record'[id].owner = c
      BY <1>2, <2>0, <2>1, StoredRecords
    <3>2. WorksOn(call'[r], i, c)
      BY <1>0, <1>2, <2>0, RunWorks
    <3> QED BY <2>1, <3>1, <3>2
  <2>2. CASE id # i
    <3>1. record'[id] = record[id]
      BY <1>2, <2>0, <2>2, StoredRecords
    <3>2. PICK q \in Requests : WorksOn(call[q], id, record[id].owner)
      BY <1>0, <3>1
    <3>3. WorksOn(call'[q], id, record[id].owner)
      BY <1>0, <1>2, <2>0, <3>1, <3>2, RunWorks
    <3> QED BY <3>1, <3>3
  <2> QED BY <2>1, <2>2
<1>3. ASSUME NEW r \in Requests, NEW i \in TaskIds,
             call[r] = None, Unscoped \in Callers, SameStore, Run(r, Unscoped, i)
      PROVE  \E q \in Requests : WorksOn(call'[q], id, record'[id].owner)
  <2>1. record' = record
    BY <1>3 DEF SameStore
  <2>2. PICK q \in Requests : WorksOn(call[q], id, record[id].owner)
    BY <1>0, <2>1
  <2> QED BY <1>0, <1>3, <2>1, <2>2, RunWorks
\* A send r that has ended is no witness for id any more, unless it was dropped.
<1>4. ASSUME NEW r \in Requests, NEW phase \in {"answered", "failed", "dropped"},
             Ended(r, phase), record'[id] = record[id],
             phase = "dropped" \/ call[r].id # id \/ call[r].caller # record[id].owner
      PROVE  \E q \in Requests : WorksOn(call'[q], id, record'[id].owner)
  <2>1. PICK q \in Requests : WorksOn(call[q], id, record[id].owner)
    BY <1>0, <1>4
  <2>2. q # r \/ phase = "dropped"
    BY <1>4, <2>1 DEF WorksOn
  <2>3. WorksOn(call'[q], id, record[id].owner)
    BY <1>0, <1>4, <2>1, <2>2, EndWorks
  <2> QED BY <1>4, <2>3
<1>5. ASSUME NEW r \in Requests, NEW phase \in {"answered", "failed"}, Ended(r, phase),
             NEW o \in Owners, NEW state \in Terminal, NEW bodies,
             Stored(call[r].id, [owner |-> o, state |-> state], bodies)
      PROVE  \E q \in Requests : WorksOn(call'[q], id, record'[id].owner)
  <2>1. call[r].id \in TaskIds
    BY <1>0, <1>5, EndKeepsCalls
  <2>2. [owner |-> o, state |-> state] \in Records
    BY DEF Records
  <2>3. record'[call[r].id].state # "WORKING"
    BY <1>5, <2>1, <2>2, StoredRecords DEF Terminal
  <2>4. id # call[r].id
    BY <2>3
  <2>5. record'[id] = record[id]
    BY <1>5, <2>1, <2>2, <2>4, StoredRecords
  <2> QED BY <1>4, <1>5, <2>4, <2>5
<1>6. ASSUME NEW r \in Requests, Ended(r, "answered"),
             IF call[r].caller = Unscoped
             THEN record' = record /\ body' = Answer(r)
             ELSE Stored(call[r].id, [owner |-> call[r].caller, state |-> "COMPLETED"], Answer(r))
      PROVE  \E q \in Requests : WorksOn(call'[q], id, record'[id].owner)
  <2>1. call[r].caller \in Callers
    BY <1>0, <1>6, EndKeepsCalls
  <2>2. CASE call[r].caller = Unscoped
    <3>1. record' = record /\ call[r].caller # record[id].owner
      BY <1>1, <1>6, <2>2 DEF Records
    <3> QED BY <1>4, <1>6, <3>1
  <2>3. CASE call[r].caller # Unscoped
    <3>1. call[r].caller \in Owners /\ "COMPLETED" \in Terminal
      BY <2>1, <2>3 DEF Callers, Terminal
    <3> QED BY <1>5, <1>6, <2>3, <3>1
  <2> QED BY <2>2, <2>3
<1>7. ASSUME NEW r \in Requests, Ended(r, "failed"),
             IF call[r].caller # Unscoped /\ SameOrg(call[r].caller, call[r].id)
             THEN Stored(call[r].id,
                         [owner |-> record[call[r].id].owner, state |-> "FAILED"], body)
             ELSE SameStore
      PROVE  \E q \in Requests : WorksOn(call'[q], id, record'[id].owner)
  <2>1. call[r].id \in TaskIds
    BY <1>0, <1>7, EndKeepsCalls
  <2>2. CASE call[r].caller # Unscoped /\ SameOrg(call[r].caller, call[r].id)
    <3>1. record[call[r].id] \in Records
      BY <1>0, <2>1, <2>2 DEF SameOrg, ShapeOK
    <3>2. record[call[r].id].owner \in Owners /\ "FAILED" \in Terminal
      BY <3>1 DEF Records, Terminal
    <3> QED BY <1>5, <1>7, <2>2, <3>2
  <2>3. CASE ~(call[r].caller # Unscoped /\ SameOrg(call[r].caller, call[r].id))
    <3>1. record' = record
      BY <1>7, <2>3 DEF SameStore
    <3>2. call[r].caller # record[id].owner \/ call[r].id # id
      BY <1>1, <2>3, <3>1 DEF SameOrg, Records
    <3> QED BY <1>4, <1>7, <3>1, <3>2
  <2> QED BY <2>2, <2>3
<1>8. ASSUME NEW r \in Requests, Ended(r, "dropped"), SameStore
      PROVE  \E q \in Requests : WorksOn(call'[q], id, record'[id].owner)
  BY <1>4, <1>8 DEF SameStore
<1>9. ASSUME NEW i \in TaskIds, NEW b, record[i] # None,
             Stored(i, [owner |-> record[i].owner, state |-> "CANCELED"],
                    [body EXCEPT ![i] = b]), UNCHANGED call
      PROVE  \E q \in Requests : WorksOn(call'[q], id, record'[id].owner)
  <2>1. [owner |-> record[i].owner, state |-> "CANCELED"] \in Records
    BY <1>0, <1>9 DEF ShapeOK, Records, Terminal
  <2>2. id # i /\ record'[id] = record[id]
    BY <1>9, <2>1, StoredRecords
  <2> QED BY <1>0, <1>9, <2>2
<1>10. CASE record' = record /\ UNCHANGED call
  BY <1>0, <1>10
<1> QED
  BY <1>2, <1>3, <1>6, <1>7, <1>8, <1>9, <1>10 DEF StoreEffects, SameStore

\* A task is WORKING only while a send of its owner works on it or after one was
\* dropped, for any capacity of the store: an evicted run that comes back settles
\* the record of whoever has the id by then or leaves it alone, but never leaves a
\* record WORKING that nothing works on (_invoke's handler and _record).
THEOREM WorkingHasASend == Spec => []WorkingIsWorkedOn
<1>1. Init => WorkingIsWorkedOn
  BY DEF Init, WorkingIsWorkedOn
<1>2. StoreInv /\ WorkingIsWorkedOn /\ [Next]_vars => StoreInv' /\ WorkingIsWorkedOn'
  BY StoreSteps, WorkedOnInductive
<1> QED BY StoreInitially, <1>1, <1>2, PTL DEF Spec

-----------------------------------------------------------------------------
(* The records and the bodies, whatever is evicted. *)

\* A body of a scoped run shows what its record says, and there is none without
\* a record.
Agrees(rec, b) ==
    IF rec = None THEN b # None => b.by = Unscoped
    ELSE /\ rec.state \in {"COMPLETED", "CANCELED"} => b # None
         /\ b # None /\ b.by # Unscoped =>
              /\ b.by = rec.owner
              /\ rec.state = "COMPLETED" => b.status = "completed"
              /\ rec.state = "CANCELED" => b.status = "canceled"

BodiesInv == \A i \in TaskIds : Agrees(record[i], body[i])

\* A put of a record with a body that agrees keeps the others in agreement: what
\* it evicts loses both.
LEMMA StoredAgrees ==
    ASSUME ShapeOK, BodiesInv, NEW id \in TaskIds, NEW rec \in Records, NEW b,
           Agrees(rec, b), Stored(id, rec, [body EXCEPT ![id] = b])
    PROVE  BodiesInv'
<1>1. PICK gone \in SUBSET (TaskIds \ {id}) :
        /\ record' = [i \in TaskIds |-> IF i = id THEN rec
                                        ELSE IF i \in gone THEN None ELSE record[i]]
        /\ body' = [i \in TaskIds |-> IF i \in gone THEN None
                                      ELSE [body EXCEPT ![id] = b][i]]
  BY DEF Stored
<1> SUFFICES ASSUME NEW i \in TaskIds PROVE Agrees(record'[i], body'[i])
  BY DEF BodiesInv, Agrees
<1>2. CASE i = id
  <2>1. record'[i] = rec /\ body'[i] = b
    BY <1>1, <1>2 DEF ShapeOK
  <2> QED BY <2>1
<1>3. CASE i # id /\ i \in gone
  BY <1>1, <1>3 DEF Agrees
<1>4. CASE i # id /\ i \notin gone
  <2>1. record'[i] = record[i] /\ body'[i] = body[i]
    BY <1>1, <1>4 DEF ShapeOK
  <2> QED BY <2>1 DEF BodiesInv
<1> QED BY <1>2, <1>3, <1>4

\* A body an unscoped run wrote agrees with whatever record there is.
LEMMA UnscopedAgrees ==
    ASSUME ShapeOK, BodiesInv, record' = record, NEW id \in TaskIds,
           NEW b \in Bodies, b.by = Unscoped, body' = [body EXCEPT ![id] = b]
    PROVE  BodiesInv'
<1>1. b # None
  BY A2ATasksAssumption DEF A2ATasksAssumption
<1> SUFFICES ASSUME NEW i \in TaskIds PROVE Agrees(record'[i], body'[i])
  BY DEF BodiesInv, Agrees
<1>2. CASE i = id
  <2>1. body'[i] = b
    BY <1>2 DEF ShapeOK
  <2> QED BY <1>1, <2>1 DEF Agrees
<1>3. CASE i # id
  <2>1. body'[i] = body[i]
    BY <1>3 DEF ShapeOK
  <2> QED BY <2>1 DEF BodiesInv
<1> QED BY <1>2, <1>3

\* Every step keeps records and bodies in agreement.
LEMMA BodiesInductive ==
    ASSUME StoreInv, BodiesInv, StoreEffects
    PROVE  BodiesInv'
<1> USE A2ATasksAssumption DEF A2ATasksAssumption
<1>0. ShapeOK
  BY DEF StoreInv
<1>1. ASSUME NEW id \in TaskIds PROVE body = [body EXCEPT ![id] = body[id]]
  BY <1>0 DEF ShapeOK
<1>2. ASSUME NEW r \in Requests, NEW c \in Owners, NEW id \in TaskIds, MayClaim(c, id),
             Stored(id, [owner |-> c, state |-> "WORKING"], body)
      PROVE  BodiesInv'
  <2> DEFINE rec == [owner |-> c, state |-> "WORKING"]
  <2>1. rec \in Records
    BY DEF Records
  <2>2. rec # None
    BY <2>1
  <2>3. body[id] # None /\ body[id].by # Unscoped => body[id].by = c
    BY <1>2 DEF MayClaim, BodiesInv, Agrees
  <2>4. Agrees(rec, body[id])
    BY <2>2, <2>3 DEF Agrees
  <2> QED BY <1>0, <1>1, <1>2, <2>1, <2>4, StoredAgrees
<1>3. ASSUME NEW r \in Requests, Ended(r, "answered"),
             IF call[r].caller = Unscoped
             THEN record' = record /\ body' = Answer(r)
             ELSE Stored(call[r].id, [owner |-> call[r].caller, state |-> "COMPLETED"], Answer(r))
      PROVE  BodiesInv'
  <2> DEFINE id == call[r].id
             c == call[r].caller
             b == [status |-> "completed", by |-> c]
             rec == [owner |-> c, state |-> "COMPLETED"]
  <2>1. id \in TaskIds /\ c \in Callers
    BY <1>0, <1>3, EndKeepsCalls
  <2>2. b \in Bodies /\ b.by = c /\ b.status = "completed"
    BY <2>1 DEF Bodies
  <2>3. CASE c = Unscoped
    <3>1. record' = record /\ body' = [body EXCEPT ![id] = b]
      BY <1>3, <2>3 DEF Answer
    <3> HIDE DEF b, id, c
    <3> QED BY <1>0, <2>1, <2>2, <2>3, <3>1, UnscopedAgrees
  <2>4. CASE c # Unscoped
    <3>1. Stored(id, rec, [body EXCEPT ![id] = b])
      BY <1>3, <2>4 DEF Answer
    <3>2. rec \in Records /\ rec.owner = c /\ rec.state = "COMPLETED"
      BY <2>1, <2>4 DEF Records, Terminal, Callers
    <3>3. Agrees(rec, b)
      BY <2>2, <3>2 DEF Agrees
    <3> HIDE DEF b, rec, id, c
    <3> QED BY <1>0, <2>1, <2>2, <3>1, <3>2, <3>3, StoredAgrees
  <2> QED BY <2>3, <2>4
<1>4. ASSUME NEW r \in Requests, Ended(r, "failed"),
             IF call[r].caller # Unscoped /\ SameOrg(call[r].caller, call[r].id)
             THEN Stored(call[r].id,
                         [owner |-> record[call[r].id].owner, state |-> "FAILED"], body)
             ELSE SameStore
      PROVE  BodiesInv'
  <2> DEFINE id == call[r].id
  <2>1. id \in TaskIds
    BY <1>0, <1>4, EndKeepsCalls
  <2>2. CASE SameOrg(call[r].caller, id) /\ call[r].caller # Unscoped
    <3> DEFINE rec == [owner |-> record[id].owner, state |-> "FAILED"]
    <3>1. record[id] # None /\ record[id] \in Records
      BY <1>0, <2>1, <2>2 DEF SameOrg, ShapeOK
    <3>2. rec \in Records
      BY <3>1 DEF Records, Terminal
    <3>3. Agrees(rec, body[id])
      BY <2>1, <3>1, <3>2 DEF Agrees, BodiesInv
    <3>4. Stored(id, rec, [body EXCEPT ![id] = body[id]])
      BY <1>1, <1>4, <2>1, <2>2
    <3> HIDE DEF rec, id
    <3> QED BY <1>0, <2>1, <3>2, <3>3, <3>4, StoredAgrees
  <2>3. CASE ~(SameOrg(call[r].caller, id) /\ call[r].caller # Unscoped)
    BY <1>4, <2>3 DEF SameStore, BodiesInv
  <2> QED BY <2>2, <2>3
<1>5. ASSUME NEW id \in TaskIds, NEW b \in Bodies, record[id] # None, b.status = "canceled",
             b.by = (IF body[id] = None THEN record[id].owner ELSE body[id].by),
             Stored(id, [owner |-> record[id].owner, state |-> "CANCELED"],
                    [body EXCEPT ![id] = b])
      PROVE  BodiesInv'
  <2> DEFINE rec == [owner |-> record[id].owner, state |-> "CANCELED"]
  <2>1. rec \in Records
    BY <1>0, <1>5 DEF ShapeOK, Records, Terminal
  <2>2. b.by # Unscoped => b.by = record[id].owner
    BY <1>5 DEF BodiesInv, Agrees
  <2>3. Agrees(rec, b)
    BY <1>5, <2>1, <2>2 DEF Agrees
  <2> QED BY <1>0, <1>5, <2>1, <2>3, StoredAgrees
<1>6. ASSUME NEW id \in TaskIds, NEW b \in Bodies,
             record[id] = None, body[id] # None, b.by = body[id].by,
             record' = record, body' = [body EXCEPT ![id] = b]
      PROVE  BodiesInv'
  <2>1. b.by = Unscoped
    BY <1>6 DEF BodiesInv, Agrees
  <2> QED BY <1>0, <1>6, <2>1, UnscopedAgrees
<1>7. CASE SameStore
  BY <1>7 DEF SameStore, BodiesInv
<1> QED
  BY <1>2, <1>3, <1>4, <1>5, <1>6, <1>7 DEF StoreEffects

\* No run leaves a record and its body in disagreement.
LEMMA BodiesAlways == Spec => []BodiesInv
<1>1. Init => BodiesInv
  BY DEF Init, BodiesInv, Agrees
<1>2. StoreInv /\ BodiesInv /\ [Next]_vars => StoreInv' /\ BodiesInv'
  BY StoreSteps, BodiesInductive
<1> QED BY StoreInitially, <1>1, <1>2, PTL DEF Spec

\* What a record says is what the bodies of scoped runs show, for any capacity, any
\* callers, strict or not: no race of a cancel with a completion and no eviction
\* of a running task leaves an answer with another record (_record, _v1_cancel,
\* put).
THEOREM BodiesAgree == Spec => []BodyAgrees
<1>1. BodiesInv => BodyAgrees
  BY DEF BodiesInv, Agrees, BodyAgrees
<1> QED BY BodiesAlways, <1>1, PTL

\* No body of a scoped run outlives its record, so scoped callers cannot grow the
\* registry beyond the store (put, task_store.py:145).
THEOREM RegistryIsBounded == Spec => []RegistryBounded
<1>1. BodiesInv => RegistryBounded
  BY A2ATasksAssumption DEF BodiesInv, Agrees, RegistryBounded, A2ATasksAssumption
<1> QED BY BodiesAlways, <1>1, PTL

-----------------------------------------------------------------------------
(* Ownership, save of the ids evicted under a send. *)

\* The end of a send changes its phase alone.
LEMMA EndedCall ==
    ASSUME ShapeOK, NEW r \in Requests,
           NEW phase \in {"answered", "failed", "dropped"}, Ended(r, phase)
    PROVE  /\ CallsOK'
           /\ call[r] # None /\ call[r].phase = "running"
           /\ call[r].id \in TaskIds /\ call[r].caller \in Callers
           /\ call'[r] # None /\ call'[r].phase = phase
           /\ call'[r].id = call[r].id /\ call'[r].caller = call[r].caller
           /\ \A q \in Requests : q # r => call'[q] = call[q]
<1>1. call[r] \in Calls
  BY DEF Ended, Running, ShapeOK
<1>2. PICK c \in Callers, i \in TaskIds, ph \in {"running", "answered", "failed", "dropped"} :
        call[r] = [phase |-> ph, caller |-> c, id |-> i]
  BY <1>1 DEF Calls
<1>3. [call[r] EXCEPT !.phase = phase] = [phase |-> phase, caller |-> c, id |-> i]
  BY <1>2
<1>4. [phase |-> phase, caller |-> c, id |-> i] \in Calls
  BY DEF Calls
<1>5. call' = [call EXCEPT ![r] = [phase |-> phase, caller |-> c, id |-> i]]
  BY <1>3 DEF Ended
<1> QED BY <1>2, <1>4, <1>5, A2ATasksAssumption DEF Ended, Running, ShapeOK, CallsOK, A2ATasksAssumption

\* A scoped send that runs after a step ran before it, or has just reserved the
\* record of its task.
LEMMA RunningBefore ==
    ASSUME StoreInv, StoreEffects,
           NEW q \in Requests, Running(q)', call'[q].caller # Unscoped
    PROVE  \/ Running(q) /\ call'[q] = call[q]
           \/ /\ record'[call'[q].id] # None
              /\ record'[call'[q].id].owner = call'[q].caller
<1> USE A2ATasksAssumption DEF A2ATasksAssumption, Running
<1>0. ShapeOK
  BY DEF StoreInv
<1>1. ASSUME NEW r \in Requests, NEW c \in Owners, NEW id \in TaskIds,
             Stored(id, [owner |-> c, state |-> "WORKING"], body), Run(r, c, id)
      PROVE  \/ Running(q) /\ call'[q] = call[q]
             \/ /\ record'[call'[q].id] # None
                /\ record'[call'[q].id].owner = call'[q].caller
  <2> DEFINE rec == [owner |-> c, state |-> "WORKING"]
  <2>1. CASE q = r
    <3>1. call'[q].id = id /\ call'[q].caller = c
      BY <1>0, <1>1, <2>1 DEF Run, ShapeOK
    <3>2. rec \in Records /\ rec.owner = c
      BY DEF Records
    <3>3. record'[id] = rec
      BY <1>1, <3>2, StoredRecords
    <3> QED BY <3>1, <3>2, <3>3
  <2>2. CASE q # r
    BY <1>0, <1>1, <2>2 DEF Run, ShapeOK
  <2> QED BY <2>1, <2>2
<1>2. ASSUME NEW r \in Requests, NEW id \in TaskIds, Run(r, Unscoped, id)
      PROVE  Running(q) /\ call'[q] = call[q]
  BY <1>0, <1>2 DEF Run, ShapeOK
<1>3. ASSUME NEW r \in Requests, NEW phase \in {"answered", "failed", "dropped"},
             Ended(r, phase)
      PROVE  Running(q) /\ call'[q] = call[q]
  BY <1>0, <1>3, EndedCall
<1>4. CASE UNCHANGED call
  BY <1>4
<1> HIDE DEF Running
<1> QED BY <1>1, <1>2, <1>3, <1>4 DEF StoreEffects

\* A put that writes a record with its old owner hands no record over.
LEMMA StoredOwners ==
    ASSUME ShapeOK, NEW i \in TaskIds, NEW rec \in Records, NEW bodies,
           Stored(i, rec, bodies), NEW id \in TaskIds, record[id] # None, record'[id] # None,
           id = i => record[id].owner = rec.owner
    PROVE  record'[id].owner = record[id].owner
BY StoredRecords

\* No effect hands a record over, unless its id was evicted under a send.
LEMMA OwnersKept ==
    ASSUME StoreInv, RunOwnsRecord, StoreEffects,
           NEW id \in TaskIds \ displaced, record[id] # None, record'[id] # None
    PROVE  record'[id].owner = record[id].owner
<1> USE A2ATasksAssumption DEF A2ATasksAssumption
<1>0. ShapeOK /\ record[id] \in Records
  BY DEF StoreInv, ShapeOK
<1>1. ASSUME NEW r \in Requests, NEW c \in Owners, NEW i \in TaskIds, MayClaim(c, i),
             Stored(i, [owner |-> c, state |-> "WORKING"], body)
      PROVE  record'[id].owner = record[id].owner
  <2> DEFINE rec == [owner |-> c, state |-> "WORKING"]
  <2>1. rec \in Records /\ rec.owner = c
    BY DEF Records
  <2>2. id = i => record[id].owner = rec.owner
    BY <1>1, <2>1 DEF MayClaim
  <2> HIDE DEF rec
  <2> QED BY <1>0, <1>1, <2>1, <2>2, StoredOwners DEF rec
<1>2. ASSUME NEW r \in Requests, Ended(r, "answered"),
             IF call[r].caller = Unscoped
             THEN record' = record
             ELSE Stored(call[r].id, [owner |-> call[r].caller, state |-> "COMPLETED"], Answer(r))
      PROVE  record'[id].owner = record[id].owner
  <2> DEFINE rec == [owner |-> call[r].caller, state |-> "COMPLETED"]
  <2>1. CASE call[r].caller = Unscoped
    BY <1>2, <2>1
  <2>2. CASE call[r].caller # Unscoped
    <3>1. call[r].id \in TaskIds /\ call[r].caller \in Callers
      BY <1>0, <1>2, EndKeepsCalls
    <3>2. rec \in Records /\ rec.owner = call[r].caller
      BY <2>2, <3>1 DEF Records, Callers, Terminal
    <3>3. id = call[r].id => record[id].owner = rec.owner
      BY <1>2, <2>2, <3>2 DEF RunOwnsRecord, Ended
    <3>4. Stored(call[r].id, rec, Answer(r))
      BY <1>2, <2>2
    <3> HIDE DEF rec
    <3> QED BY <1>0, <3>1, <3>2, <3>3, <3>4, StoredOwners
  <2> QED BY <2>1, <2>2
<1>3. ASSUME NEW i \in TaskIds, NEW state \in Terminal, NEW bodies, record[i] # None,
             Stored(i, [owner |-> record[i].owner, state |-> state], bodies)
      PROVE  record'[id].owner = record[id].owner
  <2> DEFINE rec == [owner |-> record[i].owner, state |-> state]
  <2>1. rec \in Records /\ rec.owner = record[i].owner
    BY <1>0, <1>3 DEF ShapeOK, Records
  <2> HIDE DEF rec
  <2> QED BY <1>0, <1>3, <2>1, StoredOwners DEF rec
<1>4. ASSUME NEW r \in Requests, Ended(r, "failed"),
             IF call[r].caller # Unscoped /\ SameOrg(call[r].caller, call[r].id)
             THEN Stored(call[r].id,
                         [owner |-> record[call[r].id].owner, state |-> "FAILED"], body)
             ELSE SameStore
      PROVE  record'[id].owner = record[id].owner
  <2>1. call[r].id \in TaskIds /\ "FAILED" \in Terminal
    BY <1>0, <1>4, EndKeepsCalls DEF Terminal
  <2>2. CASE call[r].caller # Unscoped /\ SameOrg(call[r].caller, call[r].id)
    BY <1>3, <1>4, <2>1, <2>2 DEF SameOrg
  <2>3. CASE ~(call[r].caller # Unscoped /\ SameOrg(call[r].caller, call[r].id))
    BY <1>4, <2>3 DEF SameStore
  <2> QED BY <2>2, <2>3
<1>5. "CANCELED" \in Terminal
  BY DEF Terminal
<1>6. CASE record' = record
  BY <1>6
<1> QED BY <1>1, <1>2, <1>3, <1>4, <1>5, <1>6 DEF StoreEffects, SameStore

\* A running scoped send keeps its record, or its id is displaced by now.
LEMMA RunOwnsInductive ==
    ASSUME StoreInv, RunOwnsRecord, StoreInv', StoreEffects, KeepHistory
    PROVE  RunOwnsRecord'
<1> SUFFICES ASSUME NEW q \in Requests, Running(q)', call'[q].caller # Unscoped,
                    call'[q].id \notin displaced'
             PROVE  /\ record'[call'[q].id] # None
                    /\ record'[call'[q].id].owner = call'[q].caller
  BY DEF RunOwnsRecord
<1> DEFINE id == call'[q].id
<1>1. id \in TaskIds
  BY A2ATasksAssumption DEF StoreInv, ShapeOK, Calls, Running, A2ATasksAssumption
<1>2. ASSUME NEW i \in TaskIds, i = id PROVE Busy(i)'
  BY <1>2 DEF Busy
<1>3. id \notin displaced /\ (record[id] = None \/ record'[id] # None)
  BY <1>1, <1>2 DEF KeepHistory
<1>4. CASE Running(q) /\ call'[q] = call[q]
  <2>1. record[id] # None /\ record[id].owner = call'[q].caller
    BY <1>3, <1>4 DEF RunOwnsRecord
  <2> QED BY <1>1, <1>3, <2>1, OwnersKept
<1> QED BY <1>4, RunningBefore

\* A scoped send that runs owns the record of its task, unless the store evicted
\* it under a send, for any capacity of the store and any number of callers, sends
\* and ids, scoped or not, in either protocol version (_reserve, _record and
\* _invoke of server.py).
THEOREM OwnershipHolds == Spec => []RunOwnsRecord
<1>1. Init => RunOwnsRecord
  BY DEF Init, RunOwnsRecord, Running
<1>2. StoreInv /\ RunOwnsRecord /\ [Next]_vars => StoreInv' /\ RunOwnsRecord'
  <2>1. CASE UNCHANGED vars
    BY <2>1, StoreSteps DEF vars, RunOwnsRecord, Running
  <2>2. CASE Next
    BY <2>2, StoreSteps, RunOwnsInductive DEF Next
  <2> QED BY <2>1, <2>2
<1> QED BY StoreInitially, <1>1, <1>2, PTL DEF Spec

\* No step hands a recorded task to another owner, unless the store evicted the id
\* under a send (_claim_task_id, server.py:520).
THEOREM OwnersAreStable == Spec => OwnerStable
<1>1. StoreInv /\ RunOwnsRecord /\ [Next]_vars =>
        [\A id \in TaskIds \ displaced :
           record[id] # None /\ record'[id] # None
             => record'[id].owner = record[id].owner]_vars
  BY StoreSteps, OwnersKept
<1>2. StoreInv /\ [Next]_vars => StoreInv'
  BY StoreSteps
<1> QED BY StoreInitially, OwnershipHolds, <1>1, <1>2, PTL DEF Spec, OwnerStable
=============================================================================
