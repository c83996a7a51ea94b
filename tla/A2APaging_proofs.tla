-------------------------- MODULE A2APaging_proofs --------------------------
(***************************************************************************)
(* The paged listing of A2A tasks for any number of tasks, any page size   *)
(* and any times: a task no put touches while the client reads is returned *)
(* exactly once.  The tasks returned so far are those at or after the      *)
(* token, and a page is an initial segment of the others.                  *)
(***************************************************************************)
EXTENDS A2APaging, FiniteSetTheorems, WellFoundedInduction, TLAPS

-----------------------------------------------------------------------------
(* Finite sets and their order. *)

\* Every set of naturals has a least element.
LEMMA LeastNat ==
    ASSUME NEW S \in SUBSET Nat, S # {}
    PROVE  \E x \in S : \A y \in S : x <= y
<1>1. \E x \in S : \A y \in S : ~(<<y, x>> \in OpToRel(<, Nat))
  BY NatLessThanWellFounded, WFMin, Zenon
<1>2. \A x, y \in Nat : <<y, x>> \in OpToRel(<, Nat) <=> y < x
  BY DEF OpToRel
<1>3. \E x \in S : \A y \in S : ~(y < x)
  BY <1>1, <1>2, Zenon
<1> QED BY <1>3

\* The elements of S that R puts before x.
Below(R, S, x) == {y \in S : <<y, x>> \in R}

\* A finite set that is not empty has a minimal element in every strict order.
LEMMA MinimalElement ==
    ASSUME NEW S, IsFiniteSet(S), S # {}, NEW R,
           \A x \in S : <<x, x>> \notin R,
           \A x, y, z \in S : <<x, y>> \in R /\ <<y, z>> \in R => <<x, z>> \in R
    PROVE  \E x \in S : \A y \in S : <<y, x>> \notin R
<1> DEFINE rank(x) == Cardinality(Below(R, S, x))
           Ranks == {rank(x) : x \in S}
<1>1. \A x \in S : /\ Below(R, S, x) \subseteq S /\ IsFiniteSet(Below(R, S, x))
                   /\ rank(x) \in Nat
  BY FS_Subset, FS_CardinalityType DEF Below
<1>2. PICK x \in S : \A y \in S : rank(x) <= rank(y)
  <2>1. Ranks \in SUBSET Nat /\ Ranks # {}
    BY <1>1
  <2>2. PICK n \in Ranks : \A m \in Ranks : n <= m
    <3> HIDE DEF Ranks
    <3> QED BY <2>1, LeastNat
  <2> QED BY <2>2
<1>3. ASSUME NEW y \in S, <<y, x>> \in R PROVE FALSE
  <2>1. Below(R, S, y) \subseteq Below(R, S, x)
    BY <1>3 DEF Below
  <2>2. y \in Below(R, S, x) /\ y \notin Below(R, S, y)
    BY <1>3 DEF Below
  <2>3. rank(y) <= rank(x) /\ (rank(y) = rank(x) => Below(R, S, y) = Below(R, S, x))
    BY <1>1, <2>1, FS_Subset
  <2>4. rank(x) = rank(y)
    BY <1>1, <1>2, <2>3
  <2> QED BY <2>2, <2>3, <2>4
<1> QED BY <1>3

-----------------------------------------------------------------------------
(* The order of cursors and the page. *)

Typed ==
    /\ updated \in [TaskIds -> Nat]
    /\ clock \in Nat
    /\ token = <<>> \/ token \in Nat \X Nat
    /\ times \in [TaskIds -> 0..2]
    /\ done \in BOOLEAN

\* Cursors of different tasks differ, and one of two is before the other.
LEMMA CursorsAreOrdered ==
    ASSUME Typed
    PROVE  /\ \A i \in TaskIds : Cursor(i) \in Nat \X Nat
           /\ \A a \in Nat \X Nat : ~Before(a, a)
           /\ \A a, b, c \in Nat \X Nat : Before(a, b) /\ Before(b, c) => Before(a, c)
           /\ \A i, j \in TaskIds :
                 i # j => Before(Cursor(i), Cursor(j)) \/ Before(Cursor(j), Cursor(i))
<1> USE A2APagingAssumption DEF A2APagingAssumption, Typed, Cursor, Before
<1>1. \A i \in TaskIds : i \in Nat /\ updated[i] \in Nat
  OBVIOUS
<1>2. \A i \in TaskIds : Cursor(i) \in Nat \X Nat
  BY <1>1
<1>3. \A a \in Nat \X Nat : ~Before(a, a)
  OBVIOUS
<1>4. \A a, b, c \in Nat \X Nat : Before(a, b) /\ Before(b, c) => Before(a, c)
  OBVIOUS
<1>5. \A i, j \in TaskIds :
        i # j => Before(Cursor(i), Cursor(j)) \/ Before(Cursor(j), Cursor(i))
  BY <1>1
<1> QED BY <1>2, <1>3, <1>4, <1>5

\* The oldest of some tasks is one of them, and before the others.
LEMMA OldestIsLast ==
    ASSUME Typed, NEW S \in SUBSET TaskIds, S # {}
    PROVE  /\ Oldest(S) \in S
           /\ \A j \in S \ {Oldest(S)} : Before(Cursor(Oldest(S)), Cursor(j))
<1> DEFINE R == {p \in S \X S : Before(Cursor(p[1]), Cursor(p[2]))}
<1>1. IsFiniteSet(S)
  BY FS_Subset, A2APagingAssumption DEF A2APagingAssumption
<1>2. \A x, y \in S : <<x, y>> \in R <=> Before(Cursor(x), Cursor(y))
  OBVIOUS
<1> HIDE DEF R
<1>3. /\ \A x \in S : <<x, x>> \notin R
      /\ \A x, y, z \in S : <<x, y>> \in R /\ <<y, z>> \in R => <<x, z>> \in R
  <2>1. \A x \in S : Cursor(x) \in Nat \X Nat
    BY CursorsAreOrdered
  <2> QED BY <1>2, <2>1, CursorsAreOrdered
<1>4. PICK x \in S : \A y \in S : <<y, x>> \notin R
  BY <1>1, <1>3, MinimalElement
<1>5. \A y \in S \ {x} : Before(Cursor(x), Cursor(y))
  BY <1>2, <1>4, CursorsAreOrdered
<1>6. \E i \in S : \A j \in S \ {i} : Before(Cursor(i), Cursor(j))
  BY <1>5
<1> QED BY <1>6 DEF Oldest

\* Some task that is left has none newer than it.
LEMMA NewestExists ==
    ASSUME Typed, Remaining # {}
    PROVE  \E i \in Remaining : Newer(i) = {}
<1> DEFINE S == Remaining
           R == {p \in S \X S : Before(Cursor(p[2]), Cursor(p[1]))}
<1>1. S \subseteq TaskIds /\ IsFiniteSet(S)
  BY FS_Subset, A2APagingAssumption DEF A2APagingAssumption, Remaining
<1>2. \A x, y \in S : <<x, y>> \in R <=> Before(Cursor(y), Cursor(x))
  OBVIOUS
<1> HIDE DEF R
<1>3. /\ \A x \in S : <<x, x>> \notin R
      /\ \A x, y, z \in S : <<x, y>> \in R /\ <<y, z>> \in R => <<x, z>> \in R
  <2>1. \A x \in S : Cursor(x) \in Nat \X Nat
    BY <1>1, CursorsAreOrdered
  <2> QED BY <1>2, <2>1, CursorsAreOrdered
<1>4. PICK x \in S : \A y \in S : <<y, x>> \notin R
  <2> HIDE DEF S
  <2>1. S # {}
    BY DEF S
  <2> QED BY <1>1, <1>3, <2>1, MinimalElement
<1> QED BY <1>2, <1>4 DEF Newer

\* What the page is made of: the newest of what is left, all of it when it fits.
LEMMA PageIsInitial ==
    ASSUME Typed
    PROVE  /\ Page \subseteq Remaining /\ Remaining \subseteq TaskIds
           /\ Remaining # {} => Page # {}
           /\ \A i \in Page, j \in Remaining : Before(Cursor(i), Cursor(j)) => j \in Page
           /\ Cardinality(Remaining) <= PageSize => Page = Remaining
<1>1. Remaining \subseteq TaskIds /\ IsFiniteSet(Remaining)
  BY FS_Subset, A2APagingAssumption DEF A2APagingAssumption, Remaining
<1>2. PageSize \in Nat \ {0}
  BY A2APagingAssumption DEF A2APagingAssumption
<1>3. \A i \in Remaining : /\ Newer(i) \subseteq Remaining /\ IsFiniteSet(Newer(i))
                           /\ Cardinality(Newer(i)) \in Nat
  BY <1>1, FS_Subset, FS_CardinalityType DEF Newer
<1>4. Page \subseteq Remaining
  BY DEF Page
<1>5. Remaining # {} => Page # {}
  BY <1>2, NewestExists, FS_EmptySet DEF Page
<1>6. ASSUME NEW i \in Page, NEW j \in Remaining, Before(Cursor(i), Cursor(j))
      PROVE  j \in Page
  <2>1. i \in Remaining /\ Cardinality(Newer(i)) < PageSize
    BY DEF Page
  <2>2. Newer(j) \subseteq Newer(i)
    <3>1. \A x \in Remaining : Cursor(x) \in Nat \X Nat
      BY <1>1, CursorsAreOrdered
    <3> QED BY <1>6, <2>1, <3>1, CursorsAreOrdered DEF Newer
  <2>3. Cardinality(Newer(j)) <= Cardinality(Newer(i))
    BY <1>3, <2>1, <2>2, FS_Subset
  <2> QED BY <1>2, <1>3, <2>1, <2>3 DEF Page
<1>7. ASSUME Cardinality(Remaining) <= PageSize, NEW i \in Remaining
      PROVE  i \in Page
  <2>1. i \notin Newer(i)
    BY <1>1, CursorsAreOrdered DEF Newer
  <2>2. /\ Cardinality(Newer(i)) <= Cardinality(Remaining)
        /\ Cardinality(Newer(i)) # Cardinality(Remaining)
    BY <1>1, <1>3, <2>1, FS_Subset
  <2>3. Cardinality(Remaining) \in Nat
    BY <1>1, FS_CardinalityType
  <2> QED BY <1>2, <1>3, <1>7, <2>2, <2>3 DEF Page
<1> QED BY <1>1, <1>4, <1>5, <1>6, <1>7

\* The number of newer tasks is a task's place in what is left of the list, from 0
\* on, and every place is taken.
LEMMA PlacesAreTaken ==
    ASSUME Typed
    PROVE  [i \in Remaining |-> Cardinality(Newer(i))]
               \in Bijection(Remaining, 0..(Cardinality(Remaining) - 1))
<1> DEFINE n == Cardinality(Remaining)
           f == [i \in Remaining |-> Cardinality(Newer(i))]
<1>1. Remaining \subseteq TaskIds /\ IsFiniteSet(Remaining) /\ n \in Nat
  BY FS_Subset, FS_CardinalityType, A2APagingAssumption DEF A2APagingAssumption, Remaining
<1>2. \A i \in Remaining : /\ Newer(i) \subseteq Remaining /\ IsFiniteSet(Newer(i))
                           /\ Cardinality(Newer(i)) \in Nat /\ i \notin Newer(i)
  BY <1>1, FS_Subset, FS_CardinalityType, CursorsAreOrdered DEF Newer
<1>3. ASSUME NEW i \in Remaining PROVE f[i] \in 0..(n - 1)
  <2>1. Cardinality(Newer(i)) <= n /\ Cardinality(Newer(i)) # n
    BY <1>1, <1>2, FS_Subset
  <2> QED BY <1>1, <1>2, <2>1
<1>4. ASSUME NEW i \in Remaining, NEW j \in Remaining, Before(Cursor(i), Cursor(j))
      PROVE  f[i] # f[j]
  <2>1. \A x \in Remaining : Cursor(x) \in Nat \X Nat
    BY <1>1, CursorsAreOrdered
  <2>2. Newer(j) \subseteq Newer(i) /\ j \in Newer(i) /\ j \notin Newer(j)
    BY <1>2, <1>4, <2>1, CursorsAreOrdered DEF Newer
  <2>3. Cardinality(Newer(j)) # Cardinality(Newer(i))
    BY <1>2, <2>2, FS_Subset
  <2> QED BY <2>3
<1>5. f \in Injection(Remaining, 0..(n - 1))
  <2>1. f \in [Remaining -> 0..(n - 1)]
    BY <1>3
  <2>2. \A i, j \in Remaining : f[i] = f[j] => i = j
    <3> HIDE DEF f
    <3> QED BY <1>1, <1>4, CursorsAreOrdered
  <2> HIDE DEF f, n
  <2> QED BY <2>1, <2>2 DEF Injection, IsInjective
<1>6. IsFiniteSet(0..(n - 1)) /\ Cardinality(0..(n - 1)) = n
  <2>1. 0 \in Int /\ n - 1 \in Int /\ n >= 0
    BY <1>1
  <2>2. /\ IsFiniteSet(0..(n - 1))
        /\ Cardinality(0..(n - 1)) = IF 0 > n - 1 THEN 0 ELSE n - 1 - 0 + 1
    BY <2>1, FS_Interval
  <2> QED BY <1>1, <2>2
<1>7. f \in Surjection(Remaining, 0..(n - 1))
  <2> HIDE DEF f
  <2> QED BY <1>5, <1>6, FS_Injection
<1> QED BY <1>5, <1>7 DEF Bijection

-----------------------------------------------------------------------------
(* The inductive invariant. *)

\* Before the first page nothing has been returned; afterwards an untouched task
\* has been returned once if it is not past the token, else not yet.
ListedInv ==
    /\ Typed
    /\ ~done /\ token = <<>> => \A i \in TaskIds : times[i] = 0
    /\ done \/ token # <<>> =>
          \A i \in TaskIds \ touched :
              updated[i] # Absent =>
                  times[i] = IF ~done /\ Before(Cursor(i), token) THEN 0 ELSE 1

\* Initially nothing is listed.
LEMMA ListedInitially == Init => ListedInv
<1> SUFFICES ASSUME Init PROVE ListedInv
  OBVIOUS
<1>1. ~done /\ done \in BOOLEAN /\ token = <<>> /\ clock = 1
  BY DEF Init
<1>2. /\ updated = [i \in TaskIds |-> 0]
      /\ times = [i \in TaskIds |-> 0]
  BY DEF Init, Absent
<1>3. Typed
  BY <1>1, <1>2 DEF Typed
<1> QED BY <1>1, <1>2, <1>3 DEF ListedInv

\* A put touches the task it refreshes once the client has begun.
LEMMA PutKeepsListed ==
    ASSUME ListedInv, NEW i \in TaskIds, NEW s \in ClockSteps, Put(i, s)
    PROVE  ListedInv'
<1>1. Typed
  BY DEF ListedInv
<1>2. clock' \in Nat /\ updated' = [updated EXCEPT ![i] = clock']
  BY <1>1, A2APagingAssumption DEF Put, Typed, A2APagingAssumption
<1>3. Typed'
  BY <1>1, <1>2 DEF Put, Typed
<1>4. ASSUME NEW j \in TaskIds \ touched', done \/ token # <<>>, updated'[j] # Absent
      PROVE  times'[j] = IF ~done' /\ Before(Cursor(j)', token') THEN 0 ELSE 1
  <2>1. touched' = touched \cup {i}
    BY <1>4 DEF Put
  <2>2. j # i /\ updated'[j] = updated[j]
    BY <1>1, <1>2, <2>1 DEF Typed
  <2>3. Cursor(j)' = Cursor(j)
    BY <2>2 DEF Cursor
  <2> QED BY <1>4, <2>1, <2>2, <2>3 DEF ListedInv, Put
<1>5. ~done' /\ token' = <<>> => \A j \in TaskIds : times'[j] = 0
  BY DEF ListedInv, Put
<1> QED BY <1>3, <1>4, <1>5 DEF ListedInv, Put

\* A page returns what is past the old token and not past the new one.
LEMMA PageKeepsListed ==
    ASSUME ListedInv, ListPage
    PROVE  ListedInv'
<1>1. Typed /\ ~done
  BY DEF ListedInv, ListPage
<1>2. /\ Page \subseteq Remaining /\ Remaining \subseteq TaskIds
      /\ Remaining # {} => Page # {}
      /\ \A i \in Page, j \in Remaining : Before(Cursor(i), Cursor(j)) => j \in Page
      /\ Cardinality(Remaining) <= PageSize => Page = Remaining
  BY <1>1, PageIsInitial
<1>3. /\ times' \in [TaskIds -> 0..2]
      /\ \A i \in TaskIds : times'[i] = IF i \in Page /\ times[i] < 2
                                        THEN times[i] + 1 ELSE times[i]
      /\ done' \in BOOLEAN /\ (done' <=> Cardinality(Remaining) <= PageSize)
      /\ UNCHANGED <<updated, clock, touched>>
  <2>1. done' = (Cardinality(Remaining) <= PageSize)
    BY DEF ListPage
  <2>2. done' \in BOOLEAN /\ (done' <=> Cardinality(Remaining) <= PageSize)
    <3>1. (Cardinality(Remaining) <= PageSize) \in BOOLEAN
      OBVIOUS
    <3> QED BY <2>1, <3>1, Zenon
  <2>3. times' = [i \in TaskIds |-> IF i \in Page /\ times[i] < 2
                                    THEN times[i] + 1 ELSE times[i]]
    BY DEF ListPage
  <2>4. \A i \in TaskIds : times[i] \in 0..2
    BY <1>1 DEF Typed
  <2>5. UNCHANGED <<updated, clock, touched>>
    BY DEF ListPage
  <2>6. /\ times' \in [TaskIds -> 0..2]
        /\ \A i \in TaskIds : times'[i] = IF i \in Page /\ times[i] < 2
                                          THEN times[i] + 1 ELSE times[i]
    BY <2>3, <2>4
  <2> QED BY <2>2, <2>5, <2>6
<1>4. ~done' => /\ Page # {} /\ Oldest(Page) \in Page
                /\ token' = Cursor(Oldest(Page)) /\ token' \in Nat \X Nat
                /\ \A j \in Page \ {Oldest(Page)} : Before(token', Cursor(j))
  <2> SUFFICES ASSUME ~done' PROVE Page # {} /\ Oldest(Page) \in Page
                /\ token' = Cursor(Oldest(Page)) /\ token' \in Nat \X Nat
                /\ \A j \in Page \ {Oldest(Page)} : Before(token', Cursor(j))
    OBVIOUS
  <2>1. Remaining # {}
    BY <1>3, FS_EmptySet, A2APagingAssumption DEF A2APagingAssumption
  <2>2. Page # {} /\ Page \in SUBSET TaskIds
    BY <1>2, <2>1
  <2>3. token' = Cursor(Oldest(Page))
    BY DEF ListPage
  <2>4. /\ Oldest(Page) \in Page
        /\ \A j \in Page \ {Oldest(Page)} : Before(Cursor(Oldest(Page)), Cursor(j))
    BY <1>1, <2>2, OldestIsLast
  <2>5. Cursor(Oldest(Page)) \in Nat \X Nat
    BY <1>1, <2>2, <2>4, CursorsAreOrdered
  <2> QED BY <2>2, <2>3, <2>4, <2>5
<1>5. done' => token' = token
  BY DEF ListPage
<1>6. Typed'
  BY <1>1, <1>3, <1>4, <1>5 DEF Typed
<1>7. ASSUME NEW i \in TaskIds \ touched, updated[i] # Absent
      PROVE  times'[i] = IF ~done' /\ Before(Cursor(i), token') THEN 0 ELSE 1
  <2>1. times[i] = IF i \in Remaining THEN 0 ELSE 1
    BY <1>1, <1>7 DEF ListedInv, Remaining
  <2>2. Cursor(i) \in Nat \X Nat
    BY <1>1, CursorsAreOrdered
  <2>3. CASE i \notin Remaining
    <3>1. times'[i] = 1
      BY <1>2, <1>3, <2>1, <2>3
    <3>2. ASSUME ~done', Before(Cursor(i), token') PROVE FALSE
      <4>1. token \in Nat \X Nat /\ ~Before(Cursor(i), token)
        BY <1>1, <1>7, <2>3 DEF Remaining, Typed
      <4>2. Before(token', token)
        BY <1>2, <1>4, <3>2, <4>1 DEF Remaining
      <4> QED BY <1>1, <1>4, <2>2, <3>2, <4>1, <4>2, CursorsAreOrdered
    <3> QED BY <3>1, <3>2
  <2>4. CASE i \in Page
    <3>1. times'[i] = 1
      BY <1>2, <1>3, <2>1, <2>4
    <3>2. ASSUME ~done', Before(Cursor(i), token') PROVE FALSE
      <4>1. i = Oldest(Page) \/ Before(token', Cursor(i))
        BY <1>4, <2>4, <3>2
      <4> QED BY <1>1, <1>4, <2>2, <3>2, <4>1, CursorsAreOrdered
    <3> QED BY <3>1, <3>2
  <2>5. CASE i \in Remaining \ Page
    <3>1. times'[i] = 0 /\ ~done'
      BY <1>2, <1>3, <2>1, <2>5
    <3>2. i # Oldest(Page) /\ Oldest(Page) \in TaskIds
      BY <1>2, <1>4, <2>5, <3>1
    <3>3. ~Before(token', Cursor(i))
      BY <1>2, <1>4, <2>5, <3>1
    <3>4. Before(Cursor(i), token')
      BY <1>1, <1>4, <3>1, <3>2, <3>3, CursorsAreOrdered
    <3> QED BY <3>1, <3>4
  <2> QED BY <1>2, <2>3, <2>4, <2>5
<1>8. \A i \in TaskIds : Cursor(i)' = Cursor(i)
  BY <1>3 DEF Cursor
<1>9. ~(~done' /\ token' = <<>>)
  BY <1>4
<1> QED BY <1>3, <1>6, <1>7, <1>8, <1>9 DEF ListedInv

\* No step breaks it.
LEMMA ListedAlways == Spec => []ListedInv
<1>1. ASSUME ListedInv, [Next]_vars PROVE ListedInv'
  <2>1. CASE UNCHANGED vars
    BY <1>1, <2>1 DEF vars, ListedInv, Typed, Cursor
  <2> QED BY <1>1, <2>1, PutKeepsListed, PageKeepsListed DEF Next
<1> QED BY ListedInitially, <1>1, PTL DEF Spec

\* However many tasks are listed, whatever the page size and whatever puts come
\* between two pages, at equal times too: a task no put touched since the first
\* page has been returned exactly once when the listing is over (list and _cursor,
\* task_store.py:196).
THEOREM ListedOnce == Spec => []UntouchedListedOnce
<1>1. ListedInv => UntouchedListedOnce
  BY DEF ListedInv, UntouchedListedOnce
<1> QED BY ListedAlways, <1>1, PTL

\* A page holds as many tasks as are left, up to the page size: the condition on
\* places cuts the list where records[:size] does (list, task_store.py:203).
THEOREM PagesAreFull ==
    Spec => [](Cardinality(Page) = IF Cardinality(Remaining) < PageSize
                                   THEN Cardinality(Remaining) ELSE PageSize)
<1>1. ASSUME Typed
      PROVE  Cardinality(Page) = IF Cardinality(Remaining) < PageSize
                                 THEN Cardinality(Remaining) ELSE PageSize
  <2> DEFINE n == Cardinality(Remaining)
             m == IF n < PageSize THEN n ELSE PageSize
             f == [i \in Remaining |-> Cardinality(Newer(i))]
             g == [i \in Page |-> f[i]]
  <2>1. Remaining \subseteq TaskIds /\ IsFiniteSet(Remaining) /\ n \in Nat
    BY FS_Subset, FS_CardinalityType, A2APagingAssumption DEF A2APagingAssumption, Remaining
  <2>2. m \in Nat /\ m <= n /\ m <= PageSize /\ PageSize \in Nat
    BY <2>1, A2APagingAssumption DEF A2APagingAssumption
  <2>3. f \in Bijection(Remaining, 0..(n - 1))
    BY <1>1, PlacesAreTaken
  <2>4. Page = {i \in Remaining : f[i] < PageSize}
    BY DEF Page
  <2> HIDE DEF f
  <2>5. /\ f \in [Remaining -> 0..(n - 1)]
        /\ \A i, j \in Remaining : f[i] = f[j] => i = j
        /\ \A k \in 0..(n - 1) : \E i \in Remaining : f[i] = k
    BY <2>3 DEF Bijection, Injection, Surjection, IsInjective
  <2>6. \A i \in Page : i \in Remaining /\ f[i] \in 0..(m - 1)
    BY <2>1, <2>2, <2>4, <2>5
  <2>7. \A k \in 0..(m - 1) : \E i \in Page : f[i] = k
    BY <2>1, <2>2, <2>4, <2>5
  <2>8. g \in Bijection(Page, 0..(m - 1))
    <3>1. g \in [Page -> 0..(m - 1)]
      BY <2>6
    <3>2. \A i, j \in Page : g[i] = g[j] => i = j
      BY <2>5, <2>6
    <3>3. \A k \in 0..(m - 1) : \E i \in Page : g[i] = k
      BY <2>7
    <3> HIDE DEF g, m
    <3> QED BY <3>1, <3>2, <3>3 DEF Bijection, Injection, Surjection, IsInjective
  <2>9. IsFiniteSet(0..(m - 1)) /\ Cardinality(0..(m - 1)) = m
    <3>1. 0 \in Int /\ m - 1 \in Int /\ m >= 0
      BY <2>2
    <3>2. /\ IsFiniteSet(0..(m - 1))
          /\ Cardinality(0..(m - 1)) = IF 0 > m - 1 THEN 0 ELSE m - 1 - 0 + 1
      BY <3>1, FS_Interval
    <3> QED BY <2>2, <3>2
  <2>10. IsFiniteSet(Page)
    BY <2>1, <2>4, FS_Subset
  <2>11. Cardinality(0..(m - 1)) = Cardinality(Page)
    <3> HIDE DEF g, m
    <3> QED BY <2>8, <2>10, FS_Bijection DEF ExistsBijection
  <2> QED BY <2>9, <2>11
<1>2. ListedInv => Typed
  BY DEF ListedInv
<1> QED BY ListedAlways, <1>1, <1>2, PTL
=============================================================================
