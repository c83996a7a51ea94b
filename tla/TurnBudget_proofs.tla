------------------------- MODULE TurnBudget_proofs -------------------------
(***************************************************************************)
(* Proofs about TurnBudget for every number of sessions and loops, every   *)
(* limit and every cost: a turn's and a tenant's spend stay below the      *)
(* limit and the overshoot, and a turn that was cut off stays cut off.     *)
(*                                                                         *)
(* The two caps rest on credit.  Each loop of a session has two tokens,    *)
(* one for a call that has begun and one for the last call, which is made  *)
(* without a check.  A session holds all of its tokens while its meter is  *)
(* below the limit, and afterwards only those its loops can still use.     *)
(* Each answer takes one token and costs at most MaxCost.                  *)
(***************************************************************************)
EXTENDS TurnBudget, FiniteSetTheorems, TLAPS

\* A loop that runs has an iteration left, and one that is off has none.
IterInv ==
    \A s \in Sessions, l \in Slots :
        /\ loop[s][l].at \in {"check", "call", "tools"} => loop[s][l].iter < MaxIter
        /\ loop[s][l].at = "off" => loop[s][l] = Off

TypeInv == TypeOK /\ IterInv

Failed == faults.adds # 0

\* The meter is of this turn once the supervisor has seeded it.
SeedInv ==
    \A s \in Sessions :
        /\ meter[s].turn <= turn[s]
        /\ phase[s] = "run" => meter[s].turn = turn[s]

\* A tenant's meter is never ahead of the store unless the store has failed.
LagInv ==
    scope = "tenant" /\ ~Failed =>
        \A s \in Sessions : meter[s].usage <= totals[meter[s].window]

\* A cut-off turn has its meter, at or past the limit.
CutInv ==
    ~Failed =>
        \A s \in Sessions :
            cut[s] => meter[s].turn = turn[s] /\ meter[s].usage >= Limit

\* A meter of its own counts what its turn has spent.
SpentInv ==
    scope # "tenant" =>
        /\ \A s \in Sessions :
              IF meter[s].turn = turn[s] THEN meter[s].usage = spent[s] ELSE spent[s] = 0
        /\ \A w \in Windows : totals[w] = 0

MeterInv == SeedInv /\ LagInv /\ CutInv /\ SpentInv

Calling == {"call"}
Busy == {"call", "tools", "final"}

TokenSet == Slots \X {1, 2}

\* The tokens of session s: see above.
Tokens(s) ==
    {t \in TokenSet :
        \/ meter[s].usage < Limit
        \/ t[2] = 1 /\ loop[s][t[1]].at \in Busy
        \/ t[2] = 2 /\ loop[s][t[1]].at \in Calling}

TurnCredit ==
    scope # "tenant" =>
        \A s \in Sessions :
            spent[s] + MaxCost * Cardinality(Tokens(s))
                < Limit + MaxCost * Cardinality(TokenSet)

\* The tokens of the sessions whose meters are of window w.
WindowTokens(w) ==
    {p \in Sessions \X TokenSet : meter[p[1]].window = w /\ p[2] \in Tokens(p[1])}

TenantCredit ==
    \A w \in Windows :
        totals[w] + MaxCost * Cardinality(WindowTokens(w))
            < Limit + MaxCost * (Cardinality(TokenSet) * (Cardinality(Sessions) + faults.reads))

CreditInv == TurnCredit /\ TenantCredit
-----------------------------------------------------------------------------
(* Types. *)

\* Where a loop may be sent: the iteration is within its bound.
Place(at) ==
    /\ at \in Loops
    /\ at.at \in {"check", "call", "tools"} => at.iter < MaxIter
    /\ at.at = "off" => at = Off

\* Off, the first check and the next place in an iteration are places.
LEMMA Places ==
    ASSUME TypeInv, NEW s \in Sessions, NEW l \in Slots
    PROVE  /\ Place(Off) /\ Place([at |-> "check", iter |-> 0])
           /\ loop[s][l].at \in {"check", "call", "tools"} =>
                \A at \in {"call", "tools"} : Place([loop[s][l] EXCEPT !.at = at])
  <1>1. Place(Off) /\ Place([at |-> "check", iter |-> 0])
    BY TurnBudgetAssumption DEF TurnBudgetAssumption, Place, Loops, Off
  <1>2. ASSUME NEW at \in {"call", "tools"}, loop[s][l].at \in {"check", "call", "tools"}
        PROVE  Place([loop[s][l] EXCEPT !.at = at])
    <2> DEFINE here == loop[s][l]
    <2>1. here \in Loops /\ here.iter < MaxIter
      BY <1>2 DEF TypeInv, TypeOK, IterInv
    <2> HIDE DEF here
    <2>2. [here EXCEPT !.at = at] = [at |-> at, iter |-> here.iter]
      BY ONLY <2>1 DEF Loops
    <2>3. here.iter \in 0..MaxIter
      BY ONLY <2>1 DEF Loops
    <2>4. Place([at |-> at, iter |-> here.iter])
      BY <2>1, <2>3 DEF Place, Loops
    <2> QED  BY <2>2, <2>4 DEF here
  <1> QED  BY <1>1, <1>2

\* A loop that is moved leaves the loops well formed.
LEMMA GotoTyped ==
    ASSUME TypeInv, NEW s \in Sessions, NEW l \in Slots, NEW at, Place(at),
           Goto(s, l, at), phase[s] = "run", UNCHANGED phase
    PROVE  /\ loop' \in [Sessions -> [Slots -> Loops]]
           /\ IterInv'
           /\ \A k \in Sessions : phase'[k] # "run" => loop'[k] = [j \in Slots |-> Off]
  <1>1. loop' \in [Sessions -> [Slots -> Loops]]
    BY DEF TypeInv, TypeOK, Goto, Place
  <1>2. IterInv'
    BY DEF TypeInv, TypeOK, IterInv, Goto, Place
  <1>3. \A k \in Sessions : phase'[k] # "run" => loop'[k] = [j \in Slots |-> Off]
    BY DEF TypeInv, TypeOK, Goto
  <1> QED  BY <1>1, <1>2, <1>3

\* A loop that is not off belongs to a delegation.
LEMMA Running ==
    ASSUME TypeInv, NEW s \in Sessions, NEW l \in Slots, loop[s][l].at # "off"
    PROVE  phase[s] = "run"
  BY DEF TypeInv, TypeOK, Off

LEMMA SeedTyped ==
    ASSUME TypeInv, NEW s \in Sessions, NEW readable \in BOOLEAN, Seed(s, readable)
    PROVE  /\ meter' \in [Sessions -> Meters]
           /\ faults' \in [reads : Nat, adds : Nat]
  <1>1. CASE Seeded(s)
    BY <1>1 DEF TypeInv, TypeOK, Seed
  <1>2. CASE ~Seeded(s)
    <2>1. Opening(readable) \in Nat
      BY DEF TypeInv, TypeOK, Opening
    <2>2. [turn |-> turn[s], window |-> window, usage |-> Opening(readable)] \in Meters
      BY <2>1 DEF TypeInv, TypeOK, Meters
    <2>3. meter' \in [Sessions -> Meters]
      BY <1>2, <2>2 DEF TypeInv, TypeOK, Seed
    <2>4. faults' \in [reads : Nat, adds : Nat]
      BY <1>2 DEF TypeInv, TypeOK, Seed, FaultyRead
    <2> QED  BY <2>3, <2>4
  <1> QED  BY <1>1, <1>2

LEMMA RecordTyped ==
    ASSUME TypeInv, NEW s \in Sessions, NEW c \in Costs, NEW stored \in BOOLEAN,
           Record(s, c, stored)
    PROVE  /\ spent' \in [Sessions -> Nat]
           /\ meter' \in [Sessions -> Meters]
           /\ totals' \in [Windows -> Nat]
           /\ faults' \in [reads : Nat, adds : Nat]
  <1> c \in Nat
    BY TurnBudgetAssumption DEF TurnBudgetAssumption
  <1>1. spent' \in [Sessions -> Nat]
    BY DEF TypeInv, TypeOK, Record
  <1>2. meter[s] \in Meters /\ meter[s].window \in Windows /\ meter[s].usage \in Nat
    BY DEF TypeInv, TypeOK, Meters
  <1>3. CASE scope = "tenant" /\ stored
    <2>1. totals[meter[s].window] + c \in Nat
      BY <1>2 DEF TypeInv, TypeOK
    <2>2. totals' \in [Windows -> Nat] /\ UNCHANGED faults
      BY <1>3, <2>1 DEF TypeInv, TypeOK, Record
    <2>3. [meter[s] EXCEPT !.usage = totals[meter[s].window] + c] \in Meters
      BY <1>2, <2>1 DEF Meters
    <2>4. meter' = [meter EXCEPT ![s] = [meter[s] EXCEPT !.usage = totals[meter[s].window] + c]]
      BY <1>3 DEF TypeInv, TypeOK, Record
    <2> QED  BY <1>1, <2>2, <2>3, <2>4 DEF TypeInv, TypeOK
  <1>4. CASE ~(scope = "tenant" /\ stored)
    <2>1. [meter[s] EXCEPT !.usage = meter[s].usage + c] \in Meters
      BY <1>2 DEF Meters
    <2>2. meter' = [meter EXCEPT ![s] = [meter[s] EXCEPT !.usage = meter[s].usage + c]]
      BY <1>4 DEF TypeInv, TypeOK, Record
    <2>3. UNCHANGED totals /\ faults' \in [reads : Nat, adds : Nat]
      BY <1>4 DEF TypeInv, TypeOK, Record
    <2> QED  BY <1>1, <2>1, <2>2, <2>3 DEF TypeInv, TypeOK
  <1> QED  BY <1>3, <1>4
\* Every step preserves the types, and with them the bound on iterations.
LEMMA TypeStep == TypeInv /\ [Next]_vars => TypeInv'
  <1> SUFFICES ASSUME TypeInv, [Next]_vars PROVE TypeInv'
    OBVIOUS
  <1> USE DEF TypeInv
  <1>1. CASE UNCHANGED vars
    BY <1>1 DEF TypeOK, IterInv, vars
  <1>2. CASE Tick
    BY <1>2, TurnBudgetAssumption DEF TurnBudgetAssumption, Tick, TypeOK, IterInv, Windows
  <1>3. ASSUME NEW s \in Sessions, Ask(s) PROVE TypeInv'
    BY <1>3, TurnBudgetAssumption DEF TurnBudgetAssumption, Ask, TypeOK, IterInv
  <1>4. ASSUME NEW s \in Sessions, NEW L \in SUBSET Slots, NEW readable \in BOOLEAN,
               Delegate(s, L, readable)
        PROVE  TypeInv'
    <2>1. meter' \in [Sessions -> Meters] /\ faults' \in [reads : Nat, adds : Nat]
      BY <1>4, SeedTyped DEF Delegate
    <2>2. [at |-> "check", iter |-> 0] \in Loops /\ Off \in Loops /\ 0 < MaxIter
      BY TurnBudgetAssumption DEF TurnBudgetAssumption, Loops, Off
    <2>3. loop' \in [Sessions -> [Slots -> Loops]] /\ IterInv'
      <3> DEFINE new == [l \in Slots |-> IF l \in L THEN [at |-> "check", iter |-> 0] ELSE Off]
      <3>1. new \in [Slots -> Loops]
        BY <2>2
      <3>2. loop' = [loop EXCEPT ![s] = new]
        BY <1>4 DEF Delegate
      <3>3. \A l \in Slots : new[l].at \in {"check", "call", "tools"} => new[l].iter < MaxIter
        BY <2>2 DEF Off
      <3> QED  BY <3>1, <3>2, <3>3 DEF TypeOK, IterInv
    <2>4. hops' \in [Sessions -> 0..MaxHops]
      BY <1>4, TurnBudgetAssumption DEF TurnBudgetAssumption, Delegate, TypeOK
    <2>5. /\ phase' \in [Sessions -> {"idle", "supervisor", "run"}]
          /\ \A k \in Sessions : phase'[k] # "run" => loop'[k] = [l \in Slots |-> Off]
      BY <1>4 DEF Delegate, TypeOK
    <2> QED  BY <1>4, <2>1, <2>3, <2>4, <2>5 DEF Delegate, TypeOK
  <1>5. ASSUME NEW s \in Sessions, NEW readable \in BOOLEAN, EndTurn(s, readable)
        PROVE  TypeInv'
    <2>1. meter' \in [Sessions -> Meters] /\ faults' \in [reads : Nat, adds : Nat]
      BY <1>5, SeedTyped DEF EndTurn
    <2> QED  BY <1>5, <2>1 DEF EndTurn, TypeOK, IterInv
  <1>6. ASSUME NEW s \in Sessions, Return(s) PROVE TypeInv'
    <2>1. loop[s] = [l \in Slots |-> Off]
      <3>1. \A l \in Slots : loop[s][l] = Off
        BY <1>6 DEF Return, IterInv
      <3> QED  BY <3>1 DEF TypeOK
    <2> QED  BY <1>6, <2>1 DEF Return, TypeOK, IterInv
  <1>15. ASSUME NEW s \in Sessions, OpenRaises(s) PROVE TypeInv'
    BY <1>15 DEF OpenRaises, TypeOK, IterInv
  <1>7. ASSUME NEW s \in Sessions, NEW l \in Slots, Check(s, l) PROVE TypeInv'
    BY <1>7, Places, GotoTyped, Running DEF Check, TypeOK
  <1>8. ASSUME NEW s \in Sessions, NEW l \in Slots, NEW c \in Costs, NEW stored \in BOOLEAN,
               NEW next \in {"off", "tools"}, Answer(s, l, c, stored, next)
        PROVE  TypeInv'
    <2>1. PICK at : Place(at) /\ Goto(s, l, at)
      BY <1>8, Places DEF Answer
    <2>2. UNCHANGED phase /\ phase[s] = "run" /\ Record(s, c, stored)
      BY <1>8, Running DEF Answer
    <2>3. /\ loop' \in [Sessions -> [Slots -> Loops]]
          /\ IterInv'
          /\ \A k \in Sessions : phase'[k] # "run" => loop'[k] = [j \in Slots |-> Off]
      BY <2>1, <2>2, GotoTyped
    <2>4. /\ spent' \in [Sessions -> Nat] /\ meter' \in [Sessions -> Meters]
          /\ totals' \in [Windows -> Nat] /\ faults' \in [reads : Nat, adds : Nat]
      BY <2>2, RecordTyped
    <2> QED  BY <1>8, <2>3, <2>4 DEF Answer, TypeOK
  <1>9. ASSUME NEW s \in Sessions, NEW l \in Slots, NEW ok \in BOOLEAN, Tools(s, l, ok)
        PROVE  TypeInv'
    <2> DEFINE iter == loop[s][l].iter + 1
               at == IF ok /\ iter < MaxIter THEN "check" ELSE "final"
    <2>1. Place([at |-> at, iter |-> iter])
      <3>1. loop[s][l] \in Loops /\ loop[s][l].iter < MaxIter
        BY <1>9 DEF Tools, TypeOK, IterInv
      <3>2. iter \in 0..MaxIter
        BY <3>1, TurnBudgetAssumption DEF TurnBudgetAssumption, Loops
      <3> QED  BY <3>2 DEF Place, Loops
    <2>2. Goto(s, l, [at |-> at, iter |-> iter])
      BY <1>9 DEF Tools
    <2>3. UNCHANGED phase /\ phase[s] = "run"
      BY <1>9, Running DEF Tools
    <2>4. /\ loop' \in [Sessions -> [Slots -> Loops]]
          /\ IterInv'
          /\ \A k \in Sessions : phase'[k] # "run" => loop'[k] = [j \in Slots |-> Off]
      BY <2>1, <2>2, <2>3, GotoTyped
    <2> QED  BY <1>9, <2>4 DEF Tools, TypeOK
  <1>10. ASSUME NEW s \in Sessions, NEW l \in Slots, NEW c \in Costs, NEW stored \in BOOLEAN,
                FinalAnswer(s, l, c, stored)
         PROVE  TypeInv'
    <2>1. Place(Off) /\ Goto(s, l, Off)
      BY <1>10, Places DEF FinalAnswer
    <2>2. UNCHANGED phase /\ phase[s] = "run" /\ Record(s, c, stored)
      BY <1>10, Running DEF FinalAnswer
    <2>3. /\ loop' \in [Sessions -> [Slots -> Loops]]
          /\ IterInv'
          /\ \A k \in Sessions : phase'[k] # "run" => loop'[k] = [j \in Slots |-> Off]
      BY <2>1, <2>2, GotoTyped
    <2>4. /\ spent' \in [Sessions -> Nat] /\ meter' \in [Sessions -> Meters]
          /\ totals' \in [Windows -> Nat] /\ faults' \in [reads : Nat, adds : Nat]
      BY <2>2, RecordTyped
    <2> QED  BY <1>10, <2>3, <2>4 DEF FinalAnswer, TypeOK
  <1>11. ASSUME NEW s \in Sessions, NEW l \in Slots, CallFails(s, l) PROVE TypeInv'
    BY <1>11, Places, GotoTyped, Running DEF CallFails, TypeOK
  <1>12. ASSUME NEW s \in Sessions, NEW l \in Slots, Raise(s, l) PROVE TypeInv'
    <2>1. loop' \in [Sessions -> [Slots -> Loops]] /\ IterInv'
      BY <1>12, Places DEF Raise, TypeOK, IterInv, Place, Off
    <2>2. /\ phase' \in [Sessions -> {"idle", "supervisor", "run"}]
          /\ \A k \in Sessions : phase'[k] # "run" => loop'[k] = [j \in Slots |-> Off]
      BY <1>12 DEF Raise, TypeOK
    <2> QED  BY <1>12, <2>1, <2>2 DEF Raise, TypeOK
  <1> QED
    BY <1>1, <1>2, <1>3, <1>4, <1>5, <1>6, <1>7, <1>8, <1>9, <1>10, <1>11, <1>12, <1>15
    DEF Next, Supervise, React

LEMMA TypeInit == Init => TypeInv
  BY TurnBudgetAssumption
  DEF TurnBudgetAssumption, Init, TypeInv, TypeOK, IterInv, Meters, Loops, Windows, Off

\* The turns, the meters and the loops are well formed in every scope, and no
\* loop outlives its delegation (supervisor_node, react_loop).
THEOREM TypeCorrect == Spec => []TypeOK
  <1>1. TypeInv => TypeOK
    BY DEF TypeInv
  <1> QED  BY <1>1, TypeInit, TypeStep, PTL DEF Spec

-----------------------------------------------------------------------------
(* What the steps of the meter do, field by field. *)

LEMMA SeedEffect ==
    ASSUME TypeInv, NEW s \in Sessions, NEW readable \in BOOLEAN, Seed(s, readable)
    PROVE  /\ meter'[s].turn = turn[s]
           /\ \A k \in Sessions \ {s} : meter'[k] = meter[k]
           /\ faults'.adds = faults.adds
           /\ Seeded(s) => UNCHANGED <<meter, faults>>
           /\ ~Seeded(s) =>
                /\ meter'[s].window = window /\ meter'[s].usage = Opening(readable)
                /\ IF readable THEN faults'.reads = faults.reads
                                ELSE scope = "tenant" /\ faults'.reads = faults.reads + 1
  <1>1. CASE Seeded(s)
    BY <1>1 DEF Seed, Seeded
  <1>2. CASE ~Seeded(s)
    BY <1>2 DEF Seed, FaultyRead, TypeInv, TypeOK
  <1> QED  BY <1>1, <1>2

\* The store takes the call, and the meter adopts its total; or the meter adds.
LEMMA RecordEffect ==
    ASSUME TypeInv, NEW s \in Sessions, NEW c \in Costs, NEW stored \in BOOLEAN,
           Record(s, c, stored)
    PROVE  /\ spent'[s] = spent[s] + c
           /\ \A k \in Sessions \ {s} : spent'[k] = spent[k] /\ meter'[k] = meter[k]
           /\ meter'[s].turn = meter[s].turn /\ meter'[s].window = meter[s].window
           /\ faults'.reads = faults.reads
           /\ \/ /\ scope = "tenant" /\ UNCHANGED faults
                 /\ totals' = [totals EXCEPT ![meter[s].window] = @ + c]
                 /\ meter'[s].usage = totals[meter[s].window] + c
              \/ /\ UNCHANGED totals /\ meter'[s].usage = meter[s].usage + c
                 /\ scope = "tenant" => faults'.adds # 0
                 /\ faults.adds # 0 => faults'.adds # 0
  <1>1. /\ spent'[s] = spent[s] + c
        /\ \A k \in Sessions \ {s} : spent'[k] = spent[k]
    BY DEF Record, TypeInv, TypeOK
  <1>2. CASE scope = "tenant" /\ stored
    BY <1>1, <1>2 DEF Record, TypeInv, TypeOK, Meters
  <1>3. CASE ~(scope = "tenant" /\ stored)
    BY <1>1, <1>3 DEF Record, TypeInv, TypeOK, Meters
  <1> QED  BY <1>2, <1>3

\* Goto moves one loop.
LEMMA Moved ==
    ASSUME TypeInv, NEW s \in Sessions, NEW l \in Slots, NEW at, Goto(s, l, at),
           NEW k \in Sessions, NEW j \in Slots
    PROVE  loop'[k][j] = IF k = s /\ j = l THEN at ELSE loop[k][j]
  BY DEF Goto, TypeInv, TypeOK

-----------------------------------------------------------------------------
(* The meters. *)

LEMMA MeterQuiet ==
    ASSUME MeterInv, UNCHANGED <<scope, totals, turn, meter, spent, cut, faults>>,
           \A k \in Sessions : phase'[k] = "run" => phase[k] = "run"
    PROVE  MeterInv'
  BY DEF MeterInv, SeedInv, LagInv, CutInv, SpentInv, Failed

\* A seed starts the turn's meter at what the store says, or keeps the turn's.
LEMMA MeterSeed ==
    ASSUME TypeInv, MeterInv, NEW s \in Sessions, NEW readable \in BOOLEAN,
           Seed(s, readable), UNCHANGED <<scope, window, totals, turn, spent, cut>>,
           \A k \in Sessions \ {s} : phase'[k] = phase[k]
    PROVE  MeterInv'
  <1> USE SeedEffect DEF MeterInv
  <1>1. SeedInv'
    BY DEF SeedInv, TypeInv, TypeOK
  <1>2. LagInv'
    BY DEF LagInv, Failed, Opening, TypeInv, TypeOK
  <1>3. CutInv'
    BY DEF CutInv, Failed, Seeded
  <1>4. SpentInv'
    BY DEF SpentInv, Seeded, Opening
  <1> QED  BY <1>1, <1>2, <1>3, <1>4

LEMMA MeterRecord ==
    ASSUME TypeInv, MeterInv, NEW s \in Sessions, NEW c \in Costs,
           NEW stored \in BOOLEAN, Record(s, c, stored), phase[s] = "run",
           UNCHANGED <<scope, turn, cut, phase>>
    PROVE  MeterInv'
  <1> USE DEF MeterInv
  <1>0. c \in Nat
    BY TurnBudgetAssumption DEF TurnBudgetAssumption
  <1>1. /\ totals \in [Windows -> Nat]
        /\ \A k \in Sessions : meter[k].window \in Windows /\ meter[k].usage \in Nat
    BY DEF TypeInv, TypeOK, Meters
  <1>2. SeedInv'
    BY RecordEffect DEF SeedInv
  <1>3. LagInv'
    BY <1>0, <1>1, RecordEffect DEF LagInv, Failed
  <1>4. CutInv'
    <2>1. Limit \in Nat
      BY TurnBudgetAssumption DEF TurnBudgetAssumption
    <2> QED  BY <1>0, <1>1, <2>1, RecordEffect DEF CutInv, LagInv, Failed
  <1>5. SpentInv'
    BY RecordEffect DEF SpentInv, SeedInv
  <1> QED  BY <1>2, <1>3, <1>4, <1>5

\* The meters keep to their turn, their store and their spend.
LEMMA MeterStep == TypeInv /\ MeterInv /\ [Next]_vars => MeterInv'
  <1> SUFFICES ASSUME TypeInv, MeterInv, [Next]_vars PROVE MeterInv'
    OBVIOUS
  <1>1. CASE UNCHANGED vars
    BY <1>1, MeterQuiet DEF vars
  <1>2. CASE Tick
    BY <1>2, MeterQuiet DEF Tick
  <1>3. ASSUME NEW s \in Sessions, Ask(s) PROVE MeterInv'
    <2>1. turn'[s] = turn[s] + 1 /\ spent'[s] = 0 /\ cut'[s] = FALSE
      BY <1>3 DEF Ask, TypeInv, TypeOK
    <2>2. /\ \A k \in Sessions \ {s} : turn'[k] = turn[k] /\ spent'[k] = spent[k] /\ cut'[k] = cut[k]
          /\ \A k \in Sessions : phase'[k] = "run" => phase[k] = "run" /\ k # s
          /\ UNCHANGED <<scope, totals, meter, faults>>
      BY <1>3 DEF Ask, TypeInv, TypeOK
    <2>3. turn[s] \in Nat /\ meter[s].turn \in Nat
      BY DEF TypeInv, TypeOK, Meters
    <2> QED  BY <2>1, <2>2, <2>3 DEF MeterInv, SeedInv, LagInv, CutInv, SpentInv, Failed
  <1>4. ASSUME NEW s \in Sessions, NEW L \in SUBSET Slots, NEW readable \in BOOLEAN,
               Delegate(s, L, readable)
        PROVE  MeterInv'
    BY <1>4, MeterSeed DEF Delegate, TypeInv, TypeOK
  <1>5. ASSUME NEW s \in Sessions, NEW readable \in BOOLEAN, EndTurn(s, readable)
        PROVE  MeterInv'
    BY <1>5, MeterSeed DEF EndTurn, TypeInv, TypeOK
  <1>6. ASSUME NEW s \in Sessions, Return(s) PROVE MeterInv'
    BY <1>6, MeterQuiet DEF Return, TypeInv, TypeOK
  <1>15. ASSUME NEW s \in Sessions, OpenRaises(s) PROVE MeterInv'
    BY <1>15, MeterQuiet DEF OpenRaises, TypeInv, TypeOK
  <1>7. ASSUME NEW s \in Sessions, NEW l \in Slots, Check(s, l) PROVE MeterInv'
    <2>1. CASE HardExceeded(s)
      <3>1. meter[s].turn = turn[s]
        BY <1>7, Running DEF Check, MeterInv, SeedInv
      <3>2. cut' = [cut EXCEPT ![s] = TRUE]
        BY <1>7, <2>1 DEF Check
      <3> QED
        BY <1>7, <2>1, <3>1, <3>2
        DEF Check, HardExceeded, TypeInv, TypeOK, MeterInv, SeedInv, LagInv, CutInv, SpentInv, Failed
    <2>2. CASE ~HardExceeded(s)
      BY <1>7, <2>2, MeterQuiet DEF Check
    <2> QED  BY <2>1, <2>2
  <1>8. ASSUME NEW s \in Sessions, NEW l \in Slots, NEW c \in Costs, NEW stored \in BOOLEAN,
               NEW next \in {"off", "tools"}, Answer(s, l, c, stored, next)
        PROVE  MeterInv'
    BY <1>8, MeterRecord, Running DEF Answer
  <1>9. ASSUME NEW s \in Sessions, NEW l \in Slots, NEW ok \in BOOLEAN, Tools(s, l, ok)
        PROVE  MeterInv'
    BY <1>9, MeterQuiet DEF Tools
  <1>10. ASSUME NEW s \in Sessions, NEW l \in Slots, NEW c \in Costs, NEW stored \in BOOLEAN,
                FinalAnswer(s, l, c, stored)
         PROVE  MeterInv'
    BY <1>10, MeterRecord, Running DEF FinalAnswer
  <1>11. ASSUME NEW s \in Sessions, NEW l \in Slots, CallFails(s, l) PROVE MeterInv'
    BY <1>11, MeterQuiet DEF CallFails
  <1>12. ASSUME NEW s \in Sessions, NEW l \in Slots, Raise(s, l) PROVE MeterInv'
    BY <1>12, MeterQuiet DEF Raise, TypeInv, TypeOK
  <1> QED
    BY <1>1, <1>2, <1>3, <1>4, <1>5, <1>6, <1>7, <1>8, <1>9, <1>10, <1>11, <1>12, <1>15
    DEF Next, Supervise, React

LEMMA MeterInit == Init => MeterInv
  BY TurnBudgetAssumption
  DEF TurnBudgetAssumption, Init, MeterInv, SeedInv, LagInv, CutInv, SpentInv, Failed, Windows

\* A call after a check is begun by Check, below the limit.
LEMMA CallsAreChecked ==
    ASSUME TypeInv, [Next]_vars, NEW s \in Sessions, NEW l \in Slots,
           loop[s][l].at = "check", loop'[s][l].at = "call"
    PROVE  ~HardExceeded(s)
  <1>1. CASE UNCHANGED vars
    BY <1>1 DEF vars
  <1>2. CASE Tick
    BY <1>2 DEF Tick
  <1>3. ASSUME NEW k \in Sessions, Ask(k) PROVE FALSE
    BY <1>3 DEF Ask
  <1>4. ASSUME NEW k \in Sessions, NEW L \in SUBSET Slots, NEW readable \in BOOLEAN,
               Delegate(k, L, readable)
        PROVE  FALSE
    BY <1>4 DEF Delegate, TypeInv, TypeOK, Off
  <1>5. ASSUME NEW k \in Sessions, NEW readable \in BOOLEAN, EndTurn(k, readable) PROVE FALSE
    BY <1>5 DEF EndTurn
  <1>6. ASSUME NEW k \in Sessions, Return(k) PROVE FALSE
    BY <1>6 DEF Return
  <1>15. ASSUME NEW k \in Sessions, OpenRaises(k) PROVE FALSE
    BY <1>15 DEF OpenRaises
  <1>7. ASSUME NEW k \in Sessions, NEW j \in Slots, Check(k, j) PROVE ~HardExceeded(s)
    <2>1. CASE k = s /\ HardExceeded(s)
      BY <1>7, <2>1, Moved DEF Check, Off
    <2>2. CASE k # s
      BY <1>7, <2>2, Moved DEF Check
    <2> QED  BY <2>1, <2>2
  <1>8. ASSUME NEW k \in Sessions, NEW j \in Slots, NEW at, Goto(k, j, at), loop[k][j].at # "check"
        PROVE  FALSE
    BY <1>8, Moved
  <1>9. ASSUME NEW k \in Sessions, NEW j \in Slots, NEW c \in Costs, NEW stored \in BOOLEAN,
               NEW next \in {"off", "tools"}, Answer(k, j, c, stored, next)
        PROVE  FALSE
    BY <1>8, <1>9 DEF Answer
  <1>10. ASSUME NEW k \in Sessions, NEW j \in Slots, NEW ok \in BOOLEAN, Tools(k, j, ok) PROVE FALSE
    BY <1>8, <1>10 DEF Tools
  <1>11. ASSUME NEW k \in Sessions, NEW j \in Slots, NEW c \in Costs, NEW stored \in BOOLEAN,
                FinalAnswer(k, j, c, stored)
         PROVE  FALSE
    BY <1>8, <1>11 DEF FinalAnswer
  <1>12. ASSUME NEW k \in Sessions, NEW j \in Slots, CallFails(k, j) PROVE FALSE
    BY <1>8, <1>12 DEF CallFails
  <1>13. ASSUME NEW k \in Sessions, NEW j \in Slots, Raise(k, j) PROVE FALSE
    BY <1>13 DEF Raise, TypeInv, TypeOK, Off
  <1> QED
    BY <1>1, <1>2, <1>3, <1>4, <1>5, <1>6, <1>7, <1>9, <1>10, <1>11, <1>12, <1>13, <1>15
    DEF Next, Supervise, React

\* The turn that the hard cap has cut off begins no more calls: its meter is not
\* seeded again and never falls below the limit while the store takes every call
\* (maybe_seed_budget_run, TenantCostMeter.record, BudgetGuard.check).
THEOREM CutOffIsFinal == Spec => CutOffStays
  <1> DEFINE A == \A s \in Sessions, l \in Slots :
                     cut[s] /\ turn'[s] = turn[s] /\ faults.adds = 0 /\ loop[s][l].at = "check"
                        => loop'[s][l].at # "call"
  <1>1. TypeInv /\ MeterInv /\ [Next]_vars => A
    BY CallsAreChecked DEF MeterInv, CutInv, Failed, HardExceeded
  <1>2. Spec => [][A]_vars
    BY <1>1, TypeInit, TypeStep, MeterInit, MeterStep, PTL DEF Spec
  <1> QED  BY <1>2 DEF CutOffStays

-----------------------------------------------------------------------------
(* Arithmetic and the number of tokens. *)

LEMMA TimesMonotone ==
    ASSUME NEW m \in Nat, NEW a \in Nat, NEW b \in Nat, a <= b
    PROVE  m * a \in Nat /\ m * b \in Nat /\ m * a <= m * b
  <1>1. PICK d \in Nat : b = a + d
    <2>1. b - a \in Nat /\ b = a + (b - a)
      OBVIOUS
    <2> QED  BY <2>1
  <1>2. m * b = m * a + m * d /\ m * d \in Nat
    BY <1>1
  <1>3. m * a \in Nat /\ m * b \in Nat
    OBVIOUS
  <1> QED  BY <1>2, <1>3

\* One token less pays for one call.
LEMMA OneTokenPays ==
    ASSUME NEW m \in Nat, NEW a \in Nat, NEW b \in Nat, a < b, NEW c \in 0..m
    PROVE  m * a \in Nat /\ m * b \in Nat /\ m * a + c <= m * b
  <1>1. m * (a + 1) <= m * b /\ m * a \in Nat /\ m * b \in Nat
    BY TimesMonotone
  <1>2. m * (a + 1) = m * a + m
    OBVIOUS
  <1> QED  BY <1>1, <1>2

\* A smaller set of tokens has fewer of them.
LEMMA Fewer ==
    ASSUME NEW S, IsFiniteSet(S), NEW T \in SUBSET S
    PROVE  /\ Cardinality(S) \in Nat /\ Cardinality(T) \in Nat
           /\ Cardinality(T) <= Cardinality(S)
           /\ \A x \in S : x \notin T => Cardinality(T) < Cardinality(S)
  <1>1. Cardinality(S) \in Nat /\ Cardinality(T) \in Nat /\ Cardinality(T) <= Cardinality(S)
    BY FS_Subset, FS_CardinalityType
  <1>2. ASSUME NEW x \in S, x \notin T PROVE Cardinality(T) < Cardinality(S)
    <2>1. IsFiniteSet(S \ {x}) /\ Cardinality(S \ {x}) = Cardinality(S) - 1
      BY FS_RemoveElement
    <2>2. T \in SUBSET (S \ {x})
      BY <1>2
    <2>3. Cardinality(T) <= Cardinality(S \ {x})
      BY <2>1, <2>2, FS_Subset
    <2> QED  BY <1>1, <2>1, <2>3
  <1> QED  BY <1>1, <1>2

LEMMA TokenSetSize ==
    /\ IsFiniteSet(TokenSet) /\ Cardinality(TokenSet) \in Nat
    /\ Cardinality(TokenSet) = 2 * Cardinality(Slots)
    /\ IsFiniteSet(Sessions \X TokenSet) /\ Cardinality(Sessions) \in Nat
    /\ Cardinality(Sessions \X TokenSet) = Cardinality(TokenSet) * Cardinality(Sessions)
  <1>1. /\ IsFiniteSet(Slots) /\ Cardinality(Slots) \in Nat
        /\ IsFiniteSet(Sessions) /\ Cardinality(Sessions) \in Nat
    BY TurnBudgetAssumption, FS_CardinalityType DEF TurnBudgetAssumption
  <1>2. IsFiniteSet({1, 2}) /\ Cardinality({1, 2}) = 2
    <2>1. {1, 2} = {1} \cup {2} /\ 2 \notin {1}
      OBVIOUS
    <2>2. IsFiniteSet({1}) /\ Cardinality({1}) = 1
      BY FS_Singleton
    <2>3. IsFiniteSet({1} \cup {2}) /\ Cardinality({1} \cup {2}) = Cardinality({1}) + 1
      BY <2>1, <2>2, FS_AddElement
    <2> QED  BY <2>1, <2>2, <2>3
  <1>3. IsFiniteSet(TokenSet) /\ Cardinality(TokenSet) = Cardinality(Slots) * 2
    BY <1>1, <1>2, FS_Product DEF TokenSet
  <1>4. /\ IsFiniteSet(Sessions \X TokenSet)
        /\ Cardinality(Sessions \X TokenSet) = Cardinality(Sessions) * Cardinality(TokenSet)
    BY <1>1, <1>3, FS_Product
  <1> QED  BY <1>1, <1>3, <1>4

\* Below the limit every token is covered.
LEMMA TurnBound ==
    ASSUME NEW sp \in Nat, sp < Limit, NEW T \in SUBSET TokenSet
    PROVE  sp + MaxCost * Cardinality(T) < Limit + MaxCost * Cardinality(TokenSet)
  <1>1. /\ Cardinality(T) \in Nat /\ Cardinality(TokenSet) \in Nat
        /\ Cardinality(T) <= Cardinality(TokenSet)
    BY TokenSetSize, Fewer
  <1>2. MaxCost \in Nat /\ Limit \in Nat
    BY TurnBudgetAssumption DEF TurnBudgetAssumption
  <1>3. /\ MaxCost * Cardinality(T) \in Nat /\ MaxCost * Cardinality(TokenSet) \in Nat
        /\ MaxCost * Cardinality(T) <= MaxCost * Cardinality(TokenSet)
    BY <1>1, <1>2, TimesMonotone
  <1> QED  BY <1>2, <1>3

WindowTotal(r) == Cardinality(TokenSet) * (Cardinality(Sessions) + r)

LEMMA WindowBound ==
    ASSUME NEW v \in Nat, v < Limit, NEW T \in SUBSET (Sessions \X TokenSet), NEW r \in Nat
    PROVE  v + MaxCost * Cardinality(T) < Limit + MaxCost * WindowTotal(r)
  <1>1. /\ Cardinality(T) \in Nat
        /\ Cardinality(T) <= Cardinality(TokenSet) * Cardinality(Sessions)
    BY TokenSetSize, Fewer
  <1>2. /\ WindowTotal(r) \in Nat
        /\ Cardinality(TokenSet) * Cardinality(Sessions) \in Nat
        /\ Cardinality(TokenSet) * Cardinality(Sessions) <= WindowTotal(r)
    BY TokenSetSize, TimesMonotone DEF WindowTotal
  <1>3. MaxCost \in Nat /\ Limit \in Nat
    BY TurnBudgetAssumption DEF TurnBudgetAssumption
  <1>4. /\ MaxCost * Cardinality(T) \in Nat /\ MaxCost * WindowTotal(r) \in Nat
        /\ MaxCost * Cardinality(T) <= MaxCost * WindowTotal(r)
    BY <1>1, <1>2, <1>3, TimesMonotone
  <1> QED  BY <1>3, <1>4

-----------------------------------------------------------------------------
(* Credit. *)

\* A step that spends nothing and frees no token keeps the credit.
LEMMA CreditKept ==
    ASSUME TypeInv, TypeInv', CreditInv, UNCHANGED <<scope, totals>>,
           faults'.reads >= faults.reads,
           \A k \in Sessions : /\ spent'[k] <= spent[k]
                               /\ meter'[k].window = meter[k].window
                               /\ Tokens(k)' \subseteq Tokens(k)
    PROVE  CreditInv'
  <1>0. MaxCost \in Nat /\ Limit \in Nat
    BY TurnBudgetAssumption DEF TurnBudgetAssumption
  <1>1. TurnCredit'
    <2> SUFFICES ASSUME scope # "tenant", NEW k \in Sessions
                 PROVE  spent'[k] + MaxCost * Cardinality(Tokens(k)')
                            < Limit + MaxCost * Cardinality(TokenSet)
      BY DEF TurnCredit, TokenSet
    <2>1. spent[k] \in Nat /\ spent'[k] \in Nat
      BY DEF TypeInv, TypeOK
    <2>2. Tokens(k) \in SUBSET TokenSet
      BY DEF Tokens
    <2>3. IsFiniteSet(Tokens(k)) /\ Tokens(k)' \in SUBSET Tokens(k)
      BY <2>2, TokenSetSize, FS_Subset
    <2>4. /\ Cardinality(Tokens(k)') \in Nat /\ Cardinality(Tokens(k)) \in Nat
          /\ Cardinality(Tokens(k)') <= Cardinality(Tokens(k))
      BY <2>3, Fewer
    <2>5. /\ MaxCost * Cardinality(Tokens(k)') \in Nat
          /\ MaxCost * Cardinality(Tokens(k)) \in Nat
          /\ MaxCost * Cardinality(Tokens(k)') <= MaxCost * Cardinality(Tokens(k))
      BY <1>0, <2>4, TimesMonotone
    <2>6. MaxCost * Cardinality(TokenSet) \in Nat
      BY <1>0, TokenSetSize
    <2>7. spent[k] + MaxCost * Cardinality(Tokens(k)) < Limit + MaxCost * Cardinality(TokenSet)
      BY DEF CreditInv, TurnCredit
    <2> QED  BY <1>0, <2>1, <2>5, <2>6, <2>7
  <1>2. TenantCredit'
    <2> SUFFICES ASSUME NEW w \in Windows
                 PROVE  totals[w] + MaxCost * Cardinality(WindowTokens(w)')
                            < Limit + MaxCost * WindowTotal(faults'.reads)
      BY DEF TenantCredit, TokenSet, WindowTotal
    <2>1. totals[w] \in Nat /\ faults.reads \in Nat /\ faults'.reads \in Nat
      BY DEF TypeInv, TypeOK
    <2>2. WindowTokens(w)' \in SUBSET WindowTokens(w) /\ WindowTokens(w) \in SUBSET (Sessions \X TokenSet)
      BY DEF WindowTokens, TokenSet
    <2>3. IsFiniteSet(WindowTokens(w))
      BY <2>2, TokenSetSize, FS_Subset
    <2>4. /\ Cardinality(WindowTokens(w)') \in Nat /\ Cardinality(WindowTokens(w)) \in Nat
          /\ Cardinality(WindowTokens(w)') <= Cardinality(WindowTokens(w))
      BY <2>2, <2>3, Fewer
    <2>5. /\ WindowTotal(faults.reads) \in Nat /\ WindowTotal(faults'.reads) \in Nat
          /\ WindowTotal(faults.reads) <= WindowTotal(faults'.reads)
      BY <2>1, TokenSetSize, TimesMonotone DEF WindowTotal
    <2>6. /\ MaxCost * Cardinality(WindowTokens(w)') \in Nat
          /\ MaxCost * Cardinality(WindowTokens(w)) \in Nat
          /\ MaxCost * Cardinality(WindowTokens(w)') <= MaxCost * Cardinality(WindowTokens(w))
          /\ MaxCost * WindowTotal(faults.reads) \in Nat
          /\ MaxCost * WindowTotal(faults'.reads) \in Nat
          /\ MaxCost * WindowTotal(faults.reads) <= MaxCost * WindowTotal(faults'.reads)
      BY <1>0, <2>4, <2>5, TimesMonotone
    <2>7. totals[w] + MaxCost * Cardinality(WindowTokens(w))
              < Limit + MaxCost * WindowTotal(faults.reads)
      BY DEF CreditInv, TenantCredit, WindowTotal
    <2> QED  BY <1>0, <2>1, <2>6, <2>7
  <1> QED  BY <1>1, <1>2 DEF CreditInv

\* An answer uses a token up, unless the meter is still below the limit.
LEMMA AnswerTakesToken ==
    ASSUME TypeInv, NEW s \in Sessions, NEW l \in Slots, loop[s][l].at \in {"call", "final"},
           NEW at, Goto(s, l, at), at.at \in {"off", "tools"},
           loop[s][l].at = "final" => at.at = "off",
           meter'[s].usage >= Limit, meter'[s].usage \in Nat
    PROVE  \E x \in Tokens(s) : Tokens(s)' \subseteq Tokens(s) \ {x}
  <1>1. Limit \in Nat
    BY TurnBudgetAssumption DEF TurnBudgetAssumption
  <1>2. \A j \in Slots : loop'[s][j] = IF j = l THEN at ELSE loop[s][j]
    BY Moved
  <1>3. CASE loop[s][l].at = "call"
    <2>1. <<l, 2>> \in Tokens(s)
      BY <1>3 DEF Tokens, TokenSet, Calling
    <2>2. \A t \in Tokens(s)' : t \in Tokens(s) /\ t # <<l, 2>>
      <3> SUFFICES ASSUME NEW j \in Slots, NEW n \in {1, 2}, <<j, n>> \in Tokens(s)'
                   PROVE  <<j, n>> \in Tokens(s) /\ <<j, n>> # <<l, 2>>
        BY DEF Tokens, TokenSet
      <3>1. \/ n = 1 /\ loop'[s][j].at \in Busy
            \/ n = 2 /\ loop'[s][j].at \in Calling
        BY <1>1 DEF Tokens
      <3> QED  BY <1>2, <1>3, <3>1 DEF Tokens, TokenSet, Busy, Calling
    <2> QED  BY <2>1, <2>2
  <1>4. CASE loop[s][l].at = "final"
    <2>1. <<l, 1>> \in Tokens(s)
      BY <1>4 DEF Tokens, TokenSet, Busy
    <2>2. \A t \in Tokens(s)' : t \in Tokens(s) /\ t # <<l, 1>>
      <3> SUFFICES ASSUME NEW j \in Slots, NEW n \in {1, 2}, <<j, n>> \in Tokens(s)'
                   PROVE  <<j, n>> \in Tokens(s) /\ <<j, n>> # <<l, 1>>
        BY DEF Tokens, TokenSet
      <3>1. \/ n = 1 /\ loop'[s][j].at \in Busy
            \/ n = 2 /\ loop'[s][j].at \in Calling
        BY <1>1 DEF Tokens
      <3> QED  BY <1>2, <1>4, <3>1 DEF Tokens, TokenSet, Busy, Calling
    <2> QED  BY <2>1, <2>2
  <1> QED  BY <1>3, <1>4

\* The other sessions' tokens, when one session's meter and loops change.
LEMMA OthersTokens ==
    ASSUME TypeInv, NEW s \in Sessions, NEW k \in Sessions \ {s},
           meter'[k] = meter[k], loop'[k] = loop[k]
    PROVE  Tokens(k)' = Tokens(k)
  BY DEF Tokens, TokenSet

\* A call that costs c is paid for by a token, or costs nothing.
LEMMA Paid ==
    ASSUME NEW S, IsFiniteSet(S), NEW T \in SUBSET S, NEW U \in SUBSET T,
           NEW v \in Nat, NEW c \in 0..MaxCost, NEW bound \in Nat,
           c = 0 \/ \E x \in T : x \notin U,
           v + MaxCost * Cardinality(T) < bound
    PROVE  v + c + MaxCost * Cardinality(U) < bound
  <1>0. MaxCost \in Nat
    BY TurnBudgetAssumption DEF TurnBudgetAssumption
  <1>1. IsFiniteSet(T)
    BY FS_Subset
  <1>2. /\ Cardinality(U) \in Nat /\ Cardinality(T) \in Nat
        /\ Cardinality(U) <= Cardinality(T)
        /\ c = 0 \/ Cardinality(U) < Cardinality(T)
    BY <1>1, Fewer
  <1>3. CASE c = 0
    <2>1. /\ MaxCost * Cardinality(U) \in Nat /\ MaxCost * Cardinality(T) \in Nat
          /\ MaxCost * Cardinality(U) <= MaxCost * Cardinality(T)
      BY <1>0, <1>2, TimesMonotone
    <2> QED  BY <1>3, <2>1
  <1>4. CASE Cardinality(U) < Cardinality(T)
    <2>1. /\ MaxCost * Cardinality(U) \in Nat /\ MaxCost * Cardinality(T) \in Nat
          /\ MaxCost * Cardinality(U) + c <= MaxCost * Cardinality(T)
      BY <1>0, <1>2, <1>4, OneTokenPays
    <2> QED  BY <2>1
  <1> QED  BY <1>2, <1>3, <1>4

\* The two bounds are numbers.
LEMMA Bounds ==
    /\ Limit + MaxCost * Cardinality(TokenSet) \in Nat
    /\ \A r \in Nat : Limit + MaxCost * WindowTotal(r) \in Nat
  <1>1. MaxCost \in Nat /\ Limit \in Nat
    BY TurnBudgetAssumption DEF TurnBudgetAssumption
  <1>2. \A r \in Nat : WindowTotal(r) \in Nat
    BY TokenSetSize, TimesMonotone DEF WindowTotal
  <1>3. \A n \in Nat : MaxCost * n \in Nat
    BY <1>1
  <1> QED  BY <1>1, <1>2, <1>3, TokenSetSize

\* The same for the tokens of a session and for those of a window.
LEMMA PaidTurn ==
    ASSUME NEW T \in SUBSET TokenSet, NEW U \in SUBSET T, \E x \in T : x \notin U,
           NEW v \in Nat, NEW c \in 0..MaxCost,
           v + MaxCost * Cardinality(T) < Limit + MaxCost * Cardinality(TokenSet)
    PROVE  v + c + MaxCost * Cardinality(U) < Limit + MaxCost * Cardinality(TokenSet)
  <1> DEFINE bound == Limit + MaxCost * Cardinality(TokenSet)
  <1>1. bound \in Nat /\ v + MaxCost * Cardinality(T) < bound /\ IsFiniteSet(TokenSet)
    BY Bounds, TokenSetSize
  <1> HIDE DEF bound
  <1>2. v + c + MaxCost * Cardinality(U) < bound
    BY <1>1, Paid
  <1> QED  BY <1>2 DEF bound

LEMMA PaidWindow ==
    ASSUME NEW T \in SUBSET (Sessions \X TokenSet), NEW U \in SUBSET T,
           NEW v \in Nat, NEW c \in 0..MaxCost, NEW r \in Nat,
           c = 0 \/ \E x \in T : x \notin U,
           v + MaxCost * Cardinality(T) < Limit + MaxCost * WindowTotal(r)
    PROVE  v + c + MaxCost * Cardinality(U) < Limit + MaxCost * WindowTotal(r)
  <1> DEFINE bound == Limit + MaxCost * WindowTotal(r)
             all == Sessions \X TokenSet
  <1>1. bound \in Nat /\ v + MaxCost * Cardinality(T) < bound
    BY Bounds
  <1>2. IsFiniteSet(all) /\ T \in SUBSET all
    BY TokenSetSize
  <1> HIDE DEF bound, all
  <1>3. v + c + MaxCost * Cardinality(U) < bound
    BY <1>1, <1>2, Paid
  <1> QED  BY <1>3 DEF bound

LEMMA CreditAnswer ==
    ASSUME TypeInv, TypeInv', MeterInv, CreditInv, NEW s \in Sessions, NEW l \in Slots,
           NEW c \in Costs, NEW stored \in BOOLEAN, Record(s, c, stored),
           loop[s][l].at \in {"call", "final"}, NEW at, Goto(s, l, at),
           at.at \in {"off", "tools"}, loop[s][l].at = "final" => at.at = "off",
           UNCHANGED scope
    PROVE  CreditInv'
  <1>0. c \in 0..MaxCost /\ Limit \in Nat /\ MaxCost \in Nat
    BY TurnBudgetAssumption DEF TurnBudgetAssumption
  <1>1. /\ meter[s].usage \in Nat /\ meter'[s].usage \in Nat
        /\ meter[s].window \in Windows /\ faults.reads \in Nat
        /\ \A k \in Sessions : spent[k] \in Nat
        /\ \A w \in Windows : totals[w] \in Nat
    BY DEF TypeInv, TypeOK, Meters
  <1>2. \A k \in Sessions \ {s} : Tokens(k)' = Tokens(k)
    <2>1. \A k \in Sessions \ {s} : loop'[k] = loop[k]
      BY DEF Goto, TypeInv, TypeOK
    <2> QED  BY <2>1, RecordEffect, OthersTokens
  <1>3. meter'[s].usage >= Limit => \E x \in Tokens(s) : Tokens(s)' \subseteq Tokens(s) \ {x}
    BY <1>1, AnswerTakesToken
  <1>4. \A k \in Sessions : Tokens(k) \in SUBSET TokenSet /\ Tokens(k)' \in SUBSET TokenSet
    BY DEF Tokens, TokenSet
  <1>5. TurnCredit'
    <2> SUFFICES ASSUME scope # "tenant", NEW k \in Sessions
                 PROVE  spent'[k] + MaxCost * Cardinality(Tokens(k)')
                            < Limit + MaxCost * Cardinality(TokenSet)
      BY DEF TurnCredit, TokenSet
    <2>1. spent[k] + MaxCost * Cardinality(Tokens(k)) < Limit + MaxCost * Cardinality(TokenSet)
      BY DEF CreditInv, TurnCredit
    <2>2. CASE k # s
      BY <1>2, <2>1, <2>2, RecordEffect
    <2>3. CASE k = s /\ meter'[s].usage < Limit
      <3>1. spent'[s] = meter'[s].usage
        <4>1. meter[s].usage = spent[s]
          BY Running DEF MeterInv, SeedInv, SpentInv
        <4> QED  BY <4>1, RecordEffect
      <3> QED  BY <1>1, <1>4, <2>3, <3>1, TurnBound
    <2>4. CASE k = s /\ meter'[s].usage >= Limit
      <3>1. PICK x \in Tokens(s) : Tokens(s)' \subseteq Tokens(s) \ {x}
        BY <1>3, <2>4
      <3>2. spent[s] + c + MaxCost * Cardinality(Tokens(s)')
                < Limit + MaxCost * Cardinality(TokenSet)
        <4>1. Tokens(s) \in SUBSET TokenSet /\ Tokens(s)' \in SUBSET Tokens(s)
          BY <1>4, <3>1
        <4>2. \E y \in Tokens(s) : y \notin Tokens(s)'
          BY <3>1
        <4>3. spent[s] + MaxCost * Cardinality(Tokens(s)) < Limit + MaxCost * Cardinality(TokenSet)
          BY <2>1, <2>4
        <4>4. spent[s] \in Nat
          BY <1>1
        <4> QED  BY <1>0, <4>1, <4>2, <4>3, <4>4, PaidTurn
      <3> QED  BY <2>4, <3>2, RecordEffect
    <2> QED  BY <1>0, <1>1, <2>2, <2>3, <2>4
  <1>6. TenantCredit'
    <2> SUFFICES ASSUME NEW w \in Windows
                 PROVE  totals'[w] + MaxCost * Cardinality(WindowTokens(w)')
                            < Limit + MaxCost * WindowTotal(faults.reads)
      BY RecordEffect DEF TenantCredit, TokenSet, WindowTotal
    <2>1. /\ WindowTokens(w) \in SUBSET (Sessions \X TokenSet)
          /\ WindowTokens(w)' \in SUBSET (Sessions \X TokenSet)
      BY DEF WindowTokens, TokenSet
    <2>2. totals[w] + MaxCost * Cardinality(WindowTokens(w))
              < Limit + MaxCost * WindowTotal(faults.reads)
      BY DEF CreditInv, TenantCredit, WindowTotal
    <2>3. \A k \in Sessions : meter'[k].window = meter[k].window
      BY RecordEffect
    <2>4. ASSUME Tokens(s)' \subseteq Tokens(s) \/ meter[s].window # w, totals'[w] = totals[w]
          PROVE  totals'[w] + MaxCost * Cardinality(WindowTokens(w)')
                     < Limit + MaxCost * WindowTotal(faults.reads)
      <3>1. WindowTokens(w)' \in SUBSET WindowTokens(w)
        BY <1>2, <2>3, <2>4 DEF WindowTokens, TokenSet
      <3>2. totals[w] + 0 + MaxCost * Cardinality(WindowTokens(w)')
                < Limit + MaxCost * WindowTotal(faults.reads)
        <4>1. 0 \in 0..MaxCost /\ totals[w] \in Nat /\ faults.reads \in Nat
          BY <1>0, <1>1
        <4> QED  BY <2>1, <2>2, <3>1, <4>1, PaidWindow
      <3> QED  BY <1>1, <2>4, <3>2
    <2>5. CASE UNCHANGED totals /\ meter'[s].usage = meter[s].usage + c
      <3>1. Tokens(s)' \subseteq Tokens(s)
        <4>1. CASE meter'[s].usage >= Limit
          BY <1>3, <4>1
        <4>2. CASE meter'[s].usage < Limit
          <5>1. meter[s].usage < Limit
            BY <1>0, <1>1, <2>5, <4>2
          <5> QED  BY <1>4, <5>1 DEF Tokens
        <4> QED  BY <1>0, <1>1, <4>1, <4>2
      <3> QED  BY <2>4, <2>5, <3>1
    <2>6. CASE /\ totals' = [totals EXCEPT ![meter[s].window] = @ + c]
               /\ meter'[s].usage = totals[meter[s].window] + c
      <3>1. CASE meter[s].window # w
        BY <2>4, <2>6, <3>1 DEF TypeInv, TypeOK
      <3>2. CASE meter[s].window = w
        <4>1. totals'[w] = totals[w] + c /\ totals'[w] = meter'[s].usage
          BY <2>6, <3>2 DEF TypeInv, TypeOK
        <4>2. CASE totals'[w] < Limit
          <5>1. totals'[w] \in Nat
            BY <1>1, <4>1
          <5> QED  BY <1>1, <2>1, <4>2, <5>1, WindowBound
        <4>3. CASE totals'[w] >= Limit
          <5>1. PICK x \in Tokens(s) : Tokens(s)' \subseteq Tokens(s) \ {x}
            BY <1>3, <4>1, <4>3
          <5>2. <<s, x>> \in WindowTokens(w)
            BY <1>4, <3>2, <5>1 DEF WindowTokens
          <5>3. WindowTokens(w)' \in SUBSET WindowTokens(w) /\ <<s, x>> \notin WindowTokens(w)'
            BY <1>2, <2>3, <3>2, <5>1 DEF WindowTokens, TokenSet
          <5>4. totals[w] + c + MaxCost * Cardinality(WindowTokens(w)')
                    < Limit + MaxCost * WindowTotal(faults.reads)
            <6>1. totals[w] \in Nat /\ faults.reads \in Nat /\ c \in 0..MaxCost
              BY <1>0, <1>1
            <6>2. \E y \in WindowTokens(w) : y \notin WindowTokens(w)'
              BY <5>2, <5>3
            <6> QED  BY <2>1, <2>2, <5>3, <6>1, <6>2, PaidWindow
          <5> QED  BY <4>1, <5>4
        <4> QED  BY <1>0, <1>1, <4>1, <4>2, <4>3
      <3> QED  BY <3>1, <3>2
    <2> QED  BY <2>5, <2>6, RecordEffect
  <1> QED  BY <1>5, <1>6 DEF CreditInv

\* One more seed from zero brings one session's tokens and its share of the bound.
LEMMA SharesAdd ==
    ASSUME NEW r \in Nat, NEW a \in Nat, NEW b \in Nat, a <= b + Cardinality(TokenSet)
    PROVE  /\ MaxCost * a <= MaxCost * b + MaxCost * Cardinality(TokenSet)
           /\ MaxCost * WindowTotal(r + 1) = MaxCost * WindowTotal(r) + MaxCost * Cardinality(TokenSet)
           /\ MaxCost * a \in Nat /\ MaxCost * b \in Nat
           /\ MaxCost * WindowTotal(r) \in Nat /\ MaxCost * Cardinality(TokenSet) \in Nat
  <1> DEFINE n == Cardinality(TokenSet)
             u == Cardinality(Sessions)
  <1>0. MaxCost \in Nat /\ n \in Nat /\ u \in Nat
    BY TurnBudgetAssumption, TokenSetSize DEF TurnBudgetAssumption
  <1> HIDE DEF n, u
  <1>1. MaxCost * a <= MaxCost * (b + n) /\ MaxCost * a \in Nat
    BY <1>0, TimesMonotone DEF n
  <1>2. MaxCost * (b + n) = MaxCost * b + MaxCost * n
    BY <1>0
  <1>3. n * (u + (r + 1)) = n * (u + r) + n
    BY <1>0
  <1>4. WindowTotal(r + 1) = WindowTotal(r) + n /\ WindowTotal(r) \in Nat
    <2>1. n * (u + r) \in Nat
      BY <1>0
    <2> QED  BY <1>3, <2>1 DEF WindowTotal, n, u
  <1>5. MaxCost * (WindowTotal(r) + n) = MaxCost * WindowTotal(r) + MaxCost * n
    BY <1>0, <1>4
  <1>6. MaxCost * b \in Nat /\ MaxCost * WindowTotal(r) \in Nat /\ MaxCost * n \in Nat
    BY <1>0, <1>4
  <1> QED  BY <1>1, <1>2, <1>4, <1>5, <1>6 DEF n

LEMMA CreditSeed ==
    ASSUME TypeInv, TypeInv', MeterInv, CreditInv, NEW s \in Sessions,
           NEW readable \in BOOLEAN, Seed(s, readable),
           UNCHANGED <<scope, window, totals, turn, spent>>,
           \A l \in Slots : loop'[s][l].at \in {"off", "check"},
           \A k \in Sessions \ {s} : loop'[k] = loop[k]
    PROVE  CreditInv'
  <1>0. Limit \in Nat /\ Limit > 0 /\ MaxCost \in Nat
    BY TurnBudgetAssumption DEF TurnBudgetAssumption
  <1>1. /\ meter[s].usage \in Nat /\ meter'[s].usage \in Nat
        /\ faults.reads \in Nat /\ faults'.reads \in Nat
        /\ \A k \in Sessions : spent[k] \in Nat
        /\ \A w \in Windows : totals[w] \in Nat
    BY DEF TypeInv, TypeOK, Meters
  <1>2. \A k \in Sessions \ {s} : Tokens(k)' = Tokens(k) /\ meter'[k] = meter[k]
    BY SeedEffect, OthersTokens
  <1>3. \A k \in Sessions : Tokens(k) \in SUBSET TokenSet /\ Tokens(k)' \in SUBSET TokenSet
    BY DEF Tokens, TokenSet
  <1>4. meter'[s].usage >= Limit => Tokens(s)' = {}
    BY <1>0, <1>1 DEF Tokens, TokenSet, Busy, Calling
  <1>5. faults'.reads >= faults.reads
    BY <1>1, SeedEffect
  <1>6. CASE Seeded(s)
    <2>1. UNCHANGED <<meter, faults>>
      BY <1>6, SeedEffect
    <2>2. Tokens(s)' \subseteq Tokens(s)
      <3>1. CASE meter'[s].usage >= Limit
        BY <1>4, <3>1
      <3>2. CASE meter[s].usage < Limit
        BY <1>3, <3>2 DEF Tokens
      <3> QED  BY <1>0, <1>1, <2>1, <3>1, <3>2
    <2>3. \A k \in Sessions : /\ spent'[k] <= spent[k]
                              /\ meter'[k].window = meter[k].window
                              /\ Tokens(k)' \subseteq Tokens(k)
      BY <1>1, <1>2, <2>1, <2>2
    <2> QED  BY <1>5, <2>3, CreditKept
  <1>7. CASE ~Seeded(s)
    <2>1. TurnCredit'
      <3> SUFFICES ASSUME scope # "tenant", NEW k \in Sessions
                   PROVE  spent[k] + MaxCost * Cardinality(Tokens(k)')
                              < Limit + MaxCost * Cardinality(TokenSet)
        BY DEF TurnCredit, TokenSet
      <3>1. CASE k # s
        BY <1>2, <3>1 DEF CreditInv, TurnCredit
      <3>2. CASE k = s
        <4>1. spent[s] = 0
          BY <1>7 DEF MeterInv, SpentInv, Seeded
        <4> QED  BY <1>0, <1>3, <3>2, <4>1, TurnBound
      <3> QED  BY <3>1, <3>2
    <2>2. TenantCredit'
      <3> SUFFICES ASSUME NEW w \in Windows
                   PROVE  totals[w] + MaxCost * Cardinality(WindowTokens(w)')
                              < Limit + MaxCost * WindowTotal(faults'.reads)
        BY DEF TenantCredit, TokenSet, WindowTotal
      <3>1. /\ WindowTokens(w) \in SUBSET (Sessions \X TokenSet)
            /\ WindowTokens(w)' \in SUBSET (Sessions \X TokenSet)
        BY DEF WindowTokens, TokenSet
      <3>2. totals[w] + MaxCost * Cardinality(WindowTokens(w))
                < Limit + MaxCost * WindowTotal(faults.reads)
        BY DEF CreditInv, TenantCredit, WindowTotal
      <3>3. CASE totals[w] < Limit
        BY <1>1, <3>1, <3>3, WindowBound
      <3>4. ASSUME meter'[s].window # w \/ Tokens(s)' = {}
            PROVE  totals[w] + MaxCost * Cardinality(WindowTokens(w)')
                       < Limit + MaxCost * WindowTotal(faults'.reads)
        <4>1. WindowTokens(w)' \in SUBSET WindowTokens(w)
          BY <1>2, <3>4 DEF WindowTokens, TokenSet
        <4>2. totals[w] + 0 + MaxCost * Cardinality(WindowTokens(w)')
                  < Limit + MaxCost * WindowTotal(faults.reads)
          BY <1>0, <1>1, <3>1, <3>2, <4>1, TokenSetSize, Bounds, Paid
        <4>3. /\ WindowTotal(faults.reads) \in Nat /\ WindowTotal(faults'.reads) \in Nat
              /\ WindowTotal(faults.reads) <= WindowTotal(faults'.reads)
          BY <1>1, <1>5, TokenSetSize, TimesMonotone DEF WindowTotal
        <4>4. /\ MaxCost * WindowTotal(faults.reads) \in Nat
              /\ MaxCost * WindowTotal(faults'.reads) \in Nat
              /\ MaxCost * WindowTotal(faults.reads) <= MaxCost * WindowTotal(faults'.reads)
          BY <1>0, <4>3, TimesMonotone
        <4>5. /\ Cardinality(WindowTokens(w)') \in Nat
              /\ MaxCost * Cardinality(WindowTokens(w)') \in Nat
          BY <1>0, <3>1, TokenSetSize, Fewer
        <4> QED  BY <1>0, <1>1, <4>2, <4>4, <4>5
      <3>5. CASE totals[w] >= Limit /\ meter'[s].window = w /\ Tokens(s)' # {}
        <4>1. scope = "tenant"
          BY <1>0, <3>5 DEF MeterInv, SpentInv
        <4>2. w = window /\ ~readable
          BY <1>0, <1>1, <1>4, <1>7, <3>5, <4>1, SeedEffect DEF Opening
        <4>3. faults'.reads = faults.reads + 1
          BY <1>7, <4>2, SeedEffect
        <4>4. WindowTokens(w)' \subseteq WindowTokens(w) \cup ({s} \X TokenSet)
          BY <1>2, <1>3 DEF WindowTokens, TokenSet
        <4>5. /\ Cardinality(WindowTokens(w)) \in Nat /\ Cardinality(WindowTokens(w)') \in Nat
              /\ Cardinality(WindowTokens(w)') <= Cardinality(WindowTokens(w)) + Cardinality(TokenSet)
          <5>1. IsFiniteSet({s}) /\ Cardinality({s}) = 1
            BY FS_Singleton
          <5>2. /\ IsFiniteSet({s} \X TokenSet)
                /\ Cardinality({s} \X TokenSet) = Cardinality({s}) * Cardinality(TokenSet)
            BY <5>1, TokenSetSize, FS_Product
          <5>3. Cardinality({s} \X TokenSet) = Cardinality(TokenSet)
            BY <5>1, <5>2, TokenSetSize
          <5>4. IsFiniteSet(WindowTokens(w))
            BY <3>1, TokenSetSize, FS_Subset
          <5> DEFINE B == WindowTokens(w) \cup ({s} \X TokenSet)
                     I == WindowTokens(w) \cap ({s} \X TokenSet)
          <5>5. IsFiniteSet(I) /\ Cardinality(I) \in Nat
            BY <5>4, FS_Intersection, FS_CardinalityType
          <5>6. /\ IsFiniteSet(B)
                /\ Cardinality(B) = Cardinality(WindowTokens(w)) + Cardinality({s} \X TokenSet) - Cardinality(I)
            BY <5>2, <5>4, FS_Union
          <5>7. Cardinality(WindowTokens(w)) \in Nat
            BY <5>4, FS_CardinalityType
          <5>8. WindowTokens(w)' \in SUBSET B
            BY <4>4
          <5>9. /\ Cardinality(WindowTokens(w)') \in Nat /\ Cardinality(B) \in Nat
                /\ Cardinality(WindowTokens(w)') <= Cardinality(B)
            BY <5>6, <5>8, Fewer
          <5> HIDE DEF B, I
          <5> QED  BY <5>3, <5>5, <5>6, <5>7, <5>9, TokenSetSize
        <4> DEFINE a == Cardinality(WindowTokens(w)')
                   b == Cardinality(WindowTokens(w))
                   r == faults.reads
        <4> HIDE DEF a, b, r
        <4>6. a \in Nat /\ b \in Nat /\ a <= b + Cardinality(TokenSet) /\ r \in Nat
          BY <1>1, <4>5 DEF a, b, r
        <4>7. /\ MaxCost * a <= MaxCost * b + MaxCost * Cardinality(TokenSet)
              /\ MaxCost * WindowTotal(r + 1) = MaxCost * WindowTotal(r) + MaxCost * Cardinality(TokenSet)
              /\ MaxCost * a \in Nat /\ MaxCost * b \in Nat
              /\ MaxCost * WindowTotal(r) \in Nat /\ MaxCost * Cardinality(TokenSet) \in Nat
          BY <4>6, SharesAdd
        <4>8. totals[w] + MaxCost * b < Limit + MaxCost * WindowTotal(r)
          BY <3>2 DEF b, r
        <4>9. totals[w] + MaxCost * a < Limit + MaxCost * WindowTotal(r + 1)
          BY <1>0, <1>1, <4>7, <4>8
        <4> QED  BY <4>3, <4>9 DEF a, r
      <3> QED  BY <1>0, <1>1, <3>3, <3>4, <3>5
    <2> QED  BY <2>1, <2>2 DEF CreditInv
  <1> QED  BY <1>6, <1>7

\* Every step of the loops keeps the credit: Check needs all of a session's
\* tokens, an answer uses one up, and the other moves use up none.
LEMMA CreditMove ==
    ASSUME TypeInv, TypeInv', CreditInv, NEW s \in Sessions, NEW l \in Slots, NEW at,
           Goto(s, l, at), UNCHANGED <<scope, totals, meter, spent, faults>>,
           \/ meter[s].usage < Limit
           \/ at.at \in {"off", "check"}
           \/ loop[s][l].at \in Busy /\ at.at \in {"tools", "final"}
    PROVE  CreditInv'
  <1>1. Tokens(s)' \subseteq Tokens(s)
    <2>1. \A j \in Slots : loop'[s][j] = IF j = l THEN at ELSE loop[s][j]
      BY Moved
    <2> SUFFICES ASSUME NEW j \in Slots, NEW n \in {1, 2}, <<j, n>> \in Tokens(s)'
                 PROVE  <<j, n>> \in Tokens(s)
      BY DEF Tokens, TokenSet
    <2>2. \/ meter[s].usage < Limit
          \/ n = 1 /\ loop'[s][j].at \in Busy
          \/ n = 2 /\ loop'[s][j].at \in Calling
      BY DEF Tokens
    <2> QED  BY <2>1, <2>2 DEF Tokens, TokenSet, Busy, Calling
  <1>2. \A k \in Sessions \ {s} : Tokens(k)' = Tokens(k)
    <2>1. \A k \in Sessions \ {s} : loop'[k] = loop[k]
      BY DEF Goto, TypeInv, TypeOK
    <2> QED  BY <2>1, OthersTokens
  <1>3. faults.reads \in Nat /\ \A k \in Sessions : spent[k] \in Nat
    BY DEF TypeInv, TypeOK
  <1>4. \A k \in Sessions : /\ spent'[k] <= spent[k]
                            /\ meter'[k].window = meter[k].window
                            /\ Tokens(k)' \subseteq Tokens(k)
    BY <1>1, <1>2, <1>3
  <1> QED  BY <1>3, <1>4, CreditKept

LEMMA CreditStep ==
    TypeInv /\ TypeInv' /\ MeterInv /\ CreditInv /\ [Next]_vars => CreditInv'
  <1> SUFFICES ASSUME TypeInv, TypeInv', MeterInv, CreditInv, [Next]_vars PROVE CreditInv'
    OBVIOUS
  <1>0. /\ faults.reads \in Nat /\ Limit \in Nat
        /\ \A k \in Sessions : spent[k] \in Nat /\ meter[k].usage \in Nat
    BY TurnBudgetAssumption DEF TurnBudgetAssumption, TypeInv, TypeOK, Meters
  <1>1. CASE UNCHANGED vars
    BY <1>0, <1>1, CreditKept DEF vars, Tokens, TokenSet
  <1>2. CASE Tick
    BY <1>0, <1>2, CreditKept DEF Tick, Tokens, TokenSet
  <1>3. ASSUME NEW s \in Sessions, Ask(s) PROVE CreditInv'
    <2>1. \A k \in Sessions : spent'[k] <= spent[k] /\ Tokens(k)' = Tokens(k)
      BY <1>0, <1>3 DEF Ask, TypeInv, TypeOK, Tokens, TokenSet
    <2> QED  BY <1>0, <1>3, <2>1, CreditKept DEF Ask
  <1>4. ASSUME NEW s \in Sessions, NEW L \in SUBSET Slots, NEW readable \in BOOLEAN,
               Delegate(s, L, readable)
        PROVE  CreditInv'
    <2>1. \A l \in Slots : loop'[s][l].at \in {"off", "check"}
      BY <1>4 DEF Delegate, Off, TypeInv, TypeOK
    <2>2. \A k \in Sessions \ {s} : loop'[k] = loop[k]
      BY <1>4 DEF Delegate, TypeInv, TypeOK
    <2> QED  BY <1>4, <2>1, <2>2, CreditSeed DEF Delegate
  <1>5. ASSUME NEW s \in Sessions, NEW readable \in BOOLEAN, EndTurn(s, readable)
        PROVE  CreditInv'
    <2>1. \A l \in Slots : loop'[s][l].at \in {"off", "check"}
      BY <1>5 DEF EndTurn, Off, TypeInv, TypeOK
    <2> QED  BY <1>5, <2>1, CreditSeed DEF EndTurn
  <1>6. ASSUME NEW s \in Sessions, Return(s) PROVE CreditInv'
    BY <1>0, <1>6, CreditKept DEF Return, Tokens, TokenSet
  <1>15. ASSUME NEW s \in Sessions, OpenRaises(s) PROVE CreditInv'
    BY <1>0, <1>15, CreditKept DEF OpenRaises, Tokens, TokenSet
  <1>7. ASSUME NEW s \in Sessions, NEW l \in Slots, Check(s, l) PROVE CreditInv'
    <2>1. CASE HardExceeded(s)
      BY <1>7, <2>1, CreditMove DEF Check, Off
    <2>2. CASE ~HardExceeded(s)
      <3>1. meter[s].usage < Limit
        BY <1>0, <2>2 DEF HardExceeded
      <3> QED  BY <1>7, <3>1, <2>2, CreditMove DEF Check
    <2> QED  BY <2>1, <2>2
  <1>8. ASSUME NEW s \in Sessions, NEW l \in Slots, NEW c \in Costs, NEW stored \in BOOLEAN,
               NEW next \in {"off", "tools"}, Answer(s, l, c, stored, next)
        PROVE  CreditInv'
    <2> DEFINE here == loop[s][l]
    <2>1. here \in Loops
      BY DEF TypeInv, TypeOK
    <2>2. [here EXCEPT !.at = next].at = next
      BY <2>1 DEF Loops
    <2>3. Record(s, c, stored) /\ loop[s][l].at = "call" /\ UNCHANGED scope
      BY <1>8 DEF Answer
    <2>4. CASE next = "off"
      <3>1. Goto(s, l, Off)
        BY <1>8, <2>4 DEF Answer
      <3>2. Off.at \in {"off", "tools"}
        BY DEF Off
      <3> QED  BY <2>3, <3>1, <3>2, CreditAnswer
    <2>5. CASE next # "off"
      <3>1. Goto(s, l, [here EXCEPT !.at = next])
        BY <1>8, <2>5 DEF Answer
      <3>2. [here EXCEPT !.at = next].at \in {"off", "tools"}
        BY <2>2
      <3> QED  BY <2>3, <3>1, <3>2, CreditAnswer
    <2> QED  BY <2>4, <2>5
  <1>9. ASSUME NEW s \in Sessions, NEW l \in Slots, NEW ok \in BOOLEAN, Tools(s, l, ok)
        PROVE  CreditInv'
    <2>1. PICK at : /\ Goto(s, l, at) /\ at.at \in {"check", "final"}
                    /\ loop[s][l].at = "tools" /\ UNCHANGED <<scope, totals, meter, spent, faults>>
      BY <1>9 DEF Tools
    <2> QED  BY <2>1, CreditMove DEF Busy
  <1>10. ASSUME NEW s \in Sessions, NEW l \in Slots, NEW c \in Costs, NEW stored \in BOOLEAN,
                FinalAnswer(s, l, c, stored)
         PROVE  CreditInv'
    BY <1>10, CreditAnswer DEF FinalAnswer, Off
  <1>11. ASSUME NEW s \in Sessions, NEW l \in Slots, CallFails(s, l) PROVE CreditInv'
    BY <1>11, CreditMove DEF CallFails, Off
  <1>12. ASSUME NEW s \in Sessions, NEW l \in Slots, Raise(s, l) PROVE CreditInv'
    <2>1. /\ \A k \in Sessions \ {s} : loop'[k] = loop[k]
          /\ \A j \in Slots : loop'[s][j].at = "off"
          /\ UNCHANGED <<scope, totals, meter, spent, faults>>
      BY <1>12 DEF Raise, Off, TypeInv, TypeOK
    <2>2. \A k \in Sessions \ {s} : Tokens(k)' = Tokens(k)
      BY <2>1, OthersTokens
    <2>3. Tokens(s)' \subseteq Tokens(s)
      BY <2>1 DEF Tokens, TokenSet, Busy, Calling
    <2>4. \A k \in Sessions : /\ spent'[k] <= spent[k]
                              /\ meter'[k].window = meter[k].window
                              /\ Tokens(k)' \subseteq Tokens(k)
      BY <1>0, <2>1, <2>2, <2>3
    <2> QED  BY <1>0, <2>1, <2>4, CreditKept
  <1> QED
    BY <1>1, <1>2, <1>3, <1>4, <1>5, <1>6, <1>7, <1>8, <1>9, <1>10, <1>11, <1>12, <1>15
    DEF Next, Supervise, React

LEMMA CreditInit == Init /\ TypeInv => CreditInv
  <1> SUFFICES ASSUME Init, TypeInv PROVE CreditInv
    OBVIOUS
  <1>0. 0 < Limit /\ Limit \in Nat
    BY TurnBudgetAssumption DEF TurnBudgetAssumption
  <1>1. TurnCredit
    <2>1. \A s \in Sessions : spent[s] = 0 /\ Tokens(s) \in SUBSET TokenSet
      BY DEF Init, Tokens
    <2> QED  BY <1>0, <2>1, TurnBound DEF TurnCredit
  <1>2. TenantCredit
    <2>1. /\ faults.reads \in Nat
          /\ \A w \in Windows : totals[w] = 0 /\ WindowTokens(w) \in SUBSET (Sessions \X TokenSet)
      BY DEF Init, WindowTokens
    <2> QED  BY <1>0, <2>1, WindowBound DEF TenantCredit, WindowTotal
  <1> QED  BY <1>1, <1>2 DEF CreditInv

\* The overshoot is the cost of all the tokens of a session.
LEMMA Overshoots ==
    /\ Overshoot = MaxCost * Cardinality(TokenSet)
    /\ \A r \in Nat : Overshoot * (Cardinality(Sessions) + r) = MaxCost * WindowTotal(r)
  <1>1. /\ MaxCost \in Nat /\ Cardinality(Slots) \in Nat
        /\ Cardinality(TokenSet) = 2 * Cardinality(Slots) /\ Cardinality(Sessions) \in Nat
    BY TurnBudgetAssumption, TokenSetSize, FS_CardinalityType DEF TurnBudgetAssumption
  <1>2. ASSUME NEW m \in Nat, NEW n \in Nat, NEW u \in Nat
        PROVE  /\ 2 * n * m = m * (2 * n)
               /\ 2 * n * m * u = m * (2 * n * u)
    OBVIOUS
  <1>3. \A r \in Nat : Cardinality(Sessions) + r \in Nat
    BY <1>1
  <1> QED  BY <1>1, <1>2, <1>3 DEF Overshoot, WindowTotal

Inv == TypeInv /\ MeterInv /\ CreditInv

LEMMA InvStep == Inv /\ [Next]_vars => Inv'
  BY TypeStep, MeterStep, CreditStep DEF Inv

LEMMA InvInit == Init => Inv
  BY TypeInit, MeterInit, CreditInit DEF Inv

LEMMA InvBounds == Inv => TurnCapped /\ TenantCapped
  <1> SUFFICES ASSUME Inv PROVE TurnCapped /\ TenantCapped
    OBVIOUS
  <1> USE DEF Inv, CreditInv
  <1>0. MaxCost \in Nat /\ Limit \in Nat /\ faults.reads \in Nat
    BY TurnBudgetAssumption DEF TurnBudgetAssumption, TypeInv, TypeOK
  <1>1. TurnCapped
    <2> SUFFICES ASSUME scope # "tenant", NEW s \in Sessions
                 PROVE  spent[s] < Limit + MaxCost * Cardinality(TokenSet)
      BY Overshoots DEF TurnCapped
    <2>1. Tokens(s) \in SUBSET TokenSet
      BY DEF Tokens
    <2>2. MaxCost * Cardinality(Tokens(s)) \in Nat
      BY <1>0, <2>1, TokenSetSize, Fewer
    <2>3. spent[s] + MaxCost * Cardinality(Tokens(s)) < Limit + MaxCost * Cardinality(TokenSet)
      BY DEF TurnCredit
    <2>4. spent[s] \in Nat /\ MaxCost * Cardinality(TokenSet) \in Nat
      BY <1>0, TokenSetSize DEF TypeInv, TypeOK
    <2> QED  BY <1>0, <2>2, <2>3, <2>4
  <1>2. TenantCapped
    <2> SUFFICES ASSUME NEW w \in Windows
                 PROVE  totals[w] < Limit + MaxCost * WindowTotal(faults.reads)
      BY <1>0, Overshoots DEF TenantCapped
    <2>1. WindowTokens(w) \in SUBSET (Sessions \X TokenSet)
      BY DEF WindowTokens
    <2>2. MaxCost * Cardinality(WindowTokens(w)) \in Nat
      BY <1>0, <2>1, TokenSetSize, Fewer
    <2>3. totals[w] + MaxCost * Cardinality(WindowTokens(w))
              < Limit + MaxCost * WindowTotal(faults.reads)
      BY DEF TenantCredit, WindowTotal
    <2>4. totals[w] \in Nat /\ Limit + MaxCost * WindowTotal(faults.reads) \in Nat
      BY <1>0, Bounds DEF TypeInv, TypeOK
    <2> QED  BY <2>2, <2>3, <2>4
  <1> QED  BY <1>1, <1>2

\* A turn metered on its own spends less than the limit and two calls for each
\* loop of a delegation, for any number of loops, delegations and iterations
\* (react_loop, BudgetGuard.check).
THEOREM TurnIsCapped == Spec => []TurnCapped
  <1>1. Inv => TurnCapped
    BY InvBounds
  <1> QED  BY <1>1, InvInit, InvStep, PTL DEF Spec

\* A tenant's total of a window stays below the limit and an overshoot of each
\* session and of each seed that could not read the store (TenantCostMeter).
THEOREM TenantIsCapped == Spec => []TenantCapped
  <1>1. Inv => TenantCapped
    BY InvBounds
  <1> QED  BY <1>1, InvInit, InvStep, PTL DEF Spec
=============================================================================
