------------------------- MODULE AutoExtensionProofs -------------------------
(***************************************************************************)
(* What runAutoExtensions guarantees for every set of contracts, budget,   *)
(* fee and bound.  The inductive invariant says, for the shared pool, that *)
(* what is spent leaves room for one excess per reservation in progress;   *)
(* for a contract's own row, that a charge still in progress fits below    *)
(* the limit; for the rate limiter, that rows and entries still to extend  *)
(* together stay below the bound.                                          *)
(***************************************************************************)
EXTENDS AutoExtension, FiniteSums, FiniteSetTheorems, TLAPS

(* An estimate exists only while its transaction is in progress. *)
EstimateInScope == \A t \in Tasks : pc[t] # "submit" => est[t] = 0

PoolRoom ==
  spent + Excess * Cardinality(Holders) <= PoolLimit + Excess * Cardinality(Tasks)

RowRoom ==
  \A t \in Tasks :
    /\ booked[t] <= RowLimit + Excess
    /\ mode[t] = "row" /\ est[t] > 0 => booked[t] + est[t] <= RowLimit

RateRoom == \A t \in Tasks : rows[t] + todo[t] < HOURLY_RATE_LIMIT + MaxEntries

Inv == TypeOK /\ EstimateInScope /\ PoolRoom /\ RowRoom /\ RateRoom

TaskTypes ==
  /\ pc \in [Tasks -> Locations]
  /\ held \in [Tasks -> Slots \cup {NoSlot}]
  /\ waiting = {t \in Tasks : pc[t] = "waiting"}

-----------------------------------------------------------------------------
(* release() keeps the tasks well-formed, starts no submission and ends    *)
(* that of the task that releases.                                         *)
LEMMA ReleaseKeepsTasks ==
  ASSUME NEW t \in Tasks, NEW l \in {"done", "policyKey"}, TypeOK,
         pc[t] # "waiting", GiveBackAndGoto(t, l)
  PROVE  TaskTypes' /\ pc'[t] # "submit"
         /\ \A u \in Tasks \ {t} : pc'[u] = "submit" <=> pc[u] = "submit"
<1> USE DEF TypeOK, TaskTypes, Locations
<1>1. CASE held[t] = NoSlot /\ UNCHANGED <<held, waiting>> /\ Goto(t, l)
  BY <1>1 DEF Goto
<1>2. CASE Alloc!GiveBack(t) /\ Goto(t, l)
  BY <1>2 DEF Goto, Alloc!GiveBack
<1>3. ASSUME NEW u \in waiting, NEW s \in Slots,
             Alloc!HandOver(t, u, s), pc' = [pc EXCEPT ![t] = l, ![u] = "key"]
      PROVE  TaskTypes' /\ pc'[t] # "submit"
             /\ \A v \in Tasks \ {t} : pc'[v] = "submit" <=> pc[v] = "submit"
  <2>1. u \in Tasks /\ u # t /\ pc[u] = "waiting"
    OBVIOUS
  <2>2. held' = [held EXCEPT ![t] = NoSlot, ![u] = s] /\ waiting' = waiting \ {u}
    BY <1>3 DEF Alloc!HandOver
  <2>3. pc' \in [Tasks -> Locations] /\ held' \in [Tasks -> Slots \cup {NoSlot}]
    BY <1>3, <2>1, <2>2
  <2>4. \A v \in Tasks : pc'[v] = IF v = u THEN "key" ELSE IF v = t THEN l ELSE pc[v]
    BY <1>3, <2>1
  <2>5. waiting' = {v \in Tasks : pc'[v] = "waiting"}
    BY <2>1, <2>2, <2>4
  <2> QED BY <2>1, <2>3, <2>4, <2>5
<1> QED BY <1>1, <1>2, <1>3 DEF GiveBackAndGoto

(* The holders are tasks, and finitely many. *)
LEMMA HoldersFinite ==
  /\ IsFiniteSet(Holders)
  /\ Cardinality(Holders) \in Nat /\ Cardinality(Tasks) \in Nat
  /\ Cardinality(Holders) <= Cardinality(Tasks)
<1>1. Holders \subseteq Tasks
  BY DEF Holders
<1> QED BY <1>1, ExtensionAssumption, FS_Subset, FS_CardinalityType

LEMMA HoldersFiniteNext ==
  /\ Cardinality(Holders') \in Nat
  /\ Cardinality(Holders') <= Cardinality(Tasks)
<1>1. Holders' \subseteq Tasks
  BY DEF Holders
<1> QED BY <1>1, ExtensionAssumption, FS_Subset, FS_CardinalityType

(* Fewer reservations need less room. *)
LEMMA Monotone ==
  ASSUME NEW m \in Nat, NEW n \in Nat, m <= n
  PROVE  Excess * m <= Excess * n /\ Excess * m \in Nat /\ Excess * n \in Nat
<1>1. Excess \in Nat
  BY ExtensionAssumption
<1> QED BY <1>1, SMTT(30)

(* Anything booked within the limit leaves room for every reservation. *)
LEMMA RoomBelowLimit ==
  ASSUME spent' \in Int, spent' <= PoolLimit
  PROVE  PoolRoom'
<1>1. Excess * Cardinality(Holders') <= Excess * Cardinality(Tasks)
      /\ Excess * Cardinality(Holders') \in Nat /\ Excess * Cardinality(Tasks) \in Nat
  BY Monotone, HoldersFinite, HoldersFiniteNext
<1>2. PoolLimit \in Nat
  BY ExtensionAssumption
<1> QED BY <1>1, <1>2 DEF PoolRoom

(* A group that is done with holds nothing any more. *)
LEMMA ForgottenHoldsNothing ==
  ASSUME NEW t \in Tasks, TypeOK, ForgetBudget(t), UNCHANGED poolCycle
  PROVE  Holders' = Holders \ {t}
<1>1. \A u \in Tasks : u # t => mode'[u] = mode[u] /\ est'[u] = est[u] /\ cycle'[u] = cycle[u]
  BY DEF TypeOK, ForgetBudget
<1>2. est'[t] = 0
  BY DEF TypeOK, ForgetBudget
<1> QED BY <1>1, <1>2 DEF Holders

LEMMA ReservationLeaves ==
  ASSUME NEW t \in Holders
  PROVE  Cardinality(Holders \ {t}) = Cardinality(Holders) - 1
BY HoldersFinite, FS_RemoveElement

(* The room stays when a task gives up its reservation and what is spent   *)
(* grows by no more than the excess the reservation left room for.         *)
LEMMA RoomAfterGroup ==
  ASSUME NEW t \in Tasks, PoolRoom, spent \in Int, spent' \in Int,
         Holders' = Holders \ {t},
         \/ t \in Holders /\ spent' <= spent + Excess
         \/ spent' <= spent
  PROVE  PoolRoom'
<1> DEFINE h == Cardinality(Holders)
<1>1. h \in Nat /\ Excess \in Nat /\ Cardinality(Holders') \in Nat
  BY HoldersFinite, HoldersFiniteNext, ExtensionAssumption
<1>2. CASE t \in Holders
  <2>1. Cardinality(Holders') = h - 1
    BY <1>2, ReservationLeaves
  <2>2. Excess * Cardinality(Holders') = Excess * h - Excess
    BY <1>1, <2>1
  <2> QED BY <1>1, <2>2, HoldersFinite, Monotone, ExtensionAssumption DEF PoolRoom
<1>3. CASE t \notin Holders
  <2>1. Holders' = Holders
    BY <1>3
  <2> QED BY <1>1, <1>3, <2>1, HoldersFinite, Monotone, ExtensionAssumption DEF PoolRoom
<1> QED BY <1>2, <1>3

-----------------------------------------------------------------------------
(* The parts of the type invariant that End, EndGroup and ForgetBudget keep. *)
GroupTypes ==
  /\ todo \in [Tasks -> 0 .. MaxEntries]
  /\ mode \in [Tasks -> {"pool", "row", "free"}]
  /\ cycle \in [Tasks -> 0 .. LastMonth]
  /\ est \in [Tasks -> Nat]

BudgetTypes ==
  /\ members \subseteq Tasks
  /\ poolCycle \in 0 .. LastMonth
  /\ spent \in Int /\ settled \in Nat
  /\ booked \in [Tasks -> Nat]
  /\ rows \in [Tasks -> Nat]
  /\ paid \in [Tasks -> Nat]
  /\ month \in 0 .. LastMonth

LEMMA TypeParts == TypeOK <=> TaskTypes /\ dbFailed \in BOOLEAN /\ GroupTypes /\ BudgetTypes
BY DEF TypeOK, TaskTypes, GroupTypes, BudgetTypes

LEMMA TypePartsNext ==
  TaskTypes' /\ dbFailed' \in BOOLEAN /\ GroupTypes' /\ BudgetTypes' => TypeOK'
BY DEF TypeOK, TaskTypes, GroupTypes, BudgetTypes

(* What a task keeps for its group is in scope only while it submits. *)
LEMMA ForgetKeepsTypes ==
  ASSUME NEW t \in Tasks, TypeOK, ForgetBudget(t)
  PROVE  /\ mode' \in [Tasks -> {"pool", "row", "free"}]
         /\ cycle' \in [Tasks -> 0 .. LastMonth]
         /\ est' \in [Tasks -> Nat]
         /\ est'[t] = 0
         /\ \A u \in Tasks \ {t} : est'[u] = est[u] /\ mode'[u] = mode[u]
BY ExtensionAssumption DEF TypeOK, ForgetBudget

(* The end of a task: release(), nothing left to do, no reservation. *)
LEMMA EndKeeps ==
  ASSUME NEW t \in Tasks, TypeOK, EstimateInScope, pc[t] # "waiting", End(t)
  PROVE  /\ TaskTypes' /\ GroupTypes' /\ EstimateInScope' /\ ForgetBudget(t)
         /\ todo' = [todo EXCEPT ![t] = 0]
<1>1. GiveBackAndGoto(t, "done") /\ todo' = [todo EXCEPT ![t] = 0] /\ ForgetBudget(t)
  BY DEF End
<1>2. TaskTypes' /\ pc'[t] # "submit" /\ \A u \in Tasks \ {t} : pc'[u] = "submit" <=> pc[u] = "submit"
  BY <1>1, ReleaseKeepsTasks
<1>3. GroupTypes'
  BY <1>1, ForgetKeepsTypes, ExtensionAssumption DEF GroupTypes, TypeOK
<1>4. EstimateInScope'
  <2> SUFFICES ASSUME NEW u \in Tasks, pc'[u] # "submit"
               PROVE  est'[u] = 0
    BY DEF EstimateInScope
  <2>1. CASE u = t
    BY <1>1, <2>1, ForgetKeepsTypes
  <2>2. CASE u # t
    <3>1. pc[u] # "submit"
      BY <1>2, <2>2
    <3> QED BY <1>1, <2>2, <3>1, ForgetKeepsTypes DEF EstimateInScope
  <2> QED BY <2>1, <2>2
<1> QED BY <1>1, <1>2, <1>3, <1>4

-----------------------------------------------------------------------------
LEMMA InitInv == Init => Inv
<1> SUFFICES ASSUME Init
             PROVE  Inv
  OBVIOUS
<1>1. TypeOK
  <2>1. 0 \in 0 .. LastMonth /\ 0 \in 0 .. MaxEntries
    BY ExtensionAssumption
  <2>2. TaskTypes /\ dbFailed \in BOOLEAN
    BY DEF Init, TaskTypes, Locations
  <2>3. GroupTypes
    BY <2>1 DEF Init, GroupTypes
  <2>4. BudgetTypes
    BY <2>1, ExtensionAssumption DEF Init, BudgetTypes
  <2> QED BY <2>2, <2>3, <2>4, TypeParts
<1>2. EstimateInScope /\ RowRoom /\ RateRoom
  BY ExtensionAssumption DEF Init, EstimateInScope, RowRoom, RateRoom
<1>3. PoolRoom
  <2>1. Holders = {}
    BY DEF Init, Holders
  <2>2. Cardinality(Holders) = 0
    BY <2>1, FS_EmptySet
  <2>3. spent = 0 /\ PoolLimit \in Nat /\ Excess \in Nat
    BY ExtensionAssumption DEF Init
  <2>4. Excess * Cardinality(Tasks) \in Nat
    BY HoldersFinite, Monotone
  <2> QED BY <2>2, <2>3, <2>4 DEF PoolRoom
<1> QED BY <1>1, <1>2, <1>3 DEF Inv

(* Steps that touch neither a budget nor the limiter's history. *)
Quiet == UNCHANGED <<groupVars, budgetVars, rows>>

LEMMA QuietKeeps ==
  ASSUME Inv, TaskTypes', dbFailed' \in BOOLEAN, month' \in 0 .. LastMonth,
         paid' \in [Tasks -> Nat],
         todo' \in [Tasks -> 0 .. MaxEntries], Quiet,
         \A u \in Tasks : pc'[u] # "submit" => pc[u] # "submit",
         RateRoom'
  PROVE  Inv'
<1> USE DEF Inv, Quiet, groupVars, budgetVars
<1>1. TypeOK'
  <2>1. GroupTypes'
    BY DEF TypeOK, GroupTypes
  <2>2. BudgetTypes'
    BY DEF TypeOK, BudgetTypes
  <2> QED BY <2>1, <2>2, TypePartsNext
<1>2. EstimateInScope'
  BY DEF EstimateInScope
<1>3. PoolRoom'
  BY DEF PoolRoom, Holders
<1>4. RowRoom'
  BY DEF RowRoom
<1> QED BY <1>1, <1>2, <1>3, <1>4

(* A task that ends without a word to the budgets. *)
LEMMA EndKeepsInv ==
  ASSUME NEW t \in Tasks, Inv, pc[t] # "waiting", End(t), dbFailed' = dbFailed,
         UNCHANGED <<budgetVars, rows, paid, month>>
  PROVE  Inv'
<1> USE DEF Inv
<1>1. TaskTypes' /\ GroupTypes' /\ EstimateInScope' /\ ForgetBudget(t) /\ todo' = [todo EXCEPT ![t] = 0]
  BY EndKeeps
<1>2. TypeOK'
  <2>1. BudgetTypes' /\ dbFailed' \in BOOLEAN
    BY DEF TypeOK, BudgetTypes, budgetVars
  <2> QED BY <1>1, <2>1, TypePartsNext
<1>3. PoolRoom'
  <2>1. Holders' = Holders \ {t}
    BY <1>1, ForgottenHoldsNothing DEF budgetVars
  <2>2. spent' = spent /\ spent \in Int
    BY DEF budgetVars, TypeOK
  <2>3. spent' <= spent /\ spent' \in Int
    BY <2>2
  <2> QED BY <2>1, <2>2, <2>3, RoomAfterGroup
<1>4. RowRoom'
  BY <1>1, ForgetKeepsTypes DEF RowRoom, budgetVars
<1>5. RateRoom'
  <2>1. \A u \in Tasks : todo'[u] \in Nat /\ todo'[u] <= todo[u] /\ rows'[u] = rows[u]
    BY <1>1 DEF TypeOK
  <2> QED BY <2>1, ExtensionAssumption DEF RateRoom, TypeOK
<1> QED BY <1>2, <1>1, <1>3, <1>4, <1>5

(* The end of a group, whatever became of its transaction. *)
LEMMA EndGroupKeeps ==
  ASSUME NEW t \in Tasks, Inv, pc[t] = "submit", NEW n \in 1 .. todo[t], EndGroup(t, n)
  PROVE  /\ TaskTypes' /\ GroupTypes' /\ EstimateInScope' /\ ForgetBudget(t)
         /\ todo' = [todo EXCEPT ![t] = todo[t] - n]
<1> USE DEF Inv
<1>1. todo[t] \in 0 .. MaxEntries /\ MaxEntries \in Nat
  BY ExtensionAssumption DEF TypeOK
<1>2. CASE /\ todo' = [todo EXCEPT ![t] = @ - n] /\ Goto(t, "group")
           /\ ForgetBudget(t) /\ UNCHANGED <<held, waiting>>
  <2>1. TaskTypes'
    BY <1>2 DEF TaskTypes, TypeOK, Goto, Locations
  <2>2. todo[t] - n \in 0 .. MaxEntries
    BY <1>1
  <2>3. GroupTypes'
    BY <1>2, <2>2, ForgetKeepsTypes DEF GroupTypes, TypeOK
  <2>4. EstimateInScope'
    BY <1>2, ForgetKeepsTypes DEF EstimateInScope, Goto, TypeOK
  <2> QED BY <1>2, <2>1, <2>3, <2>4
<1>3. CASE n = todo[t] /\ End(t)
  <2>1. todo[t] - n = 0
    BY <1>1, <1>3
  <2> QED BY <1>3, <2>1, EndKeeps
<1> QED BY <1>2, <1>3 DEF EndGroup

LEMMA RateRoomAfterGroup ==
  ASSUME NEW t \in Tasks, Inv, NEW n \in 1 .. todo[t],
         todo' = [todo EXCEPT ![t] = todo[t] - n],
         \/ rows' = rows
         \/ rows' = [rows EXCEPT ![t] = @ + n]
  PROVE  RateRoom' /\ rows' \in [Tasks -> Nat]
<1> USE DEF Inv, TypeOK
<1>1. \A u \in Tasks : rows[u] \in Nat /\ todo[u] \in Nat
  OBVIOUS
<1>2. \A u \in Tasks : rows'[u] \in Nat /\ rows'[u] + todo'[u] <= rows[u] + todo[u]
  BY <1>1
<1>3. RateRoom'
  BY <1>1, <1>2, ExtensionAssumption DEF RateRoom
<1> QED BY <1>1, <1>3

-----------------------------------------------------------------------------
LEMMA NewRunKeeps == Inv /\ NewRun => Inv'
<1> SUFFICES ASSUME Inv, NewRun
             PROVE  Inv'
  OBVIOUS
<1> USE DEF Inv
<1>1. PICK ready \in SUBSET Tasks :
        pc' = [t \in Tasks |-> IF t \in ready THEN "ready" ELSE "done"]
  BY DEF NewRun
<1>2. TaskTypes'
  BY <1>1 DEF NewRun, TaskTypes, Locations
<1>3. \A u \in Tasks : pc[u] # "submit"
  BY DEF NewRun
<1>4. RateRoom'
  BY DEF NewRun, RateRoom
<1> QED BY <1>2, <1>3, <1>4, QuietKeeps DEF NewRun, Quiet, TypeOK

LEMMA WorldKeeps ==
  ASSUME Inv, MonthEnds \/ (\E t \in Tasks : Assign(t) \/ HistoryAges(t))
  PROVE  Inv'
<1> USE DEF Inv
<1>1. CASE MonthEnds
  <2>1. TaskTypes' /\ RateRoom'
    BY <1>1 DEF MonthEnds, TaskTypes, TypeOK, RateRoom
  <2>2. month' \in 0 .. LastMonth
    BY <1>1, ExtensionAssumption DEF MonthEnds, TypeOK
  <2>3. paid' \in [Tasks -> Nat]
    BY <1>1 DEF MonthEnds
  <2> QED BY <1>1, <2>1, <2>2, <2>3, QuietKeeps DEF MonthEnds, Quiet, TypeOK
<1>2. ASSUME NEW t \in Tasks, Assign(t)
      PROVE  Inv'
  <2> USE <1>2 DEF Assign, groupVars
  <2>1. TypeOK'
    BY DEF TypeOK
  <2>2. EstimateInScope' /\ RowRoom' /\ RateRoom'
    BY DEF EstimateInScope, RowRoom, RateRoom
  <2>3. PoolRoom'
    BY DEF PoolRoom, Holders
  <2> QED BY <2>1, <2>2, <2>3
<1>3. ASSUME NEW t \in Tasks, HistoryAges(t)
      PROVE  Inv'
  <2> USE <1>3 DEF HistoryAges, groupVars, budgetVars
  <2>1. \A u \in Tasks : rows'[u] \in Nat /\ rows'[u] <= rows[u]
    BY DEF TypeOK
  <2>2. TypeOK'
    BY <2>1 DEF TypeOK
  <2>3. EstimateInScope' /\ RowRoom'
    BY DEF EstimateInScope, RowRoom
  <2>4. RateRoom'
    <3>1. todo' = todo /\ \A u \in Tasks : rows[u] \in Nat /\ todo[u] \in Nat
      BY DEF TypeOK
    <3> QED BY <2>1, <3>1, ExtensionAssumption DEF RateRoom
  <2>5. PoolRoom'
    BY DEF PoolRoom, Holders
  <2> QED BY <2>2, <2>3, <2>4, <2>5
<1> QED BY <1>1, <1>2, <1>3

-----------------------------------------------------------------------------
LEMMA PrepareKeeps ==
  ASSUME NEW t \in Tasks, Inv, Prepare(t) \/ ThrowsHolding(t)
  PROVE  Inv'
<1> USE DEF Inv
<1>1. CASE Skip(t)
  <2>1. TaskTypes' /\ RateRoom'
    BY <1>1 DEF Skip, Goto, TaskTypes, TypeOK, Locations, RateRoom
  <2> QED BY <1>1, <2>1, QuietKeeps DEF Skip, Goto, Quiet, TypeOK
<1>2. CASE Begin(t)
  <2>1. PICK n \in 1 .. MaxEntries : todo' = [todo EXCEPT ![t] = n]
    BY <1>2 DEF Begin
  <2>2. rows[t] < HOURLY_RATE_LIMIT /\ rows' = rows
    BY <1>2, ExtensionAssumption DEF Begin, RateLimited, TypeOK
  <2>3. RateRoom' /\ todo' \in [Tasks -> 0 .. MaxEntries]
    BY <2>1, <2>2, ExtensionAssumption DEF RateRoom, TypeOK
  <2>4. TaskTypes' /\ \A u \in Tasks : pc'[u] # "submit" => pc[u] # "submit"
    <3>1. ASSUME NEW s \in Slots, Alloc!Lend(t, s), Goto(t, "key")
          PROVE  TaskTypes' /\ \A u \in Tasks : pc'[u] # "submit" => pc[u] # "submit"
      BY <1>2, <3>1 DEF Begin, Alloc!Lend, Goto, TaskTypes, TypeOK, Locations
    <3>2. CASE Alloc!Block(t) /\ Goto(t, "waiting")
      BY <1>2, <3>2 DEF Begin, Alloc!Block, Goto, TaskTypes, TypeOK, Locations
    <3> QED BY <1>2, <3>1, <3>2 DEF Begin, Borrow
  <2> QED BY <1>2, <2>3, <2>4, QuietKeeps DEF Begin, Quiet, TypeOK
<1>3. CASE KeyFound(t)
  <2>1. TaskTypes' /\ RateRoom'
    BY <1>3 DEF KeyFound, Goto, TaskTypes, TypeOK, Locations, RateRoom
  <2> QED BY <1>3, <2>1, QuietKeeps DEF KeyFound, Goto, Quiet, TypeOK
<1>4. CASE BalanceTooLow(t)
  BY <1>4, EndKeepsInv DEF BalanceTooLow
<1>5. CASE KeyMissing(t)
  <2>1. TaskTypes' /\ pc'[t] # "submit"
        /\ \A u \in Tasks \ {t} : pc'[u] = "submit" <=> pc[u] = "submit"
    BY <1>5, ReleaseKeepsTasks DEF KeyMissing
  <2>2. RateRoom'
    BY <1>5 DEF KeyMissing, RateRoom
  <2> QED BY <1>5, <2>1, <2>2, QuietKeeps DEF KeyMissing, Quiet, TypeOK
<1>6. CASE PolicyKey(t)
  <2>1. CASE Goto(t, "group") /\ UNCHANGED <<held, waiting, todo, groupVars>>
    <3>1. TaskTypes' /\ RateRoom'
      BY <1>6, <2>1 DEF PolicyKey, Goto, TaskTypes, TypeOK, Locations, RateRoom
    <3> QED BY <1>6, <2>1, <3>1, QuietKeeps DEF PolicyKey, Goto, Quiet, TypeOK
  <2>2. CASE End(t)
    BY <1>6, <2>2, EndKeepsInv DEF PolicyKey
  <2> QED BY <1>6, <2>1, <2>2 DEF PolicyKey
<1>7. CASE ThrowsHolding(t)
  <2>1. TaskTypes'
    BY <1>7 DEF ThrowsHolding, Goto, TaskTypes, TypeOK, Locations
  <2>2. todo' \in [Tasks -> 0 .. MaxEntries] /\ \A u \in Tasks : todo'[u] <= todo[u]
    BY <1>7, ExtensionAssumption DEF ThrowsHolding, TypeOK
  <2>3. RateRoom'
    <3>1. \A u \in Tasks : rows'[u] = rows[u] /\ rows[u] \in Nat /\ todo[u] \in Nat /\ todo'[u] \in Nat
      BY <1>7, <2>2 DEF ThrowsHolding, TypeOK
    <3> QED BY <2>2, <3>1, ExtensionAssumption DEF RateRoom
  <2> QED BY <1>7, <2>1, <2>2, <2>3, QuietKeeps DEF ThrowsHolding, Goto, Quiet, TypeOK
<1> QED BY <1>1, <1>2, <1>3, <1>4, <1>5, <1>6, <1>7 DEF Prepare

-----------------------------------------------------------------------------
(* The lookup may start a billing cycle; it makes no reservation.          *)
LEMMA LookUpKeeps ==
  ASSUME NEW t \in Tasks, Inv, LookUp(t)
  PROVE  Inv'
<1> USE DEF Inv, LookUp
<1>1. est[t] = 0 /\ est' = est
  BY DEF EstimateInScope
<1>2. poolCycle' \in 0 .. LastMonth /\ spent' \in Int /\ settled' \in Nat
  BY DEF TypeOK, Rollover
<1>3. TypeOK'
  <2>1. TaskTypes'
    BY DEF Goto, TaskTypes, TypeOK, Locations
  <2>2. GroupTypes'
    BY DEF GroupTypes, BudgetOf, TypeOK
  <2>3. BudgetTypes'
    BY <1>2 DEF BudgetTypes, TypeOK
  <2> QED BY <2>1, <2>2, <2>3, TypePartsNext DEF TypeOK
<1>4. EstimateInScope'
  BY <1>1 DEF EstimateInScope, Goto, TypeOK
<1>5. RowRoom'
  <2>1. \A u \in Tasks \ {t} : mode'[u] = mode[u]
    BY DEF TypeOK
  <2> QED BY <1>1, <2>1 DEF RowRoom, TypeOK
<1>6. RateRoom'
  BY DEF RateRoom
<1>7. PoolRoom'
  <2>1. CASE poolCycle' = poolCycle /\ spent' = spent
    <3>1. \A u \in Tasks \ {t} : mode'[u] = mode[u] /\ cycle'[u] = cycle[u]
      BY DEF TypeOK
    <3>2. Holders' = Holders
      BY <1>1, <2>1, <3>1 DEF Holders
    <3> QED BY <2>1, <3>2 DEF PoolRoom
  <2>2. CASE spent' = 0
    BY <2>2, RoomBelowLimit, ExtensionAssumption
  <2> QED BY <2>1, <2>2 DEF Rollover
<1> QED BY <1>3, <1>4, <1>5, <1>6, <1>7

(* A reservation, or for a contract's own row a charge to come, fits.      *)
LEMMA ReserveKeeps ==
  ASSUME NEW t \in Tasks, NEW fee \in Fees, Inv, Reserve(t, fee)
  PROVE  Inv'
<1> USE DEF Inv, Reserve
<1>1. fee \in Nat /\ Fits(t, fee)
  BY ExtensionAssumption DEF Affordable
<1>2. est' \in [Tasks -> Nat] /\ spent' \in Int
  BY <1>1 DEF TypeOK
<1>3. TypeOK'
  <2>1. TaskTypes'
    BY DEF Goto, TaskTypes, TypeOK, Locations
  <2>2. GroupTypes' /\ BudgetTypes'
    BY <1>2 DEF GroupTypes, BudgetTypes, TypeOK
  <2> QED BY <2>1, <2>2, TypePartsNext DEF TypeOK
<1>4. EstimateInScope'
  BY DEF EstimateInScope, Goto, TypeOK
<1>5. RowRoom'
  <2>1. mode[t] = "row" => booked[t] + fee <= RowLimit
    BY <1>1 DEF Fits
  <2>2. est'[t] = fee /\ \A u \in Tasks \ {t} : est'[u] = est[u]
    BY DEF TypeOK
  <2> QED BY <2>1, <2>2 DEF RowRoom
<1>6. RateRoom'
  BY DEF RateRoom
<1>7. PoolRoom'
  <2>1. CASE mode[t] = "pool"
    <3>1. spent' <= PoolLimit
      BY <1>1, <2>1 DEF Fits
    <3> QED BY <1>2, <3>1, RoomBelowLimit
  <2>2. CASE mode[t] # "pool"
    <3>1. spent' = spent /\ \A u \in Tasks \ {t} : est'[u] = est[u]
      BY <2>2 DEF TypeOK
    <3>2. Holders' = Holders
      BY <2>2, <3>1 DEF Holders
    <3> QED BY <3>1, <3>2 DEF PoolRoom
  <2> QED BY <2>1, <2>2
<1> QED BY <1>3, <1>4, <1>5, <1>6, <1>7

-----------------------------------------------------------------------------
(* The outcomes of a submission. *)
LEMMA RefusalKeeps ==
  ASSUME NEW t \in Tasks, Inv, SimulationThrows(t) \/ (\E fee \in Fees : Refuse(t, fee))
  PROVE  Inv'
BY EndKeepsInv DEF SimulationThrows, Refuse

LEMMA FailureKeeps ==
  ASSUME NEW t \in Tasks, Inv, SubmissionFails(t)
  PROVE  Inv'
<1> USE DEF Inv, SubmissionFails
<1>1. PICK n \in 1 .. todo[t] : EndGroup(t, n)
  OBVIOUS
<1>2. /\ TaskTypes' /\ GroupTypes' /\ EstimateInScope' /\ ForgetBudget(t)
      /\ todo' = [todo EXCEPT ![t] = todo[t] - n]
  BY <1>1, EndGroupKeeps
<1>3. spent' \in Int /\ (spent' <= spent \/ spent' = 0)
  BY DEF Refund, AtLeastZero, TypeOK
<1>4. TypeOK'
  <2>1. BudgetTypes' /\ dbFailed' \in BOOLEAN
    BY <1>3 DEF BudgetTypes, TypeOK
  <2> QED BY <1>2, <2>1, TypePartsNext
<1>5. RowRoom'
  BY <1>2, ForgetKeepsTypes DEF RowRoom
<1>6. RateRoom'
  BY <1>2, RateRoomAfterGroup
<1>7. PoolRoom'
  <2>1. CASE spent' <= spent
    <3>1. Holders' = Holders \ {t}
      BY <1>2, ForgottenHoldsNothing
    <3> QED BY <1>3, <2>1, <3>1, RoomAfterGroup DEF TypeOK
  <2>2. CASE spent' = 0
    BY <2>2, RoomBelowLimit, ExtensionAssumption
  <2> QED BY <1>3, <2>1, <2>2
<1> QED BY <1>2, <1>4, <1>5, <1>6, <1>7

LEMMA ThrowKeeps ==
  ASSUME NEW t \in Tasks, Inv, TtlReadThrows(t)
  PROVE  Inv'
<1> USE DEF Inv, TtlReadThrows
<1>1. /\ TaskTypes' /\ GroupTypes' /\ EstimateInScope' /\ ForgetBudget(t)
      /\ todo' = [todo EXCEPT ![t] = 0]
  BY EndKeeps
<1>2. PICK fee \in 1 .. est[t] + Excess : Pay(t, fee)
  OBVIOUS
<1>3. est[t] \in Nat /\ fee \in Nat
  BY ExtensionAssumption DEF TypeOK
<1>4. settled' \in Nat /\ paid' \in [Tasks -> Nat]
  BY <1>2, <1>3 DEF Pay, TypeOK
<1>5. TypeOK'
  <2>1. BudgetTypes' /\ dbFailed' \in BOOLEAN
    BY <1>4 DEF BudgetTypes, TypeOK
  <2> QED BY <1>1, <2>1, TypePartsNext
<1>6. RowRoom'
  BY <1>1, ForgetKeepsTypes DEF RowRoom
<1>7. RateRoom'
  <2>1. \A u \in Tasks : todo'[u] \in Nat /\ todo'[u] <= todo[u] /\ rows'[u] = rows[u]
    BY <1>1 DEF TypeOK
  <2> QED BY <2>1, ExtensionAssumption DEF RateRoom, TypeOK
<1>8. PoolRoom'
  <2>1. Holders' = Holders \ {t}
    BY <1>1, ForgottenHoldsNothing
  <2>2. spent' <= spent /\ spent' \in Int /\ spent \in Int
    BY DEF TypeOK
  <2> QED BY <2>1, <2>2, RoomAfterGroup
<1> QED BY <1>1, <1>5, <1>6, <1>7, <1>8

LEMMA SuccessKeeps ==
  ASSUME NEW t \in Tasks, Inv, NEW fee \in 1 .. est[t] + Excess, Extended(t, fee)
  PROVE  Inv'
<1> USE DEF Inv, Extended
<1>1. PICK n \in 1 .. todo[t] : EndGroup(t, n) /\ rows' = [rows EXCEPT ![t] = @ + n]
  OBVIOUS
<1>2. /\ TaskTypes' /\ GroupTypes' /\ EstimateInScope' /\ ForgetBudget(t)
      /\ todo' = [todo EXCEPT ![t] = todo[t] - n]
  BY <1>1, EndGroupKeeps
<1>3. est[t] \in Nat /\ fee \in Nat /\ fee <= est[t] + Excess /\ Excess \in Nat
  BY ExtensionAssumption DEF TypeOK
<1>4. settled' \in Nat /\ spent' \in Int /\ booked' \in [Tasks -> Nat]
  BY <1>3 DEF Book, TypeOK
<1>5. paid' \in [Tasks -> Nat]
  BY <1>3 DEF Pay, TypeOK
<1>6. RateRoom' /\ rows' \in [Tasks -> Nat]
  BY <1>1, <1>2, RateRoomAfterGroup
<1>7. TypeOK'
  <2>1. BudgetTypes' /\ dbFailed' \in BOOLEAN
    BY <1>4, <1>5, <1>6 DEF BudgetTypes, TypeOK
  <2> QED BY <1>2, <2>1, TypePartsNext
<1>8. RowRoom'
  <2>1. est'[t] = 0 /\ \A u \in Tasks \ {t} : est'[u] = est[u] /\ mode'[u] = mode[u]
    BY <1>2, ForgetKeepsTypes
  <2>2. booked'[t] <= RowLimit + Excess
    <3>1. CASE mode[t] = "row" /\ est[t] > 0
      <4>1. booked'[t] = booked[t] + fee
        BY <3>1 DEF Book, TypeOK
      <4>2. booked[t] + est[t] <= RowLimit
        BY <3>1 DEF RowRoom
      <4> QED BY <1>3, <4>1, <4>2, ExtensionAssumption DEF TypeOK
    <3>2. CASE ~(mode[t] = "row" /\ est[t] > 0)
      BY <3>2 DEF Book, RowRoom
    <3> QED BY <3>1, <3>2
  <2>3. \A u \in Tasks \ {t} : booked'[u] = booked[u]
    BY DEF Book, TypeOK
  <2> QED BY <2>1, <2>2, <2>3 DEF RowRoom
<1>9. PoolRoom'
  <2>1. Holders' = Holders \ {t}
    BY <1>2, ForgottenHoldsNothing
  <2>2. \/ t \in Holders /\ spent' <= spent + Excess
        \/ spent' <= spent
    BY <1>3 DEF Book, TypeOK
  <2> QED BY <1>4, <2>1, <2>2, RoomAfterGroup DEF TypeOK
<1> QED BY <1>2, <1>6, <1>7, <1>8, <1>9

-----------------------------------------------------------------------------
LEMMA StepKeeps ==
  ASSUME NEW t \in Tasks, Inv, Step(t) \/ ThrowsHolding(t)
  PROVE  Inv'
BY PrepareKeeps, LookUpKeeps, ReserveKeeps, RefusalKeeps, FailureKeeps, ThrowKeeps, SuccessKeeps
   DEF Step, Extend

LEMMA NextKeeps == Inv /\ [Next]_vars => Inv'
<1> SUFFICES ASSUME Inv, [Next]_vars
             PROVE  Inv'
  OBVIOUS
<1>1. CASE UNCHANGED vars
  <2>1. TypeOK' /\ EstimateInScope' /\ RowRoom' /\ RateRoom'
    BY <1>1 DEF vars, groupVars, budgetVars, Inv, TypeOK, EstimateInScope, RowRoom, RateRoom
  <2>2. PoolRoom'
    BY <1>1 DEF vars, groupVars, budgetVars, Inv, PoolRoom, Holders
  <2> QED BY <2>1, <2>2 DEF Inv
<1>2. CASE NewRun
  BY <1>2, NewRunKeeps
<1>3. CASE MonthEnds \/ \E t \in Tasks : Assign(t) \/ HistoryAges(t)
  BY <1>3, WorldKeeps
<1>4. ASSUME NEW t \in Tasks, Step(t) \/ ThrowsHolding(t)
      PROVE  Inv'
  BY <1>4, StepKeeps
<1> QED BY <1>1, <1>2, <1>3, <1>4 DEF Next

(* The inductive invariant holds in every reachable state. *)
THEOREM ExtensionInvariant == Spec => []Inv
<1>1. Init => Inv
  BY InitInv
<1>2. Inv /\ [Next]_vars => Inv'
  BY NextKeeps
<1> QED BY <1>1, <1>2, PTL DEF Spec

(* Every variable keeps its type, for any contracts, accounts and fees. *)
THEOREM TypeCorrect == Spec => []TypeOK
<1>1. Inv => TypeOK
  BY DEF Inv
<1> QED BY <1>1, ExtensionInvariant, PTL

(* No interleaving of tasks overruns a budget by more than one excess per  *)
(* task, however many tasks share it.                                      *)
THEOREM CapsRespected == Spec => []CapsHold
<1>1. Inv => CapsHold
  <2> SUFFICES ASSUME Inv
               PROVE  CapsHold
    OBVIOUS
  <2>1. Excess * Cardinality(Holders) \in Nat
    BY HoldersFinite, Monotone
  <2>2. Excess * Cardinality(Tasks) \in Nat /\ PoolLimit \in Nat /\ spent \in Int
    BY HoldersFinite, Monotone, ExtensionAssumption DEF Inv, TypeOK
  <2> QED BY <2>1, <2>2 DEF Inv, PoolRoom, RowRoom, CapsHold
<1> QED BY <1>1, ExtensionInvariant, PTL

(* The hourly limit is overshot by less than the entries of one run. *)
THEOREM OvershootIsBounded == Spec => []RateOvershootIsOneRun
<1>1. Inv => RateOvershootIsOneRun
  BY ExtensionAssumption DEF Inv, TypeOK, RateRoom, RateOvershootIsOneRun
<1> QED BY <1>1, ExtensionInvariant, PTL

-----------------------------------------------------------------------------
(* The books of the shared pool.  A reservation is of the pool's current   *)
(* cycle or an earlier one, so that the first lookup of a new month finds  *)
(* none of that month; and while it lasts the pool has at least its amount.*)
CyclesBehind ==
  /\ poolCycle <= month
  /\ \A t \in Tasks : mode[t] = "pool" => cycle[t] <= poolCycle

Reserved == SumOver(est, Holders)

LEMMA BooksAreReserved == BooksBalance <=> spent = settled + Reserved
  BY DEF BooksBalance, Reserved, SumOver

LEMMA BooksAreReservedNext == BooksBalance' <=> spent' = settled' + SumOver(est', Holders')
<1>1. (BooksBalance <=> spent = settled + Reserved)'
  BY BooksAreReserved, PTL
<1>2. QED
  BY <1>1 DEF Reserved

LEMMA HoldersAreFinite == IsFiniteSet(Holders) /\ IsFiniteSet(Holders')
<1>1. Holders' \subseteq Tasks
  BY DEF Holders
<1>2. IsFiniteSet(Tasks)
  BY ExtensionAssumption
<1>3. IsFiniteSet(Holders')
  BY <1>1, <1>2, FS_Subset
<1>4. QED
  BY <1>3, HoldersFinite

LEMMA ReservedIsNat ==
  ASSUME TypeOK
  PROVE  Reserved \in Nat
<1>1. \A t \in Holders : est[t] \in Nat
  BY DEF Holders, TypeOK
<1>2. QED
  BY <1>1, HoldersAreFinite, SumOverNat DEF Reserved

(* What the end of a group takes off the reservations. *)
LEMMA ReservedAfterGroup ==
  ASSUME NEW t \in Tasks, TypeOK, ForgetBudget(t), UNCHANGED poolCycle
  PROVE  /\ SumOver(est', Holders') \in Nat
         /\ SumOver(est', Holders') = Reserved - (IF t \in Holders THEN est[t] ELSE 0)
<1> DEFINE rest == Holders \ {t}
<1>1. Holders' = rest
  BY ForgottenHoldsNothing
<1>2. IsFiniteSet(rest) /\ \A u \in rest : est'[u] = est[u] /\ est[u] \in Nat
  BY HoldersAreFinite, <1>1 DEF ForgetBudget, TypeOK, Holders
<1>3. SumOver(est', rest) = SumOver(est, rest) /\ SumOver(est, rest) \in Nat
  <2> HIDE DEF rest
  <2>1. SumOver(est', rest) = SumOver(est, rest)
    BY <1>2, SumOverSame
  <2>2. SumOver(est, rest) \in Nat
    BY <1>2, SumOverNat
  <2>3. QED
    BY <2>1, <2>2
<1>4. CASE t \in Holders
  <2>1. \A u \in Holders : est[u] \in Int
    BY DEF Holders, TypeOK
  <2>2. Reserved = est[t] + SumOver(est, rest)
    BY <1>4, <2>1, HoldersAreFinite, SumOverElement DEF Reserved
  <2>3. est[t] \in Nat
    BY DEF TypeOK
  <2> HIDE DEF rest
  <2>4. QED
    BY <1>1, <1>3, <1>4, <2>2, <2>3
<1>5. CASE t \notin Holders
  <2>1. rest = Holders
    BY <1>5
  <2>2. Reserved = SumOver(est, rest)
    BY <2>1 DEF Reserved
  <2> HIDE DEF rest
  <2>3. QED
    BY <1>1, <1>3, <1>5, <2>2
<1>6. QED
  BY <1>4, <1>5

-----------------------------------------------------------------------------
(* What a step can do to the books: nothing; end a group, which refunds,   *)
(* settles or books its reservation; look a budget up; make a reservation. *)
Still == UNCHANGED <<mode, cycle, est, poolCycle, spent, settled>> /\ month <= month'

EndsGroup(t) ==
  /\ ForgetBudget(t) /\ UNCHANGED <<poolCycle, month>>
  /\ \/ est[t] = 0 /\ UNCHANGED <<spent, settled>>
     \/ Refund(t) /\ UNCHANGED settled
     \/ UNCHANGED spent /\ settled' = IF t \in Holders THEN settled + est[t] ELSE settled
     \/ \E fee \in 1 .. est[t] + Excess : Book(t, fee)

LEMMA BookSteps ==
  ASSUME Inv, [Next]_vars
  PROVE  \/ Still
         \/ \E t \in Tasks : \/ EndsGroup(t)
                            \/ LookUp(t)
                            \/ \E fee \in Fees : Reserve(t, fee)
<1> USE DEF Inv
<1>0. month \in Int
  BY DEF TypeOK
<1>1. CASE UNCHANGED vars
  BY <1>0, <1>1 DEF vars, groupVars, budgetVars, Still
<1>2. CASE NewRun \/ MonthEnds \/ \E t \in Tasks : Assign(t) \/ HistoryAges(t) \/ ThrowsHolding(t)
  BY <1>0, <1>2 DEF NewRun, MonthEnds, Assign, HistoryAges, ThrowsHolding, groupVars, budgetVars, Still
<1>3. ASSUME NEW t \in Tasks, Step(t)
      PROVE  \/ Still
             \/ EndsGroup(t)
             \/ LookUp(t)
             \/ \E fee \in Fees : Reserve(t, fee)
  <2>1. CASE Skip(t) \/ Begin(t) \/ KeyFound(t) \/ KeyMissing(t)
    BY <1>0, <2>1 DEF Skip, Begin, KeyFound, KeyMissing, groupVars, budgetVars, Still
  <2>2. ASSUME End(t), pc[t] # "submit", UNCHANGED <<budgetVars, month>>
        PROVE  EndsGroup(t)
    BY <2>2 DEF End, EndsGroup, budgetVars, EstimateInScope
  <2>3. CASE PolicyKey(t)
    <3>1. CASE Goto(t, "group") /\ UNCHANGED <<held, waiting, todo, groupVars>>
      BY <1>0, <2>3, <3>1 DEF PolicyKey, groupVars, budgetVars, Still
    <3>2. CASE End(t)
      BY <2>2, <2>3, <3>2 DEF PolicyKey
    <3>3. QED
      BY <2>3, <3>1, <3>2 DEF PolicyKey
  <2>4. CASE BalanceTooLow(t) \/ SimulationThrows(t) \/ \E fee \in Fees : Refuse(t, fee)
    BY <2>2, <2>4 DEF BalanceTooLow, SimulationThrows, Refuse
  <2>5. CASE SubmissionFails(t)
    BY <2>5, EndGroupKeeps DEF SubmissionFails, EndsGroup
  <2>6. CASE TtlReadThrows(t)
    BY <2>6 DEF TtlReadThrows, End, EndsGroup
  <2>7. ASSUME NEW fee \in 1 .. est[t] + Excess, Extended(t, fee)
        PROVE  EndsGroup(t)
    BY <2>7, EndGroupKeeps DEF Extended, EndsGroup
  <2>8. QED
    BY <1>3, <2>1, <2>3, <2>4, <2>5, <2>6, <2>7 DEF Step, Prepare, Extend
<1>4. QED
  BY <1>1, <1>2, <1>3 DEF Next

(* A lookup that begins a billing cycle finds no reservation of it.        *)
LEMMA LookUpBalances ==
  ASSUME NEW t \in Tasks, Inv, CyclesBehind, BooksBalance, LookUp(t)
  PROVE  BooksBalance' /\ CyclesBehind'
<1> USE DEF Inv
<1>1. est[t] = 0 /\ est' = est /\ month' = month
  BY DEF EstimateInScope, LookUp
<1>2. \A u \in Tasks \ {t} : mode'[u] = mode[u] /\ cycle'[u] = cycle[u]
  BY DEF LookUp, TypeOK
<1>3. mode'[t] = BudgetOf(t) /\ cycle'[t] = month
  BY DEF LookUp, TypeOK
<1>4. poolCycle \in Int /\ month \in Int /\ \A u \in Tasks : cycle[u] \in Int
  BY DEF TypeOK
<1>5. \/ poolCycle' = poolCycle /\ spent' = spent /\ settled' = settled
      \/ poolCycle # month /\ poolCycle' = month /\ spent' = 0 /\ settled' = 0
  BY DEF LookUp, Rollover
<1>6. t \in members => poolCycle' = month
  BY DEF LookUp, Rollover
<1>7. CyclesBehind'
  <2>1. poolCycle' <= month' /\ poolCycle <= poolCycle' /\ poolCycle' \in Int
    BY <1>1, <1>4, <1>5 DEF CyclesBehind
  <2>2. mode'[t] = "pool" => cycle'[t] <= poolCycle'
    BY <1>3, <1>4, <1>6 DEF BudgetOf
  <2>3. \A u \in Tasks \ {t} : mode'[u] = "pool" => cycle'[u] <= poolCycle'
    BY <1>2, <1>4, <2>1 DEF CyclesBehind
  <2>4. QED
    BY <2>1, <2>2, <2>3 DEF CyclesBehind
<1>8. CASE poolCycle' = poolCycle /\ spent' = spent /\ settled' = settled
  <2>1. Holders' = Holders
    BY <1>1, <1>2, <1>8 DEF Holders
  <2>2. QED
    BY <1>1, <1>7, <1>8, <2>1, BooksAreReserved, BooksAreReservedNext DEF Reserved
<1>9. CASE poolCycle # month /\ poolCycle' = month /\ spent' = 0 /\ settled' = 0
  <2>1. ASSUME NEW u \in Holders'
        PROVE  FALSE
    <3>1. u \in Tasks /\ u # t /\ mode[u] = "pool" /\ cycle[u] = month
      BY <1>1, <1>2, <1>9 DEF Holders
    <3>2. cycle[u] <= poolCycle /\ poolCycle <= month
      BY <3>1 DEF CyclesBehind
    <3>3. QED
      BY <1>4, <1>9, <3>1, <3>2
  <2>2. Holders' = {}
    BY <2>1
  <2>3. SumOver(est', Holders') = 0
    BY <2>2, HoldersAreFinite, SumOverUnfolds
  <2>4. QED
    BY <1>7, <1>9, <2>3, BooksAreReservedNext
<1>10. QED
  BY <1>5, <1>8, <1>9

LEMMA ReserveBalances ==
  ASSUME NEW t \in Tasks, NEW fee \in Fees, Inv, CyclesBehind, BooksBalance, Reserve(t, fee)
  PROVE  BooksBalance' /\ CyclesBehind'
<1> USE DEF Inv
<1>1. /\ est[t] = 0 /\ est' = [est EXCEPT ![t] = fee]
      /\ mode' = mode /\ cycle' = cycle /\ poolCycle' = poolCycle /\ settled' = settled /\ month' = month
      /\ spent' = IF mode[t] = "pool" THEN spent + fee ELSE spent
  BY DEF EstimateInScope, Reserve
<1>2. fee \in Nat /\ (mode[t] = "pool" => cycle[t] = poolCycle)
  BY ExtensionAssumption DEF Reserve, Affordable, Fits
<1>3. CyclesBehind'
  BY <1>1 DEF CyclesBehind
<1>4. est'[t] = fee /\ \A u \in Tasks \ {t} : est'[u] = est[u] /\ est[u] \in Nat
  BY <1>1 DEF TypeOK
<1>5. t \notin Holders /\ IsFiniteSet(Holders)
  BY <1>1, HoldersAreFinite DEF Holders
<1>6. SumOver(est', Holders) = Reserved /\ Reserved \in Nat
  <2>1. \A u \in Holders : est'[u] = est[u]
    BY <1>4, <1>5 DEF Holders
  <2>2. QED
    BY <1>5, <2>1, SumOverSame, ReservedIsNat DEF Reserved
<1>7. spent \in Int /\ settled \in Nat /\ spent = settled + Reserved
  BY BooksAreReserved DEF TypeOK
<1>8. CASE mode[t] = "pool" /\ fee > 0
  <2>1. Holders' = Holders \cup {t}
    BY <1>1, <1>2, <1>4, <1>8 DEF Holders
  <2>2. Holders' \ {t} = Holders /\ t \in Holders'
    BY <1>5, <2>1
  <2>3. \A u \in Holders' : est'[u] \in Int
    BY <1>2, <1>4 DEF Holders
  <2>4. SumOver(est', Holders') = fee + SumOver(est', Holders)
    <3>1. SumOver(est', Holders') = est'[t] + SumOver(est', Holders' \ {t})
      BY <2>2, <2>3, HoldersAreFinite, SumOverElement
    <3>2. QED
      BY <1>4, <2>2, <3>1
  <2>5. spent' = spent + fee
    BY <1>1, <1>8
  <2>6. spent' = settled' + SumOver(est', Holders')
    BY <1>1, <1>2, <1>6, <1>7, <2>4, <2>5
  <2>7. QED
    BY <1>3, <2>6, BooksAreReservedNext
<1>9. CASE ~(mode[t] = "pool" /\ fee > 0)
  <2>1. Holders' = Holders
    BY <1>1, <1>2, <1>4, <1>9 DEF Holders
  <2>2. spent' = spent
    BY <1>1, <1>2, <1>7, <1>9
  <2>3. QED
    BY <1>1, <1>3, <1>6, <1>7, <2>1, <2>2, BooksAreReservedNext
<1>10. QED
  BY <1>8, <1>9

LEMMA GroupBalances ==
  ASSUME NEW t \in Tasks, Inv, CyclesBehind, BooksBalance, EndsGroup(t)
  PROVE  BooksBalance' /\ CyclesBehind'
<1> USE DEF Inv
<1> DEFINE after == SumOver(est', Holders')
           share == IF t \in Holders THEN est[t] ELSE 0
<1>1. ForgetBudget(t) /\ poolCycle' = poolCycle /\ month' = month
  BY DEF EndsGroup
<1>2. CyclesBehind'
  <2>1. mode'[t] = "free" /\ \A u \in Tasks \ {t} : mode'[u] = mode[u] /\ cycle'[u] = cycle[u]
    BY <1>1 DEF ForgetBudget, TypeOK
  <2>2. QED
    BY <1>1, <2>1 DEF CyclesBehind
<1>3. after \in Nat /\ after = Reserved - share
  BY <1>1, ReservedAfterGroup
<1>4. Reserved \in Nat /\ spent \in Int /\ settled \in Nat /\ est[t] \in Nat
  BY ReservedIsNat DEF TypeOK
<1>5. spent = settled + Reserved
  BY BooksAreReserved
<1>6. share \in Nat
  BY <1>4
<1>7. (est[t] = 0 => share = 0) /\ (t \in Holders => share = est[t]) /\ (t \notin Holders => share = 0)
  OBVIOUS
<1> HIDE DEF after, share
<1>8. spent' = settled' + after
  <2>1. CASE est[t] = 0 /\ UNCHANGED <<spent, settled>>
    BY <1>3, <1>4, <1>5, <1>6, <1>7, <2>1
  <2>2. CASE Refund(t) /\ UNCHANGED settled
    <3>1. spent' = IF t \in Holders THEN AtLeastZero(spent - est[t]) ELSE spent
      BY <2>2 DEF Refund
    <3>2. spent - share = settled + after
      BY <1>3, <1>4, <1>5, <1>6
    <3>3. AtLeastZero(spent - share) = spent - share
      BY <1>3, <1>4, <1>6, <3>2 DEF AtLeastZero
    <3>4. spent' = spent - share
      BY <1>4, <1>7, <3>1, <3>3
    <3>5. QED
      BY <2>2, <3>2, <3>4
  <2>3. CASE UNCHANGED spent /\ settled' = IF t \in Holders THEN settled + est[t] ELSE settled
    <3>1. settled' = settled + share
      BY <1>4, <1>7, <2>3
    <3>2. QED
      BY <1>3, <1>4, <1>5, <1>6, <2>3, <3>1
  <2>4. ASSUME NEW fee \in 1 .. est[t] + Excess, Book(t, fee)
        PROVE  spent' = settled' + after
    <3>1. est[t] + Excess \in Int /\ fee \in Int
      BY <1>4, ExtensionAssumption
    <3>2. CASE t \in Holders
      <4>1. spent' = spent + fee - est[t] /\ settled' = settled + fee
        BY <2>4, <3>2 DEF Book
      <4>2. share = est[t]
        BY <1>7, <3>2
      <4>3. QED
        BY <1>3, <1>4, <1>5, <3>1, <4>1, <4>2
    <3>3. CASE t \notin Holders
      <4>1. spent' = spent /\ settled' = settled /\ share = 0
        BY <1>7, <2>4, <3>3 DEF Book
      <4>2. QED
        BY <1>3, <1>4, <1>5, <4>1
    <3>4. QED
      BY <3>2, <3>3
  <2>5. QED
    BY <2>1, <2>2, <2>3, <2>4 DEF EndsGroup
<1>9. QED
  BY <1>2, <1>8, BooksAreReservedNext DEF after

(* What the pool has booked is what the finished transactions came to and  *)
(* the reservations in progress, for any number of contracts that share    *)
(* the pool and however their groups, the months and the refunds           *)
(* interleave: no reservation is refunded twice or against another cycle.  *)
THEOREM BooksAlwaysBalance == Spec => []BooksBalance
<1>1. Init => CyclesBehind /\ BooksBalance
  <2> SUFFICES ASSUME Init
               PROVE  CyclesBehind /\ BooksBalance
    OBVIOUS
  <2>1. CyclesBehind
    BY DEF Init, CyclesBehind
  <2>2. Holders = {}
    BY DEF Init, Holders
  <2>3. Reserved = 0
    BY <2>2, HoldersAreFinite, SumOverUnfolds DEF Reserved
  <2>4. QED
    BY <2>1, <2>3, BooksAreReserved DEF Init
<1>2. Inv /\ CyclesBehind /\ BooksBalance /\ [Next]_vars => CyclesBehind' /\ BooksBalance'
  <2> SUFFICES ASSUME Inv, CyclesBehind, BooksBalance, [Next]_vars
               PROVE  CyclesBehind' /\ BooksBalance'
    OBVIOUS
  <2>1. CASE Still
    <3>1. Holders' = Holders
      BY <2>1 DEF Still, Holders
    <3>2. BooksBalance'
      BY <2>1, <3>1, BooksAreReserved, BooksAreReservedNext DEF Still, Reserved
    <3>3. poolCycle \in Int /\ month \in Int /\ month' \in Int
      BY NextKeeps DEF Inv, TypeOK
    <3>4. CyclesBehind'
      BY <2>1, <3>3 DEF Still, CyclesBehind
    <3>5. QED
      BY <3>2, <3>4
  <2>2. QED
    BY <2>1, BookSteps, GroupBalances, LookUpBalances, ReserveBalances
<1>3. QED
  BY <1>1, <1>2, ExtensionInvariant, PTL DEF Spec
=============================================================================
