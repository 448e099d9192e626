---------------------------- MODULE CostSnapshots ----------------------------
(***************************************************************************)
(* The daily cost snapshots and the reports made from them:                *)
(* aggregateDailyCostSnapshots, run by every cycle of the daemon,          *)
(* getContractCostSummary and getFleetCostRollup (repositories.ts), and    *)
(* getExtensionHistory, which the costs command sums itself                *)
(* (core/costs.ts).  Time is counted in half-days: a UTC date has two of   *)
(* them, because the reports cut their periods differently.  The columns   *)
(* by entry type are sums like the total and are left out.                 *)
(***************************************************************************)
EXTENDS Integers, FiniteSets, FiniteSetsExt

CONSTANTS
  Contracts,
  TaggedContracts,  \* the contracts whose tags match the tag of --tag
  Prices,           \* cost_xlm of an extension, 0 for one without a fee
  WINDOW,           \* the days an aggregation rebuilds (7 in the code)
  MaxDay,           \* bound: the last day
  MaxPerDay         \* bound: the extensions of a contract on a date

(* A cost is a fee the network charged, and never negative. *)
ASSUME CostAssumption ==
  /\ TaggedContracts \subseteq Contracts /\ IsFiniteSet(Contracts)
  /\ Prices \subseteq Nat
  /\ WINDOW \in Nat /\ MaxDay \in Nat

VARIABLES
  halfDay,
  extensions,   \* extensions[c][t]: the rows of extension_history of that time
  snapshots,    \* snapshots[c][d]: the row of cost_daily_snapshots, or none
  aggregated    \* the days on which a cycle aggregated

costVars == <<halfDay, extensions, snapshots, aggregated>>

Days == 0 .. MaxDay
Times == 0 .. 2 * MaxDay + 1
DateOf(t) == t \div 2
today == DateOf(halfDay)
NoRow == [count |-> 0, cost |-> 0]

CostInit ==
  /\ halfDay = 0
  /\ extensions = [c \in Contracts |-> [t \in Times |-> NoRow]]
  /\ snapshots = [c \in Contracts |-> [d \in Days |-> NoRow]]
  /\ aggregated = {}

Total(column, when) ==
  MapThenSumSet(LAMBDA t : column[t], {t \in when : column[t] # 0})
Counts(rows) == [t \in DOMAIN rows |-> rows[t].count]
Costs(rows) == [t \in DOMAIN rows |-> rows[t].cost]
Sums(rows, when) == [count |-> Total(Counts(rows), when), cost |-> Total(Costs(rows), when)]
OnDate(d) == {2 * d, 2 * d + 1}

(* recordExtension *)
RecordExtension(c) ==
  /\ Total(Counts(extensions[c]), OnDate(today)) < MaxPerDay
  /\ \E p \in Prices :
       extensions' = [extensions EXCEPT ![c][halfDay] = [count |-> @.count + 1, cost |-> @.cost + p]]
  /\ UNCHANGED <<halfDay, snapshots, aggregated>>

(* Mutant: today's date is aggregated as well. *)
RebuiltWithToday == {d \in Days : d <= today /\ d >= today - WINDOW}

(* The days an aggregation looks at: before today, not older than WINDOW. *)
Rebuilt == {d \in Days : d < today /\ d >= today - WINDOW}

(* A day without extensions gets no row, and keeps the one it has. *)
aggregateDailyCostSnapshots ==
  /\ snapshots' = [c \in Contracts |-> [d \in Days |->
       IF d \in Rebuilt /\ Total(Counts(extensions[c]), OnDate(d)) > 0
       THEN Sums(extensions[c], OnDate(d)) ELSE snapshots[c][d]]]
  /\ aggregated' = aggregated \cup {today}
  /\ UNCHANGED <<halfDay, extensions>>

TimePasses ==
  /\ halfDay < 2 * MaxDay + 1
  /\ halfDay' = halfDay + 1
  /\ UNCHANGED <<extensions, snapshots, aggregated>>

(* unwatch: the rows of both tables go with the contract. *)
Forget(c) ==
  /\ extensions' = [extensions EXCEPT ![c] = [t \in Times |-> NoRow]]
  /\ snapshots' = [snapshots EXCEPT ![c] = [d \in Days |-> NoRow]]
  /\ UNCHANGED <<halfDay, aggregated>>

CostNext ==
  \/ \E c \in Contracts : RecordExtension(c) \/ Forget(c)
  \/ aggregateDailyCostSnapshots \/ TimePasses

CostSpec == CostInit /\ [][CostNext]_costVars

-----------------------------------------------------------------------------
(* The snapshots dated in the last n days, today included, and the history *)
(* of today.                                                               *)
getContractCostSummary(c, n) ==
  LET dates == {d \in Days : d >= today - (n - 1)}
      old == Sums(snapshots[c], dates)
      live == Sums(extensions[c], OnDate(today))
  IN  [count |-> old.count + live.count, cost |-> old.cost + live.cost]

(* getFleetCostRollup: the same over the contracts with the tag; the       *)
(* contracts are counted without regard to the days.                       *)
getFleetCostRollup(n) ==
  LET Sum(field) == MapThenSumSet(LAMBDA c : getContractCostSummary(c, n)[field], TaggedContracts)
  IN  [count |-> Sum("count"), cost |-> Sum("cost"),
       contracts |-> Cardinality({c \in TaggedContracts :
                       \/ \E d \in Days : snapshots[c][d].count > 0
                       \/ Total(Counts(extensions[c]), OnDate(today)) > 0})]

(* getExtensionHistory goes back n times 24 hours, and getExtensionCosts   *)
(* sums its rows.                                                          *)
getExtensionCosts(c, n) == Sums(extensions[c], {t \in Times : t >= halfDay - 2 * n})

(* Every day before today was looked at by an aggregation of a later day,  *)
(* the last of them today's.                                               *)
Covered ==
  \A d \in 0 .. today - 1 : \E a \in aggregated : a > d /\ a - WINDOW <= d

(* What the history of n days has and their summary has not: the rows of   *)
(* the date n days ago that are less than n times 24 hours old.            *)
Edge(c, n) ==
  LET ts == {t \in Times : t >= halfDay - 2 * n /\ DateOf(t) = today - n} IN Sums(extensions[c], ts)

(* The reports agree: unless a day went unlooked at, what the summary of a *)
(* contract says, made of snapshots and today's rows, is what its history  *)
(* says up to the edge of the period, and it never says more; a fleet is   *)
(* the sum of its contracts and counts every one that cost something.      *)
ReportsAgree ==
  \A n \in 1 .. MaxDay + 1 :
    /\ \A c \in Contracts :
         LET summary == getContractCostSummary(c, n)  history == getExtensionCosts(c, n) IN
         /\ summary.count <= history.count /\ summary.cost <= history.cost
         /\ Covered => /\ summary.count + Edge(c, n).count = history.count
                       /\ summary.cost + Edge(c, n).cost = history.cost
    /\ Covered =>
         Cardinality({c \in TaggedContracts : getContractCostSummary(c, n).count > 0})
           <= getFleetCostRollup(n).contracts
=============================================================================
