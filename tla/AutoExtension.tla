---------------------------- MODULE AutoExtension ----------------------------
(***************************************************************************)
(* runAutoExtensions (core/extension.ts): one task per contract that has   *)
(* entries to extend, all of one run concurrent.  A task borrows a channel *)
(* account, splits its entries into groups of one target TTL and sends one *)
(* transaction per group, each against a monthly budget: a pool shared by  *)
(* several contracts, from which the estimated fee is reserved before the  *)
(* submission and corrected or refunded after it, or the row the contract  *)
(* has in the table budgets.                                               *)
(*                                                                         *)
(* An action is the code between two awaits, but the submission and the    *)
(* TTL read after it are one step, as nothing changes between them.  The   *)
(* channel account pool is the abstract one, which ChannelPool implements. *)
(* Fees are small numbers of some unit; an estimate of 0 is a simulation   *)
(* the node refused, which simulateExtension passes on as a success        *)
(* without a fee.  Without channel accounts to borrow, a task takes the    *)
(* path of one whose account has no key.                                   *)
(***************************************************************************)
EXTENDS Integers, FiniteSets, FiniteSetsExt

CONSTANTS
  Tasks,              \* the contracts with an enabled policy
  Slots, NoSlot,      \* the channel accounts, and none
  MaxEntries,         \* bound: entries of a contract that need extension
  HOURLY_RATE_LIMIT,  \* history rows per contract and hour
  Fees,               \* the estimates a simulation returns
  Excess,             \* most a charged fee exceeds its estimate by, and most
                      \* a transaction costs that was not estimated
  Ceiled, MaxFee,     \* policies with max_fee_stroops, and the ceiling
  PoolLimit,          \* monthly_limit_xlm of the shared pool
  Assigned,           \* contracts in the shared pool at first
  Rowed, RowLimit,    \* contracts with a row in budgets (first month), its limit
  Capped, Cap,        \* contracts given a limit with `budget set`, and the limit
  LastMonth           \* bound: billing cycles

ASSUME ExtensionAssumption ==
  /\ IsFiniteSet(Tasks)
  /\ NoSlot \notin Slots
  /\ MaxEntries \in Nat \ {0} /\ HOURLY_RATE_LIMIT \in Nat \ {0}
  /\ Fees \subseteq Nat /\ Excess \in Nat /\ MaxFee \in Nat
  /\ PoolLimit \in Nat /\ RowLimit \in Nat /\ Cap \in Nat /\ LastMonth \in Nat
  /\ Assigned \subseteq Tasks

VARIABLES
  pc,         \* pc[t]: where task t is
  held,       \* held[t]: the channel account task t has borrowed
  waiting,    \* tasks blocked in acquire()
  dbFailed,   \* history: a database error ended a task of this run
  todo,       \* todo[t]: entries of the groups t has not finished
  mode,       \* mode[t]: the budget the lookup found, "pool", "row" or "free"
  cycle,      \* cycle[t]: the billing cycle of the lookup
  est,        \* est[t]: the estimated fee of the group in progress
  members,    \* shared_budget_pool_contracts
  poolCycle,  \* shared_budget_pools.billing_cycle
  spent,      \* shared_budget_pools.spent_xlm
  settled,    \* history: what the finished reservations of poolCycle came to
  booked,     \* booked[t]: budgets.spent_xlm
  rows,       \* rows[t]: extension_history rows of the last hour
  paid,       \* history: what a capped contract's successful
              \* transactions have cost this month
  month       \* the billing cycle of the wall clock

budgetVars == <<members, poolCycle, spent, settled, booked>>
groupVars == <<mode, cycle, est>>
vars == <<pc, held, waiting, dbFailed, todo, groupVars, budgetVars, rows, paid, month>>

Alloc == INSTANCE SlotAllocator

Locations == {"ready", "waiting", "key", "policyKey", "group", "simulate", "submit", "done"}

Goto(t, l) == pc' = [pc EXCEPT ![t] = l]

(* Tasks with a reservation the shared pool's current cycle still carries. *)
Holders == {t \in Tasks : mode[t] = "pool" /\ est[t] > 0 /\ cycle[t] = poolCycle}

Init ==
  /\ pc = [t \in Tasks |-> "done"]
  /\ held = [t \in Tasks |-> NoSlot]
  /\ waiting = {} /\ dbFailed = FALSE
  /\ todo = [t \in Tasks |-> 0]
  /\ mode = [t \in Tasks |-> "free"]
  /\ cycle = [t \in Tasks |-> 0]
  /\ est = [t \in Tasks |-> 0]
  /\ members = Assigned
  /\ poolCycle = 0 /\ spent = 0 /\ settled = 0
  /\ booked = [t \in Tasks |-> 0]
  /\ rows = [t \in Tasks |-> 0]
  /\ paid = [t \in Tasks |-> 0]
  /\ month = 0

-----------------------------------------------------------------------------
(* The next run, with a fresh channel pool, once Promise.all has seen every *)
(* task of the last one; ready are those with entries below the threshold. *)
NewRun ==
  /\ \A t \in Tasks : pc[t] = "done"
  /\ \E ready \in SUBSET Tasks \ {{}} :
       pc' = [t \in Tasks |-> IF t \in ready THEN "ready" ELSE "done"]
  /\ held' = [t \in Tasks |-> NoSlot]
  /\ waiting' = {} /\ dbFailed' = FALSE
  /\ UNCHANGED <<todo, groupVars, budgetVars, rows, paid, month>>

(* Mutant: the limit itself passes. *)
RateLimitedLate(t) == rows[t] > HOURLY_RATE_LIMIT

RateLimited(t) == rows[t] >= HOURLY_RATE_LIMIT

(* Rate limited, or every entry extended less than the cooldown ago. *)
Skip(t) ==
  /\ pc[t] = "ready"
  /\ RateLimited(t) \/ rows[t] > 0
  /\ Goto(t, "done")
  /\ UNCHANGED <<held, waiting, todo, groupVars, budgetVars, rows, paid, month, dbFailed>>

Borrow(t) ==
  \/ \E s \in Slots : Alloc!Lend(t, s) /\ Goto(t, "key")
  \/ Alloc!Block(t) /\ Goto(t, "waiting")

Begin(t) ==
  /\ pc[t] = "ready"
  /\ ~RateLimited(t)
  /\ \E n \in 1 .. MaxEntries : todo' = [todo EXCEPT ![t] = n]
  /\ Borrow(t)
  /\ UNCHANGED <<groupVars, budgetVars, rows, paid, month, dbFailed>>

(* release(), when the task has an account; a waiting task resumes with it. *)
GiveBackAndGoto(t, l) ==
  \/ held[t] = NoSlot /\ UNCHANGED <<held, waiting>> /\ Goto(t, l)
  \/ Alloc!GiveBack(t) /\ Goto(t, l)
  \/ \E u \in waiting, s \in Slots :
       Alloc!HandOver(t, u, s) /\ pc' = [pc EXCEPT ![t] = l, ![u] = "key"]

(* What a group knows of its budget is out of scope after it. *)
ForgetBudget(t) ==
  /\ mode' = [mode EXCEPT ![t] = "free"]
  /\ cycle' = [cycle EXCEPT ![t] = 0]
  /\ est' = [est EXCEPT ![t] = 0]

(* Mutant: the early return forgets release(). *)
EndUnreleased(t) ==
  /\ UNCHANGED <<held, waiting>>
  /\ Goto(t, "done")
  /\ todo' = [todo EXCEPT ![t] = 0]
  /\ ForgetBudget(t)

(* A task is over: its return or its throw passes through release(). *)
End(t) ==
  /\ GiveBackAndGoto(t, "done")
  /\ todo' = [todo EXCEPT ![t] = 0]
  /\ ForgetBudget(t)

-----------------------------------------------------------------------------
(* The account's key resolves and its balance suffices. *)
KeyFound(t) ==
  /\ pc[t] = "key"
  /\ Goto(t, "group")
  /\ UNCHANGED <<held, waiting, todo, groupVars, budgetVars, rows, paid, month, dbFailed>>

(* The key resolves, the balance is unknown or below MINIMUM_BALANCE_XLM.  *)
BalanceTooLow(t) ==
  /\ pc[t] = "key"
  /\ End(t)
  /\ UNCHANGED <<budgetVars, rows, paid, month, dbFailed>>

(* A database error before the inner try: no release(). *)
ThrowsHolding(t) ==
  /\ pc[t] = "key"
  /\ Goto(t, "done")
  /\ todo' = [todo EXCEPT ![t] = 0]
  /\ dbFailed' = TRUE
  /\ UNCHANGED <<held, waiting, groupVars, budgetVars, rows, paid, month>>

(* The account has no key: it goes back, the policy's key is tried. *)
KeyMissing(t) ==
  /\ pc[t] = "key"
  /\ GiveBackAndGoto(t, "policyKey")
  /\ UNCHANGED <<todo, groupVars, budgetVars, rows, paid, month, dbFailed>>

PolicyKey(t) ==
  /\ pc[t] = "policyKey"
  /\ \/ Goto(t, "group") /\ UNCHANGED <<held, waiting, todo, groupVars>>
     \/ End(t)
  /\ UNCHANGED <<budgetVars, rows, paid, month, dbFailed>>

-----------------------------------------------------------------------------
(* Pool membership takes precedence over the contract's own row. *)
BudgetOf(t) ==
  CASE t \in members -> "pool"
    [] t \notin members /\ t \in Rowed /\ month = 0 -> "row"
    [] OTHER -> "free"

(* A stale pool starts the new billing cycle with nothing spent. *)
Rollover ==
  /\ poolCycle' = month
  /\ spent' = IF poolCycle = month THEN spent ELSE 0
  /\ settled' = IF poolCycle = month THEN settled ELSE 0

(* The lookup of a group; without a budget or a ceiling nothing is         *)
(* simulated.  It is a step of its own, because other processes and the    *)
(* clock may come before the first of its statements.                      *)
LookUp(t) ==
  /\ pc[t] = "group"
  /\ mode' = [mode EXCEPT ![t] = BudgetOf(t)]
  /\ cycle' = [cycle EXCEPT ![t] = month]
  /\ UNCHANGED est
  /\ \/ t \in members /\ Rollover
     \/ t \notin members /\ UNCHANGED <<poolCycle, spent, settled>>
  /\ Goto(t, IF BudgetOf(t) = "free" /\ t \notin Ceiled THEN "submit" ELSE "simulate")
  /\ UNCHANGED <<held, waiting, todo, members, booked, rows, paid, month, dbFailed>>

(* Mutant: the pool only has to have something left. *)
FitsLoosely(t, fee) ==
  CASE mode[t] = "pool" -> cycle[t] = poolCycle /\ spent <= PoolLimit
    [] mode[t] = "row" -> booked[t] + fee <= RowLimit
    [] mode[t] = "free" -> TRUE

(* The pool's conditional UPDATE finds its row, or the row of the contract *)
(* has room.                                                               *)
Fits(t, fee) ==
  CASE mode[t] = "pool" -> cycle[t] = poolCycle /\ spent + fee <= PoolLimit
    [] mode[t] = "row" -> booked[t] + fee <= RowLimit
    [] mode[t] = "free" -> TRUE

Affordable(t, fee) == (t \in Ceiled => fee <= MaxFee) /\ Fits(t, fee)

Reserve(t, fee) ==
  /\ pc[t] = "simulate"
  /\ Affordable(t, fee)
  /\ est' = [est EXCEPT ![t] = fee]
  /\ spent' = IF mode[t] = "pool" THEN spent + fee ELSE spent
  /\ Goto(t, "submit")
  /\ UNCHANGED <<held, waiting, todo, mode, cycle, members, poolCycle, settled>>
  /\ UNCHANGED <<booked, rows, paid, month, dbFailed>>

(* Above the ceiling or the budget: throws, and the groups left are dropped. *)
Refuse(t, fee) ==
  /\ pc[t] = "simulate"
  /\ ~Affordable(t, fee)
  /\ End(t)
  /\ UNCHANGED <<budgetVars, rows, paid, month, dbFailed>>

SimulationThrows(t) ==
  /\ pc[t] = "simulate"
  /\ End(t)
  /\ UNCHANGED <<budgetVars, rows, paid, month, dbFailed>>

-----------------------------------------------------------------------------
(* A group of n entries is done with: the next one, or the end of the loop. *)
EndGroup(t, n) ==
  \/ /\ n < todo[t]
     /\ todo' = [todo EXCEPT ![t] = @ - n]
     /\ Goto(t, "group")
     /\ ForgetBudget(t)
     /\ UNCHANGED <<held, waiting>>
  \/ /\ n = todo[t]
     /\ End(t)

(* History: counted until the cap is certainly overrun. *)
Pay(t, fee) ==
  paid' = [paid EXCEPT ![t] = IF t \in Capped /\ @ <= Cap + Excess THEN @ + fee ELSE @]

AtLeastZero(n) == IF n < 0 THEN 0 ELSE n

(* Mutant: the refund reaches whatever cycle the pool is in. *)
RefundAnyCycle(t) ==
  spent' = IF mode[t] = "pool" THEN AtLeastZero(spent - est[t]) ELSE spent

Refund(t) == spent' = IF t \in Holders THEN AtLeastZero(spent - est[t]) ELSE spent

(* success: false.  A transaction that failed on chain, or that landed     *)
(* after polling gave up, has cost a fee that nothing records.             *)
SubmissionFails(t) ==
  /\ pc[t] = "submit"
  /\ Refund(t)
  /\ \E n \in 1 .. todo[t] : EndGroup(t, n)
  /\ UNCHANGED <<members, poolCycle, settled, booked, rows, paid, month, dbFailed>>

(* Submitted, and the TTL read throws: no history row, and the reservation *)
(* stays.                                                                  *)
TtlReadThrows(t) ==
  /\ pc[t] = "submit"
  /\ settled' = IF t \in Holders THEN settled + est[t] ELSE settled
  /\ End(t)
  /\ \E fee \in 1 .. est[t] + Excess : Pay(t, fee)
  /\ UNCHANGED <<members, poolCycle, spent, booked, rows, month, dbFailed>>

(* The history rows are written and the reservation becomes the fee; an    *)
(* estimate of 0 books nothing.                                            *)
Book(t, fee) ==
  /\ spent' = IF t \in Holders THEN spent + fee - est[t] ELSE spent
  /\ settled' = IF t \in Holders THEN settled + fee ELSE settled
  /\ booked' = IF mode[t] = "row" /\ est[t] > 0 THEN [booked EXCEPT ![t] = @ + fee] ELSE booked

Extended(t, fee) ==
  /\ pc[t] = "submit"
  /\ Book(t, fee)
  /\ Pay(t, fee)
  /\ \E n \in 1 .. todo[t] : EndGroup(t, n) /\ rows' = [rows EXCEPT ![t] = @ + n]
  /\ UNCHANGED <<members, poolCycle, month, dbFailed>>

-----------------------------------------------------------------------------
(* `budget pool assign`, by another process, at any time. *)
Assign(t) ==
  /\ t \notin members
  /\ members' = members \cup {t}
  /\ UNCHANGED <<pc, held, waiting, todo, groupVars, poolCycle, spent, settled, booked, rows, paid, month, dbFailed>>

(* The oldest history row of a contract leaves the window of one hour. *)
HistoryAges(t) ==
  /\ rows[t] > 0
  /\ rows' = [rows EXCEPT ![t] = @ - 1]
  /\ UNCHANGED <<pc, held, waiting, todo, groupVars, budgetVars, paid, month, dbFailed>>

MonthEnds ==
  /\ month < LastMonth
  /\ month' = month + 1
  /\ paid' = [t \in Tasks |-> 0]
  /\ UNCHANGED <<pc, held, waiting, todo, groupVars, budgetVars, rows, dbFailed>>

Prepare(t) ==
  Skip(t) \/ Begin(t) \/ KeyFound(t) \/ BalanceTooLow(t) \/ KeyMissing(t) \/ PolicyKey(t)
Extend(t) ==
  \/ LookUp(t) \/ SimulationThrows(t) \/ SubmissionFails(t) \/ TtlReadThrows(t)
  \/ \E fee \in Fees : Reserve(t, fee) \/ Refuse(t, fee)
  \/ \E fee \in 1 .. est[t] + Excess : Extended(t, fee)
Step(t) == Prepare(t) \/ Extend(t)

Next ==
  \/ NewRun \/ MonthEnds
  \/ \E t \in Tasks : Step(t) \/ ThrowsHolding(t) \/ Assign(t) \/ HistoryAges(t)

(* Every await of a task ends. *)
Fairness == \A t \in Tasks : WF_vars(Step(t))

Spec == Init /\ [][Next]_vars
FairSpec == Spec /\ Fairness

-----------------------------------------------------------------------------
(* Type invariant of the run's and the budgets' variables. *)
TypeOK ==
  /\ pc \in [Tasks -> Locations]
  /\ held \in [Tasks -> Slots \cup {NoSlot}]
  /\ waiting = {t \in Tasks : pc[t] = "waiting"}
  /\ dbFailed \in BOOLEAN
  /\ todo \in [Tasks -> 0 .. MaxEntries]
  /\ mode \in [Tasks -> {"pool", "row", "free"}]
  /\ cycle \in [Tasks -> 0 .. LastMonth]
  /\ est \in [Tasks -> Nat]
  /\ members \subseteq Tasks
  /\ poolCycle \in 0 .. LastMonth
  /\ spent \in Int /\ settled \in Nat
  /\ booked \in [Tasks -> Nat]
  /\ rows \in [Tasks -> Nat]
  /\ paid \in [Tasks -> Nat]
  /\ month \in 0 .. LastMonth

(* However the tasks that share a budget interleave, and whatever is       *)
(* refunded, no budget is overrun by more than one fee's excess over its   *)
(* estimate per task ("so concurrent contracts sharing a pool can't both   *)
(* slip past the cap between check and increment", extension.ts:674).      *)
CapsHold ==
  /\ spent <= PoolLimit + Excess * Cardinality(Tasks)
  /\ \A t \in Tasks : booked[t] <= RowLimit + Excess

(* What the pool has booked in its billing cycle is what the finished      *)
(* transactions came to plus the reservations in progress: none is         *)
(* refunded twice, or against a cycle it was not made in.                  *)
BooksBalance == spent = settled + MapThenSumSet(LAMBDA t : est[t], Holders)

(* The limiter looks once per run, so a contract's history overshoots the  *)
(* limit by at most the entries of one run, not without bound.             *)
RateOvershootIsOneRun ==
  \A t \in Tasks : rows[t] < HOURLY_RATE_LIMIT + MaxEntries

(* Promise.all resolves: every account comes back, no task waits for one   *)
(* for ever, unless a database error ended a task between acquire() and    *)
(* the try block.                                                          *)
EveryTaskEnds == \A t \in Tasks : pc[t] # "done" ~> pc[t] = "done" \/ dbFailed

(* "When a monthly XLM cap is reached, Sorokeep blocks automated           *)
(* extensions" (docs/vs-manual-scripts.md:74): a contract given a limit    *)
(* with `budget set`, and in no pool, pays no more than it in a month, up  *)
(* to one fee's excess.                                                    *)
MonthlyCapHolds == \A t \in Capped \ members : paid[t] <= Cap + Excess
=============================================================================
