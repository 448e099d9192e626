# Sorokeep in TLA+

Sorokeep (the package in `src/`) watches Soroban contracts on Stellar, sends alerts
when the time to live (TTL) of a ledger entry falls below a threshold, and extends
entries automatically. This directory holds TLA+ models of the program, TLC
configurations that check them on small instances, and TLAPS proofs about them for
every value of their constants. Paths without a prefix are relative to `src/src/`.

`PROJECT.json` lists the components, the runs, one mutant per property (a
plausible bug the property detects), the source lines behind every definition, the
hazards of the code with the properties that cover them, and the theorems.

To check a run: `tlc -config AlertFaults.cfg MCAlertLifecycle.tla`. To check proofs:
`tlapm AlertLifecycleProofs.tla`.

## 1. Inventory

All components share one SQLite database, which CLI processes, the daemon and the
MCP server open at once. Inside a process Node runs one callback at a time, so
code interleaves only at `await`; better-sqlite3 is synchronous, so a database call
never gives way. Between processes the unit is the statement, or the transaction
where the code opens one. The models' actions are cut at these points: **one action is
the code between two awaits** where one process runs, and **one statement or
transaction** where processes meet on the database.

| component | state | operations | what is hard | what makes it correct | module |
|---|---|---|---|---|---|
| daemon loop (`daemon/loop.ts`) | `intervalHandle`, `cycleInFlight`, `lastDigestAt`, the timer | start, stop, tick, vacuum, digest, cycle | ticks, stops and restarts during a cycle; awaits before the guard is raised | one cycle at a time, no tick after a stop, monitoring goes on after failures | DaemonLoop |
| threshold alerts (`core/monitor.ts`, `alerts/dispatcher.ts`) | `alerts_fired`, targets, `contracts.active` | fire, resolve, deliver, retry, defer; edits | crashes between writes, overlapping cycles, lost answers, stale snapshots | one open crossing per config and entry; none lost or marked without delivery; retries bounded | AlertLifecycle |
| auto-extension (`core/extension.ts`, `db/budget.ts`) | `extension_history`, `budgets`, `shared_budget_pools` | select, rate limit, borrow an account, simulate, reserve, submit, book or refund | tasks on one budget, failures after each step, month roll-over | budgets hold up to a known excess, books balance, every task ends | AutoExtension |
| channel account pool (`core/channels.ts`) | free set, cursor, waiters | `acquire`, `release` | hand-over to waiters | exclusive, fair, no lost wake-up | ChannelPool, SlotAllocator |
| simulation cache (`core/simulation_cache.ts`) | `cache`, `pending` | `getSimulation`, `invalidate` | joins, failures and invalidations during a flight | one simulation in flight per footprint, bounded staleness | SimulationCache |
| RPC client (`rpc/client.ts`), `guard --key`, `restore`, `channels fund` | endpoint cooldowns; sequence numbers on chain | failover, submit, retry, poll; the reads | lost answers, resends, all endpoints down, nodes that lag | the outcome reported is the one on chain, no double payment, every call ends | RpcClient |
| rate limits (`rpc/client.ts`, `mcp/rateLimiter.ts`) | reserved times; counters per tool | `acquireSlot`, `tryConsume` | reservations in the future; window boundary | no window above the limit | RateLimits |
| guard policies (`commands/guard.ts`, `db/guard_policy_history.ts`, init, import, clone) | `extension_policies`, `guard_policy_history`, `entry_type_policies` | set, disable, bulk, preset, roll back, override, import, clone | columns that a write forgets; seven writers | a valid pair everywhere, the policy is the newest version, history is append-only | GuardPolicies |
| registry (`core/watch.ts`, watch, unwatch, pause, resume, tag, group) | `contracts`, `contract_entries`, tags, groups | register, introspect (24 h cache), edit | writes without a transaction, next to other processes | rows follow their contract, a success is stored, a cache hit is honest | Registry |
| TTL samples (`core/predictive.ts`) | `ttl_samples` | insert, prune, fit, project | what is fitted is an absolute ledger | prediction extends only what falls | TtlSamples |
| cost reports (`core/costs.ts`, `db/repositories.ts`) | `cost_daily_snapshots` | aggregate, summarise, roll up | dates against days, a daemon that was down | an extension is counted once | CostSnapshots |
| opening the database (`db/database.ts`, `db/migrator.ts`) | the schema, `schema_migrations` | schema.sql, migrations, ALTERs, rebuilds | processes that open it together, deaths between two steps, old releases | a recorded migration is there | Startup |
| backup (`db/backup.ts`) | three levels of tables, the file | export, import, merge | reads outside a transaction, ids that come back | a row keeps its owner | Backup |
| alert commands (`commands/alerts.ts`, clone, init) | `alert_configs`, targets, secrets | add, bulk add, clone, init, rotate, enable, remove | one statement per target, next to the daemon | an alert fires for all its targets, the shown secret signs | AlertConfigs |
| incident channels (`alerts/pagerduty.ts`, `alerts/opsgenie.ts`) | incidents at the service | trigger, resolve, test | two senders, shared keys, lost notices | incidents follow alerts | Incidents |
| state diff (`core/state_diff.ts`) | `state_snapshots`, `state_changes` | compare, insert, insert | observers that overlap or lag | the history reads as one story | StateDiff |
| health reports (status, fleet, check, digest, MCP, gauge, editor, GitHub action) | none of their own | classify | each measures against another ledger | they do not contradict each other | HealthReports |
| the rest | see `PROJECT.json` and section 7 | | | | |

How the parts interact in one tick: the loop tests `cycleInFlight`, vacuums, may send
a digest, then `executeCycle` raises the flag, awaits `runMonitorCycle` (which reads
TTLs through the RPC client, writes samples, fires and resolves alert rows, and at its
end runs `runAutoExtensions`, which borrows accounts from the pool and simulates
through the cache) and then `deliverPendingAlerts`; a `finally` lowers the flag. CLI
commands change the tables of the registry, the policies and the alert configurations
at any time between.

## 2. Modules

```
SlotAllocator  <--implements--  ChannelPool   \
      ^                         DaemonLoop      >--  DaemonProofs
      |                         SimulationCache/
      +--INSTANCE-- AutoExtension  <- AutoExtensionProofs  <- FiniteSums
AlertLifecycle   <- MCAlertLifecycle, AlertLifecycleProofs  <- FiniteSums
RpcClient        <- MCRpcClient, RpcClientProofs
GuardPolicies    <- MCGuardPolicies, GuardPoliciesProofs
Registry         <- MCRegistry, RegistryProofs
RateLimits, TtlSamples, CostSnapshots, Startup, Backup, AlertConfigs,
StateDiff, Incidents, HealthReports  <- MCBookkeeping, BookkeepingProofs  <- FiniteSums
```

**SlotAllocator** is what a pool promises: each account is free or lent to one task,
and a task that finds none is blocked until one is handed to it. **ChannelPool** is
`ChannelAccountPool`: the set of free accounts, the cursor of `nextFreeSlot`, the queue
of waiters. `Release` hands the account to the first waiter in the same step, as
`release` does (108-118). `NewCycle` is the fresh pool of the next
`runAutoExtensions`. `Implements` is the abstract specification as a property, under a
mapping that takes the loans and the members of the queue. AutoExtension uses the
abstract allocator, so that the detail of the queue is checked once.

**DaemonLoop**: a *flow* is an invocation of `startDaemon` (which runs the first cycle
itself, line 107) or a tick; `pc` says which await it is at. The guard is raised by
`executeCycle` (155), after the digest's await (243), and `startDaemon` does not read it:
both are visible in the actions. `patient` and `hasDigest` are chosen once, in
`Init`: whether the caller waits for `startDaemon` and for the last cycle before it
starts or stops again (as `commands/daemon.ts` does by ending the process), and
whether there are digests. Exclusion is claimed for a patient caller without digests
(section 6 has the other cases).

**AlertLifecycle** is one contract. `Detect` is the whole synchronous rest of
`processContract` after its RPC call: for every config and entry it fires one row per
target (277-296) or resolves the open rows and notifies (300-330). `TakePending`,
`Skip`, `Defer`, `Send`, `Succeed`, `Fail`, `DbError` and `EndCycle` are
`deliverPendingAlerts`. `Crash` and `CrashInDetect` end the process at any await or
between two INSERTs. The operator toggles configs, pauses the contract and edits
targets at any time. The rows of one crossing share an episode number, which stands
for the autoincremented ids; `received` is a history variable.

**AutoExtension** is `runAutoExtensions` (367-795) with `extendEntries` (227-365): one
run at a time, its tasks interleaving at every await. `Begin` borrows an account;
`KeyFound`, `BalanceTooLow`, `KeyMissing`/`PolicyKey` and `ThrowsHolding` decide who
signs (`KeyMissing` is any failure of `resolveSecretKey`, whichever store it asks);
`LookUp` reads the pool membership and rolls a stale billing cycle over; `Reserve`,
`Refuse` or `SimulationThrows` follow the simulation; `SubmissionFails`,
`TtlReadThrows` or `Extended` follow the submission and book, correct or refund. The
correction at 747 and the refund at 774 name the billing cycle they belong to, so a
roll-over in between makes them void: the model keeps both months.

**SimulationCache** is `SimulationCacheManager` with its caller. A *flight* is a
simulation in progress; `Fly`, `Join` and `Hit` are the three ways through
`getSimulation`, `Return` and `Fail` the two handlers, `Invalidate` line 351 of
`extension.ts`. `Extend` is an extension that lands; it owes an invalidation only if
`extendEntries` of this process gets that far.

**RpcClient** is `StellarRpcClient` over a network. A *flow* is one method in progress,
of a kind: the four submissions (`submitExtension`, with a fee bump, `submitRestore`,
`sendPayments`) with the commands that call them, and five reads. Each request is a
step; `Fails` moves to the next endpoint (`TryNext`) or throws, and for a
`sendTransaction` may leave the transaction under way all the same. `Sent` is the
answer with its statuses and the one rebuild after `txBadSeq`; `Found`/`NotFound` are
`pollTransaction`. `Arrive`, `Close` and `OtherTransaction` are the network, which is
external: one transaction of an account at a time, which a ledger applies, fails or
drops; a node may be a ledger behind. `GuardRefused`, `RestoreRefused` and the like are
the exits before any request; `Stored` is the TTL read and the write after success.

**GuardPolicies**: `upsertExtensionPolicy` is the one function that writes a policy and
appends a version; its callers are the actions (`guard`, `--auto-extend`, disable,
`--preset`, `--tag` as one step per contract with other commands between,
`--set-override`, rollback, import, clone, init, watch and unwatch). A policy or version
is a record of its columns; `PredictiveKept` is the rule for an omitted
`predictive_cycles`.

**Registry**: a watch asks the network in one step and then writes its rows one by one
(`Rank` gives the order); every other command is a statement between them, but `tag`,
which reads in one and writes in another. `overtaken` marks the watches whose rows
another process has changed since, `torn` the contracts unwatched while a watch was
writing them: both are history variables that the properties speak of.

The nine small modules are machines around the database that do not meet each other;
**MCBookkeeping** explores them in one run, one per behaviour (`part`), so that each
keeps its own small state space. Each has its own comment on what it leaves out, its own
specification (`RateSpec`, `SampleSpec`, ...) and, in **BookkeepingProofs**, its own
section. In TtlSamples the sums of the regression are taken over columns of the samples
(`SampledAt`, `LiveUntil`, their `Product`), and in CostSnapshots over columns of rows,
so that both can be reasoned about; in Startup a script is the set of its statements,
no two of which are about the same table or column.

## 3. Runs

Ten runs pass and two show a disagreement between the code and what its documents or
comments say.

| run | instance | what it shows |
|---|---|---|
| `channel_pool` | 5 tasks, 3 accounts | no idle account while somebody waits, first come first served, every task served, implements SlotAllocator |
| `daemon` | 3 successive daemons, 2 ticks in progress, any caller, with and without digests | one cycle at a time and no tick after a stop for a patient caller without digests; monitoring goes on as long as the process lives |
| `alert_one_cycle` | 1 config, 2 targets, lost answers, edits, quiet hours | every target gets its row, rows settle, only failures cost retries |
| `alert_faults` | 2 overlapping cycles, crashes, database errors, lost answers, 2 crossings | one open crossing per pair, at most one attempt too many per extra cycle, delivered means received |
| `simulation_cache` | 3 calls, 1 footprint, 2 contract states, 3 extensions | one flight per footprint, stale only if overtaken, every call ends |
| `auto_extension` | 2 contracts, 1 account, 1 pool, 1 budget row, 2 months | budgets hold up to one excess per task, books balance, the limiter overshoots by one run, every task ends |
| `rpc_client` | each of the nine methods, 2 endpoints, 2 polls, 2 foreign transactions | the reported outcome is the one on chain, nothing is paid twice but after a lost answer, no call is refused unasked, every call ends |
| `guard_policies` | 2 contracts, 1 of them tagged, 2 and more TTL pairs, up to 3 versions | thresholds stay below targets, the policy is the newest version, versions are kept, prediction is switched off only where it is asked for |
| `registry` | 2 watches, 1 tag command, 1 contract, 2 networks, 1 group | rows never outlive their contract, what a watch wrote stays until another process changes it, a cached success stands for a stored instance |
| `bookkeeping` | nine parts, see below | one property each |
| `extension_cap` | 1 contract with `budget set` | **violated** `MonthlyCapHolds`: the limit is written to a table that enforcement does not read |
| `startup_upgrade` | 1 process, a database of an older release | **violated** `AppliedMeansThere`: migration 14 is recorded although one of its columns is not there |

`bookkeeping` checks `RatesAreKept` (no second holds more than the client's limit however
many calls reserve ahead; a tool never gets more than twice its limit in any window of
that length, which is what a fixed window gives), `DueAsExpected`, `ReportsAgree`,
`AppliedMeansThere` (two processes, on an empty database or one that has migration 12),
`RowsKeepTheirOwner`, `FiresForTheWholeConfig`, `HistoryConnects`,
`IncidentsFollowAlerts` and `HealthAgrees`.

`AppliedMeansThere` is in a passing and in a violated run: it holds of databases
of releases with migration 12 (or of none), which is what it takes for both tables of
migration 14 to lack their column, and fails for those before it.

### Bounds and why they are enough

* *Pool*: two waiters at once need two tasks more than accounts; three accounts let
  the cursor pass an account in use and wrap.
* *Loop*: two ticks in progress are the least that overlap; three starts give a
  restart of a restart.
* *Alerts*: one entry and one config, since rows of different pairs never meet; two
  targets where rows of one crossing interact; one limit below and one above
  `MAX_RETRY_COUNT`; two crossings so that an old and a new one could both be open; two
  cycles for overlap. `alert_faults` has one target, because two make the space too
  large together with crashes; the proofs have any number.
* *Extension*: two tasks race for one budget and one account; fees 0 to 2 with a
  pool of 2 and an excess of 1 reach an exact fit, a refusal, an overrun and a
  refund of nothing; two entries per task against a rate limit of 1 overshoot it;
  one change of month meets every step of a task.
* *Cache*: three calls are a flight and two waiters, or a waiter and a newcomer.
* *Client*: two endpoints are enough for a resend to another node and for a cooldown of
  all; two foreign transactions invalidate a sequence number before the first and
  between the two attempts; two polls give a last and a first one. One flow at a time
  (what others do to the account and the endpoints are actions of their own).
* *Policies*: two contracts so that a clone, a bulk change and an unwatch interfere; three
  versions so that a rollback can be rolled back and name neither first nor last.
* *Registry*: two watches and every other command on one contract; the rows of different
  contracts never meet but in groups. The optional entries stand for the code entry
  and the manual keys, which are written before and after one another. The watchers
  and the networks are interchangeable, which the symmetry uses; the properties are
  safety only.
* *Bookkeeping*: windows of three ticks with limits of two; samples of three with ledgers
  to five; four days with a window of two; two processes opening; four alert ids of
  which two share a threshold and one is on another service. An export interleaves with
  two contracts and three ids; two observers overlap over three values.

Every bound is a constant with a comment that calls it one. Deadlock is checked in
`channel_pool`, `alert_*`, `simulation_cache` and `registry`. The daemon can
be stopped, an account that a database error leaks stops a run for ever
(`ThrowsHolding`, extension.ts 537-604), a method ends, a policy's versions and the
small machines run into their bounds: those configurations say `CHECK_DEADLOCK FALSE`.

### Fairness and why the code justifies it

Weak fairness of the continuation of each await, nothing more. Timers fire
(`setInterval`). An alert channel's request and a digest POST carry a timeout. A
transaction is polled 30 times. An RPC call tries each endpoint once; it has no
timeout of its own, and that the transport ends it is an assumption. Operators,
crashes, expiry, the network's ledgers, the month and the clock have no fairness.
`EveryAlertSettles` assumes in its statement that the config's quiet hours leave it
alone in the end, and `EveryTaskEnds` exempts the runs in which the database failed,
because there the code leaks the account. `KeepsMonitoring` is about a live process.

## 4. Proofs

All theorems hold for every value of the constants under the named assumptions of
the modules (finiteness of the sets whose size matters, types of the parameters,
null values outside the sets they stand beside).

| module | theorems | inductive invariant and why it is needed |
|---|---|---|
| DaemonProofs (pool) | OneTaskPerAccount, NoLostWakeUp, FirstComeFirstServed, PoolImplementsAllocator | `PoolInv`: loans, free set and queue partition accounts and tasks, the queue has no repetition, and it is empty while an account is free. Exclusion alone says nothing of an account that is handed over. |
| DaemonProofs (loop) | LoopTypeCorrect, GuardNeverStuck, GuardMeansCycle, OneCycleAtATime, OneTimerAtATime, StoppedStaysStopped | `LoopInv`, for a calm system (patient, no digests): all flows in a cycle are equal, the guard is up exactly then, armed timers are the handle. |
| AlertLifecycleProofs | TypeCorrect, NoDuplicateFired, NeverSilentlyDelivered, AttemptsAreBounded, OnlyFailuresAreRetries, EveryTargetIsTold | `OneCopy`: a cycle holds a row once, with the count it read; `Budgeted`: a row's count plus the attempts that cycles still hold stays within its limit and the number of cycles. The bound is not inductive without counting the snapshots. The last two are about steps and need only the types; `EveryTargetIsTold` is for processes that do not die, since the INSERTs of a crossing are no transaction. |
| DaemonProofs (cache) | OneSimulationAtATime, NobodyWaitsInVain, StalenessComesFromOvertaking, HitsAreRight | `pending` and the flights are inverse to each other; a flight that no invalidation overtook has seen every extension up to the last one, which its entry inherits. |
| AutoExtensionProofs | TypeCorrect, CapsRespected, OvershootIsBounded, BooksAlwaysBalance | `PoolRoom`, `RowRoom`, `RateRoom`: what is spent, plus one excess for each task that has yet to book, stays within the limit and one excess per task. The bound itself does not know who may still overrun. For the books, `CyclesBehind`: a reservation is of the pool's cycle or an earlier one, so that the first lookup of a new month finds none of that month to take over. |
| GuardPoliciesProofs | TypesHold, NoEndlessExtension, RollbackUndoesTheLast, VersionsAreKept, PredictionIsKept | `IInv`: every place a TTL pair is kept in (policy, override, version, and the pair a bulk command in flight has still to write) holds a valid one. A rollback restores a version, so that the policies alone are not inductive. The lemma `Upsert` says once what every writer relies on. |
| RegistryProofs | ReferencesAlwaysHold, WritesAlwaysHold, CacheIsAlwaysHonest | `Progress`: what a watch has done and what it has left (contract, instance and stamp in this order, each once); `Stamps`: a watch that has stored its instance and goes on finds it there, or the contract is torn. The honesty of the cache is lost the moment a watch may stamp an instance it has not stored. |
| RpcClientProofs | OutcomesAreReal, PaidOnce, AskedFirst | `Places`: a transaction is nowhere until it is sent and, unless an answer was lost, in one place after that, and the first of two is nowhere once there is a second; `Outcome`: how a call may have ended. That a failure leaves nothing behind is not inductive without knowing where the first transaction is while the second is built. The run has one flow; the theorems hold for any number that share the account. |

**BookkeepingProofs** has a section for each of the small machines; every theorem is
`XSpec => []Property`.

| theorem | inductive invariant and why it is needed |
|---|---|
| RatesAreAlwaysKept | `SlotsInv`: the list of the client is the end of all the slots given out, which ascend, any two that are a limit apart are a window apart, and one in the future is exactly a window after the request it waits for. `CallsInv`: the tool's window counts the last calls, and those a limit before them are a window older than its start. The property speaks of any window, the code of one at a time. |
| DueAlwaysAsExpected | `SampleInv`: samples descend in time, and the later of two is no lower unless the entry was created again between them. From it, by the inequality `RisingTogether` (sums of products of two lists that rise together, for any length), the slope is never negative. |
| ReportsAlwaysAgree | `Booked`: a day has no snapshot or the sums of its rows, and has them if an aggregation looked at it while it was in the window. The sums of the reports are then taken apart by day. |
| AppliedMigrationsAreThere | `Twins`: of the two tables migration 14 alters, both are there or neither, and so are its columns; `Progress`: what a process has left covers what is not recorded. Without `Twins` a duplicate column says nothing of the other one. |
| RowsAlwaysKeepTheirOwner | `OneHistory`: database and file never use one id for two entries while they descend from one database, and ids in the file lie below the next one. |
| AlwaysFiresForTheWhole | `CommandInv`: a command between two statements knows its own row, and a configuration it has not completed and that fired already is in `torn`. |
| HistoryAlwaysConnects | `InTurn`: while nothing has disturbed the observers, at most one is between its statements, and the newest snapshot is the latest. |
| IncidentsFollow | `NoticesBeforeDelivery`, `DeliveredIsOpen`: a delivered row that is open, whose key no other configuration shares, has an incident, and its configuration's notices are gone before it is delivered; both as long as no notice was lost or met a trigger of its key (`mixedUp`). |
| HealthAlwaysAgrees | `HealthInv`: a contract was checked at a ledger that has been, over the same keys as on chain; the rest is arithmetic over the entries. |

**FiniteSums** holds what several of these need of sums: a sum over a finite set unfolds
at any element, is a natural number, does not depend on the order in which it was taken,
and splits over disjoint sets. Induction is out of the prover's reach as a theorem with a
predicate, so each of these is proved from a least counterexample (`LeastNatural`,
`MinimalSubset`), which well-founded orders give in first order.

The assumptions, with the code that justifies them: a request limit is positive, because
the constructor replaces any other by five (rpc/client.ts:444; a fraction is left out); a
threshold and what a target adds to it are not negative, because the guard commands and
the import take no others (commands/guard.ts:757-768, 89-93); the fees the network charges are not negative; a watched
contract has the entry of its instance (core/watch.ts:155-166); tagged contracts are
finitely many contracts. `AppliedMigrationsAreThere` has two hypotheses, that a database
is new or of a release with migration 12 and that `alert_configs` no longer has its enum
CHECK: they are necessary (`startup_upgrade`, and database.ts:156 in section 6).

Only model-checked: liveness (`EveryTaskServed`, `KeepsMonitoring`, `EveryAlertSettles`,
`EveryTaskEnds`, `EveryCallEnds` of the cache and of the client), because fairness is
stated with ENABLED, which is out of the prover's reach. Every invariant and every action
property of a passing run has a theorem.

## 5. Disagreements with a run

`findings` in `PROJECT.json` has the quotations.

1. `sorokeep budget set` does not limit automatic extensions (extension.ts:645).
2. An upgrade from a release before migration 12 records migration 14 without its
   column `extension_policies.predictive_cycles`, which every later policy write names
   (migrator.ts:102).

## 6. Disagreements and limits seen while modelling, without a run

Daemon and alerts

* A tick that sends a digest lets the next tick start a second cycle (loop.ts:243,
  against docs/ARCHITECTURE.md:57); `startDaemon` after `stopDaemon` overlaps the old
  cycle (loop.ts:107); a stop during the first cycle does not keep the timer from being
  armed (loop.ts:110, against the comment at 69-70). `AtMostOneCycle` and
  `NoTickAfterStop` say when they hold instead.
* k targets get k `alert_resolved` notices each (monitor.ts:317 against README.md:508).
* An outage of `MAX_RETRY_COUNT` cycles abandons an alert (dispatcher.ts:169), while
  docs/ARCHITECTURE.md:45 and README.md:600 say that none is lost. The limit is the
  smaller of the channel's and `MAX_RETRY_COUNT` (dispatcher.ts:108).
* The rows of a paused contract are still delivered (repositories.ts:1191); a row
  delivered after its notice opens an incident that nothing closes; `alerts test` opens
  one as well.
* `alerts add --tag` ignores `--target` and `--quiet-hours`.

Extension and client

* Paused contracts are still extended (extension.ts:382 against commands/pause.ts:13).
* The hourly limit counts rows, one per entry, not transactions (extension.ts:52).
* A simulation that the node refuses is passed on as a success with fee 0, so that it
  reserves nothing (extension.ts:219).
* The cache key leaves out the target TTL and the source account (extension.ts:191), and
  a call joins a flight without looking at its contract state (simulation_cache.ts:95).
* `restoreEntries` and `extendEntries` throw when the TTL read after a success fails: the
  command exits with 1 and nothing is stored though the transaction is on chain.
* A transaction whose polling timed out may land later; its fee is recorded nowhere.
* `channels fund` prints errors but exits with 0; `refreshBalances` calls `getAccount`,
  which `StellarRpcClient` does not have (channels.ts, the error is logged).
* The samples are absolute ledgers, so the fitted decay is 0 unless an entry was created
  again: prediction extends nothing early (predictive.ts:46; `DueAsExpected`). The comment
  at predictive.ts:20 says that a policy without prediction stays so, while
  `--auto-extend` writes 0 over it.

Policies, registry and configuration

* A rollback, an import and a clone drop `max_fee_stroops`; a clone enables a disabled
  policy (clone-config.ts:42 against its comment at 16); `guard preview` ignores overrides
  and a disabled policy; init deletes all alert configs of its contract and enables a
  policy without a key.
* A second `watch` of a contract wipes its tags and reactivates it; the 24-hour cache
  drops new options after having warned about them (watch.ts:85, CLI.md:103);
  `watch --storage-keys` hands over a string that `getEntryTTLs` cannot map
  (client.ts:671); `--no-introspection` has no effect on the command line; two tag
  commands at once lose one tag.
* `check --fail-under` and `fleet status` call a contract that was never checked safe.
* Rebuilding an old `alert_configs` drops the column `enabled` (database.ts:156).
* An export omits the tables of migrations 4, 6, 8, 10, 12 and 13, which an import with
  `--force` deletes.
* MCP tools registered with `registerTool` are not rate limited.

## 7. Not modelled

Message formats of the HTTP channels (the outcome of `send` is in AlertLifecycle), the
text of reports, floating-point rent projection, metrics, tracing and logging, argument
parsing and prompts, reading the configuration, the secret stores (one lookup whose
outcome is in AutoExtension), authentication and the address allowlist of the servers
(predicates on one request), the decoding of contract values, the editor extension beyond
its classification, the scripts of the repository: none of them keeps a state that
another step relies on. `resolvePollIntervalMs` is a minimum read once per tick.
Resource alerts (`commands/resources.ts`) are written to a table that nothing in `src/`
fires or delivers; `executeWithRetry` (rpc/client.ts:202), `core/discovery.ts`,
`core/introspection.ts` and `core/aws_secrets.ts` have no caller, and
`processStateDiff` has none either but is modelled, because its two unsynchronised writes
are what a caller will meet. `PROJECT.json` gives the reason for each component.

What could follow: two overlapping runs of AutoExtension, driven by DaemonLoop; the
deletion of configs inside AlertLifecycle, where AlertConfigs has it now.
