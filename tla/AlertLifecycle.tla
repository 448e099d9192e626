--------------------------- MODULE AlertLifecycle ---------------------------
(***************************************************************************)
(* The alerts of one contract: how a monitoring cycle (core/monitor.ts,    *)
(* processContract) fires and resolves rows of alerts_fired, and how the   *)
(* dispatcher (alerts/dispatcher.ts) delivers them, while the operator     *)
(* edits the configuration, cycles overlap, and the process dies.          *)
(*                                                                         *)
(* alerts_fired is a set of row identifiers; its columns resolved and      *)
(* delivered are sets of rows too, and retry_count a function.  The rows   *)
(* one crossing writes share an episode number, which stands for the       *)
(* autoincremented id.  fired_at has a resolution of one second: the       *)
(* dispatcher's rows are tried in any order.                               *)
(***************************************************************************)
EXTENDS Integers, FiniteSets

CONSTANTS
  Entries, Configs, Targets,
  Threshold,       \* threshold_ledgers of a config
  Levels,          \* the remaining TTLs the RPC can report
  FirstTargets,    \* the targets each config is created with
  RetryLimit,      \* maxRetries of a target's channel
  MAX_RETRY_COUNT,
  QuietConfigs,    \* the configs with a quiet-hours window
  Cycles,          \* the cycles that may be in progress together
  Nothing,         \* no alert is being sent
  Faults,          \* which of crash, lostAnswer, dbError and edit happen
  MaxEpisodes      \* bound: crossings of one config and entry

Episodes == 1 .. MaxEpisodes
Rows == Configs \X Entries \X Targets \X Episodes
Pairs == Configs \X Entries
Alerts == [id : Rows, retryCount : Nat]

ASSUME AlertAssumption ==
  /\ Levels \subseteq Int
  /\ Threshold \in [Configs -> Int]
  /\ FirstTargets \in [Configs -> SUBSET Targets]
  /\ RetryLimit \in [Targets -> Nat]
  /\ MAX_RETRY_COUNT \in Nat /\ MaxEpisodes \in Nat
  /\ IsFiniteSet(Cycles) /\ Cycles # {}
  /\ QuietConfigs \subseteq Configs
  /\ Nothing \notin Alerts

VARIABLES
  alerts_fired, resolved, delivered, retry_count,  \* the table and its columns
  enabled, targets, active,   \* alert_configs, their targets, contracts.active
  quiet,        \* it is now within the quiet hours
  pc,           \* where each cycle is
  pending,      \* the rows the dispatcher read and has not tried yet
  sending,      \* the row whose channel.send is awaited
  received,     \* history: how often the target got the row (two or more is 2)
  notices       \* history: the alert_resolved notices the last pass sent

table == <<alerts_fired, resolved, delivered, retry_count>>
settings == <<enabled, targets, active, quiet>>
flow == <<pc, pending, sending>>
vars == <<table, settings, flow, received, notices>>

PairOf(id) == <<id[1], id[2]>>
Unresolved(p) == {id \in alerts_fired \ resolved : PairOf(id) = p}
Limit(id) == IF RetryLimit[id[3]] < MAX_RETRY_COUNT THEN RetryLimit[id[3]] ELSE MAX_RETRY_COUNT

NoNotices == [p \in Pairs, t \in Targets |-> 0]

Init ==
  /\ alerts_fired = {} /\ resolved = {} /\ delivered = {}
  /\ retry_count = [id \in Rows |-> 0]
  /\ enabled = Configs /\ targets = FirstTargets /\ active = TRUE
  /\ quiet = FALSE
  /\ pc = [f \in Cycles |-> "idle"]
  /\ pending = [f \in Cycles |-> {}]
  /\ sending = [f \in Cycles |-> Nothing]
  /\ received = [id \in Rows |-> 0]
  /\ notices = NoNotices

-----------------------------------------------------------------------------
(* The monitoring half of a cycle. *)

(* runMonitorCycle skips a paused contract. *)
StartCycle(f) ==
  /\ pc[f] = "idle"
  /\ pc' = [pc EXCEPT ![f] = IF active THEN "rpc" ELSE "monitored"]
  /\ UNCHANGED <<table, settings, pending, sending, received, notices>>

(* getEntryTTLs rejects: the contract is left alone until the next cycle.  *)
RpcFails(f) ==
  /\ pc[f] = "rpc"
  /\ pc' = [pc EXCEPT ![f] = "monitored"]
  /\ UNCHANGED <<table, settings, pending, sending, received, notices>>

Unused(p) == Episodes \ {id[4] : id \in {i \in alerts_fired : PairOf(i) = p}}
Room(crossed) == \A p \in crossed : Unused(p) # {}
NextEpisode(p) == CHOOSE n \in Unused(p) : \A m \in Unused(p) : n <= m

(* Mutant: the unresolved row is not looked for before firing again. *)
CrossedAgain(low) == low

(* Below the threshold with no open alert; at or above it with one. *)
Crossed(low) == {p \in low : Unresolved(p) = {}}
Recovered(high) == {p \in high : Unresolved(p) # {}}

(* Mutant: only the config's own channel gets a row. *)
FiredFirst(crossed) ==
  {id \in Rows : /\ PairOf(id) \in crossed
                 /\ id[3] \in FirstTargets[id[1]]
                 /\ id[3] = CHOOSE t \in FirstTargets[id[1]] : TRUE
                 /\ id[4] = NextEpisode(PairOf(id))}

(* recordAlertFired, once for every target the config has now. *)
Fired(crossed) ==
  {id \in Rows : /\ PairOf(id) \in crossed
                 /\ id[3] \in targets[id[1]]
                 /\ id[4] = NextEpisode(PairOf(id))}

(* resolveAlerts; then, for every row it resolved, one notice to every     *)
(* target of the config.                                                   *)
Resolve(recovered) ==
  resolved' = resolved \cup {id \in alerts_fired : PairOf(id) \in recovered}

Notify(recovered) ==
  notices' = [p \in Pairs, t \in Targets |->
                IF p \in recovered /\ t \in targets[p[1]] THEN Cardinality(Unresolved(p)) ELSE 0]

(* The answer: a TTL for every entry the RPC returned, an archived entry is *)
(* not; disabled configs are skipped.                                       *)
Answered(returned, remaining, isLow) ==
  {p \in Pairs : /\ p[1] \in enabled
                 /\ p[2] \in returned
                 /\ (remaining[p[2]] < Threshold[p[1]]) = isLow}

(* The synchronous rest of processContract. *)
Detect(f) ==
  /\ pc[f] = "rpc"
  /\ \E returned \in SUBSET Entries, remaining \in [Entries -> Levels] :
       LET crossed == Crossed(Answered(returned, remaining, TRUE))
           recovered == Recovered(Answered(returned, remaining, FALSE))
       IN  /\ Room(crossed)
           /\ alerts_fired' = alerts_fired \cup Fired(crossed)
           /\ Resolve(recovered)
           /\ Notify(recovered)
  /\ pc' = [pc EXCEPT ![f] = "monitored"]
  /\ UNCHANGED <<delivered, retry_count, settings, pending, sending, received>>

-----------------------------------------------------------------------------
(* The dispatching half. *)

(* Mutant: rows out of retries are read again. *)
ReadAbandoned == alerts_fired \ delivered

(* getUndeliveredAlerts: neither resolved, nor enabled, nor active counts.  *)
Undelivered == {id \in alerts_fired \ delivered : retry_count[id] < MAX_RETRY_COUNT}

TakePending(f) ==
  /\ pc[f] = "monitored"
  /\ pc' = [pc EXCEPT ![f] = "dispatch"]
  /\ pending' = [pending EXCEPT ![f] = {[id |-> id, retryCount |-> retry_count[id]] : id \in Undelivered}]
  /\ notices' = NoNotices
  /\ UNCHANGED <<table, settings, sending, received>>

Drop(f, a) == pending' = [pending EXCEPT ![f] = @ \ {a}]
Ready(f, a) == pc[f] = "dispatch" /\ sending[f] = Nothing /\ a \in pending[f]

(* Mutant: a deferral counts. *)
DeferCounted(f, a) ==
  /\ Ready(f, a)
  /\ a.id[1] \in QuietConfigs /\ quiet
  /\ Drop(f, a)
  /\ retry_count' = [retry_count EXCEPT ![a.id] = @ + 1]
  /\ UNCHANGED <<alerts_fired, resolved, delivered, settings, pc, sending, received, notices>>

Abandoned(a) == a.retryCount >= RetryLimit[a.id[3]]

Skip(f, a) ==
  /\ Ready(f, a)
  /\ Abandoned(a)
  /\ Drop(f, a)
  /\ UNCHANGED <<table, settings, pc, sending, received, notices>>

Defer(f, a) ==
  /\ Ready(f, a)
  /\ ~Abandoned(a)
  /\ a.id[1] \in QuietConfigs /\ quiet
  /\ Drop(f, a)
  /\ UNCHANGED <<table, settings, pc, sending, received, notices>>

Send(f, a) ==
  /\ Ready(f, a)
  /\ ~Abandoned(a)
  /\ ~(a.id[1] \in QuietConfigs /\ quiet)
  /\ Drop(f, a)
  /\ sending' = [sending EXCEPT ![f] = a]
  /\ UNCHANGED <<table, settings, pc, received, notices>>

Arrives(id) == received' = [received EXCEPT ![id] = IF @ = 0 THEN 1 ELSE 2]
Over(f) == sending[f] # Nothing /\ sending' = [sending EXCEPT ![f] = Nothing]

(* Mutants: delivered is written for a failed send; the failure is not     *)
(* counted.                                                                *)
FailMarked(f) ==
  /\ Over(f)
  /\ UNCHANGED received
  /\ delivered' = delivered \cup {sending[f].id}
  /\ retry_count' = [retry_count EXCEPT ![sending[f].id] = @ + 1]
  /\ UNCHANGED <<alerts_fired, resolved, settings, pc, pending, notices>>
FailUncounted(f) ==
  /\ Over(f)
  /\ \/ UNCHANGED received
     \/ "lostAnswer" \in Faults /\ Arrives(sending[f].id)
  /\ UNCHANGED <<table, settings, pc, pending, notices>>

(* markAlertDelivered *)
Succeed(f) ==
  /\ Over(f)
  /\ Arrives(sending[f].id)
  /\ delivered' = delivered \cup {sending[f].id}
  /\ UNCHANGED <<alerts_fired, resolved, retry_count, settings, pc, pending, notices>>

(* channel.send rejects, though the target may have the message (an answer *)
(* that timed out); or it resolves and markAlertDelivered throws.          *)
Fail(f) ==
  /\ Over(f)
  /\ \/ UNCHANGED received
     \/ "lostAnswer" \in Faults /\ Arrives(sending[f].id)
  /\ retry_count' = [retry_count EXCEPT ![sending[f].id] = @ + 1]
  /\ UNCHANGED <<alerts_fired, resolved, delivered, settings, pc, pending, notices>>

(* incrementRetryCount throws: deliverPendingAlerts rejects and the rest of *)
(* the pending rows wait for the next cycle.                                *)
DbError(f) ==
  /\ "dbError" \in Faults
  /\ Over(f)
  /\ UNCHANGED received \/ Arrives(sending[f].id)
  /\ pc' = [pc EXCEPT ![f] = "idle"]
  /\ pending' = [pending EXCEPT ![f] = {}]
  /\ UNCHANGED <<table, settings, notices>>

EndCycle(f) ==
  /\ pc[f] = "dispatch" /\ pending[f] = {} /\ sending[f] = Nothing
  /\ pc' = [pc EXCEPT ![f] = "idle"]
  /\ UNCHANGED <<table, settings, pending, sending, received, notices>>

-----------------------------------------------------------------------------
(* The process dies and is restarted; what it was sending may arrive. *)

Restart ==
  /\ pc' = [f \in Cycles |-> "idle"]
  /\ pending' = [f \in Cycles |-> {}]
  /\ sending' = [f \in Cycles |-> Nothing]

Crash ==
  /\ "crash" \in Faults
  /\ Restart
  /\ \E arrived \in SUBSET {f \in Cycles : sending[f] # Nothing} :
       received' = [id \in Rows |-> IF \A f \in arrived : sending[f].id # id THEN received[id]
                                   ELSE IF received[id] = 0 THEN 1 ELSE 2]
  /\ UNCHANGED <<table, settings, notices>>

(* It dies within processContract, between two INSERTs: some pairs are     *)
(* done, the rows of one may be written in part.                           *)
CrashInDetect(f) ==
  /\ "crash" \in Faults
  /\ pc[f] = "rpc"
  /\ Restart
  /\ \E returned \in SUBSET Entries, remaining \in [Entries -> Levels] :
       LET crossed == Crossed(Answered(returned, remaining, TRUE))
           recovered == Recovered(Answered(returned, remaining, FALSE))
       IN  /\ Room(crossed)
           /\ \E done \in SUBSET (crossed \cup recovered), last \in crossed :
              \E part \in SUBSET Fired({last}) :
               /\ alerts_fired' = alerts_fired \cup Fired(crossed \cap done) \cup part
               /\ Resolve(recovered \cap done)
               /\ Notify(recovered \cap done)
  /\ UNCHANGED <<delivered, retry_count, settings, received>>

-----------------------------------------------------------------------------
(* The operator, from another process. *)

Toggle(c) ==
  /\ enabled' = IF c \in enabled THEN enabled \ {c} ELSE enabled \cup {c}
  /\ UNCHANGED <<table, targets, active, quiet, flow, received, notices>>

PauseOrResume ==
  /\ active' = ~active
  /\ UNCHANGED <<table, enabled, targets, quiet, flow, received, notices>>

(* addTargetToAlertConfig, removeTargetFromAlertConfig; the first targets  *)
(* stay.                                                                   *)
EditTargets(c) ==
  /\ "edit" \in Faults
  /\ \E T \in SUBSET Targets :
       FirstTargets[c] \subseteq T /\ targets' = [targets EXCEPT ![c] = T]
  /\ UNCHANGED <<table, enabled, active, quiet, flow, received, notices>>

QuietHoursChange ==
  /\ quiet' = ~quiet
  /\ UNCHANGED <<table, enabled, targets, active, flow, received, notices>>

Operator == PauseOrResume \/ \E c \in Configs : Toggle(c) \/ EditTargets(c)

Monitor(f) == StartCycle(f) \/ RpcFails(f) \/ Detect(f)
Dispatch(f) ==
  \/ TakePending(f) \/ EndCycle(f)
  \/ \E a \in pending[f] : Skip(f, a) \/ Defer(f, a) \/ Send(f, a)
  \/ Succeed(f) \/ Fail(f) \/ DbError(f)

Next ==
  \/ \E f \in Cycles : Monitor(f) \/ Dispatch(f) \/ CrashInDetect(f)
  \/ Crash \/ Operator \/ QuietHoursChange

Spec == Init /\ [][Next]_vars

(* The timer fires and every await of a cycle ends (DaemonLoop). *)
Fairness == \A f \in Cycles : WF_vars(Monitor(f)) /\ WF_vars(Dispatch(f))

FairSpec == Spec /\ Fairness

-----------------------------------------------------------------------------
(* Type invariant of the table, the settings and the cycles. *)
TypeOK ==
  /\ alerts_fired \subseteq Rows
  /\ resolved \subseteq alerts_fired /\ delivered \subseteq alerts_fired
  /\ retry_count \in [Rows -> Nat]
  /\ enabled \subseteq Configs /\ targets \in [Configs -> SUBSET Targets]
  /\ active \in BOOLEAN /\ quiet \in BOOLEAN
  /\ pc \in [Cycles -> {"idle", "rpc", "monitored", "dispatch"}]
  /\ \A f \in Cycles : pending[f] \subseteq Alerts /\ \A a \in pending[f] : a.id \in alerts_fired
  /\ \A f \in Cycles : sending[f] \in Alerts => sending[f].id \in alerts_fired
  /\ pending \in [Cycles -> SUBSET Alerts]
  /\ sending \in [Cycles -> Alerts \cup {Nothing}]
  /\ received \in [Rows -> 0 .. 2]

(* "If an unresolved alert already exists for an entry/threshold pair, no  *)
(* duplicate is fired" (ADR-004): the open rows of a pair are of one       *)
(* crossing, whatever cycles overlap and wherever the process dies.        *)
OneEpisode ==
  \A i, j \in alerts_fired \ resolved : PairOf(i) = PairOf(j) => i[4] = j[4]

(* A crossing is told to every target the config has at that time: the row *)
(* of one never hides that another has none.                               *)
EveryTargetHasItsRow ==
  [][\A p \in Pairs : Unresolved(p) = {} /\ Unresolved(p)' # {} =>
       targets[p[1]] = {id[3] : id \in Unresolved(p)'}]_vars

(* A row says delivered only when its target has received it: a crash, a   *)
(* failed send or a database error never turn an alert into a silent one.  *)
DeliveredWasReceived == \A id \in delivered : received[id] > 0

(* No row is tried more often than its channel allows; every cycle that    *)
(* overlaps can add one attempt, because it works on an old snapshot.      *)
RetriesBounded ==
  \A id \in Rows : retry_count[id] + 1 <= Limit(id) + Cardinality(Cycles)

(* Only the failure of an awaited send consumes a retry: a deferral in the *)
(* quiet hours, a skip, a crash or an edit do not (README, FAQ).           *)
RetriesAreFailures ==
  [][\A id \in Rows : retry_count'[id] # retry_count[id] =>
       /\ retry_count'[id] = retry_count[id] + 1
       /\ \E f \in Cycles : sending[f] # Nothing /\ sending[f].id = id]_vars

(* Every alert that was written is delivered in the end or has used up its *)
(* retries, once its config's quiet hours leave it alone.                  *)
EveryAlertSettles ==
  \A id \in Rows :
    (id[1] \in QuietConfigs => <>[]~quiet)
      => (id \in alerts_fired ~> id \in delivered \/ retry_count[id] >= Limit(id))
=============================================================================
