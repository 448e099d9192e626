------------------------ MODULE AlertLifecycleProofs ------------------------
(***************************************************************************)
(* Proofs about AlertLifecycle for any configuration, any number of        *)
(* overlapping cycles and every fault: type correctness, one open crossing *)
(* per config and entry, no row that says delivered unreceived, and what a *)
(* step may do to the rows of a crossing and to the count of retries.      *)
(***************************************************************************)
EXTENDS AlertLifecycle, FiniteSetTheorems, FiniteSums, TLAPS

(* What an alert in pending or sending is. *)
LEMMA AlertFields ==
  ASSUME NEW a \in Alerts
  PROVE  a.id \in Rows /\ a.retryCount \in Nat
BY DEF Alerts

LEMMA FiredAreRows ==
  ASSUME NEW crossed
  PROVE  Fired(crossed) \subseteq Rows
BY DEF Fired

(* The dispatcher's snapshot. *)
LEMMA SnapshotOfRows ==
  ASSUME TypeOK, NEW f \in Cycles, TakePending(f)
  PROVE  TypeOK'
<1> DEFINE S == {[id |-> id, retryCount |-> retry_count[id]] : id \in Undelivered}
<1>1. \A a \in S : a \in Alerts /\ a.id \in alerts_fired
  BY DEF TypeOK, Undelivered, Alerts
<1>2. pending' = [pending EXCEPT ![f] = S]
  BY DEF TakePending
<1> HIDE DEF S
<1>3. pending' \in [Cycles -> SUBSET Alerts]
  BY <1>1, <1>2 DEF TypeOK
<1>4. \A g \in Cycles : pending'[g] = S \/ pending'[g] = pending[g]
  BY <1>2 DEF TypeOK
<1>5. QED
  BY <1>1, <1>3, <1>4 DEF TypeOK, TakePending, table, settings

(* The writes of one pass of processContract, complete or cut short. *)
LEMMA PassKeepsTypes ==
  ASSUME TypeOK, NEW crossed, NEW recovered, NEW new \in SUBSET Fired(crossed),
         alerts_fired' = alerts_fired \cup new,
         Resolve(recovered),
         UNCHANGED <<delivered, retry_count, settings, received>>,
         pc' \in [Cycles -> {"idle", "rpc", "monitored", "dispatch"}],
         pending' \in [Cycles -> SUBSET Alerts],
         sending' \in [Cycles -> Alerts \cup {Nothing}],
         \A f \in Cycles : pending'[f] \subseteq pending[f] /\ sending'[f] \in {sending[f], Nothing}
  PROVE  TypeOK'
<1>1. alerts_fired' \subseteq Rows /\ resolved' \subseteq alerts_fired'
  BY FiredAreRows DEF TypeOK, Resolve
<1>2. QED
  BY <1>1, AlertAssumption DEF TypeOK, settings

LEMMA DetectKeepsTypes ==
  ASSUME TypeOK, NEW f \in Cycles, Detect(f)
  PROVE  TypeOK'
<1>1. PICK returned \in SUBSET Entries, remaining \in [Entries -> Levels] :
        LET crossed == Crossed(Answered(returned, remaining, TRUE))
            recovered == Recovered(Answered(returned, remaining, FALSE))
        IN  /\ alerts_fired' = alerts_fired \cup Fired(crossed)
            /\ Resolve(recovered)
  BY DEF Detect
<1>2. QED
  BY <1>1, PassKeepsTypes DEF Detect, TypeOK

LEMMA RestartKeepsTypes ==
  ASSUME TypeOK, Restart
  PROVE  /\ pc' \in [Cycles -> {"idle", "rpc", "monitored", "dispatch"}]
         /\ pending' \in [Cycles -> SUBSET Alerts]
         /\ sending' \in [Cycles -> Alerts \cup {Nothing}]
         /\ \A f \in Cycles : pending'[f] = {} /\ sending'[f] = Nothing
BY DEF Restart

(* CrashInDetect writes a part of what Detect would. *)
LEMMA CutShort ==
  ASSUME NEW f \in Cycles, CrashInDetect(f)
  PROVE  \E crossed, recovered : \E new \in SUBSET Fired(crossed) :
           /\ \A p \in crossed : Unresolved(p) = {}
           /\ alerts_fired' = alerts_fired \cup new
           /\ Resolve(recovered)
<1>1. PICK low, high, done, last, part :
        /\ last \in Crossed(low)
        /\ part \subseteq Fired({last})
        /\ alerts_fired' = alerts_fired \cup Fired(Crossed(low) \cap done) \cup part
        /\ Resolve(Recovered(high) \cap done)
  BY DEF CrashInDetect
<1>2. Fired(Crossed(low) \cap done) \cup part \subseteq Fired(Crossed(low))
  BY <1>1 DEF Fired
<1>3. \A p \in Crossed(low) : Unresolved(p) = {}
  BY DEF Crossed
<1>4. alerts_fired' = alerts_fired \cup (Fired(Crossed(low) \cap done) \cup part)
  BY <1>1
<1>5. QED
  BY <1>1, <1>2, <1>3, <1>4

LEMMA CrashInDetectKeepsTypes ==
  ASSUME TypeOK, NEW f \in Cycles, CrashInDetect(f)
  PROVE  TypeOK'
<1>1. PICK crossed, recovered : \E new \in SUBSET Fired(crossed) :
           /\ alerts_fired' = alerts_fired \cup new
           /\ Resolve(recovered)
  BY CutShort
<1>2. Restart /\ UNCHANGED <<delivered, retry_count, settings, received>>
  BY DEF CrashInDetect
<1>3. QED
  BY <1>1, <1>2, RestartKeepsTypes, PassKeepsTypes

(* The end of a send, whatever its outcome. *)
LEMMA AnswerKeepsTypes ==
  ASSUME TypeOK, NEW f \in Cycles, Succeed(f) \/ Fail(f) \/ DbError(f)
  PROVE  TypeOK'
<1> DEFINE id == sending[f].id
<1>1. sending[f] \in Alerts /\ id \in Rows /\ id \in alerts_fired
  BY AlertFields DEF Succeed, Fail, DbError, Over, TypeOK
<1> HIDE DEF id
<1>2. received' \in [Rows -> 0 .. 2]
  <2>1. UNCHANGED received \/ Arrives(id)
    BY DEF Succeed, Fail, DbError, id
  <2>2. QED
    BY <2>1, <1>1 DEF TypeOK, Arrives
<1>3. retry_count' \in [Rows -> Nat]
  BY <1>1 DEF Succeed, Fail, DbError, TypeOK, table, id
<1>4. sending' \in [Cycles -> Alerts \cup {Nothing}] /\ \A g \in Cycles : sending'[g] \in {sending[g], Nothing}
  BY DEF Succeed, Fail, DbError, Over, TypeOK
<1>5. pending' \in [Cycles -> SUBSET Alerts] /\ \A g \in Cycles : pending'[g] \subseteq pending[g]
  BY DEF Succeed, Fail, DbError, TypeOK
<1>6. pc' \in [Cycles -> {"idle", "rpc", "monitored", "dispatch"}]
  BY DEF Succeed, Fail, DbError, TypeOK
<1>7. /\ alerts_fired' = alerts_fired /\ resolved' = resolved /\ UNCHANGED settings
      /\ delivered' \subseteq alerts_fired
  BY <1>1 DEF Succeed, Fail, DbError, TypeOK, table, id
<1>8. QED
  BY <1>2, <1>3, <1>4, <1>5, <1>6, <1>7, AlertAssumption DEF TypeOK, settings

LEMMA TypePreserved ==
  ASSUME TypeOK, [Next]_vars
  PROVE  TypeOK'
<1>1. ASSUME NEW f \in Cycles, StartCycle(f) \/ RpcFails(f) \/ EndCycle(f)
      PROVE  TypeOK'
  BY <1>1 DEF TypeOK, StartCycle, RpcFails, EndCycle, table, settings
<1>2. ASSUME NEW f \in Cycles, NEW a \in pending[f], Skip(f, a) \/ Defer(f, a)
      PROVE  TypeOK'
  BY <1>2 DEF TypeOK, Skip, Defer, Drop, table, settings
<1>3. ASSUME NEW f \in Cycles, NEW a \in pending[f], Send(f, a)
      PROVE  TypeOK'
  BY <1>3 DEF TypeOK, Send, Drop, table, settings
<1>4. CASE Crash
  <2>1. PICK arrived \in SUBSET Cycles :
          received' = [id \in Rows |-> IF \A f \in arrived : sending[f].id # id THEN received[id]
                                       ELSE IF received[id] = 0 THEN 1 ELSE 2]
    BY <1>4 DEF Crash
  <2>2. received' \in [Rows -> 0 .. 2]
    BY <2>1 DEF TypeOK
  <2>3. QED
    BY <1>4, <2>2, RestartKeepsTypes, AlertAssumption DEF Crash, TypeOK, table, settings
<1>5. CASE Operator \/ QuietHoursChange
  BY <1>5 DEF TypeOK, Operator, PauseOrResume, Toggle, EditTargets, QuietHoursChange, table, flow
<1>6. CASE UNCHANGED vars
  BY <1>6 DEF TypeOK, vars, table, settings, flow
<1>7. QED
  BY <1>1, <1>2, <1>3, <1>4, <1>5, <1>6, SnapshotOfRows, DetectKeepsTypes, CrashInDetectKeepsTypes,
     AnswerKeepsTypes
  DEF Next, Monitor, Dispatch

(* The table, the settings and the cycles keep their types. *)
THEOREM TypeCorrect == Spec => []TypeOK
<1>1. ASSUME Init
      PROVE  TypeOK
  <2> USE <1>1, AlertAssumption DEF Init
  <2>1. /\ retry_count \in [Rows -> Nat]
        /\ received \in [Rows -> 0 .. 2]
    OBVIOUS
  <2>2. /\ pc \in [Cycles -> {"idle", "rpc", "monitored", "dispatch"}]
        /\ pending \in [Cycles -> SUBSET Alerts]
        /\ sending \in [Cycles -> Alerts \cup {Nothing}]
    OBVIOUS
  <2>3. \A f \in Cycles : pending[f] = {} /\ sending[f] = Nothing
    OBVIOUS
  <2>4. QED
    BY <2>1, <2>2, <2>3 DEF TypeOK
<1>2. TypeOK /\ [Next]_vars => TypeOK'
  BY TypePreserved
<1>3. QED
  BY <1>1, <1>2, PTL DEF Spec

-----------------------------------------------------------------------------
(* One open crossing per config and entry. *)

LEMMA FiringKeepsOneEpisode ==
  ASSUME OneEpisode, NEW crossed, NEW new \in SUBSET Fired(crossed),
         \A p \in crossed : Unresolved(p) = {},
         alerts_fired' = alerts_fired \cup new,
         resolved \subseteq resolved'
  PROVE  OneEpisode'
<1> SUFFICES ASSUME NEW i \in alerts_fired' \ resolved', NEW j \in alerts_fired' \ resolved',
                    PairOf(i) = PairOf(j)
             PROVE  i[4] = j[4]
  BY DEF OneEpisode, PairOf
<1>1. CASE i \in new /\ j \in new
  BY <1>1 DEF Fired
<1>2. CASE i \notin new /\ j \notin new
  BY <1>2 DEF OneEpisode
<1>3. ASSUME NEW k \in new, NEW l \in alerts_fired \ resolved, PairOf(k) = PairOf(l)
      PROVE  FALSE
  <2>1. PairOf(k) \in crossed
    BY DEF Fired
  <2>2. l \in Unresolved(PairOf(k))
    BY <1>3 DEF Unresolved
  <2>3. QED
    BY <2>1, <2>2
<1>4. QED
  BY <1>1, <1>2, <1>3

(* "No duplicate is fired": the open rows of a config and entry are always *)
(* of one crossing, with overlapping cycles, crashes between two INSERTs   *)
(* and edits of the configuration.                                         *)
THEOREM NoDuplicateFired == Spec => []OneEpisode
<1>1. Init => OneEpisode
  BY DEF Init, OneEpisode
<1>2. ASSUME OneEpisode, [Next]_vars
      PROVE  OneEpisode'
  <2>1. ASSUME NEW f \in Cycles, Detect(f)
        PROVE  OneEpisode'
    <3>1. PICK low, high :
            /\ alerts_fired' = alerts_fired \cup Fired(Crossed(low))
            /\ Resolve(Recovered(high))
      BY <2>1 DEF Detect
    <3>2. \A p \in Crossed(low) : Unresolved(p) = {}
      BY DEF Crossed
    <3>3. resolved \subseteq resolved'
      BY <3>1 DEF Resolve
    <3>4. QED
      BY <1>2, <3>1, <3>2, <3>3, FiringKeepsOneEpisode
  <2>2. ASSUME NEW f \in Cycles, CrashInDetect(f)
        PROVE  OneEpisode'
    <3>1. PICK crossed, recovered : \E new \in SUBSET Fired(crossed) :
            /\ \A p \in crossed : Unresolved(p) = {}
            /\ alerts_fired' = alerts_fired \cup new
            /\ Resolve(recovered)
      BY <2>2, CutShort
    <3>2. QED
      BY <1>2, <3>1, FiringKeepsOneEpisode DEF Resolve
  <2>3. ASSUME UNCHANGED <<alerts_fired, resolved>>
        PROVE  OneEpisode'
    BY <1>2, <2>3 DEF OneEpisode
  <2>4. QED
    BY <1>2, <2>1, <2>2, <2>3
    DEF Next, Monitor, Dispatch, StartCycle, RpcFails, TakePending, EndCycle, Skip, Defer, Send,
        Succeed, Fail, DbError, Crash, Operator, Toggle, PauseOrResume, EditTargets,
        QuietHoursChange, vars, table
<1>3. QED
  BY <1>1, <1>2, PTL DEF Spec

-----------------------------------------------------------------------------
(* A delivered row was received. *)

(* received only grows. *)
LEMMA ReceivedGrows ==
  ASSUME TypeOK, [Next]_vars, NEW id \in Rows, received[id] > 0
  PROVE  received'[id] > 0
<1>1. ASSUME NEW j, Arrives(j)
      PROVE  received'[id] > 0
  BY <1>1 DEF TypeOK, Arrives
<1>2. CASE Crash
  <2>1. PICK arrived :
          received' = [j \in Rows |-> IF \A f \in arrived : sending[f].id # j THEN received[j]
                                      ELSE IF received[j] = 0 THEN 1 ELSE 2]
    BY <1>2 DEF Crash
  <2>2. QED
    BY <2>1
<1>3. CASE UNCHANGED received
  BY <1>3
<1>4. QED
  BY <1>1, <1>2, <1>3
  DEF Next, Monitor, Dispatch, StartCycle, RpcFails, Detect, CrashInDetect, TakePending, EndCycle,
      Skip, Defer, Send, Succeed, Fail, DbError, Operator, Toggle, PauseOrResume, EditTargets,
      QuietHoursChange, vars

(* No crash, lost answer, database error or overlap makes a row say        *)
(* delivered that its target has not received.                             *)
THEOREM NeverSilentlyDelivered == Spec => []DeliveredWasReceived
<1>1. Init => DeliveredWasReceived
  BY DEF Init, DeliveredWasReceived
<1>2. ASSUME TypeOK, DeliveredWasReceived, [Next]_vars
      PROVE  DeliveredWasReceived'
  <2>1. \A id \in delivered : received'[id] > 0
    BY <1>2, ReceivedGrows DEF TypeOK, DeliveredWasReceived
  <2>2. ASSUME NEW f \in Cycles, Succeed(f)
        PROVE  received'[sending[f].id] > 0
    <3>1. sending[f].id \in Rows
      BY <1>2, <2>2, AlertFields DEF TypeOK, Succeed, Over
    <3>2. QED
      BY <1>2, <2>2, <3>1 DEF TypeOK, Succeed, Arrives
  <2>3. (\E f \in Cycles : Succeed(f)) \/ delivered' = delivered
    BY <1>2
    DEF Next, Monitor, Dispatch, StartCycle, RpcFails, Detect, CrashInDetect, TakePending, EndCycle,
        Skip, Defer, Send, Fail, DbError, Crash, Operator, Toggle, PauseOrResume, EditTargets,
        QuietHoursChange, vars, table
  <2>4. QED
    BY <2>1, <2>2, <2>3 DEF DeliveredWasReceived, Succeed
<1>3. QED
  BY <1>1, <1>2, TypeCorrect, PTL DEF Spec

-----------------------------------------------------------------------------
(* The number of attempts. *)

(* The cycles that still may try row id, or are trying it. *)
Trying(f, id) ==
  \/ sending[f] # Nothing /\ sending[f].id = id
  \/ \E a \in pending[f] : a.id = id /\ ~Abandoned(a)
Live(id) == {f \in Cycles : Trying(f, id)}

(* A cycle holds each row once, and only while it dispatches. *)
OneCopy ==
  \A f \in Cycles :
    /\ pc[f] # "dispatch" => pending[f] = {} /\ sending[f] = Nothing
    /\ \A a, b \in pending[f] : a.id = b.id => a = b
    /\ sending[f] # Nothing => \A a \in pending[f] : a.id # sending[f].id

(* The inductive form of RetriesBounded: attempts made and attempts to     *)
(* come.                                                                   *)
Budgeted ==
  \A id \in Rows : retry_count[id] + Cardinality(Live(id)) + 1 <= Limit(id) + Cardinality(Cycles)

LEMMA LimitIsNat == ASSUME NEW id \in Rows PROVE Limit(id) \in Nat
BY AlertAssumption DEF Limit, Rows

LEMMA CyclesAreFinite == Cardinality(Cycles) \in Nat /\ Cardinality(Cycles) > 0
BY AlertAssumption, FS_CardinalityType, FS_EmptySet

LEMMA LiveIsFinite ==
  ASSUME NEW id
  PROVE  /\ IsFiniteSet(Live(id)) /\ Cardinality(Live(id)) \in Nat
         /\ Cardinality(Live(id)) <= Cardinality(Cycles)
<1>1. Live(id) \subseteq Cycles
  BY DEF Live
<1>2. QED
  BY <1>1, AlertAssumption, FS_Subset, FS_CardinalityType

LEMMA OneCopyPreserved ==
  ASSUME TypeOK, OneCopy, [Next]_vars
  PROVE  OneCopy'
<1> USE DEF OneCopy
<1>1. ASSUME NEW f \in Cycles, StartCycle(f) \/ RpcFails(f) \/ Detect(f) \/ EndCycle(f)
      PROVE  OneCopy'
  BY <1>1 DEF TypeOK, StartCycle, RpcFails, Detect, EndCycle
<1>2. ASSUME NEW f \in Cycles, TakePending(f)
      PROVE  OneCopy'
  <2> DEFINE S == {[id |-> id, retryCount |-> retry_count[id]] : id \in Undelivered}
  <2>1. pending' = [pending EXCEPT ![f] = S]
    BY <1>2 DEF TakePending
  <2>2. \A a, b \in S : a.id = b.id => a = b
    OBVIOUS
  <2> HIDE DEF S
  <2>3. QED
    BY <1>2, <2>1, <2>2 DEF TypeOK, TakePending
<1>3. ASSUME NEW f \in Cycles, NEW a \in pending[f], Skip(f, a) \/ Defer(f, a) \/ Send(f, a)
      PROVE  OneCopy'
  BY <1>3 DEF TypeOK, Skip, Defer, Send, Drop, Ready
<1>4. ASSUME NEW f \in Cycles, Succeed(f) \/ Fail(f) \/ DbError(f)
      PROVE  OneCopy'
  BY <1>4 DEF TypeOK, Succeed, Fail, DbError, Over
<1>5. CASE Restart
  BY <1>5 DEF Restart
<1>6. CASE UNCHANGED flow
  BY <1>6 DEF flow
<1>7. QED
  BY <1>1, <1>2, <1>3, <1>4, <1>5, <1>6
  DEF Next, Monitor, Dispatch, Crash, CrashInDetect, Operator, Toggle, PauseOrResume, EditTargets,
      QuietHoursChange, vars

(* Steps that begin no new attempt. *)
LEMMA FewerAttempts ==
  ASSUME TypeOK, TypeOK', Budgeted, retry_count' = retry_count,
         \A id \in Rows : Live(id)' \subseteq Live(id)
  PROVE  Budgeted'
<1> SUFFICES ASSUME NEW id \in Rows
             PROVE  retry_count[id] + Cardinality(Live(id)') + 1 <= Limit(id) + Cardinality(Cycles)
  BY DEF Budgeted, Limit
<1>1. /\ Cardinality(Live(id)') <= Cardinality(Live(id)) /\ Cardinality(Live(id)') \in Nat
      /\ Cardinality(Live(id)) \in Nat
  BY LiveIsFinite, FS_Subset, FS_CardinalityType
<1>2. retry_count[id] + Cardinality(Live(id)) + 1 <= Limit(id) + Cardinality(Cycles)
  BY DEF Budgeted
<1>3. QED
  BY <1>1, <1>2, LimitIsNat, CyclesAreFinite DEF TypeOK

LEMMA BudgetedPreserved ==
  ASSUME TypeOK, TypeOK', OneCopy, Budgeted, [Next]_vars
  PROVE  Budgeted'
<1>1. ASSUME NEW f \in Cycles, TakePending(f)
      PROVE  Budgeted'
  <2> SUFFICES ASSUME NEW id \in Rows
               PROVE  retry_count[id] + Cardinality(Live(id)') + 1 <= Limit(id) + Cardinality(Cycles)
    BY <1>1 DEF Budgeted, Limit, TakePending, table
  <2>1. /\ Cardinality(Live(id)') \in Nat /\ Cardinality(Live(id)) \in Nat
        /\ Cardinality(Live(id)') <= Cardinality(Cycles)
    <3>1. Live(id)' \subseteq Cycles
      BY DEF Live
    <3>2. QED
      BY <3>1, AlertAssumption, FS_Subset, FS_CardinalityType, LiveIsFinite
  <2> DEFINE S == {[id |-> i, retryCount |-> retry_count[i]] : i \in Undelivered}
  <2>2. pending' = [pending EXCEPT ![f] = S] /\ sending' = sending
    BY <1>1 DEF TakePending
  <2>3. CASE retry_count[id] < Limit(id)
    BY <2>1, <2>3, LimitIsNat, CyclesAreFinite DEF TypeOK
  <2>4. CASE ~(retry_count[id] < Limit(id))
    <3>1. \A a \in S : a.id = id => Abandoned(a)
      <4> SUFFICES id \in Undelivered => retry_count[id] >= RetryLimit[id[3]]
        BY DEF Abandoned
      <4>1. RetryLimit[id[3]] \in Nat /\ MAX_RETRY_COUNT \in Nat /\ retry_count[id] \in Nat
        BY AlertAssumption DEF Rows, TypeOK
      <4>2. QED
        BY <2>4, <4>1 DEF Undelivered, Limit
    <3> HIDE DEF S
    <3>2. Live(id)' \subseteq Live(id)
      BY <2>2, <3>1 DEF TypeOK, Live, Trying, Abandoned
    <3>3. Cardinality(Live(id)') <= Cardinality(Live(id))
      BY <3>2, LiveIsFinite, FS_Subset
    <3>4. retry_count[id] + Cardinality(Live(id)) + 1 <= Limit(id) + Cardinality(Cycles)
      BY DEF Budgeted
    <3>5. QED
      BY <2>1, <3>3, <3>4, LimitIsNat, CyclesAreFinite DEF TypeOK
  <2>5. QED
    BY <2>3, <2>4
<1>2. ASSUME NEW f \in Cycles, Fail(f)
      PROVE  Budgeted'
  <2>1. PICK j \in Rows : sending[f] # Nothing /\ j = sending[f].id
    BY <1>2, AlertFields DEF Fail, Over, TypeOK
  <2>2. sending' = [sending EXCEPT ![f] = Nothing] /\ pending' = pending
    BY <1>2 DEF Fail, Over
  <2>3. retry_count' = [retry_count EXCEPT ![j] = @ + 1]
    BY <1>2, <2>1 DEF Fail
  <2>4. f \in Live(j)
    BY <2>1 DEF Live, Trying
  <2>5. \A a \in pending[f] : a.id # j
    BY <2>1 DEF OneCopy
  <2>6. Live(j)' \subseteq Live(j) \ {f}
    BY <2>2, <2>5 DEF TypeOK, Live, Trying, Abandoned
  <2>7. \A id \in Rows : Live(id)' \subseteq Live(id)
    BY <2>2 DEF TypeOK, Live, Trying, Abandoned
  <2>8. Cardinality(Live(j)') <= Cardinality(Live(j)) - 1
    <3>1. Cardinality(Live(j) \ {f}) = Cardinality(Live(j)) - 1 /\ IsFiniteSet(Live(j) \ {f})
      BY <2>4, LiveIsFinite, FS_RemoveElement
    <3>2. QED
      BY <2>6, <3>1, FS_Subset
  <2> SUFFICES ASSUME NEW id \in Rows
               PROVE  retry_count'[id] + Cardinality(Live(id)') + 1 <= Limit(id) + Cardinality(Cycles)
    BY DEF Budgeted, Limit
  <2>9. /\ Cardinality(Live(id)') \in Nat /\ Cardinality(Live(id)) \in Nat
        /\ Cardinality(Live(id)') <= Cardinality(Live(id))
    BY <2>7, LiveIsFinite, FS_Subset, FS_CardinalityType
  <2>10. retry_count[id] + Cardinality(Live(id)) + 1 <= Limit(id) + Cardinality(Cycles)
    BY DEF Budgeted
  <2>11. CASE id = j
    <3>1. retry_count'[id] = retry_count[id] + 1
      BY <2>3, <2>11 DEF TypeOK
    <3>2. Cardinality(Live(id)') <= Cardinality(Live(id)) - 1
      BY <2>8, <2>11
    <3>3. QED
      BY <2>9, <2>10, <3>1, <3>2, LimitIsNat, CyclesAreFinite DEF TypeOK
  <2>12. CASE id # j
    <3>1. retry_count'[id] = retry_count[id]
      BY <2>3, <2>12 DEF TypeOK
    <3>2. QED
      BY <2>9, <2>10, <3>1, LimitIsNat, CyclesAreFinite DEF TypeOK
  <2>13. QED
    BY <2>11, <2>12
<1>3. ASSUME NEW f \in Cycles, NEW a \in pending[f], Skip(f, a) \/ Defer(f, a)
      PROVE  Budgeted'
  <2>1. \A id \in Rows : Live(id)' \subseteq Live(id)
    <3>1. \A g \in Cycles : pending'[g] \subseteq pending[g] /\ sending'[g] = sending[g]
      BY <1>3 DEF TypeOK, Skip, Defer, Drop
    <3>2. QED
      BY <3>1 DEF Live, Trying, Abandoned
  <2>2. QED
    BY <1>3, <2>1, FewerAttempts DEF Skip, Defer, table
<1>4. ASSUME NEW f \in Cycles, NEW a \in pending[f], Send(f, a)
      PROVE  Budgeted'
  <2>1. \A id \in Rows : Live(id)' \subseteq Live(id)
    BY <1>4 DEF TypeOK, Send, Drop, Live, Trying, Abandoned
  <2>2. QED
    BY <1>4, <2>1, FewerAttempts DEF Send, table
<1>5. ASSUME NEW f \in Cycles, Succeed(f) \/ DbError(f)
      PROVE  Budgeted'
  <2>1. \A id \in Rows : Live(id)' \subseteq Live(id)
    <3>1. \A g \in Cycles : pending'[g] \subseteq pending[g] /\ sending'[g] \in {sending[g], Nothing}
      BY <1>5 DEF TypeOK, Succeed, DbError, Over
    <3>2. QED
      BY <3>1 DEF Live, Trying, Abandoned
  <2>2. QED
    BY <1>5, <2>1, FewerAttempts DEF Succeed, DbError, table
<1>6. ASSUME Restart, UNCHANGED retry_count
      PROVE  Budgeted'
  <2>1. \A id \in Rows : Live(id)' \subseteq Live(id)
    BY <1>6 DEF Restart, Live, Trying
  <2>2. QED
    BY <1>6, <2>1, FewerAttempts
<1>7. ASSUME UNCHANGED <<pending, sending, retry_count>>
      PROVE  Budgeted'
  <2>1. \A id \in Rows : Live(id)' \subseteq Live(id)
    BY <1>7 DEF Live, Trying, Abandoned
  <2>2. QED
    BY <1>7, <2>1, FewerAttempts
<1>8. QED
  BY <1>1, <1>2, <1>3, <1>4, <1>5, <1>6, <1>7
  DEF Next, Monitor, Dispatch, StartCycle, RpcFails, Detect, EndCycle, CrashInDetect, Crash,
      Operator, Toggle, PauseOrResume, EditTargets, QuietHoursChange, vars, table, flow

(* No row is tried more often than its channel allows, but for one attempt *)
(* more with every other cycle that overlaps.                              *)
THEOREM AttemptsAreBounded == Spec => []RetriesBounded
<1> DEFINE I == TypeOK /\ OneCopy /\ Budgeted
<1>1. ASSUME Init
      PROVE  OneCopy /\ Budgeted
  <2> USE <1>1
  <2>1. \A f \in Cycles : pending[f] = {} /\ sending[f] = Nothing
    BY DEF Init
  <2>2. \A id \in Rows : Live(id) = {} /\ retry_count[id] = 0
    BY <2>1 DEF Init, Live, Trying
  <2>3. QED
    BY <2>1, <2>2, LimitIsNat, CyclesAreFinite, FS_EmptySet DEF OneCopy, Budgeted
<1>2. ASSUME TypeOK, TypeOK', OneCopy, Budgeted, [Next]_vars
      PROVE  OneCopy' /\ Budgeted'
  BY <1>2, OneCopyPreserved, BudgetedPreserved
<1>3. ASSUME TypeOK, Budgeted
      PROVE  RetriesBounded
  <2> SUFFICES ASSUME NEW id \in Rows
               PROVE  retry_count[id] + 1 <= Limit(id) + Cardinality(Cycles)
    BY DEF RetriesBounded
  <2>1. retry_count[id] + Cardinality(Live(id)) + 1 <= Limit(id) + Cardinality(Cycles)
    BY <1>3 DEF Budgeted
  <2>2. QED
    BY <1>3, <2>1, LiveIsFinite, LimitIsNat, CyclesAreFinite DEF TypeOK
<1>4. QED
  BY <1>1, <1>2, <1>3, TypeCorrect, PTL DEF Spec

-----------------------------------------------------------------------------
(* What a step may do. *)

(* Only the failure of an awaited send consumes a retry: no deferral, skip,*)
(* crash, edit or overlapping cycle does (dispatcher.ts, README, FAQ).     *)
THEOREM OnlyFailuresAreRetries == Spec => RetriesAreFailures
<1> DEFINE A == \A id \in Rows : retry_count'[id] # retry_count[id] =>
                  /\ retry_count'[id] = retry_count[id] + 1
                  /\ \E f \in Cycles : sending[f] # Nothing /\ sending[f].id = id
<1>1. ASSUME TypeOK, [Next]_vars
      PROVE  A
  <2>1. ASSUME NEW f \in Cycles, Fail(f)
        PROVE  A
    <3>1. /\ sending[f] # Nothing
          /\ retry_count' = [retry_count EXCEPT ![sending[f].id] = @ + 1]
      BY <2>1 DEF Fail, Over
    <3>2. \A id \in Rows : retry_count'[id] # retry_count[id] =>
            id = sending[f].id /\ retry_count'[id] = retry_count[id] + 1
      BY <1>1, <3>1 DEF TypeOK
    <3>3. QED
      BY <3>1, <3>2
  <2>2. CASE UNCHANGED retry_count
    BY <2>2
  <2>3. QED
    BY <1>1, <2>1, <2>2
    DEF Next, Monitor, Dispatch, StartCycle, RpcFails, Detect, CrashInDetect, TakePending,
        EndCycle, Skip, Defer, Send, Succeed, DbError, Crash, Operator, Toggle, PauseOrResume,
        EditTargets, QuietHoursChange, vars, table
<1>2. QED
  BY <1>1, TypeCorrect, PTL DEF Spec, RetriesAreFailures

(* A crossing takes an episode its pair has not had yet. *)
LEMMA NewEpisodesAreUnused ==
  ASSUME NEW p, Unused(p) # {}
  PROVE  NextEpisode(p) \in Unused(p)
<1>1. Unused(p) \in SUBSET Nat
  BY AlertAssumption DEF Unused, Episodes
<1>2. \E n \in Unused(p) : \A m \in Unused(p) : n <= m
  BY <1>1, LeastNatural
<1>3. QED
  BY <1>2 DEF NextEpisode

(* The rows a pair has open after a cycle, that had none before            *)
LEMMA DetectTellsEveryTarget ==
  ASSUME TypeOK, NEW f \in Cycles, Detect(f), NEW p \in Pairs,
         Unresolved(p) = {}, Unresolved(p)' # {}
  PROVE  targets[p[1]] = {id[3] : id \in Unresolved(p)'}
<1>1. PICK low, high :
        /\ Room(Crossed(low))
        /\ alerts_fired' = alerts_fired \cup Fired(Crossed(low))
        /\ resolved' = resolved \cup {id \in alerts_fired : PairOf(id) \in Recovered(high)}
  BY DEF Detect, Resolve
<1>2. Unresolved(p)' \subseteq Fired(Crossed(low))
  BY <1>1 DEF Unresolved
<1>3. /\ p \in Crossed(low)
      /\ \A id \in Fired(Crossed(low)) : PairOf(id) = p =>
           /\ id \in Rows /\ id[3] \in targets[p[1]] /\ id[4] = NextEpisode(p)
  <2>1. \A id \in Fired(Crossed(low)) :
          /\ PairOf(id) \in Crossed(low)
          /\ id \in Rows /\ id[3] \in targets[id[1]] /\ id[4] = NextEpisode(PairOf(id))
    BY DEF Fired
  <2>2. \A id : PairOf(id) = p => id[1] = p[1]
    BY DEF PairOf
  <2>3. PICK id \in Unresolved(p)' : TRUE
    OBVIOUS
  <2>4. PairOf(id) = p
    BY <2>3 DEF Unresolved, PairOf
  <2>5. QED
    BY <1>2, <2>1, <2>2, <2>3, <2>4
<1>4. NextEpisode(p) \in Unused(p)
  BY <1>1, <1>3, NewEpisodesAreUnused DEF Room
<1>5. ASSUME NEW t \in targets[p[1]]
      PROVE  <<p[1], p[2], t, NextEpisode(p)>> \in Unresolved(p)'
  <2> DEFINE id == <<p[1], p[2], t, NextEpisode(p)>>
  <2>1. p[1] \in Configs /\ p[2] \in Entries /\ p = <<p[1], p[2]>>
    BY DEF Pairs
  <2>2. id \in Rows /\ PairOf(id) = p
    BY <2>1, <1>4 DEF TypeOK, Rows, PairOf, Unused
  <2>3. id \in Fired(Crossed(low))
    BY <1>3, <2>2 DEF Fired
  <2>4. id \notin alerts_fired
    BY <1>4, <2>2 DEF Unused
  <2>5. id \notin resolved'
    BY <1>1, <2>4 DEF TypeOK
  <2>6. QED
    BY <1>1, <2>2, <2>3, <2>5 DEF Unresolved, PairOf
<1>6. \A id \in Unresolved(p)' : id[3] \in targets[p[1]]
  BY <1>2, <1>3 DEF Unresolved, PairOf
<1>7. \A t \in targets[p[1]] : \E id \in Unresolved(p)' : id[3] = t
  BY <1>5
<1>8. QED
  BY <1>6, <1>7

(* A crossing is told to every target its config has at that time, however *)
(* cycles overlap and the operator edits, unless the process dies between  *)
(* two of its INSERTs: they are no transaction (core/monitor.ts).          *)
THEOREM EveryTargetIsTold ==
  ASSUME "crash" \notin Faults
  PROVE  Spec => EveryTargetHasItsRow
<1> DEFINE A == \A p \in Pairs : Unresolved(p) = {} /\ Unresolved(p)' # {} =>
                  targets[p[1]] = {id[3] : id \in Unresolved(p)'}
<1>1. ASSUME TypeOK, [Next]_vars
      PROVE  A
  <2>1. ASSUME NEW f \in Cycles, Detect(f)
        PROVE  A
    BY <1>1, <2>1, DetectTellsEveryTarget
  <2>2. CASE UNCHANGED <<alerts_fired, resolved>>
    BY <2>2 DEF Unresolved
  <2>3. QED
    BY <1>1, <2>1, <2>2
    DEF Next, Monitor, Dispatch, StartCycle, RpcFails, CrashInDetect, TakePending, EndCycle, Skip,
        Defer, Send, Succeed, Fail, DbError, Crash, Operator, Toggle, PauseOrResume, EditTargets,
        QuietHoursChange, vars, table
<1>2. QED
  BY <1>1, TypeCorrect, PTL DEF Spec, EveryTargetHasItsRow
=============================================================================
