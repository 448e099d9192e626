-------------------------- MODULE GuardPoliciesProofs --------------------------
(***************************************************************************)
(* Proofs about GuardPolicies, for any contracts, TTL pairs and number of  *)
(* processes.  All commands but unwatch write through one function, so     *)
(* that what it keeps is one lemma, Upsert, which every action cites.  The *)
(* inductive invariant says of every place a TTL pair is kept in (policy,  *)
(* override, version, and the pair a running guard --tag has still to      *)
(* write) that its threshold is below its target.                          *)
(***************************************************************************)
EXTENDS GuardPolicies, TLAPS

(* The policies and their versions *)
PoliciesOK ==
  /\ policy \in [Contracts -> Policy \cup {None}]
  /\ history \in [Contracts -> Seq(Version)]
  /\ \A c \in Contracts : Has(c) => Valid(policy[c].ttl)
  /\ \A c \in Contracts : \A i \in DOMAIN history[c] : Valid(history[c][i].ttl)
  /\ CurrentIsLatestVersion

OverridesOK ==
  /\ overrides \in [Contracts -> [EntryTypes -> Choices \cup {None}]]
  /\ \A c \in Contracts, t \in EntryTypes : overrides[c][t] # None => Valid(overrides[c][t])

BulkOK == bulk = None \/ (bulk \in Bulk /\ Valid(bulk.ttl))

IInv == watched \subseteq Contracts /\ PoliciesOK /\ OverridesOK /\ BulkOK

(* What a command passes for --predictive *)
Given == {omitted} \cup {<<n>> : n \in Nat}

-----------------------------------------------------------------------------
(* The upsert appends a valid version and makes it the policy in force,    *)
(* and leaves every other contract alone.                                  *)
LEMMA Upsert ==
  ASSUME IInv, NEW c \in Contracts, NEW enabled, NEW ttl \in Choices, Valid(ttl),
         NEW key \in Keys, NEW maxFee \in Fees \cup {None}, NEW given \in Given,
         upsertExtensionPolicy(c, enabled, ttl, key, maxFee, given), UNCHANGED watched
  PROVE  /\ PoliciesOK'
         /\ policy'[c] \in Policy
         /\ policy'[c].predictive = PredictiveKept(c, given)
         /\ \E v \in Version : history' = [history EXCEPT ![c] = Append(@, v)]
         /\ \A d \in Contracts \ {c} : policy'[d] = policy[d]
<1> DEFINE row == [enabled |-> IF enabled # "false" THEN 1 ELSE 0, ttl |-> ttl, key |-> key,
                   maxFee |-> maxFee, predictive |-> PredictiveKept(c, given)]
<1>1. PredictiveKept(c, given) \in Nat
  BY DEF IInv, PoliciesOK, Policy, PredictiveKept, Given, omitted, Has
<1>2. row \in Policy /\ VersionOf(row) \in Version
  BY <1>1 DEF Policy, Version, VersionOf
<1>3. /\ policy' = [policy EXCEPT ![c] = row]
      /\ history' = [history EXCEPT ![c] = Append(@, VersionOf(row))]
      /\ c \in watched
  BY DEF upsertExtensionPolicy, Row, Writable
<1>4. /\ policy'[c] = row /\ \A d \in Contracts \ {c} : policy'[d] = policy[d]
      /\ policy' \in [Contracts -> Policy \cup {None}]
  BY <1>2, <1>3 DEF IInv, PoliciesOK
<1>5. /\ history'[c] = Append(history[c], VersionOf(row))
      /\ \A d \in Contracts \ {c} : history'[d] = history[d]
      /\ history[c] \in Seq(Version)
      /\ history' \in [Contracts -> Seq(Version)]
  BY <1>2, <1>3 DEF IInv, PoliciesOK
<1>6. row.ttl = ttl /\ VersionOf(row).ttl = ttl
  BY DEF VersionOf
<1>7. \A d \in Contracts : Has(d)' => Valid(policy[d].ttl)'
  BY <1>4, <1>6 DEF IInv, PoliciesOK, Has, Valid
<1>8. \A d \in Contracts : \A i \in DOMAIN history'[d] : Valid(history'[d][i].ttl)
  <2> SUFFICES ASSUME NEW d \in Contracts, NEW i \in DOMAIN history'[d]
               PROVE  Valid(history'[d][i].ttl)
    OBVIOUS
  <2>1. CASE d # c
    BY <2>1, <1>5 DEF IInv, PoliciesOK
  <2>2. CASE d = c
    <3>1. history'[c][i] = IF i = Len(history[c]) + 1 THEN VersionOf(row) ELSE history[c][i]
      BY <2>2, <1>2, <1>5
    <3>2. i = Len(history[c]) + 1 \/ i \in DOMAIN history[c]
      BY <2>2, <1>2, <1>5
    <3> QED  BY <2>2, <3>1, <3>2, <1>6 DEF IInv, PoliciesOK
  <2> QED  BY <2>1, <2>2
<1>9. CurrentIsLatestVersion'
  <2> SUFFICES ASSUME NEW d \in Contracts
               PROVE  /\ Has(d)' => /\ d \in watched' /\ history'[d] # <<>>
                                    /\ history'[d][Len(history'[d])] = VersionOf(policy'[d])
                      /\ ~Has(d)' => history'[d] = <<>>
    BY DEF CurrentIsLatestVersion, VersionOf
  <2>1. CASE d # c
    BY <2>1, <1>4, <1>5 DEF IInv, PoliciesOK, CurrentIsLatestVersion, Has
  <2>2. CASE d = c
    <3>1. /\ history'[c] # <<>> /\ Len(history'[c]) = Len(history[c]) + 1
          /\ history'[c][Len(history[c]) + 1] = VersionOf(row)
      BY <1>2, <1>5
    <3>2. row # None
      BY <1>2, NoRowAssumption
    <3> QED  BY <2>2, <3>1, <3>2, <1>3, <1>4 DEF Has
  <2> QED  BY <2>1, <2>2
<1> QED  BY <1>2, <1>3, <1>4, <1>5, <1>7, <1>8, <1>9 DEF PoliciesOK, Valid

(* A command that writes no policy keeps what is said of them. *)
LEMMA NoWrite ==
  ASSUME IInv, UNCHANGED <<watched, policy, history>>
  PROVE  PoliciesOK'
BY DEF IInv, PoliciesOK, CurrentIsLatestVersion, Has, Valid, VersionOf

LEMMA KeptOthers ==
  ASSUME IInv, UNCHANGED overrides
  PROVE  OverridesOK'
BY DEF IInv, OverridesOK, Valid

LEMMA KeptBulk ==
  ASSUME IInv, UNCHANGED bulk
  PROVE  BulkOK'
BY DEF IInv, BulkOK, Valid

(* Every action that writes a policy does so by the upsert, with a valid   *)
(* pair, and only AutoExtend and Rollback pass a prediction on.            *)
Upserts(c, given) ==
  \E enabled \in {"true", "false", "0", "1"}, ttl \in Choices, key \in Keys,
     maxFee \in Fees \cup {None} :
    /\ Valid(ttl)
    /\ upsertExtensionPolicy(c, enabled, ttl, key, maxFee, given)

LEMMA Writes ==
  ASSUME IInv, Cycles \subseteq Nat, NEW c \in Contracts
  PROVE  /\ Disable(c) \/ Import(c) \/ InitWizard(c) => Upserts(c, omitted)
         /\ TagStep(c) => Upserts(c, omitted) \/ UNCHANGED <<policy, history>>
         /\ \A d \in Contracts : CloneConfig(d, c) => Upserts(c, omitted)
         /\ AutoExtend(c) \/ Rollback(c) => \E n \in Nat : Upserts(c, <<n>>)
<1>1. Disable(c) => Upserts(c, omitted)
  BY DEF Disable, Upserts, Keys
<1>2. Import(c) => Upserts(c, omitted)
  BY DEF Import, importExtensionPolicy, Upserts, Keys
<1>3. InitWizard(c) => Upserts(c, omitted)
  BY DEF InitWizard, Upserts, Keys
<1>4. TagStep(c) => Upserts(c, omitted) \/ UNCHANGED <<policy, history>>
  <2> SUFFICES ASSUME TagStep(c), ~UNCHANGED <<policy, history>>
               PROVE  Upserts(c, omitted)
    OBVIOUS
  <2>1. bulk \in Bulk /\ Valid(bulk.ttl)
    BY DEF TagStep, IInv, BulkOK
  <2>2. /\ bulk.enabled \in {"true", "false"} /\ bulk.ttl \in Choices
        /\ bulk.key \in Keys /\ bulk.maxFee \in Fees \cup {None}
    BY <2>1 DEF Bulk
  <2> QED  BY <2>1, <2>2 DEF TagStep, Upserts
<1>5. ASSUME NEW d \in Contracts, CloneConfig(d, c)
      PROVE  Upserts(c, omitted)
  <2>1. policy[d] \in Policy /\ Valid(policy[d].ttl)
    BY <1>5 DEF CloneConfig, IInv, PoliciesOK, Has
  <2>2. policy[d].ttl \in Choices /\ policy[d].key \in Keys
    BY <2>1 DEF Policy
  <2>3. AsNumber(policy[d].enabled) \in {"0", "1"}
    BY DEF AsNumber
  <2> QED  BY <1>5, <2>1, <2>2, <2>3 DEF CloneConfig, Upserts
<1>6. AutoExtend(c) => \E n \in Nat : Upserts(c, <<n>>)
  <2> SUFFICES ASSUME AutoExtend(c)  PROVE \E n \in Nat : Upserts(c, <<n>>)
    OBVIOUS
  <2>1. PICK ttl \in Choices, maxFee \in Fees \cup {None}, n \in Cycles \cup {0} :
          Valid(ttl) /\ upsertExtensionPolicy(c, "true", ttl, "env", maxFee, <<n>>)
    BY DEF AutoExtend
  <2>2. n \in Nat /\ "env" \in Keys
    BY DEF Keys
  <2> QED  BY <2>1, <2>2 DEF Upserts
<1>7. ASSUME Rollback(c)  PROVE \E n \in Nat : Upserts(c, <<n>>)
  <2>1. PICK i \in DOMAIN history[c] : rollbackExtensionPolicy(c, i)
    BY <1>7 DEF Rollback
  <2>2. history[c][i] \in Version /\ Valid(history[c][i].ttl)
    BY DEF IInv, PoliciesOK
  <2>3. /\ history[c][i].ttl \in Choices /\ history[c][i].key \in Keys
        /\ history[c][i].predictive \in Nat
    BY <2>2 DEF Version
  <2>4. AsBoolean(history[c][i].enabled) \in {"true", "false"}
    BY DEF AsBoolean
  <2>5. Upserts(c, <<history[c][i].predictive>>)
    BY <2>1, <2>2, <2>3, <2>4 DEF rollbackExtensionPolicy, Upserts
  <2> QED  BY <2>3, <2>5
<1> QED  BY <1>1, <1>2, <1>3, <1>4, <1>5, <1>6, <1>7

(* Upsert again, for the arguments hidden in Upserts *)
LEMMA UpsertsKeep ==
  ASSUME IInv, NEW c \in Contracts, NEW given \in Given, Upserts(c, given), UNCHANGED watched
  PROVE  /\ PoliciesOK'
         /\ policy'[c] \in Policy
         /\ policy'[c].predictive = PredictiveKept(c, given)
         /\ \E v \in Version : history' = [history EXCEPT ![c] = Append(@, v)]
         /\ \A d \in Contracts \ {c} : policy'[d] = policy[d]
<1>1. PICK enabled \in {"true", "false", "0", "1"}, ttl \in Choices, key \in Keys,
           maxFee \in Fees \cup {None} :
        Valid(ttl) /\ upsertExtensionPolicy(c, enabled, ttl, key, maxFee, given)
  BY DEF Upserts
<1> QED  BY <1>1, Upsert

-----------------------------------------------------------------------------
(* The commands, by what they write *)
WritesOmitted(c) == Upserts(c, omitted)
WritesGiven(c) == \E n \in Nat : Upserts(c, <<n>>)

(* What every step does to the policies: one upsert of one contract, one   *)
(* unwatch, or nothing.                                                    *)
LEMMA StepCases ==
  ASSUME IInv, [Next]_vars
  PROVE  \/ \E c \in Contracts :
              /\ UNCHANGED watched
              /\ \/ WritesOmitted(c)
                 \/ (AutoExtend(c) \/ Rollback(c)) /\ WritesGiven(c)
         \/ \E c \in Contracts : Unwatch(c)
         \/ /\ UNCHANGED <<policy, history>>
            /\ watched \subseteq watched' /\ watched' \subseteq Contracts
<1> USE PolicyAssumption
<1>1. CASE UNCHANGED vars
  BY <1>1 DEF vars, IInv
<1>2. ASSUME NEW c \in Contracts, Disable(c) \/ Import(c) \/ InitWizard(c)
      PROVE  UNCHANGED watched /\ WritesOmitted(c)
  BY <1>2, Writes DEF Disable, Import, InitWizard, WritesOmitted
<1>3. ASSUME NEW c \in Contracts, AutoExtend(c) \/ Rollback(c)
      PROVE  UNCHANGED watched /\ WritesGiven(c)
  BY <1>3, Writes DEF AutoExtend, Rollback, WritesGiven
<1>4. ASSUME NEW c \in Contracts, TagStep(c)
      PROVE  UNCHANGED watched /\ (WritesOmitted(c) \/ UNCHANGED <<policy, history>>)
  BY <1>4, Writes DEF TagStep, WritesOmitted
<1>5. ASSUME NEW c \in Contracts, NEW d \in Contracts, CloneConfig(c, d)
      PROVE  UNCHANGED watched /\ WritesOmitted(d)
  BY <1>5, Writes DEF CloneConfig, WritesOmitted
<1>6. ASSUME NEW c \in Contracts, Watch(c)
      PROVE  UNCHANGED <<policy, history>> /\ watched \subseteq watched' /\ watched' \subseteq Contracts
  BY <1>6 DEF Watch, IInv
<1>7. ASSUME NEW c \in Contracts, NEW t \in EntryTypes, EntryTypeOverride(c, t)
      PROVE  UNCHANGED <<policy, history, watched>>
  BY <1>7 DEF EntryTypeOverride
<1>8. CASE TagBegin \/ TagEnd
  BY <1>8 DEF TagBegin, TagEnd, IInv
<1>9. watched \subseteq Contracts
  BY DEF IInv
<1> QED  BY <1>1, <1>2, <1>3, <1>4, <1>5, <1>6, <1>7, <1>8, <1>9 DEF Next

-----------------------------------------------------------------------------
LEMMA InitInv == Init => IInv
BY DEF Init, IInv, PoliciesOK, OverridesOK, BulkOK, CurrentIsLatestVersion, Has

LEMMA PoliciesStep == IInv /\ [Next]_vars => PoliciesOK' /\ (watched \subseteq Contracts)'
<1> SUFFICES ASSUME IInv, [Next]_vars
             PROVE  PoliciesOK' /\ watched' \subseteq Contracts
  OBVIOUS
<1>1. watched \subseteq Contracts
  BY DEF IInv
<1>2. ASSUME NEW c \in Contracts, UNCHANGED watched, WritesOmitted(c) \/ WritesGiven(c)
      PROVE  PoliciesOK'
  BY <1>2, UpsertsKeep DEF WritesOmitted, WritesGiven, Given
<1>3. ASSUME NEW c \in Contracts, Unwatch(c)
      PROVE  PoliciesOK' /\ watched' \subseteq Contracts
  BY <1>3, NoRowAssumption
     DEF Unwatch, IInv, PoliciesOK, CurrentIsLatestVersion, Has, Valid, VersionOf
<1>4. ASSUME UNCHANGED <<policy, history>>, watched \subseteq watched'
      PROVE  PoliciesOK'
  BY <1>4 DEF IInv, PoliciesOK, CurrentIsLatestVersion, Has, Valid, VersionOf
<1> QED  BY <1>1, <1>2, <1>3, <1>4, StepCases

LEMMA OverridesStep == IInv /\ [Next]_vars => OverridesOK'
<1> SUFFICES ASSUME IInv, [Next]_vars  PROVE OverridesOK'
  OBVIOUS
<1>1. ASSUME NEW c \in Contracts, Unwatch(c)  PROVE OverridesOK'
  BY <1>1 DEF Unwatch, IInv, OverridesOK, Valid
<1>2. ASSUME NEW c \in Contracts, NEW t \in EntryTypes, EntryTypeOverride(c, t)
      PROVE  OverridesOK'
  BY <1>2 DEF EntryTypeOverride, setEntryTypePolicy, deleteEntryTypePolicy, IInv, OverridesOK, Valid
<1>3. CASE UNCHANGED overrides
  BY <1>3, KeptOthers
<1> QED
  BY <1>1, <1>2, <1>3 DEF Next, vars, Watch, Disable, AutoExtend, Import, Rollback, InitWizard,
     TagStep, CloneConfig, TagBegin, TagEnd

LEMMA BulkStep == IInv /\ [Next]_vars => BulkOK'
<1> SUFFICES ASSUME IInv, [Next]_vars  PROVE BulkOK'
  OBVIOUS
<1>1. CASE TagBegin
  BY <1>1 DEF TagBegin, IInv, BulkOK, Bulk, Valid
<1>2. ASSUME NEW c \in Contracts, TagStep(c)  PROVE BulkOK'
  BY <1>2 DEF TagStep, IInv, BulkOK, Bulk, Valid
<1>3. CASE TagEnd
  BY <1>3 DEF TagEnd, BulkOK
<1>4. CASE UNCHANGED bulk
  BY <1>4, KeptBulk
<1> QED
  BY <1>1, <1>2, <1>3, <1>4 DEF Next, vars, Watch, Unwatch, Disable, AutoExtend, Import, Rollback,
     InitWizard, CloneConfig, EntryTypeOverride

(* The strengthened invariant holds in every reachable state. *)
THEOREM Invariant == Spec => []IInv
<1>1. IInv /\ [Next]_vars => IInv'
  BY PoliciesStep, OverridesStep, BulkStep DEF IInv
<1> QED  BY InitInv, <1>1, PTL DEF Spec

(* The tables keep their types, and a running guard --tag its choice. *)
THEOREM TypesHold == Spec => []TypeOK
<1>1. IInv => TypeOK
  BY DEF IInv, PoliciesOK, OverridesOK, BulkOK, TypeOK
<1> QED  BY Invariant, <1>1, PTL

(* No sequence of guard, --tag, import, clone-config, init, rollback,      *)
(* entry-type and unwatch leaves an effective threshold at or above its    *)
(* target, though only some of the commands compare the two.               *)
THEOREM NoEndlessExtension == Spec => []ThresholdsBelowTargets
<1>1. IInv => ThresholdsBelowTargets
  BY DEF IInv, PoliciesOK, OverridesOK, ThresholdsBelowTargets, EffectiveTtl
<1> QED  BY Invariant, <1>1, PTL

(* The policy in force is the newest version, so that the default rollback *)
(* undoes the last change and no other.                                    *)
THEOREM RollbackUndoesTheLast == Spec => []CurrentIsLatestVersion
<1>1. IInv => CurrentIsLatestVersion
  BY DEF IInv, PoliciesOK
<1> QED  BY Invariant, <1>1, PTL

(* No version is changed or taken away while its contract is watched: a    *)
(* rollback appends.                                                       *)
THEOREM VersionsAreKept == Spec => HistoryOnlyGrows
<1> DEFINE Grows == \A c \in Contracts :
             c \in watched' => /\ Len(history[c]) <= Len(history'[c])
                               /\ \A i \in DOMAIN history[c] : history'[c][i] = history[c][i]
<1>1. IInv /\ [Next]_vars => Grows
  <2> SUFFICES ASSUME IInv, [Next]_vars, NEW c \in Contracts, c \in watched'
               PROVE  /\ Len(history[c]) <= Len(history'[c])
                      /\ \A i \in DOMAIN history[c] : history'[c][i] = history[c][i]
    OBVIOUS
  <2>1. history \in [Contracts -> Seq(Version)] /\ history[c] \in Seq(Version)
    BY DEF IInv, PoliciesOK
  <2>2. ASSUME NEW d \in Contracts, UNCHANGED watched, WritesOmitted(d) \/ WritesGiven(d)
        PROVE  \E v \in Version : history' = [history EXCEPT ![d] = Append(@, v)]
    BY <2>2, UpsertsKeep DEF WritesOmitted, WritesGiven, Given
  <2>3. ASSUME NEW d \in Contracts, NEW v \in Version, history' = [history EXCEPT ![d] = Append(@, v)]
        PROVE  /\ Len(history[c]) <= Len(history'[c])
               /\ \A i \in DOMAIN history[c] : history'[c][i] = history[c][i]
    BY <2>1, <2>3
  <2>4. ASSUME NEW d \in Contracts, Unwatch(d)
        PROVE  history'[c] = history[c]
    BY <2>1, <2>4 DEF Unwatch
  <2> QED  BY <2>1, <2>2, <2>3, <2>4, StepCases
<1> QED  BY Invariant, <1>1, PTL DEF Spec, HistoryOnlyGrows

(* Only --auto-extend and a rollback switch the prediction off. *)
THEOREM PredictionIsKept == Spec => PredictionSurvives
<1> DEFINE Survives == \A c \in Contracts :
             Has(c) /\ policy[c].predictive > 0 /\ policy'[c] # None /\ policy'[c].predictive = 0
               => AutoExtend(c) \/ Rollback(c)
<1>1. IInv /\ [Next]_vars => Survives
  <2> SUFFICES ASSUME IInv, [Next]_vars, NEW c \in Contracts,
                      Has(c), policy[c].predictive > 0, policy'[c] # None, policy'[c].predictive = 0
               PROVE  AutoExtend(c) \/ Rollback(c)
    OBVIOUS
  <2>1. policy'[c] # policy[c]
    OBVIOUS
  <2>2. ASSUME NEW d \in Contracts, UNCHANGED watched, WritesOmitted(d)
        PROVE  FALSE
    <3>1. /\ policy'[d].predictive = PredictiveKept(d, omitted)
          /\ \A e \in Contracts \ {d} : policy'[e] = policy[e]
      BY <2>2, UpsertsKeep DEF WritesOmitted, Given
    <3> QED  BY <2>1, <3>1 DEF PredictiveKept, Has
  <2>3. ASSUME NEW d \in Contracts, UNCHANGED watched, AutoExtend(d) \/ Rollback(d), WritesGiven(d)
        PROVE  AutoExtend(c) \/ Rollback(c)
    <3>1. \A e \in Contracts \ {d} : policy'[e] = policy[e]
      BY <2>3, UpsertsKeep DEF WritesGiven, Given
    <3> QED  BY <2>1, <2>3, <3>1
  <2>4. ASSUME NEW d \in Contracts, Unwatch(d)
        PROVE  FALSE
    BY <2>1, <2>4 DEF Unwatch, IInv, PoliciesOK
  <2> QED  BY <2>1, <2>2, <2>3, <2>4, StepCases
<1> QED  BY Invariant, <1>1, PTL DEF Spec, PredictionSurvives
=============================================================================
