---------------------------- MODULE GuardPolicies ----------------------------
(***************************************************************************)
(* The auto-extension policies of the watched contracts, their per-type    *)
(* overrides and their versions: upsertExtensionPolicy and the commands    *)
(* that reach it (commands/guard.ts, core/fleet.ts, clone-config.ts,       *)
(* core/init.ts, guard_policy_history.ts), run by any number of processes  *)
(* on one database.                                                        *)
(*                                                                         *)
(* Every write is one SQLite transaction and one step; a command that      *)
(* fails a check writes nothing and is a stuttering step.  A TTL policy is *)
(* the pair <<target_ttl_ledgers, extend_when_below_ledgers>>.  A key is   *)
(* "none", a reference the daemon can resolve ("env", which stands for     *)
(* vault too), or a secret given as it is ("raw").  SQLite keeps enabled   *)
(* as 0 or 1: a JavaScript boolean is "true" or "false" here, and a        *)
(* number "0" or "1".                                                      *)
(***************************************************************************)
EXTENDS Naturals, Sequences, FiniteSets

CONSTANTS
  Contracts,
  EntryTypes,
  Choices,     \* the TTL pairs a user may ask for, valid or not
  Fees,        \* the fee ceilings a user may ask for
  Cycles,      \* the numbers of --predictive
  None,        \* NULL, and no row
  Tagged,      \* the contracts whose tags hold the tag of --tag
  MaxVersions  \* bound: the versions of a contract in guard_policy_history

ASSUME PolicyAssumption ==
  /\ Choices \subseteq Nat \X Nat
  /\ Cycles \subseteq Nat
  /\ Tagged \subseteq Contracts
  /\ MaxVersions \in [Contracts -> Nat]
  /\ None \notin Nat \X Nat /\ None \notin Fees

VARIABLES
  watched,    \* the rows of contracts
  policy,     \* extension_policies, at most one row for a contract
  overrides,  \* entry_type_policies
  history,    \* guard_policy_history, oldest version first
  bulk        \* what `guard --tag` has left to do

vars == <<watched, policy, overrides, history, bulk>>

Keys == {"none", "env", "raw"}
Policy == [enabled : {0, 1}, ttl : Choices, key : Keys, maxFee : Fees \cup {None},
           predictive : Nat]
Version == [enabled : {0, 1}, ttl : Choices, key : Keys, predictive : Nat]
Bulk == [todo : SUBSET Contracts, ttl : Choices, maxFee : Fees \cup {None},
         key : Keys, enabled : {"true", "false"}]

ASSUME NoRowAssumption == None \notin Policy /\ None \notin Bulk

Valid(ttl) == ttl[1] > 0 /\ ttl[2] > 0 /\ ttl[2] < ttl[1]

Has(c) == policy[c] # None
VersionOf(p) == [enabled |-> p.enabled, ttl |-> p.ttl, key |-> p.key, predictive |-> p.predictive]

Init ==
  /\ watched = {}
  /\ policy = [c \in Contracts |-> None]
  /\ overrides = [c \in Contracts |-> [t \in EntryTypes |-> None]]
  /\ history = [c \in Contracts |-> <<>>]
  /\ bulk = None

-----------------------------------------------------------------------------
(* The rows hang on contracts: the write of a contract nobody watches      *)
(* breaks the foreign key.                                                 *)
Writable(c) ==
  /\ c \in watched
  /\ Len(history[c]) < MaxVersions[c]

omitted == <<>>   \* an option that was not given; <<n>> when it was

(* Mutant: an omitted --predictive is stored as 0. *)
PredictiveReset(c, given) == IF given = omitted THEN 0 ELSE given[1]

(* predictive_cycles: "callers updating other fields omit it and must not  *)
(* silently reset it back to 0".                                           *)
PredictiveKept(c, given) ==
  IF given # omitted THEN given[1]
  ELSE IF Has(c) THEN policy[c].predictive ELSE 0

(* Mutant: the version is written before the row is complete. *)
RowUnversioned(c, row) ==
  /\ policy' = [policy EXCEPT ![c] = row]
  /\ UNCHANGED history

(* The row and its version, in one transaction; the version leaves out the *)
(* fee ceiling.                                                            *)
Row(c, row) ==
  /\ policy' = [policy EXCEPT ![c] = row]
  /\ history' = [history EXCEPT ![c] = Append(@, VersionOf(row))]

upsertExtensionPolicy(c, enabled, ttl, key, maxFee, predictive) ==
  /\ Writable(c)
  /\ Row(c, [enabled |-> IF enabled # "false" THEN 1 ELSE 0, ttl |-> ttl, key |-> key,
             maxFee |-> maxFee, predictive |-> PredictiveKept(c, predictive)])

AsBoolean(stored) == IF stored = 1 THEN "true" ELSE "false"
AsNumber(stored) == IF stored = 1 THEN "1" ELSE "0"

-----------------------------------------------------------------------------
(* guard <contract> --disable: the key is dropped with the rest. *)
Disable(c) ==
  \E ttl \in Choices, maxFee \in Fees \cup {None} :
    /\ Valid(ttl)
    /\ upsertExtensionPolicy(c, "false", ttl, "none", maxFee, omitted)
    /\ UNCHANGED <<watched, overrides, bulk>>

(* guard <contract> --auto-extend: the daemon must be able to resolve the  *)
(* key; without --predictive it is 0.                                      *)
AutoExtend(c) ==
  \E ttl \in Choices, maxFee \in Fees \cup {None}, n \in Cycles \cup {0} :
    /\ Valid(ttl)
    /\ upsertExtensionPolicy(c, "true", ttl, "env", maxFee, <<n>>)
    /\ UNCHANGED <<watched, overrides, bulk>>

(* guard --tag begins: getAllContracts is read once.  --auto-extend needs a *)
(* key the daemon can resolve; without it, and without --disable, the      *)
(* policy is enabled all the same, with whatever key was given.            *)
TagBegin ==
  /\ bulk = None
  /\ \E ttl \in Choices, maxFee \in Fees \cup {None}, key \in Keys, disable \in BOOLEAN :
       /\ Valid(ttl)
       /\ bulk' = [todo |-> watched \cap Tagged, ttl |-> ttl, maxFee |-> maxFee, key |-> key,
                   enabled |-> IF disable THEN "false" ELSE "true"]
  /\ UNCHANGED <<watched, policy, overrides, history>>

(* applyGuardPolicyByTag: one contract; a write that fails is reported and *)
(* the next contract is taken.                                             *)
TagStep(c) ==
  /\ bulk # None /\ c \in bulk.todo
  /\ \/ upsertExtensionPolicy(c, bulk.enabled, bulk.ttl, bulk.key, bulk.maxFee, omitted)
     \/ UNCHANGED <<policy, history>>
  /\ bulk' = [bulk EXCEPT !.todo = @ \ {c}]
  /\ UNCHANGED <<watched, overrides>>

TagEnd ==
  /\ bulk # None /\ bulk.todo = {}
  /\ bulk' = None
  /\ UNCHANGED <<watched, policy, overrides, history>>

-----------------------------------------------------------------------------
(* Mutant: the pair of an imported policy is not compared. *)
ImportUnchecked(c, exported) ==
  upsertExtensionPolicy(c, exported.enabled, exported.ttl, exported.key, None, omitted)

(* A raw secret is refused; what an export leaves out (ceiling,            *)
(* prediction) is omitted.                                                 *)
importExtensionPolicy(c, exported) ==
  /\ Valid(exported.ttl)
  /\ exported.key \in {"none", "env"}
  /\ upsertExtensionPolicy(c, exported.enabled, exported.ttl, exported.key, None, omitted)

(* guard import: any file, exported here or written by hand. *)
Import(c) ==
  \E exported \in [enabled : {"true", "false"}, ttl : Choices, key : Keys] :
    /\ importExtensionPolicy(c, exported)
    /\ UNCHANGED <<watched, overrides, bulk>>

(* clone-config: enabled is passed on as SQLite returned it, a number. *)
CloneConfig(from, to) ==
  /\ {from, to} \subseteq watched /\ Has(from)
  /\ LET p == policy[from] IN
       upsertExtensionPolicy(to, AsNumber(p.enabled), p.ttl, p.key, None, omitted)
  /\ UNCHANGED <<watched, overrides, bulk>>

(* init: the contract is watched first, and the policy is written with the *)
(* alert in one transaction; enabled, it has no key to extend with.        *)
InitWizard(c) ==
  \E ttl \in Choices, enabled \in {"true", "false"} :
    /\ Valid(ttl)
    /\ upsertExtensionPolicy(c, enabled, ttl, "none", None, omitted)
    /\ UNCHANGED <<watched, overrides, bulk>>

(* Mutant: the versions after the one restored are forgotten. *)
RollbackRewrites(c, i) ==
  LET v == history[c][i] IN
  /\ policy' = [policy EXCEPT ![c] = [enabled |-> v.enabled, ttl |-> v.ttl, key |-> v.key,
                                      maxFee |-> None, predictive |-> v.predictive]]
  /\ history' = [history EXCEPT ![c] = SubSeq(@, 1, i)]

(* The version is written as a new one, without a ceiling. *)
rollbackExtensionPolicy(c, i) ==
  LET v == history[c][i] IN
  upsertExtensionPolicy(c, AsBoolean(v.enabled), v.ttl, v.key, None, <<v.predictive>>)

(* guard rollback: to the version before, or to the one named *)
Rollback(c) ==
  /\ Has(c)
  /\ \E i \in DOMAIN history[c] : rollbackExtensionPolicy(c, i)
  /\ UNCHANGED <<watched, overrides, bulk>>

-----------------------------------------------------------------------------
setEntryTypePolicy(c, t, ttl) == overrides' = [overrides EXCEPT ![c][t] = ttl]
deleteEntryTypePolicy(c, t) == overrides' = [overrides EXCEPT ![c][t] = None]

(* guard entry-type, with a TTL pair or with --clear *)
EntryTypeOverride(c, t) ==
  /\ c \in watched
  /\ \/ \E ttl \in Choices : Valid(ttl) /\ setEntryTypePolicy(c, t, ttl)
     \/ deleteEntryTypePolicy(c, t)
  /\ UNCHANGED <<watched, policy, history, bulk>>

Watch(c) ==
  /\ c \notin watched
  /\ watched' = watched \cup {c}
  /\ UNCHANGED <<policy, overrides, history, bulk>>

(* unwatch: everything that hangs on the contract goes with it. *)
Unwatch(c) ==
  /\ c \in watched
  /\ watched' = watched \ {c}
  /\ policy' = [policy EXCEPT ![c] = None]
  /\ overrides' = [overrides EXCEPT ![c] = [t \in EntryTypes |-> None]]
  /\ history' = [history EXCEPT ![c] = <<>>]
  /\ UNCHANGED bulk

Next ==
  \/ \E c \in Contracts :
       \/ Watch(c) \/ Unwatch(c) \/ Disable(c) \/ AutoExtend(c) \/ Import(c) \/ Rollback(c)
       \/ InitWizard(c)
       \/ TagStep(c)
       \/ \E d \in Contracts : CloneConfig(c, d)
       \/ \E t \in EntryTypes : EntryTypeOverride(c, t)
  \/ TagBegin \/ TagEnd

Spec == Init /\ [][Next]_vars

-----------------------------------------------------------------------------
(* Type invariant of the tables. *)
TypeOK ==
  /\ watched \subseteq Contracts
  /\ policy \in [Contracts -> Policy \cup {None}]
  /\ overrides \in [Contracts -> [EntryTypes -> Choices \cup {None}]]
  /\ history \in [Contracts -> Seq(Version)]
  /\ bulk \in Bulk \cup {None}

(* getEffectivePolicy: the TTL pair the daemon uses for an entry. *)
EffectiveTtl(c, t) == IF overrides[c][t] # None THEN overrides[c][t] ELSE policy[c].ttl

(* Whatever commands ran, an entry that has just been extended is not due  *)
(* again: the effective threshold is below the effective target for every  *)
(* contract the daemon extends, or it would pay at every cycle.            *)
ThresholdsBelowTargets ==
  \A c \in Contracts : Has(c) => \A t \in EntryTypes : Valid(EffectiveTtl(c, t))

(* The policy in force is the newest version: the default rollback, which  *)
(* takes the second newest, always undoes the last change and no other.    *)
CurrentIsLatestVersion ==
  \A c \in Contracts :
    /\ Has(c) => /\ c \in watched /\ history[c] # <<>>
                 /\ history[c][Len(history[c])] = VersionOf(policy[c])
    /\ ~Has(c) => history[c] = <<>>

(* "History rows are never modified or deleted" (rollbackExtensionPolicy), *)
(* but with their contract.                                                *)
HistoryOnlyGrows ==
  [][\A c \in Contracts :
       c \in watched' => /\ Len(history[c]) <= Len(history'[c])
                         /\ \A i \in DOMAIN history[c] : history'[c][i] = history[c][i]]_vars

(* Prediction is switched off by --auto-extend or a rollback only: a       *)
(* --disable, a --tag, an import, a clone or init leaves it as it was.     *)
PredictionSurvives ==
  [][\A c \in Contracts :
       Has(c) /\ policy[c].predictive > 0 /\ policy'[c] # None /\ policy'[c].predictive = 0
         => AutoExtend(c) \/ Rollback(c)]_vars
=============================================================================
