------------------------------ MODULE TtlSamples ------------------------------
(***************************************************************************)
(* The samples of an entry's TTL and the projection made from them:        *)
(* insertTTLSample, getTTLSamples and pruneOldTTLSamples (repositories.ts),*)
(* core/predictive.ts, and the predictive path of runAutoExtensions and    *)
(* checkContract.  A sample is <<sampledAtLedger, liveUntilLedger>>.  An   *)
(* entry's live_until_ledger is moved by an extension, upwards, and falls  *)
(* only when the entry was deleted and created again.                      *)
(***************************************************************************)
EXTENDS Integers, Sequences, FiniteSetsExt

CONSTANTS
  MAX_TTL_SAMPLES,
  extendWhenBelow,   \* extend_when_below_ledgers
  Horizon,           \* predictive_cycles * ledgersPerCycle
  MaxLedger,         \* bound: the last ledger
  Steps              \* bound: how far an extension or a new entry may move

(* guard set takes no threshold that is not positive, and no target that   *)
(* is not greater.                                                         *)
ASSUME SampleAssumption ==
  /\ MAX_TTL_SAMPLES \in Nat /\ extendWhenBelow \in Nat
  /\ Steps \subseteq Nat

VARIABLES
  ledger,
  liveUntil,   \* live_until_ledger on chain
  samples,     \* the rows of ttl_samples, newest first
  recreated    \* the ledgers at which the entry was created again

sampleVars == <<ledger, liveUntil, samples, recreated>>

SampleInit ==
  /\ ledger = 1
  /\ liveUntil \in {ledger + extendWhenBelow + s : s \in Steps}
  /\ samples = <<>>
  /\ recreated = {}

-----------------------------------------------------------------------------
(* The columns of the samples, and their sums *)
SampledAt == [i \in DOMAIN samples |-> samples[i][1]]
LiveUntil == [i \in DOMAIN samples |-> samples[i][2]]
Product(f, g) == [i \in DOMAIN samples |-> f[i] * g[i]]
Summed(f) == MapThenSumSet(LAMBDA i : f[i], DOMAIN samples)

(* Mutant: the slope is not negated. *)
DecayUnnegated ==
  Len(samples) * Summed(Product(SampledAt, LiveUntil)) - Summed(SampledAt) * Summed(LiveUntil)

(* computeDecayRate: the regression of liveUntil on the ledger, as the     *)
(* fraction Decay / Spread; positive when the slope is negative.  With     *)
(* fewer than two samples, or all of one ledger, Spread is 0.              *)
Decay ==
  Summed(SampledAt) * Summed(LiveUntil) - Len(samples) * Summed(Product(SampledAt, LiveUntil))

Spread ==
  Len(samples) * Summed(Product(SampledAt, SampledAt)) - Summed(SampledAt) * Summed(SampledAt)

Projects == Spread > 0 /\ Decay > 0

(* projectCrossingLedger <= the horizon, with the rate multiplied out; the *)
(* projection is rounded, which this leaves out.                           *)
DueByPrediction ==
  LET remaining == liveUntil - ledger IN
  /\ remaining >= extendWhenBelow
  /\ Projects
  /\ (remaining - extendWhenBelow) * Spread <= Horizon * Decay

(* The reactive path of the same filter *)
DueByThreshold == liveUntil - ledger >= 0 /\ liveUntil - ledger < extendWhenBelow

(* guard preview: what the last check stored, against the policy of the    *)
(* contract (an override for the type of the entry is not looked up).      *)
WouldExtend ==
  samples # <<>> /\ samples[1][2] - samples[1][1] \in 0 .. extendWhenBelow - 1

-----------------------------------------------------------------------------
(* checkContract: the sample is inserted and all but the newest are pruned *)
Sample ==
  /\ ledger < MaxLedger
  /\ ledger' = ledger + 1
  /\ samples' = LET all == <<<<ledger', liveUntil>>>> \o samples
                IN  SubSeq(all, 1, IF Len(all) < MAX_TTL_SAMPLES THEN Len(all) ELSE MAX_TTL_SAMPLES)
  /\ UNCHANGED <<liveUntil, recreated>>

(* Ledgers pass while the daemon is down. *)
Pass ==
  /\ ledger < MaxLedger
  /\ ledger' = ledger + 1
  /\ UNCHANGED <<liveUntil, samples, recreated>>

(* runAutoExtensions, guard extend, or anybody else on the network *)
ExtendEntry ==
  /\ DueByThreshold \/ DueByPrediction
  /\ \E s \in Steps : liveUntil' = liveUntil + extendWhenBelow + s
  /\ UNCHANGED <<ledger, samples, recreated>>

(* The contract deletes the entry and creates it again. *)
Recreate ==
  /\ \E s \in Steps : liveUntil' = ledger + s
  /\ recreated' = recreated \cup {ledger}
  /\ UNCHANGED <<ledger, samples>>

SampleNext == Sample \/ Pass \/ ExtendEntry \/ Recreate

SampleSpec == SampleInit /\ [][SampleNext]_sampleVars

(* A crossing is projected only from an entry that was created again while *)
(* it was sampled: live_until_ledger is an absolute ledger, so a TTL that  *)
(* runs down, extended or not, never looks like one that falls, and the    *)
(* predictive path extends nothing that the threshold would not.  What     *)
(* guard preview says would be extended is due as long as the entry has    *)
(* not been extended, and until it expires.                                *)
DueAsExpected ==
  /\ Projects => \E l \in recreated : l >= samples[Len(samples)][1] /\ l < samples[1][1]
  /\ WouldExtend /\ liveUntil = samples[1][2] => DueByThreshold \/ liveUntil < ledger
=============================================================================
