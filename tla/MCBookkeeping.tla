---------------------------- MODULE MCBookkeeping ----------------------------
(***************************************************************************)
(* The small machines around the database, for TLC in one run: part says   *)
(* which of them a behaviour is about, and the others stay as they began.  *)
(***************************************************************************)
EXTENDS RateLimits, TtlSamples, CostSnapshots, Startup, Backup, AlertConfigs,
        StateDiff, Incidents, HealthReports

CONSTANTS c1, c2, k1, k2

VARIABLE part

Parts == {"rates", "samples", "costs", "startup", "backup",
          "configs", "diff", "incidents", "health"}

vars == <<part, rateVars, sampleVars, costVars, startVars, backupVars,
          configVars, diffVars, incidentVars, healthVars>>

(* The configurations but one have the same threshold, one of them at Opsgenie. *)
MCThreshold == [a \in {"a", "b", "c", "d"} |-> IF a = "c" THEN 2 ELSE 1]
MCService == [a \in {"a", "b", "c", "d"} |-> IF a = "d" THEN "opsgenie" ELSE "pagerduty"]

(* Two entries of one contract, one of the other *)
MCKeys == [c \in Monitored |-> IF c = c1 THEN {k1, k2} ELSE {k1}]

MCInit ==
  /\ part \in Parts
  /\ RateInit /\ SampleInit /\ CostInit /\ StartInit /\ BackupInit
  /\ ConfigInit /\ DiffInit /\ IncidentInit /\ HealthInit
  /\ part # "startup" => schema = {}
  /\ part # "samples" => \A l \in {ledger + extendWhenBelow + s : s \in Steps} : liveUntil <= l
  /\ part # "diff" => onChain = CHOOSE h \in {<<v>> : v \in Values} : TRUE

AllBut(p) ==
  /\ p # "rates" => UNCHANGED rateVars
  /\ p # "samples" => UNCHANGED sampleVars
  /\ p # "costs" => UNCHANGED costVars
  /\ p # "startup" => UNCHANGED startVars
  /\ p # "backup" => UNCHANGED backupVars
  /\ p # "configs" => UNCHANGED configVars
  /\ p # "diff" => UNCHANGED diffVars
  /\ p # "incidents" => UNCHANGED incidentVars
  /\ p # "health" => UNCHANGED healthVars

MCNext ==
  \/ part = "rates" /\ RateNext /\ AllBut("rates") /\ UNCHANGED part
  \/ part = "samples" /\ SampleNext /\ AllBut("samples") /\ UNCHANGED part
  \/ part = "costs" /\ CostNext /\ AllBut("costs") /\ UNCHANGED part
  \/ part = "startup" /\ StartNext /\ AllBut("startup") /\ UNCHANGED part
  \/ part = "backup" /\ BackupNext /\ AllBut("backup") /\ UNCHANGED part
  \/ part = "configs" /\ ConfigNext /\ AllBut("configs") /\ UNCHANGED part
  \/ part = "diff" /\ DiffNext /\ AllBut("diff") /\ UNCHANGED part
  \/ part = "incidents" /\ IncidentNext /\ AllBut("incidents") /\ UNCHANGED part
  \/ part = "health" /\ HealthNext /\ AllBut("health") /\ UNCHANGED part

MCSpec == MCInit /\ [][MCNext]_vars
=============================================================================
