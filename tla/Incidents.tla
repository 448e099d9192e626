------------------------------ MODULE Incidents ------------------------------
(***************************************************************************)
(* The incidents that alerts open and close in PagerDuty and Opsgenie      *)
(* (alerts/pagerduty.ts, alerts/opsgenie.ts).  Both services tell them     *)
(* apart by the deduplication key (Opsgenie's alias) of the event; the     *)
(* daemon triggers one when the dispatcher delivers a row of alerts_fired  *)
(* and closes it by the notice that checkContract sends, and does not      *)
(* await, when the rows resolve.  The configurations here are all of one   *)
(* entry and of either service; a row in its quiet hours waits.            *)
(***************************************************************************)
EXTENDS Naturals, Sequences, FiniteSets, SequencesExt

CONSTANTS
  AlertIds,      \* the configurations
  Threshold,     \* threshold_ledgers of each
  Service,       \* the channel of each: "pagerduty" or "opsgenie"
  TTLs,          \* the remaining TTLs a check may find
  maxRetries,
  Tested,        \* bound: the configurations that are tested
  MaxRows        \* bound: the rows of alerts_fired

ASSUME IncidentAssumption == IsFiniteSet(AlertIds)

VARIABLES
  enabledAlerts,
  rows,          \* alerts_fired, by id
  notices,       \* the rows whose resolution notice is in flight
  openIncidents, \* the keys of the incidents open at the service
  mixedUp        \* a notice was lost, or met a trigger of its own key

incidentVars == <<enabledAlerts, rows, notices, openIncidents, mixedUp>>

IncidentInit ==
  /\ enabledAlerts = AlertIds
  /\ rows = <<>> /\ notices = {} /\ openIncidents = {}
  /\ mixedUp = FALSE

(* Mutant: the key of the entry alone *)
DedupKeyOfEntry(c) == "entry"

(* buildDedupKey of an event of configuration c, and Opsgenie's buildAlias: *)
(* the entry, the same for all here, and the threshold.                    *)
DedupKey(c) == Threshold[c]
Alias(c) == Threshold[c]
Key(c) == <<Service[c], IF Service[c] = "opsgenie" THEN Alias(c) ELSE DedupKey(c)>>

Unresolved(c) == {i \in DOMAIN rows : rows[i].config = c /\ ~rows[i].resolved}

(* checkContract on an answer with this TTL: every enabled configuration   *)
(* fires or resolves, with no other step in between.                       *)
CheckIncidents(ttl) ==
  LET fires == {c \in enabledAlerts : ttl < Threshold[c] /\ Unresolved(c) = {}}
      resolved == {i \in DOMAIN rows : /\ rows[i].config \in enabledAlerts /\ ~rows[i].resolved
                                       /\ ttl >= Threshold[rows[i].config]}
      new == SetToSeq({[config |-> c, resolved |-> FALSE, delivered |-> FALSE, tries |-> 0] : c \in fires})
  IN
  /\ Len(rows) + Len(new) <= MaxRows
  /\ rows' = [i \in DOMAIN rows |-> [rows[i] EXCEPT !.resolved = @ \/ i \in resolved]] \o new
  /\ notices' = notices \cup resolved
  /\ UNCHANGED <<enabledAlerts, openIncidents, mixedUp>>

(* deliverPendingAlerts: the trigger arrives or not, and the service's     *)
(* answer as well.  A row that has resolved meanwhile is sent all the same.*)
Trigger(i) ==
  LET key == Key(rows[i].config) IN
  /\ ~rows[i].delivered /\ rows[i].tries < maxRetries
  /\ \E arrives, answered \in BOOLEAN :
       /\ answered => arrives
       /\ openIncidents' = IF arrives THEN openIncidents \cup {key} ELSE openIncidents
       /\ rows' = IF answered THEN [rows EXCEPT ![i].delivered = TRUE]
                              ELSE [rows EXCEPT ![i].tries = @ + 1]
       /\ mixedUp' = (mixedUp \/ (arrives /\ (\/ rows[i].resolved
                                             \/ \E n \in notices : Key(rows[n].config) = key)))
  /\ UNCHANGED <<enabledAlerts, notices>>

(* deliverSingleAlert, which the cycle does not await: once, and a failure *)
(* is only logged.                                                         *)
NoticeArrives(i) ==
  /\ openIncidents' = openIncidents \ {Key(rows[i].config)}
  /\ notices' = notices \ {i}
  /\ UNCHANGED <<enabledAlerts, rows, mixedUp>>

NoticeFails(i) ==
  /\ notices' = notices \ {i}
  /\ mixedUp' = TRUE
  /\ UNCHANGED <<enabledAlerts, rows, openIncidents>>

(* alerts test, and test-all for each configuration in turn: an event of   *)
(* no entry of the contract, whose incident nothing closes.                *)
TestKey(c) == <<Service[c], "TEST_ENTRY_KEY", Threshold[c]>>
TestAlert(c) ==
  /\ openIncidents' = openIncidents \cup {TestKey(c)}
  /\ UNCHANGED <<enabledAlerts, rows, notices, mixedUp>>

SwitchAlert(c) ==
  /\ enabledAlerts' = IF c \in enabledAlerts THEN enabledAlerts \ {c} ELSE enabledAlerts \cup {c}
  /\ UNCHANGED <<rows, notices, openIncidents, mixedUp>>

IncidentNext ==
  \/ \E ttl \in TTLs : CheckIncidents(ttl)
  \/ \E i \in DOMAIN rows : Trigger(i)
  \/ \E i \in notices : NoticeArrives(i) \/ NoticeFails(i)
  \/ \E c \in AlertIds : SwitchAlert(c)
  \/ \E c \in Tested : TestAlert(c)

IncidentSpec == IncidentInit /\ [][IncidentNext]_incidentVars

(* An open incident, but that of a test, has an unresolved alert behind it *)
(* once every notice has arrived, and an alert that was delivered has its  *)
(* incident until it resolves, unless another configuration with its       *)
(* threshold closed what they share; provided no notice was lost and none  *)
(* of them met a trigger of its key (a row delivered after it resolved     *)
(* opens an incident that nothing closes).                                 *)
IncidentsFollowAlerts ==
  ~mixedUp =>
    /\ notices = {} =>
         \A key \in openIncidents \ {TestKey(c) : c \in Tested} : \E i \in DOMAIN rows :
           ~rows[i].resolved /\ Key(rows[i].config) = key
    /\ \A i \in DOMAIN rows :
         /\ rows[i].delivered /\ ~rows[i].resolved
         /\ \A c \in AlertIds \ {rows[i].config} :
              <<Service[c], Threshold[c]>> # <<Service[rows[i].config], Threshold[rows[i].config]>>
         => Key(rows[i].config) \in openIncidents
=============================================================================
