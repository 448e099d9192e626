----------------------------- MODULE AlertConfigs -----------------------------
(***************************************************************************)
(* The commands that write alert configurations (commands/alerts.ts,       *)
(* clone-config.ts, core/init.ts and the statements they run), next to the *)
(* daemon that fires the alerts and to commands that remove what they work *)
(* on.  A configuration has a channel of its own and the further targets   *)
(* of --target, each a row; the secret signs what it sends.  The           *)
(* validation of the options changes nothing and is left out.              *)
(***************************************************************************)
EXTENDS Naturals, FiniteSets

CONSTANTS
  Alerted,       \* the contracts
  Tagged,        \* those with the tag of alerts add --tag
  ExtraTargets,  \* the targets of --target
  MaxConfigs,    \* bound: the configurations made
  MaxSecrets     \* bound: the secrets made

ASSUME ConfigAssumption == IsFiniteSet(Tagged)

VARIABLES
  watched,       \* the contracts there are
  configs,       \* alert_configs with their targets, by id
  command,       \* the command in flight, or none
  firedFor,      \* the unresolved rows of alerts_fired: config id -> its targets
  made,          \* ids and secrets given out so far
  printed,       \* the secret last shown for a configuration
  torn           \* the configurations that fired before they were whole

configVars == <<watched, configs, command, firedFor, made, printed, torn>>

Idle == [kind |-> "none"]
NoSecret == 0
Ids == DOMAIN configs
With(f, id, v) == [i \in DOMAIN f \cup {id} |-> IF i = id THEN v ELSE f[i]]
Only(f, ids) == [i \in DOMAIN f \cap ids |-> f[i]]

ConfigInit ==
  /\ watched = Alerted
  /\ configs = <<>> /\ firedFor = <<>> /\ printed = <<>>
  /\ command = Idle
  /\ made = [ids |-> 0, secrets |-> 0]
  /\ torn = {}

Config(c, secret) == [contract |-> c, enabled |-> TRUE, secret |-> secret, targets |-> {"primary"}]

(* DELETE, with the targets and the fired rows of what goes *)
Keep(ids) ==
  /\ configs' = Only(configs, ids)
  /\ firedFor' = Only(firedFor, ids)
  /\ printed' = Only(printed, ids)

-----------------------------------------------------------------------------
(* alerts add --contract: insertAlertConfig, and then one statement for    *)
(* each further target; the secret is printed at the end.                  *)
AddStarts(c) ==
  LET id == made.ids + 1  secret == made.secrets + 1 IN
  /\ command = Idle /\ c \in watched
  /\ made.ids < MaxConfigs /\ made.secrets < MaxSecrets
  /\ made' = [ids |-> id, secrets |-> secret]
  /\ configs' = With(configs, id, Config(c, secret))
  /\ \E ts \in SUBSET ExtraTargets : command' = [kind |-> "add", id |-> id, todo |-> ts, secret |-> secret]
  /\ UNCHANGED <<watched, firedFor, printed, torn>>

(* addTargetToAlertConfig; the foreign key fails when the row is gone. *)
AddTarget ==
  /\ command.kind \in {"add", "clone"} /\ command.todo # {}
  /\ IF command.id \in Ids
     THEN \E t \in command.todo :
            /\ configs' = [configs EXCEPT ![command.id].targets = @ \cup {t}]
            /\ command' = [command EXCEPT !.todo = @ \ {t}]
     ELSE command' = Idle /\ UNCHANGED configs
  /\ UNCHANGED <<watched, firedFor, made, printed, torn>>

AddEnds ==
  /\ command.kind = "add" /\ command.todo = {}
  /\ printed' = IF command.id \in Ids THEN With(printed, command.id, command.secret) ELSE printed
  /\ command' = Idle
  /\ UNCHANGED <<watched, configs, firedFor, made, torn>>

(* alerts add --tag: the contracts are read, and the rows written in one   *)
(* transaction, which a contract that went meanwhile rolls back.  They     *)
(* share the secret; further targets are not written.                      *)
BulkReads ==
  /\ command = Idle /\ Tagged \cap watched # {}
  /\ made.secrets < MaxSecrets /\ made.ids + Cardinality(Tagged) <= MaxConfigs
  /\ made' = [made EXCEPT !.secrets = @ + 1]
  /\ command' = [kind |-> "bulk", found |-> Tagged \cap watched, secret |-> made.secrets + 1]
  /\ UNCHANGED <<watched, configs, firedFor, printed, torn>>

insertAlertConfigBulk ==
  /\ command.kind = "bulk"
  /\ command' = Idle
  /\ IF command.found \subseteq watched
     THEN LET n == Cardinality(command.found)
              ids == made.ids + 1 .. made.ids + n
          IN  \E row \in [ids -> command.found] :
                /\ \A c \in command.found : \E i \in ids : row[i] = c
                /\ configs' = [i \in Ids \cup ids |->
                                 IF i \in ids THEN Config(row[i], command.secret) ELSE configs[i]]
                /\ printed' = [i \in DOMAIN printed \cup ids |->
                                 IF i \in ids THEN command.secret ELSE printed[i]]
                /\ made' = [made EXCEPT !.ids = @ + n]
     ELSE UNCHANGED <<configs, printed, made>>
  /\ UNCHANGED <<watched, firedFor, torn>>

(* clone-config: the source's configurations are read, and each is         *)
(* inserted for the target contract with its secret, which is not shown,   *)
(* and with the targets it has by then, one statement for each.            *)
CloneStarts(from, to) ==
  /\ command = Idle /\ {from, to} \subseteq watched
  /\ command' = [kind |-> "clone", to |-> to, todo |-> {}, id |-> 0,
                 left |-> {[id |-> i, secret |-> configs[i].secret] : i \in {j \in Ids : configs[j].contract = from}}]
  /\ UNCHANGED <<watched, configs, firedFor, made, printed, torn>>

CloneConfig ==
  /\ command.kind = "clone" /\ command.todo = {} /\ command.left # {}
  /\ made.ids < MaxConfigs
  /\ IF command.to \in watched
     THEN LET id == made.ids + 1 IN
          \E row \in command.left :
            /\ configs' = With(configs, id, Config(command.to, row.secret))
            /\ made' = [made EXCEPT !.ids = id]
            /\ command' = [command EXCEPT !.left = @ \ {row}, !.id = id, !.todo =
                             IF row.id \in Ids THEN configs[row.id].targets \ {"primary"} ELSE {}]
     ELSE command' = Idle /\ UNCHANGED <<configs, made>>
  /\ UNCHANGED <<watched, firedFor, printed, torn>>

CloneEnds ==
  /\ command.kind = "clone" /\ command.todo = {} /\ command.left = {}
  /\ command' = Idle
  /\ UNCHANGED <<watched, configs, firedFor, made, printed, torn>>

(* init: one transaction replaces every alert of the contract by one.      *)
runInitWizard(c) ==
  LET id == made.ids + 1
      others == {i \in Ids : configs[i].contract # c}
  IN
  /\ c \in watched /\ made.ids < MaxConfigs
  /\ made' = [made EXCEPT !.ids = id]
  /\ configs' = With(Only(configs, others), id, Config(c, NoSecret))
  /\ firedFor' = Only(firedFor, others)
  /\ printed' = Only(printed, others)
  /\ UNCHANGED <<watched, command, torn>>

(* alerts rotate-secret looks the row up, then updates it and prints.  *)
RotateStarts(id) ==
  /\ command = Idle /\ id \in Ids /\ made.secrets < MaxSecrets
  /\ made' = [made EXCEPT !.secrets = @ + 1]
  /\ command' = [kind |-> "rotate", id |-> id, secret |-> made.secrets + 1]
  /\ UNCHANGED <<watched, configs, firedFor, printed, torn>>

updateAlertConfigSecret ==
  /\ command.kind = "rotate"
  /\ IF command.id \in Ids
     THEN /\ configs' = [configs EXCEPT ![command.id].secret = command.secret]
          /\ printed' = With(printed, command.id, command.secret)
     ELSE UNCHANGED <<configs, printed>>
  /\ command' = Idle
  /\ UNCHANGED <<watched, firedFor, made, torn>>

(* The process of the command dies between two statements. *)
CommandDies ==
  /\ command # Idle
  /\ command' = Idle
  /\ UNCHANGED <<watched, configs, firedFor, made, printed, torn>>

(* alerts enable and disable; alerts remove; unwatch and watch *)
setAlertConfigEnabled(id) ==
  /\ \E on \in BOOLEAN : configs' = [configs EXCEPT ![id].enabled = on]
  /\ UNCHANGED <<watched, command, firedFor, made, printed, torn>>

deleteAlertConfig(id) ==
  /\ Keep(Ids \ {id})
  /\ UNCHANGED <<watched, command, made, torn>>

UnwatchAlerted(c) ==
  /\ c \in watched
  /\ watched' = watched \ {c}
  /\ Keep({i \in Ids : configs[i].contract # c})
  /\ UNCHANGED <<command, made, torn>>

WatchAlerted(c) ==
  /\ c \notin watched
  /\ watched' = watched \cup {c}
  /\ UNCHANGED <<configs, command, firedFor, made, printed, torn>>

-----------------------------------------------------------------------------
(* Mutant: a configuration fires on its own channel only. *)
FiresPrimary(id) == {"primary"}

(* getAlertConfigTargets and the channel of the row itself *)
Fires(id) == configs[id].targets

(* checkContract: below its threshold an enabled configuration without an  *)
(* unresolved row fires for each of its targets; above it they resolve.    *)
FireConfig(id) ==
  /\ configs[id].enabled /\ id \notin DOMAIN firedFor
  /\ firedFor' = With(firedFor, id, Fires(id))
  /\ torn' = IF command.kind \in {"add", "clone"} /\ command.id = id /\ command.todo # {} THEN torn \cup {id} ELSE torn
  /\ UNCHANGED <<watched, configs, command, made, printed>>

ResolveConfig(id) ==
  /\ configs[id].enabled /\ id \in DOMAIN firedFor
  /\ firedFor' = Only(firedFor, Ids \ {id})
  /\ torn' = torn \ {id}
  /\ UNCHANGED <<watched, configs, command, made, printed>>

ConfigNext ==
  \/ \E c \in Alerted : AddStarts(c) \/ UnwatchAlerted(c) \/ WatchAlerted(c)
  \/ AddTarget \/ AddEnds \/ BulkReads \/ insertAlertConfigBulk
  \/ \E c, d \in Alerted : CloneStarts(c, d)
  \/ CloneConfig \/ CloneEnds
  \/ \E c \in Alerted : runInitWizard(c)
  \/ updateAlertConfigSecret \/ CommandDies
  \/ \E id \in Ids : \/ RotateStarts(id) \/ setAlertConfigEnabled(id) \/ deleteAlertConfig(id)
                     \/ FireConfig(id) \/ ResolveConfig(id)

ConfigSpec == ConfigInit /\ [][ConfigNext]_configVars

(* A configuration that was whole when it fired has an unresolved row for  *)
(* every one of its targets (one the daemon meets half-written goes        *)
(* without the rest until it resolves), and what it signs with is the      *)
(* secret its operator was last shown.                                     *)
FiresForTheWholeConfig ==
  /\ \A id \in DOMAIN firedFor \ torn : id \in Ids /\ firedFor[id] = configs[id].targets
  /\ \A id \in DOMAIN printed : id \in Ids /\ configs[id].secret = printed[id]
=============================================================================
