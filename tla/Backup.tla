-------------------------------- MODULE Backup --------------------------------
(***************************************************************************)
(* Export and import of the database (db/backup.ts, commands/db.ts), next  *)
(* to the commands and the daemon that go on changing it.  Of the tables   *)
(* three are kept, parent to child: contracts, contract_entries, whose ids *)
(* are AUTOINCREMENT, and alerts_fired, which names an entry by its id.    *)
(* A contract has one entry here.  The tables an export leaves out, which  *)
(* an import with replacement deletes all the same, stand in overrides     *)
(* (entry_type_policies, alert_config_targets, digest settings).           *)
(***************************************************************************)
EXTENDS Naturals, FiniteSets

CONSTANTS
  BackedUp,      \* the contracts that may be watched
  MaxEntries     \* bound: the ids given out

ASSUME BackupAssumption == MaxEntries \in Nat

VARIABLES
  contracts,
  entries,       \* entry id -> contract
  fired,         \* rows of alerts_fired: the entry id, and whose entry it was
  overrides,     \* the contracts with rows in tables that are not exported
  nextId,        \* sqlite_sequence
  backup,        \* the file, and how many tables of it are written
  lineage        \* the rows of the database have one history, that of the file

backupVars == <<contracts, entries, fired, overrides, nextId, backup, lineage>>

NoFile == [tables |-> 0, contracts |-> {}, entries |-> <<>>, fired |-> {}, pure |-> FALSE]
Owners == {entries[i] : i \in DOMAIN entries}
Without(f, ids) == [i \in DOMAIN f \ ids |-> f[i]]

BackupInit ==
  /\ contracts = {} /\ entries = <<>> /\ fired = {} /\ overrides = {}
  /\ nextId = 1
  /\ backup = NoFile
  /\ lineage = TRUE

(* Mutant: ids are given again, as without AUTOINCREMENT. *)
NextIdReused(sequence) ==
  IF DOMAIN entries = {} THEN 1 ELSE 1 + CHOOSE i \in DOMAIN entries : \A j \in DOMAIN entries : j <= i

(* AUTOINCREMENT never gives an id a second time. *)
NextId(sequence) == sequence

(* watch: the contract with its entry *)
WatchContract(c) ==
  /\ c \notin contracts /\ nextId <= MaxEntries
  /\ contracts' = contracts \cup {c}
  /\ LET id == NextId(nextId) IN
       entries' = [i \in DOMAIN entries \cup {id} |-> IF i = id THEN c ELSE entries[i]]
  /\ nextId' = nextId + 1
  /\ UNCHANGED <<fired, overrides, backup, lineage>>

(* The daemon fires an alert of an entry; guard or alerts add a row to a   *)
(* table that is not exported.                                             *)
FireAlert(i) ==
  /\ fired' = fired \cup {[entry |-> i, owner |-> entries[i]]}
  /\ UNCHANGED <<contracts, entries, overrides, nextId, backup, lineage>>

Override(c) ==
  /\ c \in contracts
  /\ overrides' = overrides \cup {c}
  /\ UNCHANGED <<contracts, entries, fired, nextId, backup, lineage>>

(* unwatch: ON DELETE CASCADE *)
Unwatched(c) ==
  LET gone == {i \in DOMAIN entries : entries[i] = c} IN
  /\ c \in contracts
  /\ contracts' = contracts \ {c}
  /\ entries' = Without(entries, gone)
  /\ fired' = {f \in fired : f.entry \notin gone}
  /\ overrides' = overrides \ {c}
  /\ UNCHANGED <<nextId, backup, lineage>>

-----------------------------------------------------------------------------
(* exportDatabase reads a table after the other, in no transaction. *)
exportDatabase ==
  /\ backup' = CASE backup.tables \in {0, 3} -> [NoFile EXCEPT !.tables = 1, !.contracts = contracts,
                                                                         !.pure = lineage]
                 [] backup.tables = 1 -> [backup EXCEPT !.tables = 2, !.entries = entries]
                 [] backup.tables = 2 -> [backup EXCEPT !.tables = 3, !.fired = fired]
  /\ UNCHANGED <<contracts, entries, fired, overrides, nextId, lineage>>

(* The foreign keys of what an import is about to commit *)
References(cs, es, fs) ==
  /\ \A i \in DOMAIN es : es[i] \in cs
  /\ \A f \in fs : f.entry \in DOMAIN es

Seen(es) == IF DOMAIN es = {} THEN nextId
            ELSE LET m == CHOOSE i \in DOMAIN es : \A j \in DOMAIN es : j <= i
                 IN  IF m >= nextId THEN m + 1 ELSE nextId

(* All in one transaction, which a missing parent rolls back *)
Import(cs, es, fs, kept, pure) ==
  /\ backup.tables = 3
  /\ IF References(cs, es, fs)
     THEN /\ contracts' = cs /\ entries' = es /\ fired' = fs
          /\ overrides' = kept
          /\ nextId' = Seen(es)
          /\ lineage' = pure
     ELSE UNCHANGED <<contracts, entries, fired, overrides, nextId, lineage>>
  /\ UNCHANGED backup

(* --force, or an import into an empty database *)
importReplace == Import(backup.contracts, backup.entries, backup.fired, {}, backup.pure)

(* INSERT OR IGNORE: a row gives way to one with its id, and an entry to   *)
(* the entry the contract has already.                                     *)
importMerge ==
  LET new == {i \in DOMAIN backup.entries \ DOMAIN entries : backup.entries[i] \notin Owners}
      es == [i \in DOMAIN entries \cup new |->
               IF i \in DOMAIN entries THEN entries[i] ELSE backup.entries[i]]
  IN  Import(contracts \cup backup.contracts, es, fired \cup backup.fired, overrides, lineage)

(* The file is carried to another database, with a history of its own. *)
NewMachine ==
  /\ backup.tables = 3 /\ lineage
  /\ lineage' = FALSE
  /\ contracts' = {} /\ entries' = <<>> /\ fired' = {} /\ overrides' = {} /\ nextId' = 1
  /\ UNCHANGED backup

BackupNext ==
  \/ \E c \in BackedUp : WatchContract(c) \/ Override(c) \/ Unwatched(c)
  \/ \E i \in DOMAIN entries : FireAlert(i)
  \/ exportDatabase \/ importReplace \/ importMerge \/ NewMachine

BackupSpec == BackupInit /\ [][BackupNext]_backupVars

(* Whatever is exported, changed and imported again, a row of a child      *)
(* table belongs to the contract it was written for, and its parents are   *)
(* there: the ids in a file still mean what they meant, since none is      *)
(* given twice.  It is for files of this database: in another one the same *)
(* ids name other entries, and a merge adopts their rows.                  *)
RowsKeepTheirOwner ==
  /\ References(contracts, entries, fired)
  /\ overrides \subseteq contracts
  /\ lineage => \A f \in fired : entries[f.entry] = f.owner
=============================================================================
