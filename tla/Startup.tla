------------------------------- MODULE Startup -------------------------------
(***************************************************************************)
(* getDatabase: how a process opens the database and brings its schema up  *)
(* to date, next to other processes that do the same: schema.sql, the      *)
(* Migrator, the live ALTERs and the rebuilding of tables with the old     *)
(* CHECK (db/database.ts, db/migrator.ts).                                 *)
(*                                                                         *)
(* The schema is a set of tables and of columns <<table, column>>; of the  *)
(* fourteen migrations the ones that differ are kept: 4 creates a table    *)
(* and adds a column to another, 5 adds one column, 11 one that the live   *)
(* ALTERs add as well, 12 creates a table, and 14 adds a column to two     *)
(* tables.  No two statements of a script are about the same item: it is a *)
(* set of them.  A database was last opened by some release, whose         *)
(* migrations it has, or by none.                                          *)
(***************************************************************************)
EXTENDS Naturals

CONSTANTS
  Processes,
  Releases,     \* the last migration the database may have; 0, there is no database
  OldChecks     \* whether alert_configs may still have the enum CHECK

VARIABLES
  schema,       \* the tables and columns there are
  applied,      \* schema_migrations
  oldCheck,     \* the CHECK of alert_configs lists the channel types
  start,        \* start[p]: how far p is in getDatabase
  pending       \* pending[p]: the migrations p has still to run

startVars == <<schema, applied, oldCheck, start, pending>>

create(table, columns) == [table |-> table, adds |-> {<<table, c>> : c \in columns}, once |-> FALSE]
addColumn(table, column) == [table |-> table, adds |-> {<<table, column>>}, once |-> TRUE]

Versions == {4, 5, 11, 12, 14}

migration(v) ==
  CASE v = 4  -> {create("alert_config_targets", {}), addColumn("alerts_fired", "channel")}
    [] v = 5  -> {addColumn("alert_configs", "enabled")}
    [] v = 11 -> {addColumn("extension_policies", "max_fee")}
    [] v = 12 -> {create("guard_policy_history", {})}
    [] v = 14 -> {addColumn("extension_policies", "predictive"),
                  addColumn("guard_policy_history", "predictive")}

(* schema.sql, of this release; the targets and their column are not in it. *)
SchemaSql ==
  {create("extension_policies", {"max_fee", "predictive"}),
   create("alert_configs", {"enabled"}), create("alerts_fired", {}),
   create("guard_policy_history", {"predictive"})}

(* A table is there when any item of it is: each has one of its own name.  *)
Has(db, table) == <<table, "id">> \in db

(* What a statement brings when it runs: a column, or a table unless it is *)
(* there (CREATE TABLE IF NOT EXISTS).                                     *)
Items(s) == IF s.once THEN s.adds ELSE s.adds \cup {<<s.table, "id">>}
Brings(db, s) == IF ~s.once /\ Has(db, s.table) THEN {} ELSE Items(s)

(* ADD COLUMN fails on a column that is there. *)
Fails(db, s) == s.once /\ s.adds \subseteq db

(* A script on a database db, which its first error rolls back *)
Script(db, ss) ==
  [failed |-> \E s \in ss : Fails(db, s), db |-> db \cup UNION {Brings(db, s) : s \in ss}]

(* What a release left behind: the tables of the first one, and the        *)
(* migrations up to its own.                                               *)
Before(r) == {v \in Versions : v <= r}
OldDatabase(r) ==
  UNION {Items(s) : s \in {create("extension_policies", {}), create("alert_configs", {}),
                           create("alerts_fired", {})} \cup UNION {migration(v) : v \in Before(r)}}

StartInit ==
  /\ \E r \in Releases :
       \/ r = 0 /\ schema = {} /\ applied = {}
       \/ /\ r # 0
          /\ schema = OldDatabase(r) /\ applied = Before(r)
  /\ oldCheck \in (IF schema = {} THEN {FALSE} ELSE OldChecks)
  /\ start = [p \in Processes |-> "closed"]
  /\ pending = [p \in Processes |-> {}]

-----------------------------------------------------------------------------
(* db.exec(SCHEMA) *)
Opens(p) ==
  /\ start[p] = "closed"
  /\ schema' = Script(schema, SchemaSql).db
  /\ start' = [start EXCEPT ![p] = "opened"]
  /\ UNCHANGED <<applied, oldCheck, pending>>

(* getPendingMigrations, read once *)
Plans(p) ==
  /\ start[p] = "opened"
  /\ pending' = [pending EXCEPT ![p] = Versions \ applied]
  /\ start' = [start EXCEPT ![p] = "migrating"]
  /\ UNCHANGED <<schema, applied, oldCheck>>

(* Every statement adds a column. *)
isAddColumnMigration(v) == \A s \in migration(v) : s.once

(* Mutant: the version is recorded first, and the process may die then. *)
CommitUnatomic(v, after) ==
  /\ schema' \in {schema, after}
  /\ applied' = applied \cup {v}

(* The script and its version, in one transaction *)
Commit(v, after) ==
  /\ schema' = after
  /\ applied' = applied \cup {v}

(* A duplicate column rolls the script back, and a migration of ADD        *)
(* COLUMNs alone is recorded all the same; any other error, and a version  *)
(* another process has recorded meanwhile, ends the start.                 *)
Migrates(p) ==
  LET v == CHOOSE w \in pending[p] : \A x \in pending[p] : w <= x
      run == Script(schema, migration(v))
  IN
  /\ start[p] = "migrating" /\ pending[p] # {}
  /\ \/ /\ ~run.failed /\ v \notin applied
        /\ Commit(v, run.db)
        /\ pending' = [pending EXCEPT ![p] = @ \ {v}]
        /\ UNCHANGED start
     \/ /\ run.failed /\ isAddColumnMigration(v)
        /\ applied' = applied \cup {v}
        /\ pending' = [pending EXCEPT ![p] = @ \ {v}]
        /\ UNCHANGED <<schema, start>>
     \/ /\ (run.failed /\ ~isAddColumnMigration(v)) \/ (~run.failed /\ v \in applied)
        /\ start' = [start EXCEPT ![p] = "closed"]
        /\ pending' = [pending EXCEPT ![p] = {}]
        /\ UNCHANGED <<schema, applied>>
  /\ UNCHANGED oldCheck

(* The live ALTERs, whatever error they meet *)
Alters(p) ==
  /\ start[p] = "migrating" /\ pending[p] = {}
  /\ schema' = schema \cup {<<"extension_policies", "max_fee">>}
  /\ start' = [start EXCEPT ![p] = "altered"]
  /\ UNCHANGED <<applied, oldCheck, pending>>

(* migrateAlertConfigsChannelTypeCheck and relaxChannelTypeChecks: a table *)
(* with the enum CHECK is made anew, with the columns the statements list. *)
Relaxes(p) ==
  /\ start[p] = "altered"
  /\ schema' = IF oldCheck THEN schema \ {<<"alert_configs", "enabled">>} ELSE schema
  /\ oldCheck' = FALSE
  /\ start' = [start EXCEPT ![p] = "ready"]
  /\ UNCHANGED <<applied, pending>>

(* The process ends, or dies between two steps. *)
Exits(p) ==
  /\ start[p] # "closed"
  /\ start' = [start EXCEPT ![p] = "closed"]
  /\ pending' = [pending EXCEPT ![p] = {}]
  /\ UNCHANGED <<schema, applied, oldCheck>>

StartStep(p) == Opens(p) \/ Plans(p) \/ Migrates(p) \/ Alters(p) \/ Relaxes(p) \/ Exits(p)
StartNext == \E p \in Processes : StartStep(p)

StartSpec == StartInit /\ [][StartNext]_startVars

(* What a migration adds is there once its version is recorded ("the       *)
(* column is already there, so the intent is fulfilled", db/migrator.ts),  *)
(* and a process that is ready finds every table and column its statements *)
(* name, whatever other processes do in between and wherever they die.     *)
AppliedMeansThere ==
  /\ \A v \in applied : \A s \in migration(v) : s.adds \subseteq schema
  /\ \A p \in Processes : start[p] = "ready" =>
       \A s \in SchemaSql : s.adds \subseteq schema
=============================================================================
