------------------------------- MODULE Registry -------------------------------
(***************************************************************************)
(* The registered contracts: watchContract (core/watch.ts) and the         *)
(* commands watch, unwatch, pause, resume, tag and group, each run by a    *)
(* process of its own on one database.                                     *)
(*                                                                         *)
(* A watch asks the network first (one step: its requests read nothing     *)
(* here) and then writes its rows one by one, each in a transaction of     *)
(* its own; the statements of the other processes fall between them, and   *)
(* the process may die between any two.  A tag command reads the tags in   *)
(* one statement and writes them in another.  The rows of entries and of   *)
(* memberships go with their contract (ON DELETE CASCADE), and an entry of *)
(* no contract breaks the foreign key.                                     *)
(***************************************************************************)
EXTENDS Naturals, FiniteSets

CONSTANTS
  Contracts,
  Networks,
  Tags,
  Groups,
  Watchers,   \* the processes that watch contracts
  Taggers,    \* the processes that edit tags
  Optional,   \* the rows a watch may find next to the instance
  None        \* no row

ASSUME RegistryAssumption ==
  /\ Optional \subseteq {"wasm", "manual", "introspected keys"}
  /\ None \notin [network : Networks, active : BOOLEAN, fresh : BOOLEAN]

VARIABLES
  contract,   \* contract[c]: its row; fresh while introspected within 24 h
  tags,       \* tags[c]: the column tags, as a set
  entries,    \* entries[c]: the kinds of rows of c in contract_entries
  groups,     \* the rows of contract_groups
  members,    \* the rows of contract_group_members
  watch,      \* watch[w]: the watch w runs, and what it has left to write
  edit,       \* edit[p]: the tag command p runs, with the tags it read
  overtaken,  \* watchers whose rows another process has since changed
  torn        \* contracts unwatched while a watch was writing them

commands == <<watch, edit>>
marks == <<overtaken, torn>>
vars == <<contract, tags, entries, groups, members, commands, marks>>

EntryKinds == {"instance", "wasm", "manual", "introspected"}
Row == [network : Networks, active : BOOLEAN, fresh : BOOLEAN]
Registered(c) == contract[c] # None
Writing == {w \in Watchers : watch[w].at = "writing"}
Ended == {"stored", "cached", "failed"}

NoWatch == [at |-> "idle", contract |-> None, network |-> None, asks |-> {},
            todo |-> {}, done |-> {}]

Init ==
  /\ contract = [c \in Contracts |-> None]
  /\ tags = [c \in Contracts |-> {}]
  /\ entries = [c \in Contracts |-> {}]
  /\ groups = {} /\ members = {}
  /\ watch = [w \in Watchers |-> NoWatch]
  /\ edit = [p \in Taggers |-> None]
  /\ overtaken = {} /\ torn = {}

-----------------------------------------------------------------------------
(* watch <contract>, or an entry of a file.  Only a file can turn          *)
(* introspection off (commander sets introspection, not noIntrospection)   *)
(* or hand over keys as a list: those of the command line are one string,  *)
(* "unmappable" for getEntryTTLs.  A contract introspected within 24 hours *)
(* is a success at once, whatever else was asked.                          *)
Asks == (SUBSET Optional) \cup {{"unmappable"}}

Watch(w) ==
  \E c \in Contracts, n \in Networks, asks \in Asks :
    /\ watch[w].at = "idle"
    /\ watch' = [watch EXCEPT ![w] =
         IF Registered(c) /\ contract[c].fresh THEN [NoWatch EXCEPT !.at = "cached"]
         ELSE [NoWatch EXCEPT !.at = "asking", !.contract = c, !.network = n, !.asks = asks]]
    /\ UNCHANGED <<contract, tags, entries, groups, members, edit, marks>>

(* The watch ends without a success; what it wrote stays. *)
Fails(w) == watch' = [watch EXCEPT ![w] = [NoWatch EXCEPT !.at = "failed"]]

(* The network does not know the contract, or a request throws. *)
WatchFails(w) ==
  /\ watch[w].at = "asking"
  /\ Fails(w)
  /\ UNCHANGED <<contract, tags, entries, groups, members, edit, marks>>

(* Mutant: the success is recorded before the entries. *)
RankStampFirst(k) ==
  CASE k = "contract" -> 1 [] k = "introspected" -> 2 [] k = "instance" -> 3
    [] k = "wasm" -> 4 [] k = "manual" -> 5 [] k = "introspected keys" -> 6

(* The order in which a watch writes what the network gave it *)
Rank(k) ==
  CASE k = "contract" -> 1 [] k = "instance" -> 2 [] k = "wasm" -> 3
    [] k = "manual" -> 4 [] k = "introspected keys" -> 5 [] k = "introspected" -> 6

First(todo) == CHOOSE k \in todo : \A j \in todo : Rank(k) <= Rank(j)

Writes(found) == {"contract", "instance", "introspected"} \cup found

(* The instance is there; the code may be archived, a key may be unknown,  *)
(* and a failed introspection is passed over.                              *)
WatchFetched(w) ==
  \E found \in SUBSET Optional :
    /\ watch[w].at = "asking"
    /\ "unmappable" \notin watch[w].asks
    /\ found \subseteq watch[w].asks
    /\ watch' = [watch EXCEPT ![w].at = "writing", ![w].todo = Writes(found),
                              ![w].asks = {}]
    /\ UNCHANGED <<contract, tags, entries, groups, members, edit, marks>>

WatchersOf(c) == {v \in Watchers : watch[v].contract = c}

(* Mutant: a row that is there keeps its network. *)
insertContractOrIgnore(w, c) ==
  /\ contract' = IF Registered(c) THEN contract
                 ELSE [contract EXCEPT ![c] =
                        [network |-> watch[w].network, active |-> TRUE, fresh |-> FALSE]]
  /\ overtaken' = (overtaken \cup WatchersOf(c)) \ {w}
  /\ UNCHANGED <<entries, tags, torn>>

(* insertContract: a row that is there gets the new network, loses its     *)
(* tags and is active again; the time of its introspection stays.          *)
insertContract(w, c) ==
  /\ contract' = [contract EXCEPT ![c] =
       [network |-> watch[w].network, active |-> TRUE,
        fresh |-> Registered(c) /\ contract[c].fresh]]
  /\ tags' = [tags EXCEPT ![c] = {}]
  /\ overtaken' = (overtaken \cup WatchersOf(c)) \ {w}
  /\ UNCHANGED <<entries, torn>>

EntryOf(k) == IF k = "introspected keys" THEN "introspected" ELSE k

upsertEntry(c, k) ==
  /\ entries' = [entries EXCEPT ![c] = @ \cup {EntryOf(k)}]
  /\ UNCHANGED <<contract, tags, marks>>

(* An UPDATE of a row that is gone changes nothing. *)
updateLastIntrospectedAt(c) ==
  /\ contract' = IF Registered(c) THEN [contract EXCEPT ![c].fresh = TRUE] ELSE contract
  /\ UNCHANGED <<entries, tags, marks>>

(* The next statement; its error ends the watch. *)
WatchWrites(w) ==
  LET c == watch[w].contract
      k == First(watch[w].todo)
      orphan == k \notin {"contract", "introspected"} /\ ~Registered(c)
  IN
  /\ watch[w].at = "writing"
  /\ \/ /\ orphan
        /\ Fails(w)
        /\ UNCHANGED <<contract, tags, entries, marks>>
     \/ /\ ~orphan
        /\ \/ k = "contract" /\ insertContract(w, c)
           \/ k = "introspected" /\ updateLastIntrospectedAt(c)
           \/ k \notin {"contract", "introspected"} /\ upsertEntry(c, k)
        /\ watch' = [watch EXCEPT ![w].todo = @ \ {k}, ![w].done = @ \cup {k},
                                  ![w].at = IF watch[w].todo = {k} THEN "stored" ELSE @]
  /\ UNCHANGED <<groups, members, edit>>

(* The process is killed. *)
WatcherDies(w) ==
  /\ watch[w].at \in {"asking", "writing"}
  /\ Fails(w)
  /\ UNCHANGED <<contract, tags, entries, groups, members, edit, marks>>

(* The result is printed; the next watch is a new process, or the next     *)
(* entry of the file.                                                      *)
WatchReturns(w) ==
  /\ watch[w].at \in Ended
  /\ watch' = [watch EXCEPT ![w] = NoWatch]
  /\ overtaken' = overtaken \ {w}
  /\ UNCHANGED <<contract, tags, entries, groups, members, edit, torn>>

(* 24 hours after the introspection *)
CacheExpires(c) ==
  /\ Registered(c) /\ contract[c].fresh
  /\ contract' = [contract EXCEPT ![c].fresh = FALSE]
  /\ UNCHANGED <<tags, entries, groups, members, commands, marks>>

-----------------------------------------------------------------------------
(* Mutant: the rows of entries outlive their contract. *)
deleteContractOnly(c) ==
  /\ contract' = [contract EXCEPT ![c] = None]
  /\ tags' = [tags EXCEPT ![c] = {}]
  /\ UNCHANGED <<entries, members>>

deleteContract(c) ==
  /\ contract' = [contract EXCEPT ![c] = None]
  /\ tags' = [tags EXCEPT ![c] = {}]
  /\ entries' = [entries EXCEPT ![c] = {}]
  /\ members' = {m \in members : m[2] # c}

(* unwatch: the row is looked up, the user is asked, and what is there by  *)
(* then is deleted.                                                        *)
Unwatch(c) ==
  /\ Registered(c)
  /\ deleteContract(c)
  /\ overtaken' = overtaken \cup WatchersOf(c)
  /\ torn' = IF WatchersOf(c) \cap Writing # {} THEN torn \cup {c} ELSE torn \ {c}
  /\ UNCHANGED <<groups, commands>>

setContractActiveStatus(c, active) ==
  /\ Registered(c)
  /\ contract' = [contract EXCEPT ![c].active = active]
  /\ overtaken' = overtaken \cup WatchersOf(c)
  /\ UNCHANGED <<tags, entries, groups, members, commands, torn>>

Pause(c) == setContractActiveStatus(c, FALSE)
Resume(c) == setContractActiveStatus(c, TRUE)

(* tag add and tag remove: one statement reads, another writes what was    *)
(* read with the change; without a change there is no write.               *)
TagReads(p) ==
  \E c \in Contracts, t \in Tags, add \in BOOLEAN :
    /\ edit[p] = None
    /\ Registered(c)
    /\ add = (t \notin tags[c])
    /\ edit' = [edit EXCEPT ![p] =
                 [contract |-> c, tags |-> IF add THEN tags[c] \cup {t} ELSE tags[c] \ {t}]]
    /\ UNCHANGED <<contract, tags, entries, groups, members, watch, marks>>

TagWrites(p) ==
  /\ edit[p] # None
  /\ tags' = IF Registered(edit[p].contract)
             THEN [tags EXCEPT ![edit[p].contract] = edit[p].tags] ELSE tags
  /\ edit' = [edit EXCEPT ![p] = None]
  /\ UNCHANGED <<contract, entries, groups, members, watch, marks>>

(* group create, add and remove *)
createGroup(g) ==
  /\ g \notin groups
  /\ groups' = groups \cup {g}
  /\ UNCHANGED <<contract, tags, entries, members, commands, marks>>

addContractToGroup(g, c) ==
  /\ g \in groups /\ Registered(c)
  /\ members' = members \cup {<<g, c>>}
  /\ UNCHANGED <<contract, tags, entries, groups, commands, marks>>

removeContractFromGroup(g, c) ==
  /\ <<g, c>> \in members
  /\ members' = members \ {<<g, c>>}
  /\ UNCHANGED <<contract, tags, entries, groups, commands, marks>>

Watching(w) ==
  Watch(w) \/ WatchFails(w) \/ WatchFetched(w) \/ WatchWrites(w) \/ WatcherDies(w) \/ WatchReturns(w)

Editing(c) == Unwatch(c) \/ Pause(c) \/ Resume(c) \/ CacheExpires(c)

Tagging(p) == TagReads(p) \/ TagWrites(p)

Grouping(g) ==
  \/ createGroup(g)
  \/ \E c \in Contracts : addContractToGroup(g, c) \/ removeContractFromGroup(g, c)

Next ==
  \/ \E w \in Watchers : Watching(w)
  \/ \E c \in Contracts : Editing(c)
  \/ \E p \in Taggers : Tagging(p)
  \/ \E g \in Groups : Grouping(g)

Spec == Init /\ [][Next]_vars

-----------------------------------------------------------------------------
TypeOK ==
  /\ contract \in [Contracts -> Row \cup {None}]
  /\ tags \in [Contracts -> SUBSET Tags]
  /\ entries \in [Contracts -> SUBSET EntryKinds]
  /\ groups \subseteq Groups /\ members \subseteq Groups \X Contracts
  /\ overtaken \subseteq Watchers /\ torn \subseteq Contracts

(* No row of an entry, of a membership or of tags is left of a contract    *)
(* that is gone, though a watch that saw it goes on writing.               *)
ReferencesHold ==
  /\ \A c \in Contracts : ~Registered(c) => entries[c] = {} /\ tags[c] = {}
  /\ \A m \in members : m[1] \in groups /\ Registered(m[2])

(* What a watch has written is there until another process changes it: a   *)
(* watch that ends well left the contract on the network it was given,     *)
(* active, with its instance and every entry the network had, and counted  *)
(* as introspected (unless a day has passed).                              *)
WritesHold ==
  \A w \in Watchers \ overtaken :
    LET c == watch[w].contract IN
      "contract" \in watch[w].done =>
        /\ Registered(c)
        /\ contract[c].network = watch[w].network /\ contract[c].active
        /\ {EntryOf(k) : k \in watch[w].done \ {"contract", "introspected"}} \subseteq entries[c]
        /\ watch[w].at = "stored" => "instance" \in entries[c]

(* A contract that the next watch takes for known has its instance entry,  *)
(* so the daemon can check it: a watch that failed or died half-way does   *)
(* not count as an introspection.  A contract unwatched while a watch was  *)
(* writing it is the exception.                                            *)
CacheIsHonest ==
  \A c \in Contracts :
    Registered(c) /\ contract[c].fresh /\ c \notin torn => "instance" \in entries[c]
=============================================================================
