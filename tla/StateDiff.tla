------------------------------ MODULE StateDiff ------------------------------
(***************************************************************************)
(* The history of an entry's value (core/state_diff.ts): processStateDiff  *)
(* looks up the latest snapshot, compares, and writes a snapshot and a     *)
(* change, in two statements and no transaction.  Nothing in the program   *)
(* calls it yet; the callers here are processes that observe the entry     *)
(* through RPC nodes, of which one may lag behind another.                 *)
(***************************************************************************)
EXTENDS Naturals, Sequences

CONSTANTS
  Observers,     \* processes that call processStateDiff
  Values,        \* the XDR values of the entry; a hash stands for its value
  MaxChanges,    \* bound: the values of the entry on chain, one after the other
  MaxSnapshots   \* bound: a call starts with fewer snapshots than this

VARIABLES
  onChain,         \* the values of the entry so far; the index is the ledger
  stateSnapshots,  \* state_snapshots, by id
  stateChanges,    \* state_changes, by id
  call,            \* call[o]: the call of o in flight, or none
  disturbed        \* a stale answer, an overlap or a death has been met

diffVars == <<onChain, stateSnapshots, stateChanges, call, disturbed>>

NoCall == [at |-> "none"]

DiffInit ==
  /\ \E v \in Values : onChain = <<v>>
  /\ stateSnapshots = <<>> /\ stateChanges = <<>>
  /\ call = [o \in Observers |-> NoCall]
  /\ disturbed = FALSE

(* Mutant: the oldest snapshot *)
getFirstSnapshot(snaps) == IF snaps = <<>> THEN 0 ELSE 1

(* ORDER BY snapshot_ledger DESC, id DESC; 0, there is none *)
getLatestSnapshot(snaps) ==
  IF snaps = <<>> THEN 0
  ELSE CHOOSE i \in DOMAIN snaps : \A j \in DOMAIN snaps :
         \/ snaps[j].ledger < snaps[i].ledger
         \/ snaps[j].ledger = snaps[i].ledger /\ j <= i

(* Two snapshots diffed; an entry that is gone is not passed on, so that   *)
(* no change is ever "deleted".                                            *)
diffStateValues(old, value) ==
  IF old = 0 THEN "created"
  ELSE IF stateSnapshots[old].value = value THEN "none" ELSE "updated"

ChainChanges ==
  /\ Len(onChain) < MaxChanges
  /\ \E v \in Values : onChain' = Append(onChain, v)
  /\ UNCHANGED <<stateSnapshots, stateChanges, call, disturbed>>

(* The answer of a node at ledger l, and the look-up: an equal value ends  *)
(* the call.                                                               *)
processStateDiff(o, l) ==
  LET old == getLatestSnapshot(stateSnapshots)
      kind == diffStateValues(old, onChain[l])
  IN
  /\ call[o] = NoCall /\ Len(stateSnapshots) < MaxSnapshots
  /\ call' = [call EXCEPT ![o] =
       IF kind = "none" THEN NoCall
       ELSE [at |-> "snapshot", old |-> old, kind |-> kind, ledger |-> l, value |-> onChain[l]]]
  /\ disturbed' = (disturbed \/ (old # 0 /\ stateSnapshots[old].ledger > l)
                             \/ \E p \in Observers : call[p] # NoCall)
  /\ UNCHANGED <<onChain, stateSnapshots, stateChanges>>

insertStateSnapshot(o) ==
  /\ call[o].at = "snapshot"
  /\ stateSnapshots' = Append(stateSnapshots, [ledger |-> call[o].ledger, value |-> call[o].value])
  /\ call' = [call EXCEPT ![o] = [at |-> "change", old |-> call[o].old, kind |-> call[o].kind,
                                  new |-> Len(stateSnapshots) + 1]]
  /\ UNCHANGED <<onChain, stateChanges, disturbed>>

insertStateChange(o) ==
  /\ call[o].at = "change"
  /\ stateChanges' = Append(stateChanges, [old |-> call[o].old, new |-> call[o].new, kind |-> call[o].kind])
  /\ call' = [call EXCEPT ![o] = NoCall]
  /\ UNCHANGED <<onChain, stateSnapshots, disturbed>>

ObserverDies(o) ==
  /\ call[o] # NoCall
  /\ call' = [call EXCEPT ![o] = NoCall]
  /\ disturbed' = TRUE
  /\ UNCHANGED <<onChain, stateSnapshots, stateChanges>>

DiffNext ==
  \/ ChainChanges
  \/ \E o \in Observers :
       \/ \E l \in DOMAIN onChain : processStateDiff(o, l)
       \/ insertStateSnapshot(o) \/ insertStateChange(o) \/ ObserverDies(o)

DiffSpec == DiffInit /\ [][DiffNext]_diffVars

(* getStateChangeHistory reads as one story: a change starts where the one *)
(* before it ended, only the first one creates, and the last one ended in  *)
(* the latest snapshot, until an observation is older than the latest      *)
(* snapshot, two calls overlap, or a process dies between the two          *)
(* statements.  In every case a change is between two different values.    *)
HistoryConnects ==
  /\ \A i \in DOMAIN stateChanges :
       LET ch == stateChanges[i] IN
       ch.kind = "updated" => stateSnapshots[ch.old].value # stateSnapshots[ch.new].value
  /\ ~disturbed =>
       /\ \A i \in DOMAIN stateChanges :
            stateChanges[i].old = (IF i = 1 THEN 0 ELSE stateChanges[i - 1].new)
       /\ \A i \in DOMAIN stateChanges : (stateChanges[i].kind = "created") = (i = 1)
       /\ (\A o \in Observers : call[o] = NoCall) =>
            Len(stateChanges) = getLatestSnapshot(stateSnapshots)
=============================================================================
