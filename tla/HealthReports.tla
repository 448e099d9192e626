---------------------------- MODULE HealthReports ----------------------------
(***************************************************************************)
(* What the program says of the health of a contract: status (core/        *)
(* status.ts), the MCP server's list (mcp/server.ts), check --fail-under   *)
(* (commands/check.ts), the TTL gauge (observability/metrics/ttl.ts), the  *)
(* fleet digest (core/digest.ts) and the editor extension (dbReader.ts).   *)
(* All of them read live_until_ledger and last_checked_ledger, which       *)
(* checkContract writes; the GitHub action asks the node itself            *)
(* (core/check.ts).  The contracts are all of one network.                 *)
(***************************************************************************)
EXTENDS Integers, FiniteSets

CONSTANTS
  Monitored,       \* the contracts
  Keys,            \* Keys[c]: the entries of c
  CriticalBelow,   \* the TTL under which an entry is critical (5000 in the code)
  WarningBelow,    \* and under which it is a warning (20000)
  Extensions,      \* the ledgers an extension may add
  MaxLatest        \* bound: the last ledger

(* watch registers a contract with the entry of its instance. *)
ASSUME HealthAssumption ==
  /\ CriticalBelow \in Nat /\ WarningBelow \in Nat
  /\ 0 < CriticalBelow /\ CriticalBelow < WarningBelow
  /\ Extensions \subseteq Nat
  /\ \A c \in Monitored : Keys[c] # {}

VARIABLES
  latestLedger,
  onChainLive,     \* the ledger each entry lives until
  live_until,      \* live_until_ledger in contract_entries
  last_checked,    \* last_checked_ledger in contracts; none, never
  activeContracts

healthVars == <<latestLedger, onChainLive, live_until, last_checked, activeContracts>>

Never == -1

HealthInit ==
  /\ latestLedger = 1
  /\ onChainLive = [c \in Monitored |-> [k \in Keys[c] |-> 1 + CriticalBelow]]
  /\ live_until = onChainLive
  /\ last_checked = [c \in Monitored |-> Never]
  /\ activeContracts = Monitored

-----------------------------------------------------------------------------
CloseLedger ==
  /\ latestLedger < MaxLatest
  /\ latestLedger' = latestLedger + 1
  /\ UNCHANGED <<onChainLive, live_until, last_checked, activeContracts>>

(* The check of an active contract, with the answer of a node that may be  *)
(* a ledger behind; an entry the node does not return keeps its old value. *)
CheckHealth(c) ==
  /\ c \in activeContracts
  /\ \E l \in {latestLedger - 1, latestLedger} :
       /\ last_checked' = [last_checked EXCEPT ![c] = l]
       /\ live_until' = [live_until EXCEPT ![c] = [k \in Keys[c] |->
            IF onChainLive[c][k] >= l THEN onChainLive[c][k] ELSE @[k]]]
  /\ UNCHANGED <<latestLedger, onChainLive, activeContracts>>

ExtendOnChain(c, k) ==
  /\ \E n \in Extensions : onChainLive' = [onChainLive EXCEPT ![c][k] = latestLedger + n]
  /\ onChainLive'[c][k] > onChainLive[c][k]
  /\ UNCHANGED <<latestLedger, live_until, last_checked, activeContracts>>

(* pause and resume *)
SwitchContract(c) ==
  /\ activeContracts' = IF c \in activeContracts THEN activeContracts \ {c} ELSE activeContracts \cup {c}
  /\ UNCHANGED <<latestLedger, onChainLive, live_until, last_checked>>

HealthNext ==
  \/ CloseLedger
  \/ \E c \in Monitored : CheckHealth(c) \/ SwitchContract(c) \/ \E k \in Keys[c] : ExtendOnChain(c, k)

HealthSpec == HealthInit /\ [][HealthNext]_healthVars

-----------------------------------------------------------------------------
(* The statuses, from healthy to not: ok, warning, critical, expired *)
classifyTTL(remaining) ==
  IF remaining <= 0 THEN 3 ELSE IF remaining < CriticalBelow THEN 2
  ELSE IF remaining < WarningBelow THEN 1 ELSE 0

Worst(ranks) == CHOOSE r \in ranks : \A s \in ranks : s <= r
Unknown == -1

(* status: each entry against the contract's own last check *)
EntryStatus(c, k) ==
  IF last_checked[c] = Never THEN Unknown ELSE classifyTTL(live_until[c][k] - last_checked[c])

(* list_watched_contracts: the worst of them *)
ListHealth(c) ==
  IF last_checked[c] = Never THEN Unknown
  ELSE LET statuses == {classifyTTL(live_until[c][k] - last_checked[c]) : k \in Keys[c]}
       IN  CASE 3 \in statuses -> 3 [] 3 \notin statuses /\ 2 \in statuses -> 2
             [] statuses \cap {2, 3} = {} /\ 1 \in statuses -> 1 [] OTHER -> 0

(* fleet status: the worst again, where what is not known counts as ok.    *)
FleetStatus(c) ==
  Worst({0} \cup {classifyTTL(live_until[c][k] - last_checked[c]) :
                     k \in {j \in Keys[c] : last_checked[c] # Never}})

(* check --fail-under n: a contract that was never checked passes. *)
CheckFails(c, n) ==
  last_checked[c] # Never /\ \E k \in Keys[c] : live_until[c][k] - last_checked[c] < n

(* The editor's classification, a copy of classifyTTL with limits of its    *)
(* own, and its status: that of the entry with the least TTL.              *)
classifyRemainingTTL(remaining) ==
  CASE remaining <= 0 -> 3
    [] remaining \in 1 .. CriticalBelow - 1 -> 2
    [] remaining \in CriticalBelow .. WarningBelow - 1 -> 1
    [] OTHER -> 0

EditorStatus(c) ==
  LET known == IF last_checked[c] = Never THEN {} ELSE {live_until[c][k] - last_checked[c] : k \in Keys[c]}
  IN  IF known = {} THEN Unknown ELSE classifyRemainingTTL(CHOOSE r \in known : \A s \in known : r <= s)

(* The action's check, of the node and not of the database: a contract     *)
(* with an entry the node does not return fails whatever the threshold.    *)
checkContractTTL(c, threshold) ==
  \A k \in Keys[c] : onChainLive[c][k] >= latestLedger /\ onChainLive[c][k] - latestLedger >= threshold

(* The gauge's samples *)
Gauge ==
  UNION {{<<c, k, live_until[c][k] - last_checked[c]>> : k \in Keys[c]} :
           c \in {d \in activeContracts : last_checked[d] # Never}}

(* Mutant: the ledger of the contract checked longest ago *)
CurrentLedgerOldest ==
  LET checked == {last_checked[c] : c \in Monitored} \ {Never} IN
  IF checked = {} THEN 0 ELSE CHOOSE l \in checked : \A m \in checked : l <= m

(* The digest's ledger: MAX(last_checked_ledger), paused contracts' too *)
CurrentLedger ==
  LET checked == {last_checked[c] : c \in Monitored} \ {Never} IN
  IF checked = {} THEN 0 ELSE CHOOSE l \in checked : \A m \in checked : m <= l

(* The digest's severity of an active contract: that of its least TTL,     *)
(* which says critical for expired.                                        *)
DigestSeverity(c) ==
  LET left == {live_until[c][k] - CurrentLedger : k \in Keys[c]}
      rank == classifyTTL(CHOOSE r \in left : \A s \in left : r <= s)
  IN  IF rank = 3 THEN 2 ELSE rank

(* The reports do not contradict each other, although they measure against *)
(* different ledgers: the list says the worst that status says, the digest *)
(* is never more hopeful than the list about a contract they both know,    *)
(* the editor's copy of the rules and fleet status say what the list says  *)
(* (fleet status, of a contract never checked, that it is ok), check fails *)
(* on an active contract exactly when the gauge has a sample below its     *)
(* limit, and it agrees with the action's check of the node as long as     *)
(* what was last read is still so.                                         *)
HealthAgrees ==
  /\ \A c \in Monitored :
       /\ ListHealth(c) = Worst({EntryStatus(c, k) : k \in Keys[c]})
       /\ EditorStatus(c) = ListHealth(c)
       /\ FleetStatus(c) = IF ListHealth(c) = Unknown THEN 0 ELSE ListHealth(c)
       /\ last_checked[c] = latestLedger /\ live_until[c] = onChainLive[c] =>
            \A n \in 0 .. WarningBelow : CheckFails(c, n) <=> ~checkContractTTL(c, n)
  /\ \A c \in activeContracts :
       /\ ListHealth(c) # Unknown => (DigestSeverity(c) >= ListHealth(c) \/ DigestSeverity(c) = 2)
       /\ \A n \in 0 .. WarningBelow :
            CheckFails(c, n) <=> \E s \in Gauge : s[1] = c /\ s[3] < n
=============================================================================
