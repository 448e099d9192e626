------------------------------ MODULE RpcClient ------------------------------
(***************************************************************************)
(* rpc/client.ts: what StellarRpcClient reads and what it submits, over    *)
(* callWithFailover and the circuit breaker of the endpoints, with the     *)
(* callers that extend or restore entries (core/extension.ts) and that     *)
(* fund channel accounts (core/channels.ts); the daemon's way to extend is *)
(* in AutoExtension.                                                       *)
(*                                                                         *)
(* A flow is one method in progress; all flows that submit sign with one   *)
(* account (the wallet, or a channel account two processes share).  Every  *)
(* request is a step of its own: between two requests the other flows and  *)
(* the network move.  A transaction is <<flow, attempt>>; its payload is left  *)
(* out, its sequence number is not.  The network is external: it holds one *)
(* transaction of an account at a time and applies, fails or drops it, and *)
(* a node may be a ledger behind.  The rate limit only delays a request    *)
(* and is modelled in RateLimits; what earlier requests did to the         *)
(* endpoints is in Init.                                                   *)
(***************************************************************************)
EXTENDS Naturals, Sequences, FiniteSets

CONSTANTS
  Flows,          \* the submissions
  Order,          \* the configured endpoints, in their order
  Kinds,          \* which method each flow runs: the assignments to check
  MAX_ATTEMPTS,   \* maxAttempts of pollTransaction (30 in the code)
  MaxOthers       \* bound: the transactions of the account by others

SubmissionKinds == {"extension", "feeBump", "restore", "payment"}
Extending == {"extension", "feeBump", "restore"}
ReadKinds == {"entries", "fees", "ledger", "dryRun", "view"}
Endpoints == {Order[i] : i \in DOMAIN Order}

ASSUME ClientAssumption ==
  /\ Kinds \subseteq [Flows -> SubmissionKinds \cup ReadKinds]
  /\ Order \in Seq(Endpoints) /\ Order # <<>>
  /\ MAX_ATTEMPTS \in Nat \ {0} /\ MaxOthers \in Nat

VARIABLES
  kind,           \* kind[f]: the method flow f runs
  call,           \* call[f]: the request f awaits, or how f ended; the
                  \* endpoints it has left and those it has asked
  attempt,        \* attempt[f]: 2 once the transaction has been rebuilt
  polls,          \* polls[f]: the attempts of pollTransaction used
  seq,            \* seq[tx]: the sequence number tx was built with
  booked,         \* the flows whose caller has stored what they did
  lost,           \* the flows that lost an answer to a sendTransaction
  circuitBroken,  \* the endpoints in their cooldown
  underway,       \* transactions sent whose answer was lost
  queue,          \* transactions the network has accepted
  applied,        \* transactions that succeeded on chain
  failed,         \* transactions that failed on chain
  accountSeq,     \* the account's sequence number on chain
  others          \* the transactions of the account by others

network == <<underway, queue, applied, failed, accountSeq, others>>
vars == <<kind, call, attempt, polls, seq, booked, lost, circuitBroken, network>>

Requests == {"network", "account", "simulate", "send", "poll",
             "getEntries", "getFees", "getLatest", "getHealth"}
Caught == {"noNetwork", "noLatest"}
Ends == {"success", "nothing", "failure", "timeout", "refused", "threw"}
Txs == Flows \X (1..2)
TxsOf(f) == {f} \X (1..2)
Tx(f) == <<f, attempt[f]>>
Awaits(f, r) == call[f].at = r

Init ==
  /\ kind \in Kinds
  /\ call = [f \in Flows |-> [at |-> "new", list |-> <<>>, asked |-> {}]]
  /\ attempt = [f \in Flows |-> 1]
  /\ polls = [f \in Flows |-> 0]
  /\ seq = [t \in Txs |-> 0]
  /\ booked = {} /\ lost = {}
  /\ circuitBroken \in SUBSET Endpoints
  /\ underway = {} /\ queue = {} /\ applied = {} /\ failed = {}
  /\ accountSeq = 0 /\ others = 0

-----------------------------------------------------------------------------
(* callWithFailover *)

Available == SelectSeq(Order, LAMBDA e : e \notin circuitBroken)

(* getOrderedEndpoints: the available ones, or all when there are none.    *)
OrderedEndpoints == IF Available # <<>> THEN Available ELSE Order

(* The next request of flow f, with the list taken once, as it begins.  An *)
(* empty list would end the call without a request.                        *)
Request(f, r) ==
  LET eps == OrderedEndpoints IN
  call' = [call EXCEPT ![f] = [at |-> IF eps = <<>> THEN "threw" ELSE r,
                               list |-> eps, asked |-> {}]]

End(f, how) ==
  call' = [call EXCEPT ![f] = [at |-> how, list |-> <<>>, asked |-> {Head(@.list)}]]

(* Mutant: the last endpoint is followed by the first. *)
TryNextForever(f) ==
  LET e == Head(call[f].list)  rest == Tail(call[f].list) IN
  /\ circuitBroken' = circuitBroken \cup {e}
  /\ call' = [call EXCEPT ![f].list = IF rest = <<>> THEN Order ELSE rest,
                          ![f].asked = @ \cup {e}]

(* getNetworkPassphrase and getCurrentLedger catch what their request throws. *)
Thrown(f) ==
  CASE Awaits(f, "network") -> "noNetwork"
    [] Awaits(f, "getLatest") -> "noLatest"
    [] OTHER -> "threw"

(* The endpoint failed: it begins its cooldown and the next one is tried;  *)
(* the last one's error is thrown.  An only endpoint is not marked.        *)
TryNext(f) ==
  LET e == Head(call[f].list)
      rest == Tail(call[f].list)
      sole == rest = <<>> /\ call[f].asked = {}
  IN
  /\ circuitBroken' = IF sole THEN circuitBroken ELSE circuitBroken \cup {e}
  /\ call' = [call EXCEPT ![f].list = rest,
                          ![f].asked = @ \cup {e},
                          ![f].at = IF rest = <<>> THEN Thrown(f) ELSE @]

isFailoverEligible(error) == error \in {"unreachable", "rateLimited", "serverError"}

(* The request is answered with an error, or with none: a sendTransaction  *)
(* may have reached the network all the same.                              *)
Fails(f, error) ==
  /\ call[f].at \in Requests
  /\ \/ isFailoverEligible(error) /\ TryNext(f)
     \/ ~isFailoverEligible(error) /\ End(f, Thrown(f)) /\ UNCHANGED circuitBroken
  /\ \/ UNCHANGED <<lost, underway>>
     \/ /\ Awaits(f, "send") /\ error = "unreachable"
        /\ lost' = lost \cup {f}
        /\ underway' = underway \cup {Tx(f)}
  /\ UNCHANGED <<kind, attempt, polls, seq, booked, queue, applied, failed, accountSeq, others>>

(* A request of another caller of this client fails at e, one of several.  *)
OtherFails(e) ==
  /\ e \notin circuitBroken
  /\ Len(OrderedEndpoints) > 1
  /\ circuitBroken' = circuitBroken \cup {e}
  /\ UNCHANGED <<kind, call, attempt, polls, seq, booked, lost, network>>

(* 60 seconds have passed since markEndpointFailed. *)
CooldownEnds(e) ==
  /\ e \in circuitBroken
  /\ circuitBroken' = circuitBroken \ {e}
  /\ UNCHANGED <<kind, call, attempt, polls, seq, booked, lost, network>>

-----------------------------------------------------------------------------
(* The methods that submit. *)

(* A payment builds and signs without a simulation and is not retried.     *)
Simulated(f) == kind[f] # "payment"

(* The first request of a method *)
First(k) ==
  CASE k \in SubmissionKinds \cup {"dryRun", "view"} -> "network"
    [] k = "entries" -> "getEntries"
    [] k = "fees" -> "getFees"
    [] k = "ledger" -> "getLatest"

Submit(f) ==
  /\ Awaits(f, "new")
  /\ Request(f, First(kind[f]))
  /\ UNCHANGED <<kind, attempt, polls, seq, booked, lost, circuitBroken, network>>

(* The passphrase of the node or, without one, of the table; a network     *)
(* that has none there is refused.  The first call's is kept.              *)
getNetworkPassphrase(f) ==
  /\ call[f].at \in {"network", "noNetwork"}
  /\ \/ Request(f, IF kind[f] = "view" THEN "simulate" ELSE "account")
     \/ Awaits(f, "noNetwork") /\ call' = [call EXCEPT ![f].at = "threw"]
  /\ UNCHANGED <<kind, attempt, polls, seq, booked, lost, circuitBroken, network>>

(* buildTx: the next sequence number, of a node that may be behind.        *)
BuildTx(f) ==
  /\ Awaits(f, "account") /\ kind[f] \in SubmissionKinds
  /\ \E seen \in {accountSeq, accountSeq - 1} \cap Nat :
       seq' = [seq EXCEPT ![Tx(f)] = seen + 1]
  /\ Request(f, IF Simulated(f) THEN "simulate" ELSE "send")
  /\ UNCHANGED <<kind, attempt, polls, booked, lost, circuitBroken, network>>

Assembled(f) ==
  /\ Awaits(f, "simulate") /\ kind[f] \in SubmissionKinds
  /\ Request(f, "send")
  /\ UNCHANGED <<kind, attempt, polls, seq, booked, lost, circuitBroken, network>>

(* The simulation is refused: getMonitoredKeys throws, and submitExtension *)
(* on the first attempt; the others, and every retry, return a failure.    *)
SimulationRefused(f) ==
  /\ Awaits(f, "simulate")
  /\ End(f, IF kind[f] = "view" \/ (kind[f] = "extension" /\ attempt[f] = 1)
            THEN "refused" ELSE "failure")
  /\ UNCHANGED <<kind, attempt, polls, seq, booked, lost, circuitBroken, network>>

(* The status a node gives a transaction, and the queue after it. *)
StatusOf(tx) ==
  IF tx \in queue THEN {"DUPLICATE"}
  ELSE IF seq[tx] # accountSeq + 1 THEN {"BAD_SEQ"}
  ELSE IF queue # {} THEN {"TRY_AGAIN_LATER", "ERROR"}
  ELSE {"PENDING", "ERROR"}
Queued(tx, status) == IF status = "PENDING" THEN queue \cup {tx} ELSE queue

(* The first ERROR whose result is txBadSeq is worth one more transaction. *)
Rebuilds(f, status) == status = "BAD_SEQ" /\ Simulated(f) /\ attempt[f] = 1

(* sendTransaction is answered: any status but an error is polled for.     *)
Sent(f) ==
  /\ Awaits(f, "send")
  /\ \E status \in StatusOf(Tx(f)) :
       /\ queue' = Queued(Tx(f), status)
       /\ \/ /\ Rebuilds(f, status)
             /\ attempt' = [attempt EXCEPT ![f] = @ + 1]
             /\ Request(f, "account")
          \/ /\ ~Rebuilds(f, status) /\ status \in {"BAD_SEQ", "ERROR"}
             /\ End(f, "failure")
             /\ UNCHANGED attempt
          \/ /\ status \in {"PENDING", "DUPLICATE", "TRY_AGAIN_LATER"}
             /\ Request(f, "poll")
             /\ UNCHANGED attempt
  /\ UNCHANGED <<kind, polls, seq, booked, lost, circuitBroken,
                 underway, applied, failed, accountSeq, others>>

-----------------------------------------------------------------------------
(* pollTransaction *)

Found(f) ==
  /\ Awaits(f, "poll")
  /\ \/ /\ Tx(f) \in applied
        /\ IF kind[f] \in Extending THEN Request(f, "getEntries") ELSE End(f, "success")
     \/ Tx(f) \in failed /\ End(f, "failure")
  /\ UNCHANGED <<kind, attempt, polls, seq, booked, lost, circuitBroken, network>>

(* Mutants: a transaction not found has failed; or is sent again. *)
NotFoundFails(f) ==
  /\ Awaits(f, "poll")
  /\ polls' = [polls EXCEPT ![f] = @ + 1]
  /\ End(f, "failure")
  /\ UNCHANGED <<kind, attempt, seq, booked, lost, circuitBroken, network>>
NotFoundResends(f) ==
  /\ Awaits(f, "poll") /\ attempt[f] = 1
  /\ attempt' = [attempt EXCEPT ![f] = 2]
  /\ Request(f, "account")
  /\ UNCHANGED <<kind, polls, seq, booked, lost, circuitBroken, network>>

(* Not in a closed ledger yet, or not in one this node has: asked again a  *)
(* second later, and given up on after the last attempt.                   *)
NotFound(f) ==
  /\ Awaits(f, "poll")
  /\ polls' = [polls EXCEPT ![f] = @ + 1]
  /\ IF polls[f] + 1 = MAX_ATTEMPTS THEN End(f, "timeout") ELSE Request(f, "poll")
  /\ UNCHANGED <<kind, attempt, seq, booked, lost, circuitBroken, network>>

-----------------------------------------------------------------------------
(* The callers: guard with a key, guard --dry-run, restore, channels fund. *)

Turned(f, away) ==
  /\ Awaits(f, "new")
  /\ call' = [call EXCEPT ![f].at = away]
  /\ UNCHANGED <<kind, attempt, polls, seq, booked, lost, circuitBroken, network>>

(* A contract without entries: guard says so, and exits with 0. *)
GuardRefused(f) == kind[f] = "extension" /\ Turned(f, "nothing")
(* The same, or no key *)
DryRunRefused(f) == kind[f] = "dryRun" /\ \E away \in {"nothing", "refused"} : Turned(f, away)
(* No such contract, no key, no selection or two of them; or no entries *)
RestoreRefused(f) == kind[f] = "restore" /\ \E away \in {"nothing", "refused"} : Turned(f, away)
(* No channel account on this network *)
FundRefused(f) == kind[f] = "payment" /\ Turned(f, "refused")

Book(f) ==
  /\ booked' = booked \cup {f}
  /\ UNCHANGED <<kind, attempt, polls, seq, lost, circuitBroken, network>>

(* The transaction is on chain: the TTLs are read once more and stored in  *)
(* one transaction.  When they cannot be read, both functions throw.       *)
Stored(f) == Awaits(f, "getEntries") /\ End(f, "success") /\ Book(f)
extendEntries(f) == kind[f] \in {"extension", "feeBump"} /\ Stored(f)
restoreEntries(f) == kind[f] = "restore" /\ Stored(f)

(* The exit code of restore, and of guard with a key *)
ExitCode(f) == IF call[f].at \in {"success", "nothing"} THEN 0 ELSE 1

(* The accounts that were paid are marked as funded. *)
fundChannels(f) ==
  /\ Awaits(f, "success") /\ kind[f] = "payment" /\ f \notin booked
  /\ Book(f) /\ UNCHANGED call

-----------------------------------------------------------------------------
(* The methods that only read. *)

(* getEntryTTLs and the other reads of ledger entries, and getFeeStats *)
ReadAnswered(f) ==
  /\ kind[f] \in ReadKinds
  /\ call[f].at \in {"getEntries", "getFees", "getLatest", "getHealth"}
  /\ End(f, "success")
  /\ UNCHANGED <<kind, attempt, polls, seq, booked, lost, circuitBroken, network>>

(* getFeeStats throws on an answer without fees. *)
FeesMissing(f) ==
  /\ Awaits(f, "getFees")
  /\ End(f, "threw")
  /\ UNCHANGED <<kind, attempt, polls, seq, booked, lost, circuitBroken, network>>

(* Without a sequence of getLatestLedger, getHealth is asked for one, and  *)
(* getCurrentLedger throws when that has none either.                      *)
getCurrentLedger(f) ==
  /\ \/ call[f].at \in {"getLatest", "noLatest"} /\ Request(f, "getHealth")
     \/ Awaits(f, "getHealth") /\ End(f, "threw")
  /\ UNCHANGED <<kind, attempt, polls, seq, booked, lost, circuitBroken, network>>

(* simulateExtension and simulateRestore: the account, then the simulation *)
DryRun(f) ==
  /\ kind[f] = "dryRun"
  /\ \/ Awaits(f, "account") /\ Request(f, "simulate")
     \/ Awaits(f, "simulate") /\ End(f, "success")
  /\ UNCHANGED <<kind, attempt, polls, seq, booked, lost, circuitBroken, network>>

getMonitoredKeys(f) ==
  /\ Awaits(f, "simulate") /\ kind[f] = "view"
  /\ End(f, "success")
  /\ UNCHANGED <<kind, attempt, polls, seq, booked, lost, circuitBroken, network>>

-----------------------------------------------------------------------------
(* The network. *)

(* A transaction whose answer was lost arrives. *)
Arrive(tx) ==
  /\ tx \in underway
  /\ underway' = underway \ {tx}
  /\ \E status \in StatusOf(tx) : queue' = Queued(tx, status)
  /\ UNCHANGED <<kind, call, attempt, polls, seq, booked, lost, circuitBroken,
                 applied, failed, accountSeq, others>>

(* A ledger closes with the transaction, or its time bound passes.         *)
Close(tx) ==
  /\ tx \in queue
  /\ queue' = queue \ {tx}
  /\ \/ accountSeq' = seq[tx] /\ applied' = applied \cup {tx} /\ UNCHANGED failed
     \/ accountSeq' = seq[tx] /\ failed' = failed \cup {tx} /\ UNCHANGED applied
     \/ UNCHANGED <<accountSeq, applied, failed>>
  /\ UNCHANGED <<kind, call, attempt, polls, seq, booked, lost, circuitBroken, underway, others>>

(* Another process or the owner uses the account (queue and ledger at once). *)
OtherTransaction ==
  /\ queue = {} /\ others < MaxOthers
  /\ others' = others + 1
  /\ accountSeq' = accountSeq + 1
  /\ UNCHANGED <<kind, call, attempt, polls, seq, booked, lost, circuitBroken,
                 underway, queue, applied, failed>>

-----------------------------------------------------------------------------
Step(f) ==
  \/ Submit(f) \/ getNetworkPassphrase(f) \/ BuildTx(f) \/ Assembled(f) \/ SimulationRefused(f)
  \/ Sent(f) \/ Found(f) \/ NotFound(f)
  \/ \E error \in {"unreachable", "rateLimited", "serverError", "rejected"} : Fails(f, error)

submitExtension(f) == kind[f] = "extension" /\ Step(f)
submitExtensionWithFeeBump(f) == kind[f] = "feeBump" /\ Step(f)
submitRestore(f) == kind[f] = "restore" /\ (Step(f) \/ RestoreRefused(f) \/ restoreEntries(f))
sendPayments(f) == kind[f] = "payment" /\ (Step(f) \/ FundRefused(f) \/ fundChannels(f))
Read(f) ==
  /\ kind[f] \in ReadKinds
  /\ \/ Step(f) \/ ReadAnswered(f) \/ FeesMissing(f) \/ getCurrentLedger(f)
     \/ DryRunRefused(f) \/ DryRun(f) \/ getMonitoredKeys(f)
Method(f) ==
  \/ submitExtension(f) \/ submitExtensionWithFeeBump(f) \/ GuardRefused(f) \/ extendEntries(f)
  \/ submitRestore(f) \/ sendPayments(f) \/ Read(f)

Next ==
  \/ \E f \in Flows : Method(f)
  \/ \E e \in Endpoints : OtherFails(e) \/ CooldownEnds(e)
  \/ OtherTransaction
  \/ \E tx \in Txs : Arrive(tx) \/ Close(tx)

(* A request is answered, fails or is ended by the transport, and the      *)
(* sleeps of pollTransaction end.                                          *)
Fairness == \A f \in Flows : WF_vars(Method(f))

Spec == Init /\ [][Next]_vars
FairSpec == Spec /\ Fairness

-----------------------------------------------------------------------------
(* Type invariant of the client's and the network's variables. *)
TypeOK ==
  /\ kind \in [Flows -> SubmissionKinds \cup ReadKinds]
  /\ call \in [Flows -> [at : Requests \cup Ends \cup Caught \cup {"new"},
                         list : Seq(Endpoints), asked : SUBSET Endpoints]]
  /\ attempt \in [Flows -> 1..2]
  /\ polls \in [Flows -> 0..MAX_ATTEMPTS]
  /\ seq \in [Txs -> Nat]
  /\ booked \subseteq Flows /\ lost \subseteq Flows
  /\ circuitBroken \subseteq Endpoints
  /\ underway \subseteq Txs /\ queue \subseteq Txs
  /\ applied \subseteq Txs /\ failed \subseteq Txs
  /\ accountSeq \in Nat /\ others \in 0..MaxOthers

(* "success" is only returned for a transaction that is on chain, and      *)
(* "failure" is final: unless an answer to one of its sendTransaction was  *)
(* lost, nothing the submission has sent is on chain or may still get      *)
(* there, so the caller may refund the fee and try again.  Nothing is      *)
(* stored for a transaction that did not happen, and an extension or a     *)
(* restore that exits with 0 has been stored, or there was nothing to do.  *)
OutcomeIsReal ==
  \A f \in Flows :
    /\ kind[f] \in SubmissionKinds /\ (Awaits(f, "success") \/ f \in booked) => Tx(f) \in applied
    /\ kind[f] \in SubmissionKinds /\ Awaits(f, "failure") /\ f \notin lost =>
         TxsOf(f) \cap (applied \cup queue \cup underway) = {}
    /\ kind[f] \in Extending /\ ExitCode(f) = 0 => f \in booked \/ Awaits(f, "nothing")

(* A submission pays twice only when the answer to its first send was lost *)
(* on the way and the resent transaction was refused for its sequence      *)
(* number; without a lost answer the retry after txBadSeq is safe, and a   *)
(* payment is never made twice.                                            *)
PaidTwiceOnlyAfterLoss ==
  \A f \in Flows :
    TxsOf(f) \subseteq applied \cup queue => f \in lost /\ kind[f] # "payment"

(* "better to try a known-bad endpoint than to refuse to make any request  *)
(* at all" (comment in getOrderedEndpoints): no method throws without      *)
(* having asked an endpoint, though all of them be in their cooldown.      *)
NeverRefusedUnasked ==
  \A f \in Flows :
    Awaits(f, "threw") => call[f].asked # {}

(* Every method ends, whatever fails. *)
EveryCallEnds == \A f \in Flows : ~Awaits(f, "new") ~> call[f].at \in Ends
=============================================================================
