-------------------------- MODULE SimulationCache --------------------------
(***************************************************************************)
(* core/simulation_cache.ts: the cache of fee simulations that all tasks   *)
(* and cycles of one process share, with the promises of the simulations   *)
(* in flight, while extensions land on the ledger and invalidate entries.  *)
(*                                                                         *)
(* A call that finds nothing to reuse starts a flight, named after the     *)
(* call; the others on the same footprint wait for it.  An action is the   *)
(* code between two awaits, or what the network does in between.  A result *)
(* is abstracted to what it is about: the contract state named by the call *)
(* that started the flight, and how many extensions of the footprint the   *)
(* ledger had when it was simulated.  The clock is abstracted to "ttlMs    *)
(* have passed since the entry was stored".  rpcCallCount is read by tests *)
(* only.                                                                   *)
(***************************************************************************)
EXTENDS Naturals

CONSTANTS
  Calls,           \* bound: the calls of getSimulation in progress together
  Footprints,      \* footprint hashes
  ContractStates,  \* pairs of a wasm hash and a contract id
  None,
  MaxExtensions    \* bound: extensions of one footprint

ASSUME CacheAssumption ==
  /\ None \notin Calls /\ None \notin Nat
  /\ MaxExtensions \in Nat

Answers == [state : ContractStates, seen : Nat, late : BOOLEAN]
Entries == [state : ContractStates, seen : Nat, late : BOOLEAN, expired : BOOLEAN]
Requests == [footprint : Footprints, state : ContractStates]

ASSUME RecordAssumption == None \notin Answers /\ None \notin Entries /\ None \notin Requests

VARIABLES
  cache,        \* the entry of each footprint
  pending,      \* the flight other calls on the footprint join
  request,      \* what each call in progress asked for
  awaits,       \* the flight each call waits for, its own if it started it
  seen,         \* the extensions the simulation of a flight saw
  late,         \* history: an invalidation came during the flight
  extensions,   \* how often each footprint was extended on the ledger
  owed,         \* extensions of this process that have yet to invalidate
  invalidated,  \* history: the extensions there were at the last invalidation
  hit           \* history: the answer the last step served from the cache

network == <<extensions, owed, invalidated>>
flights == <<pending, request, awaits, seen, late>>
cacheVars == <<cache, flights, network, hit>>

InFlight(c) == awaits[c] = c
Waiters(c) == {d \in Calls : awaits[d] = c}

CacheInit ==
  /\ cache = [f \in Footprints |-> None]
  /\ pending = [f \in Footprints |-> None]
  /\ request = [c \in Calls |-> None]
  /\ awaits = [c \in Calls |-> None]
  /\ seen = [c \in Calls |-> None]
  /\ late = [c \in Calls |-> FALSE]
  /\ extensions = [f \in Footprints |-> 0]
  /\ owed = [f \in Footprints |-> 0]
  /\ invalidated = [f \in Footprints |-> 0]
  /\ hit = None

-----------------------------------------------------------------------------
Reusable(f, s) == cache[f] # None /\ ~cache[f].expired /\ cache[f].state = s

Ask(c, f, s) ==
  /\ request[c] = None
  /\ request' = [request EXCEPT ![c] = [footprint |-> f, state |-> s]]

(* What is stale by age is dropped, what is of another state stays.        *)
DropExpired(f) ==
  cache' = IF cache[f] # None /\ cache[f].expired THEN [cache EXCEPT ![f] = None] ELSE cache

Hit(c, f, s) ==
  /\ request[c] = None
  /\ Reusable(f, s)
  /\ hit' = [asked |-> s, state |-> cache[f].state]
  /\ UNCHANGED <<cache, flights, network>>

(* Mutant: a call with another contract state does not join but starts a   *)
(* flight of its own.                                                      *)
CanJoinSame(f, s) == pending[f] # None /\ request[pending[f]].state = s

CanJoin(f, s) == pending[f] # None

Join(c, f, s) ==
  /\ Ask(c, f, s)
  /\ ~Reusable(f, s) /\ CanJoin(f, s)
  /\ DropExpired(f)
  /\ awaits' = [awaits EXCEPT ![c] = pending[f]]
  /\ hit' = None
  /\ UNCHANGED <<pending, seen, late, network>>

Fly(c, f, s) ==
  /\ Ask(c, f, s)
  /\ ~Reusable(f, s) /\ ~CanJoin(f, s)
  /\ DropExpired(f)
  /\ pending' = [pending EXCEPT ![f] = c]
  /\ awaits' = [awaits EXCEPT ![c] = c]
  /\ hit' = None
  /\ UNCHANGED <<seen, late, network>>

(* The RPC server simulates the transaction on the ledger it has. *)
Simulate(c) ==
  /\ InFlight(c) /\ seen[c] = None
  /\ seen' = [seen EXCEPT ![c] = extensions[request[c].footprint]]
  /\ hit' = None
  /\ UNCHANGED <<cache, pending, request, awaits, late, network>>

(* What is left of the flight is of no further use. *)
Over(c) ==
  /\ seen' = [seen EXCEPT ![c] = None]
  /\ late' = [late EXCEPT ![c] = FALSE]
  /\ hit' = None

(* Mutant: only the call that started the flight returns. *)
SettleOne(c) ==
  /\ request' = [request EXCEPT ![c] = None]
  /\ awaits' = [awaits EXCEPT ![c] = None]
  /\ Over(c)

(* The promise settles: every call that waits for it returns. *)
Settle(c) ==
  /\ request' = [d \in Calls |-> IF d \in Waiters(c) THEN None ELSE request[d]]
  /\ awaits' = [d \in Calls |-> IF d \in Waiters(c) THEN None ELSE awaits[d]]
  /\ Over(c)

Return(c) ==
  /\ InFlight(c) /\ seen[c] # None
  /\ LET f == request[c].footprint
     IN  /\ cache' = [cache EXCEPT ![f] = [state |-> request[c].state, seen |-> seen[c],
                                          late |-> late[c], expired |-> FALSE]]
         /\ pending' = [pending EXCEPT ![f] = None]
  /\ Settle(c)
  /\ UNCHANGED network

Fail(c) ==
  /\ InFlight(c)
  /\ pending' = [pending EXCEPT ![request[c].footprint] = None]
  /\ Settle(c)
  /\ UNCHANGED <<cache, network>>

(* ttlMs pass. *)
Expire(f) ==
  /\ cache[f] # None
  /\ cache' = [cache EXCEPT ![f].expired = TRUE]
  /\ hit' = None
  /\ UNCHANGED <<flights, network>>

-----------------------------------------------------------------------------
(* An extension lands.  extendEntries will invalidate the footprint unless *)
(* the read of the TTLs that follows throws, the answer to the submission  *)
(* was lost, or the extension is another process's.                        *)
Extend(f) ==
  /\ extensions[f] < MaxExtensions
  /\ extensions' = [extensions EXCEPT ![f] = @ + 1]
  /\ owed' \in {owed, [owed EXCEPT ![f] = @ + 1]}
  /\ hit' = None
  /\ UNCHANGED <<cache, flights, invalidated>>

(* Mutant: the entry is left to expire. *)
KeepEntry(f) == UNCHANGED cache

(* invalidate deletes the entry; a flight in progress is left alone. *)
DropEntry(f) == cache' = [cache EXCEPT ![f] = None]

Invalidate(f) ==
  /\ owed[f] > 0
  /\ owed' = [owed EXCEPT ![f] = @ - 1]
  /\ DropEntry(f)
  /\ invalidated' = [invalidated EXCEPT ![f] = extensions[f]]
  /\ late' = [c \in Calls |-> late[c] \/ (InFlight(c) /\ request[c].footprint = f)]
  /\ hit' = None
  /\ UNCHANGED <<pending, request, awaits, seen, extensions>>

CacheNext ==
  \/ \E c \in Calls, f \in Footprints, s \in ContractStates :
       Hit(c, f, s) \/ Join(c, f, s) \/ Fly(c, f, s)
  \/ \E c \in Calls : Simulate(c) \/ Return(c) \/ Fail(c)
  \/ \E f \in Footprints : Expire(f) \/ Extend(f) \/ Invalidate(f)

CacheSpec == CacheInit /\ [][CacheNext]_cacheVars

(* The RPC call of a flight is answered or fails in the end. *)
CacheFairSpec == CacheSpec /\ \A c \in Calls : WF_cacheVars(Simulate(c) \/ Return(c) \/ Fail(c))

-----------------------------------------------------------------------------
(* Type invariant of the cache, the flights and the ledger. *)
CacheTypeOK ==
  /\ cache \in [Footprints -> Entries \cup {None}]
  /\ pending \in [Footprints -> Calls \cup {None}]
  /\ request \in [Calls -> Requests \cup {None}]
  /\ awaits \in [Calls -> Calls \cup {None}]
  /\ \A c \in Calls : (request[c] = None) = (awaits[c] = None)
  /\ seen \in [Calls -> Nat \cup {None}]
  /\ late \in [Calls -> BOOLEAN]
  /\ extensions \in [Footprints -> Nat]
  /\ owed \in [Footprints -> Nat]
  /\ invalidated \in [Footprints -> Nat]
  /\ hit \in [asked : ContractStates, state : ContractStates] \cup {None}

(* No two simulations of one footprint are in flight together, whatever    *)
(* expires, fails or is invalidated meanwhile: the point of pending.       *)
OneFlightPerFootprint ==
  \A c, d \in Calls : InFlight(c) /\ InFlight(d) /\ request[c].footprint = request[d].footprint => c = d

(* pending never holds a promise that has settled: later calls would get   *)
(* the failure of an earlier one for ever, or its answer past its age.     *)
NoSettledPromise ==
  \A f \in Footprints : pending[f] # None => InFlight(pending[f]) /\ request[pending[f]].footprint = f

(* Whoever waits, waits for a flight in progress on its own footprint.     *)
WaitersHaveAFlight ==
  \A c \in Calls : awaits[c] # None =>
    InFlight(awaits[c]) /\ request[awaits[c]].footprint = request[c].footprint

(* An answer served from the cache is of the wasm and the contract that    *)
(* the call named.  (A call that joins a flight has no such promise.)      *)
HitsAreOfTheSameState == hit # None => hit.asked = hit.state

(* The cache holds a simulation older than the last invalidation of its    *)
(* footprint only if that invalidation came while it was in flight.        *)
StaleOnlyIfOvertaken ==
  \A f \in Footprints : cache[f] # None /\ cache[f].seen < invalidated[f] => cache[f].late

(* Every call is answered or rejected: no waiter is forgotten when the     *)
(* flight it joined fails or is invalidated.                               *)
EveryCallEnds == \A c \in Calls : request[c] # None ~> request[c] = None
=============================================================================
