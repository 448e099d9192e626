---------------------------- MODULE ChannelPool ----------------------------
(***************************************************************************)
(* ChannelAccountPool (core/channels.ts) as the extension tasks of         *)
(* runAutoExtensions use it: every daemon cycle builds a pool over the     *)
(* registered channel accounts, each eligible contract's task acquires one *)
(* account, signs with it and releases it.                                 *)
(*                                                                         *)
(* JavaScript runs acquire() and release() to completion, so each is one   *)
(* action.  An account is its index in the pool's list.  A task that       *)
(* acquire() could not serve sits in waiters until a release() of another  *)
(* task resolves its promise; the slot it will resume with is already in   *)
(* inUse then, so the hand-over is part of Release.                        *)
(***************************************************************************)
EXTENDS Integers, Sequences

CONSTANTS
  Tasks,    \* the contracts one cycle wants to extend
  N,        \* number of registered channel accounts
  NoSlot    \* "no account"

(* runAutoExtensions builds a pool only over a non-empty list of accounts. *)
ASSUME PoolAssumption == N \in Nat \ {0} /\ NoSlot \notin 0 .. N - 1

VARIABLES
  cursor,   \* round-robin cursor
  inUse,    \* accounts handed out
  waiters,  \* blocked acquire() calls, oldest first
  phase,    \* phase[t]: where task t is
  held      \* held[t]: the account task t holds

vars == <<cursor, inUse, waiters, phase, held>>

Slots == 0 .. N - 1
Phases == {"ready", "waiting", "holding", "done"}

-----------------------------------------------------------------------------
(* nextFreeSlot: the first account at or after the cursor not in use.      *)
FreeOffsets(used) == {i \in Slots : (cursor + i) % N \notin used}

FirstOf(offsets) == CHOOSE i \in offsets : \A j \in offsets : i <= j

NextFreeSlot(used) == (cursor + FirstOf(FreeOffsets(used))) % N

(* Mutant: the slot is not marked. *)
TakeUnmarked(s, used) == inUse' = used /\ cursor' = (s + 1) % N

(* Slot s leaves the pool and the cursor moves past it. *)
Take(s, used) ==
  /\ inUse' = used \cup {s}
  /\ cursor' = (s + 1) % N

Init ==
  /\ cursor = 0
  /\ inUse = {}
  /\ waiters = <<>>
  /\ phase = [t \in Tasks |-> "ready"]
  /\ held = [t \in Tasks |-> NoSlot]

AcquireNow(t) ==
  /\ phase[t] = "ready"
  /\ FreeOffsets(inUse) # {}
  /\ Take(NextFreeSlot(inUse), inUse)
  /\ held' = [held EXCEPT ![t] = NextFreeSlot(inUse)]
  /\ phase' = [phase EXCEPT ![t] = "holding"]
  /\ UNCHANGED waiters

AcquireLater(t) ==
  /\ phase[t] = "ready"
  /\ FreeOffsets(inUse) = {}
  /\ waiters' = Append(waiters, t)
  /\ phase' = [phase EXCEPT ![t] = "waiting"]
  /\ UNCHANGED <<cursor, inUse, held>>

(* The accounts in use once task t has given its own back. *)
After(t) == inUse \ {held[t]}

(* Mutant: release() frees the slot without looking at the queue. *)
ReleaseUnnoticed(t) ==
  /\ phase[t] = "holding"
  /\ inUse' = After(t)
  /\ held' = [held EXCEPT ![t] = NoSlot]
  /\ phase' = [phase EXCEPT ![t] = "done"]
  /\ UNCHANGED <<cursor, waiters>>

ReleaseToNobody(t) ==
  /\ phase[t] = "holding"
  /\ waiters = <<>> \/ FreeOffsets(After(t)) = {}
  /\ inUse' = After(t)
  /\ held' = [held EXCEPT ![t] = NoSlot]
  /\ phase' = [phase EXCEPT ![t] = "done"]
  /\ UNCHANGED <<cursor, waiters>>

(* Mutant: the newest waiter is served (pop). *)
Newest == waiters[Len(waiters)]
ReleaseToNewest(t) ==
  /\ phase[t] = "holding"
  /\ waiters # <<>> /\ FreeOffsets(After(t)) # {}
  /\ Take(NextFreeSlot(After(t)), After(t))
  /\ held' = [held EXCEPT ![t] = NoSlot, ![Newest] = NextFreeSlot(After(t))]
  /\ phase' = [phase EXCEPT ![t] = "done", ![Newest] = "holding"]
  /\ waiters' = SubSeq(waiters, 1, Len(waiters) - 1)

ReleaseToWaiter(t) ==
  /\ phase[t] = "holding"
  /\ waiters # <<>> /\ FreeOffsets(After(t)) # {}
  /\ Take(NextFreeSlot(After(t)), After(t))
  /\ held' = [held EXCEPT ![t] = NoSlot, ![Head(waiters)] = NextFreeSlot(After(t))]
  /\ phase' = [phase EXCEPT ![t] = "done", ![Head(waiters)] = "holding"]
  /\ waiters' = Tail(waiters)

(* The next cycle builds a fresh pool once Promise.all has seen every task. *)
NewCycle ==
  /\ \A t \in Tasks : phase[t] = "done"
  /\ cursor' = 0
  /\ inUse' = {}
  /\ waiters' = <<>>
  /\ phase' = [t \in Tasks |-> "ready"]
  /\ held' = [t \in Tasks |-> NoSlot]

Acquire(t) == AcquireNow(t) \/ AcquireLater(t)
Release(t) == ReleaseToNobody(t) \/ ReleaseToWaiter(t)

Next == (\E t \in Tasks : Acquire(t) \/ Release(t)) \/ NewCycle

(* A task that holds an account always reaches its finally block: every    *)
(* await between acquire and release ends (poll and retries are bounded).  *)
Fairness == \A t \in Tasks : WF_vars(Acquire(t)) /\ WF_vars(Release(t))

Spec == Init /\ [][Next]_vars
FairSpec == Spec /\ Fairness

-----------------------------------------------------------------------------
(* Type invariant of the pool and of the tasks that use it. *)
TypeOK ==
  /\ cursor \in Slots
  /\ inUse \subseteq Slots
  /\ waiters \in Seq(Tasks)
  /\ phase \in [Tasks -> Phases]
  /\ held \in [Tasks -> Slots \cup {NoSlot}]

(* No two tasks hold one account: two transactions of one cycle never race *)
(* for the same account's sequence number (class comment of the pool).     *)
MutualExclusion ==
  \A t, u \in Tasks : held[t] = held[u] /\ held[t] # NoSlot => t = u

(* An account marked in use is held by a task that will release it, and    *)
(* the other way round: no account leaks out of the rotation.              *)
NoLeakedSlot == inUse = {held[t] : t \in Tasks} \ {NoSlot}

(* The waiters queue lists exactly the blocked tasks, each once: nobody    *)
(* is woken twice and nobody is forgotten.                                 *)
WaitersAreBlocked ==
  /\ {waiters[i] : i \in 1 .. Len(waiters)} = {t \in Tasks : phase[t] = "waiting"}
  /\ \A i, j \in 1 .. Len(waiters) : waiters[i] = waiters[j] => i = j

(* No lost wake-up: while somebody waits, every account is out.  Release   *)
(* hands its account on itself, so a free account never meets a waiter.    *)
NoIdleSlotWhileWaiting == waiters # <<>> => inUse = Slots

(* A task holds an account exactly between acquire and release. *)
HoldingMatchesPhase == \A t \in Tasks : phase[t] = "holding" <=> held[t] # NoSlot

(* The inductive invariant. *)
PoolInv ==
  /\ TypeOK
  /\ HoldingMatchesPhase
  /\ MutualExclusion
  /\ NoLeakedSlot
  /\ WaitersAreBlocked
  /\ NoIdleSlotWhileWaiting

(* Waiters are served oldest first: a step that serves a waiter serves the *)
(* head of the queue, and newcomers never overtake it.                     *)
ServedInOrder ==
  [][\A t \in Tasks :
       phase[t] # "holding" /\ phase'[t] = "holding" /\ waiters # <<>>
         => t = Head(waiters)]_vars

(* Every task that wants an account gets one: acquire() never blocks for   *)
(* ever, so Promise.all over the tasks, and with it the cycle, ends.       *)
EveryTaskServed == \A t \in Tasks : phase[t] = "waiting" ~> phase[t] = "holding"

(* The pool implements the abstract allocator. *)
Abstract == INSTANCE SlotAllocator
              WITH waiting <- {t \in Tasks : phase[t] = "waiting"}
Implements == Abstract!ASpec

=============================================================================
