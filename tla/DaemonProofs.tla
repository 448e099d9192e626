---------------------------- MODULE DaemonProofs ----------------------------
(***************************************************************************)
(* Proofs about the three machines in the memory of a daemon: the pool of  *)
(* channel accounts (ChannelPool), the loop with its guard and its timer   *)
(* (DaemonLoop), and the cache of simulations (SimulationCache).  They     *)
(* share no variable; the module extends all three so that the proofs can  *)
(* stand next to each other.                                               *)
(***************************************************************************)
EXTENDS ChannelPool, DaemonLoop, SimulationCache, FiniteSums, SequenceTheorems, TLAPS

-----------------------------------------------------------------------------
(***************************************************************************)
(* The channel account pool, for every number of tasks and of accounts: the*)
(* inductive invariant PoolInv, the order in which waiters are served, and *)
(* that the pool implements SlotAllocator.                                 *)
(***************************************************************************)

(* FirstOf is the least element: the scan stops at the first free account. *)
LEMMA SmallestOffset ==
  ASSUME NEW S \in SUBSET Nat, S # {}
  PROVE  FirstOf(S) \in S /\ \A j \in S : FirstOf(S) <= j
  BY LeastNatural DEF FirstOf

(* The scan of nextFreeSlot never leaves the list of accounts. *)
LEMMA WrapAround ==
  ASSUME NEW a \in 0 .. 2 * N - 1
  PROVE  a % N = IF a < N THEN a ELSE a - N
  BY PoolAssumption

(* nextFreeSlot returns a registered account nobody uses. *)
LEMMA NextFreeSlotIsFree ==
  ASSUME TypeOK, NEW used, FreeOffsets(used) # {}
  PROVE  NextFreeSlot(used) \in Slots \ used
<1>1. FreeOffsets(used) \subseteq Nat
  BY PoolAssumption DEF FreeOffsets, Slots
<1>2. FirstOf(FreeOffsets(used)) \in FreeOffsets(used)
  BY <1>1, SmallestOffset
<1> DEFINE i == FirstOf(FreeOffsets(used))
<1>3. i \in Slots /\ (cursor + i) % N \notin used
  BY <1>2 DEF FreeOffsets
<1> HIDE DEF i
<1>4. cursor + i \in 0 .. 2 * N - 1
  BY <1>3, PoolAssumption DEF Slots, TypeOK
<1>5. (cursor + i) % N \in Slots
  BY <1>4, WrapAround, PoolAssumption DEF Slots
<1>6. QED
  BY <1>3, <1>5 DEF NextFreeSlot, i

(* The scan misses nobody: when it finds no account, every one is in use. *)
LEMMA ScanIsExhaustive ==
  ASSUME TypeOK, NEW used, FreeOffsets(used) = {}
  PROVE  Slots \subseteq used
<1> SUFFICES ASSUME NEW s \in Slots, s \notin used
             PROVE  FALSE
  OBVIOUS
<1> DEFINE i == IF s >= cursor THEN s - cursor ELSE s - cursor + N
<1>1. i \in Slots /\ cursor + i \in 0 .. 2 * N - 1
  BY PoolAssumption DEF TypeOK, Slots
<1>2. (cursor + i) % N = s
  <2>1. CASE s >= cursor
    BY <1>1, <2>1, WrapAround, PoolAssumption DEF TypeOK, Slots
  <2>2. CASE s < cursor
    <3>1. cursor + i = s + N /\ cursor + i >= N
      BY <2>2, PoolAssumption DEF TypeOK, Slots
    <3> DEFINE a == cursor + i
    <3>2. a \in 0 .. 2 * N - 1 /\ ~(a < N)
      BY <1>1, <3>1, PoolAssumption
    <3> HIDE DEF a
    <3>3. a % N = a - N
      BY <3>2, WrapAround
    <3>4. QED
      BY <3>1, <3>3, PoolAssumption DEF Slots, a
  <2>3. QED
    BY <2>1, <2>2, PoolAssumption DEF TypeOK, Slots
<1>3. i \in FreeOffsets(used)
  BY <1>1, <1>2 DEF FreeOffsets
<1>4. QED
  BY <1>3

(* A fresh pool satisfies the invariant. *)
LEMMA InitPoolInv == Init => PoolInv
<1> SUFFICES ASSUME Init
             PROVE  PoolInv
  OBVIOUS
<1>1. Len(waiters) = 0 /\ waiters \in Seq(Tasks)
  BY EmptySeq DEF Init
<1>2. TypeOK
  BY <1>1, PoolAssumption DEF Init, TypeOK, Slots, Phases
<1>3. WaitersAreBlocked
  BY <1>1 DEF Init, WaitersAreBlocked
<1>4. QED
  BY <1>2, <1>3 DEF Init, PoolInv, HoldingMatchesPhase, MutualExclusion,
                    NoLeakedSlot, NoIdleSlotWhileWaiting

(* acquire() with a free account keeps the invariant. *)
LEMMA AcquireNowKeepsPoolInv ==
  ASSUME PoolInv, NEW t \in Tasks, AcquireNow(t)
  PROVE  PoolInv'
<1> DEFINE s == NextFreeSlot(inUse)
<1> USE DEF PoolInv
<1>1. s \in Slots \ inUse
  BY NextFreeSlotIsFree DEF AcquireNow
<1>2. /\ inUse' = inUse \cup {s} /\ cursor' = (s + 1) % N
      /\ held' = [held EXCEPT ![t] = s] /\ held[t] = NoSlot
      /\ phase' = [phase EXCEPT ![t] = "holding"] /\ phase[t] = "ready"
      /\ waiters' = waiters
  BY DEF AcquireNow, Take, HoldingMatchesPhase, TypeOK
<1>3. s # NoSlot
  BY <1>1, PoolAssumption DEF Slots
<1> HIDE DEF s
<1>4. TypeOK'
  BY <1>1, <1>2, PoolAssumption DEF TypeOK, Slots, Phases
<1>5. HoldingMatchesPhase'
  BY <1>2, <1>3 DEF HoldingMatchesPhase, TypeOK
<1>6. MutualExclusion'
  BY <1>1, <1>2 DEF MutualExclusion, NoLeakedSlot, TypeOK
<1>7. NoLeakedSlot'
  BY <1>2, <1>3 DEF NoLeakedSlot, TypeOK
<1>8. WaitersAreBlocked'
  BY <1>2 DEF WaitersAreBlocked, TypeOK
<1>9. NoIdleSlotWhileWaiting'
  BY <1>1, <1>2 DEF NoIdleSlotWhileWaiting
<1>10. QED
  BY <1>4, <1>5, <1>6, <1>7, <1>8, <1>9

(* acquire() that queues the caller keeps the invariant. *)
LEMMA AcquireLaterKeepsPoolInv ==
  ASSUME PoolInv, NEW t \in Tasks, AcquireLater(t)
  PROVE  PoolInv'
<1> USE DEF PoolInv
<1>1. /\ waiters' = Append(waiters, t)
      /\ phase' = [phase EXCEPT ![t] = "waiting"] /\ phase[t] = "ready"
      /\ cursor' = cursor /\ inUse' = inUse /\ held' = held
  BY DEF AcquireLater
<1>2. /\ waiters' \in Seq(Tasks) /\ Len(waiters) \in Nat
      /\ Len(waiters') = Len(waiters) + 1
      /\ \A i \in 1 .. Len(waiters) : waiters'[i] = waiters[i]
      /\ waiters'[Len(waiters) + 1] = t
  BY <1>1, AppendProperties, LenProperties DEF TypeOK
<1>3. TypeOK'
  BY <1>1, <1>2 DEF TypeOK, Phases
<1>4. HoldingMatchesPhase' /\ MutualExclusion' /\ NoLeakedSlot'
  BY <1>1 DEF HoldingMatchesPhase, MutualExclusion, NoLeakedSlot, TypeOK
<1>5. WaitersAreBlocked'
  <2>1. \A i \in 1 .. Len(waiters) : phase[waiters[i]] = "waiting"
    BY DEF WaitersAreBlocked
  <2>2. {waiters'[i] : i \in 1 .. Len(waiters')}
          = {waiters[i] : i \in 1 .. Len(waiters)} \cup {t}
    BY <1>2
  <2>3. {u \in Tasks : phase'[u] = "waiting"}
          = {u \in Tasks : phase[u] = "waiting"} \cup {t}
    BY <1>1 DEF TypeOK
  <2>4. \A i, j \in 1 .. Len(waiters') : waiters'[i] = waiters'[j] => i = j
    BY <1>1, <1>2, <2>1 DEF WaitersAreBlocked
  <2>5. QED
    BY <2>2, <2>3, <2>4 DEF WaitersAreBlocked
<1>6. NoIdleSlotWhileWaiting'
  BY <1>1, ScanIsExhaustive DEF AcquireLater, NoIdleSlotWhileWaiting, TypeOK
<1>7. QED
  BY <1>3, <1>4, <1>5, <1>6

(* release() with an empty queue keeps the invariant; the other way into
   this branch of the code, a queue and no free account, cannot occur. *)
LEMMA ReleaseToNobodyKeepsPoolInv ==
  ASSUME PoolInv, NEW t \in Tasks, ReleaseToNobody(t)
  PROVE  PoolInv'
<1> USE DEF PoolInv
<1>1. /\ inUse' = inUse \ {held[t]}
      /\ held' = [held EXCEPT ![t] = NoSlot] /\ held[t] # NoSlot
      /\ phase' = [phase EXCEPT ![t] = "done"] /\ phase[t] = "holding"
      /\ cursor' = cursor /\ waiters' = waiters
  BY DEF ReleaseToNobody, After, HoldingMatchesPhase
<1>2. waiters = <<>>
  <2>1. held[t] \in Slots \ After(t)
    BY <1>1 DEF After, TypeOK
  <2>2. FreeOffsets(After(t)) # {}
    BY <2>1, ScanIsExhaustive
  <2>3. QED
    BY <2>2 DEF ReleaseToNobody
<1>3. TypeOK'
  BY <1>1 DEF TypeOK, Phases
<1>4. HoldingMatchesPhase' /\ MutualExclusion'
  BY <1>1 DEF HoldingMatchesPhase, MutualExclusion, TypeOK
<1>5. NoLeakedSlot'
  BY <1>1 DEF NoLeakedSlot, MutualExclusion, TypeOK
<1>6. WaitersAreBlocked'
  BY <1>1 DEF WaitersAreBlocked, TypeOK
<1>7. NoIdleSlotWhileWaiting'
  BY <1>1, <1>2 DEF NoIdleSlotWhileWaiting
<1>8. QED
  BY <1>3, <1>4, <1>5, <1>6, <1>7

(* release() that serves the oldest waiter keeps the invariant. *)
LEMMA ReleaseToWaiterKeepsPoolInv ==
  ASSUME PoolInv, NEW t \in Tasks, ReleaseToWaiter(t)
  PROVE  PoolInv'
<1> DEFINE s == NextFreeSlot(After(t))
           h == Head(waiters)
<1> USE DEF PoolInv
<1>1. /\ waiters \in Seq(Tasks) /\ waiters # <<>>
      /\ h \in Tasks /\ waiters' \in Seq(Tasks) /\ h = waiters[1]
      /\ Len(waiters) \in Nat \ {0}
      /\ Len(waiters') = Len(waiters) - 1
      /\ \A i \in 1 .. Len(waiters') : waiters'[i] = waiters[i + 1]
  BY HeadTailProperties, LenProperties, EmptySeq DEF ReleaseToWaiter, TypeOK
<1>2. s \in Slots \ After(t)
  BY NextFreeSlotIsFree DEF ReleaseToWaiter
<1>3. phase[h] = "waiting"
  BY <1>1 DEF WaitersAreBlocked
<1>4. /\ inUse' = (inUse \ {held[t]}) \cup {s} /\ cursor' = (s + 1) % N
      /\ held' = [held EXCEPT ![t] = NoSlot, ![h] = s]
      /\ phase' = [phase EXCEPT ![t] = "done", ![h] = "holding"]
      /\ phase[t] = "holding" /\ held[t] # NoSlot /\ held[h] = NoSlot
      /\ h # t
  BY <1>1, <1>3 DEF ReleaseToWaiter, Take, After, HoldingMatchesPhase
<1>5. s # NoSlot /\ s \in Slots /\ s \notin inUse \ {held[t]}
  BY <1>2, PoolAssumption DEF Slots, After
<1> HIDE DEF s, h
<1>6. TypeOK'
  <2>1. cursor' \in Slots
    BY <1>4, <1>5, WrapAround, PoolAssumption DEF Slots
  <2>2. inUse' \subseteq Slots /\ held' \in [Tasks -> Slots \cup {NoSlot}]
    BY <1>1, <1>4, <1>5 DEF TypeOK
  <2>3. phase' \in [Tasks -> Phases]
    BY <1>1, <1>4 DEF TypeOK, Phases
  <2>4. QED
    BY <1>1, <2>1, <2>2, <2>3 DEF TypeOK
<1>7. HoldingMatchesPhase'
  BY <1>1, <1>4, <1>5 DEF HoldingMatchesPhase, TypeOK
<1>8. MutualExclusion'
  BY <1>1, <1>4, <1>5 DEF MutualExclusion, NoLeakedSlot, TypeOK
<1>9. NoLeakedSlot'
  BY <1>1, <1>4, <1>5 DEF NoLeakedSlot, MutualExclusion, TypeOK
<1>10. WaitersAreBlocked'
  <2>1. \A i \in 1 .. Len(waiters) : waiters[i] = h <=> i = 1
    BY <1>1 DEF WaitersAreBlocked
  <2>2. {waiters'[i] : i \in 1 .. Len(waiters')}
          = {waiters[i] : i \in 1 .. Len(waiters)} \ {h}
    <3>1. \A i \in 1 .. Len(waiters') : i + 1 \in 1 .. Len(waiters) /\ i + 1 # 1
      BY <1>1
    <3>2. \A j \in 1 .. Len(waiters) : j # 1 => j - 1 \in 1 .. Len(waiters') /\ waiters'[j - 1] = waiters[j]
      BY <1>1
    <3>3. ASSUME NEW i \in 1 .. Len(waiters')
          PROVE  waiters'[i] \in {waiters[j] : j \in 1 .. Len(waiters)} \ {h}
      BY <1>1, <2>1, <3>1
    <3>4. ASSUME NEW j \in 1 .. Len(waiters), waiters[j] # h
          PROVE  waiters[j] \in {waiters'[i] : i \in 1 .. Len(waiters')}
      BY <2>1, <3>2, <3>4
    <3>5. QED
      BY <3>3, <3>4
  <2>3. {u \in Tasks : phase'[u] = "waiting"}
          = {u \in Tasks : phase[u] = "waiting"} \ {h}
    BY <1>1, <1>4 DEF TypeOK
  <2>4. \A i, j \in 1 .. Len(waiters') : waiters'[i] = waiters'[j] => i = j
    BY <1>1 DEF WaitersAreBlocked
  <2>5. QED
    BY <2>2, <2>3, <2>4 DEF WaitersAreBlocked
<1>11. NoIdleSlotWhileWaiting'
  BY <1>1, <1>4, <1>5 DEF NoIdleSlotWhileWaiting, NoLeakedSlot, TypeOK
<1>12. QED
  BY <1>6, <1>7, <1>8, <1>9, <1>10, <1>11

(* Every step keeps the invariant. *)
LEMMA NextKeepsPoolInv == PoolInv /\ [Next]_vars => PoolInv'
<1> SUFFICES ASSUME PoolInv, [Next]_vars
             PROVE  PoolInv'
  OBVIOUS
<1>1. ASSUME NEW t \in Tasks, Acquire(t)
      PROVE  PoolInv'
  BY <1>1, AcquireNowKeepsPoolInv, AcquireLaterKeepsPoolInv DEF Acquire
<1>2. ASSUME NEW t \in Tasks, Release(t)
      PROVE  PoolInv'
  BY <1>2, ReleaseToNobodyKeepsPoolInv, ReleaseToWaiterKeepsPoolInv DEF Release
<1>3. CASE NewCycle
  BY <1>3, InitPoolInv, EmptySeq, PoolAssumption
  DEF NewCycle, PoolInv, TypeOK, Slots, Phases, HoldingMatchesPhase,
      MutualExclusion, NoLeakedSlot, WaitersAreBlocked, NoIdleSlotWhileWaiting
<1>4. CASE UNCHANGED vars
  BY <1>4 DEF vars, PoolInv, TypeOK, HoldingMatchesPhase, MutualExclusion,
              NoLeakedSlot, WaitersAreBlocked, NoIdleSlotWhileWaiting
<1>5. QED
  BY <1>1, <1>2, <1>3, <1>4 DEF Next

(* The inductive invariant holds for every number of tasks and accounts.   *)
THEOREM PoolInvariant == Spec => []PoolInv
  BY InitPoolInv, NextKeepsPoolInv, PTL DEF Spec

(* One account is never lent to two tasks of a cycle (core/channels.ts).   *)
THEOREM OneTaskPerAccount == Spec => []MutualExclusion
<1>1. PoolInv => MutualExclusion
  BY DEF PoolInv
<1>2. QED
  BY <1>1, PoolInvariant, PTL

(* release() loses no wake-up: no account is free while a task waits.      *)
THEOREM NoLostWakeUp == Spec => []NoIdleSlotWhileWaiting
<1>1. PoolInv => NoIdleSlotWhileWaiting
  BY DEF PoolInv
<1>2. QED
  BY <1>1, PoolInvariant, PTL

(* Waiters are served in the order of their acquire() calls, and acquire() *)
(* never overtakes them.                                                   *)
THEOREM FirstComeFirstServed == Spec => ServedInOrder
<1> DEFINE InOrder == \A t \in Tasks :
             phase[t] # "holding" /\ phase'[t] = "holding" /\ waiters # <<>>
               => t = Head(waiters)
<1>1. PoolInv /\ [Next]_vars => [InOrder]_vars
  <2> SUFFICES ASSUME PoolInv, [Next]_vars, NEW t \in Tasks,
                      phase[t] # "holding", phase'[t] = "holding", waiters # <<>>
               PROVE  t = Head(waiters)
    BY DEF vars
  <2> USE DEF PoolInv, TypeOK
  <2>1. ASSUME NEW u \in Tasks, AcquireNow(u)
        PROVE  FALSE
    <3>1. NextFreeSlot(inUse) \in Slots \ inUse
      BY <2>1, NextFreeSlotIsFree DEF AcquireNow
    <3>2. QED
      BY <3>1 DEF NoIdleSlotWhileWaiting
  <2>2. ASSUME NEW u \in Tasks, AcquireLater(u) \/ ReleaseToNobody(u)
        PROVE  FALSE
    BY <2>2 DEF AcquireLater, ReleaseToNobody
  <2>3. ASSUME NEW u \in Tasks, ReleaseToWaiter(u)
        PROVE  t = Head(waiters)
    BY <2>3, HeadTailProperties DEF ReleaseToWaiter
  <2>4. ~NewCycle /\ ~UNCHANGED vars
    BY DEF NewCycle, vars
  <2>5. QED
    BY <2>1, <2>2, <2>3, <2>4 DEF Next, Acquire, Release
<1>2. QED
  BY <1>1, PoolInvariant, PTL DEF Spec, ServedInOrder

-----------------------------------------------------------------------------
(* The queue is empty exactly when no task is blocked. *)
LEMMA EmptyQueue ==
  ASSUME PoolInv
  PROVE  waiters = <<>> <=> {t \in Tasks : phase[t] = "waiting"} = {}
<1>1. Len(waiters) \in Nat /\ (waiters = <<>> <=> Len(waiters) = 0)
  BY EmptySeq, LenProperties DEF PoolInv, TypeOK
<1>2. waiters # <<>> => waiters[1] \in {waiters[i] : i \in 1 .. Len(waiters)}
  BY <1>1
<1>3. waiters = <<>> => {waiters[i] : i \in 1 .. Len(waiters)} = {}
  BY <1>1
<1>4. QED
  BY <1>2, <1>3 DEF PoolInv, WaitersAreBlocked

(* Every step of the pool is a step of the allocator, or none of its       *)
(* business: NewCycle replaces a pool that lends nothing.                  *)
LEMMA StepImplements ==
  PoolInv /\ [Next]_vars => [Abstract!ANext]_(Abstract!avars)
<1> SUFFICES ASSUME PoolInv, [Next]_vars
             PROVE  [Abstract!ANext]_(Abstract!avars)
  OBVIOUS
<1> DEFINE waiting == {t \in Tasks : phase[t] = "waiting"}
<1> USE DEF Abstract!avars
<1>1. TypeOK /\ HoldingMatchesPhase /\ NoLeakedSlot /\ Abstract!Lent = inUse
  BY DEF PoolInv, NoLeakedSlot, Abstract!Lent
<1>2. ASSUME NEW t \in Tasks, AcquireNow(t)
      PROVE  Abstract!ANext
  <2>1. NextFreeSlot(inUse) \in Slots \ inUse
    BY <1>1, <1>2, NextFreeSlotIsFree DEF AcquireNow
  <2>2. waiting' = waiting
    BY <1>1, <1>2 DEF AcquireNow, TypeOK
  <2>3. Abstract!Lend(t, NextFreeSlot(inUse))
    BY <1>1, <1>2, <2>1, <2>2 DEF AcquireNow, Abstract!Lend, HoldingMatchesPhase
  <2>4. QED
    BY <2>1, <2>3 DEF Abstract!ANext
<1>3. ASSUME NEW t \in Tasks, AcquireLater(t)
      PROVE  Abstract!ANext
  <2>1. waiting' = waiting \cup {t}
    BY <1>1, <1>3 DEF AcquireLater, TypeOK
  <2>2. Abstract!Block(t)
    BY <1>1, <1>3, <2>1, ScanIsExhaustive DEF AcquireLater, Abstract!Block, HoldingMatchesPhase
  <2>3. QED
    BY <2>2 DEF Abstract!ANext
<1>4. ASSUME NEW t \in Tasks, ReleaseToNobody(t)
      PROVE  Abstract!ANext
  <2>1. held[t] # NoSlot /\ held[t] \in Slots \ After(t)
    BY <1>1, <1>4 DEF ReleaseToNobody, After, HoldingMatchesPhase, TypeOK
  <2>2. waiting = {} /\ waiting' = waiting
    BY <1>1, <1>4, <2>1, ScanIsExhaustive, EmptyQueue DEF ReleaseToNobody, TypeOK
  <2>3. Abstract!GiveBack(t)
    BY <1>4, <2>1, <2>2 DEF ReleaseToNobody, Abstract!GiveBack
  <2>4. QED
    BY <2>3 DEF Abstract!ANext
<1>5. ASSUME NEW t \in Tasks, ReleaseToWaiter(t)
      PROVE  Abstract!ANext
  <2> DEFINE h == Head(waiters)
             s == NextFreeSlot(After(t))
  <2>1. s \in Slots \ After(t)
    BY <1>1, <1>5, NextFreeSlotIsFree DEF ReleaseToWaiter
  <2>2. h \in Tasks /\ h \in waiting
    <3>1. h \in Tasks /\ h = waiters[1] /\ 1 \in 1 .. Len(waiters)
      BY <1>1, <1>5, HeadTailProperties, EmptySeq DEF ReleaseToWaiter, TypeOK
    <3>2. QED
      BY <3>1 DEF PoolInv, WaitersAreBlocked
  <2>3. phase[t] = "holding" /\ held[t] # NoSlot
    BY <1>1, <1>5 DEF ReleaseToWaiter, HoldingMatchesPhase
  <2>4. /\ held' = [held EXCEPT ![t] = NoSlot, ![h] = s]
        /\ phase' = [phase EXCEPT ![t] = "done", ![h] = "holding"]
    BY <1>5 DEF ReleaseToWaiter
  <2> HIDE DEF h, s
  <2>5. waiting' = waiting \ {h}
    BY <1>1, <2>2, <2>3, <2>4 DEF TypeOK
  <2>6. PICK u \in Tasks, r \in Slots : u = h /\ r = s
    BY <2>1, <2>2
  <2>7. Abstract!HandOver(t, u, r)
    BY <1>1, <2>1, <2>2, <2>3, <2>4, <2>5, <2>6 DEF Abstract!HandOver, After
  <2>8. QED
    BY <2>7 DEF Abstract!ANext
<1>6. CASE NewCycle
  <2>1. held' = held /\ waiting' = waiting
    BY <1>1, <1>6 DEF NewCycle, HoldingMatchesPhase, TypeOK
  <2>2. QED
    BY <2>1
<1>7. CASE UNCHANGED vars
  BY <1>7 DEF vars
<1>8. QED
  BY <1>2, <1>3, <1>4, <1>5, <1>6, <1>7 DEF Next, Acquire, Release

(* The pool implements the abstract allocator. *)
THEOREM PoolImplementsAllocator == Spec => Implements
<1>1. Init => Abstract!AInit
  BY DEF Init, Abstract!AInit
<1>2. QED
  BY <1>1, StepImplements, PoolInvariant, PTL DEF Spec, Implements, Abstract!ASpec

-----------------------------------------------------------------------------
(***************************************************************************)
(* The daemon loop, for any number of daemons and ticks: the guard is honest*)
(* whatever the caller does, and in the calm setting there is one cycle at *)
(* a time, one timer, and a stop that sticks.                              *)
(***************************************************************************)

AtMostOneElement(S) == \A x, y \in S : x = y

(* The cardinalities of the properties, without finiteness. *)
LEMMA OneElementAtMost ==
  ASSUME NEW S, AtMostOneElement(S)
  PROVE  Cardinality(S) <= 1
<1>1. CASE S = {}
  BY <1>1, FS_EmptySet
<1>2. CASE S # {}
  <2>1. PICK x : x \in S
    BY <1>2
  <2>2. S = {x}
    BY <2>1 DEF AtMostOneElement
  <2>3. Cardinality({x}) = 1
    BY FS_Singleton
  <2>4. QED
    BY <2>2, <2>3
<1>3. QED
  BY <1>1, <1>2

-----------------------------------------------------------------------------
(* Every caller. *)

LEMMA TypePreserved ==
  ASSUME LoopTypeOK, [LoopNext]_loopVars
  PROVE  LoopTypeOK'
<1> USE DEF LoopTypeOK, Flows, Goto, settings
<1>1. ASSUME NEW s \in Starts, Start(s)
      PROVE  LoopTypeOK'
  BY <1>1, LoopAssumption DEF Start, ClearTimer
<1>2. CASE Stop
  BY <1>2 DEF Stop, ClearTimer
<1>3. CASE DigestComesDue
  BY <1>3 DEF DigestComesDue
<1>4. ASSUME NEW k \in Ticks, Tick(k) \/ DigestSent(k) \/ VacuumThrows(k)
      PROVE  LoopTypeOK'
  BY <1>4, LoopAssumption DEF Tick, TickStraight, TickDigest, TickAllowed, DigestSent, VacuumThrows
<1>5. ASSUME NEW f \in Flows, Monitored(f)
      PROVE  LoopTypeOK'
  BY <1>5, LoopAssumption DEF Monitored
<1>6. ASSUME NEW f \in Flows, NEW from, Finish(f, from)
      PROVE  LoopTypeOK'
  BY <1>6, LoopAssumption DEF Finish
<1>7. CASE UNCHANGED loopVars
  BY <1>7 DEF loopVars
<1>8. QED
  BY <1>1, <1>2, <1>3, <1>4, <1>5, <1>6, <1>7 DEF LoopNext, Advance, MonitorFails, Delivered

(* The loop's variables keep their types. *)
THEOREM LoopTypeCorrect == LoopSpec => []LoopTypeOK
<1>1. LoopInit => LoopTypeOK
  BY LoopAssumption DEF LoopInit, LoopTypeOK, Flows
<1>2. LoopTypeOK /\ [LoopNext]_loopVars => LoopTypeOK'
  BY TypePreserved
<1>3. QED
  BY <1>1, <1>2, PTL DEF LoopSpec

(* The guard is up only while a cycle runs: no caller and no failure can   *)
(* leave it up and silence the ticks.                                      *)
THEOREM GuardNeverStuck == LoopSpec => []GuardIsHonest
<1>1. LoopInit => GuardIsHonest
  BY DEF LoopInit, GuardIsHonest
<1>2. ASSUME LoopTypeOK, GuardIsHonest, [LoopNext]_loopVars
      PROVE  GuardIsHonest'
  <2> USE <1>2 DEF LoopTypeOK, GuardIsHonest, InCycle, Goto
  <2>1. ASSUME NEW f \in Flows, Goto(f, "monitor")
        PROVE  InCycle' # {}
    BY <2>1
  <2>2. ASSUME NEW s \in Starts, Start(s)
        PROVE  GuardIsHonest'
    BY <2>1, <2>2 DEF Start, Flows
  <2>3. CASE Stop
    BY <2>3 DEF Stop
  <2>4. CASE DigestComesDue
    BY <2>4 DEF DigestComesDue
  <2>5. ASSUME NEW k \in Ticks, TickStraight(k) \/ DigestSent(k)
        PROVE  GuardIsHonest'
    BY <2>1, <2>5 DEF TickStraight, DigestSent, Flows
  <2>6. ASSUME NEW k \in Ticks, TickDigest(k) \/ VacuumThrows(k)
        PROVE  GuardIsHonest'
    BY <2>6 DEF TickDigest, VacuumThrows, TickAllowed
  <2>7. ASSUME NEW f \in Flows, Monitored(f)
        PROVE  GuardIsHonest'
    BY <2>7 DEF Monitored
  <2>8. ASSUME NEW f \in Flows, NEW from, Finish(f, from)
        PROVE  GuardIsHonest'
    BY <2>8 DEF Finish
  <2>9. CASE UNCHANGED loopVars
    BY <2>9 DEF loopVars
  <2>10. QED
    BY <2>2, <2>3, <2>4, <2>5, <2>6, <2>7, <2>8, <2>9
    DEF LoopNext, Tick, Advance, MonitorFails, Delivered
<1>3. QED
  BY <1>1, <1>2, LoopTypeCorrect, PTL DEF LoopSpec

-----------------------------------------------------------------------------
(* The calm setting: a patient caller without digests. *)

(* The inductive invariant: what the guard and the handle say is what is,  *)
(* and while a first cycle runs nothing else can be scheduled.             *)
LoopInv ==
  /\ LoopTypeOK
  /\ \A k \in Ticks : pc[k] # "digest"
  /\ AtMostOneElement(InCycle)
  /\ GuardIsExact
  /\ armed \subseteq {intervalHandle}
  /\ Starting # {} => armed = {} /\ ~stopped
  /\ stopped => armed = {}

(* The setting never changes, so the invariant may suppose it. *)
LEMMA CalmStays ==
  ASSUME [LoopNext]_loopVars
  PROVE  Calm' = Calm
<1>1. UNCHANGED settings
  BY DEF LoopNext, loopVars, Start, Stop, DigestComesDue, Tick, TickStraight, TickDigest, DigestSent,
         VacuumThrows, Advance, Monitored, MonitorFails, Delivered, Finish
<1>2. QED
  BY <1>1 DEF Calm, settings

LEMMA StartKeepsLoopInv ==
  ASSUME Calm, LoopInv, NEW s \in Starts, Start(s)
  PROVE  LoopInv'
<1> USE DEF LoopInv, Calm
<1>1. LoopTypeOK'
  BY TypePreserved DEF LoopNext, Start, settings, LoopTypeOK, ClearTimer, Flows, Goto
<1>2. InCycle = {} /\ InCycle' = {s}
  BY DEF Start, InCycle, Goto, Flows, LoopTypeOK
<1>3. armed' = {} /\ ~stopped' /\ cycleInFlight'
  BY DEF Start, ClearTimer
<1>4. \A k \in Ticks : pc'[k] # "digest"
  BY LoopAssumption DEF Start, Goto, LoopTypeOK, Flows
<1>5. QED
  BY <1>1, <1>2, <1>3, <1>4 DEF GuardIsExact, AtMostOneElement

LEMMA TickKeepsLoopInv ==
  ASSUME Calm, LoopInv, LoopTypeOK', NEW k \in Ticks, Tick(k) \/ DigestSent(k) \/ VacuumThrows(k)
  PROVE  LoopInv'
<1> USE DEF LoopInv, Calm
<1>1. CASE TickStraight(k)
  <2> USE <1>1 DEF TickStraight, TickAllowed
  <2>1. InCycle = {} /\ InCycle' = {k}
    BY DEF InCycle, Goto, Flows, LoopTypeOK, GuardIsExact
  <2>2. Starting' = {}
    BY LoopAssumption, <2>1 DEF Starting, InCycle, Flows
  <2>3. ~stopped
    OBVIOUS
  <2>4. \A j \in Ticks : pc'[j] # "digest"
    BY DEF Goto, LoopTypeOK, Flows
  <2>5. QED
    BY <2>1, <2>2, <2>3, <2>4 DEF GuardIsExact, AtMostOneElement
<1>2. CASE VacuumThrows(k)
  BY <1>2 DEF VacuumThrows, TickAllowed, AtMostOneElement, InCycle, GuardIsExact, Starting
<1>3. QED
  BY <1>1, <1>2 DEF Tick, TickDigest, DigestSent

LEMMA FinishKeepsLoopInv ==
  ASSUME LoopInv, LoopTypeOK', NEW f \in Flows, NEW from \in {"monitor", "deliver"}, Finish(f, from)
  PROVE  LoopInv'
<1> USE DEF LoopInv, Finish
<1>1. InCycle = {f}
  BY DEF InCycle, AtMostOneElement
<1>2. InCycle' = {}
  BY <1>1 DEF InCycle, Goto, LoopTypeOK
<1>3. Starting' = {}
  BY <1>2 DEF InCycle, Starting, Flows
<1>4. f \in Starts => f \in Starting
  BY DEF Starting
<1>5. \A k \in Ticks : pc'[k] # "digest"
  BY DEF Goto, LoopTypeOK, Flows
<1>6. armed' \subseteq {intervalHandle'} /\ (stopped' => armed' = {})
  BY <1>4
<1>7. QED
  BY <1>2, <1>3, <1>5, <1>6 DEF GuardIsExact, AtMostOneElement

(* The invariant behind the next four theorems. *)
THEOREM LoopInvariant == LoopSpec => [](Calm => LoopInv)
<1>1. LoopInit => (Calm => LoopInv)
  BY LoopAssumption
  DEF LoopInit, LoopInv, LoopTypeOK, Flows, AtMostOneElement, InCycle, GuardIsExact, Starting
<1>2. ASSUME Calm => LoopInv, [LoopNext]_loopVars, Calm'
      PROVE  LoopInv'
  <2>0. Calm /\ LoopInv
    BY <1>2, CalmStays
  <2> USE <1>2, <2>0
  <2>1. LoopTypeOK'
    BY TypePreserved DEF LoopInv
  <2>2. ASSUME NEW s \in Starts, Start(s)
        PROVE  LoopInv'
    BY <2>2, StartKeepsLoopInv
  <2>3. CASE Stop
    BY <2>1, <2>3
    DEF LoopInv, Calm, Stop, ClearTimer, AtMostOneElement, InCycle, GuardIsExact, Starting
  <2>4. CASE DigestComesDue
    BY <2>1, <2>4 DEF LoopInv, DigestComesDue, AtMostOneElement, InCycle, GuardIsExact, Starting
  <2>5. ASSUME NEW k \in Ticks, Tick(k) \/ DigestSent(k) \/ VacuumThrows(k)
        PROVE  LoopInv'
    BY <2>1, <2>5, TickKeepsLoopInv
  <2>6. ASSUME NEW f \in Flows, Monitored(f)
        PROVE  LoopInv'
    <3> USE <2>6 DEF LoopInv, Monitored, Goto, LoopTypeOK
    <3>1. InCycle' = InCycle /\ Starting' = Starting
      BY DEF InCycle, Starting, Flows
    <3>2. \A k \in Ticks : pc'[k] # "digest"
      BY DEF Flows
    <3>3. QED
      BY <2>1, <3>1, <3>2 DEF AtMostOneElement, GuardIsExact
  <2>7. ASSUME NEW f \in Flows, MonitorFails(f) \/ Delivered(f)
        PROVE  LoopInv'
    BY <2>1, <2>7, FinishKeepsLoopInv DEF MonitorFails, Delivered
  <2>8. CASE UNCHANGED loopVars
    BY <2>1, <2>8 DEF LoopInv, loopVars, settings, AtMostOneElement, InCycle, GuardIsExact, Starting
  <2>9. QED
    BY <2>2, <2>3, <2>4, <2>5, <2>6, <2>7, <2>8 DEF LoopNext, Advance
<1>3. (Calm => LoopInv) /\ [LoopNext]_loopVars => (Calm => LoopInv)'
  BY <1>2
<1>4. QED
  BY <1>1, <1>3, PTL DEF LoopSpec

(* In the calm setting the guard is up exactly while a cycle runs. *)
THEOREM GuardMeansCycle == LoopSpec => [](Calm => GuardIsExact)
<1>1. (Calm => LoopInv) => (Calm => GuardIsExact)
  BY DEF LoopInv
<1>2. QED
  BY <1>1, LoopInvariant, PTL

(* At most one cycle runs, however many daemons and ticks there are. *)
THEOREM OneCycleAtATime == LoopSpec => []AtMostOneCycle
<1>1. (Calm => LoopInv) => AtMostOneCycle
  BY OneElementAtMost DEF LoopInv, AtMostOneCycle
<1>2. QED
  BY <1>1, LoopInvariant, PTL

(* At most one timer is armed: a restart leaves no second loop behind. *)
THEOREM OneTimerAtATime == LoopSpec => []OneTimer
<1>1. (Calm => LoopInv) => OneTimer
  <2> SUFFICES ASSUME LoopInv
               PROVE  AtMostOneElement(armed)
    BY OneElementAtMost DEF OneTimer
  <2>1. QED
    BY DEF LoopInv, AtMostOneElement
<1>2. QED
  BY <1>1, LoopInvariant, PTL

(* No tick starts to work once stopDaemon has been called. *)
THEOREM StoppedStaysStopped == LoopSpec => NoTickAfterStop
<1> DEFINE Quiet == Calm /\ stopped => \A k \in Ticks : pc[k] = "idle" => pc'[k] = "idle"
<1>1. ASSUME Calm => LoopInv, [LoopNext]_loopVars
      PROVE  Quiet
  <2> SUFFICES ASSUME Calm, stopped, NEW k \in Ticks, pc[k] = "idle"
               PROVE  pc'[k] = "idle"
    OBVIOUS
  <2>0. LoopInv
    BY <1>1
  <2>1. armed = {}
    BY <2>0 DEF LoopInv
  <2>2. \A f \in Flows : f # k /\ (\E l : Goto(f, l)) => pc'[k] = pc[k]
    BY <2>0 DEF LoopInv, LoopTypeOK, Goto, Flows
  <2>3. QED
    BY <1>1, <2>0, <2>1, <2>2, LoopAssumption
    DEF LoopNext, Start, Stop, DigestComesDue, Tick, TickStraight, TickDigest, TickAllowed, DigestSent,
        VacuumThrows, Advance, Monitored, MonitorFails, Delivered, Finish, loopVars, Flows
<1>2. (Calm => LoopInv) /\ [LoopNext]_loopVars => [Quiet]_loopVars
  BY <1>1
<1>3. QED
  BY <1>2, LoopInvariant, PTL DEF LoopSpec, NoTickAfterStop

-----------------------------------------------------------------------------
(***************************************************************************)
(* The simulation cache.  pending and the flights are each other's inverse,*)
(* which is what keeps one flight per footprint; and a flight that no      *)
(* invalidation overtook has seen every extension before the last one, which*)
(* is what its entry inherits.                                             *)
(***************************************************************************)

(* Every flight is the pending one of its footprint. *)
FlightsArePending ==
  \A c \in Calls : InFlight(c) => pending[request[c].footprint] = c

(* A simulation sees the ledger as it is. *)
InvalidatedLanded == \A f \in Footprints : invalidated[f] <= extensions[f]

FlightsAreFresh ==
  \A c \in Calls : InFlight(c) /\ seen[c] # None /\ ~late[c]
    => invalidated[request[c].footprint] <= seen[c]

(* What a flight has seen is forgotten when it is over. *)
SeenOnlyInFlight == \A c \in Calls : seen[c] # None => InFlight(c)

CacheInv ==
  /\ CacheTypeOK
  /\ SeenOnlyInFlight
  /\ NoSettledPromise
  /\ FlightsArePending
  /\ WaitersHaveAFlight
  /\ InvalidatedLanded
  /\ FlightsAreFresh
  /\ StaleOnlyIfOvertaken

-----------------------------------------------------------------------------
LEMMA CacheInitInv == CacheInit => CacheInv
  BY CacheAssumption DEF CacheInit, CacheInv, SeenOnlyInFlight, CacheTypeOK, NoSettledPromise, FlightsArePending,
     WaitersHaveAFlight, InvalidatedLanded, FlightsAreFresh, StaleOnlyIfOvertaken, InFlight

(* A served answer changes nothing but the history. *)
LEMMA HitKeepsInv ==
  ASSUME CacheInv, NEW c \in Calls, NEW f \in Footprints, NEW s \in ContractStates, Hit(c, f, s)
  PROVE  CacheInv'
<1>1. UNCHANGED <<cache, flights, network>>
  BY DEF Hit
<1>2. hit' \in [asked : ContractStates, state : ContractStates]
  BY RecordAssumption DEF Hit, Reusable, CacheInv, CacheTypeOK, Entries
<1>3. QED
  BY <1>1, <1>2 DEF flights, network, CacheInv, SeenOnlyInFlight, CacheTypeOK, NoSettledPromise, FlightsArePending,
     WaitersHaveAFlight, InvalidatedLanded, FlightsAreFresh, StaleOnlyIfOvertaken, InFlight

(* Dropping an entry never makes another one stale. *)
LEMMA DropKeepsCache ==
  ASSUME CacheTypeOK, StaleOnlyIfOvertaken, NEW f \in Footprints, DropExpired(f), UNCHANGED invalidated
  PROVE  /\ cache' \in [Footprints -> Entries \cup {None}]
         /\ StaleOnlyIfOvertaken'
  BY DEF CacheTypeOK, StaleOnlyIfOvertaken, DropExpired

LEMMA JoinKeepsInv ==
  ASSUME CacheInv, NEW c \in Calls, NEW f \in Footprints, NEW s \in ContractStates, Join(c, f, s)
  PROVE  CacheInv'
<1> DEFINE r == [footprint |-> f, state |-> s]
<1> DEFINE p == pending[f]
<1>1. /\ request[c] = None /\ awaits[c] = None
      /\ request' = [request EXCEPT ![c] = r]
      /\ awaits' = [awaits EXCEPT ![c] = p]
      /\ UNCHANGED <<pending, seen, late, network>>
      /\ DropExpired(f) /\ hit' = None
  BY DEF Join, Ask, CacheInv, CacheTypeOK
<1>2. /\ p \in Calls /\ InFlight(p) /\ request[p].footprint = f
      /\ p # c
  BY <1>1, CacheAssumption DEF Join, CanJoin, CacheInv, CacheTypeOK, NoSettledPromise, InFlight
<1>3. r \in Requests /\ r # None /\ r.footprint = f
  BY RecordAssumption DEF Requests
<1>4. \A d \in Calls : InFlight(d)' <=> InFlight(d)
  BY <1>1, <1>2, CacheAssumption DEF CacheInv, CacheTypeOK, InFlight
<1>5. \A d \in Calls : InFlight(d) => request'[d] = request[d]
  BY <1>1, CacheAssumption DEF CacheInv, CacheTypeOK, InFlight
<1>6. CacheTypeOK'
  <2>1. request' \in [Calls -> Requests \cup {None}] /\ awaits' \in [Calls -> Calls \cup {None}]
    BY <1>1, <1>2, <1>3 DEF CacheInv, CacheTypeOK
  <2>2. \A d \in Calls : (request'[d] = None) = (awaits'[d] = None)
    BY <1>1, <1>2, <1>3, CacheAssumption DEF CacheInv, CacheTypeOK
  <2>3. cache' \in [Footprints -> Entries \cup {None}]
    BY <1>1, DropKeepsCache DEF network, CacheInv
  <2>4. QED
    BY <1>1, <2>1, <2>2, <2>3 DEF network, CacheInv, CacheTypeOK
<1>7. NoSettledPromise'
  BY <1>1, <1>4, <1>5 DEF CacheInv, CacheTypeOK, NoSettledPromise
<1>8. FlightsArePending'
  BY <1>1, <1>4, <1>5 DEF CacheInv, FlightsArePending
<1>9. WaitersHaveAFlight'
  <2> SUFFICES ASSUME NEW d \in Calls, awaits'[d] # None
      PROVE  \E e \in Calls : /\ e = awaits'[d] /\ awaits'[e] = e
                             /\ request'[e].footprint = request'[d].footprint
    BY DEF WaitersHaveAFlight, InFlight
  <2>1. CASE d = c
    <3>1. awaits'[d] = p /\ request'[d] = r
      BY <1>1, <2>1 DEF CacheInv, CacheTypeOK
    <3>2. awaits'[p] = p /\ request'[p] = request[p]
      BY <1>1, <1>2 DEF InFlight, CacheInv, CacheTypeOK
    <3>3. QED
      BY <3>1, <3>2, <1>2, <1>3
  <2>2. CASE d # c
    <3>1. awaits'[d] = awaits[d] /\ request'[d] = request[d]
      BY <1>1, <2>2 DEF CacheInv, CacheTypeOK
    <3>2. PICK e \in Calls : e = awaits[d] /\ InFlight(e) /\ request[e].footprint = request[d].footprint
      BY <3>1 DEF CacheInv, CacheTypeOK, WaitersHaveAFlight
    <3>3. QED
      BY <3>1, <3>2, <1>4, <1>5 DEF InFlight
  <2>3. QED
    BY <2>1, <2>2
<1>10. FlightsAreFresh'
  BY <1>1, <1>4, <1>5 DEF network, CacheInv, FlightsAreFresh
<1>11. SeenOnlyInFlight'
  BY <1>1, <1>4 DEF CacheInv, SeenOnlyInFlight
<1>12. InvalidatedLanded' /\ StaleOnlyIfOvertaken'
  BY <1>1, DropKeepsCache DEF network, CacheInv, InvalidatedLanded
<1>13. QED
  BY <1>6, <1>7, <1>8, <1>9, <1>10, <1>11, <1>12 DEF CacheInv

LEMMA FlyKeepsInv ==
  ASSUME CacheInv, NEW c \in Calls, NEW f \in Footprints, NEW s \in ContractStates, Fly(c, f, s)
  PROVE  CacheInv'
<1> DEFINE r == [footprint |-> f, state |-> s]
<1>1. /\ request[c] = None /\ awaits[c] = None /\ pending[f] = None
      /\ request' = [request EXCEPT ![c] = r]
      /\ awaits' = [awaits EXCEPT ![c] = c]
      /\ pending' = [pending EXCEPT ![f] = c]
      /\ UNCHANGED <<seen, late, network>>
      /\ DropExpired(f) /\ hit' = None
  BY DEF Fly, Ask, CanJoin, CacheInv, CacheTypeOK
<1>2. r \in Requests /\ r # None /\ r.footprint = f
  BY RecordAssumption DEF Requests
<1>3. \A d \in Calls \ {c} : /\ awaits'[d] = awaits[d] /\ awaits'[d] # c
                             /\ request'[d] = request[d]
  BY <1>1, CacheAssumption DEF CacheInv, CacheTypeOK, WaitersHaveAFlight, InFlight
<1>4. awaits'[c] = c /\ request'[c] = r
  BY <1>1 DEF CacheInv, CacheTypeOK
<1>5. \A d \in Calls \ {c} : InFlight(d) => request[d].footprint # f
  BY <1>1, CacheAssumption DEF CacheInv, FlightsArePending, InFlight
<1>6. CacheTypeOK'
  <2>1. request' \in [Calls -> Requests \cup {None}] /\ awaits' \in [Calls -> Calls \cup {None}]
    BY <1>1, <1>2 DEF CacheInv, CacheTypeOK
  <2>2. \A d \in Calls : (request'[d] = None) = (awaits'[d] = None)
    BY <1>2, <1>3, <1>4, CacheAssumption DEF CacheInv, CacheTypeOK
  <2>3. cache' \in [Footprints -> Entries \cup {None}] /\ pending' \in [Footprints -> Calls \cup {None}]
    BY <1>1, DropKeepsCache DEF network, CacheInv, CacheTypeOK
  <2>4. QED
    BY <1>1, <2>1, <2>2, <2>3 DEF network, CacheInv, CacheTypeOK
<1>7. NoSettledPromise'
  <2> SUFFICES ASSUME NEW g \in Footprints, pending'[g] # None
      PROVE  \E e \in Calls : /\ e = pending'[g] /\ awaits'[e] = e /\ request'[e].footprint = g
    BY DEF NoSettledPromise, InFlight
  <2>1. CASE g = f
    BY <1>1, <1>2, <1>4, <2>1 DEF CacheInv, CacheTypeOK
  <2>2. CASE g # f
    <3>1. PICK e \in Calls : e = pending[g] /\ InFlight(e) /\ request[e].footprint = g
      BY <1>1, <2>2 DEF CacheInv, CacheTypeOK, NoSettledPromise
    <3>2. e # c /\ pending'[g] = e
      BY <1>1, <2>2, <3>1, CacheAssumption DEF InFlight, CacheInv, CacheTypeOK
    <3>3. QED
      BY <1>3, <3>1, <3>2 DEF InFlight
  <2>3. QED
    BY <2>1, <2>2
<1>8. FlightsArePending'
  <2> SUFFICES ASSUME NEW d \in Calls, awaits'[d] = d
      PROVE  pending'[request'[d].footprint] = d
    BY DEF FlightsArePending, InFlight
  <2>1. CASE d = c
    BY <1>1, <1>2, <1>4, <2>1 DEF CacheInv, CacheTypeOK
  <2>2. CASE d # c
    <3>1. InFlight(d) /\ request'[d] = request[d] /\ request[d].footprint # f
      BY <1>3, <1>5, <2>2 DEF InFlight
    <3>2. QED
      BY <1>1, <3>1 DEF CacheInv, CacheTypeOK, FlightsArePending
  <2>3. QED
    BY <2>1, <2>2
<1>9. WaitersHaveAFlight'
  <2> SUFFICES ASSUME NEW d \in Calls, awaits'[d] # None
      PROVE  \E e \in Calls : /\ e = awaits'[d] /\ awaits'[e] = e
                             /\ request'[e].footprint = request'[d].footprint
    BY DEF WaitersHaveAFlight, InFlight
  <2>1. CASE d = c
    BY <1>4, <2>1
  <2>2. CASE d # c
    <3>1. PICK e \in Calls : e = awaits[d] /\ InFlight(e) /\ request[e].footprint = request[d].footprint
      BY <1>3, <2>2 DEF CacheInv, CacheTypeOK, WaitersHaveAFlight
    <3>2. QED
      BY <1>3, <2>2, <3>1 DEF InFlight
  <2>3. QED
    BY <2>1, <2>2
<1>10. FlightsAreFresh'
  <2> SUFFICES ASSUME NEW d \in Calls, awaits'[d] = d, seen'[d] # None, ~late'[d]
      PROVE  invalidated'[request'[d].footprint] <= seen'[d]
    BY DEF FlightsAreFresh, InFlight
  <2>1. d # c
    BY <1>1, CacheAssumption DEF CacheInv, SeenOnlyInFlight, InFlight
  <2>2. QED
    BY <1>1, <1>3, <2>1 DEF network, CacheInv, FlightsAreFresh, InFlight
<1>11. SeenOnlyInFlight'
  BY <1>1, <1>3, <1>4 DEF CacheInv, SeenOnlyInFlight, InFlight
<1>12. InvalidatedLanded' /\ StaleOnlyIfOvertaken'
  BY <1>1, DropKeepsCache DEF network, CacheInv, InvalidatedLanded
<1>13. QED
  BY <1>6, <1>7, <1>8, <1>9, <1>10, <1>11, <1>12 DEF CacheInv

LEMMA SimulateKeepsInv ==
  ASSUME CacheInv, NEW c \in Calls, Simulate(c)
  PROVE  CacheInv'
<1>1. /\ InFlight(c) /\ seen[c] = None
      /\ seen' = [seen EXCEPT ![c] = extensions[request[c].footprint]]
      /\ UNCHANGED <<cache, pending, request, awaits, late, network>> /\ hit' = None
  BY DEF Simulate
<1>2. request[c] \in Requests
  BY <1>1, CacheAssumption DEF InFlight, CacheInv, CacheTypeOK
<1>3. request[c].footprint \in Footprints
  BY <1>2 DEF Requests
<1>4. CacheTypeOK'
  BY <1>1, <1>3 DEF network, CacheInv, CacheTypeOK
<1>5. SeenOnlyInFlight'
  BY <1>1 DEF CacheInv, CacheTypeOK, SeenOnlyInFlight, InFlight
<1>6. NoSettledPromise' /\ FlightsArePending' /\ WaitersHaveAFlight'
  BY <1>1 DEF CacheInv, NoSettledPromise, FlightsArePending, WaitersHaveAFlight, InFlight
<1>7. InvalidatedLanded' /\ StaleOnlyIfOvertaken'
  BY <1>1 DEF network, CacheInv, InvalidatedLanded, StaleOnlyIfOvertaken
<1>8. FlightsAreFresh'
  BY <1>1, <1>3 DEF network, CacheInv, CacheTypeOK, InvalidatedLanded, FlightsAreFresh, InFlight
<1>9. QED
  BY <1>4, <1>5, <1>6, <1>7, <1>8 DEF CacheInv

-----------------------------------------------------------------------------
(* What settling a flight leaves of the calls and flights. *)
LEMMA SettledCalls ==
  ASSUME CacheInv, NEW c \in Calls, InFlight(c), Settle(c),
         pending' = [pending EXCEPT ![request[c].footprint] = None], UNCHANGED network
  PROVE  /\ request[c].footprint \in Footprints /\ request[c].state \in ContractStates
         /\ request' \in [Calls -> Requests \cup {None}]
         /\ awaits' \in [Calls -> Calls \cup {None}]
         /\ pending' \in [Footprints -> Calls \cup {None}]
         /\ seen' \in [Calls -> Nat \cup {None}] /\ late' \in [Calls -> BOOLEAN]
         /\ \A d \in Calls : (request'[d] = None) = (awaits'[d] = None)
         /\ SeenOnlyInFlight' /\ NoSettledPromise' /\ FlightsArePending'
         /\ WaitersHaveAFlight' /\ FlightsAreFresh'
<1>1. request[c] \in Requests
  BY CacheAssumption DEF InFlight, CacheInv, CacheTypeOK
<1>2. request[c].footprint \in Footprints /\ request[c].state \in ContractStates
  BY <1>1 DEF Requests
<1>3. /\ \A d \in Calls : awaits[d] = c => request'[d] = None /\ awaits'[d] = None
      /\ \A d \in Calls : awaits[d] # c => request'[d] = request[d] /\ awaits'[d] = awaits[d]
  BY DEF Settle, Waiters
<1>4. /\ request' \in [Calls -> Requests \cup {None}]
      /\ awaits' \in [Calls -> Calls \cup {None}]
  BY DEF Settle, CacheInv, CacheTypeOK
<1>5. pending' \in [Footprints -> Calls \cup {None}]
  BY DEF CacheInv, CacheTypeOK
<1>6. seen' \in [Calls -> Nat \cup {None}] /\ late' \in [Calls -> BOOLEAN]
  BY DEF Settle, Over, CacheInv, CacheTypeOK
<1>7. \A d \in Calls : (request'[d] = None) = (awaits'[d] = None)
  BY <1>3 DEF CacheInv, CacheTypeOK
<1>8. \A d \in Calls : awaits'[d] = d <=> InFlight(d) /\ d # c
  BY <1>3, CacheAssumption DEF InFlight
<1>9. \A d \in Calls : InFlight(d) /\ d # c =>
        /\ request'[d] = request[d] /\ request[d].footprint # request[c].footprint
        /\ seen'[d] = seen[d] /\ late'[d] = late[d]
  <2> SUFFICES ASSUME NEW d \in Calls, InFlight(d), d # c
      PROVE  /\ request'[d] = request[d] /\ request[d].footprint # request[c].footprint
             /\ seen'[d] = seen[d] /\ late'[d] = late[d]
    OBVIOUS
  <2>1. request'[d] = request[d]
    BY <1>3 DEF InFlight
  <2>2. request[d].footprint # request[c].footprint
    BY DEF CacheInv, FlightsArePending
  <2>3. seen'[d] = seen[d] /\ late'[d] = late[d]
    BY DEF Settle, Over, CacheInv, CacheTypeOK
  <2>4. QED
    BY <2>1, <2>2, <2>3
<1>10. SeenOnlyInFlight'
  <2> SUFFICES ASSUME NEW d \in Calls, seen'[d] # None
      PROVE  awaits'[d] = d
    BY DEF SeenOnlyInFlight, InFlight
  <2>1. d # c /\ seen[d] # None
    BY DEF Settle, Over, CacheInv, CacheTypeOK
  <2>2. QED
    BY <2>1, <1>8 DEF CacheInv, SeenOnlyInFlight
<1>11. NoSettledPromise'
  <2> SUFFICES ASSUME NEW g \in Footprints, pending'[g] # None
      PROVE  \E e \in Calls : /\ e = pending'[g] /\ awaits'[e] = e /\ request'[e].footprint = g
    BY DEF NoSettledPromise, InFlight
  <2>1. g # request[c].footprint /\ pending'[g] = pending[g]
    BY DEF CacheInv, CacheTypeOK
  <2>2. PICK e \in Calls : e = pending[g] /\ InFlight(e) /\ request[e].footprint = g
    BY <2>1 DEF CacheInv, CacheTypeOK, NoSettledPromise
  <2>3. QED
    BY <2>1, <2>2, <1>8, <1>9
<1>12. FlightsArePending'
  <2> SUFFICES ASSUME NEW d \in Calls, awaits'[d] = d
      PROVE  pending'[request'[d].footprint] = d
    BY DEF FlightsArePending, InFlight
  <2>1. /\ InFlight(d) /\ request'[d] = request[d]
        /\ request[d].footprint # request[c].footprint
    BY <1>8, <1>9
  <2>2. request[d] \in Requests
    BY <2>1, CacheAssumption DEF InFlight, CacheInv, CacheTypeOK
  <2>3. pending'[request[d].footprint] = pending[request[d].footprint]
    BY <2>1, <2>2 DEF Requests, CacheInv, CacheTypeOK
  <2>4. QED
    BY <2>1, <2>3 DEF CacheInv, FlightsArePending
<1>13. WaitersHaveAFlight'
  <2> SUFFICES ASSUME NEW d \in Calls, awaits'[d] # None
      PROVE  \E e \in Calls : /\ e = awaits'[d] /\ awaits'[e] = e
                             /\ request'[e].footprint = request'[d].footprint
    BY DEF WaitersHaveAFlight, InFlight
  <2>1. awaits[d] # c /\ awaits'[d] = awaits[d] /\ request'[d] = request[d]
    BY <1>3
  <2>2. PICK e \in Calls : e = awaits[d] /\ InFlight(e) /\ request[e].footprint = request[d].footprint
    BY <2>1 DEF CacheInv, CacheTypeOK, WaitersHaveAFlight
  <2>3. QED
    BY <2>1, <2>2, <1>8, <1>9
<1>14. FlightsAreFresh'
  BY <1>8, <1>9 DEF network, CacheInv, FlightsAreFresh, InFlight
<1>15. QED
  BY <1>2, <1>4, <1>5, <1>6, <1>7, <1>10, <1>11, <1>12, <1>13, <1>14

LEMMA ReturnKeepsInv ==
  ASSUME CacheInv, NEW c \in Calls, Return(c)
  PROVE  CacheInv'
<1> DEFINE f == request[c].footprint
<1> DEFINE e == [state |-> request[c].state, seen |-> seen[c], late |-> late[c], expired |-> FALSE]
<1>1. /\ InFlight(c) /\ seen[c] # None
      /\ cache' = [cache EXCEPT ![f] = e]
      /\ pending' = [pending EXCEPT ![f] = None]
      /\ Settle(c) /\ UNCHANGED network
  BY DEF Return
<1>2. /\ f \in Footprints /\ request[c].state \in ContractStates
      /\ request' \in [Calls -> Requests \cup {None}]
      /\ awaits' \in [Calls -> Calls \cup {None}]
      /\ pending' \in [Footprints -> Calls \cup {None}]
      /\ seen' \in [Calls -> Nat \cup {None}] /\ late' \in [Calls -> BOOLEAN]
      /\ \A d \in Calls : (request'[d] = None) = (awaits'[d] = None)
      /\ SeenOnlyInFlight' /\ NoSettledPromise' /\ FlightsArePending'
      /\ WaitersHaveAFlight' /\ FlightsAreFresh'
  BY <1>1, SettledCalls
<1>3. e \in Entries
  BY <1>1, <1>2 DEF CacheInv, CacheTypeOK, Entries
<1>4. CacheTypeOK'
  BY <1>1, <1>2, <1>3 DEF Settle, Over, network, CacheInv, CacheTypeOK
<1>5. ~late[c] => invalidated[f] <= seen[c]
  BY <1>1 DEF CacheInv, FlightsAreFresh
<1>6. StaleOnlyIfOvertaken'
  <2> SUFFICES ASSUME NEW g \in Footprints, cache'[g] # None, cache'[g].seen < invalidated[g]
      PROVE  cache'[g].late
    BY <1>1 DEF network, StaleOnlyIfOvertaken
  <2>1. CASE g = f
    <3>1. cache'[g] = e
      BY <1>1, <2>1 DEF CacheInv, CacheTypeOK
    <3>2. seen[c] \in Nat /\ invalidated[f] \in Nat
      BY <1>1, <1>2 DEF CacheInv, CacheTypeOK
    <3>3. seen[c] < invalidated[f]
      BY <2>1, <3>1
    <3>4. late[c] = TRUE
      BY <1>5, <3>2, <3>3 DEF CacheInv, CacheTypeOK
    <3>5. QED
      BY <3>1, <3>4
  <2>2. CASE g # f
    BY <1>1, <2>2 DEF CacheInv, CacheTypeOK, StaleOnlyIfOvertaken
  <2>3. QED
    BY <2>1, <2>2
<1>7. InvalidatedLanded'
  BY <1>1 DEF network, CacheInv, InvalidatedLanded
<1>8. QED
  BY <1>2, <1>4, <1>6, <1>7 DEF CacheInv

LEMMA FailKeepsInv ==
  ASSUME CacheInv, NEW c \in Calls, Fail(c)
  PROVE  CacheInv'
<1>1. /\ InFlight(c) /\ Settle(c) /\ UNCHANGED cache /\ UNCHANGED network
      /\ pending' = [pending EXCEPT ![request[c].footprint] = None]
  BY DEF Fail
<1>2. /\ request' \in [Calls -> Requests \cup {None}]
      /\ awaits' \in [Calls -> Calls \cup {None}]
      /\ pending' \in [Footprints -> Calls \cup {None}]
      /\ seen' \in [Calls -> Nat \cup {None}] /\ late' \in [Calls -> BOOLEAN]
      /\ \A d \in Calls : (request'[d] = None) = (awaits'[d] = None)
      /\ SeenOnlyInFlight' /\ NoSettledPromise' /\ FlightsArePending'
      /\ WaitersHaveAFlight' /\ FlightsAreFresh'
  BY <1>1, SettledCalls
<1>3. CacheTypeOK'
  BY <1>1, <1>2 DEF Settle, Over, network, CacheInv, CacheTypeOK
<1>4. InvalidatedLanded' /\ StaleOnlyIfOvertaken'
  BY <1>1 DEF network, CacheInv, InvalidatedLanded, StaleOnlyIfOvertaken
<1>5. QED
  BY <1>2, <1>3, <1>4 DEF CacheInv

-----------------------------------------------------------------------------
LEMMA ExpireKeepsInv ==
  ASSUME CacheInv, NEW f \in Footprints, Expire(f)
  PROVE  CacheInv'
<1>1. /\ cache[f] # None /\ cache' = [cache EXCEPT ![f].expired = TRUE]
      /\ UNCHANGED <<flights, network>> /\ hit' = None
  BY DEF Expire
<1>2. cache[f] \in Entries
  BY <1>1 DEF CacheInv, CacheTypeOK
<1>3. cache'[f] \in Entries /\ cache'[f].seen = cache[f].seen /\ cache'[f].late = cache[f].late
  BY <1>1, <1>2 DEF CacheInv, CacheTypeOK, Entries
<1>4. CacheTypeOK'
  BY <1>1, <1>3 DEF flights, network, CacheInv, CacheTypeOK
<1>5. StaleOnlyIfOvertaken'
  <2> SUFFICES ASSUME NEW g \in Footprints, cache'[g] # None, cache'[g].seen < invalidated[g]
      PROVE  cache'[g].late
    BY <1>1 DEF network, StaleOnlyIfOvertaken
  <2>1. CASE g = f
    BY <1>1, <1>3, <2>1 DEF CacheInv, StaleOnlyIfOvertaken
  <2>2. CASE g # f
    BY <1>1, <2>2 DEF CacheInv, CacheTypeOK, StaleOnlyIfOvertaken
  <2>3. QED
    BY <2>1, <2>2
<1>6. QED
  BY <1>1, <1>4, <1>5 DEF flights, network, CacheInv, SeenOnlyInFlight, NoSettledPromise, FlightsArePending,
     WaitersHaveAFlight, InvalidatedLanded, FlightsAreFresh, InFlight

LEMMA ExtendKeepsInv ==
  ASSUME CacheInv, NEW f \in Footprints, Extend(f)
  PROVE  CacheInv'
<1>1. /\ extensions' = [extensions EXCEPT ![f] = @ + 1]
      /\ owed' \in {owed, [owed EXCEPT ![f] = @ + 1]}
      /\ UNCHANGED <<cache, flights, invalidated>> /\ hit' = None
  BY DEF Extend
<1>2. extensions' \in [Footprints -> Nat] /\ InvalidatedLanded'
  BY <1>1 DEF CacheInv, CacheTypeOK, InvalidatedLanded
<1>3. owed' \in [Footprints -> Nat]
  BY <1>1 DEF CacheInv, CacheTypeOK
<1>4. CacheTypeOK'
  BY <1>1, <1>2, <1>3 DEF flights, CacheInv, CacheTypeOK
<1>5. QED
  BY <1>1, <1>2, <1>4 DEF flights, CacheInv, SeenOnlyInFlight, NoSettledPromise, FlightsArePending,
     WaitersHaveAFlight, FlightsAreFresh, StaleOnlyIfOvertaken, InFlight

LEMMA InvalidateKeepsInv ==
  ASSUME CacheInv, NEW f \in Footprints, Invalidate(f)
  PROVE  CacheInv'
<1>1. /\ owed[f] > 0 /\ owed' = [owed EXCEPT ![f] = @ - 1]
      /\ cache' = [cache EXCEPT ![f] = None]
      /\ invalidated' = [invalidated EXCEPT ![f] = extensions[f]]
      /\ late' = [c \in Calls |-> late[c] \/ (InFlight(c) /\ request[c].footprint = f)]
      /\ UNCHANGED <<pending, request, awaits, seen, extensions>> /\ hit' = None
  BY DEF Invalidate, DropEntry
<1>2. owed' \in [Footprints -> Nat]
  BY <1>1 DEF CacheInv, CacheTypeOK
<1>3. invalidated' \in [Footprints -> Nat] /\ InvalidatedLanded'
  BY <1>1 DEF CacheInv, CacheTypeOK, InvalidatedLanded
<1>4. late' \in [Calls -> BOOLEAN]
  BY <1>1 DEF CacheInv, CacheTypeOK
<1>5. cache' \in [Footprints -> Entries \cup {None}]
  BY <1>1 DEF CacheInv, CacheTypeOK
<1>6. CacheTypeOK'
  BY <1>1, <1>2, <1>3, <1>4, <1>5 DEF CacheInv, CacheTypeOK
<1>7. FlightsAreFresh'
  <2> SUFFICES ASSUME NEW c \in Calls, awaits[c] = c, seen[c] # None, ~late'[c]
      PROVE  invalidated'[request[c].footprint] <= seen[c]
    BY <1>1 DEF FlightsAreFresh, InFlight
  <2>1. ~late[c] /\ request[c].footprint # f
    BY <1>1 DEF InFlight
  <2>2. invalidated[request[c].footprint] <= seen[c]
    BY <2>1 DEF CacheInv, FlightsAreFresh, InFlight
  <2>3. invalidated'[request[c].footprint] = invalidated[request[c].footprint]
    BY <1>1, <2>1 DEF CacheInv, CacheTypeOK
  <2>4. QED
    BY <2>2, <2>3
<1>8. StaleOnlyIfOvertaken'
  BY <1>1 DEF CacheInv, CacheTypeOK, StaleOnlyIfOvertaken
<1>9. QED
  BY <1>1, <1>3, <1>6, <1>7, <1>8 DEF CacheInv, SeenOnlyInFlight, NoSettledPromise, FlightsArePending,
     WaitersHaveAFlight, InFlight

-----------------------------------------------------------------------------
LEMMA StutterKeepsInv ==
  ASSUME CacheInv, UNCHANGED cacheVars
  PROVE  CacheInv'
BY DEF cacheVars, flights, network, CacheInv, CacheTypeOK, SeenOnlyInFlight, NoSettledPromise, FlightsArePending,
   WaitersHaveAFlight, InvalidatedLanded, FlightsAreFresh, StaleOnlyIfOvertaken, InFlight

LEMMA NextKeepsInv ==
  ASSUME CacheInv, CacheNext
  PROVE  CacheInv'
<1>1. CASE \E c \in Calls, f \in Footprints, s \in ContractStates : Hit(c, f, s)
  BY <1>1, HitKeepsInv
<1>2. CASE \E c \in Calls, f \in Footprints, s \in ContractStates : Join(c, f, s)
  BY <1>2, JoinKeepsInv
<1>3. CASE \E c \in Calls, f \in Footprints, s \in ContractStates : Fly(c, f, s)
  BY <1>3, FlyKeepsInv
<1>4. CASE \E c \in Calls : Simulate(c)
  BY <1>4, SimulateKeepsInv
<1>5. CASE \E c \in Calls : Return(c)
  BY <1>5, ReturnKeepsInv
<1>6. CASE \E c \in Calls : Fail(c)
  BY <1>6, FailKeepsInv
<1>7. CASE \E f \in Footprints : Expire(f)
  BY <1>7, ExpireKeepsInv
<1>8. CASE \E f \in Footprints : Extend(f)
  BY <1>8, ExtendKeepsInv
<1>9. CASE \E f \in Footprints : Invalidate(f)
  BY <1>9, InvalidateKeepsInv
<1>10. QED
  BY <1>1, <1>2, <1>3, <1>4, <1>5, <1>6, <1>7, <1>8, <1>9 DEF CacheNext

(* The inductive invariant of the cache (simulation_cache.ts:70-130). *)
THEOREM CacheInvariant == CacheSpec => []CacheInv
<1>1. CacheInv /\ [CacheNext]_cacheVars => CacheInv'
  BY NextKeepsInv, StutterKeepsInv
<1>2. QED
  BY CacheInitInv, <1>1, PTL DEF CacheSpec

(* The cache, the flights and the ledger are well formed. *)
THEOREM CacheTypeCorrect == CacheSpec => []CacheTypeOK
<1>1. CacheInv => CacheTypeOK
  BY DEF CacheInv
<1>2. QED
  BY CacheInvariant, <1>1, PTL

(* However many calls there are, one simulation of a footprint is in       *)
(* flight at a time.                                                       *)
THEOREM OneSimulationAtATime == CacheSpec => []OneFlightPerFootprint
<1>1. CacheInv => OneFlightPerFootprint
  BY DEF CacheInv, FlightsArePending, OneFlightPerFootprint
<1>2. QED
  BY CacheInvariant, <1>1, PTL

(* No settled promise is left in pending, and nobody waits for one.        *)
THEOREM NobodyWaitsInVain == CacheSpec => [](NoSettledPromise /\ WaitersHaveAFlight)
<1>1. CacheInv => NoSettledPromise /\ WaitersHaveAFlight
  BY DEF CacheInv
<1>2. QED
  BY CacheInvariant, <1>1, PTL

(* What the cache holds is as new as the last invalidation of its          *)
(* footprint, unless that invalidation overtook the simulation.            *)
THEOREM StalenessComesFromOvertaking == CacheSpec => []StaleOnlyIfOvertaken
<1>1. CacheInv => StaleOnlyIfOvertaken
  BY DEF CacheInv
<1>2. QED
  BY CacheInvariant, <1>1, PTL

(* An answer served from the cache is of the contract and wasm asked for. *)
THEOREM HitsAreRight == CacheSpec => []HitsAreOfTheSameState
<1>1. CacheInit => HitsAreOfTheSameState
  BY DEF CacheInit, HitsAreOfTheSameState
<1>2. ASSUME HitsAreOfTheSameState, [CacheNext]_cacheVars
      PROVE  HitsAreOfTheSameState'
  <2>1. ASSUME NEW c \in Calls, NEW f \in Footprints, NEW s \in ContractStates, Hit(c, f, s)
        PROVE  HitsAreOfTheSameState'
    BY <2>1 DEF Hit, Reusable, HitsAreOfTheSameState
  <2>2. hit' = None => HitsAreOfTheSameState'
    BY DEF HitsAreOfTheSameState
  <2>3. ASSUME NEW c \in Calls, NEW f \in Footprints, NEW s \in ContractStates,
               Join(c, f, s) \/ Fly(c, f, s)
        PROVE  hit' = None
    BY <2>3 DEF Join, Fly
  <2>4. ASSUME NEW c \in Calls, Simulate(c) \/ Return(c) \/ Fail(c)
        PROVE  hit' = None
    BY <2>4 DEF Simulate, Return, Fail, Settle, Over
  <2>5. ASSUME NEW f \in Footprints, Expire(f) \/ Extend(f) \/ Invalidate(f)
        PROVE  hit' = None
    BY <2>5 DEF Expire, Extend, Invalidate
  <2>6. CASE UNCHANGED cacheVars
    BY <1>2, <2>6 DEF cacheVars, HitsAreOfTheSameState
  <2>7. QED
    BY <1>2, <2>1, <2>2, <2>3, <2>4, <2>5, <2>6 DEF CacheNext
<1>3. QED
  BY <1>1, <1>2, PTL DEF CacheSpec
=============================================================================
