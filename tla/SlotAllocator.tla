--------------------------- MODULE SlotAllocator ---------------------------
(***************************************************************************)
(* What the channel account pool promises to the extension tasks of one    *)
(* daemon cycle, without saying how it finds a slot or orders the waiters: *)
(* an account is lent to one task at a time, a task that cannot be served  *)
(* waits, and an account given back while somebody waits changes hands in  *)
(* the same step.                                                          *)
(***************************************************************************)
CONSTANTS Tasks, Slots, NoSlot

VARIABLES
  held,     \* held[t]: the account lent to task t, NoSlot when it has none
  waiting   \* the tasks blocked on an account

avars == <<held, waiting>>

Lent == {held[t] : t \in Tasks} \ {NoSlot}

AInit ==
  /\ held = [t \in Tasks |-> NoSlot]
  /\ waiting = {}

(* A free account goes to a task that holds none. *)
Lend(t, s) ==
  /\ held[t] = NoSlot /\ t \notin waiting
  /\ s \in Slots \ Lent
  /\ held' = [held EXCEPT ![t] = s]
  /\ UNCHANGED waiting

(* A task waits only when nothing is left to lend. *)
Block(t) ==
  /\ held[t] = NoSlot /\ t \notin waiting
  /\ Slots \subseteq Lent
  /\ waiting' = waiting \cup {t}
  /\ UNCHANGED held

(* An account comes back and nobody waits for it. *)
GiveBack(t) ==
  /\ held[t] # NoSlot
  /\ waiting = {}
  /\ held' = [held EXCEPT ![t] = NoSlot]
  /\ UNCHANGED waiting

(* An account comes back and a waiting task leaves with a free one. *)
HandOver(t, u, s) ==
  /\ held[t] # NoSlot
  /\ u \in waiting
  /\ s \in Slots \ (Lent \ {held[t]})
  /\ held' = [held EXCEPT ![t] = NoSlot, ![u] = s]
  /\ waiting' = waiting \ {u}

ANext ==
  \E t \in Tasks :
    \/ Block(t)
    \/ GiveBack(t)
    \/ \E s \in Slots : Lend(t, s)
    \/ \E u \in Tasks, s \in Slots : HandOver(t, u, s)

ASpec == AInit /\ [][ANext]_avars
=============================================================================
