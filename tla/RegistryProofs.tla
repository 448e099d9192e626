----------------------------- MODULE RegistryProofs -----------------------------
(***************************************************************************)
(* Proofs about Registry, for any contracts, networks, watchers and tag    *)
(* commands.  The properties speak of what a watch has written; they are   *)
(* inductive together with what a watch has left to write (Progress: the   *)
(* contract comes first and the instance second) and with what a watch     *)
(* that was overtaken may still do harm to (Stamps).                       *)
(***************************************************************************)
EXTENDS Registry, TLAPS

Steps == {"contract", "instance", "wasm", "manual", "introspected keys", "introspected"}

WatchState ==
  [at : {"idle", "asking", "writing"} \cup Ended, contract : Contracts \cup {None},
   network : Networks \cup {None}, asks : SUBSET (Optional \cup {"unmappable"}),
   todo : SUBSET Steps, done : SUBSET Steps]

Edit == [contract : Contracts, tags : SUBSET Tags]

TableTypes ==
  /\ contract \in [Contracts -> Row \cup {None}]
  /\ tags \in [Contracts -> SUBSET Tags]
  /\ entries \in [Contracts -> SUBSET EntryKinds]
  /\ groups \subseteq Groups /\ members \subseteq Groups \X Contracts
  /\ overtaken \subseteq Watchers /\ torn \subseteq Contracts

CommandTypes ==
  /\ watch \in [Watchers -> WatchState]
  /\ edit \in [Taggers -> Edit \cup {None}]

(* What a watch has done, and what it has left: the contract, the instance *)
(* and the mark of the introspection are each written once, in this order. *)
Progress(s) ==
  /\ s.at \in {"asking", "writing", "stored"} /\ s.done = {} => s.at # "stored"
  /\ s.at \in {"asking", "writing"} \/ s.done # {} => s.contract \in Contracts /\ s.network \in Networks
  /\ s.at \notin {"writing", "stored"} => s.done = {}
  /\ s.at = "stored" => {"contract", "instance"} \subseteq s.done
  /\ s.at = "writing" =>
       /\ s.todo # {}
       /\ s.done # {} => "contract" \in s.done
       /\ "contract" \in s.todo <=> s.done = {}
       /\ "instance" \in s.todo \/ "instance" \in s.done

(* A watch that goes on to count its contract as introspected has seen its *)
(* instance stored, and if it is gone the contract is torn.                *)
Stamps ==
  \A w \in Watchers :
    watch[w].at = "writing" /\ "instance" \in watch[w].done =>
      "instance" \in entries[watch[w].contract] \/ watch[w].contract \in torn

IInv ==
  /\ TableTypes /\ CommandTypes
  /\ \A w \in Watchers : Progress(watch[w])
  /\ Stamps
  /\ ReferencesHold /\ WritesHold /\ CacheIsHonest

-----------------------------------------------------------------------------
LEMMA RowOf ==
  ASSUME NEW n \in Networks, NEW a \in BOOLEAN, NEW f \in BOOLEAN
  PROVE  /\ [network |-> n, active |-> a, fresh |-> f] \in Row
         /\ [network |-> n, active |-> a, fresh |-> f] # None
<1>1. [network |-> n, active |-> a, fresh |-> f] \in Row
  BY DEF Row
<1> QED  BY <1>1, RegistryAssumption DEF Row

LEMMA RowFresh ==
  ASSUME NEW r \in Row, NEW f \in BOOLEAN
  PROVE  /\ [r EXCEPT !.fresh = f] \in Row /\ [r EXCEPT !.fresh = f] # None
         /\ [r EXCEPT !.fresh = f].network = r.network
         /\ [r EXCEPT !.fresh = f].active = r.active
         /\ [r EXCEPT !.fresh = f].fresh = f
<1>1. [r EXCEPT !.fresh = f] \in Row
  BY DEF Row
<1>2. /\ [r EXCEPT !.fresh = f].network = r.network
      /\ [r EXCEPT !.fresh = f].active = r.active
      /\ [r EXCEPT !.fresh = f].fresh = f
  BY DEF Row
<1> QED  BY <1>1, <1>2, RegistryAssumption DEF Row

(* Rank step by step (of a variable: the provers type a literal otherwise) *)
LEMMA Ranks ==
  ASSUME NEW k \in Steps
  PROVE  \/ k = "contract" /\ Rank(k) = 1
         \/ k = "instance" /\ Rank(k) = 2
         \/ k = "wasm" /\ Rank(k) = 3
         \/ k = "manual" /\ Rank(k) = 4
         \/ k = "introspected keys" /\ Rank(k) = 5
         \/ k = "introspected" /\ Rank(k) = 6
BY DEF Rank, Steps

LEMMA RankOne ==
  ASSUME NEW k \in Steps, Rank(k) = 1
  PROVE  k = "contract"
<1>1. k # "contract" => Rank(k) \in {2, 3, 4, 5, 6}
  BY Ranks
<1> DEFINE r == Rank(k)
<1>2. r = 1 /\ (k # "contract" => r \in {2, 3, 4, 5, 6})
  BY <1>1
<1> HIDE DEF r
<1> QED  BY <1>2

LEMMA Order ==
  ASSUME NEW a, NEW b,
         \/ a = 1 /\ b \in {1, 2, 3, 4, 5, 6}
         \/ a = 2 /\ b \in {2, 3, 4, 5, 6}
         \/ a = 3 /\ b \in {3, 4, 5, 6}
         \/ a = 4 /\ b \in {4, 5, 6}
         \/ a = 5 /\ b \in {5, 6}
         \/ a = 6 /\ b = 6
  PROVE  a <= b
OBVIOUS

(* The least of a set of steps by rank *)
LEMMA FirstIsLeast ==
  ASSUME NEW todo \in SUBSET Steps, todo # {}
  PROVE  /\ First(todo) \in todo
         /\ "contract" \in todo => First(todo) = "contract"
         /\ First(todo) = "introspected" => "instance" \notin todo
<1>1. \E k \in todo : \A j \in todo : Rank(k) <= Rank(j)
  <2> PICK k \in todo : \/ k = "contract"
                        \/ "contract" \notin todo /\ k = "instance"
                        \/ {"contract", "instance"} \cap todo = {} /\ k = "wasm"
                        \/ {"contract", "instance", "wasm"} \cap todo = {} /\ k = "manual"
                        \/ {"contract", "instance", "wasm", "manual"} \cap todo = {} /\ k = "introspected keys"
                        \/ todo = {"introspected"} /\ k = "introspected"
    BY DEF Steps
  <2> SUFFICES ASSUME NEW j \in todo  PROVE Rank(k) <= Rank(j)
    OBVIOUS
  <2>1. k \in Steps /\ j \in Steps
    OBVIOUS
  <2>2. \/ Rank(k) = 1 /\ Rank(j) \in {1, 2, 3, 4, 5, 6}
        \/ Rank(k) = 2 /\ Rank(j) \in {2, 3, 4, 5, 6}
        \/ Rank(k) = 3 /\ Rank(j) \in {3, 4, 5, 6}
        \/ Rank(k) = 4 /\ Rank(j) \in {4, 5, 6}
        \/ Rank(k) = 5 /\ Rank(j) \in {5, 6}
        \/ Rank(k) = 6 /\ Rank(j) = 6
    BY <2>1, Ranks
  <2> QED  BY <2>2, Order
<1>2. First(todo) \in todo /\ \A j \in todo : Rank(First(todo)) <= Rank(j)
  BY <1>1 DEF First
<1> DEFINE f == First(todo)
<1>3. f \in Steps
  BY <1>2
<1> HIDE DEF f
<1>4. ASSUME "contract" \in todo  PROVE f = "contract"
  <2>1. Rank(f) <= 1
    <3>1. \A j \in todo : j = "contract" => Rank(f) <= 1
      BY <1>2, Ranks DEF f
    <3> QED  BY <1>4, <3>1
  <2>2. Rank(f) \in {1, 2, 3, 4, 5, 6}
    BY <1>3, Ranks
  <2>3. Rank(f) = 1
    BY <2>1, <2>2
  <2> QED  BY <1>3, <2>3, RankOne
<1>5. ASSUME f = "introspected", "instance" \in todo  PROVE FALSE
  <2>1. Rank(f) = 6
    BY <1>3, <1>5, Ranks
  <2>2. Rank(f) <= 2
    <3>1. \A j \in todo : j = "instance" => Rank(f) <= 2
      BY <1>2, Ranks DEF f
    <3> QED  BY <1>5, <3>1
  <2> QED  BY <2>1, <2>2
<1> QED  BY <1>2, <1>4, <1>5 DEF f

LEMMA InitInv == Init => IInv
BY DEF Init, IInv, TableTypes, CommandTypes, Progress, Stamps, ReferencesHold, WritesHold,
       CacheIsHonest, NoWatch, WatchState, Registered, Ended

-----------------------------------------------------------------------------
(* A watch begins, is answered, or ends: it writes nothing. *)
LEMMA WatchMoves ==
  ASSUME IInv, NEW w \in Watchers,
         UNCHANGED <<contract, tags, entries, groups, members, edit, torn>>,
         watch' \in [Watchers -> WatchState],
         \A v \in Watchers \ {w} : watch'[v] = watch[v],
         Progress(watch'[w]), watch'[w].done = {},
         overtaken' \in {overtaken, overtaken \ {w}}
  PROVE  IInv'
<1>1. TableTypes' /\ CommandTypes' /\ ReferencesHold' /\ CacheIsHonest'
  BY DEF IInv, TableTypes, CommandTypes, ReferencesHold, CacheIsHonest, Registered
<1>2. \A v \in Watchers : Progress(watch'[v])
  BY DEF IInv
<1>3. Stamps' /\ WritesHold'
  BY DEF IInv, Stamps, WritesHold, Registered
<1> QED  BY <1>1, <1>2, <1>3 DEF IInv, Progress

LEMMA IdleProgress ==
  ASSUME NEW a \in {"idle", "cached", "failed"}
  PROVE  /\ [NoWatch EXCEPT !.at = a] \in WatchState
         /\ Progress([NoWatch EXCEPT !.at = a]) /\ [NoWatch EXCEPT !.at = a].done = {}
BY DEF NoWatch, WatchState, Progress, Ended

LEMMA BeforeWriting ==
  ASSUME IInv, NEW w \in Watchers,
         Watch(w) \/ WatchFails(w) \/ WatchFetched(w) \/ WatcherDies(w) \/ WatchReturns(w)
  PROVE  IInv'
<1>0. watch \in [Watchers -> WatchState] /\ Progress(watch[w])
  BY DEF IInv, CommandTypes
<1>1. CASE Watch(w)
  <2>1. PICK c \in Contracts, n \in Networks, asks \in Asks :
          watch' = [watch EXCEPT ![w] =
            IF Registered(c) /\ contract[c].fresh THEN [NoWatch EXCEPT !.at = "cached"]
            ELSE [NoWatch EXCEPT !.at = "asking", !.contract = c, !.network = n, !.asks = asks]]
    BY <1>1 DEF Watch
  <2> DEFINE s == [NoWatch EXCEPT !.at = "asking", !.contract = c, !.network = n, !.asks = asks]
  <2>2. s \in WatchState /\ Progress(s) /\ s.done = {}
    BY DEF NoWatch, WatchState, Progress, Asks
  <2>3. /\ watch'[w] \in {s, [NoWatch EXCEPT !.at = "cached"]}
        /\ watch' \in [Watchers -> WatchState]
        /\ \A v \in Watchers \ {w} : watch'[v] = watch[v]
    BY <1>0, <2>1, <2>2, IdleProgress
  <2>4. UNCHANGED <<contract, tags, entries, groups, members, edit, torn>> /\ overtaken' = overtaken
    BY <1>1 DEF Watch, marks
  <2>5. Progress(watch'[w]) /\ watch'[w].done = {}
    BY <2>2, <2>3, IdleProgress
  <2> HIDE DEF s
  <2> QED  BY <2>3, <2>4, <2>5, WatchMoves
<1>2. CASE WatchFails(w) \/ WatcherDies(w)
  <2>1. watch' = [watch EXCEPT ![w] = [NoWatch EXCEPT !.at = "failed"]]
    BY <1>2 DEF WatchFails, WatcherDies, Fails
  <2>2. /\ watch'[w] = [NoWatch EXCEPT !.at = "failed"]
        /\ watch' \in [Watchers -> WatchState]
        /\ \A v \in Watchers \ {w} : watch'[v] = watch[v]
    BY <1>0, <2>1, IdleProgress
  <2>3. UNCHANGED <<contract, tags, entries, groups, members, edit, torn>> /\ overtaken' = overtaken
    BY <1>2 DEF WatchFails, WatcherDies, marks
  <2>4. Progress(watch'[w]) /\ watch'[w].done = {}
    BY <2>2, IdleProgress
  <2> QED  BY <2>2, <2>3, <2>4, WatchMoves
<1>3. CASE WatchFetched(w)
  <2>1. PICK found \in SUBSET Optional :
          /\ watch[w].at = "asking"
          /\ watch' = [watch EXCEPT ![w].at = "writing", ![w].todo = Writes(found), ![w].asks = {}]
    BY <1>3 DEF WatchFetched
  <2>2. Writes(found) \in SUBSET Steps /\ {"contract", "instance"} \subseteq Writes(found)
    BY RegistryAssumption DEF Writes, Steps
  <2> DEFINE s == [watch[w] EXCEPT !.at = "writing", !.todo = Writes(found), !.asks = {}]
  <2>7. s \in WatchState
    BY <1>0, <2>2 DEF WatchState
  <2>8. watch' = [watch EXCEPT ![w] = s]
    BY <1>0, <2>1
  <2> HIDE DEF s
  <2>3. /\ watch'[w] = s
        /\ watch' \in [Watchers -> WatchState]
        /\ \A v \in Watchers \ {w} : watch'[v] = watch[v]
    BY <1>0, <2>7, <2>8
  <2>4. watch[w] \in WatchState
    BY <1>0
  <2>5. Progress(watch'[w]) /\ watch'[w].done = {}
    BY <1>0, <2>1, <2>2, <2>3, <2>4 DEF Progress, WatchState, s
  <2> QED  BY <1>3, <2>3, <2>5, WatchMoves DEF WatchFetched, marks
<1>4. CASE WatchReturns(w)
  <2>1. watch' = [watch EXCEPT ![w] = NoWatch]
    BY <1>4 DEF WatchReturns
  <2>2. NoWatch = [NoWatch EXCEPT !.at = "idle"]
    BY DEF NoWatch
  <2>3. /\ watch'[w] = NoWatch
        /\ watch' \in [Watchers -> WatchState]
        /\ \A v \in Watchers \ {w} : watch'[v] = watch[v]
    BY <1>0, <2>1, <2>2, IdleProgress
  <2> QED  BY <1>4, <2>2, <2>3, IdleProgress, WatchMoves DEF WatchReturns
<1> QED  BY <1>1, <1>2, <1>3, <1>4

-----------------------------------------------------------------------------
Written(s) ==
  LET k == First(s.todo) IN
    [s EXCEPT !.todo = @ \ {k}, !.done = @ \cup {k},
              !.at = IF s.todo = {k} THEN "stored" ELSE @]

LEMMA WrittenFields ==
  ASSUME NEW s \in WatchState, s.at = "writing", s.todo # {}
  PROVE  /\ Written(s) \in WatchState
         /\ Written(s).contract = s.contract /\ Written(s).network = s.network
         /\ Written(s).todo = s.todo \ {First(s.todo)}
         /\ Written(s).done = s.done \cup {First(s.todo)}
         /\ Written(s).at = IF s.todo = {First(s.todo)} THEN "stored" ELSE "writing"
<1>1. First(s.todo) \in Steps /\ s.todo \in SUBSET Steps /\ s.done \in SUBSET Steps
  BY FirstIsLeast DEF WatchState
<1> DEFINE k == First(s.todo)
<1> HIDE DEF k
<1>2. Written(s) = [s EXCEPT !.todo = @ \ {k}, !.done = @ \cup {k},
                             !.at = IF s.todo = {k} THEN "stored" ELSE @]
  BY DEF Written, k
<1>3. k \in Steps
  BY <1>1 DEF k
<1>4. Written(s) \in WatchState
  <2> DEFINE a == IF s.todo = {k} THEN "stored" ELSE s.at
             d == s.done \cup {k}
             r == s.todo \ {k}
  <2>1. a \in {"idle", "asking", "writing"} \cup Ended
    BY DEF WatchState, Ended
  <2>2. d \in SUBSET Steps /\ r \in SUBSET Steps
    BY <1>1, <1>3
  <2>3. Written(s) = [s EXCEPT !.todo = r, !.done = d, !.at = a]
    BY <1>2
  <2> HIDE DEF a, d, r
  <2> QED  BY <2>1, <2>2, <2>3 DEF WatchState
<1>5. Written(s).contract = s.contract /\ Written(s).network = s.network
  BY <1>2 DEF WatchState
<1>6. Written(s).todo = s.todo \ {k}
  BY <1>2 DEF WatchState
<1>7. Written(s).done = s.done \cup {k}
  BY <1>2 DEF WatchState
<1>8. Written(s).at = IF s.todo = {k} THEN "stored" ELSE "writing"
  BY <1>2 DEF WatchState
<1> QED  BY <1>4, <1>5, <1>6, <1>7, <1>8 DEF k

LEMMA WrittenProgress ==
  ASSUME NEW s \in WatchState, s.at = "writing", Progress(s)
  PROVE  /\ Progress(Written(s))
         /\ First(s.todo) = "contract" => s.done = {} /\ "instance" \in s.todo
         /\ First(s.todo) # "contract" => "contract" \in s.done
         /\ First(s.todo) = "introspected" => "instance" \in s.done
<1>1. s.todo # {} /\ s.todo \in SUBSET Steps
  BY DEF Progress, WatchState
<1> DEFINE k == First(s.todo)
           t == Written(s)
<1>2. /\ k \in s.todo /\ ("contract" \in s.todo => k = "contract")
      /\ k = "introspected" => "instance" \notin s.todo
  BY <1>1, FirstIsLeast
<1>3. /\ t.contract = s.contract /\ t.network = s.network
      /\ t.todo = s.todo \ {k} /\ t.done = s.done \cup {k}
      /\ t.at = IF s.todo = {k} THEN "stored" ELSE "writing"
  BY <1>1, WrittenFields
<1> HIDE DEF k, t
<1>4. /\ k = "contract" => s.done = {} /\ "instance" \in s.todo
      /\ k # "contract" => "contract" \in s.done
      /\ k = "introspected" => "instance" \in s.done
  BY <1>2 DEF Progress
<1>5. Progress(t)
  BY <1>2, <1>3, <1>4 DEF Progress
<1> QED  BY <1>4, <1>5 DEF k, t

(* What every statement of a watch does to the watches: w goes on, and     *)
(* the others are where they were.                                         *)
LEMMA WatchGoesOn ==
  ASSUME IInv, NEW w \in Watchers, watch[w].at = "writing",
         watch' = [watch EXCEPT ![w] = Written(watch[w])], UNCHANGED edit
  PROVE  /\ CommandTypes' /\ \A v \in Watchers : Progress(watch'[v])
         /\ watch'[w] = Written(watch[w])
         /\ \A v \in Watchers \ {w} : watch'[v] = watch[v]
<1>1. watch \in [Watchers -> WatchState] /\ watch[w] \in WatchState /\ Progress(watch[w])
  BY DEF IInv, CommandTypes
<1>2. Written(watch[w]) \in WatchState /\ Progress(Written(watch[w]))
  <2>1. watch[w].todo # {}
    BY <1>1 DEF Progress
  <2> QED  BY <1>1, <2>1, WrittenFields, WrittenProgress
<1>3. /\ watch' \in [Watchers -> WatchState]
      /\ watch'[w] = Written(watch[w])
      /\ \A v \in Watchers \ {w} : watch'[v] = watch[v]
  BY <1>1, <1>2
<1> QED  BY <1>2, <1>3 DEF IInv, CommandTypes

(* The contract: any other watch of it is overtaken, and its instance is   *)
(* still to come.                                                          *)
LEMMA ContractWritten ==
  ASSUME IInv, NEW w \in Watchers, watch[w].at = "writing",
         First(watch[w].todo) = "contract",
         insertContract(w, watch[w].contract),
         watch' = [watch EXCEPT ![w] = Written(watch[w])],
         UNCHANGED <<groups, members, edit>>
  PROVE  IInv'
<1> DEFINE c == watch[w].contract
<1>1. watch[w] \in WatchState /\ Progress(watch[w]) /\ watch[w].todo # {}
  BY DEF IInv, CommandTypes, Progress
<1>2. c \in Contracts /\ watch[w].network \in Networks
  BY <1>1 DEF Progress
<1>3. /\ watch[w].done = {} /\ "instance" \in watch[w].todo
      /\ watch'[w].contract = c /\ watch'[w].network = watch[w].network
      /\ watch'[w].done = {"contract"} /\ watch'[w].at = "writing"
  <2>1. watch[w].done = {} /\ "instance" \in watch[w].todo
    BY <1>1, WrittenProgress
  <2>2. watch'[w] = Written(watch[w])
    BY WatchGoesOn
  <2>3. /\ watch'[w].contract = c /\ watch'[w].network = watch[w].network
        /\ watch'[w].done = {} \cup {"contract"}
        /\ watch'[w].at = IF watch[w].todo = {"contract"} THEN "stored" ELSE "writing"
    BY <1>1, <2>1, <2>2, WrittenFields
  <2> QED  BY <2>1, <2>3
<1>4. CommandTypes' /\ \A v \in Watchers : Progress(watch'[v])
  BY WatchGoesOn
<1>5. \A v \in Watchers \ {w} : watch'[v] = watch[v]
  BY WatchGoesOn
<1> DEFINE row == [network |-> watch[w].network, active |-> TRUE,
                   fresh |-> Registered(c) /\ contract[c].fresh]
<1>6. row \in Row /\ row # None
  <2>1. (Registered(c) /\ contract[c].fresh) \in BOOLEAN
    BY <1>2 DEF IInv, TableTypes, Row, Registered
  <2> QED  BY <1>2, <2>1, RowOf
<1>7. row.network = watch[w].network /\ row.active /\ (row.fresh => Registered(c) /\ contract[c].fresh)
  OBVIOUS
<1>8. contract' = [contract EXCEPT ![c] = row] /\ tags' = [tags EXCEPT ![c] = {}]
  BY DEF insertContract
<1> HIDE DEF row
<1>9. /\ entries' = entries /\ torn' = torn
      /\ overtaken' = (overtaken \cup WatchersOf(c)) \ {w}
  BY DEF insertContract
<1>10. /\ contract' \in [Contracts -> Row \cup {None}] /\ contract'[c] = row
       /\ \A d \in Contracts \ {c} : contract'[d] = contract[d]
       /\ tags' \in [Contracts -> SUBSET Tags] /\ tags'[c] = {}
       /\ \A d \in Contracts \ {c} : tags'[d] = tags[d]
  BY <1>2, <1>6, <1>8 DEF IInv, TableTypes
<1>11. TableTypes'
  BY <1>9, <1>10 DEF IInv, TableTypes, WatchersOf
<1>12. Stamps'
  BY <1>3, <1>5, <1>9 DEF IInv, Stamps
<1>13. ReferencesHold'
  <2>1. UNCHANGED members /\ UNCHANGED groups /\ \A m \in members : m[2] \in Contracts
    BY DEF IInv, TableTypes
  <2>2. \A d \in Contracts : contract[d] # None => contract'[d] # None
    BY <1>6, <1>10
  <2>3. \A d \in Contracts : contract'[d] = None => entries'[d] = {} /\ tags'[d] = {}
    BY <1>6, <1>9, <1>10 DEF IInv, ReferencesHold, Registered
  <2>4. \A m \in members : m[1] \in groups /\ contract'[m[2]] # None
    BY <2>1, <2>2 DEF IInv, ReferencesHold, Registered
  <2> QED  BY <2>1, <2>3, <2>4 DEF ReferencesHold, Registered
<1>14. CacheIsHonest'
  BY <1>6, <1>7, <1>9, <1>10 DEF IInv, CacheIsHonest, Registered
<1>15. WritesHold'
  <2> SUFFICES ASSUME NEW v \in Watchers, v \notin overtaken', "contract" \in watch'[v].done
               PROVE  LET d == watch'[v].contract IN
                      /\ contract'[d] # None
                      /\ contract'[d].network = watch'[v].network /\ contract'[d].active
                      /\ {EntryOf(k) : k \in watch'[v].done \ {"contract", "introspected"}} \subseteq entries'[d]
                      /\ watch'[v].at = "stored" => "instance" \in entries'[d]
    BY DEF WritesHold, Registered
  <2>1. CASE v = w
    BY <2>1, <1>3, <1>6, <1>7, <1>10
  <2>2. CASE v # w
    <3>1. watch'[v] = watch[v] /\ v \notin overtaken /\ watch[v].contract # c
      BY <2>2, <1>5, <1>9 DEF WatchersOf
    <3>2. watch[v].contract \in Contracts
      BY <3>1 DEF IInv, Progress
    <3> QED  BY <3>1, <3>2, <1>9, <1>10 DEF IInv, WritesHold, Registered
  <2> QED  BY <2>1, <2>2
<1> QED  BY <1>4, <1>11, <1>12, <1>13, <1>14, <1>15 DEF IInv

(* An entry: more rows are there than before. *)
LEMMA EntryWritten ==
  ASSUME IInv, NEW w \in Watchers, watch[w].at = "writing",
         First(watch[w].todo) \notin {"contract", "introspected"},
         Registered(watch[w].contract),
         upsertEntry(watch[w].contract, First(watch[w].todo)),
         watch' = [watch EXCEPT ![w] = Written(watch[w])],
         UNCHANGED <<groups, members, edit>>
  PROVE  IInv'
<1> DEFINE c == watch[w].contract
           k == First(watch[w].todo)
<1>1. watch[w] \in WatchState /\ Progress(watch[w]) /\ watch[w].todo # {}
  BY DEF IInv, CommandTypes, Progress
<1>2. "contract" \in watch[w].done /\ k \in Steps
  BY <1>1, WrittenProgress, FirstIsLeast DEF WatchState
<1>3. c \in Contracts
  BY <1>1, <1>2 DEF Progress
<1>4. /\ watch'[w].contract = c /\ watch'[w].network = watch[w].network
      /\ watch'[w].done = watch[w].done \cup {k}
  BY <1>1, WatchGoesOn, WrittenFields
<1>5. CommandTypes' /\ \A v \in Watchers : Progress(watch'[v])
  BY WatchGoesOn
<1>6. \A v \in Watchers \ {w} : watch'[v] = watch[v]
  BY WatchGoesOn
<1>7. UNCHANGED <<contract, tags, overtaken, torn>> /\ entries' = [entries EXCEPT ![c] = @ \cup {EntryOf(k)}]
  BY DEF upsertEntry, marks
<1>8. EntryOf(k) \in EntryKinds /\ (k = "instance" => EntryOf(k) = "instance")
  BY <1>2 DEF EntryOf, EntryKinds, Steps
<1> HIDE DEF k
<1>9. /\ entries' \in [Contracts -> SUBSET EntryKinds]
      /\ entries'[c] = entries[c] \cup {EntryOf(k)}
      /\ \A d \in Contracts \ {c} : entries'[d] = entries[d]
  BY <1>3, <1>7, <1>8 DEF IInv, TableTypes
<1>10. \A d \in Contracts : entries[d] \subseteq entries'[d]
  BY <1>9
<1>11. TableTypes'
  BY <1>7, <1>9 DEF IInv, TableTypes
<1>12. Stamps'
  <2> SUFFICES ASSUME NEW v \in Watchers, watch'[v].at = "writing", "instance" \in watch'[v].done
               PROVE  "instance" \in entries'[watch'[v].contract] \/ watch'[v].contract \in torn
    BY <1>7 DEF Stamps
  <2>1. watch[v].at = "writing" /\ watch'[v].contract = watch[v].contract /\ watch[v].contract \in Contracts
    BY <1>4, <1>5, <1>6 DEF IInv, Progress
  <2>2. CASE v = w /\ k = "instance"
    BY <2>2, <1>4, <1>8, <1>9
  <2>3. CASE "instance" \in watch[v].done
    BY <2>1, <2>3, <1>10 DEF IInv, Stamps
  <2> QED  BY <2>2, <2>3, <1>4, <1>6
<1>13. ReferencesHold'
  BY <1>7, <1>9 DEF IInv, ReferencesHold, Registered
<1>14. CacheIsHonest'
  BY <1>7, <1>10 DEF IInv, CacheIsHonest, Registered
<1>15. WritesHold'
  <2> SUFFICES ASSUME NEW v \in Watchers, v \notin overtaken, "contract" \in watch'[v].done
               PROVE  LET d == watch'[v].contract IN
                      /\ contract[d] # None
                      /\ contract[d].network = watch'[v].network /\ contract[d].active
                      /\ {EntryOf(j) : j \in watch'[v].done \ {"contract", "introspected"}} \subseteq entries'[d]
                      /\ watch'[v].at = "stored" => "instance" \in entries'[d]
    BY <1>7 DEF WritesHold, Registered
  <2>1. /\ watch'[v].contract = watch[v].contract /\ watch'[v].network = watch[v].network
        /\ "contract" \in watch[v].done
    BY <1>2, <1>4, <1>6
  <2>2. watch[v].contract \in Contracts
    BY <2>1 DEF IInv, Progress
  <2>3. LET d == watch[v].contract IN
        /\ contract[d] # None /\ contract[d].network = watch[v].network /\ contract[d].active
        /\ {EntryOf(j) : j \in watch[v].done \ {"contract", "introspected"}} \subseteq entries[d]
    BY <2>1 DEF IInv, WritesHold, Registered
  <2>4. \A j \in watch'[v].done \ {"contract", "introspected"} : EntryOf(j) \in entries'[watch[v].contract]
    <3> SUFFICES ASSUME NEW j \in watch'[v].done \ {"contract", "introspected"}
                 PROVE  EntryOf(j) \in entries'[watch[v].contract]
      OBVIOUS
    <3>1. CASE j \in watch[v].done
      BY <3>1, <2>2, <2>3, <1>10
    <3>2. CASE v = w /\ j = k
      BY <3>2, <1>9
    <3> QED  BY <3>1, <3>2, <1>4, <1>6
  <2>5. watch'[v].at = "stored" => "instance" \in watch'[v].done
    BY <1>5 DEF Progress
  <2>6. EntryOf("instance") = "instance"
    BY DEF EntryOf
  <2>7. watch'[v].at = "stored" => "instance" \in entries'[watch[v].contract]
    BY <2>4, <2>5, <2>6
  <2> QED  BY <2>1, <2>3, <2>4, <2>7
<1> QED  BY <1>5, <1>11, <1>12, <1>13, <1>14, <1>15 DEF IInv

(* The mark of the introspection: the instance came before. *)
LEMMA StampWritten ==
  ASSUME IInv, NEW w \in Watchers, watch[w].at = "writing",
         First(watch[w].todo) = "introspected",
         updateLastIntrospectedAt(watch[w].contract),
         watch' = [watch EXCEPT ![w] = Written(watch[w])],
         UNCHANGED <<groups, members, edit>>
  PROVE  IInv'
<1> DEFINE c == watch[w].contract
<1>1. watch[w] \in WatchState /\ Progress(watch[w]) /\ watch[w].todo # {}
  BY DEF IInv, CommandTypes, Progress
<1>2. "contract" \in watch[w].done /\ "instance" \in watch[w].done
  BY <1>1, WrittenProgress
<1>3. c \in Contracts
  BY <1>1 DEF Progress
<1>4. /\ watch'[w].contract = c /\ watch'[w].network = watch[w].network
      /\ watch'[w].done = watch[w].done \cup {"introspected"}
  BY <1>1, WatchGoesOn, WrittenFields
<1>5. CommandTypes' /\ \A v \in Watchers : Progress(watch'[v])
  BY WatchGoesOn
<1>6. \A v \in Watchers \ {w} : watch'[v] = watch[v]
  BY WatchGoesOn
<1>7. /\ UNCHANGED <<tags, entries, overtaken, torn>>
      /\ contract' = IF Registered(c) THEN [contract EXCEPT ![c].fresh = TRUE] ELSE contract
  BY DEF updateLastIntrospectedAt, marks
<1>8. /\ contract' \in [Contracts -> Row \cup {None}]
      /\ \A d \in Contracts \ {c} : contract'[d] = contract[d]
      /\ contract'[c] # None <=> contract[c] # None
      /\ Registered(c) => contract'[c].network = contract[c].network /\ contract'[c].active = contract[c].active
  <2>1. CASE ~Registered(c)
    BY <2>1, <1>7 DEF IInv, TableTypes, Registered
  <2>2. CASE Registered(c)
    <3> DEFINE row == [contract[c] EXCEPT !.fresh = TRUE]
    <3>1. contract[c] \in Row
      BY <2>2, <1>3 DEF IInv, TableTypes, Registered
    <3>2. row \in Row /\ row # None /\ row.network = contract[c].network /\ row.active = contract[c].active
      BY <3>1, RowFresh
    <3>3. contract' = [contract EXCEPT ![c] = row]
      BY <2>2, <1>7
    <3> HIDE DEF row
    <3>4. /\ contract' \in [Contracts -> Row \cup {None}] /\ contract'[c] = row
          /\ \A d \in Contracts \ {c} : contract'[d] = contract[d]
      BY <1>3, <3>2, <3>3 DEF IInv, TableTypes
    <3> QED  BY <2>2, <3>2, <3>4 DEF Registered
  <2> QED  BY <2>1, <2>2
<1>9. TableTypes'
  BY <1>7, <1>8 DEF IInv, TableTypes
<1>10. Stamps'
  <2> SUFFICES ASSUME NEW v \in Watchers, watch'[v].at = "writing", "instance" \in watch'[v].done
               PROVE  "instance" \in entries[watch'[v].contract] \/ watch'[v].contract \in torn
    BY <1>7 DEF Stamps
  <2>1. watch[v].at = "writing" /\ watch'[v].contract = watch[v].contract /\ "instance" \in watch[v].done
    BY <1>2, <1>4, <1>6
  <2> QED  BY <2>1 DEF IInv, Stamps
<1>11. ReferencesHold'
  <2>1. UNCHANGED members /\ UNCHANGED groups /\ \A m \in members : m[2] \in Contracts
    BY DEF IInv, TableTypes
  <2>2. \A d \in Contracts : contract[d] # None <=> contract'[d] # None
    BY <1>3, <1>8 DEF Registered
  <2>3. \A d \in Contracts : contract'[d] = None => entries'[d] = {} /\ tags'[d] = {}
    BY <1>7, <2>2 DEF IInv, ReferencesHold, Registered
  <2>4. \A m \in members : m[1] \in groups /\ contract'[m[2]] # None
    BY <2>1, <2>2 DEF IInv, ReferencesHold, Registered
  <2> QED  BY <2>1, <2>3, <2>4 DEF ReferencesHold, Registered
<1>12. CacheIsHonest'
  <2>1. "instance" \in entries[c] \/ c \in torn
    BY <1>2 DEF IInv, Stamps
  <2> QED  BY <2>1, <1>7, <1>8 DEF IInv, CacheIsHonest, Registered
<1>13. WritesHold'
  <2> SUFFICES ASSUME NEW v \in Watchers, v \notin overtaken, "contract" \in watch'[v].done
               PROVE  LET d == watch'[v].contract IN
                      /\ contract'[d] # None
                      /\ contract'[d].network = watch'[v].network /\ contract'[d].active
                      /\ {EntryOf(j) : j \in watch'[v].done \ {"contract", "introspected"}} \subseteq entries[d]
                      /\ watch'[v].at = "stored" => "instance" \in entries[d]
    BY <1>7 DEF WritesHold, Registered
  <2>1. /\ watch'[v].contract = watch[v].contract /\ watch'[v].network = watch[v].network
        /\ "contract" \in watch[v].done /\ watch[v].contract \in Contracts
        /\ watch'[v].done \ {"contract", "introspected"} = watch[v].done \ {"contract", "introspected"}
    BY <1>2, <1>3, <1>4, <1>6 DEF IInv, Progress
  <2>2. LET d == watch[v].contract IN
        /\ contract[d] # None /\ contract[d].network = watch[v].network /\ contract[d].active
        /\ {EntryOf(j) : j \in watch[v].done \ {"contract", "introspected"}} \subseteq entries[d]
    BY <2>1 DEF IInv, WritesHold, Registered
  <2>3. watch'[v].at = "stored" => "instance" \in watch'[v].done
    BY <1>5 DEF Progress
  <2>4. EntryOf("instance") = "instance"
    BY DEF EntryOf
  <2>5. watch'[v].at = "stored" => "instance" \in entries[watch[v].contract]
    BY <2>1, <2>2, <2>3, <2>4
  <2>6. LET d == watch[v].contract IN
        contract'[d] # None /\ contract'[d].network = contract[d].network /\ contract'[d].active = contract[d].active
    BY <2>1, <2>2, <1>3, <1>8 DEF Registered
  <2> QED  BY <2>1, <2>2, <2>5, <2>6
<1> QED  BY <1>5, <1>9, <1>10, <1>11, <1>12, <1>13 DEF IInv

LEMMA WatchWriting ==
  ASSUME IInv, NEW w \in Watchers, WatchWrites(w)
  PROVE  IInv'
<1> DEFINE c == watch[w].contract
           k == First(watch[w].todo)
<1>1. CASE Fails(w) /\ UNCHANGED <<contract, tags, entries, marks>>
  <2>1. /\ watch'[w] = [NoWatch EXCEPT !.at = "failed"]
        /\ watch' \in [Watchers -> WatchState]
        /\ \A v \in Watchers \ {w} : watch'[v] = watch[v]
    BY <1>1, IdleProgress DEF Fails, IInv, CommandTypes
  <2>2. UNCHANGED <<groups, members, edit>>
    BY DEF WatchWrites
  <2>3. UNCHANGED <<contract, tags, entries, groups, members, edit, torn>> /\ overtaken' = overtaken
    BY <1>1, <2>2 DEF marks
  <2>4. Progress(watch'[w]) /\ watch'[w].done = {}
    BY <2>1, IdleProgress
  <2> HIDE DEF c, k
  <2> QED  BY <2>1, <2>3, <2>4, WatchMoves
<1>2. CASE watch' = [watch EXCEPT ![w].todo = @ \ {k}, ![w].done = @ \cup {k},
                                  ![w].at = IF watch[w].todo = {k} THEN "stored" ELSE @]
  <2>1. watch' = [watch EXCEPT ![w] = Written(watch[w])]
    BY <1>2 DEF Written, IInv, CommandTypes
  <2>2. \/ k = "contract" /\ insertContract(w, c)
        \/ k = "introspected" /\ updateLastIntrospectedAt(c)
        \/ k \notin {"contract", "introspected"} /\ Registered(c) /\ upsertEntry(c, k)
        \/ Fails(w) /\ UNCHANGED <<contract, tags, entries, marks>>
    BY DEF WatchWrites
  <2>3. watch[w].at = "writing" /\ UNCHANGED <<groups, members, edit>>
    BY DEF WatchWrites
  <2> QED  BY <2>1, <2>2, <2>3, <1>1, ContractWritten, EntryWritten, StampWritten
<1> QED  BY <1>1, <1>2 DEF WatchWrites

-----------------------------------------------------------------------------
(* The other commands write one statement each, and no watch moves. *)
LEMMA Unwatching ==
  ASSUME IInv, NEW c \in Contracts, Unwatch(c)
  PROVE  IInv'
<1>1. /\ contract' = [contract EXCEPT ![c] = None] /\ tags' = [tags EXCEPT ![c] = {}]
      /\ entries' = [entries EXCEPT ![c] = {}] /\ members' = {m \in members : m[2] # c}
      /\ overtaken' = overtaken \cup WatchersOf(c)
      /\ torn' = IF WatchersOf(c) \cap Writing # {} THEN torn \cup {c} ELSE torn \ {c}
      /\ UNCHANGED <<groups, watch, edit>>
  BY DEF Unwatch, deleteContract, commands
<1>2. /\ contract' \in [Contracts -> Row \cup {None}] /\ contract'[c] = None
      /\ tags' \in [Contracts -> SUBSET Tags] /\ tags'[c] = {}
      /\ entries' \in [Contracts -> SUBSET EntryKinds] /\ entries'[c] = {}
      /\ \A d \in Contracts \ {c} :
           contract'[d] = contract[d] /\ tags'[d] = tags[d] /\ entries'[d] = entries[d]
  BY <1>1 DEF IInv, TableTypes
<1>3. TableTypes' /\ CommandTypes' /\ \A w \in Watchers : Progress(watch'[w])
  BY <1>1, <1>2 DEF IInv, TableTypes, CommandTypes, WatchersOf
<1>4. Stamps'
  <2> SUFFICES ASSUME NEW w \in Watchers, watch[w].at = "writing", "instance" \in watch[w].done
               PROVE  "instance" \in entries'[watch[w].contract] \/ watch[w].contract \in torn'
    BY <1>1 DEF Stamps
  <2>1. watch[w].contract \in Contracts
    BY DEF IInv, Progress
  <2>2. CASE watch[w].contract = c
    <3>1. w \in WatchersOf(c) \cap Writing
      BY <2>2 DEF WatchersOf, Writing
    <3> QED  BY <2>2, <3>1, <1>1
  <2>3. CASE watch[w].contract # c
    BY <2>1, <2>3, <1>1, <1>2 DEF IInv, Stamps
  <2> QED  BY <2>2, <2>3
<1>5. ReferencesHold'
  <2>1. \A d \in Contracts : contract'[d] = None => entries'[d] = {} /\ tags'[d] = {}
    BY <1>2 DEF IInv, ReferencesHold, Registered
  <2>2. \A m \in members' : m \in members /\ m[2] \in Contracts \ {c}
    BY <1>1 DEF IInv, TableTypes
  <2>3. \A m \in members' : m[1] \in groups' /\ contract'[m[2]] # None
    BY <1>1, <1>2, <2>2 DEF IInv, ReferencesHold, Registered
  <2> QED  BY <2>1, <2>3 DEF ReferencesHold, Registered
<1>6. WritesHold'
  <2>1. \A w \in Watchers : w \notin overtaken' => w \notin overtaken /\ watch[w].contract # c
    BY <1>1 DEF WatchersOf
  <2>2. \A w \in Watchers : "contract" \in watch[w].done => watch[w].contract \in Contracts
    BY DEF IInv, Progress
  <2> QED  BY <1>1, <1>2, <2>1, <2>2 DEF IInv, WritesHold, Registered
<1>7. CacheIsHonest'
  BY <1>1, <1>2 DEF IInv, CacheIsHonest, Registered
<1> QED  BY <1>3, <1>4, <1>5, <1>6, <1>7 DEF IInv

(* A contract that stays registered on its network, not introspected if it *)
(* was not, and active as before unless its watches are overtaken.         *)
LEMMA RowEdited ==
  ASSUME IInv, NEW c \in Contracts, Registered(c), NEW row \in Row,
         contract' = [contract EXCEPT ![c] = row],
         row.fresh => contract[c].fresh,
         row.network = contract[c].network,
         \/ row.active = contract[c].active /\ overtaken' = overtaken
         \/ overtaken' = overtaken \cup WatchersOf(c),
         UNCHANGED <<tags, entries, groups, members, watch, edit, torn>>
  PROVE  IInv'
<1>1. row # None
  BY RegistryAssumption DEF Row
<1>2. /\ contract' \in [Contracts -> Row \cup {None}] /\ contract'[c] = row
      /\ \A d \in Contracts \ {c} : contract'[d] = contract[d]
      /\ \A d \in Contracts : contract'[d] # None <=> contract[d] # None
  BY <1>1 DEF IInv, TableTypes, Registered
<1>3. TableTypes' /\ CommandTypes' /\ \A w \in Watchers : Progress(watch'[w])
  BY <1>2 DEF IInv, TableTypes, CommandTypes, WatchersOf
<1>4. Stamps'
  BY DEF IInv, Stamps
<1>5. ReferencesHold'
  <2>1. \A m \in members : m[2] \in Contracts
    BY DEF IInv, TableTypes
  <2> QED  BY <1>2, <2>1 DEF IInv, ReferencesHold, Registered
<1>6. WritesHold'
  <2>1. \A w \in Watchers : w \notin overtaken' =>
          w \notin overtaken /\ (watch[w].contract = c => row.active = contract[c].active)
    BY DEF WatchersOf
  <2>2. \A w \in Watchers : "contract" \in watch[w].done => watch[w].contract \in Contracts
    BY DEF IInv, Progress
  <2>3. \A d \in Contracts : contract'[d].network = contract[d].network
    BY <1>2
  <2>4. \A w \in Watchers : w \notin overtaken' /\ "contract" \in watch[w].done =>
          contract'[watch[w].contract].active = contract[watch[w].contract].active
    BY <1>2, <2>1, <2>2
  <2> QED  BY <1>2, <2>1, <2>2, <2>3, <2>4 DEF IInv, WritesHold, Registered
<1>7. CacheIsHonest'
  BY <1>2 DEF IInv, CacheIsHonest, Registered
<1> QED  BY <1>3, <1>4, <1>5, <1>6, <1>7 DEF IInv

LEMMA RowActive ==
  ASSUME NEW r \in Row, NEW a \in BOOLEAN
  PROVE  /\ [r EXCEPT !.active = a] \in Row
         /\ [r EXCEPT !.active = a].network = r.network
         /\ [r EXCEPT !.active = a].fresh = r.fresh
BY DEF Row

LEMMA EditingInv ==
  ASSUME IInv, NEW c \in Contracts, Editing(c)
  PROVE  IInv'
<1>1. CASE Unwatch(c)
  BY <1>1, Unwatching
<1>2. ASSUME NEW a \in BOOLEAN, setContractActiveStatus(c, a)  PROVE IInv'
  <2>1. Registered(c) /\ contract[c] \in Row
    BY <1>2 DEF setContractActiveStatus, IInv, TableTypes, Registered
  <2> DEFINE row == [contract[c] EXCEPT !.active = a]
  <2>2. row \in Row /\ row.network = contract[c].network /\ row.fresh = contract[c].fresh
    BY <2>1, RowActive
  <2>3. /\ contract' = [contract EXCEPT ![c] = row]
        /\ overtaken' = overtaken \cup WatchersOf(c)
        /\ UNCHANGED <<tags, entries, groups, members, watch, edit, torn>>
    BY <1>2 DEF setContractActiveStatus, commands
  <2> HIDE DEF row
  <2> QED  BY <2>1, <2>2, <2>3, RowEdited
<1>3. CASE CacheExpires(c)
  <2>1. Registered(c) /\ contract[c] \in Row /\ contract[c].fresh
    BY <1>3 DEF CacheExpires, IInv, TableTypes, Registered
  <2> DEFINE row == [contract[c] EXCEPT !.fresh = FALSE]
  <2>2. row \in Row /\ row.network = contract[c].network /\ row.active = contract[c].active
    BY <2>1, RowFresh
  <2>3. /\ contract' = [contract EXCEPT ![c] = row]
        /\ UNCHANGED <<tags, entries, groups, members, watch, edit, torn, overtaken>>
    BY <1>3 DEF CacheExpires, commands, marks
  <2> HIDE DEF row
  <2> QED  BY <2>1, <2>2, <2>3, RowEdited
<1> QED  BY <1>1, <1>2, <1>3 DEF Editing, Pause, Resume

(* Tags and groups: no contract, entry or watch is touched. *)
LEMMA TaggingInv ==
  ASSUME IInv, NEW p \in Taggers, Tagging(p)
  PROVE  IInv'
<1>1. UNCHANGED <<contract, entries, groups, members, watch, overtaken, torn>>
  BY DEF Tagging, TagReads, TagWrites, marks
<1>2. /\ tags' \in [Contracts -> SUBSET Tags] /\ edit' \in [Taggers -> Edit \cup {None}]
      /\ \A c \in Contracts : contract[c] = None => tags'[c] = tags[c]
  <2>1. CASE TagReads(p)
    <3>1. PICK c \in Contracts, t \in Tags, add \in BOOLEAN :
            edit' = [edit EXCEPT ![p] =
              [contract |-> c, tags |-> IF add THEN tags[c] \cup {t} ELSE tags[c] \ {t}]]
      BY <2>1 DEF TagReads
    <3>2. (IF add THEN tags[c] \cup {t} ELSE tags[c] \ {t}) \in SUBSET Tags
      BY DEF IInv, TableTypes
    <3>3. edit' \in [Taggers -> Edit \cup {None}]
      BY <3>1, <3>2 DEF IInv, CommandTypes, Edit
    <3> QED  BY <2>1, <3>3 DEF TagReads, IInv, TableTypes
  <2>2. CASE TagWrites(p)
    <3>1. edit[p] \in Edit
      BY <2>2 DEF TagWrites, IInv, CommandTypes
    <3>2. edit' = [edit EXCEPT ![p] = None] /\
          tags' = IF Registered(edit[p].contract)
                  THEN [tags EXCEPT ![edit[p].contract] = edit[p].tags] ELSE tags
      BY <2>2 DEF TagWrites
    <3>3. edit' \in [Taggers -> Edit \cup {None}]
      BY <3>2 DEF IInv, CommandTypes
    <3>4. edit[p].contract \in Contracts /\ edit[p].tags \in SUBSET Tags
      BY <3>1 DEF Edit
    <3> QED  BY <3>2, <3>3, <3>4 DEF IInv, TableTypes, Registered
  <2> QED  BY <2>1, <2>2 DEF Tagging
<1>3. TableTypes' /\ CommandTypes'
  BY <1>1, <1>2 DEF IInv, TableTypes, CommandTypes
<1>4. Stamps' /\ WritesHold' /\ CacheIsHonest' /\ \A w \in Watchers : Progress(watch'[w])
  BY <1>1 DEF IInv, Stamps, WritesHold, CacheIsHonest, Registered
<1>5. ReferencesHold'
  BY <1>1, <1>2 DEF IInv, ReferencesHold, Registered
<1> QED  BY <1>3, <1>4, <1>5 DEF IInv

LEMMA GroupingInv ==
  ASSUME IInv, NEW g \in Groups, Grouping(g)
  PROVE  IInv'
<1>1. UNCHANGED <<contract, tags, entries, watch, edit, overtaken, torn>>
  BY DEF Grouping, createGroup, addContractToGroup, removeContractFromGroup, commands, marks
<1>2. /\ groups' \subseteq Groups /\ members' \subseteq Groups \X Contracts
      /\ \A m \in members' : m[1] \in groups' /\ Registered(m[2])
  <2>1. CASE createGroup(g)
    BY <2>1 DEF createGroup, IInv, TableTypes, ReferencesHold
  <2>2. CASE \E c \in Contracts : addContractToGroup(g, c)
    BY <2>2 DEF addContractToGroup, IInv, TableTypes, ReferencesHold
  <2>3. CASE \E c \in Contracts : removeContractFromGroup(g, c)
    BY <2>3 DEF removeContractFromGroup, IInv, TableTypes, ReferencesHold
  <2> QED  BY <2>1, <2>2, <2>3 DEF Grouping
<1>3. TableTypes' /\ CommandTypes'
  BY <1>1, <1>2 DEF IInv, TableTypes, CommandTypes
<1>4. Stamps' /\ WritesHold' /\ CacheIsHonest' /\ \A w \in Watchers : Progress(watch'[w])
  BY <1>1 DEF IInv, Stamps, WritesHold, CacheIsHonest, Registered
<1>5. ReferencesHold'
  BY <1>1, <1>2 DEF IInv, ReferencesHold, Registered
<1> QED  BY <1>3, <1>4, <1>5 DEF IInv

LEMMA NextInv == IInv /\ [Next]_vars => IInv'
<1> SUFFICES ASSUME IInv, [Next]_vars  PROVE IInv'
  OBVIOUS
<1>1. ASSUME NEW w \in Watchers, Watching(w)  PROVE IInv'
  BY <1>1, BeforeWriting, WatchWriting DEF Watching
<1>2. CASE UNCHANGED vars
  BY <1>2 DEF vars, commands, marks, IInv, TableTypes, CommandTypes, Stamps, ReferencesHold,
              WritesHold, CacheIsHonest, Registered
<1> QED  BY <1>1, <1>2, EditingInv, TaggingInv, GroupingInv DEF Next

(* The invariant the other theorems rest on. *)
THEOREM Invariant == Spec => []IInv
BY InitInv, NextInv, PTL DEF Spec

(* The tables hold what they should, and no row of an entry, a tag or a    *)
(* membership is left of a contract that unwatch deleted.                  *)
THEOREM ReferencesAlwaysHold == Spec => [](TypeOK /\ ReferencesHold)
<1>1. IInv => TypeOK /\ ReferencesHold
  BY DEF IInv, TableTypes, TypeOK
<1> QED  BY Invariant, <1>1, PTL

(* Whatever other processes do in between, what a watch wrote is there     *)
(* until one of them changes it.                                           *)
THEOREM WritesAlwaysHold == Spec => []WritesHold
<1>1. IInv => WritesHold
  BY DEF IInv
<1> QED  BY Invariant, <1>1, PTL

(* A cached success of watch stands for a stored instance. *)
THEOREM CacheIsAlwaysHonest == Spec => []CacheIsHonest
<1>1. IInv => CacheIsHonest
  BY DEF IInv
<1> QED  BY Invariant, <1>1, PTL
=============================================================================
