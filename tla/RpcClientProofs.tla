---------------------------- MODULE RpcClientProofs ----------------------------
(***************************************************************************)
(* Proofs about RpcClient, for any flows at once, any endpoints and any    *)
(* assignment of methods.  The outcome of a submission is argued from      *)
(* where its transactions are: unless an answer was lost, a transaction is *)
(* nowhere until it is sent, in one place after that, and the first one is *)
(* nowhere once there is a second.  The sequence numbers are needed only   *)
(* for the node's answer: it refuses no transaction it holds.              *)
(***************************************************************************)
EXTENDS RpcClient, TLAPS

Known == underway \cup queue \cup applied \cup failed
Early == {"new", "network", "noNetwork", "account", "simulate"}

Shape ==
  /\ kind \in [Flows -> SubmissionKinds \cup ReadKinds]
  /\ attempt \in [Flows -> 1..2]
  /\ call = [f \in Flows |-> [at |-> call[f].at, list |-> call[f].list, asked |-> call[f].asked]]

(* Where the transactions of f are *)
Places(f) ==
  /\ call[f].at \in Early => Tx(f) \notin Known
  /\ Awaits(f, "send") /\ f \notin lost => Tx(f) \notin Known
  /\ attempt[f] = 1 => <<f, 2>> \notin Known
  /\ f \notin lost =>
       /\ <<f, 1>> \notin underway /\ <<f, 2>> \notin underway
       /\ attempt[f] = 2 => <<f, 1>> \notin Known
       /\ Tx(f) \in applied => Tx(f) \notin queue \cup failed
       /\ Tx(f) \in queue => Tx(f) \notin failed
  /\ kind[f] = "payment" => attempt[f] = 1

(* How far f has come, and how it ended *)
Outcome(f) ==
  /\ call[f].at \in {"send", "poll"} => kind[f] \in SubmissionKinds
  /\ kind[f] \in SubmissionKinds /\ Awaits(f, "success") => Tx(f) \in applied
  /\ kind[f] \in Extending /\ Awaits(f, "getEntries") => Tx(f) \in applied
  /\ kind[f] \in SubmissionKinds /\ Awaits(f, "failure") /\ f \notin lost =>
       <<f, 1>> \notin applied \cup queue /\ <<f, 2>> \notin applied \cup queue
  /\ f \in booked => kind[f] \in SubmissionKinds /\ Awaits(f, "success")
  /\ kind[f] \in Extending /\ Awaits(f, "success") => f \in booked
  /\ call[f].at \in {"threw", "noNetwork"} => call[f].asked # {}

FlowInv(f) == Places(f) /\ Outcome(f)

IInv == Shape /\ \A f \in Flows : FlowInv(f)

(* What FlowInv(f) speaks of *)
View(f) ==
  <<call[f], attempt[f], kind[f], f \in booked, f \in lost,
    <<f, 1>> \in underway, <<f, 1>> \in queue, <<f, 1>> \in applied, <<f, 1>> \in failed,
    <<f, 2>> \in underway, <<f, 2>> \in queue, <<f, 2>> \in applied, <<f, 2>> \in failed>>

LEMMA InitInv == Init => IInv
BY ClientAssumption DEF Init, IInv, Shape, FlowInv, Places, Outcome, Known, Early, Awaits, Tx

-----------------------------------------------------------------------------
LEMMA TxCases ==
  ASSUME Shape, NEW f \in Flows
  PROVE  \/ attempt[f] = 1 /\ Tx(f) = <<f, 1>>
         \/ attempt[f] = 2 /\ Tx(f) = <<f, 2>>
BY DEF Shape, Tx

(* A step of f leaves the others where they are. *)
LEMMA Unmoved ==
  ASSUME Shape, NEW g \in Flows, FlowInv(g), UNCHANGED View(g)
  PROVE  FlowInv(g)'
<1>1. /\ call'[g] = call[g] /\ attempt'[g] = attempt[g] /\ kind'[g] = kind[g]
      /\ g \in booked' <=> g \in booked
      /\ g \in lost' <=> g \in lost
  BY DEF View
<1>2. \A a \in {1, 2} : /\ <<g, a>> \in underway' <=> <<g, a>> \in underway
                        /\ <<g, a>> \in queue' <=> <<g, a>> \in queue
                        /\ <<g, a>> \in applied' <=> <<g, a>> \in applied
                        /\ <<g, a>> \in failed' <=> <<g, a>> \in failed
  BY DEF View
<1>3. Tx(g)' = Tx(g) /\ \E a \in {1, 2} : Tx(g) = <<g, a>>
  BY <1>1, TxCases DEF Tx
<1>4. Places(g)'
  BY <1>1, <1>2, <1>3 DEF FlowInv, Places, Known, Awaits
<1>5. Outcome(g)'
  BY <1>1, <1>2, <1>3 DEF FlowInv, Outcome, Awaits
<1> QED  BY <1>4, <1>5 DEF FlowInv

LEMMA FlowStep ==
  ASSUME IInv, NEW f \in Flows, Shape', FlowInv(f)',
         \A g \in Flows \ {f} : UNCHANGED View(g)
  PROVE  IInv'
BY Unmoved DEF IInv
-----------------------------------------------------------------------------
(* How call moves *)
LEMMA CallSet ==
  ASSUME Shape, NEW f \in Flows, NEW a, NEW l, NEW s,
         call' = [call EXCEPT ![f] = [at |-> a, list |-> l, asked |-> s]]
  PROVE  /\ call' = [g \in Flows |-> [at |-> call'[g].at, list |-> call'[g].list, asked |-> call'[g].asked]]
         /\ call'[f].at = a /\ call'[f].asked = s
         /\ \A g \in Flows \ {f} : call'[g] = call[g]
<1> DEFINE r == [at |-> a, list |-> l, asked |-> s]
<1>1. r = [at |-> r.at, list |-> r.list, asked |-> r.asked] /\ r.at = a /\ r.asked = s
  OBVIOUS
<1>2. DOMAIN call = Flows
  BY DEF Shape
<1>3. \A g \in Flows : call[g] = [at |-> call[g].at, list |-> call[g].list, asked |-> call[g].asked]
  BY DEF Shape
<1> HIDE DEF r
<1>4. call' = [call EXCEPT ![f] = r]
  BY DEF r
<1>5. call' = [g \in Flows |-> IF g = f THEN r ELSE call[g]]
  BY <1>2, <1>4
<1>6. \A g \in Flows : call'[g] = [at |-> call'[g].at, list |-> call'[g].list, asked |-> call'[g].asked]
  BY <1>1, <1>3, <1>5
<1> QED  BY <1>1, <1>5, <1>6

LEMMA RecordAt ==
  ASSUME NEW x, NEW l, NEW s, NEW a
  PROVE  [[at |-> x, list |-> l, asked |-> s] EXCEPT !.at = a] = [at |-> a, list |-> l, asked |-> s]
OBVIOUS

LEMMA AtSet ==
  ASSUME Shape, NEW f \in Flows, NEW a, call' = [call EXCEPT ![f].at = a]
  PROVE  call' = [call EXCEPT ![f] = [at |-> a, list |-> call[f].list, asked |-> call[f].asked]]
<1> DEFINE r == [at |-> call[f].at, list |-> call[f].list, asked |-> call[f].asked]
           s == [call[f] EXCEPT !.at = a]
<1>1. call[f] = r
  BY DEF Shape
<1>2. s = [at |-> a, list |-> call[f].list, asked |-> call[f].asked]
  <2>1. s = [r EXCEPT !.at = a]
    <3> HIDE DEF r
    <3> QED  BY <1>1
  <2> QED  BY <2>1, RecordAt
<1>3. call' = [call EXCEPT ![f] = s]
  OBVIOUS
<1> HIDE DEF s
<1> QED  BY <1>2, <1>3

LEMMA SomeEndpoint == OrderedEndpoints # <<>>
BY ClientAssumption DEF OrderedEndpoints

LEMMA Requested ==
  ASSUME Shape, NEW f \in Flows, NEW r, Request(f, r)
  PROVE  call' = [call EXCEPT ![f] = [at |-> r, list |-> OrderedEndpoints, asked |-> {}]]
BY SomeEndpoint DEF Request

LEMMA Ended ==
  ASSUME Shape, NEW f \in Flows, NEW how, End(f, how)
  PROVE  call' = [call EXCEPT ![f] = [at |-> how, list |-> <<>>, asked |-> {Head(call[f].list)}]]
BY DEF End, Shape
LEMMA Tried ==
  ASSUME Shape, NEW f \in Flows, TryNext(f)
  PROVE  \E a, l, s :
           a \in {call[f].at, Thrown(f)} /\ s # {} /\ call' = [call EXCEPT ![f] = [at |-> a, list |-> l, asked |-> s]]
<1> DEFINE e == Head(call[f].list)
           l == Tail(call[f].list)
           a == IF l = <<>> THEN Thrown(f) ELSE call[f].at
           s == call[f].asked \cup {e}
<1>1. call' = [call EXCEPT ![f].list = l, ![f].asked = s, ![f].at = a]
  <2>1. call' = [call EXCEPT ![f].list = l, ![f].asked = @ \cup {e}, ![f].at = a]
    BY DEF TryNext
  <2> QED  BY <2>1 DEF Shape
<1>2. s # {} /\ a \in {call[f].at, Thrown(f)}
  OBVIOUS
<1> HIDE DEF a, l, s
<1>3. call' = [call EXCEPT ![f] = [at |-> a, list |-> l, asked |-> s]]
  <2> DEFINE r == [at |-> call[f].at, list |-> call[f].list, asked |-> call[f].asked]
             t == [call[f] EXCEPT !.list = l, !.asked = s, !.at = a]
  <2>1. call[f] = r /\ DOMAIN call = Flows
    BY DEF Shape
  <2>2. t = [at |-> a, list |-> l, asked |-> s]
    <3>1. t = [r EXCEPT !.list = l, !.asked = s, !.at = a]
      <4> HIDE DEF r
      <4> QED  BY <2>1
    <3>2. [r EXCEPT !.list = l, !.asked = s, !.at = a] = [at |-> a, list |-> l, asked |-> s]
      <4> DEFINE x == call[f].at
                 y == call[f].list
                 z == call[f].asked
      <4> HIDE DEF x, y, z
      <4>1. [[at |-> x, list |-> y, asked |-> z] EXCEPT !.list = l] = [at |-> x, list |-> l, asked |-> z]
        OBVIOUS
      <4>2. [[at |-> x, list |-> l, asked |-> z] EXCEPT !.asked = s] = [at |-> x, list |-> l, asked |-> s]
        OBVIOUS
      <4>3. [[at |-> x, list |-> l, asked |-> s] EXCEPT !.at = a] = [at |-> a, list |-> l, asked |-> s]
        OBVIOUS
      <4>4. [[at |-> x, list |-> y, asked |-> z] EXCEPT !.list = l, !.asked = s, !.at = a]
              = [[[[at |-> x, list |-> y, asked |-> z] EXCEPT !.list = l] EXCEPT !.asked = s] EXCEPT !.at = a]
        OBVIOUS
      <4>5. [[at |-> x, list |-> y, asked |-> z] EXCEPT !.list = l, !.asked = s, !.at = a]
              = [at |-> a, list |-> l, asked |-> s]
        BY <4>1, <4>2, <4>3, <4>4
      <4> QED  BY <4>5 DEF x, y, z
    <3> HIDE DEF t
    <3> QED  BY <3>1, <3>2
  <2>3. call' = [call EXCEPT ![f] = t]
    <3> HIDE DEF r
    <3> QED  BY <1>1, <2>1
  <2> HIDE DEF t
  <2> QED  BY <2>2, <2>3
<1> QED  BY <1>2, <1>3

-----------------------------------------------------------------------------
(* A flow that only awaits something else, or ends, where it may *)
LEMMA CallMoves ==
  ASSUME IInv, NEW f \in Flows, NEW a, NEW l, NEW s,
         call' = [call EXCEPT ![f] = [at |-> a, list |-> l, asked |-> s]],
         UNCHANGED <<kind, attempt, booked, lost, underway, queue, applied, failed>>,
         f \notin booked,
         a \in Early => Tx(f) \notin Known,
         a = "send" /\ f \notin lost => Tx(f) \notin Known,
         a \in {"send", "poll"} => kind[f] \in SubmissionKinds,
         a = "success" => kind[f] \notin Extending /\ (kind[f] = "payment" => Tx(f) \in applied),
         a = "getEntries" /\ kind[f] \in Extending => Tx(f) \in applied,
         a = "failure" /\ kind[f] \in SubmissionKinds /\ f \notin lost =>
           <<f, 1>> \notin applied \cup queue /\ <<f, 2>> \notin applied \cup queue,
         a \in {"threw", "noNetwork"} => s # {}
  PROVE  IInv'
<1>1. Shape /\ FlowInv(f)
  BY DEF IInv
<1>2. /\ call' = [g \in Flows |-> [at |-> call'[g].at, list |-> call'[g].list, asked |-> call'[g].asked]]
      /\ call'[f].at = a /\ call'[f].asked = s
      /\ \A g \in Flows \ {f} : call'[g] = call[g]
  BY <1>1, CallSet
<1>3. Shape'
  BY <1>1, <1>2 DEF Shape
<1>4. Tx(f)' = Tx(f) /\ UNCHANGED Known
  BY DEF Tx, Known
<1>5. Places(f)'
  BY <1>1, <1>2, <1>4 DEF FlowInv, Places, Awaits
<1>6. Outcome(f)'
  BY <1>1, <1>2, <1>4 DEF FlowInv, Outcome, Awaits, SubmissionKinds, Extending
<1>7. \A g \in Flows \ {f} : UNCHANGED View(g)
  BY <1>2 DEF View
<1> QED  BY <1>3, <1>5, <1>6, <1>7, FlowStep DEF FlowInv

(* A flow that is not ended has stored nothing. *)
LEMMA Unbooked ==
  ASSUME IInv, NEW f \in Flows, call[f].at # "success"
  PROVE  f \notin booked
BY DEF IInv, FlowInv, Outcome, Awaits

(* Without a lost answer, a transaction that is nowhere is the only one. *)
LEMMA Nowhere ==
  ASSUME IInv, NEW f \in Flows, f \notin lost, Tx(f) \notin Known
  PROVE  <<f, 1>> \notin Known /\ <<f, 2>> \notin Known
BY TxCases DEF IInv, FlowInv, Places

(* The same with one of the requests of the model *)
LEMMA Requesting ==
  ASSUME IInv, NEW f \in Flows, NEW r \in Requests, Request(f, r),
         UNCHANGED <<kind, attempt, booked, lost, underway, queue, applied, failed>>,
         f \notin booked,
         r \in Early \cup {"send"} => Tx(f) \notin Known,
         r \in {"send", "poll"} => kind[f] \in SubmissionKinds,
         r = "getEntries" /\ kind[f] \in Extending => Tx(f) \in applied
  PROVE  IInv'
<1>1. call' = [call EXCEPT ![f] = [at |-> r, list |-> OrderedEndpoints, asked |-> {}]]
  BY Requested DEF IInv
<1>2. r \notin {"success", "failure", "threw", "noNetwork"}
  BY DEF Requests
<1> DEFINE l == OrderedEndpoints
           s == {}
<1> HIDE DEF l, s
<1>3. call' = [call EXCEPT ![f] = [at |-> r, list |-> l, asked |-> s]]
  BY <1>1 DEF l, s
<1> QED  BY <1>2, <1>3, CallMoves

LEMMA Ending ==
  ASSUME IInv, NEW f \in Flows, NEW how \in Ends \cup Caught, End(f, how),
         UNCHANGED <<kind, attempt, booked, lost, underway, queue, applied, failed>>,
         f \notin booked,
         how = "noNetwork" => Tx(f) \notin Known,
         how = "success" => kind[f] \notin Extending /\ (kind[f] = "payment" => Tx(f) \in applied),
         how = "failure" /\ kind[f] \in SubmissionKinds /\ f \notin lost =>
           <<f, 1>> \notin applied \cup queue /\ <<f, 2>> \notin applied \cup queue
  PROVE  IInv'
<1> DEFINE l == <<>>
           s == {Head(call[f].list)}
<1>1. call' = [call EXCEPT ![f] = [at |-> how, list |-> l, asked |-> s]]
  BY Ended DEF IInv
<1>2. s # {}
  OBVIOUS
<1>3. how \notin {"new", "network", "account", "simulate", "send", "poll", "getEntries"}
  BY DEF Ends, Caught
<1>4. how \in Early => how = "noNetwork"
  BY <1>3 DEF Early
<1> HIDE DEF l, s
<1> QED  BY <1>1, <1>2, <1>3, <1>4, CallMoves

-----------------------------------------------------------------------------
(* The steps of the flows *)
LEMMA Preparing ==
  ASSUME IInv, NEW f \in Flows,
         Submit(f) \/ getNetworkPassphrase(f) \/ BuildTx(f) \/ Assembled(f) \/ SimulationRefused(f)
  PROVE  IInv'
<1>1. UNCHANGED <<kind, attempt, booked, lost, underway, queue, applied, failed>>
  BY DEF Submit, getNetworkPassphrase, BuildTx, Assembled, SimulationRefused, network
<1>2. call[f].at \in Early
  BY DEF Submit, getNetworkPassphrase, BuildTx, Assembled, SimulationRefused, Awaits, Early
<1>3. Tx(f) \notin Known /\ f \notin booked
  BY <1>2, Unbooked DEF IInv, FlowInv, Places, Early
<1>4. CASE Submit(f)
  <2>1. First(kind[f]) \in Requests \ {"send", "poll"} /\ (First(kind[f]) = "getEntries" => kind[f] = "entries")
    BY DEF IInv, Shape, First, Requests, SubmissionKinds, ReadKinds
  <2> QED  BY <1>1, <1>3, <1>4, <2>1, Requesting DEF Submit, Extending
<1>5. CASE getNetworkPassphrase(f)
  <2>1. CASE Request(f, IF kind[f] = "view" THEN "simulate" ELSE "account")
    BY <1>1, <1>3, <2>1, Requesting DEF Requests
  <2>2. CASE Awaits(f, "noNetwork") /\ call' = [call EXCEPT ![f].at = "threw"]
    <3>1. call' = [call EXCEPT ![f] = [at |-> "threw", list |-> call[f].list, asked |-> call[f].asked]]
      BY <2>2, AtSet DEF IInv
    <3>2. call[f].asked # {}
      BY <2>2 DEF IInv, FlowInv, Outcome, Awaits
    <3> QED  BY <1>1, <1>3, <3>1, <3>2, CallMoves DEF Early
  <2> QED  BY <1>5, <2>1, <2>2 DEF getNetworkPassphrase
<1>6. CASE BuildTx(f)
  BY <1>1, <1>3, <1>6, Requesting DEF BuildTx, Requests
<1>7. CASE Assembled(f)
  BY <1>1, <1>3, <1>7, Requesting DEF Assembled, Requests
<1>8. CASE SimulationRefused(f)
  <2>1. \E how \in {"refused", "failure"} : End(f, how)
    BY <1>8 DEF SimulationRefused
  <2>2. f \notin lost => <<f, 1>> \notin applied \cup queue /\ <<f, 2>> \notin applied \cup queue
    BY <1>3, Nowhere DEF Known
  <2> QED  BY <1>1, <1>3, <2>1, <2>2, Ending DEF Ends
<1> QED  BY <1>4, <1>5, <1>6, <1>7, <1>8

LEMMA Failing ==
  ASSUME IInv, NEW f \in Flows, NEW error, Fails(f, error)
  PROVE  IInv'
<1>0. Shape /\ FlowInv(f) /\ call[f].at \in Requests
  BY DEF IInv, Fails
<1>1. f \notin booked
  BY <1>0, Unbooked DEF Requests
<1>2. PICK a, l, s :
        a \in {call[f].at, Thrown(f)} /\ s # {} /\ call' = [call EXCEPT ![f] = [at |-> a, list |-> l, asked |-> s]]
  <2>1. CASE TryNext(f)
    BY <1>0, <2>1, Tried
  <2>2. CASE End(f, Thrown(f))
    <3> DEFINE s == {Head(call[f].list)}
    <3>1. call' = [call EXCEPT ![f] = [at |-> Thrown(f), list |-> <<>>, asked |-> s]] /\ s # {}
      BY <1>0, <2>2, Ended
    <3> HIDE DEF s
    <3> QED  BY <3>1
  <2> QED  BY <2>1, <2>2 DEF Fails
<1>3. Thrown(f) \in {"noNetwork", "noLatest", "threw"} /\ (Thrown(f) = "noNetwork" => Awaits(f, "network"))
  BY DEF Thrown
<1>4. UNCHANGED <<kind, attempt, booked, queue, applied, failed>>
  BY DEF Fails
<1>5. CASE UNCHANGED <<lost, underway>>
  <2>1. a = call[f].at \/ (a \in {"noLatest", "threw"}) \/ (a = "noNetwork" /\ call[f].at \in Early)
    BY <1>2, <1>3 DEF Early, Awaits
  <2>2. a \in Early => Tx(f) \notin Known
    BY <1>0, <2>1 DEF FlowInv, Places, Early
  <2>3. a = "send" /\ f \notin lost => Tx(f) \notin Known
    BY <1>0, <2>1 DEF FlowInv, Places, Awaits
  <2>4. a \in {"send", "poll"} => kind[f] \in SubmissionKinds
    BY <1>0, <2>1 DEF FlowInv, Outcome
  <2>5. a = "getEntries" /\ kind[f] \in Extending => Tx(f) \in applied
    BY <1>0, <2>1 DEF FlowInv, Outcome, Awaits
  <2>6. a \notin {"success", "failure"}
    BY <1>0, <2>1 DEF Requests
  <2> QED  BY <1>1, <1>2, <1>4, <1>5, <2>2, <2>3, <2>4, <2>5, <2>6, CallMoves
<1>6. CASE Awaits(f, "send") /\ lost' = lost \cup {f} /\ underway' = underway \cup {Tx(f)}
  <2>1. a \in {"send", "threw"}
    BY <1>2, <1>6 DEF Thrown, Awaits
  <2>2. /\ call' = [g \in Flows |-> [at |-> call'[g].at, list |-> call'[g].list, asked |-> call'[g].asked]]
        /\ call'[f].at = a /\ call'[f].asked = s
        /\ \A g \in Flows \ {f} : call'[g] = call[g]
    BY <1>0, <1>2, CallSet
  <2>3. Shape'
    BY <1>0, <1>4, <2>2 DEF Shape
  <2>4. Tx(f)' = Tx(f) /\ Known' = Known \cup {Tx(f)} /\ f \in lost'
    BY <1>4, <1>6 DEF Tx, Known
  <2>5. attempt[f] = 1 => <<f, 2>> \notin Known'
    BY <1>0, <2>4, TxCases DEF FlowInv, Places
  <2>6. Places(f)'
    BY <1>0, <1>4, <2>1, <2>2, <2>4, <2>5 DEF FlowInv, Places, Early, Awaits
  <2>7. Outcome(f)'
    BY <1>0, <1>1, <1>2, <1>4, <1>6, <2>1, <2>2 DEF FlowInv, Outcome, Awaits
  <2>8. \A g \in Flows \ {f} : UNCHANGED View(g)
    BY <1>4, <1>6, <2>2 DEF View, Tx
  <2> QED  BY <1>0, <2>3, <2>6, <2>7, <2>8, FlowStep DEF FlowInv
<1> QED  BY <1>5, <1>6 DEF Fails

(* The node that refuses a sequence number does not hold the transaction. *)
LEMMA Sending ==
  ASSUME IInv, NEW f \in Flows, Sent(f)
  PROVE  IInv'
<1>0. Shape /\ FlowInv(f) /\ Awaits(f, "send") /\ kind[f] \in SubmissionKinds
  BY DEF IInv, Sent, FlowInv, Outcome, Awaits
<1>1. f \notin booked /\ UNCHANGED <<kind, booked, lost, underway, applied, failed>>
  BY <1>0, Unbooked DEF Awaits, Sent
<1>2. PICK status \in StatusOf(Tx(f)) :
        /\ queue' = Queued(Tx(f), status)
        /\ \/ /\ Rebuilds(f, status)
              /\ attempt' = [attempt EXCEPT ![f] = @ + 1]
              /\ Request(f, "account")
           \/ /\ ~Rebuilds(f, status) /\ status \in {"BAD_SEQ", "ERROR"}
              /\ End(f, "failure")
              /\ UNCHANGED attempt
           \/ /\ status \in {"PENDING", "DUPLICATE", "TRY_AGAIN_LATER"}
              /\ Request(f, "poll")
              /\ UNCHANGED attempt
  BY DEF Sent
<1>3. CASE End(f, "failure") /\ UNCHANGED attempt /\ status \in {"BAD_SEQ", "ERROR"}
  <2>1. UNCHANGED queue
    BY <1>2, <1>3 DEF Queued
  <2>2. f \notin lost => <<f, 1>> \notin applied \cup queue /\ <<f, 2>> \notin applied \cup queue
    BY <1>0, Nowhere DEF FlowInv, Places, Known
  <2> QED  BY <1>1, <1>3, <2>1, <2>2, Ending DEF Ends
<1>4. CASE Request(f, "poll") /\ UNCHANGED attempt /\ status # "PENDING"
  <2>1. UNCHANGED queue
    BY <1>2, <1>4 DEF Queued
  <2> QED  BY <1>0, <1>1, <1>4, <2>1, Requesting DEF Requests, Early
<1>5. CASE Request(f, "poll") /\ UNCHANGED attempt /\ status = "PENDING"
  <2>1. queue' = queue \cup {Tx(f)}
    BY <1>2, <1>5 DEF Queued
  <2>2. call' = [call EXCEPT ![f] = [at |-> "poll", list |-> OrderedEndpoints, asked |-> {}]]
    BY <1>0, <1>5, Requested
  <2>3. /\ call' = [g \in Flows |-> [at |-> call'[g].at, list |-> call'[g].list, asked |-> call'[g].asked]]
        /\ call'[f].at = "poll"
        /\ \A g \in Flows \ {f} : call'[g] = call[g]
    BY <1>0, <2>2, CallSet
  <2>4. Shape'
    BY <1>0, <1>1, <1>5, <2>3 DEF Shape
  <2>5. Tx(f)' = Tx(f) /\ Known' = Known \cup {Tx(f)}
    BY <1>1, <1>5, <2>1 DEF Tx, Known
  <2>6. Places(f)'
    <3>1. /\ attempt[f] = 1 => <<f, 2>> \notin Known'
          /\ attempt[f] = 2 /\ f \notin lost => <<f, 1>> \notin Known'
      BY <1>0, <2>5, TxCases DEF FlowInv, Places
    <3>2. f \notin lost => Tx(f) \notin applied \cup failed
      BY <1>0 DEF FlowInv, Places, Known
    <3> QED  BY <1>0, <1>1, <1>5, <2>3, <2>5, <3>1, <3>2 DEF FlowInv, Places, Early, Awaits
  <2>7. Outcome(f)'
    BY <1>0, <1>1, <2>3 DEF FlowInv, Outcome, Awaits
  <2>8. \A g \in Flows \ {f} : UNCHANGED View(g)
    BY <1>1, <1>5, <2>1, <2>3 DEF View, Tx
  <2> QED  BY <2>4, <2>6, <2>7, <2>8, FlowStep DEF FlowInv
<1>6. CASE Rebuilds(f, status) /\ attempt' = [attempt EXCEPT ![f] = @ + 1] /\ Request(f, "account")
  <2>1. UNCHANGED queue /\ attempt[f] = 1 /\ attempt'[f] = 2 /\ kind[f] # "payment"
    BY <1>0, <1>2, <1>6 DEF Queued, Rebuilds, Simulated, Shape
  <2>2. call' = [call EXCEPT ![f] = [at |-> "account", list |-> OrderedEndpoints, asked |-> {}]]
    BY <1>0, <1>6, Requested
  <2>3. /\ call' = [g \in Flows |-> [at |-> call'[g].at, list |-> call'[g].list, asked |-> call'[g].asked]]
        /\ call'[f].at = "account"
        /\ \A g \in Flows \ {f} : call'[g] = call[g]
    BY <1>0, <2>2, CallSet
  <2>4. attempt' \in [Flows -> 1..2] /\ \A g \in Flows \ {f} : attempt'[g] = attempt[g]
    BY <1>0, <1>6, <2>1 DEF Shape
  <2>5. Shape'
    BY <1>0, <1>1, <2>3, <2>4 DEF Shape
  <2>6. Tx(f)' = <<f, 2>> /\ Tx(f) = <<f, 1>> /\ UNCHANGED Known
    BY <1>1, <2>1 DEF Tx, Known
  <2>7. <<f, 2>> \notin Known /\ (f \notin lost => <<f, 1>> \notin Known)
    BY <1>0, <2>1, <2>6 DEF FlowInv, Places
  <2>8. Places(f)'
    BY <1>0, <1>1, <2>1, <2>3, <2>6, <2>7 DEF FlowInv, Places, Awaits, Known
  <2>9. Outcome(f)'
    BY <1>0, <1>1, <2>3 DEF FlowInv, Outcome, Awaits
  <2>10. \A g \in Flows \ {f} : UNCHANGED View(g)
    BY <1>1, <2>1, <2>3, <2>4 DEF View
  <2> QED  BY <2>5, <2>8, <2>9, <2>10, FlowStep DEF FlowInv
<1> QED  BY <1>2, <1>3, <1>4, <1>5, <1>6

LEMMA Polling ==
  ASSUME IInv, NEW f \in Flows, Found(f) \/ NotFound(f)
  PROVE  IInv'
<1>1. /\ UNCHANGED <<kind, attempt, booked, lost, underway, queue, applied, failed>>
      /\ FlowInv(f) /\ Awaits(f, "poll") /\ kind[f] \in SubmissionKinds /\ f \notin booked
  BY Unbooked DEF IInv, FlowInv, Outcome, Found, NotFound, network, Awaits
<1>2. CASE Found(f)
  <2>1. CASE Tx(f) \in applied /\ kind[f] \in Extending /\ Request(f, "getEntries")
    BY <1>1, <2>1, Requesting DEF Requests, Early
  <2>2. CASE Tx(f) \in applied /\ kind[f] \notin Extending /\ End(f, "success")
    BY <1>1, <2>2, Ending DEF Ends
  <2>3. CASE Tx(f) \in failed /\ End(f, "failure")
    <3>1. f \notin lost => <<f, 1>> \notin applied \cup queue /\ <<f, 2>> \notin applied \cup queue
      BY <1>1, <2>3, TxCases DEF IInv, FlowInv, Places, Known
    <3> QED  BY <1>1, <2>3, <3>1, Ending DEF Ends
  <2> QED  BY <1>2, <2>1, <2>2, <2>3 DEF Found
<1>3. CASE NotFound(f)
  <2>1. CASE End(f, "timeout")
    BY <1>1, <2>1, Ending DEF Ends
  <2>2. CASE Request(f, "poll")
    BY <1>1, <2>2, Requesting DEF Requests, Early
  <2> QED  BY <1>3, <2>1, <2>2 DEF NotFound
<1> QED  BY <1>1, <1>2, <1>3

(* The callers turn away, or store what was done. *)
LEMMA Calling ==
  ASSUME IInv, NEW f \in Flows,
         \/ GuardRefused(f) \/ DryRunRefused(f) \/ RestoreRefused(f) \/ FundRefused(f)
         \/ extendEntries(f) \/ restoreEntries(f) \/ fundChannels(f)
  PROVE  IInv'
<1>0. Shape /\ FlowInv(f)
  BY DEF IInv
<1>1. CASE \E away \in {"nothing", "refused"} : Turned(f, away)
  <2> PICK away \in {"nothing", "refused"} : Turned(f, away)
    BY <1>1
  <2>1. call' = [call EXCEPT ![f] = [at |-> away, list |-> call[f].list, asked |-> call[f].asked]]
    BY <1>0, AtSet DEF Turned
  <2>2. UNCHANGED <<kind, attempt, booked, lost, underway, queue, applied, failed>> /\ f \notin booked
    BY <1>0, Unbooked DEF Turned, network, Awaits
  <2> QED  BY <2>1, <2>2, CallMoves DEF Early
<1>2. CASE Stored(f) /\ kind[f] \in Extending
  <2> DEFINE s == {Head(call[f].list)}
  <2>1. call' = [call EXCEPT ![f] = [at |-> "success", list |-> <<>>, asked |-> s]]
    BY <1>0, <1>2, Ended DEF Stored
  <2> HIDE DEF s
  <2>2. /\ call' = [g \in Flows |-> [at |-> call'[g].at, list |-> call'[g].list, asked |-> call'[g].asked]]
        /\ call'[f].at = "success"
        /\ \A g \in Flows \ {f} : call'[g] = call[g]
    BY <1>0, <2>1, CallSet
  <2>3. UNCHANGED <<kind, attempt, lost, underway, queue, applied, failed>> /\ booked' = booked \cup {f}
    BY <1>2 DEF Stored, Book, network
  <2>4. Shape' /\ Tx(f)' = Tx(f) /\ Tx(f) \in applied /\ UNCHANGED Known
    BY <1>0, <1>2, <2>2, <2>3 DEF Shape, Stored, FlowInv, Outcome, Tx, Known
  <2>5. Places(f)'
    BY <1>0, <2>2, <2>3, <2>4 DEF FlowInv, Places, Early, Awaits
  <2>6. Outcome(f)'
    BY <1>0, <1>2, <2>2, <2>3, <2>4 DEF FlowInv, Outcome, Awaits, Extending, SubmissionKinds
  <2>7. \A g \in Flows \ {f} : UNCHANGED View(g)
    BY <2>2, <2>3 DEF View
  <2> QED  BY <2>4, <2>5, <2>6, <2>7, FlowStep DEF FlowInv
<1>3. CASE fundChannels(f)
  <2>1. /\ UNCHANGED <<call, kind, attempt, lost, underway, queue, applied, failed>>
        /\ booked' = booked \cup {f} /\ Awaits(f, "success") /\ kind[f] = "payment"
    BY <1>3 DEF fundChannels, Book, network
  <2>2. Shape' /\ Tx(f)' = Tx(f) /\ UNCHANGED Known
    BY <1>0, <2>1 DEF Shape, Tx, Known
  <2>3. Places(f)'
    BY <1>0, <2>1, <2>2 DEF FlowInv, Places, Awaits
  <2>4. Outcome(f)'
    BY <1>0, <2>1, <2>2 DEF FlowInv, Outcome, Awaits, SubmissionKinds
  <2>5. \A g \in Flows \ {f} : UNCHANGED View(g)
    BY <2>1 DEF View
  <2> QED  BY <2>2, <2>3, <2>4, <2>5, FlowStep DEF FlowInv
<1> QED  BY <1>1, <1>2, <1>3 DEF GuardRefused, DryRunRefused, RestoreRefused, FundRefused,
                               extendEntries, restoreEntries, Extending

LEMMA Reading ==
  ASSUME IInv, NEW f \in Flows, kind[f] \in ReadKinds,
         \/ ReadAnswered(f) \/ FeesMissing(f) \/ getCurrentLedger(f)
         \/ DryRun(f) \/ getMonitoredKeys(f)
  PROVE  IInv'
<1>1. /\ UNCHANGED <<kind, attempt, booked, lost, underway, queue, applied, failed>>
      /\ kind[f] \notin SubmissionKinds \cup Extending /\ kind[f] # "payment"
      /\ f \notin booked
  BY DEF ReadAnswered, FeesMissing, getCurrentLedger, DryRun, getMonitoredKeys, network,
         ReadKinds, SubmissionKinds, Extending, IInv, FlowInv, Outcome
<1>2. CASE End(f, "success") \/ End(f, "threw")
  BY <1>1, <1>2, Ending DEF Ends
<1>3. CASE Request(f, "getHealth")
  BY <1>1, <1>3, Requesting DEF Requests, Early
<1>4. CASE Awaits(f, "account") /\ Request(f, "simulate")
  <2>1. Tx(f) \notin Known
    BY <1>4 DEF IInv, FlowInv, Places, Early, Awaits
  <2> QED  BY <1>1, <1>4, <2>1, Requesting DEF Requests
<1> QED  BY <1>2, <1>3, <1>4 DEF ReadAnswered, FeesMissing, getCurrentLedger, DryRun, getMonitoredKeys

-----------------------------------------------------------------------------
(* The steps of the network move one transaction. *)
LEMMA Arriving ==
  ASSUME IInv, NEW f \in Flows, NEW a \in 1..2, Arrive(<<f, a>>)
  PROVE  IInv'
<1> DEFINE tx == <<f, a>>
<1>0. Shape /\ FlowInv(f) /\ tx \in {<<f, 1>>, <<f, 2>>}
  BY DEF IInv
<1>1. /\ tx \in underway /\ underway' = underway \ {tx} /\ queue' \in {queue, queue \cup {tx}}
      /\ UNCHANGED <<kind, call, attempt, booked, lost, applied, failed>>
  BY DEF Arrive, Queued
<1>2. f \in lost
  BY <1>0, <1>1 DEF FlowInv, Places
<1>3. Shape' /\ Tx(f)' = Tx(f)
  BY <1>0, <1>1 DEF Shape, Tx
<1>4. Known' \subseteq Known
  BY <1>1 DEF Known
<1>5. Places(f)'
  BY <1>0, <1>1, <1>2, <1>3, <1>4 DEF FlowInv, Places, Awaits
<1>6. Outcome(f)'
  BY <1>0, <1>1, <1>2, <1>3 DEF FlowInv, Outcome, Awaits
<1>7. \A g \in Flows \ {f} : UNCHANGED View(g)
  BY <1>1 DEF View
<1> QED  BY <1>3, <1>5, <1>6, <1>7, FlowStep DEF FlowInv

LEMMA Closing ==
  ASSUME IInv, NEW f \in Flows, NEW a \in 1..2, Close(<<f, a>>)
  PROVE  IInv'
<1> DEFINE tx == <<f, a>>
<1>0. Shape /\ FlowInv(f) /\ tx \in {<<f, 1>>, <<f, 2>>}
  BY DEF IInv
<1>1. /\ tx \in queue /\ queue' = queue \ {tx}
      /\ \/ applied' = applied \cup {tx} /\ UNCHANGED failed
         \/ failed' = failed \cup {tx} /\ UNCHANGED applied
         \/ UNCHANGED <<applied, failed>>
      /\ UNCHANGED <<kind, call, attempt, booked, lost, underway>>
  BY DEF Close
<1>2. Shape' /\ Tx(f)' = Tx(f)
  BY <1>0, <1>1 DEF Shape, Tx
<1>3. Known' \subseteq Known /\ applied \subseteq applied' /\ tx \in Known
  BY <1>1 DEF Known
<1>4. f \notin lost => tx = Tx(f) /\ tx \notin applied \cup failed
  BY <1>0, <1>1, <1>3, TxCases DEF FlowInv, Places
<1>5. Places(f)'
  BY <1>0, <1>1, <1>2, <1>3, <1>4 DEF FlowInv, Places, Awaits
<1>6. Outcome(f)'
  BY <1>0, <1>1, <1>2, <1>3 DEF FlowInv, Outcome, Awaits
<1>7. \A g \in Flows \ {f} : UNCHANGED View(g)
  BY <1>1 DEF View
<1> QED  BY <1>2, <1>5, <1>6, <1>7, FlowStep DEF FlowInv

-----------------------------------------------------------------------------
LEMMA NextInv ==
  ASSUME IInv, [Next]_vars
  PROVE  IInv'
<1>1. ASSUME NEW f \in Flows, Method(f)  PROVE  IInv'
  <2>1. CASE Step(f)
    BY <2>1, Preparing, Failing, Sending, Polling DEF Step
  <2>2. CASE \/ GuardRefused(f) \/ DryRunRefused(f) \/ RestoreRefused(f) \/ FundRefused(f)
             \/ extendEntries(f) \/ restoreEntries(f) \/ fundChannels(f)
    BY <2>2, Calling
  <2>3. CASE /\ kind[f] \in ReadKinds
             /\ \/ ReadAnswered(f) \/ FeesMissing(f) \/ getCurrentLedger(f)
                \/ DryRun(f) \/ getMonitoredKeys(f)
    BY <2>3, Reading
  <2> QED  BY <1>1, <2>1, <2>2, <2>3
           DEF Method, submitExtension, submitExtensionWithFeeBump, submitRestore, sendPayments, Read
<1>2. ASSUME \/ \E e \in Endpoints : OtherFails(e) \/ CooldownEnds(e)
             \/ OtherTransaction \/ UNCHANGED vars
      PROVE  IInv'
  <2>1. UNCHANGED <<kind, call, attempt, booked, lost, underway, queue, applied, failed>>
    BY <1>2 DEF OtherFails, CooldownEnds, OtherTransaction, vars, network
  <2>2. Shape' /\ \A g \in Flows : UNCHANGED View(g)
    BY <2>1 DEF IInv, Shape, View
  <2> QED  BY <2>2, Unmoved DEF IInv
<1>3. ASSUME NEW tx \in Txs, Arrive(tx) \/ Close(tx)  PROVE  IInv'
  <2>1. PICK f \in Flows, a \in 1..2 : tx = <<f, a>>
    BY DEF Txs
  <2> QED  BY <1>3, <2>1, Arriving, Closing
<1> QED  BY <1>1, <1>2, <1>3 DEF Next

LEMMA InvSafe ==
  ASSUME IInv
  PROVE  OutcomeIsReal /\ PaidTwiceOnlyAfterLoss /\ NeverRefusedUnasked
<1> SUFFICES ASSUME NEW f \in Flows
             PROVE  /\ kind[f] \in SubmissionKinds /\ (Awaits(f, "success") \/ f \in booked) => Tx(f) \in applied
                    /\ kind[f] \in SubmissionKinds /\ Awaits(f, "failure") /\ f \notin lost =>
                         TxsOf(f) \cap (applied \cup queue \cup underway) = {}
                    /\ kind[f] \in Extending /\ ExitCode(f) = 0 => f \in booked \/ Awaits(f, "nothing")
                    /\ TxsOf(f) \subseteq applied \cup queue => f \in lost /\ kind[f] # "payment"
                    /\ Awaits(f, "threw") => call[f].asked # {}
  BY DEF OutcomeIsReal, PaidTwiceOnlyAfterLoss, NeverRefusedUnasked
<1>0. Shape /\ FlowInv(f)
  BY DEF IInv
<1>1. TxsOf(f) = {<<f, 1>>, <<f, 2>>}
  BY DEF TxsOf
<1>2. kind[f] \in SubmissionKinds /\ (Awaits(f, "success") \/ f \in booked) => Tx(f) \in applied
  BY <1>0 DEF FlowInv, Outcome
<1>3. kind[f] \in SubmissionKinds /\ Awaits(f, "failure") /\ f \notin lost =>
        TxsOf(f) \cap (applied \cup queue \cup underway) = {}
  BY <1>0, <1>1 DEF FlowInv, Outcome, Places
<1>4. kind[f] \in Extending /\ ExitCode(f) = 0 => f \in booked \/ Awaits(f, "nothing")
  BY <1>0 DEF FlowInv, Outcome, ExitCode, Awaits
<1>5. TxsOf(f) \subseteq applied \cup queue => f \in lost /\ kind[f] # "payment"
  BY <1>0, <1>1, TxCases DEF FlowInv, Places, Known
<1>6. Awaits(f, "threw") => call[f].asked # {}
  BY <1>0 DEF FlowInv, Outcome, Awaits
<1> QED  BY <1>2, <1>3, <1>4, <1>5, <1>6

(* The inductive invariant: every transaction of a submission is where the *)
(* progress of the submission says it is.                                  *)
THEOREM Invariant == Spec => []IInv
<1>1. IInv /\ [Next]_vars => IInv'
  BY NextInv
<1> QED  BY <1>1, InitInv, PTL DEF Spec

(* callWithFailover, submitTransaction and pollTransaction: "success" is   *)
(* on chain, and a "failure" without a lost answer leaves nothing behind.  *)
THEOREM OutcomesAreReal == Spec => []OutcomeIsReal
BY Invariant, InvSafe, PTL

(* The retry after txBadSeq (rebuild and send once more) pays twice only   *)
(* when the answer to an earlier send was lost; a payment never does.      *)
THEOREM PaidOnce == Spec => []PaidTwiceOnlyAfterLoss
BY Invariant, InvSafe, PTL

(* getOrderedEndpoints: no call fails without a request, though every      *)
(* endpoint be in its cooldown.                                            *)
THEOREM AskedFirst == Spec => []NeverRefusedUnasked
BY Invariant, InvSafe, PTL
================================================================================
