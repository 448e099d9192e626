-------------------------- MODULE BookkeepingProofs --------------------------
(***************************************************************************)
(* Proofs about the small machines around the database: each section       *)
(* states, for one of them, what always holds of its specification, and    *)
(* the inductive invariant it follows from.                                *)
(***************************************************************************)
EXTENDS RateLimits, TtlSamples, CostSnapshots, Startup, Backup, AlertConfigs,
        StateDiff, Incidents, HealthReports, FiniteSums, SequenceTheorems, TLAPS

-----------------------------------------------------------------------------
(* RateLimits *)

Ascending(s) == \A i, j \in 1 .. Len(s) : i <= j => s[i] <= s[j]

(* t is what is left of s without its first elements, none above b. *)
LeftOf(t, s, b) ==
  /\ Len(t) <= Len(s)
  /\ \A i \in 1 .. Len(t) : t[i] = s[Len(s) - Len(t) + i]
  /\ \A i \in 1 .. Len(s) - Len(t) : s[i] <= b

(* What the filter keeps of an ascending list is its end. *)
LEMMA FilterKeepsTheEnd ==
  ASSUME RateAssumption, now \in Nat, recentRequestTimes \in Seq(Int), Ascending(recentRequestTimes)
  PROVE  /\ InWindow \in Seq(Int)
         /\ LeftOf(InWindow, recentRequestTimes, now - Window)
         /\ \A i \in 1 .. Len(InWindow) : InWindow[i] > now - Window
<1> DEFINE r == recentRequestTimes
           kept == {i \in DOMAIN r : r[i] > now - Window}
<1>1. PICK m \in Nat : m = Len(r)
  BY LenProperties
<1>2. DOMAIN r = 1 .. m /\ \A i \in 1 .. m : r[i] \in Int
  BY <1>1, LenProperties, ElementOfSeq
<1>3. PICK k \in 0 .. m : \A i \in 1 .. m : i \in kept <=> i > k
  <2> DEFINE low == {i \in 0 .. m : i = 0 \/ i \notin kept}
  <2>1. PICK k \in low : \A j \in low : j <= k
    <3>1. 0 \in low
      OBVIOUS
    <3>2. low \in SUBSET (0 .. m) /\ low # {}
      BY <3>1
    <3> HIDE DEF low
    <3> QED
      BY <3>2, GreatestNatural
  <2>2. k \in 0 .. m
    OBVIOUS
  <2>3. ASSUME NEW i \in 1 .. m, i > k
        PROVE  i \in kept
    BY <2>1, <2>3
  <2>4. ASSUME NEW i \in 1 .. m, i <= k
        PROVE  i \notin kept
    <3>1. k \notin kept /\ k \in 1 .. m
      BY <2>1, <2>4
    <3>2. ~(r[k] > now - Window)
      BY <3>1, <1>2
    <3>3. r[i] <= r[k]
      BY <3>1, <2>4, <1>1 DEF Ascending
    <3>4. r[i] \in Int /\ r[k] \in Int
      BY <1>2, <3>1
    <3> QED
      BY <3>2, <3>3, <3>4 DEF RateAssumption
  <2> HIDE DEF low, kept
  <2>5. \A i \in 1 .. m : i \in kept <=> i > k
    <3> TAKE i \in 1 .. m
    <3>1. CASE i > k
      BY <3>1, <2>3
    <3>2. CASE i <= k
      BY <3>2, <2>2, <2>4
    <3> QED
      BY <3>1, <3>2, <2>2
  <2> QED
    BY <2>2, <2>5
<1>4. kept = (k + 1) .. m
  <2>1. kept \subseteq 1 .. m
    BY <1>2
  <2> HIDE DEF kept
  <2>2. \A i : i \in kept <=> i \in 1 .. m /\ i > k
    BY <2>1, <1>3
  <2>3. \A i : i \in (k + 1) .. m <=> i \in 1 .. m /\ i > k
    OBVIOUS
  <2> QED
    BY <2>2, <2>3
<1>4a. \A i \in 1 .. m : i \in kept <=> r[i] > now - Window
  BY <1>2
<1>4b. InWindow = [j \in 1 .. Cardinality(kept) |->
                     r[CHOOSE i \in kept : Cardinality({h \in kept : h <= i}) = j]]
  BY DEF InWindow
<1> HIDE DEF kept
<1>5. Cardinality(kept) = m - k
  <2>1. Cardinality((k + 1) .. m) = IF k + 1 > m THEN 0 ELSE m - (k + 1) + 1
    BY FS_Interval
  <2> QED
    BY <2>1, <1>4
<1>6. ASSUME NEW j \in 1 .. m - k
      PROVE  (CHOOSE i \in kept : Cardinality({h \in kept : h <= i}) = j) = k + j
  <2>1. ASSUME NEW i \in kept
        PROVE  Cardinality({h \in kept : h <= i}) = i - k
    <3>1. {h \in kept : h <= i} = (k + 1) .. i
      BY <1>4
    <3>2. i \in Nat /\ i >= k + 1
      BY <1>4
    <3>3. Cardinality((k + 1) .. i) = IF k + 1 > i THEN 0 ELSE i - (k + 1) + 1
      BY <3>2, FS_Interval
    <3>4. Cardinality({h \in kept : h <= i}) = Cardinality((k + 1) .. i)
      BY <3>1
    <3> QED
      BY <3>2, <3>3, <3>4
  <2>2. k + j \in kept
    BY <1>4
  <2>3. \A i \in kept : i \in Int
    BY <1>4
  <2>4. \A i \in kept : Cardinality({h \in kept : h <= i}) = j <=> i = k + j
    BY <2>1, <2>3
  <2> QED
    BY <2>2, <2>4
<1>7. InWindow = [j \in 1 .. m - k |-> r[k + j]]
  <2> DEFINE nth(j) == CHOOSE i \in kept : Cardinality({h \in kept : h <= i}) = j
  <2>1. InWindow = [j \in 1 .. m - k |-> r[nth(j)]]
    BY <1>4b, <1>5
  <2>2. \A j \in 1 .. m - k : nth(j) = k + j
    BY <1>6
  <2> HIDE DEF nth
  <2> QED
    BY <2>1, <2>2
<1>8. \A j \in 1 .. m - k : k + j \in 1 .. m
  OBVIOUS
<1>9. InWindow \in Seq(Int)
  BY <1>7, <1>8, <1>2, SeqDef
<1>10. Len(InWindow) = m - k
  BY <1>7, <1>9, LenProperties
<1>11. ASSUME NEW i \in 1 .. m - k
       PROVE  InWindow[i] = r[k + i] /\ InWindow[i] > now - Window
  <2>1. k + i \in kept
    BY <1>4
  <2> QED
    BY <2>1, <1>7, <1>4a, <1>8
<1>12. ASSUME NEW i \in 1 .. k
       PROVE  r[i] <= now - Window
  <2>1. i \notin kept /\ i \in 1 .. m
    BY <1>3
  <2> QED
    BY <2>1, <1>2, <1>4a DEF RateAssumption
<1>13. LeftOf(InWindow, r, now - Window)
  BY <1>1, <1>10, <1>11, <1>12 DEF LeftOf
<1> QED
  BY <1>9, <1>10, <1>11, <1>13

(* The requests: the list is the end of all that was given out, which      *)
(* ascends; a time to come is exactly a window after the request that it   *)
(* waits for.                                                              *)
SlotsInv ==
  /\ now \in Nat
  /\ granted \in Seq(Int) /\ recentRequestTimes \in Seq(Int)
  /\ Ascending(granted)
  /\ LeftOf(recentRequestTimes, granted, now - Window)
  /\ \A i \in 1 .. Len(granted) - maxRequestsPerSecond :
       granted[i + maxRequestsPerSecond] - granted[i] >= Window
  /\ \A i \in 1 .. Len(granted) : granted[i] > now =>
       /\ i > maxRequestsPerSecond
       /\ granted[i - maxRequestsPerSecond] + Window = granted[i]

(* A request that is given its slot keeps all that. *)
LEMMA SlotKeeps ==
  ASSUME RateAssumption, SlotsInv, acquireSlot
  PROVE  SlotsInv'
<1> DEFINE list == InWindow
           max == maxRequestsPerSecond
           s == Slot(InWindow)
<1>1. PICK n \in Nat : n = Len(granted)
  BY LenProperties DEF SlotsInv
<1>2. PICK m \in Nat : m = Len(recentRequestTimes)
  BY LenProperties DEF SlotsInv
<1>3. \A i \in 1 .. n : granted[i] \in Int
  BY <1>1, ElementOfSeq DEF SlotsInv
<1>4. Ascending(recentRequestTimes)
  <2>1. m <= n /\ \A i \in 1 .. m : recentRequestTimes[i] = granted[n - m + i]
    BY <1>1, <1>2 DEF SlotsInv, LeftOf
  <2>2. \A i, j \in 1 .. n : i <= j => granted[i] <= granted[j]
    BY <1>1 DEF SlotsInv, Ascending
  <2>3. ASSUME NEW i \in 1 .. m, NEW j \in 1 .. m, i <= j
        PROVE  recentRequestTimes[i] <= recentRequestTimes[j]
    <3>1. n - m + i \in 1 .. n /\ n - m + j \in 1 .. n /\ n - m + i <= n - m + j
      BY <2>1, <2>3
    <3> QED
      BY <3>1, <2>1, <2>2
  <2> QED
    BY <2>3, <1>2 DEF Ascending
<1>5. /\ list \in Seq(Int)
      /\ LeftOf(list, recentRequestTimes, now - Window)
      /\ \A i \in 1 .. Len(list) : list[i] > now - Window
  BY <1>4, FilterKeepsTheEnd DEF SlotsInv
<1>6. PICK l \in Nat : l = Len(list)
  BY <1>5, LenProperties
<1>7. max \in Nat \ {0} /\ Window \in Nat \ {0} /\ now \in Nat
  BY DEF RateAssumption, SlotsInv
<1> HIDE DEF list, max
<1>8. /\ l <= m /\ m <= n
      /\ \A i \in 1 .. l : list[i] = granted[n - l + i]
      /\ \A i \in 1 .. n - l : granted[i] <= now - Window
      /\ \A i \in 1 .. l : granted[n - l + i] > now - Window
  <2>1. l <= m /\ m <= n
    BY <1>1, <1>2, <1>5, <1>6 DEF LeftOf, SlotsInv
  <2>2. ASSUME NEW i \in 1 .. l
        PROVE  list[i] = granted[n - l + i]
    <3>1. list[i] = recentRequestTimes[m - l + i]
      BY <1>5, <1>6, <1>2 DEF LeftOf
    <3>2. m - l + i \in 1 .. m
      BY <2>1
    <3>3. recentRequestTimes[m - l + i] = granted[n - m + (m - l + i)]
      BY <3>2, <1>1, <1>2 DEF SlotsInv, LeftOf
    <3> QED
      BY <3>1, <3>3, <2>1
  <2>3. ASSUME NEW i \in 1 .. n - l
        PROVE  granted[i] <= now - Window
    <3>1. CASE i <= n - m
      BY <3>1, <2>1, <1>1, <1>2 DEF SlotsInv, LeftOf
    <3>2. CASE i > n - m
      <4>1. PICK j \in 1 .. m - l : i = n - m + j
        BY <3>2, <2>1
      <4>2. recentRequestTimes[j] <= now - Window
        BY <1>5, <1>6, <1>2 DEF LeftOf
      <4>3. recentRequestTimes[j] = granted[n - m + j]
        BY <1>1, <1>2 DEF SlotsInv, LeftOf
      <4> QED
        BY <4>1, <4>2, <4>3
    <3> QED
      BY <3>1, <3>2, <2>1
  <2> QED
    BY <2>1, <2>2, <2>3, <1>5, <1>6
<1>9. /\ s \in Int
      /\ n > 0 => granted[n] <= s
      /\ n >= max => s - granted[n + 1 - max] >= Window
      /\ s > now => n >= max /\ granted[n + 1 - max] + Window = s
  <2>1. ASSUME n > 0, granted[n] > now
        PROVE  /\ n > max /\ n - max \in 1 .. n /\ n + 1 - max \in 1 .. n
               /\ granted[n - max] \in Int /\ granted[n + 1 - max] \in Int
               /\ granted[n - max] + Window = granted[n]
               /\ granted[n - max] <= granted[n + 1 - max]
    <3>1. n > max /\ granted[n - max] + Window = granted[n]
      BY <2>1, <1>1 DEF SlotsInv, max
    <3>2. n - max \in 1 .. n /\ n + 1 - max \in 1 .. n /\ n - max <= n + 1 - max
      BY <3>1, <1>7
    <3>3. granted[n - max] <= granted[n + 1 - max]
      BY <3>2, <1>1 DEF SlotsInv, Ascending
    <3> QED
      BY <3>1, <3>2, <3>3, <1>3
  <2>2. CASE l < max
    <3>1. s = now
      BY <2>2, <1>6 DEF Slot, list, max
    <3>2. ASSUME n > 0, granted[n] > now
          PROVE  FALSE
      <4>1. n - max \in 1 .. n - l
        BY <3>2, <2>1, <2>2, <1>7
      <4>2. granted[n - max] <= now - Window
        BY <4>1, <1>8
      <4>3. granted[n] \in Int
        BY <3>2, <1>3
      <4> QED
        BY <3>2, <2>1, <4>2, <4>3, <1>7
    <3>3. ASSUME n >= max
          PROVE  s - granted[n + 1 - max] >= Window
      <4>1. n + 1 - max \in 1 .. n - l /\ n + 1 - max \in 1 .. n
        BY <3>3, <2>2, <1>7, <1>8
      <4>2. granted[n + 1 - max] <= now - Window /\ granted[n + 1 - max] \in Int
        BY <4>1, <1>8, <1>3
      <4> QED
        BY <4>2, <3>1, <1>7
    <3>4. n > 0 => granted[n] <= now
      BY <3>2, <1>3, <1>7
    <3> QED
      BY <3>1, <3>3, <3>4, <1>7
  <2>3. CASE l >= max
    <3>1. s = list[l - max + 1] + Window
      BY <2>3, <1>6, <1>7 DEF Slot, list, max
    <3>2. l - max + 1 \in 1 .. l /\ n - l + (l - max + 1) = n + 1 - max /\ n >= max
          /\ n + 1 - max \in 1 .. n
      BY <2>3, <1>7, <1>8
    <3>3. list[l - max + 1] = granted[n + 1 - max] /\ granted[n + 1 - max] > now - Window
          /\ granted[n + 1 - max] \in Int
      BY <3>2, <1>8, <1>3
    <3>4. ASSUME n > 0
          PROVE  granted[n] <= s
      <4>1. CASE granted[n] > now
        BY <4>1, <3>4, <2>1, <3>1, <3>3, <1>7
      <4>2. CASE ~(granted[n] > now)
        <5>1. granted[n] \in Int
          BY <3>4, <1>3
        <5> QED
          BY <4>2, <5>1, <3>1, <3>3, <1>7
      <4> QED
        BY <4>1, <4>2
    <3> QED
      BY <3>1, <3>2, <3>3, <3>4, <1>7
  <2> QED
    BY <2>2, <2>3, <1>7
<1>10. recentRequestTimes' = Append(list, s) /\ granted' = Append(granted, s) /\ now' = now
  BY DEF acquireSlot, list
<1> HIDE DEF s
<1>11. /\ granted' \in Seq(Int) /\ Len(granted') = n + 1
       /\ granted'[n + 1] = s
       /\ \A i \in 1 .. n : granted'[i] = granted[i]
  BY <1>1, <1>9, <1>10, AppendProperties DEF SlotsInv
<1>12. /\ recentRequestTimes' \in Seq(Int) /\ Len(recentRequestTimes') = l + 1
       /\ recentRequestTimes'[l + 1] = s
       /\ \A i \in 1 .. l : recentRequestTimes'[i] = list[i]
  BY <1>5, <1>6, <1>9, <1>10, AppendProperties
<1>13. Ascending(granted)'
  <2>1. ASSUME NEW i \in 1 .. n + 1, NEW j \in 1 .. n + 1, i <= j
        PROVE  granted'[i] <= granted'[j]
    <3>1. CASE j <= n
      <4>1. i \in 1 .. n /\ j \in 1 .. n
        BY <2>1, <3>1
      <4>2. granted[i] <= granted[j]
        BY <4>1, <2>1, <1>1 DEF SlotsInv, Ascending
      <4> QED
        BY <4>1, <4>2, <1>11
    <3>2. CASE j = n + 1 /\ i = n + 1
      BY <3>2, <1>11, <1>9
    <3>3. CASE j = n + 1 /\ i <= n
      <4>1. i \in 1 .. n /\ n \in 1 .. n /\ i <= n
        BY <3>3
      <4>2. granted[i] <= granted[n] /\ granted[i] \in Int /\ granted[n] \in Int
        BY <4>1, <1>1, <1>3 DEF SlotsInv, Ascending
      <4>3. granted[n] <= s
        BY <4>1, <1>9
      <4>4. granted'[i] = granted[i] /\ granted'[j] = s
        BY <4>1, <3>3, <1>11
      <4> QED
        BY <4>2, <4>3, <4>4, <1>9
    <3> QED
      BY <3>1, <3>2, <3>3
  <2> QED
    BY <2>1, <1>11 DEF Ascending
<1>14. LeftOf(recentRequestTimes', granted', now' - Window)
  <2>1. ASSUME NEW i \in 1 .. l + 1
        PROVE  recentRequestTimes'[i] = granted'[n - l + i]
    <3>1. CASE i = l + 1
      BY <3>1, <1>11, <1>12, <1>8
    <3>2. CASE i \in 1 .. l
      <4>1. n - l + i \in 1 .. n
        BY <3>2, <1>8
      <4> QED
        BY <3>2, <4>1, <1>8, <1>11, <1>12
    <3> QED
      BY <3>1, <3>2
  <2>2. ASSUME NEW i \in 1 .. n - l
        PROVE  granted'[i] <= now' - Window
    BY <1>8, <1>10, <1>11
  <2>3. n + 1 - (l + 1) = n - l /\ l + 1 <= n + 1
    BY <1>8
  <2> QED
    BY <2>1, <2>2, <2>3, <1>11, <1>12 DEF LeftOf
<1>15. ASSUME NEW i \in 1 .. n + 1 - max
       PROVE  granted'[i + max] - granted'[i] >= Window
  <2>1. CASE i = n + 1 - max
    <3>1. i + max = n + 1 /\ i \in 1 .. n /\ n >= max
      BY <2>1, <1>7
    <3> QED
      BY <3>1, <2>1, <1>9, <1>11
  <2>2. CASE i # n + 1 - max
    <3>1. i \in 1 .. n - max /\ i \in 1 .. n /\ i + max \in 1 .. n
      BY <2>2, <1>7
    <3>2. granted[i + max] - granted[i] >= Window
      BY <3>1, <1>1 DEF SlotsInv, max
    <3> QED
      BY <3>1, <3>2, <1>11
  <2> QED
    BY <2>1, <2>2
<1>16. ASSUME NEW i \in 1 .. n + 1, granted'[i] > now'
       PROVE  i > max /\ granted'[i - max] + Window = granted'[i]
  <2>1. CASE i = n + 1
    <3>1. n >= max /\ granted[n + 1 - max] + Window = s
      BY <2>1, <1>16, <1>9, <1>10, <1>11
    <3>2. n + 1 - max \in 1 .. n
      BY <3>1, <1>7
    <3> QED
      BY <2>1, <3>1, <3>2, <1>7, <1>11
  <2>2. CASE i \in 1 .. n
    <3>1. i > max /\ granted[i - max] + Window = granted[i]
      BY <2>2, <1>16, <1>10, <1>11, <1>1 DEF SlotsInv, max
    <3>2. i - max \in 1 .. n
      BY <2>2, <3>1, <1>7
    <3> QED
      BY <3>1, <3>2, <2>2, <1>11
  <2> QED
    BY <2>1, <2>2
<1>17. \A i \in 1 .. Len(granted') - max : granted'[i + max] - granted'[i] >= Window
  <2>1. Len(granted') = n + 1
    BY <1>11
  <2> TAKE i \in 1 .. Len(granted') - max
  <2>2. i \in 1 .. n + 1 - max
    BY <2>1, <1>7
  <2> QED
    BY <2>2, <1>15
<1>18. \A i \in 1 .. Len(granted') : granted'[i] > now' =>
         i > max /\ granted'[i - max] + Window = granted'[i]
  BY <1>11, <1>16
<1>19. now' \in Nat
  BY <1>7, <1>10
<1> QED
  BY <1>11, <1>12, <1>13, <1>14, <1>17, <1>18, <1>19 DEF SlotsInv, max

LEMMA TickKeepsSlots ==
  ASSUME RateAssumption, SlotsInv, Tick
  PROVE  SlotsInv'
<1> DEFINE max == maxRequestsPerSecond
<1>1. PICK n \in Nat : n = Len(granted)
  BY LenProperties DEF SlotsInv
<1>2. PICK m \in Nat : m = Len(recentRequestTimes)
  BY LenProperties DEF SlotsInv
<1>3. \A i \in 1 .. n : granted[i] \in Int
  BY <1>1, ElementOfSeq DEF SlotsInv
<1>4. now' = now + 1 /\ granted' = granted /\ recentRequestTimes' = recentRequestTimes
  BY DEF Tick
<1>5. max \in Nat \ {0} /\ Window \in Nat \ {0} /\ now \in Nat
  BY DEF RateAssumption, SlotsInv
<1> HIDE DEF max
<1>6. LeftOf(recentRequestTimes, granted, now + 1 - Window)
  <2>1. ASSUME NEW i \in 1 .. n - m
        PROVE  granted[i] <= now + 1 - Window
    <3>1. granted[i] <= now - Window
      BY <1>1, <1>2 DEF SlotsInv, LeftOf
    <3>2. m <= n
      BY <1>1, <1>2 DEF SlotsInv, LeftOf
    <3>3. granted[i] \in Int
      BY <3>2, <1>3
    <3> QED
      BY <3>1, <3>3, <1>5
  <2> QED
    BY <2>1, <1>1, <1>2 DEF SlotsInv, LeftOf
<1>7. ASSUME NEW i \in 1 .. n, granted[i] > now + 1
      PROVE  i > max /\ granted[i - max] + Window = granted[i]
  <2>1. granted[i] > now
    BY <1>7, <1>3, <1>5
  <2> QED
    BY <2>1, <1>1 DEF SlotsInv, max
<1>8. SlotsInv' = ( /\ now + 1 \in Nat
                    /\ granted \in Seq(Int) /\ recentRequestTimes \in Seq(Int)
                    /\ Ascending(granted)
                    /\ LeftOf(recentRequestTimes, granted, now + 1 - Window)
                    /\ \A i \in 1 .. Len(granted) - max : granted[i + max] - granted[i] >= Window
                    /\ \A i \in 1 .. Len(granted) : granted[i] > now + 1 =>
                         i > max /\ granted[i - max] + Window = granted[i])
  BY <1>4 DEF SlotsInv, max
<1>9. now + 1 \in Nat
  BY <1>5
<1>10. \A i \in 1 .. Len(granted) : granted[i] > now + 1 =>
         i > max /\ granted[i - max] + Window = granted[i]
  BY <1>7, <1>1
<1>11. /\ granted \in Seq(Int) /\ recentRequestTimes \in Seq(Int)
       /\ Ascending(granted)
       /\ \A i \in 1 .. Len(granted) - max : granted[i + max] - granted[i] >= Window
  BY DEF SlotsInv, max
<1> QED
  BY <1>6, <1>8, <1>9, <1>10, <1>11

(* w, a start and a count, is a window of the tool at time t: the calls    *)
(* before it were no later than its start, and all of them but a limit's   *)
(* worth a whole window earlier.                                           *)
CountsIn(w, calls, t) ==
  /\ w \in Int \X Nat /\ w[1] <= t
  /\ w[2] <= toolLimit /\ w[2] <= Len(calls)
  /\ \A i \in 1 .. Len(calls) - w[2] : calls[i] <= w[1]
  /\ \A i \in 1 .. Len(calls) - w[2] - toolLimit : calls[i] + Window <= w[1]

CallsInv ==
  /\ now \in Nat
  /\ consumed \in Seq(Int)
  /\ \A i \in 1 .. Len(consumed) : consumed[i] <= now
  /\ IF toolWindow = <<>> THEN consumed = <<>> ELSE CountsIn(toolWindow, consumed, now)
  /\ \A i \in 1 .. Len(consumed) - 2 * toolLimit :
       consumed[i + 2 * toolLimit] - consumed[i] >= Window

(* The window a call finds, begun now when the last one is over            *)
LEMMA CurrentWindowCounts ==
  ASSUME RateAssumption, CallsInv
  PROVE  CountsIn(CurrentWindow, consumed, now)
<1>1. PICK n \in Nat : n = Len(consumed)
  BY LenProperties DEF CallsInv
<1>2. \A i \in 1 .. n : consumed[i] \in Int /\ consumed[i] <= now
  BY <1>1, ElementOfSeq DEF CallsInv
<1>3. toolLimit \in Nat /\ Window \in Nat /\ now \in Nat
  BY DEF RateAssumption, CallsInv
<1>4. CASE toolWindow = <<>>
  <2>1. CurrentWindow = <<now, 0>> /\ consumed = <<>>
    BY <1>4 DEF CurrentWindow, CallsInv
  <2>2. Len(consumed) = 0
    BY <2>1
  <2> QED
    BY <2>1, <2>2, <1>3 DEF CountsIn
<1>5. CASE toolWindow # <<>> /\ now - toolWindow[1] >= Window
  <2>1. PICK w \in Int \X Nat : w = toolWindow
    BY <1>5 DEF CallsInv, CountsIn
  <2>2. CountsIn(w, consumed, now)
    BY <1>5, <2>1 DEF CallsInv
  <2>3. CurrentWindow = <<now, 0>>
    BY <1>5 DEF CurrentWindow
  <2>4. ASSUME NEW i \in 1 .. n - toolLimit
        PROVE  consumed[i] + Window <= now
    <3>1. i \in 1 .. n - w[2] /\ i \in 1 .. n
      BY <2>2, <1>1, <1>3 DEF CountsIn
    <3>2. consumed[i] <= w[1]
      BY <3>1, <2>2, <1>1 DEF CountsIn
    <3>3. w[1] \in Int /\ now - w[1] >= Window /\ consumed[i] \in Int
      BY <2>1, <1>5, <3>1, <1>2
    <3> QED
      BY <3>2, <3>3, <1>3
  <2>5. n - 0 = n /\ 0 <= n /\ now <= now /\ 0 <= toolLimit
    BY <1>3
  <2> QED
    BY <2>3, <2>4, <2>5, <1>1, <1>2, <1>3 DEF CountsIn
<1>6. CASE toolWindow # <<>> /\ ~(now - toolWindow[1] >= Window)
  BY <1>6 DEF CurrentWindow, CallsInv
<1> QED
  BY <1>4, <1>5, <1>6

(* A call that is counted or refused keeps all that. *)
LEMMA CallKeeps ==
  ASSUME RateAssumption, CallsInv, tryConsume
  PROVE  CallsInv'
<1>1. PICK w : w = CurrentWindow
  OBVIOUS
<1>2. CountsIn(w, consumed, now)
  BY <1>1, CurrentWindowCounts
<1>3. PICK s \in Int, c \in Int : w = <<s, c>> /\ c \in Nat
  BY <1>2 DEF CountsIn
<1>4. PICK n \in Nat : n = Len(consumed)
  BY LenProperties DEF CallsInv
<1>5. \A i \in 1 .. n : consumed[i] \in Int /\ consumed[i] <= now
  BY <1>4, ElementOfSeq DEF CallsInv
<1>6. toolLimit \in Nat /\ Window \in Nat /\ now \in Nat /\ now' = now
  BY DEF RateAssumption, CallsInv, tryConsume
<1>7. /\ s <= now /\ c <= toolLimit /\ c <= n
      /\ \A i \in 1 .. n - c : consumed[i] <= s
      /\ \A i \in 1 .. n - c - toolLimit : consumed[i] + Window <= s
  BY <1>2, <1>3, <1>4 DEF CountsIn
<1>8. CASE c >= toolLimit
  <2>1. toolWindow' = w /\ consumed' = consumed
    BY <1>8, <1>1, <1>3 DEF tryConsume
  <2>2. w # <<>>
    BY <1>3
  <2> QED
    BY <2>1, <2>2, <1>2, <1>6 DEF CallsInv
<1>9. CASE ~(c >= toolLimit)
  <2>1. toolWindow' = <<s, c + 1>> /\ consumed' = Append(consumed, now)
    BY <1>9, <1>1, <1>3 DEF tryConsume
  <2>2. /\ consumed' \in Seq(Int) /\ Len(consumed') = n + 1
        /\ consumed'[n + 1] = now
        /\ \A i \in 1 .. n : consumed'[i] = consumed[i]
    BY <2>1, <1>4, <1>6, AppendProperties DEF CallsInv
  <2>3. \A i \in 1 .. n + 1 : consumed'[i] <= now'
    BY <2>2, <1>5, <1>6
  <2>4. CountsIn(toolWindow', consumed', now')
    <3>1. n + 1 - (c + 1) = n - c /\ c + 1 <= toolLimit /\ c + 1 \in Nat /\ c + 1 <= n + 1
      BY <1>9, <1>6, <1>7, <1>3
    <3>2. \A i \in 1 .. n - c : consumed'[i] <= s
      BY <2>2, <1>7, <1>3
    <3>3. ASSUME NEW i \in 1 .. n - c - toolLimit
          PROVE  consumed'[i] + Window <= s
      <4>1. i \in 1 .. n /\ consumed[i] + Window <= s
        BY <1>3, <1>6, <1>7
      <4> QED
        BY <4>1, <2>2
    <3> QED
      BY <2>1, <2>2, <3>1, <3>2, <3>3, <1>3, <1>6, <1>7 DEF CountsIn
  <2>5. ASSUME NEW i \in 1 .. n + 1 - 2 * toolLimit
        PROVE  consumed'[i + 2 * toolLimit] - consumed'[i] >= Window
    <3>1. CASE i = n + 1 - 2 * toolLimit
      <4>1. i \in 1 .. n - c - toolLimit /\ i \in 1 .. n /\ i + 2 * toolLimit = n + 1
        BY <3>1, <1>9, <1>6, <1>7, <1>3
      <4>2. consumed[i] + Window <= s /\ consumed[i] \in Int
        BY <4>1, <1>5, <1>7
      <4>3. consumed'[i] = consumed[i] /\ consumed'[i + 2 * toolLimit] = now
        BY <4>1, <2>2
      <4> QED
        BY <4>2, <4>3, <1>6, <1>7
    <3>2. CASE i # n + 1 - 2 * toolLimit
      <4>1. i \in 1 .. n - 2 * toolLimit /\ i \in 1 .. n /\ i + 2 * toolLimit \in 1 .. n
        BY <3>2, <1>6
      <4>2. consumed[i + 2 * toolLimit] - consumed[i] >= Window
        BY <4>1, <1>4 DEF CallsInv
      <4> QED
        BY <4>1, <4>2, <2>2
    <3> QED
      BY <3>1, <3>2
  <2>6. toolWindow' # <<>>
    BY <2>1
  <2>7. \A i \in 1 .. Len(consumed') - 2 * toolLimit :
          consumed'[i + 2 * toolLimit] - consumed'[i] >= Window
    <3>1. Len(consumed') = n + 1
      BY <2>2
    <3> QED
      BY <3>1, <2>5
  <2> QED
    BY <2>2, <2>3, <2>4, <2>6, <2>7, <1>6 DEF CallsInv
<1> QED
  BY <1>8, <1>9, <1>3

LEMMA TickKeepsCalls ==
  ASSUME CallsInv, Tick
  PROVE  CallsInv'
<1>1. PICK n \in Nat : n = Len(consumed)
  BY LenProperties DEF CallsInv
<1>2. \A i \in 1 .. n : consumed[i] \in Int /\ consumed[i] <= now
  BY <1>1, ElementOfSeq DEF CallsInv
<1>3. now' = now + 1 /\ consumed' = consumed /\ toolWindow' = toolWindow /\ now \in Nat
  BY DEF Tick, CallsInv
<1>4. \A i \in 1 .. n : consumed[i] <= now + 1
  BY <1>2, <1>3
<1>5. toolWindow # <<>> => CountsIn(toolWindow, consumed, now + 1)
  <2> SUFFICES ASSUME toolWindow # <<>>
               PROVE  CountsIn(toolWindow, consumed, now + 1)
    OBVIOUS
  <2>1. CountsIn(toolWindow, consumed, now)
    BY DEF CallsInv
  <2>2. toolWindow[1] <= now + 1
    BY <2>1, <1>3 DEF CountsIn
  <2> QED
    BY <2>1, <2>2 DEF CountsIn
<1> QED
  BY <1>1, <1>3, <1>4, <1>5 DEF CallsInv

(* However many requests reserve ahead, no window of a second holds more   *)
(* requests than the limit, and no window of a minute more than twice the  *)
(* calls of a tool (acquireSlot, ToolRateLimiter.tryConsume).              *)
THEOREM RatesAreAlwaysKept == RateSpec => []RatesAreKept
<1>1. RateAssumption
  BY RateAssumption
<1>2. RateInit => SlotsInv /\ CallsInv
  <2> SUFFICES ASSUME RateInit
               PROVE  SlotsInv /\ CallsInv
    OBVIOUS
  <2>1. /\ now = 0 /\ recentRequestTimes = <<>> /\ granted = <<>>
        /\ toolWindow = <<>> /\ consumed = <<>>
    BY DEF RateInit
  <2>2. Len(granted) = 0 /\ Len(recentRequestTimes) = 0 /\ Len(consumed) = 0
        /\ granted \in Seq(Int) /\ recentRequestTimes \in Seq(Int) /\ consumed \in Seq(Int)
    BY <2>1
  <2>3. Ascending(granted) /\ LeftOf(recentRequestTimes, granted, now - Window)
    BY <2>2 DEF Ascending, LeftOf
  <2>4. maxRequestsPerSecond \in Nat /\ toolLimit \in Nat
    BY <1>1 DEF RateAssumption
  <2>5. SlotsInv
    BY <2>1, <2>2, <2>3, <2>4 DEF SlotsInv
  <2>6. CallsInv
    BY <2>1, <2>2, <2>4 DEF CallsInv
  <2> QED
    BY <2>5, <2>6
<1>3. SlotsInv /\ CallsInv /\ [RateNext]_rateVars => SlotsInv' /\ CallsInv'
  <2> SUFFICES ASSUME SlotsInv, CallsInv, [RateNext]_rateVars
               PROVE  SlotsInv' /\ CallsInv'
    OBVIOUS
  <2>1. CASE acquireSlot
    <3>1. SlotsInv'
      BY <2>1, <1>1, SlotKeeps
    <3>2. CallsInv'
      BY <2>1 DEF CallsInv, acquireSlot
    <3> QED
      BY <3>1, <3>2
  <2>2. CASE tryConsume
    <3>1. CallsInv'
      BY <2>2, <1>1, CallKeeps
    <3>2. now' = now /\ granted' = granted /\ recentRequestTimes' = recentRequestTimes
      BY <2>2 DEF tryConsume
    <3>3. SlotsInv'
      BY <3>2 DEF SlotsInv
    <3> QED
      BY <3>1, <3>3
  <2>3. CASE Tick
    BY <2>3, <1>1, TickKeepsSlots, TickKeepsCalls
  <2>4. CASE UNCHANGED rateVars
    BY <2>4 DEF rateVars, SlotsInv, CallsInv
  <2> QED
    BY <2>1, <2>2, <2>3, <2>4 DEF RateNext
<1>4. SlotsInv /\ CallsInv => RatesAreKept
  BY DEF SlotsInv, CallsInv, RatesAreKept
<1> QED
  BY <1>2, <1>3, <1>4, PTL DEF RateSpec

-----------------------------------------------------------------------------
(* TtlSamples *)

Together(x, y, i, j) == (x[i] - x[j]) * (y[i] - y[j]) >= 0

LEMMA PairStep ==
  ASSUME NEW a \in Int, NEW b \in Int, NEW e \in Int, NEW f \in Int,
         NEW P \in Int, NEW X \in Int, NEW Y \in Int, NEW c \in Int,
         P + c * (a * b) >= b * X + a * Y, (e - a) * (f - b) >= 0
  PROVE  e * f + P + (c + 1) * (a * b) >= b * (e + X) + a * (f + Y)
<1>1. (e - a) * (f - b) = e * f - b * e - a * f + a * b
  OBVIOUS
<1>2. (c + 1) * (a * b) = c * (a * b) + a * b
  OBVIOUS
<1>3. b * (e + X) = b * e + b * X /\ a * (f + Y) = a * f + a * Y
  OBVIOUS
<1>4. QED
  BY <1>1, <1>2, <1>3

LEMMA ProductStep ==
  ASSUME NEW e \in Int, NEW f \in Int,
         NEW P \in Int, NEW X \in Int, NEW Y \in Int, NEW c \in Int,
         P + c * (e * f) >= f * X + e * Y, c * P >= X * Y
  PROVE  (c + 1) * (e * f + P) >= (e + X) * (f + Y)
<1>1. (c + 1) * (e * f + P) = c * (e * f) + c * P + e * f + P
  OBVIOUS
<1>2. (e + X) * (f + Y) = e * f + e * Y + f * X + X * Y
  OBVIOUS
<1>3. QED
  BY <1>1, <1>2

(* One more pair, that rises with all the others: the step of the next     *)
(* lemma.                                                                  *)
LEMMA OneMorePair ==
  ASSUME NEW S, IsFiniteSet(S), NEW x, NEW y, NEW xy, NEW k,
         \A i \in S \cup {k} : x[i] \in Int /\ y[i] \in Int /\ xy[i] = x[i] * y[i],
         \A i \in S : Together(x, y, i, k)
  PROVE  SumOver(xy, S) + Cardinality(S) * (x[k] * y[k]) >= y[k] * SumOver(x, S) + x[k] * SumOver(y, S)
<1> DEFINE B == {s \in SUBSET S : ~(SumOver(xy, s) + Cardinality(s) * (x[k] * y[k])
                                       >= y[k] * SumOver(x, s) + x[k] * SumOver(y, s))}
<1>1. SUFFICES ASSUME B # {}
               PROVE  FALSE
  BY FS_CardinalityType
<1>2. PICK m \in B : \A t \in B : t \subseteq m => t = m
  <2>1. B \in SUBSET SUBSET S
    OBVIOUS
  <2> HIDE DEF B
  <2>2. QED
    BY <1>1, <2>1, MinimalSubset
<1>3. m \subseteq S /\ IsFiniteSet(m)
  BY FS_Subset
<1>4. ~(SumOver(xy, m) + Cardinality(m) * (x[k] * y[k]) >= y[k] * SumOver(x, m) + x[k] * SumOver(y, m))
  OBVIOUS
<1>5. ASSUME NEW r \in SUBSET m, r # m
      PROVE  SumOver(xy, r) + Cardinality(r) * (x[k] * y[k]) >= y[k] * SumOver(x, r) + x[k] * SumOver(y, r)
  BY <1>2, <1>3, <1>5
<1> HIDE DEF B
<1>6. \A i \in S \cup {k} : x[i] \in Int /\ y[i] \in Int /\ xy[i] \in Int /\ xy[i] = x[i] * y[i]
  OBVIOUS
<1>7. m # {}
  <2> SUFFICES ASSUME m = {}
               PROVE  FALSE
    OBVIOUS
  <2>1. SumOver(xy, m) = 0 /\ SumOver(x, m) = 0 /\ SumOver(y, m) = 0
    BY <1>3, SumOverUnfolds
  <2>2. Cardinality(m) = 0
    BY FS_EmptySet
  <2>3. PICK a \in Int, b \in Int : a = x[k] /\ b = y[k]
    BY <1>6
  <2>4. 0 + 0 * (a * b) >= b * 0 + a * 0
    BY <2>3
  <2>5. QED
    BY <1>4, <2>1, <2>2, <2>3, <2>4
<1>8. PICK j \in m : TRUE
  BY <1>7
<1>9. PICK r \in SUBSET m : r = m \ {j}
  OBVIOUS
<1>10. IsFiniteSet(r) /\ \A i \in m : x[i] \in Int /\ y[i] \in Int /\ xy[i] \in Int
  BY <1>3, <1>6, FS_Subset
<1>11. SumOver(xy, m) = xy[j] + SumOver(xy, r) /\ SumOver(x, m) = x[j] + SumOver(x, r)
       /\ SumOver(y, m) = y[j] + SumOver(y, r)
  BY <1>3, <1>9, <1>10, SumOverElement
<1>12. SumOver(xy, r) \in Int /\ SumOver(x, r) \in Int /\ SumOver(y, r) \in Int
  BY <1>10, SumOverType
<1>13. PICK P \in Int, X \in Int, Y \in Int :
         P = SumOver(xy, r) /\ X = SumOver(x, r) /\ Y = SumOver(y, r)
  BY <1>12
<1>14. PICK c \in Nat : c = Cardinality(r) /\ Cardinality(m) = c + 1
  <2>1. Cardinality(r) \in Nat /\ Cardinality(m) \in Nat
    BY <1>3, <1>10, FS_CardinalityType
  <2>2. Cardinality(r) = Cardinality(m) - 1
    BY <1>3, <1>9, FS_RemoveElement
  <2>3. QED
    BY <2>1, <2>2
<1>15. PICK a \in Int, b \in Int, e \in Int, f \in Int : a = x[k] /\ b = y[k] /\ e = x[j] /\ f = y[j]
  BY <1>3, <1>6, <1>8
<1>16. P + c * (a * b) >= b * X + a * Y
  BY <1>5, <1>8, <1>9, <1>13, <1>14, <1>15
<1>17. (e - a) * (f - b) >= 0
  BY <1>3, <1>15 DEF Together
<1>19. xy[j] = e * f
  BY <1>3, <1>6, <1>15
<1>20. ~(e * f + P + (c + 1) * (a * b) >= b * (e + X) + a * (f + Y))
  BY <1>4, <1>11, <1>13, <1>14, <1>15, <1>19
<1>21. QED
  BY <1>16, <1>17, <1>20, PairStep

(* Two lists that rise together: the sum of the products, taken as often   *)
(* as there are pairs, is no less than the product of the sums.            *)
LEMMA RisingTogether ==
  ASSUME NEW S, IsFiniteSet(S), NEW x, NEW y, NEW xy,
         \A i \in S : x[i] \in Int /\ y[i] \in Int /\ xy[i] = x[i] * y[i],
         \A i, j \in S : Together(x, y, i, j)
  PROVE  Cardinality(S) * SumOver(xy, S) >= SumOver(x, S) * SumOver(y, S)
<1> DEFINE B == {s \in SUBSET S : ~(Cardinality(s) * SumOver(xy, s) >= SumOver(x, s) * SumOver(y, s))}
<1>1. SUFFICES ASSUME B # {}
               PROVE  FALSE
  OBVIOUS
<1>2. PICK m \in B : \A t \in B : t \subseteq m => t = m
  <2>1. B \in SUBSET SUBSET S
    OBVIOUS
  <2> HIDE DEF B
  <2>2. QED
    BY <1>1, <2>1, MinimalSubset
<1>3. m \subseteq S /\ IsFiniteSet(m)
  BY FS_Subset
<1>4. ~(Cardinality(m) * SumOver(xy, m) >= SumOver(x, m) * SumOver(y, m))
  OBVIOUS
<1>5. ASSUME NEW r \in SUBSET m, r # m
      PROVE  Cardinality(r) * SumOver(xy, r) >= SumOver(x, r) * SumOver(y, r)
  BY <1>2, <1>3, <1>5
<1> HIDE DEF B
<1>6. \A i \in S : x[i] \in Int /\ y[i] \in Int /\ xy[i] \in Int /\ xy[i] = x[i] * y[i]
  OBVIOUS
<1>7. m # {}
  <2> SUFFICES ASSUME m = {}
               PROVE  FALSE
    OBVIOUS
  <2>1. SumOver(xy, m) = 0 /\ SumOver(x, m) = 0 /\ SumOver(y, m) = 0
    BY <1>3, SumOverUnfolds
  <2>2. Cardinality(m) = 0
    BY FS_EmptySet
  <2>3. QED
    BY <1>4, <2>1, <2>2
<1>8. PICK j \in m : TRUE
  BY <1>7
<1>9. PICK r \in SUBSET m : r = m \ {j}
  OBVIOUS
<1>10. IsFiniteSet(r) /\ \A i \in m : x[i] \in Int /\ y[i] \in Int /\ xy[i] \in Int
  BY <1>3, <1>6, FS_Subset
<1>11. SumOver(xy, m) = xy[j] + SumOver(xy, r) /\ SumOver(x, m) = x[j] + SumOver(x, r)
       /\ SumOver(y, m) = y[j] + SumOver(y, r)
  BY <1>3, <1>9, <1>10, SumOverElement
<1>12. SumOver(xy, r) \in Int /\ SumOver(x, r) \in Int /\ SumOver(y, r) \in Int
  BY <1>10, SumOverType
<1>13. PICK P \in Int, X \in Int, Y \in Int :
         P = SumOver(xy, r) /\ X = SumOver(x, r) /\ Y = SumOver(y, r)
  BY <1>12
<1>14. PICK c \in Nat : c = Cardinality(r) /\ Cardinality(m) = c + 1
  <2>1. Cardinality(r) \in Nat /\ Cardinality(m) \in Nat
    BY <1>3, <1>10, FS_CardinalityType
  <2>2. Cardinality(r) = Cardinality(m) - 1
    BY <1>3, <1>9, FS_RemoveElement
  <2>3. QED
    BY <2>1, <2>2
<1>15. PICK e \in Int, f \in Int : e = x[j] /\ f = y[j]
  BY <1>3, <1>6, <1>8
<1>16. c * P >= X * Y
  BY <1>5, <1>8, <1>9, <1>13, <1>14
<1>17. P + c * (e * f) >= f * X + e * Y
  <2>1. \A i \in r \cup {j} : x[i] \in Int /\ y[i] \in Int /\ xy[i] = x[i] * y[i]
    BY <1>3, <1>6, <1>8, <1>9
  <2>2. \A i \in r : Together(x, y, i, j)
    BY <1>3, <1>8, <1>9
  <2>3. SumOver(xy, r) + Cardinality(r) * (x[j] * y[j]) >= y[j] * SumOver(x, r) + x[j] * SumOver(y, r)
    BY <1>10, <2>1, <2>2, OneMorePair
  <2>4. QED
    BY <2>3, <1>13, <1>14, <1>15
<1>18. ~((c + 1) * (e * f + P) >= (e + X) * (f + Y))
  BY <1>3, <1>4, <1>6, <1>8, <1>11, <1>13, <1>14, <1>15
<1>19. QED
  BY <1>16, <1>17, <1>18, ProductStep

RecreatedIn(old, new) == \E l \in recreated : l >= old /\ l < new

(* The samples descend in time; the later of two is no lower, nor is the   *)
(* entry now, unless it was created again in between.                      *)
SampleInv ==
  /\ ledger \in Int /\ liveUntil \in Int /\ recreated \subseteq Int
  /\ samples \in Seq(Int \X Int)
  /\ \A i \in 1 .. Len(samples) :
       /\ samples[i][1] <= ledger
       /\ liveUntil >= samples[i][2] \/ RecreatedIn(samples[i][1], ledger + 1)
  /\ \A i, j \in 1 .. Len(samples) : i < j =>
       /\ samples[j][1] < samples[i][1]
       /\ samples[i][2] >= samples[j][2] \/ RecreatedIn(samples[j][1], samples[i][1])

(* An insertion and the pruning after it                                   *)
LEMMA PrunedSamples ==
  ASSUME SampleAssumption, SampleInv, Sample
  PROVE  /\ samples' \in Seq(Int \X Int) /\ Len(samples') <= Len(samples) + 1
         /\ \A i \in 1 .. Len(samples') :
              samples'[i] = IF i = 1 THEN <<ledger + 1, liveUntil>> ELSE samples[i - 1]
<1>1. PICK n \in Nat : n = Len(samples)
  BY LenProperties DEF SampleInv
<1>2. PICK one : one = <<<<ledger + 1, liveUntil>>>>
  OBVIOUS
<1>3. one \in Seq(Int \X Int) /\ Len(one) = 1 /\ one[1] = <<ledger + 1, liveUntil>>
  BY <1>2 DEF SampleInv
<1>4. PICK all : all = one \o samples
  OBVIOUS
<1>5. /\ all \in Seq(Int \X Int) /\ Len(all) = n + 1
      /\ \A i \in 1 .. n + 1 : all[i] = IF i <= 1 THEN one[i] ELSE samples[i - 1]
  <2>1. samples \in Seq(Int \X Int)
    BY DEF SampleInv
  <2>2. /\ all \in Seq(Int \X Int) /\ Len(all) = Len(one) + Len(samples)
        /\ \A i \in 1 .. Len(one) + Len(samples) :
             all[i] = IF i <= Len(one) THEN one[i] ELSE samples[i - Len(one)]
    BY <1>3, <1>4, <2>1, ConcatProperties
  <2>3. Len(one) + Len(samples) = n + 1 /\ Len(one) = 1
    BY <1>1, <1>3
  <2>4. QED
    BY <2>2, <2>3
<1>6. PICK m \in Int : m = (IF n + 1 < MAX_TTL_SAMPLES THEN n + 1 ELSE MAX_TTL_SAMPLES)
  BY DEF SampleAssumption
<1>6a. m \in Nat /\ m <= n + 1
  BY <1>6 DEF SampleAssumption
<1>6b. samples' = SubSeq(all, 1, m)
  <2>1. samples' = SubSeq(all, 1, IF Len(all) < MAX_TTL_SAMPLES THEN Len(all) ELSE MAX_TTL_SAMPLES)
    BY <1>2, <1>4 DEF Sample
  <2>2. Len(all) = n + 1
    BY <1>5
  <2>3. QED
    BY <2>1, <2>2, <1>6
<1>7. /\ samples' \in Seq(Int \X Int) /\ Len(samples') = m
      /\ \A i \in 1 .. m : samples'[i] = all[i]
  <2>1. \A i \in 1 .. m : all[i] \in Int \X Int
    <3>1. \A i \in 1 .. Len(all) : all[i] \in Int \X Int
      BY <1>5, ElementOfSeq
    <3>2. \A i \in 1 .. m : i \in 1 .. Len(all)
      BY <1>5, <1>6a
    <3>3. QED
      BY <3>1, <3>2
  <2>2. PICK first \in Int : first = 1
    OBVIOUS
  <2>3. \A i \in first .. m : all[i] \in Int \X Int
    BY <2>1, <2>2
  <2>4. /\ SubSeq(all, first, m) \in Seq(Int \X Int)
        /\ Len(SubSeq(all, first, m)) = IF first <= m THEN m - first + 1 ELSE 0
        /\ \A i \in 1 .. m - first + 1 : SubSeq(all, first, m)[i] = all[first + i - 1]
    BY <2>3, SubSeqProperties
  <2>5. PICK kept : kept = SubSeq(all, first, m)
    OBVIOUS
  <2>6. kept \in Seq(Int \X Int) /\ Len(kept) = m
    BY <2>2, <2>4, <2>5, <1>6a
  <2>7. ASSUME NEW i \in 1 .. m
        PROVE  kept[i] = all[i]
    <3>1. i \in 1 .. m - first + 1 /\ first + i - 1 = i
      BY <2>2, <1>6a
    <3>2. QED
      BY <3>1, <2>4, <2>5
  <2>8. samples' = kept
    BY <2>2, <2>5, <1>6b
  <2>9. QED
    BY <2>6, <2>7, <2>8
<1>8. ASSUME NEW i \in 1 .. m
      PROVE  samples'[i] = IF i = 1 THEN <<ledger + 1, liveUntil>> ELSE samples[i - 1]
  <2>1. i \in 1 .. n + 1 /\ (i <= 1 <=> i = 1)
    BY <1>6a
  <2>2. QED
    BY <2>1, <1>3, <1>5, <1>7
<1>9. QED
  BY <1>1, <1>6a, <1>7, <1>8

LEMMA SampleKeeps ==
  ASSUME SampleAssumption, SampleInv, Sample
  PROVE  SampleInv'
<1>1. PICK n \in Nat : n = Len(samples)
  BY LenProperties DEF SampleInv
<1>2. ledger' = ledger + 1 /\ liveUntil' = liveUntil /\ recreated' = recreated
  BY DEF Sample
<1>3. ledger \in Int /\ liveUntil \in Int /\ recreated \subseteq Int
  BY DEF SampleInv
<1>4. samples' \in Seq(Int \X Int) /\ Len(samples') <= n + 1
      /\ \A i \in 1 .. Len(samples') :
           samples'[i] = IF i = 1 THEN <<ledger + 1, liveUntil>> ELSE samples[i - 1]
  BY <1>1, PrunedSamples
<1>5. PICK m \in Nat : m = Len(samples')
  BY <1>4, LenProperties
<1>6. \A i \in 1 .. n : samples[i][1] \in Int /\ samples[i][2] \in Int
  BY <1>1, ElementOfSeq DEF SampleInv
<1>7. ASSUME NEW i \in 1 .. m, i # 1
      PROVE  /\ i - 1 \in 1 .. n /\ samples'[i] = samples[i - 1]
             /\ samples[i - 1][1] <= ledger
             /\ liveUntil >= samples[i - 1][2] \/ RecreatedIn(samples[i - 1][1], ledger + 1)
  <2>1. i - 1 \in 1 .. n
    BY <1>4, <1>5, <1>7
  <2>2. i \in 1 .. Len(samples')
    BY <1>5
  <2>3. samples'[i] = samples[i - 1]
    BY <2>2, <1>4, <1>7
  <2>4. \A h \in 1 .. n : /\ samples[h][1] <= ledger
                          /\ liveUntil >= samples[h][2] \/ RecreatedIn(samples[h][1], ledger + 1)
    BY <1>1 DEF SampleInv
  <2>5. QED
    BY <2>1, <2>3, <2>4
<1>8. m > 0 => samples'[1] = <<ledger + 1, liveUntil>>
  <2>1. m > 0 => 1 \in 1 .. Len(samples')
    BY <1>5
  <2>2. QED
    BY <2>1, <1>4
<1>9. ASSUME NEW i \in 1 .. m
      PROVE  /\ samples'[i][1] <= ledger + 1
             /\ liveUntil >= samples'[i][2] \/ RecreatedIn(samples'[i][1], ledger + 1 + 1)
  <2>1. CASE i = 1
    BY <2>1, <1>3, <1>8
  <2>2. CASE i # 1
    <3>1. \A o \in Int : RecreatedIn(o, ledger + 1) => RecreatedIn(o, ledger + 1 + 1)
      BY <1>3 DEF RecreatedIn
    <3>2. QED
      BY <2>2, <3>1, <1>3, <1>6, <1>7
  <2>3. QED
    BY <2>1, <2>2
<1>10. ASSUME NEW i \in 1 .. m, NEW j \in 1 .. m, i < j
       PROVE  /\ samples'[j][1] < samples'[i][1]
              /\ samples'[i][2] >= samples'[j][2] \/ RecreatedIn(samples'[j][1], samples'[i][1])
  <2>1. j # 1 /\ j - 1 \in 1 .. n /\ samples'[j] = samples[j - 1]
    <3>1. j # 1
      BY <1>10
    <3>2. QED
      BY <3>1, <1>7
  <2>2. CASE i = 1
    <3>1. samples'[i][1] = ledger + 1 /\ samples'[i][2] = liveUntil
      BY <2>2, <1>8
    <3>2. QED
      BY <2>1, <3>1, <1>3, <1>6, <1>7
  <2>3. CASE i # 1
    <3>1. i - 1 \in 1 .. n /\ samples'[i] = samples[i - 1] /\ i - 1 < j - 1
      BY <2>3, <1>7, <1>10
    <3>2. QED
      BY <2>1, <3>1, <1>1 DEF SampleInv
  <2>4. QED
    BY <2>2, <2>3
<1>11. \A a, b : RecreatedIn(a, b)' <=> \E l \in recreated : l >= a' /\ l < b'
  BY <1>2 DEF RecreatedIn
<1>12. \A i \in 1 .. m : /\ samples'[i][1] <= ledger'
                         /\ liveUntil' >= samples'[i][2] \/ \E l \in recreated' : l >= samples'[i][1] /\ l < ledger' + 1
  BY <1>2, <1>9 DEF RecreatedIn
<1>13. \A i, j \in 1 .. m : i < j =>
         /\ samples'[j][1] < samples'[i][1]
         /\ \/ samples'[i][2] >= samples'[j][2]
            \/ \E l \in recreated' : l >= samples'[j][1] /\ l < samples'[i][1]
  BY <1>2, <1>10 DEF RecreatedIn
<1>14. ledger' \in Int /\ liveUntil' \in Int /\ recreated' \subseteq Int
  BY <1>2, <1>3
<1>15. samples' \in Seq(Int \X Int) /\ 1 .. Len(samples') = 1 .. m
  BY <1>4, <1>5
<1>16. QED
  BY <1>12, <1>13, <1>14, <1>15 DEF SampleInv, RecreatedIn

LEMMA PassKeeps ==
  ASSUME SampleInv, Pass
  PROVE  SampleInv'
<1>1. ledger' = ledger + 1 /\ liveUntil' = liveUntil /\ recreated' = recreated /\ samples' = samples
  BY DEF Pass
<1>2. PICK n \in Nat : n = Len(samples)
  BY LenProperties DEF SampleInv
<1>3. \A i \in 1 .. n : samples[i][1] \in Int /\ samples[i][2] \in Int
  BY <1>2, ElementOfSeq DEF SampleInv
<1>4. ledger \in Int /\ recreated \subseteq Int
  BY DEF SampleInv
<1>5. \A o \in Int : RecreatedIn(o, ledger + 1) => RecreatedIn(o, ledger + 1 + 1)
  BY <1>4 DEF RecreatedIn
<1>6. \A i \in 1 .. n : /\ samples[i][1] <= ledger + 1
                        /\ liveUntil >= samples[i][2] \/ RecreatedIn(samples[i][1], ledger + 1 + 1)
  BY <1>2, <1>3, <1>4, <1>5 DEF SampleInv
<1>7. \A i \in 1 .. Len(samples') :
        /\ samples'[i][1] <= ledger'
        /\ liveUntil' >= samples'[i][2] \/ \E l \in recreated' : l >= samples'[i][1] /\ l < ledger' + 1
  BY <1>1, <1>2, <1>6 DEF RecreatedIn
<1>8. \A i, j \in 1 .. Len(samples') : i < j =>
        /\ samples'[j][1] < samples'[i][1]
        /\ \/ samples'[i][2] >= samples'[j][2]
           \/ \E l \in recreated' : l >= samples'[j][1] /\ l < samples'[i][1]
  BY <1>1 DEF SampleInv, RecreatedIn
<1>9. ledger' \in Int /\ liveUntil' \in Int /\ recreated' \subseteq Int /\ samples' \in Seq(Int \X Int)
  BY <1>1, <1>4 DEF SampleInv
<1>10. QED
  BY <1>7, <1>8, <1>9 DEF SampleInv, RecreatedIn

(* An extension only moves the entry up, and a new entry leaves its ledger *)
LEMMA EntryMoves ==
  ASSUME SampleAssumption, SampleInv, ExtendEntry \/ Recreate
  PROVE  SampleInv'
<1>1. ledger' = ledger /\ samples' = samples /\ recreated \subseteq recreated' /\ recreated' \subseteq Int
      /\ liveUntil' \in Int /\ (liveUntil' >= liveUntil \/ ledger \in recreated')
  <2>1. CASE ExtendEntry
    <3>1. PICK s \in Steps : liveUntil' = liveUntil + extendWhenBelow + s
      BY <2>1 DEF ExtendEntry
    <3>2. s \in Nat /\ extendWhenBelow \in Nat
      BY DEF SampleAssumption
    <3>3. QED
      BY <2>1, <3>1, <3>2 DEF ExtendEntry, SampleInv
  <2>2. CASE Recreate
    <3>1. PICK s \in Steps : liveUntil' = ledger + s
      BY <2>2 DEF Recreate
    <3>2. s \in Nat
      BY DEF SampleAssumption
    <3>3. QED
      BY <2>2, <3>1, <3>2 DEF Recreate, SampleInv
  <2>3. QED
    BY <2>1, <2>2
<1>2. PICK n \in Nat : n = Len(samples)
  BY LenProperties DEF SampleInv
<1>3. \A i \in 1 .. n : samples[i][1] \in Int /\ samples[i][2] \in Int
  BY <1>2, ElementOfSeq DEF SampleInv
<1>4. ASSUME NEW i \in 1 .. n
      PROVE  /\ samples[i][1] <= ledger
             /\ liveUntil' >= samples[i][2] \/ \E l \in recreated' : l >= samples[i][1] /\ l < ledger + 1
  <2>1. samples[i][1] <= ledger /\ (liveUntil >= samples[i][2] \/ RecreatedIn(samples[i][1], ledger + 1))
    BY <1>2 DEF SampleInv
  <2>2. CASE ledger \in recreated'
    BY <2>1, <2>2, <1>3 DEF SampleInv
  <2>3. CASE liveUntil' >= liveUntil
    BY <2>1, <2>3, <1>1, <1>3 DEF SampleInv, RecreatedIn
  <2>4. QED
    BY <2>1, <2>2, <2>3, <1>1
<1>5. \A i \in 1 .. Len(samples') :
        /\ samples'[i][1] <= ledger'
        /\ liveUntil' >= samples'[i][2] \/ \E l \in recreated' : l >= samples'[i][1] /\ l < ledger' + 1
  BY <1>1, <1>2, <1>4
<1>6. \A i, j \in 1 .. Len(samples') : i < j =>
        /\ samples'[j][1] < samples'[i][1]
        /\ \/ samples'[i][2] >= samples'[j][2]
           \/ \E l \in recreated' : l >= samples'[j][1] /\ l < samples'[i][1]
  BY <1>1 DEF SampleInv, RecreatedIn
<1>7. ledger' \in Int /\ samples' \in Seq(Int \X Int)
  BY <1>1 DEF SampleInv
<1>8. QED
  BY <1>1, <1>5, <1>6, <1>7 DEF SampleInv, RecreatedIn

(* Samples of an entry that was not created again do not fall.             *)
LEMMA NothingFalls ==
  ASSUME SampleInv, Projects
  PROVE  \E l \in recreated : l >= samples[Len(samples)][1] /\ l < samples[1][1]
<1>1. SUFFICES ASSUME ~\E l \in recreated : l >= samples[Len(samples)][1] /\ l < samples[1][1]
               PROVE  FALSE
  OBVIOUS
<1>2. PICK n \in Nat : n = Len(samples)
  BY LenProperties DEF SampleInv
<1>3. DOMAIN samples = 1 .. n /\ \A i \in 1 .. n : samples[i][1] \in Int /\ samples[i][2] \in Int
  BY <1>2, ElementOfSeq, LenProperties DEF SampleInv
<1>4. ASSUME NEW i \in 1 .. n, NEW j \in 1 .. n, i < j
      PROVE  samples[j][1] < samples[i][1] /\ samples[i][2] >= samples[j][2]
  <2>1. samples[j][1] < samples[i][1]
        /\ (samples[i][2] >= samples[j][2] \/ RecreatedIn(samples[j][1], samples[i][1]))
    BY <1>2, <1>4 DEF SampleInv
  <2>2. 1 \in 1 .. n /\ n \in 1 .. n
    BY <1>4
  <2>3. i # 1 => samples[i][1] < samples[1][1]
    BY <1>2, <2>2 DEF SampleInv
  <2>4. j # n => samples[n][1] < samples[j][1]
    BY <1>2, <2>2 DEF SampleInv
  <2>5. ASSUME NEW l \in recreated, l >= samples[j][1], l < samples[i][1]
        PROVE  FALSE
    <3>1. l \in Int
      BY DEF SampleInv
    <3>2. l >= samples[n][1]
      BY <2>2, <2>4, <2>5, <3>1, <1>3
    <3>3. l < samples[1][1]
      BY <2>2, <2>3, <2>5, <3>1, <1>3
    <3>4. QED
      BY <3>2, <3>3, <1>1, <1>2
  <2>6. QED
    BY <2>1, <2>5 DEF RecreatedIn
<1>5. PICK S : S = 1 .. n
  OBVIOUS
<1>6. IsFiniteSet(S) /\ Cardinality(S) = n
  <2>1. Cardinality(1 .. n) = IF 1 > n THEN 0 ELSE n - 1 + 1
    BY FS_Interval
  <2>2. QED
    BY <1>5, <2>1, FS_Interval
<1>7. PICK x, y, xy : x = SampledAt /\ y = LiveUntil /\ xy = Product(SampledAt, LiveUntil)
  OBVIOUS
<1>8. \A i \in S : x[i] = samples[i][1] /\ y[i] = samples[i][2] /\ xy[i] = x[i] * y[i]
  BY <1>3, <1>5, <1>7 DEF SampledAt, LiveUntil, Product
<1>9. \A i \in S : x[i] \in Int /\ y[i] \in Int /\ xy[i] = x[i] * y[i]
  BY <1>3, <1>5, <1>8
<1>10. \A i, j \in S : Together(x, y, i, j)
  <2>1. ASSUME NEW a \in Int, NEW b \in Int, NEW e \in Int, NEW f \in Int, (a <= e /\ b <= f) \/ (a >= e /\ b >= f)
        PROVE  (a - e) * (b - f) >= 0
    <3>1. PICK p \in Int, q \in Int : p = a - e /\ q = b - f
      OBVIOUS
    <3>2. (p >= 0 /\ q >= 0) \/ (p <= 0 /\ q <= 0)
      BY <2>1, <3>1
    <3>3. p * q >= 0
      BY <3>2
    <3>4. QED
      BY <3>1, <3>3
  <2>2. ASSUME NEW i \in S, NEW j \in S
        PROVE  (x[i] <= x[j] /\ y[i] <= y[j]) \/ (x[i] >= x[j] /\ y[i] >= y[j])
    <3>1. i \in 1 .. n /\ j \in 1 .. n
      BY <1>5
    <3>2. CASE i < j
      BY <3>1, <3>2, <1>3, <1>4, <1>8
    <3>3. CASE j < i
      BY <3>1, <3>3, <1>3, <1>4, <1>8
    <3>4. CASE i = j
      BY <3>4, <1>9
    <3>5. QED
      BY <3>1, <3>2, <3>3, <3>4
  <2>3. QED
    BY <2>1, <2>2, <1>9 DEF Together
<1>11. n * SumOver(xy, S) >= SumOver(x, S) * SumOver(y, S)
  BY <1>6, <1>9, <1>10, RisingTogether
<1>12. Decay = SumOver(x, S) * SumOver(y, S) - n * SumOver(xy, S)
  BY <1>2, <1>3, <1>5, <1>7 DEF Decay, Summed, SumOver
<1>13. SumOver(x, S) \in Int /\ SumOver(y, S) \in Int /\ SumOver(xy, S) \in Int
  <2>1. \A i \in S : xy[i] \in Int
    BY <1>9
  <2>2. QED
    BY <2>1, <1>6, <1>9, SumOverType
<1>14. PICK a \in Int, b \in Int : a = SumOver(x, S) * SumOver(y, S) /\ b = n * SumOver(xy, S)
  BY <1>13
<1>15. QED
  BY <1>11, <1>12, <1>14 DEF Projects

(* A crossing is projected only for an entry that was created again, and   *)
(* what guard preview shows is due (core/predictive.ts, commands/guard.ts).*)
THEOREM DueAlwaysAsExpected == SampleSpec => []DueAsExpected
<1>1. SampleAssumption
  BY SampleAssumption
<1>2. SampleInit => SampleInv
  <2>1. SUFFICES ASSUME SampleInit
                 PROVE  SampleInv
    OBVIOUS
  <2>2. ledger = 1 /\ samples = <<>> /\ recreated = {}
    BY <2>1 DEF SampleInit
  <2>3. liveUntil \in Int
    BY <2>1, <2>2, <1>1 DEF SampleInit, SampleAssumption
  <2>4. Len(samples) = 0 /\ samples \in Seq(Int \X Int)
    BY <2>2
  <2>5. QED
    BY <2>2, <2>3, <2>4 DEF SampleInv
<1>3. SampleInv /\ [SampleNext]_sampleVars => SampleInv'
  <2>1. SUFFICES ASSUME SampleInv, [SampleNext]_sampleVars
                 PROVE  SampleInv'
    OBVIOUS
  <2>2. CASE SampleNext
    BY <2>1, <2>2, <1>1, SampleKeeps, PassKeeps, EntryMoves DEF SampleNext
  <2>3. CASE UNCHANGED sampleVars
    BY <2>1, <2>3 DEF sampleVars, SampleInv, RecreatedIn
  <2>4. QED
    BY <2>1, <2>2, <2>3
<1>4. SampleInv => DueAsExpected
  <2>1. SUFFICES ASSUME SampleInv
                 PROVE  DueAsExpected
    OBVIOUS
  <2>2. ASSUME WouldExtend, liveUntil = samples[1][2]
        PROVE  DueByThreshold \/ liveUntil < ledger
    <3>1. PICK n \in Nat : n = Len(samples)
      BY <2>1, LenProperties DEF SampleInv
    <3>2. n > 0
      BY <2>1, <2>2, <3>1, EmptySeq DEF WouldExtend, SampleInv
    <3>3. samples[1] \in Int \X Int /\ samples[1][1] <= ledger
      BY <2>1, <3>1, <3>2, ElementOfSeq DEF SampleInv
    <3>4. PICK a \in Int, b \in Int : samples[1][1] = a /\ samples[1][2] = b
      BY <3>3
    <3>5. b - a \in 0 .. extendWhenBelow - 1 /\ liveUntil = b /\ a <= ledger
      BY <2>2, <3>3, <3>4 DEF WouldExtend
    <3>6. ledger \in Int /\ liveUntil \in Int /\ extendWhenBelow \in Nat
      BY <2>1, <1>1 DEF SampleInv, SampleAssumption
    <3>7. liveUntil - ledger <= extendWhenBelow - 1
      BY <3>4, <3>5, <3>6
    <3>8. QED
      BY <3>6, <3>7 DEF DueByThreshold
  <2>3. QED
    BY <2>1, <2>2, NothingFalls DEF DueAsExpected
<1>5. QED
  BY <1>2, <1>3, <1>4, PTL DEF SampleSpec

-----------------------------------------------------------------------------
(* CostSnapshots *)

(* A total is the sum, whatever it leaves out. *)
LEMMA TotalIsSum ==
  ASSUME NEW col, NEW when, IsFiniteSet(when), \A t \in when : col[t] \in Int
  PROVE  Total(col, when) = SumOver(col, when)
<1>1. Total(col, when) = SumOver(col, {t \in when : col[t] # 0})
  BY DEF Total, SumOver
<1>2. PICK kept \in SUBSET when : kept = {t \in when : col[t] # 0}
  OBVIOUS
<1>3. \A t \in when \ kept : col[t] = 0
  BY <1>2
<1>4. SumOver(col, when) = SumOver(col, kept)
  BY <1>3, SumOverZeros
<1>5. QED
  BY <1>1, <1>2, <1>4

(* The two halves of a date *)
LEMMA TotalOnDate ==
  ASSUME NEW col, NEW d \in Int, col[2 * d] \in Int, col[2 * d + 1] \in Int
  PROVE  Total(col, OnDate(d)) = col[2 * d] + col[2 * d + 1]
<1>1. PICK a, b : a = 2 * d /\ b = 2 * d + 1
  OBVIOUS
<1>2. OnDate(d) = {a, b} /\ a # b /\ col[a] \in Int /\ col[b] \in Int
  BY <1>1 DEF OnDate
<1>3. IsFiniteSet({a, b}) /\ IsFiniteSet({b}) /\ IsFiniteSet({})
  <2>1. IsFiniteSet({b}) /\ IsFiniteSet({a}) /\ IsFiniteSet({})
    BY FS_EmptySet, FS_Singleton
  <2>2. {a, b} = {a} \cup {b}
    OBVIOUS
  <2>3. IsFiniteSet({a} \cup {b})
    BY <2>1, FS_Union
  <2>4. QED
    BY <2>1, <2>2, <2>3
<1>4. Total(col, {a, b}) = SumOver(col, {a, b})
  BY <1>2, <1>3, TotalIsSum
<1>5. SumOver(col, {a, b}) = col[a] + SumOver(col, {b})
  <2>1. {a, b} \ {a} = {b}
    BY <1>2
  <2>2. SumOver(col, {a, b}) = col[a] + SumOver(col, {a, b} \ {a})
    <3>1. \A s \in {a, b} : col[s] \in Int
      BY <1>2
    <3>2. a \in {a, b}
      OBVIOUS
    <3>3. QED
      BY <1>3, <3>1, <3>2, SumOverElement
  <2>3. QED
    BY <2>1, <2>2
<1>6. SumOver(col, {b}) = col[b] + SumOver(col, {})
  <2>1. {b} \ {b} = {}
    OBVIOUS
  <2>2. SumOver(col, {b}) = col[b] + SumOver(col, {b} \ {b})
    <3>1. \A s \in {b} : col[s] \in Int
      BY <1>2
    <3>2. b \in {b}
      OBVIOUS
    <3>3. QED
      BY <1>3, <3>1, <3>2, SumOverElement
  <2>3. QED
    BY <2>1, <2>2
<1>7. SumOver(col, {}) = 0
  BY <1>3, SumOverUnfolds
<1>8. QED
  BY <1>1, <1>2, <1>4, <1>5, <1>6, <1>7

(* Dates summed one by one are their times summed. *)
LEMMA DatesAreTheirTimes ==
  ASSUME CostAssumption, NEW col \in [Times -> Nat], NEW day \in [Days -> Nat],
         NEW S \in SUBSET Days, \A d \in S : day[d] = col[2 * d] + col[2 * d + 1]
  PROVE  SumOver(day, S) = SumOver(col, {t \in Times : DateOf(t) \in S})
<1> DEFINE ofDates(s) == {t \in Times : DateOf(t) \in s}
           B == {s \in SUBSET S : SumOver(day, s) # SumOver(col, ofDates(s))}
<1>1. SUFFICES ASSUME B # {}
               PROVE  FALSE
  OBVIOUS
<1>2. IsFiniteSet(Days) /\ IsFiniteSet(Times) /\ IsFiniteSet(S)
  <2>1. 0 \in Int /\ MaxDay \in Int /\ 2 * MaxDay + 1 \in Int
    BY DEF CostAssumption
  <2>2. IsFiniteSet(Days)
    BY <2>1, FS_Interval DEF Days
  <2>3. IsFiniteSet(Times)
    BY <2>1, FS_Interval DEF Times
  <2>4. QED
    BY <2>2, <2>3, FS_Subset
<1>3. PICK m \in B : \A t \in B : t \subseteq m => t = m
  <2>1. B \in SUBSET SUBSET S
    OBVIOUS
  <2> HIDE DEF B
  <2>2. QED
    BY <1>1, <1>2, <2>1, MinimalSubset
<1>4. m \subseteq S /\ m \subseteq Days /\ IsFiniteSet(m)
  BY <1>2, FS_Subset
<1>5. SumOver(day, m) # SumOver(col, ofDates(m))
  OBVIOUS
<1>6. \A r \in SUBSET m : r # m => SumOver(day, r) = SumOver(col, ofDates(r))
  BY <1>3, <1>4
<1> HIDE DEF B, ofDates
<1>7. \A s : IsFiniteSet(ofDates(s)) /\ ofDates(s) \subseteq Times
  BY <1>2, FS_Subset DEF ofDates
<1>8. m # {}
  <2> SUFFICES ASSUME m = {}
               PROVE  FALSE
    OBVIOUS
  <2>1. ofDates(m) = {}
    BY DEF ofDates
  <2>2. QED
    BY <2>1, <1>5, SumOverUnfolds, FS_EmptySet
<1>9. PICK d \in m : TRUE
  BY <1>8
<1>10. PICK r \in SUBSET m : r = m \ {d}
  OBVIOUS
<1>11. SumOver(day, m) = day[d] + SumOver(day, r)
  <2>1. \A s \in m : day[s] \in Int
    BY <1>4
  <2>2. QED
    BY <2>1, <1>4, <1>10, SumOverElement
<1>12. SumOver(day, r) = SumOver(col, ofDates(r))
  BY <1>6, <1>9, <1>10
<1>13. PICK a, b : a = 2 * d /\ b = 2 * d + 1
  OBVIOUS
<1>14. d \in 0 .. MaxDay /\ MaxDay \in Nat
  BY <1>4 DEF Days, CostAssumption
<1>15. a \in Times /\ b \in Times /\ a # b /\ \A t \in Times : DateOf(t) = d <=> t = a \/ t = b
  BY <1>13, <1>14 DEF Times, DateOf
<1>16. /\ (ofDates(m) \ {a}) \ {b} = ofDates(r)
       /\ a \in ofDates(m) /\ b \in ofDates(m) \ {a}
  <2>1. \A t : t \in ofDates(m) <=> t \in Times /\ DateOf(t) \in m
    BY DEF ofDates
  <2>2. \A t : t \in ofDates(r) <=> t \in Times /\ DateOf(t) \in m /\ DateOf(t) # d
    BY <1>10 DEF ofDates
  <2>3. \A t \in Times : DateOf(t) # d <=> t # a /\ t # b
    BY <1>15
  <2>4. a \in ofDates(m) /\ b \in ofDates(m)
    BY <1>9, <1>15, <2>1
  <2>5. \A t : t \in (ofDates(m) \ {a}) \ {b} <=> t \in ofDates(r)
    BY <2>1, <2>2, <2>3
  <2>6. QED
    BY <1>15, <2>4, <2>5
<1>17. \A t \in Times : col[t] \in Int
  OBVIOUS
<1>18. PICK u : u = ofDates(m) \ {a}
  OBVIOUS
<1>19. IsFiniteSet(u) /\ u \subseteq Times
  BY <1>7, <1>18, FS_Subset
<1>20. SumOver(col, ofDates(m)) = col[a] + SumOver(col, u)
  <2>1. PICK v : v = ofDates(m)
    OBVIOUS
  <2>2. IsFiniteSet(v) /\ a \in v /\ u = v \ {a} /\ \A t \in v : col[t] \in Int
    BY <2>1, <1>7, <1>16, <1>17, <1>18
  <2>3. QED
    BY <2>1, <2>2, SumOverElement
<1>21. SumOver(col, u) = col[b] + SumOver(col, ofDates(r))
  <2>1. b \in u /\ u \ {b} = ofDates(r) /\ \A t \in u : col[t] \in Int
    BY <1>16, <1>17, <1>18, <1>19
  <2>2. SumOver(col, u) = col[b] + SumOver(col, u \ {b})
    BY <2>1, <1>19, SumOverElement
  <2>3. QED
    BY <2>1, <2>2
<1>22. SumOver(col, ofDates(r)) \in Int
  <2>1. PICK v : v = ofDates(r)
    OBVIOUS
  <2>2. IsFiniteSet(v) /\ \A t \in v : col[t] \in Int
    BY <2>1, <1>7, <1>17
  <2>3. QED
    BY <2>1, <2>2, SumOverType
<1>23. day[d] = col[a] + col[b] /\ col[a] \in Int /\ col[b] \in Int
  BY <1>4, <1>13, <1>15, <1>17
<1>24. QED
  BY <1>5, <1>11, <1>12, <1>20, <1>21, <1>22, <1>23

(* A contract whose extensions cost col and whose snapshots say day, no    *)
(* more than was spent on a date and nothing from today on                 *)
Recorded(col, day, time) ==
  /\ col \in [Times -> Nat] /\ day \in [Days -> Nat] /\ time \in Times
  /\ \A t \in Times : t > time => col[t] = 0
  /\ \A d \in Days : day[d] <= col[2 * d] + col[2 * d + 1]
  /\ \A d \in Days : d >= DateOf(time) => day[d] = 0

Since(time, n) == {d \in Days : d >= DateOf(time) - (n - 1)}
Past(time, n) == {t \in Times : t >= time - 2 * n}
EdgeOf(time, n) == {t \in Times : t >= time - 2 * n /\ DateOf(t) = DateOf(time) - n}

(* What such a contract's summary and its history come to                  *)
LEMMA ColumnsAgree ==
  ASSUME CostAssumption, NEW col, NEW day, NEW time, Recorded(col, day, time), NEW n \in Nat \ {0}
  PROVE  /\ Total(day, Since(time, n)) + Total(col, OnDate(DateOf(time))) <= Total(col, Past(time, n))
         /\ (\A d \in Days : d < DateOf(time) => day[d] = col[2 * d] + col[2 * d + 1])
              => Total(day, Since(time, n)) + Total(col, OnDate(DateOf(time))) + Total(col, EdgeOf(time, n))
                   = Total(col, Past(time, n))
<1>1. PICK date : date = DateOf(time)
  OBVIOUS
<1>2. MaxDay \in Nat /\ time \in 0 .. 2 * MaxDay + 1 /\ date \in 0 .. MaxDay
      /\ (time = 2 * date \/ time = 2 * date + 1)
  BY <1>1 DEF CostAssumption, Recorded, Times, DateOf
<1>3. IsFiniteSet(Days) /\ IsFiniteSet(Times)
  <2>1. 0 \in Int /\ MaxDay \in Int /\ 2 * MaxDay + 1 \in Int
    BY <1>2
  <2>2. QED
    BY <2>1, FS_Interval DEF Days, Times
<1>4. PICK dates \in SUBSET Days : dates = Since(time, n)
  BY DEF Since
<1>5. PICK old \in SUBSET dates : old = {d \in dates : d < date}
  OBVIOUS
<1>6. PICK oldTimes \in SUBSET Times : oldTimes = {t \in Times : DateOf(t) \in old}
  OBVIOUS
<1>7. PICK todays \in SUBSET Times : todays = OnDate(date)
  <2>1. 2 * date \in Times /\ 2 * date + 1 \in Times
    BY <1>2 DEF Times
  <2>2. OnDate(date) \in SUBSET Times
    BY <2>1 DEF OnDate
  <2>3. QED
    BY <2>2
<1>8. PICK past \in SUBSET Times : past = Past(time, n)
  BY DEF Past
<1>9. PICK edge \in SUBSET Times : edge = EdgeOf(time, n)
  BY DEF EdgeOf
<1>10. /\ IsFiniteSet(dates) /\ IsFiniteSet(old) /\ IsFiniteSet(oldTimes) /\ IsFiniteSet(todays)
       /\ IsFiniteSet(past) /\ IsFiniteSet(edge)
  BY <1>3, <1>4, <1>5, <1>6, <1>7, <1>8, <1>9, FS_Subset
<1>11. (\A t \in Times : col[t] \in Nat /\ col[t] \in Int) /\ (\A d \in Days : day[d] \in Nat /\ day[d] \in Int)
  BY DEF Recorded
<1>12. Total(day, dates) = SumOver(day, old)
  <2>1. \A d \in dates : day[d] \in Int
    BY <1>11
  <2>2. \A d \in dates \ old : day[d] = 0
    <3>1. \A d \in dates \ old : d \in Days /\ ~(d < date)
      BY <1>5
    <3>2. \A d \in Days : ~(d < date) => d >= date
      BY <1>2 DEF Days
    <3>3. QED
      BY <1>1, <3>1, <3>2 DEF Recorded
  <2>3. SumOver(day, dates) = SumOver(day, old)
    BY <1>10, <2>1, <2>2, SumOverZeros
  <2>4. QED
    BY <1>10, <2>1, <2>3, TotalIsSum
<1>13. /\ Total(col, todays) = SumOver(col, todays) /\ SumOver(col, todays) \in Nat
       /\ Total(col, past) = SumOver(col, past)
       /\ Total(col, edge) = SumOver(col, edge) /\ SumOver(col, edge) \in Nat
       /\ SumOver(col, oldTimes) \in Nat
  <2>1. (\A t \in todays : col[t] \in Int /\ col[t] \in Nat) /\ (\A t \in past : col[t] \in Int)
        /\ (\A t \in edge : col[t] \in Int /\ col[t] \in Nat) /\ (\A t \in oldTimes : col[t] \in Nat)
    BY <1>11
  <2>2. Total(col, todays) = SumOver(col, todays) /\ Total(col, past) = SumOver(col, past)
        /\ Total(col, edge) = SumOver(col, edge)
    BY <1>10, <2>1, TotalIsSum
  <2>3. QED
    BY <1>10, <2>1, <2>2, SumOverNat
<1>14. PICK whole : whole = [d \in Days |-> col[2 * d] + col[2 * d + 1]]
  OBVIOUS
<1>15. \A d \in Days : 2 * d \in Times /\ 2 * d + 1 \in Times
  BY <1>2 DEF Days, Times
<1>16. whole \in [Days -> Nat] /\ \A d \in Days : whole[d] = col[2 * d] + col[2 * d + 1]
  BY <1>11, <1>14, <1>15
<1>17. SumOver(whole, old) = SumOver(col, oldTimes)
  <2>1. old \in SUBSET Days /\ \A d \in old : whole[d] = col[2 * d] + col[2 * d + 1]
    BY <1>16
  <2>2. col \in [Times -> Nat]
    BY DEF Recorded
  <2>3. SumOver(whole, old) = SumOver(col, {t \in Times : DateOf(t) \in old})
    BY <1>16, <2>1, <2>2, DatesAreTheirTimes
  <2>4. QED
    BY <1>6, <2>3
<1>18. SumOver(day, old) <= SumOver(whole, old)
  <2>1. \A d \in old : day[d] \in Int /\ whole[d] \in Int /\ day[d] <= whole[d]
    BY <1>11, <1>16 DEF Recorded
  <2>2. QED
    BY <1>10, <2>1, SumOverNoGreater
<1>19. SumOver(day, old) \in Int
  BY <1>10, <1>11, SumOverType
<1>20. /\ oldTimes \cap todays = {} /\ oldTimes \cap edge = {} /\ todays \cap edge = {}
       /\ (oldTimes \cup todays) \cup edge \subseteq past
       /\ \A t \in past \ ((oldTimes \cup todays) \cup edge) : t > time
  <2>1. \A t \in Times : t \in oldTimes <=> DateOf(t) \in Days /\ DateOf(t) >= date - (n - 1) /\ DateOf(t) < date
    BY <1>1, <1>4, <1>5, <1>6 DEF Since
  <2>2. \A t \in Times : t \in todays <=> DateOf(t) = date
    BY <1>2, <1>7 DEF OnDate, Times, DateOf
  <2>3. \A t \in Times : t \in edge <=> t >= time - 2 * n /\ DateOf(t) = date - n
    BY <1>1, <1>9 DEF EdgeOf
  <2>4. \A t \in Times : t \in past <=> t >= time - 2 * n
    BY <1>8 DEF Past
  <2>5. \A t \in Times : t \in Int /\ DateOf(t) \in Days /\ DateOf(t) \in Int
                         /\ (t = 2 * DateOf(t) \/ t = 2 * DateOf(t) + 1)
    BY <1>2 DEF Times, Days, DateOf
  <2>6. oldTimes \cap todays = {}
    BY <1>2, <2>1, <2>2, <2>5
  <2>7. oldTimes \cap edge = {}
    BY <1>2, <2>1, <2>3, <2>5
  <2>8. todays \cap edge = {}
    BY <1>2, <2>2, <2>3, <2>5
  <2>9. ASSUME NEW t \in Times
        PROVE  /\ t \in oldTimes \/ t \in todays \/ t \in edge => t \in past
               /\ t \in past /\ t \notin oldTimes /\ t \notin todays /\ t \notin edge => t > time
    <3>1. PICK d \in Int : d = DateOf(t)
      BY <2>5
    <3>2. t \in Int /\ (t = 2 * d \/ t = 2 * d + 1) /\ d \in Days
      BY <2>5, <3>1
    <3>3. /\ t \in oldTimes <=> d >= date - (n - 1) /\ d < date
          /\ t \in todays <=> d = date
          /\ t \in edge <=> t >= time - 2 * n /\ d = date - n
          /\ t \in past <=> t >= time - 2 * n
      BY <2>1, <2>2, <2>3, <2>4, <3>1, <3>2
    <3>4. QED
      BY <1>2, <3>2, <3>3
  <2>10. QED
    BY <2>6, <2>7, <2>8, <2>9
<1>21. PICK recent : recent = oldTimes \cup todays
  OBVIOUS
<1>22. IsFiniteSet(recent) /\ recent \subseteq Times /\ recent \cap edge = {}
  BY <1>10, <1>20, <1>21, FS_Union
<1>23. SumOver(col, recent) = SumOver(col, oldTimes) + SumOver(col, todays)
  <2>1. \A t \in oldTimes \cup todays : col[t] \in Int
    BY <1>11
  <2>2. QED
    BY <1>10, <1>20, <1>21, <2>1, SumOverDisjoint
<1>24. PICK both : both = recent \cup edge
  OBVIOUS
<1>25. SumOver(col, both) = SumOver(col, recent) + SumOver(col, edge)
  <2>1. \A t \in recent \cup edge : col[t] \in Int
    BY <1>11, <1>22
  <2>2. QED
    BY <1>10, <1>22, <1>24, <2>1, SumOverDisjoint
<1>26. SumOver(col, past) = SumOver(col, both)
  <2>1. both \in SUBSET past /\ \A t \in past \ both : t \in Times /\ t > time
    BY <1>20, <1>21, <1>24
  <2>2. \A t \in past \ both : col[t] = 0
    BY <2>1 DEF Recorded
  <2>3. \A t \in past : col[t] \in Int
    BY <1>11
  <2>4. QED
    BY <1>10, <2>1, <2>2, <2>3, SumOverZeros
<1>27. Total(day, dates) + Total(col, todays) <= Total(col, past)
  BY <1>12, <1>13, <1>17, <1>18, <1>19, <1>23, <1>25, <1>26
<1>28. ASSUME \A d \in Days : d < date => day[d] = col[2 * d] + col[2 * d + 1]
       PROVE  Total(day, dates) + Total(col, todays) + Total(col, edge) = Total(col, past)
  <2>1. \A d \in old : day[d] = whole[d]
    BY <1>5, <1>16, <1>28
  <2>2. SumOver(day, old) = SumOver(whole, old)
    BY <1>10, <2>1, SumOverSame
  <2>3. QED
    BY <1>12, <1>13, <1>17, <2>2, <1>23, <1>25, <1>26
<1>29. QED
  BY <1>1, <1>4, <1>7, <1>8, <1>9, <1>27, <1>28

Row == [count : Nat, cost : Nat]
OfDate(log, d) == [count |-> log[2 * d].count + log[2 * d + 1].count,
                    cost |-> log[2 * d].cost + log[2 * d + 1].cost]

(* A day has no snapshot or the sums of its rows, and it has them when an  *)
(* aggregation looked at it; nothing is dated later than now.              *)
Booked(log, days, time, seen) ==
  /\ \A t \in Times : /\ t > time => log[t] = NoRow
                      /\ log[t].count = 0 => log[t] = NoRow
  /\ \A d \in Days : days[d] = NoRow \/ (d < DateOf(time) /\ days[d] = OfDate(log, d))
  /\ \A d \in Days : \A a \in seen : a > d /\ a - WINDOW <= d => days[d] = OfDate(log, d)

CostInv ==
  /\ halfDay \in Times /\ aggregated \subseteq 0 .. today
  /\ extensions \in [Contracts -> [Times -> Row]]
  /\ snapshots \in [Contracts -> [Days -> Row]]
  /\ \A c \in Contracts : Booked(extensions[c], snapshots[c], halfDay, aggregated)

LEMMA TimesOfADay ==
  ASSUME CostAssumption, NEW d \in Days
  PROVE  2 * d \in Times /\ 2 * d + 1 \in Times /\ d \in Nat
  BY DEF CostAssumption, Days, Times

(* What an aggregation makes of the rows of a date                         *)
LEMMA SumsOfADay ==
  ASSUME CostAssumption, NEW log \in [Times -> Row], NEW d \in Days
  PROVE  /\ Sums(log, OnDate(d)) = OfDate(log, d) /\ OfDate(log, d) \in Row
         /\ Total(Counts(log), OnDate(d)) = OfDate(log, d).count
<1>1. 2 * d \in Times /\ 2 * d + 1 \in Times /\ d \in Int
  BY TimesOfADay
<1>2. \A t \in Times : log[t] \in Row /\ log[t].count \in Nat /\ log[t].cost \in Nat
  BY DEF Row
<1>3. \A t \in Times : Counts(log)[t] = log[t].count /\ Costs(log)[t] = log[t].cost
  BY DEF Counts, Costs
<1>4. PICK n, p : n = Counts(log) /\ p = Costs(log)
  OBVIOUS
<1>5. /\ n[2 * d] \in Int /\ n[2 * d + 1] \in Int /\ p[2 * d] \in Int /\ p[2 * d + 1] \in Int
      /\ n[2 * d] = log[2 * d].count /\ n[2 * d + 1] = log[2 * d + 1].count
      /\ p[2 * d] = log[2 * d].cost /\ p[2 * d + 1] = log[2 * d + 1].cost
  BY <1>1, <1>2, <1>3, <1>4
<1>6. Total(n, OnDate(d)) = n[2 * d] + n[2 * d + 1]
  BY <1>1, <1>5, TotalOnDate
<1>7. Total(p, OnDate(d)) = p[2 * d] + p[2 * d + 1]
  BY <1>1, <1>5, TotalOnDate
<1>8. Sums(log, OnDate(d)) = OfDate(log, d)
  BY <1>4, <1>5, <1>6, <1>7 DEF Sums, OfDate
<1>9. OfDate(log, d) \in Row /\ OfDate(log, d).count = log[2 * d].count + log[2 * d + 1].count
  BY <1>1, <1>2 DEF OfDate, Row
<1>10. QED
  BY <1>4, <1>5, <1>6, <1>8, <1>9

LEMMA DateOfATime ==
  ASSUME CostAssumption, NEW t \in Times
  PROVE  DateOf(t) \in Days /\ DateOf(t) \in Nat /\ t \in Nat /\ (t = 2 * DateOf(t) \/ t = 2 * DateOf(t) + 1)
  BY DEF CostAssumption, Times, Days, DateOf

LEMMA RecordKeeps ==
  ASSUME CostAssumption, CostInv, NEW c \in Contracts, RecordExtension(c)
  PROVE  CostInv'
<1>1. PICK p \in Prices :
        extensions' = [extensions EXCEPT ![c][halfDay] = [count |-> @.count + 1, cost |-> @.cost + p]]
  BY DEF RecordExtension
<1>2. halfDay' = halfDay /\ snapshots' = snapshots /\ aggregated' = aggregated /\ today' = today
  BY DEF RecordExtension, today, DateOf
<1>3. halfDay \in Times /\ p \in Nat
  BY DEF CostInv, CostAssumption
<1>4. extensions[c] \in [Times -> Row] /\ extensions[c][halfDay] \in Row
  BY <1>3 DEF CostInv
<1>5. PICK row : row = [count |-> extensions[c][halfDay].count + 1, cost |-> extensions[c][halfDay].cost + p]
  OBVIOUS
<1>6. row \in Row /\ row.count # 0
  BY <1>3, <1>4, <1>5 DEF Row
<1>7. PICK log : log = [extensions[c] EXCEPT ![halfDay] = row]
  OBVIOUS
<1>8. extensions' = [extensions EXCEPT ![c] = log]
  BY <1>1, <1>5, <1>7 DEF CostInv
<1>9. log \in [Times -> Row] /\ log[halfDay] = row
      /\ \A t \in Times : t # halfDay => log[t] = extensions[c][t]
  BY <1>3, <1>4, <1>6, <1>7
<1>10. extensions' \in [Contracts -> [Times -> Row]] /\ extensions'[c] = log
       /\ \A x \in Contracts : x # c => extensions'[x] = extensions[x]
  BY <1>8, <1>9 DEF CostInv
<1>11. Booked(extensions[c], snapshots[c], halfDay, aggregated)
  BY DEF CostInv
<1>12. ASSUME NEW d \in Days, d < today
       PROVE  OfDate(log, d) = OfDate(extensions[c], d)
  <2>1. 2 * d \in Times /\ 2 * d + 1 \in Times /\ d \in Nat
    BY TimesOfADay
  <2>2. PICK e \in Nat : e = DateOf(halfDay) /\ (halfDay = 2 * e \/ halfDay = 2 * e + 1)
    BY <1>3, DateOfATime
  <2>3. 2 * d # halfDay /\ 2 * d + 1 # halfDay
    BY <1>12, <2>1, <2>2 DEF today
  <2>4. QED
    BY <1>9, <2>1, <2>3 DEF OfDate
<1>13. Booked(log, snapshots[c], halfDay, aggregated)
  <2>1. \A t \in Times : /\ t > halfDay => log[t] = NoRow
                         /\ log[t].count = 0 => log[t] = NoRow
    <3>1. ~(halfDay > halfDay)
      BY <1>3 DEF Times
    <3>2. QED
      BY <3>1, <1>6, <1>9, <1>11 DEF Booked
  <2>2. \A d \in Days : snapshots[c][d] = NoRow \/ (d < DateOf(halfDay) /\ snapshots[c][d] = OfDate(log, d))
    BY <1>11, <1>12 DEF Booked, today
  <2>3. \A d \in Days : \A a \in aggregated : a > d => d < today
    <3>1. aggregated \subseteq 0 .. today /\ today \in Nat
      BY <1>3, DateOfATime DEF CostInv, today
    <3>2. \A d \in Days : d \in Int
      BY TimesOfADay
    <3>3. QED
      BY <3>1, <3>2
  <2>4. \A d \in Days : \A a \in aggregated : a > d /\ a - WINDOW <= d => snapshots[c][d] = OfDate(log, d)
    BY <1>11, <1>12, <2>3 DEF Booked
  <2>5. QED
    BY <2>1, <2>2, <2>4 DEF Booked
<1>14. \A x \in Contracts : Booked(extensions'[x], snapshots[x], halfDay, aggregated)
  BY <1>10, <1>13 DEF CostInv
<1>15. QED
  BY <1>2, <1>3, <1>10, <1>14 DEF CostInv

LEMMA ForgetKeeps ==
  ASSUME CostAssumption, CostInv, NEW c \in Contracts, Forget(c)
  PROVE  CostInv'
<1>1. PICK log : log = [t \in Times |-> NoRow]
  OBVIOUS
<1>2. PICK days : days = [d \in Days |-> NoRow]
  OBVIOUS
<1>3. extensions' = [extensions EXCEPT ![c] = log] /\ snapshots' = [snapshots EXCEPT ![c] = days]
  BY <1>1, <1>2 DEF Forget
<1>4. halfDay' = halfDay /\ aggregated' = aggregated /\ today' = today
  BY DEF Forget, today, DateOf
<1>5. NoRow \in Row /\ NoRow.count = 0 /\ NoRow.cost = 0
  BY DEF NoRow, Row
<1>6. log \in [Times -> Row] /\ days \in [Days -> Row]
  BY <1>1, <1>2, <1>5
<1>7. \A d \in Days : OfDate(log, d) = NoRow
  <2>1. \A d \in Days : log[2 * d] = NoRow /\ log[2 * d + 1] = NoRow
    BY <1>1, TimesOfADay
  <2>2. QED
    BY <2>1, <1>5 DEF OfDate, NoRow
<1>8. Booked(log, days, halfDay, aggregated)
  BY <1>1, <1>2, <1>7 DEF Booked
<1>9. /\ extensions' \in [Contracts -> [Times -> Row]] /\ extensions'[c] = log
      /\ snapshots' \in [Contracts -> [Days -> Row]] /\ snapshots'[c] = days
      /\ \A x \in Contracts : x # c => extensions'[x] = extensions[x] /\ snapshots'[x] = snapshots[x]
  BY <1>3, <1>6 DEF CostInv
<1>10. \A x \in Contracts : Booked(extensions'[x], snapshots'[x], halfDay, aggregated)
  BY <1>8, <1>9 DEF CostInv
<1>11. QED
  BY <1>4, <1>9, <1>10 DEF CostInv

LEMMA AggregationKeeps ==
  ASSUME CostAssumption, CostInv, aggregateDailyCostSnapshots
  PROVE  CostInv'
<1>1. halfDay' = halfDay /\ extensions' = extensions /\ today' = today /\ aggregated' = aggregated \cup {today}
  BY DEF aggregateDailyCostSnapshots, today, DateOf
<1>2. today \in Nat /\ WINDOW \in Nat /\ halfDay \in Times
  BY DateOfATime DEF CostInv, today, CostAssumption
<1>3. snapshots' = [c \in Contracts |-> [d \in Days |->
        IF d \in Rebuilt /\ Total(Counts(extensions[c]), OnDate(d)) > 0
        THEN Sums(extensions[c], OnDate(d)) ELSE snapshots[c][d]]]
  BY DEF aggregateDailyCostSnapshots
<1>4. ASSUME NEW c \in Contracts, NEW d \in Days
      PROVE  /\ d \in Rebuilt => snapshots'[c][d] = OfDate(extensions[c], d)
             /\ \/ snapshots'[c][d] = snapshots[c][d]
                \/ d \in Rebuilt /\ snapshots'[c][d] = OfDate(extensions[c], d)
             /\ snapshots'[c][d] \in Row
  <2>1. PICK log \in [Times -> Row] : log = extensions[c]
    BY DEF CostInv
  <2>2. Sums(log, OnDate(d)) = OfDate(log, d) /\ OfDate(log, d) \in Row
        /\ Total(Counts(log), OnDate(d)) = OfDate(log, d).count
    BY SumsOfADay
  <2>3. snapshots[c][d] \in Row
    BY DEF CostInv
  <2>4. snapshots'[c][d] = IF d \in Rebuilt /\ OfDate(log, d).count > 0 THEN OfDate(log, d) ELSE snapshots[c][d]
    BY <1>3, <2>1, <2>2
  <2>5. ASSUME ~(OfDate(log, d).count > 0)
        PROVE  snapshots[c][d] = OfDate(log, d)
    <3>1. 2 * d \in Times /\ 2 * d + 1 \in Times
      BY TimesOfADay
    <3>2. log[2 * d].count \in Nat /\ log[2 * d + 1].count \in Nat
      BY <3>1 DEF Row
    <3>3. OfDate(log, d).count = log[2 * d].count + log[2 * d + 1].count
      BY DEF OfDate
    <3>4. log[2 * d].count = 0 /\ log[2 * d + 1].count = 0
      BY <2>5, <3>2, <3>3
    <3>5. Booked(log, snapshots[c], halfDay, aggregated)
      BY <2>1 DEF CostInv
    <3>6. log[2 * d] = NoRow /\ log[2 * d + 1] = NoRow
      BY <3>1, <3>4, <3>5 DEF Booked
    <3>7. OfDate(log, d) = NoRow
      BY <3>6 DEF OfDate, NoRow
    <3>8. QED
      BY <3>5, <3>7 DEF Booked
  <2>6. QED
    BY <2>1, <2>2, <2>3, <2>4, <2>5
<1>5. snapshots' \in [Contracts -> [Days -> Row]]
  BY <1>3, <1>4
<1>6. aggregated' \subseteq 0 .. today
  BY <1>1, <1>2 DEF CostInv
<1>7. \A d \in Days : d \in Int /\ (d \in Rebuilt <=> d < today /\ d >= today - WINDOW)
  BY TimesOfADay DEF Rebuilt
<1>8. ASSUME NEW c \in Contracts
      PROVE  Booked(extensions[c], snapshots'[c], halfDay, aggregated')
  <2>1. Booked(extensions[c], snapshots[c], halfDay, aggregated)
    BY DEF CostInv
  <2>2. \A d \in Days : snapshots'[c][d] = NoRow
                       \/ (d < DateOf(halfDay) /\ snapshots'[c][d] = OfDate(extensions[c], d))
    BY <1>4, <1>7, <2>1 DEF Booked, today
  <2>3. ASSUME NEW d \in Days, NEW a \in aggregated', a > d, a - WINDOW <= d
        PROVE  snapshots'[c][d] = OfDate(extensions[c], d)
    <3>1. CASE a = today
      <4>1. d \in Rebuilt
        BY <2>3, <3>1, <1>2, <1>7
      <4>2. QED
        BY <4>1, <1>4
    <3>2. CASE a \in aggregated
      <4>1. snapshots[c][d] = OfDate(extensions[c], d)
        BY <2>1, <2>3, <3>2 DEF Booked
      <4>2. QED
        BY <4>1, <1>4
    <3>3. QED
      BY <1>1, <3>1, <3>2
  <2>4. QED
    BY <2>1, <2>2, <2>3 DEF Booked
<1>9. QED
  BY <1>1, <1>5, <1>6, <1>8 DEF CostInv

LEMMA TimeKeeps ==
  ASSUME CostAssumption, CostInv, TimePasses
  PROVE  CostInv'
<1>1. halfDay' = halfDay + 1 /\ halfDay < 2 * MaxDay + 1
      /\ extensions' = extensions /\ snapshots' = snapshots /\ aggregated' = aggregated
  BY DEF TimePasses
<1>2. halfDay \in Times /\ halfDay \in Nat
  BY DateOfATime DEF CostInv
<1>3. halfDay' \in Times
  BY <1>1, <1>2 DEF Times, CostAssumption
<1>4. PICK e \in Nat : e = DateOf(halfDay) /\ (halfDay = 2 * e \/ halfDay = 2 * e + 1)
  BY <1>2, DateOfATime
<1>5. PICK f \in Nat : f = DateOf(halfDay') /\ (halfDay' = 2 * f \/ halfDay' = 2 * f + 1)
  BY <1>3, DateOfATime
<1>6. e <= f
  BY <1>1, <1>2, <1>4, <1>5
<1>7. today' = f /\ today = e
  BY <1>4, <1>5 DEF today
<1>8. aggregated' \subseteq 0 .. today'
  BY <1>1, <1>4, <1>5, <1>6, <1>7 DEF CostInv
<1>9. ASSUME NEW c \in Contracts
      PROVE  Booked(extensions[c], snapshots[c], halfDay', aggregated)
  <2>1. Booked(extensions[c], snapshots[c], halfDay, aggregated)
    BY DEF CostInv
  <2>2. \A t \in Times : t > halfDay' => t > halfDay
    BY <1>1, <1>2 DEF Times
  <2>3. \A d \in Days : d < DateOf(halfDay) => d < DateOf(halfDay')
    <3>1. \A d \in Days : d \in Int
      BY TimesOfADay
    <3>2. QED
      BY <3>1, <1>4, <1>5, <1>6
  <2>4. QED
    BY <2>1, <2>2, <2>3 DEF Booked
<1>10. QED
  BY <1>1, <1>3, <1>8, <1>9 DEF CostInv

(* The two columns of such a contract                                      *)
LEMMA BookedIsRecorded ==
  ASSUME CostAssumption, NEW log \in [Times -> Row], NEW days \in [Days -> Row], NEW time \in Times,
         NEW seen, Booked(log, days, time, seen)
  PROVE  Recorded(Counts(log), Counts(days), time) /\ Recorded(Costs(log), Costs(days), time)
<1>1. \A t \in Times : log[t] \in Row /\ log[t].count \in Nat /\ log[t].cost \in Nat
  BY DEF Row
<1>2. \A d \in Days : days[d] \in Row /\ days[d].count \in Nat /\ days[d].cost \in Nat
  BY DEF Row
<1>3. /\ Counts(log) \in [Times -> Nat] /\ \A t \in Times : Counts(log)[t] = log[t].count
      /\ Costs(log) \in [Times -> Nat] /\ \A t \in Times : Costs(log)[t] = log[t].cost
      /\ Counts(days) \in [Days -> Nat] /\ \A d \in Days : Counts(days)[d] = days[d].count
      /\ Costs(days) \in [Days -> Nat] /\ \A d \in Days : Costs(days)[d] = days[d].cost
  BY <1>1, <1>2 DEF Counts, Costs
<1>4. NoRow.count = 0 /\ NoRow.cost = 0
  BY DEF NoRow
<1>5. \A t \in Times : t > time => log[t].count = 0 /\ log[t].cost = 0
  BY <1>4 DEF Booked
<1>6. ASSUME NEW d \in Days
      PROVE  /\ 2 * d \in Times /\ 2 * d + 1 \in Times
             /\ days[d].count <= log[2 * d].count + log[2 * d + 1].count
             /\ days[d].cost <= log[2 * d].cost + log[2 * d + 1].cost
             /\ d >= DateOf(time) => days[d].count = 0 /\ days[d].cost = 0
  <2>1. 2 * d \in Times /\ 2 * d + 1 \in Times /\ d \in Int
    BY TimesOfADay
  <2>2. /\ log[2 * d].count \in Nat /\ log[2 * d + 1].count \in Nat
        /\ log[2 * d].cost \in Nat /\ log[2 * d + 1].cost \in Nat
    BY <1>1, <2>1
  <2>3. OfDate(log, d).count = log[2 * d].count + log[2 * d + 1].count
        /\ OfDate(log, d).cost = log[2 * d].cost + log[2 * d + 1].cost
    BY DEF OfDate
  <2>4. CASE days[d] = NoRow
    BY <2>4, <2>1, <2>2, <1>4
  <2>5. CASE d < DateOf(time) /\ days[d] = OfDate(log, d)
    <3>1. DateOf(time) \in Int
      BY DateOfATime
    <3>2. QED
      BY <2>5, <2>1, <2>2, <2>3, <3>1
  <2>6. QED
    BY <2>4, <2>5 DEF Booked
<1>7. QED
  BY <1>3, <1>5, <1>6 DEF Recorded

(* Without a term that is not zero there is no total.                      *)
LEMMA NothingTotals ==
  ASSUME NEW col, NEW when, IsFiniteSet(when), \A t \in when : col[t] = 0
  PROVE  Total(col, when) = 0
<1>1. \A t \in when : col[t] \in Int
  OBVIOUS
<1>2. Total(col, when) = SumOver(col, when)
  BY <1>1, TotalIsSum
<1>3. PICK none \in SUBSET when : none = {}
  OBVIOUS
<1>4. SumOver(col, when) = SumOver(col, none)
  BY <1>1, SumOverZeros
<1>5. SumOver(col, none) = 0
  BY <1>3, SumOverUnfolds, FS_EmptySet
<1>6. QED
  BY <1>2, <1>4, <1>5

LEMMA BookedReportsAgree ==
  ASSUME CostAssumption, CostInv
  PROVE  ReportsAgree
<1>1. halfDay \in Times /\ today \in Days /\ today \in Nat
  BY DateOfATime DEF CostInv, today
<1>2. IsFiniteSet(Days)
  <2>1. 0 \in Int /\ MaxDay \in Int
    BY DEF CostAssumption
  <2>2. QED
    BY <2>1, FS_Interval DEF Days
<1>3. SUFFICES ASSUME NEW n \in 1 .. MaxDay + 1
               PROVE  /\ \A c \in Contracts :
                            LET summary == getContractCostSummary(c, n)  history == getExtensionCosts(c, n) IN
                            /\ summary.count <= history.count /\ summary.cost <= history.cost
                            /\ Covered => /\ summary.count + Edge(c, n).count = history.count
                                          /\ summary.cost + Edge(c, n).cost = history.cost
                      /\ Cardinality({c \in TaggedContracts : getContractCostSummary(c, n).count > 0})
                            <= getFleetCostRollup(n).contracts
  BY DEF ReportsAgree
<1>4. n \in Nat \ {0}
  BY DEF CostAssumption
<1>5. ASSUME NEW c \in Contracts
      PROVE  /\ getContractCostSummary(c, n).count
                   = Total(Counts(snapshots[c]), Since(halfDay, n)) + Total(Counts(extensions[c]), OnDate(DateOf(halfDay)))
             /\ getContractCostSummary(c, n).cost
                   = Total(Costs(snapshots[c]), Since(halfDay, n)) + Total(Costs(extensions[c]), OnDate(DateOf(halfDay)))
             /\ getExtensionCosts(c, n).count = Total(Counts(extensions[c]), Past(halfDay, n))
             /\ getExtensionCosts(c, n).cost = Total(Costs(extensions[c]), Past(halfDay, n))
             /\ Edge(c, n).count = Total(Counts(extensions[c]), EdgeOf(halfDay, n))
             /\ Edge(c, n).cost = Total(Costs(extensions[c]), EdgeOf(halfDay, n))
  BY DEF getContractCostSummary, getExtensionCosts, Edge, Sums, Since, Past, EdgeOf, today
<1>6. ASSUME NEW c \in Contracts
      PROVE  /\ Recorded(Counts(extensions[c]), Counts(snapshots[c]), halfDay)
             /\ Recorded(Costs(extensions[c]), Costs(snapshots[c]), halfDay)
             /\ \A d \in Days :
                  /\ Counts(snapshots[c])[d] = snapshots[c][d].count
                  /\ Covered /\ d < DateOf(halfDay) =>
                       /\ Counts(snapshots[c])[d] = Counts(extensions[c])[2 * d] + Counts(extensions[c])[2 * d + 1]
                       /\ Costs(snapshots[c])[d] = Costs(extensions[c])[2 * d] + Costs(extensions[c])[2 * d + 1]
  <2>1. PICK log \in [Times -> Row], days \in [Days -> Row] : log = extensions[c] /\ days = snapshots[c]
    BY DEF CostInv
  <2>2. Booked(log, days, halfDay, aggregated)
    BY <2>1 DEF CostInv
  <2>3. Recorded(Counts(log), Counts(days), halfDay) /\ Recorded(Costs(log), Costs(days), halfDay)
    BY <1>1, <2>2, BookedIsRecorded
  <2>4. ASSUME NEW d \in Days
        PROVE  Counts(days)[d] = days[d].count /\ Costs(days)[d] = days[d].cost
    BY DEF Counts, Costs
  <2>5. ASSUME NEW t \in Times
        PROVE  Counts(log)[t] = log[t].count /\ Costs(log)[t] = log[t].cost
    BY DEF Counts, Costs
  <2>6. ASSUME NEW d \in Days, Covered, d < DateOf(halfDay)
        PROVE  /\ Counts(days)[d] = Counts(log)[2 * d] + Counts(log)[2 * d + 1]
               /\ Costs(days)[d] = Costs(log)[2 * d] + Costs(log)[2 * d + 1]
    <3>1. 2 * d \in Times /\ 2 * d + 1 \in Times /\ d \in Nat
      BY TimesOfADay
    <3>2. d \in 0 .. today - 1
      BY <2>6, <3>1, <1>1 DEF today
    <3>3. PICK a \in aggregated : a > d /\ a - WINDOW <= d
      BY <2>6, <3>2 DEF Covered
    <3>4. days[d] = OfDate(log, d)
      BY <3>3, <2>2 DEF Booked
    <3>5. days[d].count = log[2 * d].count + log[2 * d + 1].count
          /\ days[d].cost = log[2 * d].cost + log[2 * d + 1].cost
      BY <3>4 DEF OfDate
    <3>6. QED
      BY <3>1, <3>5, <2>4, <2>5
  <2>7. QED
    BY <2>1, <2>3, <2>4, <2>6
<1>7. ASSUME NEW c \in Contracts
      PROVE  LET summary == getContractCostSummary(c, n)  history == getExtensionCosts(c, n) IN
             /\ summary.count <= history.count /\ summary.cost <= history.cost
             /\ Covered => /\ summary.count + Edge(c, n).count = history.count
                           /\ summary.cost + Edge(c, n).cost = history.cost
  <2>1. PICK col, day : col = Counts(extensions[c]) /\ day = Counts(snapshots[c])
    OBVIOUS
  <2>2. PICK costs, spent : costs = Costs(extensions[c]) /\ spent = Costs(snapshots[c])
    OBVIOUS
  <2>3. Recorded(col, day, halfDay) /\ Recorded(costs, spent, halfDay)
    BY <1>6, <2>1, <2>2
  <2>4. /\ Total(day, Since(halfDay, n)) + Total(col, OnDate(DateOf(halfDay))) <= Total(col, Past(halfDay, n))
        /\ (\A d \in Days : d < DateOf(halfDay) => day[d] = col[2 * d] + col[2 * d + 1])
             => Total(day, Since(halfDay, n)) + Total(col, OnDate(DateOf(halfDay))) + Total(col, EdgeOf(halfDay, n))
                  = Total(col, Past(halfDay, n))
    BY <1>4, <2>3, ColumnsAgree
  <2>5. /\ Total(spent, Since(halfDay, n)) + Total(costs, OnDate(DateOf(halfDay))) <= Total(costs, Past(halfDay, n))
        /\ (\A d \in Days : d < DateOf(halfDay) => spent[d] = costs[2 * d] + costs[2 * d + 1])
             => Total(spent, Since(halfDay, n)) + Total(costs, OnDate(DateOf(halfDay))) + Total(costs, EdgeOf(halfDay, n))
                  = Total(costs, Past(halfDay, n))
    BY <1>4, <2>3, ColumnsAgree
  <2>6. Covered => /\ \A d \in Days : d < DateOf(halfDay) => day[d] = col[2 * d] + col[2 * d + 1]
                   /\ \A d \in Days : d < DateOf(halfDay) => spent[d] = costs[2 * d] + costs[2 * d + 1]
    BY <1>6, <2>1, <2>2
  <2>7. QED
    BY <1>5, <2>1, <2>2, <2>4, <2>5, <2>6
<1>8. Cardinality({c \in TaggedContracts : getContractCostSummary(c, n).count > 0})
        <= getFleetCostRollup(n).contracts
  <2>1. PICK some \in SUBSET TaggedContracts :
          some = {c \in TaggedContracts : getContractCostSummary(c, n).count > 0}
    OBVIOUS
  <2>2. PICK all \in SUBSET TaggedContracts :
          all = {c \in TaggedContracts :
                   \/ \E d \in Days : snapshots[c][d].count > 0
                   \/ Total(Counts(extensions[c]), OnDate(today)) > 0}
    OBVIOUS
  <2>3. getFleetCostRollup(n).contracts = Cardinality(all)
    BY <2>2 DEF getFleetCostRollup
  <2>4. ASSUME NEW c \in some, c \notin all
        PROVE  FALSE
    <3>1. c \in Contracts /\ c \in TaggedContracts
      BY DEF CostAssumption
    <3>2. ~(Total(Counts(extensions[c]), OnDate(today)) > 0)
          /\ \A d \in Days : ~(snapshots[c][d].count > 0)
      BY <2>2, <2>4, <3>1
    <3>3. \A d \in Days : snapshots[c][d].count \in Nat
      BY <3>1 DEF CostInv, Row
    <3>4. \A d \in Days : Counts(snapshots[c])[d] = 0
      BY <3>1, <3>2, <3>3, <1>6
    <3>5. PICK day : day = Counts(snapshots[c])
      OBVIOUS
    <3>6. PICK dates \in SUBSET Days : dates = Since(halfDay, n)
      BY DEF Since
    <3>7. Total(day, dates) = 0
      BY <3>4, <3>5, <3>6, <1>2, FS_Subset, NothingTotals
    <3>8. getContractCostSummary(c, n).count > 0
      BY <2>1
    <3>9. PICK live : live = Total(Counts(extensions[c]), OnDate(DateOf(halfDay)))
      OBVIOUS
    <3>10. live \in Int
      <4>1. PICK log \in [Times -> Row] : log = extensions[c]
        BY <3>1 DEF CostInv
      <4>2. Total(Counts(log), OnDate(today)) = OfDate(log, today).count
            /\ OfDate(log, today) \in Row
        BY <1>1, SumsOfADay
      <4>3. QED
        BY <4>1, <4>2, <3>9 DEF today, Row
    <3>11. 0 + live > 0 /\ ~(live > 0)
      BY <3>1, <3>2, <3>5, <3>6, <3>7, <3>8, <3>9, <1>5 DEF today
    <3>12. QED
      BY <3>10, <3>11
  <2>5. IsFiniteSet(all) /\ some \subseteq all
    BY <2>4, FS_Subset DEF CostAssumption
  <2>6. Cardinality(some) <= Cardinality(all)
    BY <2>5, FS_Subset
  <2>7. QED
    BY <2>1, <2>3, <2>6
<1>9. QED
  BY <1>7, <1>8

(* The summary of a contract, made of snapshots and today's rows, never    *)
(* says more than its history, and says the same but for the edge of the   *)
(* period unless a day went unlooked at (db/repositories.ts,               *)
(* core/costs.ts).                                                         *)
THEOREM ReportsAlwaysAgree == CostSpec => []ReportsAgree
<1>1. CostAssumption
  BY CostAssumption
<1>2. CostInit => CostInv
  <2>1. SUFFICES ASSUME CostInit
                 PROVE  CostInv
    OBVIOUS
  <2>2. 0 \in Times /\ DateOf(0) \in Nat
    BY <1>1 DEF CostAssumption, Times, DateOf
  <2>3. NoRow \in Row /\ NoRow.count = 0 /\ NoRow.cost = 0
    BY DEF NoRow, Row
  <2>4. halfDay = 0 /\ aggregated = {} /\ \A c \in Contracts :
          (\A t \in Times : extensions[c][t] = NoRow) /\ (\A d \in Days : snapshots[c][d] = NoRow)
    BY <2>1 DEF CostInit
  <2>5. \A c \in Contracts : Booked(extensions[c], snapshots[c], halfDay, aggregated)
    BY <2>4 DEF Booked
  <2>6. extensions \in [Contracts -> [Times -> Row]] /\ snapshots \in [Contracts -> [Days -> Row]]
    BY <2>1, <2>3 DEF CostInit
  <2>7. QED
    BY <2>2, <2>4, <2>5, <2>6 DEF CostInv
<1>3. CostInv /\ [CostNext]_costVars => CostInv'
  <2>1. SUFFICES ASSUME CostInv, [CostNext]_costVars
                 PROVE  CostInv'
    OBVIOUS
  <2>2. CASE CostNext
    BY <2>1, <2>2, <1>1, RecordKeeps, ForgetKeeps, AggregationKeeps, TimeKeeps DEF CostNext
  <2>3. CASE UNCHANGED costVars
    BY <2>1, <2>3 DEF costVars, CostInv, today, DateOf
  <2>4. QED
    BY <2>1, <2>2, <2>3
<1>4. CostInv => ReportsAgree
  BY <1>1, BookedReportsAgree
<1>5. QED
  BY <1>2, <1>3, <1>4, PTL DEF CostSpec

-----------------------------------------------------------------------------
(* Startup *)

ep == <<"extension_policies", "predictive">>
gh == <<"guard_policy_history", "predictive">>

(* The tables migration 14 alters: both are there or neither is, and so    *)
(* are the columns it adds; and they are there once a process has opened   *)
(* the database.                                                           *)
TwinsIn(db) ==
  /\ Has(db, "extension_policies") <=> Has(db, "guard_policy_history")
  /\ ep \in db <=> gh \in db

Twins == TwinsIn(schema)

AppliedAdded == \A v \in applied : \A s \in migration(v) : s.adds \subseteq schema

StartPlaces == {"closed", "opened", "migrating", "altered", "ready"}

(* What a process has left to do covers what is not applied, and nothing   *)
(* is left when it is past its migrations.                                 *)
Progress(p) ==
  /\ pending[p] \subseteq Versions
  /\ start[p] # "closed" => Has(schema, "extension_policies")
  /\ start[p] = "migrating" => Versions \ applied \subseteq pending[p]
  /\ start[p] \in {"altered", "ready"} => /\ Versions \subseteq applied
                                          /\ <<"extension_policies", "max_fee">> \in schema

StartInv ==
  /\ start \in [Processes -> StartPlaces] /\ pending \in [Processes -> SUBSET Versions]
  /\ applied \subseteq Versions
  /\ ~oldCheck
  /\ Twins /\ AppliedAdded
  /\ \A p \in Processes : Progress(p)

(* The migrations, one at a time. *)
LEMMA TheMigrations ==
  /\ migration(4) = {create("alert_config_targets", {}), addColumn("alerts_fired", "channel")}
  /\ migration(5) = {addColumn("alert_configs", "enabled")}
  /\ migration(11) = {addColumn("extension_policies", "max_fee")}
  /\ migration(12) = {create("guard_policy_history", {})}
  /\ migration(14) = {addColumn("extension_policies", "predictive"),
                      addColumn("guard_policy_history", "predictive")}
<1>1. migration(4) = {create("alert_config_targets", {}), addColumn("alerts_fired", "channel")}
  BY DEF migration
<1>2. migration(5) = {addColumn("alert_configs", "enabled")}
  BY DEF migration
<1>3. migration(11) = {addColumn("extension_policies", "max_fee")}
  BY DEF migration
<1>4. migration(12) = {create("guard_policy_history", {})}
  BY DEF migration
<1>5. migration(14) = {addColumn("extension_policies", "predictive"),
                       addColumn("guard_policy_history", "predictive")}
  BY DEF migration
<1>6. QED
  BY <1>1, <1>2, <1>3, <1>4, <1>5

LEMMA StatementAdds ==
  ASSUME NEW t, NEW c
  PROVE  /\ addColumn(t, c).adds = {<<t, c>>} /\ addColumn(t, c).once
         /\ Items(addColumn(t, c)) = {<<t, c>>}
         /\ create(t, {}).adds = {} /\ ~create(t, {}).once /\ create(t, {}).table = t
         /\ create(t, {c}).adds = {<<t, c>>} /\ ~create(t, {c}).once /\ create(t, {c}).table = t
         /\ Items(create(t, {})) = {<<t, "id">>}
         /\ Items(create(t, {c})) = {<<t, c>>, <<t, "id">>}
  BY DEF addColumn, create, Items

LEMMA WhatMigrationsAdd ==
  ASSUME NEW db
  PROVE  /\ (\A s \in migration(4) : s.adds \subseteq db) <=> <<"alerts_fired", "channel">> \in db
         /\ (\A s \in migration(5) : s.adds \subseteq db) <=> <<"alert_configs", "enabled">> \in db
         /\ (\A s \in migration(11) : s.adds \subseteq db) <=> <<"extension_policies", "max_fee">> \in db
         /\ \A s \in migration(12) : s.adds \subseteq db
         /\ (\A s \in migration(14) : s.adds \subseteq db) <=> ep \in db /\ gh \in db
<1>1. (\A s \in migration(4) : s.adds \subseteq db) <=> <<"alerts_fired", "channel">> \in db
  <2>1. /\ addColumn("alerts_fired", "channel").adds = {<<"alerts_fired", "channel">>}
        /\ create("alert_config_targets", {}).adds = {}
    BY DEF addColumn, create
  <2>2. QED
    BY <2>1, TheMigrations
<1>2. (\A s \in migration(5) : s.adds \subseteq db) <=> <<"alert_configs", "enabled">> \in db
  <2>1. addColumn("alert_configs", "enabled").adds = {<<"alert_configs", "enabled">>}
    BY DEF addColumn, create
  <2>2. QED
    BY <2>1, TheMigrations
<1>3. (\A s \in migration(11) : s.adds \subseteq db) <=> <<"extension_policies", "max_fee">> \in db
  <2>1. addColumn("extension_policies", "max_fee").adds = {<<"extension_policies", "max_fee">>}
    BY DEF addColumn, create
  <2>2. QED
    BY <2>1, TheMigrations
<1>4. \A s \in migration(12) : s.adds \subseteq db
  BY TheMigrations, StatementAdds
<1>5. (\A s \in migration(14) : s.adds \subseteq db) <=> ep \in db /\ gh \in db
  <2>1. /\ addColumn("extension_policies", "predictive").adds = {ep}
        /\ addColumn("guard_policy_history", "predictive").adds = {gh}
    BY DEF addColumn, ep, gh
  <2>2. QED
    BY <2>1, TheMigrations
<1>6. QED
  BY <1>1, <1>2, <1>3, <1>4, <1>5

LEMMA ScriptGrows ==
  ASSUME NEW db, NEW ss
  PROVE  db \subseteq Script(db, ss).db
  BY DEF Script

(* A script that did not fail has added what it adds, and took nothing     *)
(* away; one of ADD COLUMNs alone that failed found all it adds, of both   *)
(* tables if it alters two.                                                *)
LEMMA ScriptAdds ==
  ASSUME NEW db, NEW v \in Versions, NEW s \in migration(v)
  PROVE  s.adds \subseteq Script(db, migration(v)).db
<1>2. Brings(db, s) \subseteq Script(db, migration(v)).db
  BY DEF Script
<1>3. s.once => Brings(db, s) = s.adds
  BY DEF Brings, Items
<1>4. s.once \/ s.adds = {}
  <2>1. \A t, c : addColumn(t, c).once /\ create(t, {}).adds = {}
    BY DEF addColumn, create
  <2>2. QED
    BY <2>1, TheMigrations DEF Versions
<1>5. QED
  BY <1>2, <1>3, <1>4

LEMMA FoundAllThere ==
  ASSUME NEW v \in Versions, NEW db, ep \in db <=> gh \in db,
         Script(db, migration(v)).failed, isAddColumnMigration(v)
  PROVE  \A s \in migration(v) : s.adds \subseteq db
<1>1. PICK s \in migration(v) : s.once /\ s.adds \subseteq db
  BY DEF Script, Fails
<1>2. CASE v = 4
  BY <1>2, TheMigrations, StatementAdds DEF isAddColumnMigration
<1>3. CASE v = 5
  BY <1>1, <1>3, TheMigrations
<1>4. CASE v = 11
  BY <1>1, <1>4, TheMigrations
<1>5. CASE v = 12
  BY <1>5, WhatMigrationsAdd
<1>6. CASE v = 14
  <2>0. /\ addColumn("extension_policies", "predictive").adds = {ep}
        /\ addColumn("guard_policy_history", "predictive").adds = {gh}
    BY DEF addColumn, ep, gh
  <2>1. ep \in db \/ gh \in db
    BY <1>1, <1>6, <2>0, TheMigrations
  <2>2. QED
    BY <1>6, <2>1, WhatMigrationsAdd
<1>7. QED
  BY <1>2, <1>3, <1>4, <1>5, <1>6 DEF Versions

(* What schema.sql and the migrations do to the two tables migration 14    *)
(* alters.                                                                 *)
LEMMA ItemsOf ==
  /\ Items(create("extension_policies", {"max_fee", "predictive"}))
       = {<<"extension_policies", "max_fee">>, ep, <<"extension_policies", "id">>}
  /\ Items(create("alert_configs", {"enabled"}))
       = {<<"alert_configs", "enabled">>, <<"alert_configs", "id">>}
  /\ Items(create("alerts_fired", {})) = {<<"alerts_fired", "id">>}
  /\ Items(create("guard_policy_history", {"predictive"}))
       = {gh, <<"guard_policy_history", "id">>}
  /\ Items(create("extension_policies", {})) = {<<"extension_policies", "id">>}
  /\ Items(create("alert_configs", {})) = {<<"alert_configs", "id">>}
  /\ Items(create("guard_policy_history", {})) = {<<"guard_policy_history", "id">>}
  /\ Items(create("alert_config_targets", {})) = {<<"alert_config_targets", "id">>}
  /\ Items(addColumn("alerts_fired", "channel")) = {<<"alerts_fired", "channel">>}
  /\ Items(addColumn("alert_configs", "enabled")) = {<<"alert_configs", "enabled">>}
  /\ Items(addColumn("extension_policies", "max_fee")) = {<<"extension_policies", "max_fee">>}
  /\ Items(addColumn("extension_policies", "predictive")) = {ep}
  /\ Items(addColumn("guard_policy_history", "predictive")) = {gh}
  BY DEF Items, create, addColumn, ep, gh

LEMMA OpeningKeepsTwins ==
  ASSUME NEW db, TwinsIn(db)
  PROVE  /\ TwinsIn(Script(db, SchemaSql).db)
         /\ Has(Script(db, SchemaSql).db, "extension_policies")
         /\ db \subseteq Script(db, SchemaSql).db
<1> DEFINE e == create("extension_policies", {"max_fee", "predictive"})
           g == create("guard_policy_history", {"predictive"})
           a == create("alert_configs", {"enabled"})
           f == create("alerts_fired", {})
<1>1. Script(db, SchemaSql).db
        = db \cup Brings(db, e) \cup Brings(db, g) \cup Brings(db, a) \cup Brings(db, f)
  BY DEF Script, SchemaSql
<1>2. /\ Brings(db, e) = IF Has(db, "extension_policies") THEN {} ELSE Items(e)
      /\ Brings(db, g) = IF Has(db, "guard_policy_history") THEN {} ELSE Items(g)
      /\ Brings(db, a) \subseteq Items(a)
      /\ Brings(db, f) \subseteq Items(f)
  BY DEF Brings, create
<1>3. /\ Items(e) = {<<"extension_policies", "max_fee">>, ep, <<"extension_policies", "id">>}
      /\ Items(g) = {gh, <<"guard_policy_history", "id">>}
      /\ Items(a) = {<<"alert_configs", "enabled">>, <<"alert_configs", "id">>}
      /\ Items(f) = {<<"alerts_fired", "id">>}
  BY ItemsOf
<1> HIDE DEF e, g, a, f
<1>4. QED
  BY <1>1, <1>2, <1>3 DEF TwinsIn, Has, ep, gh

LEMMA MigratingKeepsTwins ==
  ASSUME NEW v \in Versions, NEW db, TwinsIn(db), Has(db, "extension_policies"),
         ~Script(db, migration(v)).failed
  PROVE  TwinsIn(Script(db, migration(v)).db)
<1>1. CASE v = 4
  <2>1. Script(db, migration(4)).db \subseteq
          db \cup {<<"alert_config_targets", "id">>, <<"alerts_fired", "channel">>}
    BY TheMigrations, ItemsOf DEF Script, Brings
  <2>2. QED
    BY <1>1, <2>1, ScriptGrows DEF TwinsIn, Has, ep, gh
<1>2. CASE v = 5
  <2>1. Script(db, migration(5)).db \subseteq db \cup {<<"alert_configs", "enabled">>}
    BY TheMigrations, ItemsOf DEF Script, Brings
  <2>2. QED
    BY <1>2, <2>1, ScriptGrows DEF TwinsIn, Has, ep, gh
<1>3. CASE v = 11
  <2>1. Script(db, migration(11)).db \subseteq db \cup {<<"extension_policies", "max_fee">>}
    BY TheMigrations, ItemsOf DEF Script, Brings
  <2>2. QED
    BY <1>3, <2>1, ScriptGrows DEF TwinsIn, Has, ep, gh
<1>4. CASE v = 12
  <2>1. Script(db, migration(12)).db \subseteq db \cup {<<"guard_policy_history", "id">>}
    BY TheMigrations, ItemsOf DEF Script, Brings
  <2>2. QED
    BY <1>4, <2>1, ScriptGrows DEF TwinsIn, Has, ep, gh
<1>5. CASE v = 14
  <2>1. Script(db, migration(14)).db \subseteq db \cup {ep, gh}
    BY TheMigrations, ItemsOf DEF Script, Brings
  <2>2. ep \in Script(db, migration(14)).db /\ gh \in Script(db, migration(14)).db
    BY ScriptAdds, WhatMigrationsAdd DEF Versions
  <2>3. QED
    BY <1>5, <2>1, <2>2, ScriptGrows DEF TwinsIn, Has, ep, gh
<1>6. QED
  BY <1>1, <1>2, <1>3, <1>4, <1>5 DEF Versions

-----------------------------------------------------------------------------
(* What the least pending migration is *)
Oldest(p) == CHOOSE w \in pending[p] : \A x \in pending[p] : w <= x

LEMMA OldestIsOne ==
  ASSUME NEW p, pending[p] \in SUBSET Versions, pending[p] # {}
  PROVE  Oldest(p) \in pending[p] /\ Oldest(p) \in Versions
<1>1. pending[p] \in SUBSET Nat
  BY DEF Versions
<1>2. \E w \in pending[p] : \A x \in pending[p] : w <= x
  BY <1>1, LeastNatural
<1>3. QED
  BY <1>2 DEF Oldest

LEMMA StartInitInv ==
  ASSUME \A r \in Releases : r = 0 \/ (r \in Nat /\ r >= 12), OldChecks = {FALSE}, StartInit
  PROVE  StartInv
<1>1. PICK r \in Releases : \/ r = 0 /\ schema = {} /\ applied = {}
                            \/ r # 0 /\ schema = OldDatabase(r) /\ applied = Before(r)
  BY DEF StartInit
<1>2. /\ start \in [Processes -> StartPlaces] /\ pending \in [Processes -> SUBSET Versions]
      /\ ~oldCheck /\ \A p \in Processes : Progress(p)
  BY DEF StartInit, StartPlaces, Progress
<1>3. CASE r = 0
  BY <1>1, <1>2, <1>3 DEF StartInv, Twins, TwinsIn, AppliedAdded, Has
<1>4. CASE r # 0
  <2>1. r \in Nat /\ r >= 12
    BY <1>4
  <2>2. /\ applied \subseteq Versions
        /\ 4 \in Before(r) /\ 5 \in Before(r) /\ 11 \in Before(r) /\ 12 \in Before(r)
        /\ 14 \in Before(r) <=> r >= 14
    BY <2>1, <1>1, <1>4 DEF Before, Versions
  <2>3. \A v \in applied : \A s \in migration(v) : Items(s) \subseteq schema
    BY <1>1, <1>4 DEF OldDatabase
  <2>4. AppliedAdded
    BY <2>3 DEF AppliedAdded, Items
  <2>5. Has(schema, "extension_policies")
    <3>1. <<"extension_policies", "id">> \in Items(create("extension_policies", {}))
      BY ItemsOf
    <3>2. QED
      BY <3>1, <1>1, <1>4 DEF OldDatabase, Has
  <2>6. Has(schema, "guard_policy_history")
    <3>1. <<"guard_policy_history", "id">> \in Items(create("guard_policy_history", {}))
      BY ItemsOf
    <3>2. 12 \in applied /\ create("guard_policy_history", {}) \in migration(12)
      BY <2>2, <1>1, <1>4, TheMigrations
    <3>3. QED
      BY <3>1, <3>2, <2>3 DEF Has
  <2>7. ep \in schema <=> gh \in schema
    <3>1. CASE 14 \in applied
      BY <3>1, <2>4, WhatMigrationsAdd DEF AppliedAdded
    <3>2. CASE 14 \notin applied
      <4>1. Before(r) = {4, 5, 11, 12}
        BY <3>2, <2>2, <1>1, <1>4 DEF Before, Versions
      <4>2. schema \subseteq {<<"extension_policies", "id">>, <<"alert_configs", "id">>,
               <<"alerts_fired", "id">>, <<"alert_config_targets", "id">>,
               <<"alerts_fired", "channel">>, <<"alert_configs", "enabled">>,
               <<"extension_policies", "max_fee">>, <<"guard_policy_history", "id">>}
        <5>1. UNION {migration(v) : v \in {4, 5, 11, 12}}
                = migration(4) \cup migration(5) \cup migration(11) \cup migration(12)
          OBVIOUS
        <5>2. QED
          BY <5>1, <4>1, <1>1, <1>4, TheMigrations, ItemsOf DEF OldDatabase
      <4>3. QED
        BY <4>2 DEF ep, gh
    <3>3. QED
      BY <3>1, <3>2
  <2>8. QED
    BY <1>2, <2>2, <2>4, <2>5, <2>6, <2>7 DEF StartInv, Twins, TwinsIn
<1>5. QED
  BY <1>3, <1>4

(* What a step does to the schema and to what is recorded                  *)
LEMMA SchemaSteps ==
  ASSUME StartInv, StartNext
  PROVE  /\ schema \subseteq schema' /\ applied \subseteq applied' /\ ~oldCheck'
         /\ applied' \subseteq Versions
         /\ TwinsIn(schema')
         /\ \A v \in applied' : v \notin applied => \A s \in migration(v) : s.adds \subseteq schema'
<1>1. PICK p \in Processes : StartStep(p)
  BY DEF StartNext
<1>0. TwinsIn(schema) /\ ~oldCheck /\ applied \subseteq Versions
  BY DEF StartInv, Twins
<1>2. CASE Opens(p)
  BY <1>2, <1>0, OpeningKeepsTwins DEF Opens
<1>3. CASE Plans(p)
  BY <1>3, <1>0 DEF Plans
<1>4. CASE Migrates(p)
  <2> DEFINE v == Oldest(p)
             run == Script(schema, migration(v))
  <2>1. start[p] = "migrating" /\ pending[p] # {} /\ pending[p] \in SUBSET Versions
        /\ Has(schema, "extension_policies")
    BY <1>4 DEF Migrates, StartInv, Progress
  <2>2. v \in pending[p] /\ v \in Versions
    BY <2>1, OldestIsOne
  <2>3. \/ /\ ~run.failed /\ schema' = run.db /\ applied' = applied \cup {v}
        \/ /\ run.failed /\ isAddColumnMigration(v)
           /\ schema' = schema /\ applied' = applied \cup {v}
        \/ schema' = schema /\ applied' = applied
    BY <1>4 DEF Migrates, Commit, Oldest
  <2>4. oldCheck' = oldCheck
    BY <1>4 DEF Migrates
  <2> HIDE DEF v
  <2>5. CASE ~run.failed /\ schema' = run.db /\ applied' = applied \cup {v}
    <3>1. TwinsIn(schema')
      BY <1>0, <2>1, <2>2, <2>5, MigratingKeepsTwins
    <3>2. schema \subseteq schema'
      BY <2>5, ScriptGrows
    <3>3. \A s \in migration(v) : s.adds \subseteq schema'
      BY <2>2, <2>5, ScriptAdds
    <3>4. QED
      BY <1>0, <2>2, <2>4, <2>5, <3>1, <3>2, <3>3
  <2>6. CASE run.failed /\ isAddColumnMigration(v) /\ schema' = schema /\ applied' = applied \cup {v}
    <3>1. \A s \in migration(v) : s.adds \subseteq schema
      BY <1>0, <2>2, <2>6, FoundAllThere DEF TwinsIn
    <3>2. QED
      BY <1>0, <2>2, <2>4, <2>6, <3>1
  <2>7. CASE schema' = schema /\ applied' = applied
    BY <1>0, <2>4, <2>7
  <2>8. QED
    BY <2>3, <2>5, <2>6, <2>7
<1>5. CASE Alters(p)
  BY <1>5, <1>0 DEF Alters, TwinsIn, Has, ep, gh
<1>6. CASE Relaxes(p)
  BY <1>6, <1>0 DEF Relaxes
<1>7. CASE Exits(p)
  BY <1>7, <1>0 DEF Exits
<1>8. QED
  BY <1>1, <1>2, <1>3, <1>4, <1>5, <1>6, <1>7 DEF StartStep

(* What a step does to where the processes are, next to what it records    *)
LEMMA ProgressSteps ==
  ASSUME StartInv, StartNext
  PROVE  /\ start' \in [Processes -> StartPlaces]
         /\ pending' \in [Processes -> SUBSET Versions]
         /\ (\A p \in Processes : Progress(p))'
<1>0. /\ start \in [Processes -> StartPlaces] /\ pending \in [Processes -> SUBSET Versions]
      /\ applied \subseteq Versions /\ ~oldCheck
      /\ \A p \in Processes : Progress(p)
  BY DEF StartInv
<1>1. schema \subseteq schema' /\ applied \subseteq applied'
  BY SchemaSteps
<1>2. PICK p \in Processes : StartStep(p)
  BY DEF StartNext
<1>3. ASSUME NEW q \in Processes, start'[q] = start[q], pending'[q] = pending[q]
      PROVE  Progress(q)'
  BY <1>0, <1>1, <1>3 DEF Progress, Has
<1>4. SUFFICES /\ start' \in [Processes -> StartPlaces]
               /\ pending' \in [Processes -> SUBSET Versions]
               /\ \A q \in Processes \ {p} : start'[q] = start[q] /\ pending'[q] = pending[q]
               /\ Progress(p)'
  BY <1>3
<1>5. CASE Opens(p)
  <2>1. Has(schema', "extension_policies")
    BY <1>5, OpeningKeepsTwins DEF Opens, StartInv, Twins
  <2>2. QED
    BY <1>0, <1>5, <2>1 DEF Opens, Progress, StartPlaces
<1>6. CASE Plans(p)
  BY <1>0, <1>6 DEF Plans, Progress, StartPlaces
<1>7. CASE Migrates(p)
  <2> DEFINE v == Oldest(p)
  <2>1. start[p] = "migrating" /\ pending[p] # {} /\ v \in pending[p] /\ pending[p] \subseteq Versions
    BY <1>0, <1>7, OldestIsOne DEF Migrates
  <2>2. \/ /\ applied' = applied \cup {v} /\ start' = start
           /\ pending' = [pending EXCEPT ![p] = @ \ {v}]
        \/ /\ start' = [start EXCEPT ![p] = "closed"] /\ pending' = [pending EXCEPT ![p] = {}]
           /\ applied' = applied
    BY <1>7 DEF Migrates, Commit, Oldest
  <2> HIDE DEF v
  <2>3. QED
    BY <1>0, <1>1, <2>1, <2>2 DEF Progress, StartPlaces, Has
<1>8. CASE Alters(p)
  BY <1>0, <1>8 DEF Alters, Progress, StartPlaces, Has
<1>9. CASE Relaxes(p)
  BY <1>0, <1>9 DEF Relaxes, Progress, StartPlaces, Has
<1>10. CASE Exits(p)
  BY <1>0, <1>10 DEF Exits, Progress, StartPlaces, Has
<1>11. QED
  BY <1>2, <1>5, <1>6, <1>7, <1>8, <1>9, <1>10 DEF StartStep

LEMMA StartStepInv ==
  ASSUME StartInv, [StartNext]_startVars
  PROVE  StartInv'
<1>1. CASE StartNext
  <2>1. AppliedAdded'
    BY <1>1, SchemaSteps DEF AppliedAdded, StartInv
  <2>2. Twins'
    BY <1>1, SchemaSteps DEF Twins
  <2>3. QED
    BY <1>1, <2>1, <2>2, SchemaSteps, ProgressSteps DEF StartInv
<1>2. CASE UNCHANGED startVars
  BY <1>2 DEF StartInv, Twins, AppliedAdded, Progress, startVars
<1>3. QED
  BY <1>1, <1>2

LEMMA StartInvMeans ==
  ASSUME StartInv
  PROVE  AppliedMeansThere
<1>1. ASSUME NEW p \in Processes, start[p] = "ready", NEW s \in SchemaSql
      PROVE  s.adds \subseteq schema
  <2>1. Versions \subseteq applied /\ <<"extension_policies", "max_fee">> \in schema
    BY <1>1 DEF StartInv, Progress
  <2>2. 5 \in applied /\ 14 \in applied
    BY <2>1 DEF Versions
  <2>3. <<"alert_configs", "enabled">> \in schema /\ ep \in schema /\ gh \in schema
    BY <2>2, WhatMigrationsAdd DEF StartInv, AppliedAdded
  <2>4. /\ create("extension_policies", {"max_fee", "predictive"}).adds
             = {<<"extension_policies", "max_fee">>, ep}
        /\ create("alert_configs", {"enabled"}).adds = {<<"alert_configs", "enabled">>}
        /\ create("alerts_fired", {}).adds = {}
        /\ create("guard_policy_history", {"predictive"}).adds = {gh}
    BY DEF create, ep, gh
  <2>5. QED
    BY <2>1, <2>3, <2>4 DEF SchemaSql
<1>2. QED
  BY <1>1 DEF AppliedMeansThere, StartInv, AppliedAdded

(* Whatever other processes do and wherever they die, what a recorded      *)
(* migration adds is there, and a process that is ready finds what its     *)
(* statements name (db/migrator.ts, db/database.ts).  The two hypotheses   *)
(* are what the code needs for it: a database of an earlier release that   *)
(* has no migration 12 loses a column of migration 14 (StartupUpgrade.cfg),*)
(* and one that still has the enum CHECK loses alert_configs.enabled.      *)
THEOREM AppliedMigrationsAreThere ==
  ASSUME \A r \in Releases : r = 0 \/ (r \in Nat /\ r >= 12), OldChecks = {FALSE}
  PROVE  StartSpec => []AppliedMeansThere
<1>1. StartInit => StartInv
  BY StartInitInv
<1>2. StartInv /\ [StartNext]_startVars => StartInv'
  BY StartStepInv
<1>3. StartInv => AppliedMeansThere
  BY StartInvMeans
<1>4. QED
  BY <1>1, <1>2, <1>3, PTL DEF StartSpec

-----------------------------------------------------------------------------
(* Backup *)

(* An entry is of a contract, and its id was given out.                    *)
EntriesIn(es) == /\ DOMAIN es \subseteq 1 .. MaxEntries
                 /\ \A i \in DOMAIN es : es[i] \in BackedUp

Agrees(fs, es) == \A f \in fs : f.entry \in DOMAIN es => es[f.entry] = f.owner

IsFile ==
  /\ backup = [tables |-> backup.tables, contracts |-> backup.contracts,
               entries |-> backup.entries, fired |-> backup.fired, pure |-> backup.pure]
  /\ backup.tables \in 0 .. 3 /\ backup.pure \in BOOLEAN
  /\ EntriesIn(backup.entries)
  /\ \A f \in backup.fired : f.entry \in 1 .. MaxEntries

(* The database and a file of it have one history: an id means the same in *)
(* both, and no id of either will be given again.                          *)
OneHistory ==
  /\ Agrees(fired, entries) /\ Agrees(backup.fired, entries)
  /\ \A i \in DOMAIN entries \cap DOMAIN backup.entries : entries[i] = backup.entries[i]
  /\ \A i \in DOMAIN backup.entries : i < nextId
  /\ \A f \in backup.fired : f.entry < nextId

BackupInv ==
  /\ IsFile /\ EntriesIn(entries) /\ lineage \in BOOLEAN
  /\ nextId \in Nat \ {0} /\ \A i \in DOMAIN entries : i < nextId
  /\ References(contracts, entries, fired) /\ overrides \subseteq contracts
  /\ contracts \subseteq BackedUp
  /\ backup.contracts \subseteq BackedUp
  /\ backup.pure => Agrees(backup.fired, backup.entries)
  /\ lineage => OneHistory
  /\ backup.tables \in {1, 2} => backup.pure = lineage
  /\ lineage /\ backup.tables = 3 => backup.pure
  /\ backup.tables = 0 => backup.fired = {} /\ DOMAIN backup.entries = {}

LEMMA BackupStarts ==
  ASSUME BackupInit
  PROVE  BackupInv
<1>1. DOMAIN <<>> = {}
  OBVIOUS
<1>2. /\ NoFile.tables = 0 /\ NoFile.contracts = {} /\ NoFile.entries = <<>> /\ NoFile.fired = {}
      /\ NoFile.pure = FALSE
      /\ NoFile = [tables |-> NoFile.tables, contracts |-> NoFile.contracts,
                   entries |-> NoFile.entries, fired |-> NoFile.fired, pure |-> NoFile.pure]
  BY DEF NoFile
<1>3. IsFile
  <2>1. backup = NoFile
    BY DEF BackupInit
  <2>2. backup = [tables |-> backup.tables, contracts |-> backup.contracts,
                  entries |-> backup.entries, fired |-> backup.fired, pure |-> backup.pure]
    BY <1>2, <2>1
  <2>3. backup.tables = 0 /\ backup.pure = FALSE /\ DOMAIN backup.entries = {} /\ backup.fired = {}
    BY <1>1, <1>2, <2>1
  <2>4. EntriesIn(backup.entries)
    BY <2>3 DEF EntriesIn
  <2>5. backup.tables \in 0 .. 3
    BY <2>3
  <2>6. backup.pure \in BOOLEAN
    BY <2>3
  <2>7. \A f \in backup.fired : f.entry \in 1 .. MaxEntries
    BY <2>3
  <2>8. QED
    BY <2>2, <2>4, <2>5, <2>6, <2>7 DEF IsFile
<1>4. QED
  BY <1>1, <1>2, <1>3 DEF BackupInit, BackupInv, EntriesIn, References, OneHistory, Agrees

LEMMA SeenIsAbove ==
  ASSUME NEW es, EntriesIn(es), nextId \in Nat \ {0}
  PROVE  /\ Seen(es) \in Nat \ {0} /\ Seen(es) >= nextId
         /\ \A i \in DOMAIN es : i < Seen(es)
<1>1. CASE DOMAIN es = {}
  BY <1>1 DEF Seen
<1>2. CASE DOMAIN es # {}
  <2> DEFINE m == CHOOSE i \in DOMAIN es : \A j \in DOMAIN es : j <= i
  <2>1. DOMAIN es \in SUBSET (0 .. MaxEntries) /\ DOMAIN es \in SUBSET (1 .. MaxEntries)
    BY DEF EntriesIn
  <2>2. \E i \in DOMAIN es : \A j \in DOMAIN es : j <= i
    BY <1>2, <2>1, GreatestNatural, BackupAssumption
  <2>3. m \in DOMAIN es /\ \A j \in DOMAIN es : j <= m
    BY <2>2
  <2>4. Seen(es) = IF m >= nextId THEN m + 1 ELSE nextId
    BY <1>2 DEF Seen
  <2> HIDE DEF m
  <2>5. QED
    BY <2>1, <2>3, <2>4, BackupAssumption
<1>3. QED
  BY <1>1, <1>2

(* A contract is watched: its entry has an id that is new.                 *)
LEMMA WatchingKeepsHistory ==
  ASSUME BackupInv, NEW c \in BackedUp, WatchContract(c)
  PROVE  BackupInv'
<1>1. /\ contracts' = contracts \cup {c} /\ nextId <= MaxEntries
      /\ nextId' = nextId + 1
      /\ fired' = fired /\ overrides' = overrides /\ backup' = backup /\ lineage' = lineage
  BY DEF WatchContract
<1>2. entries' = [i \in DOMAIN entries \cup {nextId} |-> IF i = nextId THEN c ELSE entries[i]]
  BY DEF WatchContract, NextId
<1>3. /\ DOMAIN entries' = DOMAIN entries \cup {nextId} /\ entries'[nextId] = c
      /\ \A i \in DOMAIN entries : i # nextId /\ entries'[i] = entries[i]
  BY <1>2 DEF BackupInv
<1>4. nextId \in 1 .. MaxEntries
  BY <1>1, BackupAssumption DEF BackupInv
<1>5. EntriesIn(entries')
  BY <1>3, <1>4 DEF BackupInv, EntriesIn
<1>6. References(contracts', entries', fired')
  BY <1>1, <1>3 DEF BackupInv, References
<1>7. lineage' => OneHistory'
  <2>1. SUFFICES ASSUME lineage
                 PROVE  OneHistory'
    BY <1>1
  <2>2. OneHistory
    BY <2>1 DEF BackupInv
  <2>3. Agrees(fired', entries')
    BY <1>1, <1>3, <2>2 DEF Agrees, OneHistory, BackupInv, References
  <2>4. nextId \notin DOMAIN backup.entries /\ \A f \in backup.fired : f.entry # nextId
    BY <2>2 DEF OneHistory, BackupInv
  <2>5. Agrees(backup.fired, entries')
    BY <1>3, <2>2, <2>4 DEF Agrees, OneHistory
  <2>6. \A i \in DOMAIN entries' \cap DOMAIN backup.entries : entries'[i] = backup.entries[i]
    BY <1>3, <2>2, <2>4 DEF OneHistory
  <2>7. /\ \A i \in DOMAIN backup.entries : i < nextId + 1
        /\ \A f \in backup.fired : f.entry < nextId + 1
    <3>1. DOMAIN backup.entries \subseteq Int /\ nextId \in Int
      BY DEF BackupInv, IsFile, EntriesIn
    <3>2. \A f \in backup.fired : f.entry \in Int
      BY DEF BackupInv, IsFile
    <3>3. QED
      BY <2>2, <3>1, <3>2 DEF OneHistory
  <2>8. QED
    BY <1>1, <2>3, <2>5, <2>6, <2>7 DEF OneHistory
<1>8. nextId' \in Nat \ {0} /\ \A i \in DOMAIN entries' : i < nextId'
  BY <1>1, <1>3 DEF BackupInv, EntriesIn
<1>9. QED
  BY <1>1, <1>5, <1>6, <1>7, <1>8 DEF BackupInv, IsFile

LEMMA FiringKeepsHistory ==
  ASSUME BackupInv, NEW i \in DOMAIN entries, FireAlert(i)
  PROVE  BackupInv'
<1>1. /\ contracts' = contracts /\ entries' = entries /\ overrides' = overrides
      /\ nextId' = nextId /\ backup' = backup /\ lineage' = lineage
      /\ fired' = fired \cup {[entry |-> i, owner |-> entries[i]]}
  BY DEF FireAlert
<1>2. References(contracts', entries', fired')
  BY <1>1 DEF BackupInv, References
<1>3. lineage' => OneHistory'
  BY <1>1 DEF BackupInv, OneHistory, Agrees
<1>4. QED
  BY <1>1, <1>2, <1>3 DEF BackupInv, IsFile, EntriesIn

LEMMA OverridingKeepsHistory ==
  ASSUME BackupInv, NEW c, Override(c)
  PROVE  BackupInv'
  BY DEF Override, BackupInv, IsFile, OneHistory

LEMMA UnwatchingKeepsHistory ==
  ASSUME BackupInv, NEW c, Unwatched(c)
  PROVE  BackupInv'
<1> DEFINE gone == {i \in DOMAIN entries : entries[i] = c}
<1>1. /\ contracts' = contracts \ {c} /\ overrides' = overrides \ {c}
      /\ nextId' = nextId /\ backup' = backup /\ lineage' = lineage
      /\ fired' = {f \in fired : f.entry \notin gone}
      /\ entries' = [i \in DOMAIN entries \ gone |-> entries[i]]
  BY DEF Unwatched, Without
<1>2. /\ DOMAIN entries' \subseteq DOMAIN entries
      /\ \A i \in DOMAIN entries' : entries'[i] = entries[i] /\ entries[i] # c
      /\ \A i \in DOMAIN entries : i \in gone \/ i \in DOMAIN entries'
  BY <1>1
<1>3. fired' \subseteq fired /\ \A f \in fired' : f.entry \notin gone
  BY <1>1
<1> HIDE DEF gone
<1>4. References(contracts', entries', fired')
  BY <1>1, <1>2, <1>3 DEF BackupInv, References
<1>5. lineage' => OneHistory'
  BY <1>1, <1>2, <1>3 DEF BackupInv, OneHistory, Agrees
<1>6. EntriesIn(entries')
  BY <1>2 DEF BackupInv, EntriesIn
<1>7. \A i \in DOMAIN entries' : i < nextId'
  BY <1>1, <1>2 DEF BackupInv
<1>8. contracts' \subseteq BackedUp /\ overrides' \subseteq contracts'
  BY <1>1 DEF BackupInv
<1>9. QED
  BY <1>1, <1>4, <1>5, <1>6, <1>7, <1>8 DEF BackupInv, IsFile

(* A table is exported: the file has the rows of now next to those of      *)
(* before, and they still mean the same.                                   *)
LEMMA ExportingKeepsHistory ==
  ASSUME BackupInv, exportDatabase
  PROVE  BackupInv'
<1>0. /\ contracts' = contracts /\ entries' = entries /\ fired' = fired
      /\ overrides' = overrides /\ nextId' = nextId /\ lineage' = lineage
  BY DEF exportDatabase
<1>1. backup = [tables |-> backup.tables, contracts |-> backup.contracts,
                entries |-> backup.entries, fired |-> backup.fired, pure |-> backup.pure]
  BY DEF BackupInv, IsFile
<1>2. backup.tables \in 0 .. 3
  BY DEF BackupInv, IsFile
<1>3. DOMAIN <<>> = {}
  OBVIOUS
<1>4. CASE backup.tables \in {0, 3}
  <2>1. backup' = [tables |-> 1, contracts |-> contracts, entries |-> <<>>, fired |-> {}, pure |-> lineage]
    <3>1. backup' = [NoFile EXCEPT !.tables = 1, !.contracts = contracts, !.pure = lineage]
      BY <1>4 DEF exportDatabase
    <3>2. QED
      BY <3>1 DEF NoFile
  <2>2. /\ backup'.tables = 1 /\ backup'.contracts = contracts /\ backup'.entries = <<>>
        /\ backup'.fired = {} /\ backup'.pure = lineage
        /\ backup' = [tables |-> backup'.tables, contracts |-> backup'.contracts,
                      entries |-> backup'.entries, fired |-> backup'.fired, pure |-> backup'.pure]
    BY <2>1
  <2>3. DOMAIN backup'.entries = {}
    BY <1>3, <2>2
  <2>4. IsFile'
    BY <2>2, <2>3 DEF IsFile, EntriesIn, BackupInv
  <2>5. lineage' => OneHistory'
    BY <1>0, <2>2, <2>3 DEF BackupInv, OneHistory, Agrees
  <2>6. QED
    BY <1>0, <2>2, <2>4, <2>5 DEF BackupInv, Agrees
<1>5. CASE backup.tables = 1
  <2>1. backup' = [backup EXCEPT !.tables = 2, !.entries = entries]
    BY <1>5 DEF exportDatabase
  <2>2. /\ backup'.tables = 2 /\ backup'.contracts = backup.contracts /\ backup'.entries = entries
        /\ backup'.fired = backup.fired /\ backup'.pure = backup.pure
        /\ backup' = [tables |-> backup'.tables, contracts |-> backup'.contracts,
                      entries |-> backup'.entries, fired |-> backup'.fired, pure |-> backup'.pure]
    BY <1>1, <2>1
  <2>3. backup.pure = lineage
    BY <1>5 DEF BackupInv
  <2>4. IsFile'
    BY <2>2 DEF IsFile, EntriesIn, BackupInv
  <2>5. lineage' => OneHistory'
    BY <1>0, <2>2 DEF BackupInv, OneHistory, Agrees
  <2>6. backup'.pure => Agrees(backup'.fired, backup'.entries)
    BY <2>2, <2>3 DEF BackupInv, OneHistory
  <2>7. QED
    BY <1>0, <2>2, <2>3, <2>4, <2>5, <2>6 DEF BackupInv
<1>6. CASE backup.tables = 2
  <2>1. backup' = [backup EXCEPT !.tables = 3, !.fired = fired]
    BY <1>6 DEF exportDatabase
  <2>2. /\ backup'.tables = 3 /\ backup'.contracts = backup.contracts
        /\ backup'.entries = backup.entries
        /\ backup'.fired = fired /\ backup'.pure = backup.pure
        /\ backup' = [tables |-> backup'.tables, contracts |-> backup'.contracts,
                      entries |-> backup'.entries, fired |-> backup'.fired, pure |-> backup'.pure]
    BY <1>1, <2>1
  <2>3. backup.pure = lineage
    BY <1>6 DEF BackupInv
  <2>4. \A f \in fired : f.entry \in 1 .. MaxEntries /\ f.entry < nextId
    BY DEF BackupInv, References, EntriesIn
  <2>5. IsFile'
    BY <2>2, <2>4 DEF IsFile, BackupInv
  <2>6. lineage' => OneHistory'
    BY <1>0, <2>2, <2>4 DEF BackupInv, OneHistory, Agrees
  <2>7. backup'.pure => Agrees(backup'.fired, backup'.entries)
    BY <2>2, <2>3 DEF BackupInv, OneHistory, Agrees, References
  <2>8. QED
    BY <1>0, <2>2, <2>3, <2>5, <2>6, <2>7 DEF BackupInv
<1>7. QED
  BY <1>2, <1>4, <1>5, <1>6

(* An import that commits, of whatever it takes its rows from              *)
LEMMA ImportingKeepsHistory ==
  ASSUME BackupInv, NEW cs \in SUBSET BackedUp, NEW es, NEW fs, NEW kept, NEW pure \in BOOLEAN,
         Import(cs, es, fs, kept, pure),
         EntriesIn(es), kept \subseteq cs,
         pure /\ References(cs, es, fs) =>
           /\ backup.pure
           /\ Agrees(fs, es) /\ Agrees(backup.fired, es)
           /\ \A i \in DOMAIN es \cap DOMAIN backup.entries : es[i] = backup.entries[i]
           /\ \A i \in DOMAIN backup.entries : i < Seen(es)
           /\ \A f \in backup.fired : f.entry < Seen(es)
  PROVE  BackupInv'
<1>0. backup.tables = 3 /\ backup' = backup
  BY DEF Import
<1>1. CASE References(cs, es, fs)
  <2>1. /\ contracts' = cs /\ entries' = es /\ fired' = fs /\ overrides' = kept
        /\ nextId' = Seen(es) /\ lineage' = pure
    BY <1>1 DEF Import
  <2>2. Seen(es) \in Nat \ {0} /\ \A i \in DOMAIN es : i < Seen(es)
    BY SeenIsAbove DEF BackupInv
  <2>3. lineage' => OneHistory'
    BY <1>0, <1>1, <2>1 DEF OneHistory
  <2>4. IsFile'
    BY <1>0 DEF BackupInv, IsFile
  <2>5. QED
    BY <1>0, <1>1, <2>1, <2>2, <2>3, <2>4 DEF BackupInv
<1>2. CASE ~References(cs, es, fs)
  <2>1. UNCHANGED <<contracts, entries, fired, overrides, nextId, lineage>>
    BY <1>2 DEF Import
  <2>2. QED
    BY <1>0, <2>1 DEF BackupInv, IsFile, OneHistory
<1>3. QED
  BY <1>1, <1>2

LEMMA ReplacingKeepsHistory ==
  ASSUME BackupInv, importReplace
  PROVE  BackupInv'
<1>1. Import(backup.contracts, backup.entries, backup.fired, {}, backup.pure)
  BY DEF importReplace
<1>2. backup.contracts \in SUBSET BackedUp /\ backup.pure \in BOOLEAN /\ EntriesIn(backup.entries)
  BY DEF BackupInv, IsFile
<1>3. \A i \in DOMAIN backup.entries : i < Seen(backup.entries)
  BY <1>2, SeenIsAbove DEF BackupInv
<1>4. backup.pure => Agrees(backup.fired, backup.entries)
  BY DEF BackupInv
<1>5. References(backup.contracts, backup.entries, backup.fired) =>
        \A f \in backup.fired : f.entry < Seen(backup.entries)
  BY <1>3 DEF References
<1>6. QED
  BY <1>1, <1>2, <1>3, <1>4, <1>5, ImportingKeepsHistory

LEMMA MergingKeepsHistory ==
  ASSUME BackupInv, importMerge
  PROVE  BackupInv'
<1> DEFINE new == {i \in DOMAIN backup.entries \ DOMAIN entries : backup.entries[i] \notin Owners}
           es == [i \in DOMAIN entries \cup new |->
                    IF i \in DOMAIN entries THEN entries[i] ELSE backup.entries[i]]
           cs == contracts \cup backup.contracts
           fs == fired \cup backup.fired
<1>1. Import(cs, es, fs, overrides, lineage)
  BY DEF importMerge
<1>2. /\ cs \in SUBSET BackedUp /\ overrides \subseteq cs /\ lineage \in BOOLEAN
  BY DEF BackupInv
<1>3. /\ DOMAIN es = DOMAIN entries \cup new /\ new \subseteq DOMAIN backup.entries
      /\ \A i \in DOMAIN entries : es[i] = entries[i]
      /\ \A i \in new : i \notin DOMAIN entries /\ es[i] = backup.entries[i]
  OBVIOUS
<1> HIDE DEF new, es
<1>4. EntriesIn(es)
  BY <1>3 DEF BackupInv, IsFile, EntriesIn
<1>5. ASSUME lineage, References(cs, es, fs)
      PROVE  /\ backup.pure
             /\ Agrees(fs, es) /\ Agrees(backup.fired, es)
             /\ \A i \in DOMAIN es \cap DOMAIN backup.entries : es[i] = backup.entries[i]
             /\ \A i \in DOMAIN backup.entries : i < Seen(es)
             /\ \A f \in backup.fired : f.entry < Seen(es)
  <2>1. OneHistory /\ backup.pure /\ Agrees(backup.fired, backup.entries)
    BY <1>1, <1>5 DEF BackupInv, Import
  <2>2. Agrees(backup.fired, es)
    BY <1>3, <2>1 DEF Agrees, OneHistory
  <2>3. Agrees(fired, es)
    BY <1>3, <2>1 DEF Agrees, OneHistory, BackupInv, References
  <2>4. \A i \in DOMAIN es \cap DOMAIN backup.entries : es[i] = backup.entries[i]
    BY <1>3, <2>1 DEF OneHistory
  <2>5. Seen(es) \in Nat /\ Seen(es) >= nextId /\ nextId \in Nat
    BY <1>4, SeenIsAbove DEF BackupInv
  <2>6. /\ \A i \in DOMAIN backup.entries : i \in Nat /\ i < nextId
        /\ \A f \in backup.fired : f.entry \in Nat /\ f.entry < nextId
    BY <2>1 DEF OneHistory, BackupInv, IsFile, EntriesIn
  <2>7. /\ \A i \in DOMAIN backup.entries : i < Seen(es)
        /\ \A f \in backup.fired : f.entry < Seen(es)
    BY <2>5, <2>6
  <2>8. QED
    BY <2>1, <2>2, <2>3, <2>4, <2>7 DEF Agrees
<1> HIDE DEF cs, fs
<1>6. QED
  BY <1>1, <1>2, <1>4, <1>5, ImportingKeepsHistory

LEMMA MovingKeepsHistory ==
  ASSUME BackupInv, NewMachine
  PROVE  BackupInv'
<1>1. DOMAIN <<>> = {}
  OBVIOUS
<1>2. /\ contracts' = {} /\ entries' = <<>> /\ fired' = {} /\ overrides' = {} /\ nextId' = 1
      /\ lineage' = FALSE /\ backup' = backup /\ backup.tables = 3
  BY DEF NewMachine
<1>3. EntriesIn(entries') /\ \A i \in DOMAIN entries' : i < nextId'
  BY <1>1, <1>2 DEF EntriesIn
<1>4. References(contracts', entries', fired')
  BY <1>1, <1>2 DEF References
<1>5. IsFile'
  BY <1>2 DEF BackupInv, IsFile
<1>6. overrides' \subseteq contracts' /\ contracts' \subseteq BackedUp /\ nextId' \in Nat \ {0}
  BY <1>2
<1>7. lineage' \in BOOLEAN /\ (lineage' => OneHistory')
  BY <1>2
<1>8. /\ backup'.contracts \subseteq BackedUp
      /\ backup'.pure => Agrees(backup'.fired, backup'.entries)
      /\ backup'.tables = 3
  BY <1>2 DEF BackupInv
<1>9. QED
  BY <1>3, <1>4, <1>5, <1>6, <1>7, <1>8, <1>2 DEF BackupInv

(* Whatever is exported, changed and imported again, the rows belong to    *)
(* the contracts they were written for (db/backup.ts).                     *)
THEOREM RowsAlwaysKeepTheirOwner == BackupSpec => []RowsKeepTheirOwner
<1>1. BackupInit => BackupInv
  BY BackupStarts
<1>2. BackupInv /\ [BackupNext]_backupVars => BackupInv'
  <2>1. SUFFICES ASSUME BackupInv, [BackupNext]_backupVars
                 PROVE  BackupInv'
    OBVIOUS
  <2>2. CASE UNCHANGED backupVars
    BY <2>1, <2>2 DEF backupVars, BackupInv, IsFile, OneHistory
  <2>3. ASSUME NEW c \in BackedUp, WatchContract(c) \/ Override(c) \/ Unwatched(c)
        PROVE  BackupInv'
    BY <2>1, <2>3, WatchingKeepsHistory, OverridingKeepsHistory, UnwatchingKeepsHistory
  <2>4. ASSUME NEW i \in DOMAIN entries, FireAlert(i)
        PROVE  BackupInv'
    BY <2>1, <2>4, FiringKeepsHistory
  <2>5. CASE exportDatabase
    BY <2>1, <2>5, ExportingKeepsHistory
  <2>6. CASE importReplace
    BY <2>1, <2>6, ReplacingKeepsHistory
  <2>7. CASE importMerge
    BY <2>1, <2>7, MergingKeepsHistory
  <2>8. CASE NewMachine
    BY <2>1, <2>8, MovingKeepsHistory
  <2>9. QED
    BY <2>1, <2>2, <2>3, <2>4, <2>5, <2>6, <2>7, <2>8 DEF BackupNext
<1>3. BackupInv => RowsKeepTheirOwner
  <2>1. ASSUME BackupInv, lineage, NEW f \in fired
        PROVE  entries[f.entry] = f.owner
    BY <2>1 DEF BackupInv, OneHistory, Agrees, References
  <2>2. QED
    BY <2>1 DEF BackupInv, RowsKeepTheirOwner
<1>4. QED
  BY <1>1, <1>2, <1>3, PTL DEF BackupSpec

-----------------------------------------------------------------------------
(* AlertConfigs *)

IsConfig(r) ==
  /\ r = [contract |-> r.contract, enabled |-> r.enabled,
           secret |-> r.secret, targets |-> r.targets]
  /\ r.secret \in Nat /\ r.targets \subseteq ExtraTargets \cup {"primary"}

Commands ==
  {Idle} \cup [kind : {"add"}, id : Nat, todo : SUBSET ExtraTargets, secret : Nat]
         \cup [kind : {"clone"}, to : Alerted, todo : SUBSET ExtraTargets, id : Nat,
               left : SUBSET [id : Nat, secret : Nat]]
         \cup [kind : {"bulk"}, found : SUBSET Tagged, secret : Nat]
         \cup [kind : {"rotate"}, id : Nat, secret : Nat]

Writing == command.kind \in {"add", "clone"} /\ command.todo # {}

(* The part of the invariant about the rows, whatever the command          *)
RowsInv ==
  /\ made \in [ids : Nat, secrets : Nat]
  /\ \A i \in Ids : i \in Nat /\ i <= made.ids /\ IsConfig(configs[i])
  /\ DOMAIN firedFor \subseteq Ids /\ DOMAIN printed \subseteq Ids
  /\ \A i \in DOMAIN firedFor \ torn : firedFor[i] = configs[i].targets
  /\ \A i \in DOMAIN printed : printed[i] = configs[i].secret

CommandInv ==
  /\ command \in Commands
  /\ command.kind \in {"add", "clone"} => command.id <= made.ids
  /\ command.kind = "add" /\ command.id \in Ids => configs[command.id].secret = command.secret
  /\ Writing /\ command.id \in DOMAIN firedFor => command.id \in torn

LEMMA OnlyIs ==
  ASSUME NEW f, NEW ids
  PROVE  /\ DOMAIN Only(f, ids) = DOMAIN f \cap ids
         /\ \A i \in DOMAIN f \cap ids : Only(f, ids)[i] = f[i]
  BY DEF Only

LEMMA AConfig ==
  ASSUME NEW c, NEW secret \in Nat
  PROVE  IsConfig(Config(c, secret)) /\ Config(c, secret).secret = secret
  BY DEF IsConfig, Config

LEMMA ConfigsStart ==
  ASSUME ConfigInit
  PROVE  RowsInv /\ CommandInv
<1>1. DOMAIN <<>> = {}
  OBVIOUS
<1>2. command = Idle /\ Idle.kind = "none" /\ Idle \in Commands
  BY DEF ConfigInit, Idle, Commands
<1>3. made \in [ids : Nat, secrets : Nat]
  BY DEF ConfigInit
<1>4. DOMAIN configs = {} /\ DOMAIN firedFor = {} /\ DOMAIN printed = {}
  BY <1>1 DEF ConfigInit
<1>5. QED
  BY <1>2, <1>3, <1>4 DEF RowsInv, CommandInv, Ids, Writing

(* What a command is when it is of a kind                                  *)
LEMMA CommandKinds ==
  ASSUME command \in Commands
  PROVE  /\ command.kind = "add" => command \in [kind : {"add"}, id : Nat, todo : SUBSET ExtraTargets, secret : Nat]
         /\ command.kind = "clone" =>
              command \in [kind : {"clone"}, to : Alerted, todo : SUBSET ExtraTargets, id : Nat,
                           left : SUBSET [id : Nat, secret : Nat]]
         /\ command.kind = "bulk" => command.found \in SUBSET Tagged /\ command.secret \in Nat
         /\ command.kind = "rotate" => command.id \in Nat /\ command.secret \in Nat
<1>1. Idle.kind = "none"
  BY DEF Idle
<1>2. CASE command = Idle
  BY <1>1, <1>2
<1>3. CASE command \in [kind : {"add"}, id : Nat, todo : SUBSET ExtraTargets, secret : Nat]
  BY <1>3
<1>4. CASE command \in [kind : {"clone"}, to : Alerted, todo : SUBSET ExtraTargets, id : Nat,
                         left : SUBSET [id : Nat, secret : Nat]]
  BY <1>4
<1>5. CASE command \in [kind : {"bulk"}, found : SUBSET Tagged, secret : Nat]
  BY <1>5
<1>6. CASE command \in [kind : {"rotate"}, id : Nat, secret : Nat]
  BY <1>6
<1>7. QED
  BY <1>2, <1>3, <1>4, <1>5, <1>6 DEF Commands

(* Rows are kept, and new ones have ids above those given out; what is     *)
(* fired and printed stays with its row.                                   *)
LEMMA NewRows ==
  ASSUME RowsInv, NEW kept \in SUBSET Ids, NEW new \in SUBSET Nat,
         \A i \in new : i > made.ids /\ i <= made'.ids,
         made' \in [ids : Nat, secrets : Nat], made'.ids >= made.ids,
         DOMAIN configs' = kept \cup new,
         \A i \in kept : configs'[i] = configs[i],
         \A i \in new : IsConfig(configs'[i]),
         torn' = torn,
         DOMAIN firedFor' \subseteq DOMAIN firedFor \cap kept,
         \A i \in DOMAIN firedFor' : firedFor'[i] = firedFor[i],
         DOMAIN printed' \subseteq (DOMAIN printed \cap kept) \cup new,
         \A i \in DOMAIN printed' \ new : printed'[i] = printed[i],
         \A i \in DOMAIN printed' \cap new : printed'[i] = configs'[i].secret
  PROVE  RowsInv' /\ \A i \in new : i \notin DOMAIN firedFor /\ i \notin Ids
<1>1. made.ids \in Nat /\ made'.ids \in Nat
  BY DEF RowsInv
<1>2. \A i \in Ids : i \in Nat /\ i <= made.ids /\ IsConfig(configs[i])
  BY DEF RowsInv
<1>3. \A i \in DOMAIN configs' : i \in Nat /\ i <= made'.ids /\ IsConfig(configs'[i])
  <2>1. \A i \in kept : i <= made'.ids
    BY <1>1, <1>2
  <2>2. \A i \in kept : IsConfig(configs'[i])
    BY <1>2
  <2>3. QED
    BY <1>2, <2>1, <2>2
<1>4. \A i \in new : i \notin Ids
  BY <1>1, <1>2
<1>5. \A i \in DOMAIN firedFor' \ torn' : firedFor'[i] = configs'[i].targets
  BY DEF RowsInv
<1>6. \A i \in DOMAIN printed' : printed'[i] = configs'[i].secret
  BY DEF RowsInv
<1>7. DOMAIN firedFor' \subseteq DOMAIN configs' /\ DOMAIN printed' \subseteq DOMAIN configs'
  OBVIOUS
<1>8. QED
  BY <1>3, <1>4, <1>5, <1>6, <1>7 DEF RowsInv, Ids

(* Rows go, with what is fired and printed for them.                       *)
LEMMA RowsGo ==
  ASSUME RowsInv, NEW ids, Keep(ids), made' = made, torn' = torn
  PROVE  RowsInv'
<1>1. /\ DOMAIN configs' = Ids \cap ids
      /\ \A i \in Ids \cap ids : configs'[i] = configs[i]
  BY OnlyIs DEF Keep, Ids
<1>2. /\ DOMAIN firedFor' = DOMAIN firedFor \cap ids
      /\ \A i \in DOMAIN firedFor \cap ids : firedFor'[i] = firedFor[i]
  BY OnlyIs DEF Keep
<1>3. /\ DOMAIN printed' = DOMAIN printed \cap ids
      /\ \A i \in DOMAIN printed \cap ids : printed'[i] = printed[i]
  BY OnlyIs DEF Keep
<1>4. QED
  BY <1>1, <1>2, <1>3 DEF RowsInv, Ids

LEMMA AddStartsKeeps ==
  ASSUME RowsInv, CommandInv, NEW c \in Alerted, AddStarts(c)
  PROVE  RowsInv' /\ CommandInv'
<1> DEFINE id == made.ids + 1
           secret == made.secrets + 1
<1>a. PICK r : r = Config(c, secret)
  OBVIOUS
<1>1. PICK ts \in SUBSET ExtraTargets :
        /\ command' = [kind |-> "add", id |-> id, todo |-> ts, secret |-> secret]
        /\ made' = [ids |-> id, secrets |-> secret]
        /\ configs' = With(configs, id, r)
  BY <1>a DEF AddStarts
<1>2. firedFor' = firedFor /\ printed' = printed /\ torn' = torn
  BY DEF AddStarts
<1>3. /\ id \in Nat /\ secret \in Nat /\ id > made.ids /\ made.ids \in Nat
      /\ made' \in [ids : Nat, secrets : Nat] /\ made'.ids = id
  BY <1>1 DEF RowsInv
<1> HIDE DEF id, secret
<1>4. /\ DOMAIN configs' = DOMAIN configs \cup {id} /\ configs'[id] = r
      /\ \A i \in DOMAIN configs : i # id => configs'[i] = configs[i]
  BY <1>1 DEF With
<1>5. IsConfig(configs'[id]) /\ configs'[id].secret = secret
  BY <1>a, <1>3, <1>4, AConfig
<1>6. \A i \in Ids : i # id
  BY <1>3 DEF RowsInv
<1>7. RowsInv' /\ id \notin DOMAIN firedFor
  <2> DEFINE new == {id}
             kept == Ids
  <2>1. /\ new \in SUBSET Nat /\ \A i \in new : i > made.ids /\ i <= made'.ids
        /\ made'.ids >= made.ids
    BY <1>3
  <2>2. /\ DOMAIN configs' = kept \cup new /\ \A i \in kept : configs'[i] = configs[i]
        /\ \A i \in new : IsConfig(configs'[i])
    BY <1>4, <1>5, <1>6 DEF Ids
  <2>3. /\ DOMAIN firedFor' \subseteq DOMAIN firedFor \cap kept
        /\ \A i \in DOMAIN firedFor' : firedFor'[i] = firedFor[i]
        /\ DOMAIN printed' \subseteq (DOMAIN printed \cap kept) \cup new
        /\ \A i \in DOMAIN printed' \ new : printed'[i] = printed[i]
        /\ DOMAIN printed' \cap new = {}
        /\ kept \in SUBSET Ids
    BY <1>2, <1>6 DEF RowsInv
  <2> HIDE DEF new, kept
  <2>4. RowsInv' /\ \A i \in new : i \notin DOMAIN firedFor
    BY <1>2, <1>3, <2>1, <2>2, <2>3, NewRows
  <2>5. QED
    BY <2>4 DEF new
<1>8. command' \in Commands
  <2>1. command' \in [kind : {"add"}, id : Nat, todo : SUBSET ExtraTargets, secret : Nat]
    BY <1>1, <1>3
  <2>2. QED
    BY <2>1 DEF Commands
<1>9. command'.kind = "add" /\ command'.id = id /\ command'.secret = secret
  BY <1>1
<1>10. CommandInv'
  BY <1>2, <1>3, <1>5, <1>7, <1>8, <1>9 DEF CommandInv, Ids
<1>11. QED
  BY <1>7, <1>10

LEMMA AddTargetKeeps ==
  ASSUME RowsInv, CommandInv, AddTarget
  PROVE  RowsInv' /\ CommandInv'
<1>1. /\ made' = made /\ firedFor' = firedFor /\ printed' = printed /\ torn' = torn
      /\ Writing
  BY DEF AddTarget, Writing
<1>2. CASE command.id \notin Ids
  <2>1. command' = Idle /\ configs' = configs
    BY <1>2 DEF AddTarget
  <2>2. Idle \in Commands /\ Idle.kind = "none"
    BY DEF Commands, Idle
  <2>3. QED
    BY <1>1, <2>1, <2>2 DEF RowsInv, CommandInv, Ids, Writing
<1>3. CASE command.id \in Ids
  <2>1. PICK t \in command.todo :
          /\ configs' = [configs EXCEPT ![command.id].targets = @ \cup {t}]
          /\ command' = [command EXCEPT !.todo = @ \ {t}]
    BY <1>3 DEF AddTarget
  <2>2. /\ command'.kind = command.kind /\ command'.id = command.id /\ command' \in Commands
        /\ command'.todo \subseteq command.todo
        /\ command.kind = "add" => command'.secret = command.secret
    <3>1. CASE command.kind = "add"
      <4>1. command \in [kind : {"add"}, id : Nat, todo : SUBSET ExtraTargets, secret : Nat]
        BY <3>1, CommandKinds DEF RowsInv, CommandInv
      <4>2. command' \in [kind : {"add"}, id : Nat, todo : SUBSET ExtraTargets, secret : Nat]
            /\ command'.kind = command.kind /\ command'.id = command.id
            /\ command'.todo = command.todo \ {t} /\ command'.secret = command.secret
        BY <2>1, <4>1
      <4>3. QED
        BY <4>2 DEF Commands
    <3>2. CASE command.kind = "clone"
      <4>1. command \in [kind : {"clone"}, to : Alerted, todo : SUBSET ExtraTargets, id : Nat,
                         left : SUBSET [id : Nat, secret : Nat]]
        BY <3>2, CommandKinds DEF RowsInv, CommandInv
      <4>2. /\ command' \in [kind : {"clone"}, to : Alerted, todo : SUBSET ExtraTargets, id : Nat,
                            left : SUBSET [id : Nat, secret : Nat]]
            /\ command'.kind = command.kind /\ command'.id = command.id
            /\ command'.todo = command.todo \ {t}
        BY <2>1, <4>1
      <4>3. QED
        BY <3>2, <4>2 DEF Commands
    <3>3. QED
      BY <1>1, <3>1, <3>2 DEF Writing
  <2> DEFINE id == command.id
  <2>3. IsConfig(configs[id])
    BY <1>3 DEF RowsInv, CommandInv
  <2>4. /\ DOMAIN configs' = Ids
        /\ \A i \in Ids : i # id => configs'[i] = configs[i]
        /\ configs'[id] = [configs[id] EXCEPT !.targets = @ \cup {t}]
    BY <1>3, <2>1 DEF Ids
  <2>13. t \in ExtraTargets
    BY <1>1, CommandKinds DEF CommandInv, Writing
  <2>5. IsConfig(configs'[id]) /\ configs'[id].secret = configs[id].secret
    BY <2>3, <2>4, <2>13 DEF IsConfig
  <2>6. id \in DOMAIN firedFor => id \in torn
    BY <1>1 DEF RowsInv, CommandInv
  <2> HIDE DEF id
  <2>7. \A i \in Ids : IsConfig(configs'[i]) /\ configs'[i].secret = configs[i].secret
    BY <2>4, <2>5 DEF RowsInv, CommandInv
  <2>8. \A i \in DOMAIN firedFor \ torn : firedFor[i] = configs'[i].targets
    BY <2>4, <2>6 DEF RowsInv, CommandInv
  <2>9. \A i \in DOMAIN printed : printed[i] = configs'[i].secret
    BY <2>7 DEF RowsInv, CommandInv
  <2>10. /\ command'.kind \in {"add", "clone"} => command'.id <= made'.ids
         /\ command'.kind = "add" /\ command'.id \in Ids => configs'[command'.id].secret = command'.secret
    BY <1>1, <2>2, <2>7 DEF RowsInv, CommandInv
  <2>11. command'.id \in DOMAIN firedFor' => command'.id \in torn'
    BY <1>1, <2>2, <2>6 DEF id
  <2>12. QED
    BY <1>1, <2>2, <2>4, <2>7, <2>8, <2>9, <2>10, <2>11 DEF RowsInv, CommandInv, Ids, Writing
<1>4. QED
  BY <1>2, <1>3

LEMMA IdleKeeps ==
  ASSUME command' = Idle
  PROVE  CommandInv'
<1>1. Idle \in Commands /\ Idle.kind = "none"
  BY DEF Commands, Idle
<1>2. QED
  BY <1>1 DEF CommandInv, Writing

LEMMA RowsStay ==
  ASSUME RowsInv, UNCHANGED <<configs, firedFor, printed, torn>>,
         made' \in [ids : Nat, secrets : Nat], made'.ids = made.ids
  PROVE  RowsInv'
  BY DEF RowsInv, Ids

LEMMA AddEndsKeeps ==
  ASSUME RowsInv, CommandInv, AddEnds
  PROVE  RowsInv' /\ CommandInv'
<1>1. /\ command' = Idle /\ command.kind = "add"
      /\ configs' = configs /\ firedFor' = firedFor /\ made' = made /\ torn' = torn
  BY DEF AddEnds
<1>2. CASE command.id \in Ids
  <2>1. printed' = With(printed, command.id, command.secret)
    BY <1>2 DEF AddEnds
  <2>2. configs[command.id].secret = command.secret
    BY <1>1, <1>2 DEF CommandInv
  <2>3. /\ DOMAIN printed' = DOMAIN printed \cup {command.id}
        /\ printed'[command.id] = command.secret
        /\ \A i \in DOMAIN printed : i # command.id => printed'[i] = printed[i]
    BY <2>1 DEF With
  <2>4. RowsInv'
    BY <1>1, <1>2, <2>2, <2>3 DEF RowsInv, Ids
  <2>5. QED
    BY <1>1, <2>4, IdleKeeps
<1>3. CASE command.id \notin Ids
  <2>1. printed' = printed
    BY <1>3 DEF AddEnds
  <2>2. QED
    BY <1>1, <2>1, IdleKeeps, RowsStay DEF RowsInv
<1>4. QED
  BY <1>2, <1>3

LEMMA BulkReadsKeeps ==
  ASSUME RowsInv, CommandInv, BulkReads
  PROVE  RowsInv' /\ CommandInv'
<1> DEFINE secret == made.secrets + 1
           found == Tagged \cap watched
<1>1. /\ configs' = configs /\ firedFor' = firedFor /\ printed' = printed /\ torn' = torn
      /\ made' = [made EXCEPT !.secrets = @ + 1]
      /\ command' = [kind |-> "bulk", found |-> found, secret |-> secret]
  BY DEF BulkReads
<1>2. made' \in [ids : Nat, secrets : Nat] /\ made'.ids = made.ids /\ secret \in Nat
  BY <1>1 DEF RowsInv
<1>3. command' \in [kind : {"bulk"}, found : SUBSET Tagged, secret : Nat]
  BY <1>1, <1>2
<1>4. RowsInv'
  BY <1>1, <1>2, RowsStay
<1>5. CommandInv'
  BY <1>3 DEF CommandInv, Commands, Writing
<1>6. QED
  BY <1>4, <1>5

LEMMA BulkKeeps ==
  ASSUME RowsInv, CommandInv, insertAlertConfigBulk
  PROVE  RowsInv' /\ CommandInv'
<1>1. command' = Idle /\ command.kind = "bulk" /\ firedFor' = firedFor /\ torn' = torn
  BY DEF insertAlertConfigBulk
<1>2. command.found \in SUBSET Tagged /\ command.secret \in Nat
  BY <1>1, CommandKinds DEF CommandInv
<1>3. CASE command.found \subseteq watched
  <2> DEFINE n == Cardinality(command.found)
             new == made.ids + 1 .. made.ids + n
             kept == Ids
  <2>1. n \in Nat
    BY <1>2, ConfigAssumption, FS_Subset, FS_CardinalityType
  <2>2. PICK row \in [new -> command.found] :
          /\ configs' = [i \in Ids \cup new |->
                           IF i \in new THEN Config(row[i], command.secret) ELSE configs[i]]
          /\ printed' = [i \in DOMAIN printed \cup new |->
                           IF i \in new THEN command.secret ELSE printed[i]]
          /\ made' = [made EXCEPT !.ids = @ + n]
    BY <1>3 DEF insertAlertConfigBulk
  <2>3. /\ made' \in [ids : Nat, secrets : Nat] /\ made'.ids = made.ids + n /\ made.ids \in Nat
        /\ made'.ids >= made.ids
    <3>1. made \in [ids : Nat, secrets : Nat]
      BY DEF RowsInv
    <3>2. made' = [made EXCEPT !.ids = @ + n] /\ n \in Nat
      BY <2>1, <2>2
    <3> HIDE DEF n
    <3>3. QED
      BY <3>1, <3>2
  <2>4. new \in SUBSET Nat /\ \A i \in new : i > made.ids /\ i <= made'.ids
    BY <2>1, <2>3
  <2>5. \A i \in kept : i \notin new
    BY <2>4, <2>3 DEF RowsInv
  <2> HIDE DEF n, new
  <2>6. /\ DOMAIN configs' = kept \cup new
        /\ \A i \in kept : configs'[i] = configs[i]
        /\ \A i \in new : configs'[i] = Config(row[i], command.secret)
    BY <2>2, <2>5
  <2>7. \A i \in new : IsConfig(configs'[i]) /\ configs'[i].secret = command.secret
    BY <1>2, <2>6, AConfig
  <2>8. /\ DOMAIN printed' \subseteq (DOMAIN printed \cap kept) \cup new
        /\ \A i \in DOMAIN printed' \ new : printed'[i] = printed[i]
        /\ \A i \in DOMAIN printed' \cap new : printed'[i] = configs'[i].secret
        /\ DOMAIN firedFor' \subseteq DOMAIN firedFor \cap kept
        /\ \A i \in DOMAIN firedFor' : firedFor'[i] = firedFor[i]
        /\ kept \in SUBSET Ids
    BY <1>1, <2>2, <2>7 DEF RowsInv
  <2> HIDE DEF kept
  <2>9. RowsInv'
    BY <1>1, <2>3, <2>4, <2>6, <2>7, <2>8, NewRows
  <2>10. QED
    BY <1>1, <2>9, IdleKeeps
<1>4. CASE ~(command.found \subseteq watched)
  <2>1. UNCHANGED <<configs, printed, made>>
    BY <1>4 DEF insertAlertConfigBulk
  <2>2. QED
    BY <1>1, <2>1, IdleKeeps, RowsStay DEF RowsInv
<1>5. QED
  BY <1>3, <1>4

LEMMA CloneStartsKeeps ==
  ASSUME RowsInv, CommandInv, NEW from, NEW to \in Alerted, CloneStarts(from, to)
  PROVE  RowsInv' /\ CommandInv'
<1> DEFINE found == {[id |-> i, secret |-> configs[i].secret] : i \in {j \in Ids : configs[j].contract = from}}
<1>1. /\ configs' = configs /\ firedFor' = firedFor /\ printed' = printed /\ torn' = torn
      /\ made' = made
      /\ command' = [kind |-> "clone", to |-> to, todo |-> {}, id |-> 0, left |-> found]
  BY DEF CloneStarts
<1>2. found \in SUBSET [id : Nat, secret : Nat]
  <2>1. \A i \in Ids : i \in Nat /\ configs[i].secret \in Nat
    BY DEF RowsInv, IsConfig
  <2>2. QED
    BY <2>1
<1> HIDE DEF found
<1>3. command' \in [kind : {"clone"}, to : Alerted, todo : SUBSET ExtraTargets, id : Nat,
                    left : SUBSET [id : Nat, secret : Nat]]
  BY <1>1, <1>2
<1>4. command'.kind = "clone" /\ command'.todo = {} /\ command'.id = 0 /\ 0 <= made'.ids
  BY <1>1 DEF RowsInv
<1>5. RowsInv'
  BY <1>1, RowsStay DEF RowsInv
<1>6. CommandInv'
  BY <1>3, <1>4 DEF CommandInv, Commands, Writing
<1>7. QED
  BY <1>5, <1>6

LEMMA CloneKeeps ==
  ASSUME RowsInv, CommandInv, CloneConfig
  PROVE  RowsInv' /\ CommandInv'
<1>1. /\ command.kind = "clone" /\ command.todo = {} /\ command.left # {}
      /\ firedFor' = firedFor /\ printed' = printed /\ torn' = torn
  BY DEF CloneConfig
<1>2. command \in [kind : {"clone"}, to : Alerted, todo : SUBSET ExtraTargets, id : Nat,
                   left : SUBSET [id : Nat, secret : Nat]]
  BY <1>1, CommandKinds DEF CommandInv
<1>3. CASE command.to \notin watched
  <2>1. command' = Idle /\ UNCHANGED <<configs, made>>
    BY <1>3 DEF CloneConfig
  <2>2. QED
    BY <1>1, <2>1, IdleKeeps, RowsStay DEF RowsInv
<1>4. CASE command.to \in watched
  <2> DEFINE id == made.ids + 1
             further(i) == IF i \in Ids THEN configs[i].targets \ {"primary"} ELSE {}
             new == {id}
             kept == Ids
  <2>1. PICK row \in command.left :
          /\ configs' = With(configs, id, Config(command.to, row.secret))
          /\ made' = [made EXCEPT !.ids = id]
          /\ command' = [command EXCEPT !.left = @ \ {row}, !.id = id, !.todo = further(row.id)]
    BY <1>4 DEF CloneConfig
  <2>2. PICK r : r = Config(command.to, row.secret)
    OBVIOUS
  <2>3. configs' = With(configs, id, r)
    BY <2>1, <2>2
  <2>4. /\ made' \in [ids : Nat, secrets : Nat] /\ made'.ids = id /\ made.ids \in Nat
        /\ id \in Nat /\ id > made.ids
    BY <2>1 DEF RowsInv
  <2> HIDE DEF id
  <2>5. row.secret \in Nat
    BY <1>2
  <2>6. IsConfig(r)
    BY <2>2, <2>5, AConfig
  <2>7. \A i \in Ids : i # id
    BY <2>4 DEF RowsInv
  <2>8. /\ DOMAIN configs' = kept \cup new /\ \A i \in kept : configs'[i] = configs[i]
        /\ \A i \in new : IsConfig(configs'[i])
    BY <2>3, <2>6, <2>7 DEF With, Ids
  <2>9. /\ DOMAIN firedFor' \subseteq DOMAIN firedFor \cap kept
        /\ \A i \in DOMAIN firedFor' : firedFor'[i] = firedFor[i]
        /\ DOMAIN printed' \subseteq (DOMAIN printed \cap kept) \cup new
        /\ \A i \in DOMAIN printed' \ new : printed'[i] = printed[i]
        /\ DOMAIN printed' \cap new = {}
        /\ kept \in SUBSET Ids
    BY <1>1, <2>7 DEF RowsInv
  <2>10. /\ new \in SUBSET Nat /\ \A i \in new : i > made.ids /\ i <= made'.ids
         /\ made'.ids >= made.ids
    BY <2>4
  <2> HIDE DEF new, kept
  <2>11. RowsInv' /\ \A i \in new : i \notin DOMAIN firedFor
    BY <1>1, <2>4, <2>8, <2>9, <2>10, NewRows
  <2>12. further(row.id) \in SUBSET ExtraTargets
    <3>1. \A i \in Ids : configs[i].targets \subseteq ExtraTargets \cup {"primary"}
      BY DEF RowsInv, IsConfig
    <3>2. QED
      BY <3>1
  <2>13. PICK ts \in SUBSET ExtraTargets : ts = further(row.id)
    BY <2>12
  <2>14. command' = [command EXCEPT !.left = @ \ {row}, !.id = id, !.todo = ts]
    BY <2>1, <2>13
  <2>15. /\ command' \in [kind : {"clone"}, to : Alerted, todo : SUBSET ExtraTargets, id : Nat,
                          left : SUBSET [id : Nat, secret : Nat]]
         /\ command'.kind = "clone" /\ command'.id = id
    BY <1>2, <2>4, <2>14
  <2>16. CommandInv'
    BY <1>1, <2>4, <2>11, <2>15 DEF CommandInv, Commands, Writing, new
  <2>17. QED
    BY <2>11, <2>16
<1>5. QED
  BY <1>3, <1>4

(* A row that goes takes nothing from the command that works on another,   *)
(* and one on it finds it gone.                                            *)
LEMMA CommandStays ==
  ASSUME RowsInv, CommandInv, command' = command, made'.ids >= made.ids,
         made' \in [ids : Nat, secrets : Nat],
         \A i \in DOMAIN configs' : \/ i > made.ids
                                    \/ i \in Ids /\ configs'[i].secret = configs[i].secret,
         \A i \in DOMAIN firedFor' : \/ i \in DOMAIN firedFor /\ (i \in torn => i \in torn')
                                     \/ Writing /\ i = command.id => i \in torn'
  PROVE  CommandInv'
<1>1. made.ids \in Nat /\ made'.ids \in Nat
  BY DEF RowsInv
<1>2. command.kind \in {"add", "clone"} => command.id \in Nat /\ command.id <= made.ids
  BY CommandKinds DEF CommandInv
<1>3. command.kind \in {"add", "clone"} => command.id <= made'.ids
  BY <1>1, <1>2
<1>4. command.kind = "add" /\ command.id \in DOMAIN configs' => configs'[command.id].secret = command.secret
  BY <1>1, <1>2 DEF CommandInv
<1>5. Writing /\ command.id \in DOMAIN firedFor' => command.id \in torn'
  BY DEF CommandInv
<1>6. QED
  BY <1>3, <1>4, <1>5 DEF CommandInv, Ids, Writing

LEMMA WizardKeeps ==
  ASSUME RowsInv, CommandInv, NEW c \in Alerted, runInitWizard(c)
  PROVE  RowsInv' /\ CommandInv'
<1> DEFINE id == made.ids + 1
           kept == {i \in Ids : configs[i].contract # c}
           new == {id}
<1>1. PICK r, f : r = Config(c, NoSecret) /\ f = Only(configs, kept)
  OBVIOUS
<1>2. /\ made' = [made EXCEPT !.ids = id]
      /\ configs' = With(f, id, r)
      /\ firedFor' = Only(firedFor, kept) /\ printed' = Only(printed, kept)
      /\ command' = command /\ torn' = torn
  BY <1>1 DEF runInitWizard
<1>3. /\ made' \in [ids : Nat, secrets : Nat] /\ made'.ids = id /\ made.ids \in Nat
      /\ id \in Nat /\ id > made.ids
  BY <1>2 DEF RowsInv
<1>4. kept \in SUBSET Ids
  OBVIOUS
<1> HIDE DEF id, kept
<1>5. IsConfig(r)
  BY <1>1, AConfig DEF NoSecret
<1>6. \A i \in Ids : i # id
  BY <1>3 DEF RowsInv
<1>7. DOMAIN f = kept /\ \A i \in kept : f[i] = configs[i]
  BY <1>1, <1>4 DEF Only, Ids
<1>8. /\ DOMAIN configs' = kept \cup new /\ \A i \in kept : configs'[i] = configs[i]
      /\ \A i \in new : IsConfig(configs'[i])
  BY <1>2, <1>4, <1>5, <1>6, <1>7 DEF With
<1>9. /\ DOMAIN firedFor' \subseteq DOMAIN firedFor \cap kept
      /\ \A i \in DOMAIN firedFor' : firedFor'[i] = firedFor[i]
      /\ DOMAIN printed' \subseteq (DOMAIN printed \cap kept) \cup new
      /\ \A i \in DOMAIN printed' \ new : printed'[i] = printed[i]
      /\ DOMAIN printed' \cap new = {}
  BY <1>2, <1>4, <1>6 DEF Only
<1>10. /\ new \in SUBSET Nat /\ \A i \in new : i > made.ids /\ i <= made'.ids
       /\ made'.ids >= made.ids
  BY <1>3
<1> HIDE DEF new
<1>11. RowsInv'
  BY <1>2, <1>3, <1>4, <1>8, <1>9, <1>10, NewRows
<1>12. CommandInv'
  <2>1. \A i \in DOMAIN configs' : \/ i > made.ids
                                   \/ i \in Ids /\ configs'[i].secret = configs[i].secret
    BY <1>4, <1>8, <1>10
  <2>2. \A i \in DOMAIN firedFor' : i \in DOMAIN firedFor /\ (i \in torn => i \in torn')
    BY <1>2, <1>9
  <2>3. QED
    BY <1>2, <1>3, <1>10, <2>1, <2>2, CommandStays
<1>13. QED
  BY <1>11, <1>12

LEMMA RotateStartsKeeps ==
  ASSUME RowsInv, CommandInv, NEW id \in Ids, RotateStarts(id)
  PROVE  RowsInv' /\ CommandInv'
<1> DEFINE secret == made.secrets + 1
<1>1. /\ configs' = configs /\ firedFor' = firedFor /\ printed' = printed /\ torn' = torn
      /\ made' = [made EXCEPT !.secrets = @ + 1]
      /\ command' = [kind |-> "rotate", id |-> id, secret |-> secret]
  BY DEF RotateStarts
<1>2. /\ made' \in [ids : Nat, secrets : Nat] /\ made'.ids = made.ids /\ secret \in Nat
      /\ id \in Nat
  BY <1>1 DEF RowsInv
<1>3. command' \in [kind : {"rotate"}, id : Nat, secret : Nat]
  BY <1>1, <1>2
<1>4. RowsInv'
  BY <1>1, <1>2, RowsStay
<1>5. CommandInv'
  BY <1>3 DEF CommandInv, Commands, Writing
<1>6. QED
  BY <1>4, <1>5

LEMMA RotateKeeps ==
  ASSUME RowsInv, CommandInv, updateAlertConfigSecret
  PROVE  RowsInv' /\ CommandInv'
<1>1. /\ command' = Idle /\ command.kind = "rotate"
      /\ firedFor' = firedFor /\ made' = made /\ torn' = torn
  BY DEF updateAlertConfigSecret
<1>2. command.secret \in Nat
  BY <1>1, CommandKinds DEF CommandInv
<1> DEFINE id == command.id
<1>3. CASE id \in Ids
  <2>1. /\ configs' = [configs EXCEPT ![id].secret = command.secret]
        /\ printed' = With(printed, id, command.secret)
    BY <1>3 DEF updateAlertConfigSecret
  <2>2. /\ DOMAIN printed' = DOMAIN printed \cup {id}
        /\ printed'[id] = command.secret
        /\ \A i \in DOMAIN printed : i # id => printed'[i] = printed[i]
    BY <2>1 DEF With
  <2>3. IsConfig(configs[id])
    BY <1>3 DEF RowsInv
  <2>4. /\ DOMAIN configs' = Ids
        /\ \A i \in Ids : i # id => configs'[i] = configs[i]
        /\ configs'[id] = [configs[id] EXCEPT !.secret = command.secret]
    BY <1>3, <2>1 DEF Ids
  <2>5. /\ IsConfig(configs'[id]) /\ configs'[id].secret = command.secret
        /\ configs'[id].targets = configs[id].targets
    BY <1>2, <2>3, <2>4 DEF IsConfig
  <2> HIDE DEF id
  <2>6. \A i \in Ids : IsConfig(configs'[i]) /\ configs'[i].targets = configs[i].targets
    BY <2>4, <2>5 DEF RowsInv
  <2>7. \A i \in DOMAIN printed' : printed'[i] = configs'[i].secret
    BY <2>2, <2>4, <2>5 DEF RowsInv
  <2>8. RowsInv'
    BY <1>1, <1>3, <2>2, <2>4, <2>6, <2>7 DEF RowsInv, Ids
  <2>9. QED
    BY <1>1, <2>8, IdleKeeps
<1>4. CASE id \notin Ids
  <2>1. UNCHANGED <<configs, printed>>
    BY <1>4 DEF updateAlertConfigSecret
  <2>2. QED
    BY <1>1, <2>1, IdleKeeps, RowsStay DEF RowsInv
<1>5. QED
  BY <1>3, <1>4

LEMMA EnablingKeeps ==
  ASSUME RowsInv, CommandInv, NEW id \in Ids, setAlertConfigEnabled(id)
  PROVE  RowsInv' /\ CommandInv'
<1>1. PICK on \in BOOLEAN : configs' = [configs EXCEPT ![id].enabled = on]
  BY DEF setAlertConfigEnabled
<1>2. /\ command' = command /\ firedFor' = firedFor /\ made' = made /\ torn' = torn
      /\ printed' = printed
  BY DEF setAlertConfigEnabled
<1>3. IsConfig(configs[id])
  BY DEF RowsInv
<1>4. /\ DOMAIN configs' = Ids
      /\ \A i \in Ids : i # id => configs'[i] = configs[i]
      /\ configs'[id] = [configs[id] EXCEPT !.enabled = on]
  BY <1>1 DEF Ids
<1>5. /\ IsConfig(configs'[id]) /\ configs'[id].secret = configs[id].secret
      /\ configs'[id].targets = configs[id].targets
  BY <1>3, <1>4 DEF IsConfig
<1>6. \A i \in Ids : /\ IsConfig(configs'[i]) /\ configs'[i].secret = configs[i].secret
                     /\ configs'[i].targets = configs[i].targets
  BY <1>4, <1>5 DEF RowsInv
<1>7. RowsInv'
  BY <1>2, <1>4, <1>6 DEF RowsInv, Ids
<1>8. CommandInv'
  BY <1>2, <1>4, <1>6 DEF CommandInv, Ids, Writing
<1>9. QED
  BY <1>7, <1>8

LEMMA KeepKeeps ==
  ASSUME RowsInv, CommandInv, NEW ids, Keep(ids), UNCHANGED <<command, made, torn>>
  PROVE  RowsInv' /\ CommandInv'
<1>1. RowsInv'
  BY RowsGo
<1>2. /\ DOMAIN configs' = Ids \cap ids
      /\ \A i \in Ids \cap ids : configs'[i] = configs[i]
      /\ DOMAIN firedFor' \subseteq DOMAIN firedFor
  BY DEF Keep, Only, Ids
<1>3. made' \in [ids : Nat, secrets : Nat] /\ made'.ids >= made.ids
  BY DEF RowsInv
<1>4. \A i \in DOMAIN configs' : i \in Ids /\ configs'[i].secret = configs[i].secret
  BY <1>2
<1>5. CommandInv'
  BY <1>2, <1>3, <1>4, CommandStays
<1>6. QED
  BY <1>1, <1>5

LEMMA FiringKeeps ==
  ASSUME RowsInv, CommandInv, NEW id \in Ids, FireConfig(id)
  PROVE  RowsInv' /\ CommandInv'
<1>1. /\ firedFor' = With(firedFor, id, configs[id].targets)
      /\ command' = command /\ configs' = configs /\ made' = made /\ printed' = printed
      /\ id \notin DOMAIN firedFor
  BY DEF FireConfig, Fires
<1>2. torn' = IF Writing /\ command.id = id THEN torn \cup {id} ELSE torn
  BY DEF FireConfig, Writing
<1>3. /\ DOMAIN firedFor' = DOMAIN firedFor \cup {id} /\ firedFor'[id] = configs[id].targets
      /\ \A i \in DOMAIN firedFor : firedFor'[i] = firedFor[i]
  BY <1>1 DEF With
<1>4. RowsInv'
  BY <1>1, <1>2, <1>3 DEF RowsInv, Ids
<1>5. CommandInv'
  BY <1>1, <1>2, <1>3 DEF CommandInv, Ids, Writing
<1>6. QED
  BY <1>4, <1>5

LEMMA ResolvingKeeps ==
  ASSUME RowsInv, CommandInv, NEW id \in Ids, ResolveConfig(id)
  PROVE  RowsInv' /\ CommandInv'
<1>1. /\ firedFor' = Only(firedFor, Ids \ {id}) /\ torn' = torn \ {id}
      /\ command' = command /\ configs' = configs /\ made' = made /\ printed' = printed
  BY DEF ResolveConfig
<1>2. /\ DOMAIN firedFor' \subseteq DOMAIN firedFor \ {id}
      /\ \A i \in DOMAIN firedFor' : firedFor'[i] = firedFor[i]
  BY <1>1 DEF Only
<1>3. RowsInv'
  BY <1>1, <1>2 DEF RowsInv, Ids
<1>4. CommandInv'
  BY <1>1, <1>2 DEF CommandInv, Ids, Writing
<1>5. QED
  BY <1>3, <1>4

(* A configuration that was whole when it fired has a row for each of its  *)
(* targets, and its secret is the one last shown (commands/alerts.ts).     *)
THEOREM AlwaysFiresForTheWhole == ConfigSpec => []FiresForTheWholeConfig
<1>1. ConfigInit => RowsInv /\ CommandInv
  BY ConfigsStart
<1>2. RowsInv /\ CommandInv /\ [ConfigNext]_configVars => (RowsInv /\ CommandInv)'
  <2>1. SUFFICES ASSUME RowsInv, CommandInv, [ConfigNext]_configVars
                 PROVE  RowsInv' /\ CommandInv'
    OBVIOUS
  <2>2. CASE UNCHANGED configVars
    BY <2>1, <2>2 DEF configVars, RowsInv, CommandInv, Ids, Writing
  <2>3. ASSUME NEW c \in Alerted, AddStarts(c) \/ UnwatchAlerted(c) \/ WatchAlerted(c)
        PROVE  RowsInv' /\ CommandInv'
    <3>1. CASE AddStarts(c)
      BY <2>1, <3>1, AddStartsKeeps
    <3>2. CASE UnwatchAlerted(c)
      BY <2>1, <3>2, KeepKeeps DEF UnwatchAlerted
    <3>3. CASE WatchAlerted(c)
      BY <2>1, <3>3 DEF WatchAlerted, RowsInv, CommandInv, Ids, Writing
    <3>4. QED
      BY <2>3, <3>1, <3>2, <3>3
  <2>4. CASE AddTarget
    BY <2>1, <2>4, AddTargetKeeps
  <2>5. CASE AddEnds
    BY <2>1, <2>5, AddEndsKeeps
  <2>6. CASE BulkReads
    BY <2>1, <2>6, BulkReadsKeeps
  <2>7. CASE insertAlertConfigBulk
    BY <2>1, <2>7, BulkKeeps
  <2>8. ASSUME NEW c \in Alerted, NEW d \in Alerted, CloneStarts(c, d)
        PROVE  RowsInv' /\ CommandInv'
    BY <2>1, <2>8, CloneStartsKeeps
  <2>9. CASE CloneConfig
    BY <2>1, <2>9, CloneKeeps
  <2>10. CASE CloneEnds \/ CommandDies
    BY <2>1, <2>10, IdleKeeps, RowsStay DEF CloneEnds, CommandDies, RowsInv
  <2>11. ASSUME NEW c \in Alerted, runInitWizard(c)
         PROVE  RowsInv' /\ CommandInv'
    BY <2>1, <2>11, WizardKeeps
  <2>12. CASE updateAlertConfigSecret
    BY <2>1, <2>12, RotateKeeps
  <2>13. ASSUME NEW id \in Ids, \/ RotateStarts(id) \/ setAlertConfigEnabled(id)
                                \/ deleteAlertConfig(id) \/ FireConfig(id) \/ ResolveConfig(id)
         PROVE  RowsInv' /\ CommandInv'
    <3>1. CASE RotateStarts(id)
      BY <2>1, <3>1, RotateStartsKeeps
    <3>2. CASE setAlertConfigEnabled(id)
      BY <2>1, <3>2, EnablingKeeps
    <3>3. CASE deleteAlertConfig(id)
      BY <2>1, <3>3, KeepKeeps DEF deleteAlertConfig
    <3>4. CASE FireConfig(id)
      BY <2>1, <3>4, FiringKeeps
    <3>5. CASE ResolveConfig(id)
      BY <2>1, <3>5, ResolvingKeeps
    <3>6. QED
      BY <2>13, <3>1, <3>2, <3>3, <3>4, <3>5
  <2>14. QED
    BY <2>1, <2>2, <2>3, <2>4, <2>5, <2>6, <2>7, <2>8, <2>9, <2>10, <2>11, <2>12, <2>13 DEF ConfigNext
<1>3. RowsInv => FiresForTheWholeConfig
  BY DEF RowsInv, FiresForTheWholeConfig
<1>4. QED
  BY <1>1, <1>2, <1>3, PTL DEF ConfigSpec

-----------------------------------------------------------------------------
(* StateDiff *)

Snapshots == [ledger : Nat, value : Values]
Changes == [old : Nat, new : Nat, kind : {"created", "updated"}]

(* A call that found another value than that of the latest snapshot        *)
IsCall(c, snaps, ledgers) ==
  \/ c = NoCall
  \/ /\ c \in [at : {"snapshot"}, old : 0 .. Len(snaps), kind : {"created", "updated"},
               ledger : 1 .. ledgers, value : Values]
     /\ c.kind = "created" <=> c.old = 0
     /\ c.kind = "updated" => snaps[c.old].value # c.value
  \/ /\ c \in [at : {"change"}, old : 0 .. Len(snaps), kind : {"created", "updated"},
               new : 1 .. Len(snaps)]
     /\ c.kind = "created" <=> c.old = 0
     /\ c.kind = "updated" => snaps[c.old].value # snaps[c.new].value

IsChange(ch, snaps) ==
  /\ ch \in Changes
  /\ ch.old \in 0 .. Len(snaps) /\ ch.new \in 1 .. Len(snaps)
  /\ ch.kind = "created" <=> ch.old = 0
  /\ ch.kind = "updated" => snaps[ch.old].value # snaps[ch.new].value

DiffTypes ==
  /\ onChain \in Seq(Values) /\ stateSnapshots \in Seq(Snapshots) /\ stateChanges \in Seq(Changes)
  /\ \A i \in DOMAIN stateSnapshots : stateSnapshots[i].ledger \in 1 .. Len(onChain)
  /\ DOMAIN call = Observers
  /\ disturbed \in BOOLEAN

(* The calls, one at a time, in the order of the ledgers they observed     *)
InTurn ==
  /\ \A i, j \in DOMAIN stateSnapshots : i <= j => stateSnapshots[i].ledger <= stateSnapshots[j].ledger
  /\ \A i \in DOMAIN stateChanges : stateChanges[i].old = i - 1 /\ stateChanges[i].new = i
  /\ \A o, p \in Observers : call[o] # NoCall /\ call[p] # NoCall => o = p
  /\ (\A o \in Observers : call[o] = NoCall) => Len(stateChanges) = Len(stateSnapshots)
  /\ \A o \in Observers :
       /\ call[o].at = "snapshot" =>
            /\ Len(stateChanges) = Len(stateSnapshots) /\ call[o].old = Len(stateSnapshots)
            /\ \A i \in DOMAIN stateSnapshots : stateSnapshots[i].ledger <= call[o].ledger
       /\ call[o].at = "change" =>
            /\ Len(stateSnapshots) = Len(stateChanges) + 1
            /\ call[o].old = Len(stateChanges) /\ call[o].new = Len(stateSnapshots)

DiffInv ==
  /\ DiffTypes
  /\ \A o \in Observers : IsCall(call[o], stateSnapshots, Len(onChain))
  /\ \A i \in DOMAIN stateChanges : IsChange(stateChanges[i], stateSnapshots)
  /\ ~disturbed => InTurn

LEMMA LatestIsOne ==
  ASSUME DiffTypes
  PROVE  LET latest == getLatestSnapshot(stateSnapshots)
         IN  /\ latest \in 0 .. Len(stateSnapshots)
             /\ latest = 0 <=> Len(stateSnapshots) = 0
<1>1. CASE stateSnapshots = <<>>
  BY <1>1 DEF getLatestSnapshot
<1>2. CASE stateSnapshots # <<>>
  <2> DEFINE ledgers == {stateSnapshots[i].ledger : i \in DOMAIN stateSnapshots}
  <2>1. DOMAIN stateSnapshots = 1 .. Len(stateSnapshots) /\ Len(stateSnapshots) \in Nat
        /\ Len(stateSnapshots) # 0
    BY <1>2 DEF DiffTypes
  <2>2. ledgers \in SUBSET (0 .. Len(onChain)) /\ Len(onChain) \in Nat
    BY DEF DiffTypes
  <2>3. ledgers # {}
    <3>1. 1 \in DOMAIN stateSnapshots
      BY <2>1
    <3>2. stateSnapshots[1].ledger \in ledgers
      BY <3>1
    <3>3. QED
      BY <3>2
  <2>4. PICK m \in ledgers : \A l \in ledgers : l <= m
    <3> HIDE DEF ledgers
    <3>1. QED
      BY <2>2, <2>3, GreatestNatural
  <2> DEFINE last == {i \in DOMAIN stateSnapshots : stateSnapshots[i].ledger = m}
  <2>5. last \in SUBSET (0 .. Len(stateSnapshots)) /\ last # {}
    BY <2>1
  <2>6. PICK i \in last : \A j \in last : j <= i
    <3> HIDE DEF last
    <3>1. QED
      BY <2>1, <2>5, GreatestNatural
  <2>7. ASSUME NEW j \in DOMAIN stateSnapshots
        PROVE  \/ stateSnapshots[j].ledger < stateSnapshots[i].ledger
               \/ stateSnapshots[j].ledger = stateSnapshots[i].ledger /\ j <= i
    <3>1. stateSnapshots[j].ledger <= m /\ stateSnapshots[j].ledger \in Nat /\ m \in Nat
      BY <2>2, <2>4 DEF DiffTypes
    <3>2. QED
      BY <2>6, <3>1
  <2>8. i \in DOMAIN stateSnapshots
    OBVIOUS
  <2>9. getLatestSnapshot(stateSnapshots) \in DOMAIN stateSnapshots
    BY <1>2, <2>7, <2>8 DEF getLatestSnapshot
  <2>10. QED
    BY <2>1, <2>9
<1>3. QED
  BY <1>1, <1>2

(* In the order of the ledgers the last one is the latest.                 *)
LEMMA LatestIsLast ==
  ASSUME DiffTypes, InTurn
  PROVE  getLatestSnapshot(stateSnapshots) = Len(stateSnapshots)
<1>1. CASE stateSnapshots = <<>>
  BY <1>1 DEF getLatestSnapshot
<1>2. CASE stateSnapshots # <<>>
  <2> DEFINE n == Len(stateSnapshots)
             Latest(i) == \A j \in DOMAIN stateSnapshots :
                            \/ stateSnapshots[j].ledger < stateSnapshots[i].ledger
                            \/ stateSnapshots[j].ledger = stateSnapshots[i].ledger /\ j <= i
  <2>1. DOMAIN stateSnapshots = 1 .. n /\ n \in Nat /\ n # 0
    BY <1>2 DEF DiffTypes
  <2>2. \A i \in DOMAIN stateSnapshots : stateSnapshots[i].ledger \in Nat
    BY DEF DiffTypes
  <2>3. \A i, j \in DOMAIN stateSnapshots : i <= j => stateSnapshots[i].ledger <= stateSnapshots[j].ledger
    BY DEF InTurn
  <2>4. Latest(n) /\ n \in DOMAIN stateSnapshots
    BY <2>1, <2>2, <2>3
  <2>5. ASSUME NEW i \in DOMAIN stateSnapshots, Latest(i)
        PROVE  i = n
    <3>1. \/ stateSnapshots[n].ledger < stateSnapshots[i].ledger
          \/ stateSnapshots[n].ledger = stateSnapshots[i].ledger /\ n <= i
      BY <2>4, <2>5
    <3>2. stateSnapshots[i].ledger <= stateSnapshots[n].ledger /\ i <= n
      BY <2>1, <2>3, <2>4
    <3>3. QED
      BY <2>1, <2>2, <2>4, <3>1, <3>2
  <2>6. getLatestSnapshot(stateSnapshots) = CHOOSE i \in DOMAIN stateSnapshots : Latest(i)
    BY <1>2 DEF getLatestSnapshot
  <2> HIDE DEF Latest
  <2>7. QED
    BY <2>4, <2>5, <2>6
<1>3. QED
  BY <1>1, <1>2

LEMMA DiffStarts ==
  ASSUME DiffInit
  PROVE  DiffInv
<1>1. PICK v \in Values : onChain = <<v>>
  BY DEF DiffInit
<1>2. /\ stateSnapshots = <<>> /\ stateChanges = <<>> /\ disturbed = FALSE
      /\ DOMAIN call = Observers /\ \A o \in Observers : call[o] = NoCall
  BY DEF DiffInit
<1>3. Len(stateSnapshots) = 0 /\ DOMAIN stateSnapshots = {} /\ Len(stateChanges) = 0
      /\ DOMAIN stateChanges = {}
  BY <1>2
<1>4. /\ onChain \in Seq(Values) /\ stateSnapshots \in Seq(Snapshots)
      /\ stateChanges \in Seq(Changes)
  BY <1>1, <1>2
<1>5. NoCall.at = "none"
  BY DEF NoCall
<1>6. DiffTypes
  BY <1>2, <1>3, <1>4 DEF DiffTypes
<1>7. InTurn
  BY <1>2, <1>3, <1>5 DEF InTurn
<1>8. QED
  BY <1>2, <1>3, <1>6, <1>7 DEF DiffInv, IsCall

(* What is there stays as it is when a snapshot is appended.               *)
LEMMA SnapshotsStay ==
  ASSUME NEW snaps \in Seq(Snapshots), NEW m \in Nat, NEW r \in Snapshots, NEW n \in Nat, m <= n
  PROVE  /\ Append(snaps, r) \in Seq(Snapshots)
         /\ Len(Append(snaps, r)) = Len(snaps) + 1 /\ Len(snaps) \in Nat
         /\ DOMAIN Append(snaps, r) = 1 .. Len(snaps) + 1
         /\ \A i \in 1 .. Len(snaps) : Append(snaps, r)[i] = snaps[i]
         /\ Append(snaps, r)[Len(snaps) + 1] = r
         /\ \A c : IsCall(c, snaps, m) => IsCall(c, snaps, n)
         /\ \A c : IsCall(c, snaps, m) => IsCall(c, Append(snaps, r), m)
         /\ \A ch : IsChange(ch, snaps) => IsChange(ch, Append(snaps, r))
<1> DEFINE t == Append(snaps, r)
<1>1. /\ t \in Seq(Snapshots) /\ Len(t) = Len(snaps) + 1 /\ Len(snaps) \in Nat
      /\ DOMAIN t = 1 .. Len(snaps) + 1
      /\ \A i \in 1 .. Len(snaps) : t[i] = snaps[i]
      /\ t[Len(snaps) + 1] = r
  OBVIOUS
<1> HIDE DEF t
<1>2. ASSUME NEW c, IsCall(c, snaps, m)
      PROVE  IsCall(c, snaps, n) /\ IsCall(c, t, m)
  <2>1. IsCall(c, snaps, n)
    BY <1>2 DEF IsCall
  <2>2. IsCall(c, t, m)
    BY <1>1, <1>2 DEF IsCall
  <2>3. QED
    BY <2>1, <2>2
<1>3. ASSUME NEW ch, IsChange(ch, snaps)
      PROVE  IsChange(ch, t)
  BY <1>1, <1>3 DEF IsChange
<1>4. QED
  BY <1>1, <1>2, <1>3 DEF t

LEMMA ChainKeeps ==
  ASSUME DiffInv, ChainChanges
  PROVE  DiffInv'
<1>1. PICK v \in Values : onChain' = Append(onChain, v)
  BY DEF ChainChanges
<1>2. /\ stateSnapshots' = stateSnapshots /\ stateChanges' = stateChanges /\ call' = call
      /\ disturbed' = disturbed
  BY DEF ChainChanges
<1>3. /\ onChain' \in Seq(Values) /\ Len(onChain') = Len(onChain) + 1 /\ Len(onChain) \in Nat
      /\ stateSnapshots \in Seq(Snapshots)
  BY <1>1 DEF DiffInv, DiffTypes
<1>4. DiffTypes'
  BY <1>2, <1>3 DEF DiffInv, DiffTypes
<1>5. ASSUME NEW o \in Observers
      PROVE  IsCall(call'[o], stateSnapshots', Len(onChain'))
  <2>1. PICK r : r \in Snapshots
    <3>1. [ledger |-> 0, value |-> v] \in Snapshots
      BY DEF Snapshots
    <3>2. QED
      BY <3>1
  <2>2. IsCall(call[o], stateSnapshots, Len(onChain))
    BY DEF DiffInv
  <2>3. Len(onChain) \in Nat /\ Len(onChain') \in Nat /\ Len(onChain) <= Len(onChain')
    BY <1>3
  <2>4. IsCall(call[o], stateSnapshots, Len(onChain'))
    BY <1>3, <2>1, <2>2, <2>3, SnapshotsStay
  <2>5. QED
    BY <1>2, <2>4
<1>6. ~disturbed' => InTurn'
  BY <1>2 DEF DiffInv, InTurn
<1>7. QED
  BY <1>2, <1>4, <1>5, <1>6 DEF DiffInv

(* A call begins: alone and not behind, it goes on from the last snapshot. *)
LEMMA LookUpKeeps ==
  ASSUME DiffInv, NEW o \in Observers, NEW l \in DOMAIN onChain, processStateDiff(o, l)
  PROVE  DiffInv'
<1> DEFINE old == getLatestSnapshot(stateSnapshots)
           kind == diffStateValues(old, onChain[l])
           new == [at |-> "snapshot", old |-> old, kind |-> kind, ledger |-> l, value |-> onChain[l]]
<1>1. /\ stateSnapshots' = stateSnapshots /\ stateChanges' = stateChanges /\ onChain' = onChain
      /\ call[o] = NoCall
      /\ call' = [call EXCEPT ![o] = IF kind = "none" THEN NoCall ELSE new]
      /\ disturbed' = (disturbed \/ (old # 0 /\ stateSnapshots[old].ledger > l)
                                 \/ \E p \in Observers : call[p] # NoCall)
  BY DEF processStateDiff
<1>2. old \in 0 .. Len(stateSnapshots) /\ (old = 0 <=> Len(stateSnapshots) = 0)
  BY LatestIsOne DEF DiffInv
<1>3. l \in 1 .. Len(onChain) /\ onChain[l] \in Values /\ Len(stateSnapshots) \in Nat
  BY DEF DiffInv, DiffTypes
<1>4. /\ kind \in {"none", "created", "updated"}
      /\ kind = "created" <=> old = 0
      /\ kind = "updated" => stateSnapshots[old].value # onChain[l]
  BY DEF diffStateValues
<1> HIDE DEF old, kind
<1>5. kind # "none" => /\ IsCall(new, stateSnapshots, Len(onChain))
                       /\ new.at = "snapshot" /\ new.old = old /\ new.ledger = l
  BY <1>2, <1>3, <1>4 DEF IsCall
<1> HIDE DEF new
<1>6. /\ DOMAIN call' = Observers /\ call'[o] \in {NoCall, new}
      /\ \A p \in Observers : p # o => call'[p] = call[p]
      /\ call'[o] # NoCall => kind # "none" /\ call'[o] = new
  BY <1>1 DEF DiffInv, DiffTypes
<1>7. \A p \in Observers : IsCall(call'[p], stateSnapshots, Len(onChain))
  <2>1. IsCall(NoCall, stateSnapshots, Len(onChain))
    BY DEF IsCall
  <2>2. QED
    BY <2>1, <1>5, <1>6 DEF DiffInv
<1>8. disturbed' \in BOOLEAN
  BY <1>1
<1>9. ASSUME ~disturbed'
      PROVE  InTurn'
  <2>1. /\ ~disturbed /\ \A p \in Observers : call[p] = NoCall
        /\ old = 0 \/ ~(stateSnapshots[old].ledger > l)
    BY <1>1, <1>9
  <2>2. InTurn
    BY <2>1 DEF DiffInv
  <2>3. old = Len(stateSnapshots)
    BY <2>2, LatestIsLast DEF DiffInv, old
  <2>4. Len(stateChanges) = Len(stateSnapshots)
    BY <2>1, <2>2 DEF InTurn
  <2>5. \A i \in DOMAIN stateSnapshots : stateSnapshots[i].ledger <= l
    <3>1. SUFFICES ASSUME NEW i \in DOMAIN stateSnapshots
                   PROVE  stateSnapshots[i].ledger <= l
      OBVIOUS
    <3>2. i \in 1 .. old /\ old \in DOMAIN stateSnapshots /\ old # 0
      BY <1>3, <2>3 DEF DiffInv, DiffTypes
    <3>3. stateSnapshots[i].ledger <= stateSnapshots[old].ledger
      BY <2>2, <3>2 DEF InTurn
    <3>4. stateSnapshots[i].ledger \in Nat /\ stateSnapshots[old].ledger \in Nat /\ l \in Nat
      BY <1>3, <3>2 DEF DiffInv, DiffTypes
    <3>5. QED
      BY <2>1, <3>2, <3>3, <3>4
  <2>6. NoCall.at = "none"
    BY DEF NoCall
  <2>7. \A p \in Observers : p # o => call'[p] = NoCall
    BY <1>6, <2>1
  <2>8. \A p \in Observers :
          /\ call'[p].at # "change"
          /\ call'[p].at = "snapshot" => call'[p].old = old /\ call'[p].ledger = l
    BY <1>5, <1>6, <2>6, <2>7
  <2>9. QED
    BY <1>1, <2>2, <2>3, <2>4, <2>5, <2>7, <2>8 DEF InTurn
<1>10. DiffTypes'
  BY <1>1, <1>6, <1>8 DEF DiffInv, DiffTypes
<1>11. QED
  BY <1>1, <1>7, <1>9, <1>10 DEF DiffInv

LEMMA InsertSnapshotKeeps ==
  ASSUME DiffInv, NEW o \in Observers, insertStateSnapshot(o)
  PROVE  DiffInv'
<1> DEFINE n == Len(stateSnapshots)
           r == [ledger |-> call[o].ledger, value |-> call[o].value]
           new == [at |-> "change", old |-> call[o].old, kind |-> call[o].kind, new |-> n + 1]
<1>1. /\ stateSnapshots' = Append(stateSnapshots, r)
      /\ call' = [call EXCEPT ![o] = new] /\ call[o].at = "snapshot"
      /\ onChain' = onChain /\ stateChanges' = stateChanges /\ disturbed' = disturbed
  BY DEF insertStateSnapshot
<1>2. IsCall(call[o], stateSnapshots, Len(onChain)) /\ NoCall.at = "none"
  BY DEF DiffInv, NoCall
<1>3. /\ call[o] \in [at : {"snapshot"}, old : 0 .. n, kind : {"created", "updated"},
                      ledger : 1 .. Len(onChain), value : Values]
      /\ call[o].kind = "created" <=> call[o].old = 0
      /\ call[o].kind = "updated" => stateSnapshots[call[o].old].value # call[o].value
  BY <1>1, <1>2 DEF IsCall
<1>4. /\ stateSnapshots \in Seq(Snapshots) /\ Len(onChain) \in Nat /\ n \in Nat
      /\ call[o].ledger \in 1 .. Len(onChain) /\ call[o].value \in Values
      /\ call[o].old \in 0 .. n /\ call[o].kind \in {"created", "updated"}
  BY <1>3 DEF DiffInv, DiffTypes
<1>5. r \in Snapshots /\ r.ledger = call[o].ledger /\ r.value = call[o].value
  BY <1>4 DEF Snapshots
<1> HIDE DEF r
<1>6. /\ stateSnapshots' \in Seq(Snapshots)
      /\ Len(stateSnapshots') = n + 1
      /\ DOMAIN stateSnapshots' = 1 .. n + 1
      /\ \A i \in 1 .. n : stateSnapshots'[i] = stateSnapshots[i]
      /\ stateSnapshots'[n + 1] = r
      /\ \A c : IsCall(c, stateSnapshots, Len(onChain)) => IsCall(c, stateSnapshots', Len(onChain))
      /\ \A ch : IsChange(ch, stateSnapshots) => IsChange(ch, stateSnapshots')
  <2>1. PICK m \in Nat : m = Len(onChain)
    BY <1>4
  <2>2. m <= m
    BY <2>1
  <2>3. QED
    BY <1>1, <1>4, <1>5, <2>1, <2>2, SnapshotsStay
<1>7. /\ new.at = "change" /\ new.old = call[o].old /\ new.new = n + 1
      /\ IsCall(new, stateSnapshots', Len(onChain))
  <2>1. new \in [at : {"change"}, old : 0 .. n + 1, kind : {"created", "updated"}, new : 1 .. n + 1]
    BY <1>4
  <2>2. new.kind = call[o].kind /\ new.old = call[o].old /\ new.new = n + 1 /\ new.at = "change"
    OBVIOUS
  <2> HIDE DEF new, n
  <2>3. new.kind = "updated" => call[o].old \in 1 .. n
    BY <1>3, <1>4, <2>2
  <2>4. new.kind = "updated" => stateSnapshots'[new.old].value # stateSnapshots'[new.new].value
    BY <1>3, <1>5, <1>6, <2>2, <2>3
  <2>5. QED
    BY <1>3, <1>6, <2>1, <2>2, <2>4 DEF IsCall
<1> HIDE DEF new
<1>8. /\ DOMAIN call' = Observers /\ call'[o] = new
      /\ \A p \in Observers : p # o => call'[p] = call[p]
  BY <1>1 DEF DiffInv, DiffTypes
<1>9. \A p \in Observers : IsCall(call'[p], stateSnapshots', Len(onChain))
  BY <1>6, <1>7, <1>8 DEF DiffInv
<1>10. \A i \in DOMAIN stateChanges : IsChange(stateChanges[i], stateSnapshots')
  BY <1>6 DEF DiffInv
<1>11. \A i \in DOMAIN stateSnapshots' : stateSnapshots'[i].ledger \in 1 .. Len(onChain)
  <2>1. \A i \in 1 .. n : stateSnapshots[i].ledger \in 1 .. Len(onChain)
    BY <1>4 DEF DiffInv, DiffTypes
  <2>2. \A i \in 1 .. n + 1 : i \in 1 .. n \/ i = n + 1
    BY <1>4
  <2> HIDE DEF n
  <2>3. QED
    BY <1>4, <1>5, <1>6, <2>1, <2>2
<1>12. DiffTypes'
  BY <1>1, <1>6, <1>8, <1>11 DEF DiffInv, DiffTypes
<1>13. ASSUME ~disturbed
       PROVE  InTurn'
  <2>1. InTurn
    BY <1>13 DEF DiffInv
  <2>2. call[o] # NoCall
    BY <1>1, <1>2
  <2>3. \A p \in Observers : p # o => call[p] = NoCall
    BY <2>1, <2>2 DEF InTurn
  <2>4. /\ Len(stateChanges) = n /\ call[o].old = n
        /\ \A i \in DOMAIN stateSnapshots : stateSnapshots[i].ledger <= call[o].ledger
    BY <1>1, <2>1 DEF InTurn
  <2>5. ASSUME NEW i \in 1 .. n + 1, NEW j \in 1 .. n + 1, i <= j
        PROVE  stateSnapshots'[i].ledger <= stateSnapshots'[j].ledger
    <3>1. DOMAIN stateSnapshots = 1 .. n
      BY <1>4
    <3>2. CASE j \in 1 .. n
      <4>1. n \in Nat /\ \A h \in 1 .. n : stateSnapshots'[h] = stateSnapshots[h]
        BY <1>4, <1>6
      <4>2. \A g, h \in DOMAIN stateSnapshots : g <= h => stateSnapshots[g].ledger <= stateSnapshots[h].ledger
        BY <2>1 DEF InTurn
      <4> HIDE DEF n
      <4>3. i \in 1 .. n
        BY <3>2, <2>5, <4>1
      <4>4. stateSnapshots[i].ledger <= stateSnapshots[j].ledger
        BY <2>5, <3>1, <3>2, <4>2, <4>3
      <4>5. QED
        BY <3>2, <4>1, <4>3, <4>4
    <3>3. CASE i \in 1 .. n /\ j = n + 1
      <4>1. stateSnapshots[i].ledger <= call[o].ledger
        BY <2>4, <3>1, <3>3
      <4>2. QED
        BY <1>5, <1>6, <3>3, <4>1
    <3>4. CASE i = n + 1 /\ j = n + 1
      BY <1>4, <1>5, <1>6, <3>4
    <3>5. QED
      BY <1>4, <2>5, <3>2, <3>3, <3>4
  <2>6. \A p \in Observers : call'[p] # NoCall => p = o
    BY <1>8, <2>3
  <2>7. call'[o] # NoCall
    BY <1>2, <1>7, <1>8
  <2> HIDE DEF n
  <2>8. \A p \in Observers :
          /\ call'[p].at # "snapshot"
          /\ call'[p].at = "change" => call'[p].old = n /\ call'[p].new = n + 1
    BY <1>2, <1>7, <1>8, <2>4, <2>6
  <2>9. QED
    BY <1>1, <1>6, <2>1, <2>4, <2>5, <2>6, <2>7, <2>8 DEF InTurn
<1>14. QED
  BY <1>1, <1>9, <1>10, <1>12, <1>13 DEF DiffInv

LEMMA InsertChangeKeeps ==
  ASSUME DiffInv, NEW o \in Observers, insertStateChange(o)
  PROVE  DiffInv'
<1> DEFINE ch == [old |-> call[o].old, new |-> call[o].new, kind |-> call[o].kind]
           k == Len(stateChanges)
<1>1. /\ stateChanges' = Append(stateChanges, ch)
      /\ call' = [call EXCEPT ![o] = NoCall] /\ call[o].at = "change"
      /\ onChain' = onChain /\ stateSnapshots' = stateSnapshots /\ disturbed' = disturbed
  BY DEF insertStateChange
<1>2. IsCall(call[o], stateSnapshots, Len(onChain)) /\ NoCall.at = "none"
  BY DEF DiffInv, NoCall
<1>3. /\ call[o] \in [at : {"change"}, old : 0 .. Len(stateSnapshots),
                      kind : {"created", "updated"}, new : 1 .. Len(stateSnapshots)]
      /\ call[o].kind = "created" <=> call[o].old = 0
      /\ call[o].kind = "updated" => stateSnapshots[call[o].old].value # stateSnapshots[call[o].new].value
  BY <1>1, <1>2 DEF IsCall
<1>4. stateChanges \in Seq(Changes) /\ k \in Nat /\ Len(stateSnapshots) \in Nat
  BY DEF DiffInv, DiffTypes
<1>5. /\ IsChange(ch, stateSnapshots) /\ ch \in Changes
      /\ ch.old = call[o].old /\ ch.new = call[o].new
  BY <1>3, <1>4 DEF IsChange, Changes
<1> HIDE DEF ch
<1>6. /\ stateChanges' \in Seq(Changes) /\ DOMAIN stateChanges' = 1 .. k + 1
      /\ Len(stateChanges') = k + 1
      /\ \A i \in 1 .. k : stateChanges'[i] = stateChanges[i]
      /\ stateChanges'[k + 1] = ch
  BY <1>1, <1>4, <1>5
<1>7. /\ DOMAIN call' = Observers /\ call'[o] = NoCall
      /\ \A p \in Observers : p # o => call'[p] = call[p]
  BY <1>1 DEF DiffInv, DiffTypes
<1>8. DOMAIN stateChanges = 1 .. k
  BY <1>4
<1>9. \A i \in 1 .. k + 1 : i \in 1 .. k \/ i = k + 1
  BY <1>4
<1> HIDE DEF k
<1>10. \A i \in DOMAIN stateChanges' : IsChange(stateChanges'[i], stateSnapshots)
  BY <1>5, <1>6, <1>8, <1>9 DEF DiffInv
<1>11. \A p \in Observers : IsCall(call'[p], stateSnapshots, Len(onChain))
  BY <1>7 DEF DiffInv, IsCall
<1>12. DiffTypes'
  BY <1>1, <1>6, <1>7 DEF DiffInv, DiffTypes
<1>13. ASSUME ~disturbed
       PROVE  InTurn'
  <2>1. InTurn
    BY <1>13 DEF DiffInv
  <2>2. call[o] # NoCall
    BY <1>1, <1>2
  <2>3. \A p \in Observers : call'[p] = NoCall
    BY <1>7, <2>1, <2>2 DEF InTurn
  <2>4. Len(stateSnapshots) = k + 1 /\ ch.old = k /\ ch.new = k + 1
    BY <1>1, <1>5, <2>1 DEF InTurn, k
  <2>5. \A i \in 1 .. k : stateChanges[i].old = i - 1 /\ stateChanges[i].new = i
    BY <1>8, <2>1 DEF InTurn
  <2>6. \A i \in 1 .. k + 1 : stateChanges'[i].old = i - 1 /\ stateChanges'[i].new = i
    <3>1. SUFFICES ASSUME NEW i \in 1 .. k + 1
                   PROVE  stateChanges'[i].old = i - 1 /\ stateChanges'[i].new = i
      OBVIOUS
    <3>2. CASE i \in 1 .. k
      BY <1>6, <2>5, <3>2
    <3>3. CASE i = k + 1
      <4>1. stateChanges'[i].old = k /\ stateChanges'[i].new = k + 1
        BY <1>6, <2>4, <3>3
      <4>2. k = i - 1 /\ k + 1 = i
        BY <1>4, <3>3
      <4>3. QED
        BY <4>1, <4>2
    <3>4. QED
      BY <1>9, <3>2, <3>3
  <2>7. QED
    BY <1>1, <1>2, <1>6, <2>1, <2>3, <2>4, <2>6 DEF InTurn
<1>14. QED
  BY <1>1, <1>10, <1>11, <1>12, <1>13 DEF DiffInv

LEMMA DyingKeeps ==
  ASSUME DiffInv, NEW o \in Observers, ObserverDies(o)
  PROVE  DiffInv'
<1>1. /\ call' = [call EXCEPT ![o] = NoCall] /\ disturbed' = TRUE
      /\ onChain' = onChain /\ stateSnapshots' = stateSnapshots /\ stateChanges' = stateChanges
  BY DEF ObserverDies
<1>2. DOMAIN call' = Observers /\ \A p \in Observers : call'[p] = call[p] \/ call'[p] = NoCall
  BY <1>1 DEF DiffInv, DiffTypes
<1>3. \A p \in Observers : IsCall(call'[p], stateSnapshots, Len(onChain))
  BY <1>2 DEF DiffInv, IsCall
<1>4. DiffTypes'
  BY <1>1, <1>2 DEF DiffInv, DiffTypes
<1>5. QED
  BY <1>1, <1>3, <1>4 DEF DiffInv

LEMMA DiffInvConnects ==
  ASSUME DiffInv
  PROVE  HistoryConnects
<1>1. ASSUME NEW i \in DOMAIN stateChanges, stateChanges[i].kind = "updated"
      PROVE  stateSnapshots[stateChanges[i].old].value # stateSnapshots[stateChanges[i].new].value
  BY <1>1 DEF DiffInv, IsChange
<1>2. ASSUME ~disturbed
      PROVE  /\ \A i \in DOMAIN stateChanges :
                  stateChanges[i].old = (IF i = 1 THEN 0 ELSE stateChanges[i - 1].new)
             /\ \A i \in DOMAIN stateChanges : (stateChanges[i].kind = "created") = (i = 1)
             /\ (\A o \in Observers : call[o] = NoCall) =>
                  Len(stateChanges) = getLatestSnapshot(stateSnapshots)
  <2>1. InTurn
    BY <1>2 DEF DiffInv
  <2>2. \A i \in DOMAIN stateChanges : stateChanges[i].old = i - 1 /\ stateChanges[i].new = i
    BY <2>1 DEF InTurn
  <2>3. DOMAIN stateChanges = 1 .. Len(stateChanges) /\ Len(stateChanges) \in Nat
    BY DEF DiffInv, DiffTypes
  <2>4. \A i \in DOMAIN stateChanges :
          stateChanges[i].old = (IF i = 1 THEN 0 ELSE stateChanges[i - 1].new)
    BY <2>2, <2>3
  <2>5. \A i \in DOMAIN stateChanges : stateChanges[i].kind = "created" <=> i = 1
    BY <2>2, <2>3 DEF DiffInv, IsChange
  <2>6. \A i \in DOMAIN stateChanges : (stateChanges[i].kind = "created") = (i = 1)
    BY <2>5
  <2>7. (\A o \in Observers : call[o] = NoCall) =>
           Len(stateChanges) = getLatestSnapshot(stateSnapshots)
    BY <2>1, LatestIsLast DEF DiffInv, InTurn
  <2>8. QED
    BY <2>4, <2>6, <2>7
<1>3. QED
  BY <1>1, <1>2 DEF HistoryConnects

(* The history of an entry reads as one story, unless an observation was   *)
(* stale, two calls overlapped or a process died between the statements    *)
(* (core/state_diff.ts).                                                   *)
THEOREM HistoryAlwaysConnects == DiffSpec => []HistoryConnects
<1>1. DiffInit => DiffInv
  BY DiffStarts
<1>2. DiffInv /\ [DiffNext]_diffVars => DiffInv'
  <2>1. SUFFICES ASSUME DiffInv, [DiffNext]_diffVars
                 PROVE  DiffInv'
    OBVIOUS
  <2>2. CASE UNCHANGED diffVars
    BY <2>1, <2>2 DEF diffVars, DiffInv, DiffTypes, InTurn
  <2>3. CASE ChainChanges
    BY <2>1, <2>3, ChainKeeps
  <2>4. ASSUME NEW o \in Observers, NEW l \in DOMAIN onChain, processStateDiff(o, l)
        PROVE  DiffInv'
    BY <2>1, <2>4, LookUpKeeps
  <2>5. ASSUME NEW o \in Observers, insertStateSnapshot(o) \/ insertStateChange(o) \/ ObserverDies(o)
        PROVE  DiffInv'
    BY <2>1, <2>5, InsertSnapshotKeeps, InsertChangeKeeps, DyingKeeps
  <2>6. QED
    BY <2>1, <2>2, <2>3, <2>4, <2>5 DEF DiffNext
<1>3. DiffInv => HistoryConnects
  BY DiffInvConnects
<1>4. QED
  BY <1>1, <1>2, <1>3, PTL DEF DiffSpec

-----------------------------------------------------------------------------
(* Incidents *)

(* SetToSeq lists the elements of a finite set. *)
LEMMA SetToSeqLists ==
  ASSUME NEW S, IsFiniteSet(S)
  PROVE  SetToSeq(S) \in Seq(S)
<1>1. Cardinality(S) \in Nat /\ ExistsBijection(1 .. Cardinality(S), S)
  BY FS_CardinalityType
<1>2. PICK f \in [1 .. Cardinality(S) -> S] : IsInjective(f)
  <2>1. PICK g \in Bijection(1 .. Cardinality(S), S) : TRUE
    BY <1>1 DEF ExistsBijection
  <2>2. g \in [1 .. Cardinality(S) -> S] /\ IsInjective(g)
    BY <2>1 DEF Bijection, Injection, IsInjective
  <2>3. QED
    BY <2>2
<1>3. SetToSeq(S) \in [1 .. Cardinality(S) -> S]
  BY <1>2 DEF SetToSeq
<1>4. QED
  BY <1>1, <1>3

IncidentRow == [config : AlertIds, resolved : BOOLEAN, delivered : BOOLEAN, tries : Nat]

IncidentTypeOK ==
  /\ enabledAlerts \subseteq AlertIds
  /\ rows \in Seq(IncidentRow)
  /\ notices \subseteq DOMAIN rows
  /\ mixedUp \in BOOLEAN

(* An incident has an unresolved row behind it, or a notice on its way.    *)
IncidentsAccountedFor ==
  \A key \in openIncidents \ {TestKey(c) : c \in Tested} :
    \/ \E i \in DOMAIN rows : ~rows[i].resolved /\ Key(rows[i].config) = key
    \/ \E n \in notices : Key(rows[n].config) = key

(* A row that was delivered and is not resolved came after every notice of *)
(* its own configuration has gone.                                         *)
NoticesBeforeDelivery ==
  \A i \in DOMAIN rows : rows[i].delivered /\ ~rows[i].resolved =>
    \A n \in notices : rows[n].config # rows[i].config

SharesKey(c) ==
  \E d \in AlertIds \ {c} : <<Service[d], Threshold[d]>> = <<Service[c], Threshold[c]>>

DeliveredIsOpen ==
  \A i \in DOMAIN rows : rows[i].delivered /\ ~rows[i].resolved /\ ~SharesKey(rows[i].config) =>
    Key(rows[i].config) \in openIncidents

IncidentInv ==
  /\ IncidentTypeOK
  /\ ~mixedUp => IncidentsAccountedFor /\ NoticesBeforeDelivery /\ DeliveredIsOpen

LEMMA KeyIsServiceAndThreshold ==
  ASSUME NEW c
  PROVE  Key(c) = <<Service[c], Threshold[c]>>
  BY DEF Key, Alias, DedupKey

(* What checkContract leaves in alerts_fired: the rows it found, resolved  *)
(* or not, and after them new ones, not yet delivered.                     *)
CheckResolves(ttl) ==
  {i \in DOMAIN rows : /\ rows[i].config \in enabledAlerts /\ ~rows[i].resolved
                       /\ ttl >= Threshold[rows[i].config]}

LEMMA CheckRows ==
  ASSUME NEW ttl, IncidentTypeOK, CheckIncidents(ttl)
  PROVE  /\ rows' \in Seq(IncidentRow)
         /\ notices' = notices \cup CheckResolves(ttl)
         /\ DOMAIN rows \subseteq DOMAIN rows'
         /\ \A i \in DOMAIN rows : /\ rows'[i].config = rows[i].config
                                   /\ rows'[i].delivered = rows[i].delivered
                                   /\ rows'[i].resolved = (rows[i].resolved \/ i \in CheckResolves(ttl))
         /\ \A i \in DOMAIN rows' \ DOMAIN rows : ~rows'[i].delivered
         /\ UNCHANGED <<enabledAlerts, openIncidents, mixedUp>>
<1> DEFINE fires == {c \in enabledAlerts : ttl < Threshold[c] /\ Unresolved(c) = {}}
           fresh(c) == [config |-> c, resolved |-> FALSE, delivered |-> FALSE, tries |-> 0]
           S == {fresh(c) : c \in fires}
           new == SetToSeq(S)
           old == [i \in DOMAIN rows |-> [rows[i] EXCEPT !.resolved = @ \/ i \in CheckResolves(ttl)]]
<1>1. rows' = old \o new /\ notices' = notices \cup CheckResolves(ttl)
      /\ UNCHANGED <<enabledAlerts, openIncidents, mixedUp>>
  BY DEF CheckIncidents, CheckResolves
<1>2. IsFiniteSet(S)
  <2>1. fires \subseteq AlertIds
    BY DEF IncidentTypeOK
  <2>2. IsFiniteSet(fires)
    BY <2>1, IncidentAssumption, FS_Subset
  <2>3. PICK f : f = [c \in fires |-> fresh(c)]
    OBVIOUS
  <2>4. f \in Surjection(fires, S)
    BY <2>3 DEF Surjection
  <2> HIDE DEF fires, S
  <2>5. QED
    BY <2>2, <2>4, FS_Surjection
<1>3. new \in Seq(S)
  <2> HIDE DEF S
  <2>1. QED
    BY <1>2, SetToSeqLists
<1>4. S \subseteq IncidentRow /\ \A r \in S : ~r.delivered
  <2>1. fires \subseteq AlertIds
    BY DEF IncidentTypeOK
  <2>2. \A c \in AlertIds : fresh(c) \in IncidentRow /\ ~fresh(c).delivered
    BY DEF IncidentRow
  <2> HIDE DEF fires, fresh
  <2>3. QED
    BY <2>1, <2>2
<1>5. \A i \in DOMAIN rows : rows[i] \in IncidentRow
  BY DEF IncidentTypeOK
<1>6. \A i \in DOMAIN rows : /\ old[i] \in IncidentRow
                             /\ old[i].config = rows[i].config
                             /\ old[i].delivered = rows[i].delivered
                             /\ old[i].resolved = (rows[i].resolved \/ i \in CheckResolves(ttl))
  BY <1>5 DEF IncidentRow
<1>7. old \in Seq(IncidentRow) /\ Len(old) = Len(rows) /\ DOMAIN rows = 1 .. Len(rows)
      /\ Len(rows) \in Nat
  <2>1. DOMAIN rows = 1 .. Len(rows) /\ Len(rows) \in Nat
    BY DEF IncidentTypeOK
  <2>2. old \in [1 .. Len(rows) -> IncidentRow]
    <3>1. \A i \in 1 .. Len(rows) : old[i] \in IncidentRow
      BY <1>6, <2>1
    <3>2. old = [i \in 1 .. Len(rows) |-> old[i]]
      BY <2>1
    <3> HIDE DEF old
    <3>3. QED
      BY <3>1, <3>2
  <2> HIDE DEF old
  <2>3. QED
    BY <2>1, <2>2
<1> HIDE DEF old, new, S
<1>8. new \in Seq(IncidentRow) /\ \A j \in 1 .. Len(new) : ~new[j].delivered
  BY <1>3, <1>4
<1>9. rows' \in Seq(IncidentRow) /\ Len(rows') = Len(rows) + Len(new) /\ Len(new) \in Nat
  BY <1>1, <1>7, <1>8
<1>10. \A i \in DOMAIN rows : rows'[i] = old[i]
  BY <1>1, <1>7, <1>8
<1>11. \A i \in DOMAIN rows' \ DOMAIN rows : rows'[i] = new[i - Len(rows)] /\ i - Len(rows) \in 1 .. Len(new)
  BY <1>1, <1>7, <1>8, <1>9
<1>12. DOMAIN rows \subseteq DOMAIN rows'
  BY <1>7, <1>9
<1>13. \A i \in DOMAIN rows' \ DOMAIN rows : ~rows'[i].delivered
  BY <1>8, <1>11
<1>14. QED
  BY <1>1, <1>6, <1>9, <1>10, <1>12, <1>13

LEMMA CheckKeepsIncidents ==
  ASSUME NEW ttl, IncidentInv, CheckIncidents(ttl)
  PROVE  IncidentInv'
<1> USE DEF IncidentInv
<1> DEFINE done == CheckResolves(ttl)
<1>1. /\ rows' \in Seq(IncidentRow)
      /\ notices' = notices \cup done
      /\ DOMAIN rows \subseteq DOMAIN rows'
      /\ \A i \in DOMAIN rows : /\ rows'[i].config = rows[i].config
                                /\ rows'[i].delivered = rows[i].delivered
                                /\ rows'[i].resolved = (rows[i].resolved \/ i \in done)
      /\ \A i \in DOMAIN rows' \ DOMAIN rows : ~rows'[i].delivered
      /\ UNCHANGED <<enabledAlerts, openIncidents, mixedUp>>
  BY CheckRows
<1>2. done \subseteq DOMAIN rows /\ notices \subseteq DOMAIN rows
  BY DEF CheckResolves, IncidentTypeOK
<1>3. IncidentTypeOK'
  BY <1>1, <1>2 DEF IncidentTypeOK
<1>4. SUFFICES ASSUME ~mixedUp
               PROVE  IncidentsAccountedFor' /\ NoticesBeforeDelivery' /\ DeliveredIsOpen'
  BY <1>1, <1>3
<1>5. IncidentsAccountedFor'
  <2> SUFFICES ASSUME NEW key \in openIncidents, key \notin {TestKey(c) : c \in Tested}
               PROVE  \/ \E i \in DOMAIN rows' : ~rows'[i].resolved /\ Key(rows'[i].config) = key
                      \/ \E n \in notices' : Key(rows'[n].config) = key
    BY <1>1 DEF IncidentsAccountedFor
  <2>1. CASE \E i \in DOMAIN rows : ~rows[i].resolved /\ Key(rows[i].config) = key
    <3>1. PICK i \in DOMAIN rows : ~rows[i].resolved /\ Key(rows[i].config) = key
      BY <2>1
    <3>2. i \in DOMAIN rows' /\ Key(rows'[i].config) = key
      BY <1>1, <3>1
    <3>3. i \in done => i \in notices'
      BY <1>1
    <3>4. i \notin done => ~rows'[i].resolved
      BY <1>1, <3>1
    <3>5. QED
      BY <3>2, <3>3, <3>4
  <2>2. CASE \E n \in notices : Key(rows[n].config) = key
    <3>1. PICK n \in notices : Key(rows[n].config) = key
      BY <2>2
    <3>2. n \in notices' /\ rows'[n].config = rows[n].config
      BY <1>1, <1>2
    <3>3. QED
      BY <3>1, <3>2
  <2>3. QED
    BY <1>4, <2>1, <2>2 DEF IncidentsAccountedFor
<1>6. ASSUME NEW i \in DOMAIN rows', rows'[i].delivered, ~rows'[i].resolved
      PROVE  i \in DOMAIN rows /\ rows[i].delivered /\ ~rows[i].resolved /\ i \notin done
             /\ rows'[i].config = rows[i].config
  BY <1>1, <1>6
<1>7. NoticesBeforeDelivery'
  <2> SUFFICES ASSUME NEW i \in DOMAIN rows', rows'[i].delivered, ~rows'[i].resolved,
                      NEW n \in notices', rows'[n].config = rows'[i].config
               PROVE  FALSE
    BY DEF NoticesBeforeDelivery
  <2>1. i \in DOMAIN rows /\ rows[i].delivered /\ ~rows[i].resolved /\ i \notin done
        /\ rows'[i].config = rows[i].config
    BY <1>6
  <2>2. n \in DOMAIN rows /\ rows'[n].config = rows[n].config
    BY <1>1, <1>2
  <2>3. CASE n \in notices
    BY <1>4, <2>1, <2>2, <2>3 DEF NoticesBeforeDelivery
  <2>4. CASE n \in done
    BY <2>1, <2>2, <2>4 DEF CheckResolves
  <2>5. QED
    BY <1>1, <2>3, <2>4
<1>8. DeliveredIsOpen'
  BY <1>1, <1>4, <1>6 DEF DeliveredIsOpen, SharesKey
<1>9. QED
  BY <1>5, <1>7, <1>8

LEMMA TriggerKeepsIncidents ==
  ASSUME NEW i \in DOMAIN rows, IncidentInv, Trigger(i)
  PROVE  IncidentInv'
<1> USE DEF IncidentInv
<1> DEFINE key == Key(rows[i].config)
<1>1. PICK arrives \in BOOLEAN, answered \in BOOLEAN :
        /\ answered => arrives
        /\ openIncidents' = IF arrives THEN openIncidents \cup {key} ELSE openIncidents
        /\ rows' = IF answered THEN [rows EXCEPT ![i].delivered = TRUE]
                               ELSE [rows EXCEPT ![i].tries = @ + 1]
        /\ mixedUp' = (mixedUp \/ (arrives /\ (\/ rows[i].resolved
                                              \/ \E n \in notices : Key(rows[n].config) = key)))
        /\ UNCHANGED <<enabledAlerts, notices>>
  BY DEF Trigger
<1>2. \A j \in DOMAIN rows : rows[j] \in IncidentRow
  BY DEF IncidentTypeOK
<1>3. /\ DOMAIN rows' = DOMAIN rows
      /\ \A j \in DOMAIN rows : /\ rows'[j] \in IncidentRow
                                /\ rows'[j].config = rows[j].config
                                /\ rows'[j].resolved = rows[j].resolved
                                /\ rows'[j].delivered = (rows[j].delivered \/ (j = i /\ answered))
  <2>1. CASE answered
    BY <1>1, <1>2, <2>1 DEF IncidentRow
  <2>2. CASE ~answered
    BY <1>1, <1>2, <2>2 DEF IncidentRow
  <2>3. QED
    BY <2>1, <2>2
<1>4. IncidentTypeOK'
  <2>1. rows' \in Seq(IncidentRow)
    <3>1. DOMAIN rows = 1 .. Len(rows) /\ Len(rows) \in Nat
      BY DEF IncidentTypeOK
    <3>2. rows' = [j \in DOMAIN rows |-> rows'[j]]
      BY <1>1
    <3>3. rows' \in [1 .. Len(rows) -> IncidentRow]
      BY <1>3, <3>1, <3>2
    <3>4. QED
      BY <3>1, <3>3
  <2>2. mixedUp' \in BOOLEAN
    BY <1>1 DEF IncidentTypeOK
  <2>3. QED
    BY <1>1, <1>3, <2>1, <2>2 DEF IncidentTypeOK
<1>5. SUFFICES ASSUME ~mixedUp'
               PROVE  IncidentsAccountedFor' /\ NoticesBeforeDelivery' /\ DeliveredIsOpen'
  BY <1>4
<1>6. ~mixedUp /\ (arrives => ~rows[i].resolved /\ \A n \in notices : Key(rows[n].config) # key)
  BY <1>1, <1>5
<1>7. notices \subseteq DOMAIN rows /\ notices' = notices
  BY <1>1 DEF IncidentTypeOK
<1> HIDE DEF key
<1>8. IncidentsAccountedFor'
  <2> SUFFICES ASSUME NEW k \in openIncidents', k \notin {TestKey(c) : c \in Tested}
               PROVE  \/ \E j \in DOMAIN rows' : ~rows'[j].resolved /\ Key(rows'[j].config) = k
                      \/ \E n \in notices' : Key(rows'[n].config) = k
    BY DEF IncidentsAccountedFor
  <2>1. CASE k \in openIncidents
    <3>1. \/ \E j \in DOMAIN rows : ~rows[j].resolved /\ Key(rows[j].config) = k
          \/ \E n \in notices : Key(rows[n].config) = k
      BY <1>6, <2>1 DEF IncidentsAccountedFor
    <3>2. QED
      BY <1>3, <1>7, <3>1
  <2>2. CASE k = key /\ arrives
    <3>1. Key(rows'[i].config) = k /\ ~rows'[i].resolved
      BY <1>3, <1>6, <2>2 DEF key
    <3>2. QED
      BY <1>3, <3>1
  <2>3. QED
    BY <1>1, <2>1, <2>2
<1>9. NoticesBeforeDelivery'
  <2> SUFFICES ASSUME NEW j \in DOMAIN rows', rows'[j].delivered, ~rows'[j].resolved,
                      NEW n \in notices', rows'[n].config = rows'[j].config
               PROVE  FALSE
    BY DEF NoticesBeforeDelivery
  <2>1. n \in notices /\ rows[n].config = rows[j].config /\ ~rows[j].resolved /\ j \in DOMAIN rows
    BY <1>3, <1>7
  <2>2. CASE rows[j].delivered
    BY <1>6, <2>1, <2>2 DEF NoticesBeforeDelivery
  <2>3. CASE j = i /\ answered
    BY <1>1, <1>6, <2>1, <2>3 DEF key
  <2>4. QED
    BY <1>3, <2>1, <2>2, <2>3
<1>10. DeliveredIsOpen'
  <2> SUFFICES ASSUME NEW j \in DOMAIN rows', rows'[j].delivered, ~rows'[j].resolved,
                      ~SharesKey(rows'[j].config)
               PROVE  Key(rows'[j].config) \in openIncidents'
    BY DEF DeliveredIsOpen, SharesKey
  <2>1. CASE rows[j].delivered
    <3>1. Key(rows[j].config) \in openIncidents
      BY <1>3, <1>6, <2>1 DEF DeliveredIsOpen
    <3>2. QED
      BY <1>1, <1>3, <3>1
  <2>2. CASE j = i /\ answered
    <3>1. key \in openIncidents'
      BY <1>1, <2>2
    <3>2. Key(rows'[j].config) = key
      BY <1>3, <2>2 DEF key
    <3>3. QED
      BY <3>1, <3>2
  <2>3. QED
    BY <1>3, <2>1, <2>2
<1>11. QED
  BY <1>8, <1>9, <1>10

LEMMA NoticeKeepsIncidents ==
  ASSUME NEW i \in notices, IncidentInv, NoticeArrives(i)
  PROVE  IncidentInv'
<1> USE DEF IncidentInv
<1>1. /\ openIncidents' = openIncidents \ {Key(rows[i].config)}
      /\ notices' = notices \ {i} /\ rows' = rows /\ enabledAlerts' = enabledAlerts
      /\ mixedUp' = mixedUp
  BY DEF NoticeArrives
<1>2. IncidentTypeOK'
  BY <1>1 DEF IncidentTypeOK
<1>3. SUFFICES ASSUME ~mixedUp
               PROVE  IncidentsAccountedFor' /\ NoticesBeforeDelivery' /\ DeliveredIsOpen'
  BY <1>1, <1>2
<1>4. IncidentsAccountedFor'
  BY <1>1, <1>3 DEF IncidentsAccountedFor
<1>5. NoticesBeforeDelivery'
  BY <1>1, <1>3 DEF NoticesBeforeDelivery
<1>6. DeliveredIsOpen'
  <2> SUFFICES ASSUME NEW j \in DOMAIN rows, rows[j].delivered, ~rows[j].resolved,
                      ~SharesKey(rows[j].config)
               PROVE  Key(rows[j].config) \in openIncidents'
    BY <1>1 DEF DeliveredIsOpen, SharesKey
  <2>1. Key(rows[j].config) \in openIncidents
    BY <1>3 DEF DeliveredIsOpen
  <2>2. rows[i].config # rows[j].config
    BY <1>3 DEF NoticesBeforeDelivery
  <2>3. rows[i].config \in AlertIds
    <3>1. i \in DOMAIN rows /\ rows \in Seq(IncidentRow)
      BY DEF IncidentTypeOK
    <3>2. rows[i] \in IncidentRow
      BY <3>1
    <3>3. QED
      BY <3>2 DEF IncidentRow
  <2>4. Key(rows[i].config) # Key(rows[j].config)
    BY <2>2, <2>3, KeyIsServiceAndThreshold DEF SharesKey
  <2>5. QED
    BY <1>1, <2>1, <2>4
<1>7. QED
  BY <1>4, <1>5, <1>6

(* Incidents follow alerts for any configurations, whatever service each   *)
(* uses and whichever of them share a threshold.                           *)
THEOREM IncidentsFollow == IncidentSpec => []IncidentsFollowAlerts
<1>1. IncidentInit => IncidentInv
  <2> SUFFICES ASSUME IncidentInit
               PROVE  IncidentInv
    OBVIOUS
  <2>1. rows = <<>> /\ DOMAIN rows = {} /\ notices = {} /\ openIncidents = {}
    BY DEF IncidentInit
  <2>2. IncidentTypeOK
    <3>1. rows \in Seq(IncidentRow)
      BY <2>1
    <3>2. enabledAlerts \subseteq AlertIds /\ mixedUp \in BOOLEAN
      BY DEF IncidentInit
    <3>3. notices \subseteq DOMAIN rows
      BY <2>1
    <3>4. QED
      BY <3>1, <3>2, <3>3 DEF IncidentTypeOK
  <2>3. IncidentsAccountedFor /\ NoticesBeforeDelivery /\ DeliveredIsOpen
    BY <2>1 DEF IncidentsAccountedFor, NoticesBeforeDelivery, DeliveredIsOpen
  <2>4. QED
    BY <2>2, <2>3 DEF IncidentInv
<1>2. IncidentInv /\ [IncidentNext]_incidentVars => IncidentInv'
  <2> SUFFICES ASSUME IncidentInv, [IncidentNext]_incidentVars
               PROVE  IncidentInv'
    OBVIOUS
  <2>1. ASSUME NEW i \in notices, NoticeFails(i)
        PROVE  IncidentInv'
    BY <2>1 DEF NoticeFails, IncidentInv, IncidentTypeOK
  <2>2. ASSUME NEW c \in AlertIds, SwitchAlert(c)
        PROVE  IncidentInv'
    BY <2>2 DEF SwitchAlert, IncidentInv, IncidentTypeOK, IncidentsAccountedFor, NoticesBeforeDelivery,
         DeliveredIsOpen
  <2>3. ASSUME NEW c \in Tested, TestAlert(c)
        PROVE  IncidentInv'
    <3>1. openIncidents' = openIncidents \cup {TestKey(c)}
          /\ UNCHANGED <<enabledAlerts, rows, notices, mixedUp>>
      BY <2>3 DEF TestAlert
    <3>2. IncidentTypeOK'
      BY <3>1 DEF IncidentInv, IncidentTypeOK
    <3>3. ~mixedUp => IncidentsAccountedFor'
      BY <3>1 DEF IncidentInv, IncidentsAccountedFor
    <3>4. ~mixedUp => NoticesBeforeDelivery' /\ DeliveredIsOpen'
      BY <3>1 DEF IncidentInv, NoticesBeforeDelivery, DeliveredIsOpen
    <3>5. QED
      BY <3>1, <3>2, <3>3, <3>4 DEF IncidentInv
  <2>4. CASE UNCHANGED incidentVars
    BY <2>4 DEF incidentVars, IncidentInv, IncidentTypeOK, IncidentsAccountedFor, NoticesBeforeDelivery,
         DeliveredIsOpen
  <2>5. QED
    BY <2>1, <2>2, <2>3, <2>4, CheckKeepsIncidents, TriggerKeepsIncidents, NoticeKeepsIncidents
       DEF IncidentNext
<1>3. IncidentInv => IncidentsFollowAlerts
  <2> SUFFICES ASSUME IncidentInv, ~mixedUp
               PROVE  IncidentsFollowAlerts
    BY DEF IncidentsFollowAlerts
  <2>1. IncidentsAccountedFor /\ DeliveredIsOpen
    BY DEF IncidentInv
  <2>2. notices = {} =>
          \A key \in openIncidents \ {TestKey(c) : c \in Tested} : \E i \in DOMAIN rows :
            ~rows[i].resolved /\ Key(rows[i].config) = key
    BY <2>1 DEF IncidentsAccountedFor
  <2>3. \A i \in DOMAIN rows :
          /\ rows[i].delivered /\ ~rows[i].resolved
          /\ \A c \in AlertIds \ {rows[i].config} :
               <<Service[c], Threshold[c]>> # <<Service[rows[i].config], Threshold[rows[i].config]>>
          => Key(rows[i].config) \in openIncidents
    BY <2>1 DEF DeliveredIsOpen, SharesKey
  <2>4. QED
    BY <2>2, <2>3 DEF IncidentsFollowAlerts
<1>4. QED
  BY <1>1, <1>2, <1>3, PTL DEF IncidentSpec

-----------------------------------------------------------------------------
(* HealthReports *)

HealthInv ==
  /\ latestLedger \in Nat \ {0}
  /\ DOMAIN onChainLive = Monitored /\ DOMAIN live_until = Monitored
  /\ \A c \in Monitored : /\ DOMAIN onChainLive[c] = Keys[c] /\ DOMAIN live_until[c] = Keys[c]
                          /\ \A k \in Keys[c] : onChainLive[c][k] \in Nat /\ live_until[c][k] \in Nat
  /\ DOMAIN last_checked = Monitored
  /\ \A c \in Monitored : last_checked[c] = Never \/ last_checked[c] \in 0 .. latestLedger
  /\ activeContracts \subseteq Monitored

LEMMA HealthStarts ==
  ASSUME HealthInit
  PROVE  HealthInv
  BY HealthAssumption DEF HealthInit, HealthInv, Never

LEMMA HealthStepInv ==
  ASSUME HealthInv, [HealthNext]_healthVars
  PROVE  HealthInv'
<1>1. CASE CloseLedger
  BY <1>1 DEF CloseLedger, HealthInv
<1>2. ASSUME NEW c \in Monitored, CheckHealth(c)
      PROVE  HealthInv'
  <2>1. PICK l \in {latestLedger - 1, latestLedger} :
          /\ last_checked' = [last_checked EXCEPT ![c] = l]
          /\ live_until' = [live_until EXCEPT ![c] = [k \in Keys[c] |->
               IF onChainLive[c][k] >= l THEN onChainLive[c][k] ELSE @[k]]]
    BY <1>2 DEF CheckHealth
  <2>2. UNCHANGED <<latestLedger, onChainLive, activeContracts>>
    BY <1>2 DEF CheckHealth
  <2>3. l \in 0 .. latestLedger
    BY DEF HealthInv
  <2>4. /\ DOMAIN live_until' = Monitored /\ DOMAIN live_until'[c] = Keys[c]
        /\ \A k \in Keys[c] : live_until'[c][k] \in Nat
        /\ \A d \in Monitored \ {c} : live_until'[d] = live_until[d]
    BY <2>1 DEF HealthInv
  <2>5. /\ DOMAIN last_checked' = Monitored /\ last_checked'[c] = l
        /\ \A d \in Monitored \ {c} : last_checked'[d] = last_checked[d]
    BY <2>1 DEF HealthInv
  <2>6. QED
    BY <2>2, <2>3, <2>4, <2>5 DEF HealthInv
<1>3. ASSUME NEW c \in Monitored, SwitchContract(c)
      PROVE  HealthInv'
  BY <1>3 DEF SwitchContract, HealthInv
<1>4. ASSUME NEW c \in Monitored, NEW k \in Keys[c], ExtendOnChain(c, k)
      PROVE  HealthInv'
  <2>1. PICK n \in Extensions : onChainLive' = [onChainLive EXCEPT ![c][k] = latestLedger + n]
    BY <1>4 DEF ExtendOnChain
  <2>2. latestLedger + n \in Nat
    BY HealthAssumption DEF HealthInv
  <2>3. /\ DOMAIN onChainLive' = Monitored
        /\ \A d \in Monitored : /\ DOMAIN onChainLive'[d] = Keys[d]
                                /\ \A j \in Keys[d] : onChainLive'[d][j] \in Nat
    BY <2>1, <2>2 DEF HealthInv
  <2>4. UNCHANGED <<latestLedger, live_until, last_checked, activeContracts>>
    BY <1>4 DEF ExtendOnChain
  <2>5. QED
    BY <2>3, <2>4 DEF HealthInv
<1>5. CASE UNCHANGED healthVars
  BY <1>5 DEF healthVars, HealthInv
<1>6. QED
  BY <1>1, <1>2, <1>3, <1>4, <1>5 DEF HealthNext

-----------------------------------------------------------------------------
(* Statuses are ranks, and a smaller TTL never has a better one.           *)
LEMMA RanksFall ==
  ASSUME NEW r \in Int, NEW s \in Int, r <= s
  PROVE  /\ classifyTTL(r) \in {0, 1, 2, 3} /\ classifyTTL(s) \in {0, 1, 2, 3}
         /\ classifyTTL(s) <= classifyTTL(r)
         /\ classifyRemainingTTL(r) = classifyTTL(r)
<1>1. CriticalBelow \in Nat /\ WarningBelow \in Nat /\ 0 < CriticalBelow /\ CriticalBelow < WarningBelow
  BY HealthAssumption
<1>2. /\ classifyTTL(r) \in {0, 1, 2, 3} /\ classifyTTL(s) \in {0, 1, 2, 3}
      /\ classifyTTL(s) <= classifyTTL(r)
  BY <1>1 DEF classifyTTL
<1>3. CASE r <= 0
  BY <1>1, <1>3 DEF classifyTTL, classifyRemainingTTL
<1>4. CASE r \in 1 .. CriticalBelow - 1
  BY <1>1, <1>4 DEF classifyTTL, classifyRemainingTTL
<1>5. CASE r \in CriticalBelow .. WarningBelow - 1
  BY <1>1, <1>5 DEF classifyTTL, classifyRemainingTTL
<1>6. CASE r >= WarningBelow
  BY <1>1, <1>6 DEF classifyTTL, classifyRemainingTTL
<1>7. QED
  BY <1>1, <1>2, <1>3, <1>4, <1>5, <1>6

LEMMA WorstIs ==
  ASSUME NEW ranks \in SUBSET Int, NEW w \in ranks, \A r \in ranks : r <= w
  PROVE  Worst(ranks) = w
<1>1. \A v \in ranks : (\A r \in ranks : r <= v) => v = w
  <2>1. SUFFICES ASSUME NEW v \in ranks, \A r \in ranks : r <= v
                 PROVE  v = w
    OBVIOUS
  <2>2. v <= w /\ w <= v /\ v \in Int /\ w \in Int
    BY <2>1
  <2>3. QED
    BY <2>2
<1>2. QED
  BY <1>1 DEF Worst

LEMMA LeastIs ==
  ASSUME NEW left \in SUBSET Int, NEW m \in left, \A s \in left : m <= s
  PROVE  (CHOOSE r \in left : \A s \in left : r <= s) = m
<1>1. \A v \in left : (\A s \in left : v <= s) => v = m
  <2>1. SUFFICES ASSUME NEW v \in left, \A s \in left : v <= s
                 PROVE  v = m
    OBVIOUS
  <2>2. v <= m /\ m <= v /\ v \in Int /\ m \in Int
    BY <2>1
  <2>3. QED
    BY <2>2
<1>2. QED
  BY <1>1

(* The entry of a contract with the least TTL                              *)
LEMMA LeastEntry ==
  ASSUME HealthInv, NEW c \in Monitored
  PROVE  \E k \in Keys[c] : \A j \in Keys[c] : live_until[c][k] <= live_until[c][j]
<1> DEFINE T == {live_until[c][k] : k \in Keys[c]}
<1>1. T \in SUBSET Nat /\ T # {}
  BY HealthAssumption DEF HealthInv
<1>2. PICK x \in T : \A y \in T : x <= y
  <2> HIDE DEF T
  <2>1. QED
    BY <1>1, LeastNatural
<1>3. QED
  BY <1>2

(* Every report of a contract that was checked says what its least TTL     *)
(* comes to.                                                               *)
LEMMA CheckedReports ==
  ASSUME HealthInv, NEW c \in Monitored, last_checked[c] # Never,
         NEW m \in Keys[c], \A j \in Keys[c] : live_until[c][m] <= live_until[c][j]
  PROVE  LET w == classifyTTL(live_until[c][m] - last_checked[c])
         IN  /\ w \in {0, 1, 2, 3}
             /\ ListHealth(c) = w
             /\ Worst({EntryStatus(c, k) : k \in Keys[c]}) = w
             /\ EditorStatus(c) = w
             /\ FleetStatus(c) = w
<1> DEFINE left(k) == live_until[c][k] - last_checked[c]
           w == classifyTTL(left(m))
           ranks == {classifyTTL(left(k)) : k \in Keys[c]}
<1>1. last_checked[c] \in Int /\ \A k \in Keys[c] : live_until[c][k] \in Int
  BY DEF HealthInv
<1>2. \A k \in Keys[c] : left(k) \in Int /\ left(m) <= left(k)
  BY <1>1
<1>3. \A k \in Keys[c] : classifyTTL(left(k)) \in {0, 1, 2, 3} /\ classifyTTL(left(k)) <= w
  <2> HIDE DEF left
  <2>1. QED
    BY <1>2, RanksFall
<1>4. /\ ranks \subseteq {0, 1, 2, 3} /\ w \in ranks /\ \A r \in ranks : r <= w
      /\ w \in {0, 1, 2, 3}
  <2> HIDE DEF left
  <2>1. QED
    BY <1>3
<1>5. ListHealth(c) =
        CASE 3 \in ranks -> 3 [] 3 \notin ranks /\ 2 \in ranks -> 2
          [] ranks \cap {2, 3} = {} /\ 1 \in ranks -> 1 [] OTHER -> 0
  BY DEF ListHealth
<1>6. {EntryStatus(c, k) : k \in Keys[c]} = ranks
  BY DEF EntryStatus
<1>7. FleetStatus(c) = Worst({0} \cup ranks)
  <2>1. {j \in Keys[c] : last_checked[c] # Never} = Keys[c]
    OBVIOUS
  <2>2. QED
    BY <2>1 DEF FleetStatus
<1>8. EditorStatus(c) = w
  <2> DEFINE known == {left(k) : k \in Keys[c]}
  <2>1. known \in SUBSET Int /\ left(m) \in known /\ \A s \in known : left(m) <= s
    BY <1>2
  <2>2. EditorStatus(c) = classifyRemainingTTL(CHOOSE r \in known : \A s \in known : r <= s)
    BY <2>1 DEF EditorStatus
  <2>3. classifyRemainingTTL(left(m)) = w
    <3> HIDE DEF left
    <3>1. left(m) \in Int /\ left(m) <= left(m)
      BY <1>2
    <3>2. QED
      BY <3>1, RanksFall
  <2>4. PICK x \in Int : x = left(m)
    BY <1>2
  <2> HIDE DEF known, left, w
  <2>5. (CHOOSE r \in known : \A s \in known : r <= s) = left(m)
    BY <2>1, LeastIs
  <2>6. QED
    BY <2>2, <2>3, <2>5
<1> HIDE DEF ranks, w
<1>9. ListHealth(c) = w
  BY <1>4, <1>5
<1>10. Worst(ranks) = w /\ Worst({0} \cup ranks) = w
  <2>1. ranks \in SUBSET Int /\ ({0} \cup ranks) \in SUBSET Int
    BY <1>4
  <2>2. Worst(ranks) = w
    BY <1>4, <2>1, WorstIs
  <2> DEFINE more == {0} \cup ranks
  <2>3. w \in more /\ more \in SUBSET Int /\ \A r \in more : r <= w
    BY <1>4, <2>1
  <2> HIDE DEF more
  <2>4. Worst(more) = w
    BY <2>3, WorstIs
  <2>5. QED
    BY <2>2, <2>4 DEF more
<1>11. QED
  BY <1>4, <1>6, <1>7, <1>8, <1>9, <1>10 DEF w

LEMMA UncheckedReports ==
  ASSUME NEW c \in Monitored, last_checked[c] = Never
  PROVE  /\ ListHealth(c) = Unknown /\ EditorStatus(c) = Unknown /\ FleetStatus(c) = 0
         /\ Worst({EntryStatus(c, k) : k \in Keys[c]}) = Unknown
<1>1. ListHealth(c) = Unknown /\ EditorStatus(c) = Unknown
  BY DEF ListHealth, EditorStatus
<1>2. FleetStatus(c) = 0
  <2>1. {0} \cup {classifyTTL(live_until[c][k] - last_checked[c]) :
                    k \in {j \in Keys[c] : last_checked[c] # Never}} = {0}
    OBVIOUS
  <2>2. FleetStatus(c) = Worst({0})
    BY <2>1 DEF FleetStatus
  <2>3. QED
    BY <2>2, WorstIs
<1>3. Worst({EntryStatus(c, k) : k \in Keys[c]}) = Unknown
  <2>1. {EntryStatus(c, k) : k \in Keys[c]} = {Unknown}
    BY HealthAssumption DEF EntryStatus
  <2>2. Unknown \in Int
    BY DEF Unknown
  <2> HIDE DEF Unknown
  <2>3. Worst({Unknown}) = Unknown
    BY <2>2, WorstIs
  <2>4. QED
    BY <2>1, <2>3
<1>4. QED
  BY <1>1, <1>2, <1>3

(* The digest measures against a ledger that is not before the contract's. *)
LEMMA DigestIsLater ==
  ASSUME HealthInv, NEW c \in Monitored, last_checked[c] # Never
  PROVE  CurrentLedger \in Nat /\ last_checked[c] <= CurrentLedger
<1> DEFINE checked == {last_checked[d] : d \in Monitored} \ {Never}
<1>1. checked \in SUBSET (0 .. latestLedger) /\ last_checked[c] \in checked
  BY DEF HealthInv
<1>2. \E l \in checked : \A m \in checked : m <= l
  <2>1. latestLedger \in Nat /\ checked # {}
    BY <1>1 DEF HealthInv
  <2> HIDE DEF checked
  <2>2. QED
    BY <1>1, <2>1, GreatestNatural
<1>3. CurrentLedger = CHOOSE l \in checked : \A m \in checked : m <= l
  BY <1>1 DEF CurrentLedger
<1> HIDE DEF checked
<1>4. CurrentLedger \in checked /\ \A m \in checked : m <= CurrentLedger
  BY <1>2, <1>3
<1>5. checked \in SUBSET Nat
  BY <1>1
<1>6. QED
  BY <1>1, <1>4, <1>5

LEMMA DigestIsNotHopeful ==
  ASSUME HealthInv, NEW c \in Monitored, last_checked[c] # Never
  PROVE  DigestSeverity(c) >= ListHealth(c) \/ DigestSeverity(c) = 2
<1>1. PICK m \in Keys[c] : \A j \in Keys[c] : live_until[c][m] <= live_until[c][j]
  BY LeastEntry
<1>2. ListHealth(c) = classifyTTL(live_until[c][m] - last_checked[c])
  BY <1>1, CheckedReports
<1> DEFINE left == {live_until[c][k] - CurrentLedger : k \in Keys[c]}
           x == live_until[c][m] - CurrentLedger
           y == live_until[c][m] - last_checked[c]
<1>3. /\ CurrentLedger \in Int /\ last_checked[c] \in Int /\ last_checked[c] <= CurrentLedger
      /\ \A k \in Keys[c] : live_until[c][k] \in Int
  BY DigestIsLater DEF HealthInv
<1>4. left \in SUBSET Int /\ x \in left /\ \A s \in left : x <= s
  BY <1>1, <1>3
<1>5. x \in Int /\ y \in Int /\ x <= y
  BY <1>3
<1>6. DigestSeverity(c) =
        LET rank == classifyTTL(CHOOSE r \in left : \A s \in left : r <= s)
        IN  IF rank = 3 THEN 2 ELSE rank
  BY DEF DigestSeverity
<1> HIDE DEF left, x, y
<1>7. (CHOOSE r \in left : \A s \in left : r <= s) = x
  BY <1>4, LeastIs
<1>8. DigestSeverity(c) = IF classifyTTL(x) = 3 THEN 2 ELSE classifyTTL(x)
  BY <1>6, <1>7
<1>9. classifyTTL(y) <= classifyTTL(x) /\ classifyTTL(x) \in {0, 1, 2, 3} /\ classifyTTL(y) \in {0, 1, 2, 3}
  BY <1>5, RanksFall
<1>10. ListHealth(c) = classifyTTL(y)
  BY <1>2 DEF y
<1>11. QED
  BY <1>8, <1>9, <1>10

(* check and the action's check of the node, when what was read is still   *)
(* so; and check and the gauge                                             *)
LEMMA ChecksAgree ==
  ASSUME HealthInv, NEW c \in Monitored, NEW n \in 0 .. WarningBelow,
         last_checked[c] = latestLedger, live_until[c] = onChainLive[c]
  PROVE  CheckFails(c, n) <=> ~checkContractTTL(c, n)
<1>1. /\ latestLedger \in Int /\ latestLedger # Never /\ n \in Int /\ n >= 0
      /\ \A k \in Keys[c] : onChainLive[c][k] \in Int
  BY DEF HealthInv, Never
<1>2. \A k \in Keys[c] : onChainLive[c][k] - latestLedger < n <=>
                           ~(onChainLive[c][k] >= latestLedger /\ onChainLive[c][k] - latestLedger >= n)
  BY <1>1
<1>3. QED
  BY <1>1, <1>2 DEF CheckFails, checkContractTTL

LEMMA GaugeAgrees ==
  ASSUME NEW c \in activeContracts, NEW n
  PROVE  CheckFails(c, n) <=> \E s \in Gauge : s[1] = c /\ s[3] < n
<1>1. ASSUME last_checked[c] # Never, NEW k \in Keys[c], live_until[c][k] - last_checked[c] < n
      PROVE  \E s \in Gauge : s[1] = c /\ s[3] < n
  <2> DEFINE s == <<c, k, live_until[c][k] - last_checked[c]>>
  <2>1. s \in Gauge
    BY <1>1 DEF Gauge
  <2>2. s[1] = c /\ s[3] < n
    BY <1>1
  <2>3. QED
    BY <2>1, <2>2
<1>2. ASSUME NEW s \in Gauge, s[1] = c, s[3] < n
      PROVE  CheckFails(c, n)
  <2>4. PICK d \in activeContracts : \E k \in Keys[d] :
          last_checked[d] # Never /\ s = <<d, k, live_until[d][k] - last_checked[d]>>
    BY DEF Gauge
  <2>1. PICK k \in Keys[d] :
          last_checked[d] # Never /\ s = <<d, k, live_until[d][k] - last_checked[d]>>
    BY <2>4
  <2>2. d = c /\ live_until[c][k] - last_checked[c] < n
    BY <1>2, <2>1
  <2>3. QED
    BY <2>1, <2>2 DEF CheckFails
<1>3. QED
  BY <1>1, <1>2 DEF CheckFails

LEMMA HealthInvAgrees ==
  ASSUME HealthInv
  PROVE  HealthAgrees
<1>1. ASSUME NEW c \in Monitored
      PROVE  /\ ListHealth(c) = Worst({EntryStatus(c, k) : k \in Keys[c]})
             /\ EditorStatus(c) = ListHealth(c)
             /\ FleetStatus(c) = IF ListHealth(c) = Unknown THEN 0 ELSE ListHealth(c)
  <2>1. CASE last_checked[c] = Never
    BY <2>1, UncheckedReports
  <2>2. CASE last_checked[c] # Never
    <3>1. PICK m \in Keys[c] : \A j \in Keys[c] : live_until[c][m] <= live_until[c][j]
      BY LeastEntry
    <3>2. PICK w \in {0, 1, 2, 3} :
            /\ ListHealth(c) = w /\ Worst({EntryStatus(c, k) : k \in Keys[c]}) = w
            /\ EditorStatus(c) = w /\ FleetStatus(c) = w
      BY <2>2, <3>1, CheckedReports
    <3>3. w # Unknown
      BY DEF Unknown
    <3>4. QED
      BY <3>2, <3>3
  <2>3. QED
    BY <2>1, <2>2
<1>2. ASSUME NEW c \in activeContracts, ListHealth(c) # Unknown
      PROVE  DigestSeverity(c) >= ListHealth(c) \/ DigestSeverity(c) = 2
  <2>1. c \in Monitored
    BY DEF HealthInv
  <2>2. QED
    BY <1>2, <2>1, UncheckedReports, DigestIsNotHopeful
<1>3. QED
  BY <1>1, <1>2, ChecksAgree, GaugeAgrees DEF HealthAgrees

(* The reports of a contract's health do not contradict each other         *)
(* (core/status.ts, core/digest.ts, commands/check.ts, mcp/server.ts).     *)
THEOREM HealthAlwaysAgrees == HealthSpec => []HealthAgrees
<1>1. HealthInit => HealthInv
  BY HealthStarts
<1>2. HealthInv /\ [HealthNext]_healthVars => HealthInv'
  BY HealthStepInv
<1>3. HealthInv => HealthAgrees
  BY HealthInvAgrees
<1>4. QED
  BY <1>1, <1>2, <1>3, PTL DEF HealthSpec
=============================================================================
