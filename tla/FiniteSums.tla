------------------------------ MODULE FiniteSums ------------------------------
(***************************************************************************)
(* Lemmas the proofs of several components share: the least element of a   *)
(* set of naturals or of finite sets, which is what induction comes to     *)
(* where no theorem takes a predicate, and the sums the components write   *)
(* with MapThenSumSet.                                                     *)
(***************************************************************************)
EXTENDS Integers, FiniteSets, FiniteSetsExt, FiniteSetTheorems, TLAPS

-----------------------------------------------------------------------------
(* Every set of naturals that has an element has a least one.              *)
LEMMA LeastNatural ==
  ASSUME NEW T \in SUBSET Nat, T # {}
  PROVE  \E x \in T : \A y \in T : x <= y
<1> DEFINE R == {ss \in Nat \X Nat : ss[1] < ss[2]}
<1>1. IsWellFoundedOn(R, Nat)
  BY NatLessThanWellFounded DEF OpToRel
<1>2. PICK x \in T : \A y \in T : ~(<<y, x>> \in R)
  <2> HIDE DEF R
  <2> QED
    BY <1>1, WFMin
<1>3. ASSUME NEW y \in T
      PROVE  x <= y
  <2>1. <<y, x>> \in R <=> y < x
    OBVIOUS
  <2>2. QED
    BY <1>2, <2>1
<1>4. QED
  BY <1>3

(* And one between bounds has a greatest one.                              *)
LEMMA GreatestNatural ==
  ASSUME NEW b \in Nat, NEW S \in SUBSET (0 .. b), S # {}
  PROVE  \E m \in S : \A j \in S : j <= m
<1> DEFINE T == {n \in Nat : \A j \in S : j <= n}
<1>1. b \in T
  OBVIOUS
<1>2. PICK m \in T : \A y \in T : m <= y
  BY <1>1, LeastNatural
<1>3. m \in S
  <2>1. SUFFICES ASSUME m \notin S
                 PROVE  FALSE
    OBVIOUS
  <2>2. \A j \in S : j <= m - 1
    BY <2>1
  <2>3. m - 1 \in T
    <3>4. PICK j : j \in S
      OBVIOUS
    <3>1. j <= m /\ j # m /\ j \in Nat
      BY <2>1, <3>4
    <3>2. m - 1 \in Nat
      BY <3>1
    <3>3. QED
      BY <2>2, <3>2
  <2>4. QED
    BY <2>3, <1>2
<1>4. QED
  BY <1>3

(* Every set of subsets of a finite set that has an element has a minimal  *)
(* one.                                                                    *)
LEMMA MinimalSubset ==
  ASSUME NEW S, IsFiniteSet(S), NEW B \in SUBSET SUBSET S, B # {}
  PROVE  \E m \in B : \A t \in B : t \subseteq m => t = m
<1> DEFINE R == StrictSubsetOrdering(S)
<1>1. IsWellFoundedOn(R, SUBSET S)
  BY FS_StrictSubsetOrderingWellFounded, FS_FiniteSubsetsOfFinite
<1>2. PICK m \in B : \A t \in B : ~(<<t, m>> \in R)
  <2> HIDE DEF R
  <2> QED
    BY <1>1, WFMin
<1>3. ASSUME NEW t \in B, t \subseteq m, t # m
      PROVE  FALSE
  <2>1. <<t, m>> \in R
    BY <1>3 DEF StrictSubsetOrdering
  <2>2. QED
    BY <1>2, <2>1
<1>4. QED
  BY <1>3

-----------------------------------------------------------------------------
(* The sum of F over S, as the components write it with a LAMBDA.          *)
SumOver(F, S) == MapThenSumSet(LAMBDA t : F[t], S)

AnElement(s) == CHOOSE x \in s : TRUE

(* iter is the function by which MapThenSumSet sums over the sets in D.    *)
SumsOn(F, D, iter) ==
  iter = [s \in D |-> IF s = {} THEN 0 ELSE F[AnElement(s)] + iter[s \ {AnElement(s)}]]

LEMMA SumOverIsIter ==
  ASSUME NEW F, NEW S
  PROVE  SumOver(F, S) = (CHOOSE iter : SumsOn(F, SUBSET S, iter))[S]
  BY DEF SumOver, MapThenSumSet, MapThenFoldSet, SumsOn, AnElement

LEMMA AnElementIsOne ==
  ASSUME NEW s, s # {}
  PROVE  AnElement(s) \in s
  BY DEF AnElement

(* Two such functions agree where both are defined.                        *)
LEMMA SumsAgree ==
  ASSUME NEW F, NEW S, IsFiniteSet(S), NEW T \in SUBSET S, NEW p, NEW q,
         SumsOn(F, SUBSET S, p), SumsOn(F, SUBSET T, q)
  PROVE  p[T] = q[T]
<1> DEFINE B == {s \in SUBSET T : p[s] # q[s]}
<1>1. SUFFICES ASSUME B # {}
               PROVE  FALSE
  OBVIOUS
<1>2. IsFiniteSet(T)
  BY FS_Subset
<1>3. PICK m \in B : \A t \in B : t \subseteq m => t = m
  <2> HIDE DEF B
  <2>1. B \in SUBSET SUBSET T
    BY DEF B
  <2>2. QED
    BY <1>1, <1>2, <2>1, MinimalSubset
<1>4. m \in SUBSET T /\ m \in SUBSET S /\ p[m] # q[m]
  OBVIOUS
<1>5. m # {}
  BY <1>4 DEF SumsOn
<1>6. PICK x \in m : x = AnElement(m)
  BY <1>5, AnElementIsOne
<1>7. m \ {x} \in SUBSET T /\ m \ {x} # m
  BY <1>4
<1>8. p[m \ {x}] = q[m \ {x}]
  BY <1>3, <1>7
<1>9. p[m] = F[x] + p[m \ {x}] /\ q[m] = F[x] + q[m \ {x}]
  BY <1>4, <1>5, <1>6 DEF SumsOn
<1>10. QED
  BY <1>4, <1>8, <1>9

(* There is one for every finite set.                                      *)
LEMMA SumsExist ==
  ASSUME NEW F, NEW S, IsFiniteSet(S)
  PROVE  \E iter : SumsOn(F, SUBSET S, iter)
<1> DEFINE B == {s \in SUBSET S : ~\E iter : SumsOn(F, SUBSET s, iter)}
<1>1. SUFFICES ASSUME B # {}
               PROVE  FALSE
  OBVIOUS
<1>2. PICK m \in B : \A t \in B : t \subseteq m => t = m
  <2> HIDE DEF B
  <2>1. B \in SUBSET SUBSET S
    BY DEF B
  <2>2. QED
    BY <1>1, <2>1, MinimalSubset
<1> DEFINE H(t) == CHOOSE iter : SumsOn(F, SUBSET t, iter)
<1>3. ASSUME NEW t \in SUBSET m, t # m
      PROVE  SumsOn(F, SUBSET t, H(t)) /\ IsFiniteSet(t)
  <2>1. t \in SUBSET S /\ IsFiniteSet(t)
    BY FS_Subset
  <2>2. t \notin B
    BY <1>2, <1>3
  <2>3. \E iter : SumsOn(F, SUBSET t, iter)
    BY <2>1, <2>2
  <2>4. QED
    BY <2>1, <2>3
<1> HIDE DEF H
<1> DEFINE rest(s) == s \ {AnElement(s)}
           g == [s \in SUBSET m |-> IF s = {} THEN 0 ELSE F[AnElement(s)] + H(rest(s))[rest(s)]]
<1>4. ASSUME NEW s \in SUBSET m, s # {}
      PROVE  g[rest(s)] = H(rest(s))[rest(s)]
  <2> DEFINE u == rest(s)
  <2>1. u \in SUBSET m /\ u # m
    BY <1>4, AnElementIsOne
  <2>2. SumsOn(F, SUBSET u, H(u)) /\ IsFiniteSet(u)
    <3> HIDE DEF u
    <3> QED
      BY <1>3, <2>1
  <2> HIDE DEF u
  <2>3. CASE u = {}
    <3>1. H(u)[u] = 0
      BY <2>2, <2>3 DEF SumsOn
    <3>2. g[u] = 0
      BY <2>1, <2>3
    <3>3. QED
      BY <3>1, <3>2 DEF u
  <2>4. CASE u # {}
    <3> DEFINE v == rest(u)
    <3>1. v \in SUBSET u /\ v \in SUBSET m /\ v # m
      BY <2>1, <2>4, AnElementIsOne
    <3>2. SumsOn(F, SUBSET v, H(v))
      <4> HIDE DEF v
      <4> QED
        BY <1>3, <3>1
    <3>3. H(u)[v] = H(v)[v]
      <4> HIDE DEF v
      <4> QED
        BY <2>2, <3>1, <3>2, SumsAgree
    <3>4. H(u)[u] = F[AnElement(u)] + H(u)[v]
      BY <2>2, <2>4 DEF SumsOn
    <3>5. g[u] = F[AnElement(u)] + H(v)[v]
      BY <2>1, <2>4
    <3>6. QED
      BY <3>3, <3>4, <3>5 DEF u
  <2>5. QED
    BY <2>3, <2>4 DEF u
<1>5. g = [s \in SUBSET m |-> IF s = {} THEN 0 ELSE F[AnElement(s)] + g[rest(s)]]
  <2>1. ASSUME NEW s \in SUBSET m
        PROVE  g[s] = IF s = {} THEN 0 ELSE F[AnElement(s)] + g[rest(s)]
    BY <1>4
  <2>2. QED
    BY <2>1
<1>6. SumsOn(F, SUBSET m, g)
  BY <1>5 DEF SumsOn
<1>7. QED
  BY <1>2, <1>6

LEMMA SumOverUnfolds ==
  ASSUME NEW F, NEW S, IsFiniteSet(S)
  PROVE  /\ S = {} => SumOver(F, S) = 0
         /\ S # {} => SumOver(F, S) = F[AnElement(S)] + SumOver(F, S \ {AnElement(S)})
<1> DEFINE p == CHOOSE iter : SumsOn(F, SUBSET S, iter)
<1>1. SumsOn(F, SUBSET S, p)
  BY SumsExist
<1>2. SumOver(F, S) = p[S]
  BY SumOverIsIter
<1> HIDE DEF p
<1>3. S = {} => p[S] = 0
  BY <1>1 DEF SumsOn
<1>4. ASSUME S # {}
      PROVE  p[S] = F[AnElement(S)] + SumOver(F, S \ {AnElement(S)})
  <2> DEFINE T == S \ {AnElement(S)}
             q == CHOOSE iter : SumsOn(F, SUBSET T, iter)
  <2>1. T \in SUBSET S /\ IsFiniteSet(T)
    BY FS_Subset
  <2> HIDE DEF T
  <2>2. SumsOn(F, SUBSET T, q)
    BY <2>1, SumsExist
  <2>3. SumOver(F, T) = q[T]
    BY SumOverIsIter
  <2> HIDE DEF q
  <2>4. p[T] = q[T]
    <3>1. T \in SUBSET S
      BY <2>1
    <3>2. QED
      BY <1>1, <2>2, <3>1, SumsAgree
  <2>5. p[S] = F[AnElement(S)] + p[T]
    BY <1>1, <1>4 DEF SumsOn, T
  <2>6. QED
    BY <2>3, <2>4, <2>5 DEF T
<1>5. QED
  BY <1>2, <1>3, <1>4

(* The sum of integers is an integer.                                      *)
LEMMA SumOverType ==
  ASSUME NEW F, NEW S, IsFiniteSet(S), \A s \in S : F[s] \in Int
  PROVE  SumOver(F, S) \in Int
<1> DEFINE B == {s \in SUBSET S : SumOver(F, s) \notin Int}
<1>1. SUFFICES ASSUME B # {}
               PROVE  FALSE
  OBVIOUS
<1>2. PICK m \in B : \A t \in B : t \subseteq m => t = m
  <2> HIDE DEF B
  <2>1. B \in SUBSET SUBSET S
    BY DEF B
  <2>2. QED
    BY <1>1, <2>1, MinimalSubset
<1>3. IsFiniteSet(m)
  BY FS_Subset
<1>4. m # {}
  <2>1. SumOver(F, m) \notin Int
    OBVIOUS
  <2>2. m = {} => SumOver(F, m) = 0
    BY <1>3, SumOverUnfolds
  <2>3. QED
    BY <2>1, <2>2
<1>5. PICK x \in m : x = AnElement(m)
  BY <1>4, AnElementIsOne
<1>6. m \ {x} \notin B
  BY <1>2
<1>7. SumOver(F, m \ {x}) \in Int /\ F[x] \in Int
  BY <1>6
<1>8. SumOver(F, m) = F[x] + SumOver(F, m \ {x})
  BY <1>3, <1>4, <1>5, SumOverUnfolds
<1>9. QED
  BY <1>7, <1>8

(* An element can be taken out of a sum, whichever it is.                  *)
LEMMA SumOverElement ==
  ASSUME NEW F, NEW S, IsFiniteSet(S), \A s \in S : F[s] \in Int, NEW x \in S
  PROVE  SumOver(F, S) = F[x] + SumOver(F, S \ {x})
<1> DEFINE B == {s \in SUBSET S : \E y \in s : SumOver(F, s) # F[y] + SumOver(F, s \ {y})}
<1>1. SUFFICES ASSUME B # {}
               PROVE  FALSE
  OBVIOUS
<1>2. PICK m \in B : \A t \in B : t \subseteq m => t = m
  <2> HIDE DEF B
  <2>1. B \in SUBSET SUBSET S
    BY DEF B
  <2>2. QED
    BY <1>1, <2>1, MinimalSubset
<1>3. PICK y \in m : SumOver(F, m) # F[y] + SumOver(F, m \ {y})
  OBVIOUS
<1>4. PICK c \in m : c = AnElement(m)
  BY <1>3, AnElementIsOne
<1>5. IsFiniteSet(m)
  BY FS_Subset
<1>6. SumOver(F, m) = F[c] + SumOver(F, m \ {c})
  BY <1>3, <1>4, <1>5, SumOverUnfolds
<1>7. y # c
  BY <1>3, <1>6
<1> DEFINE u == m \ {y, c}
<1>8. SumOver(F, m \ {c}) = F[y] + SumOver(F, u)
  <2>1. m \ {c} \notin B /\ m \ {c} \in SUBSET S /\ y \in m \ {c}
    BY <1>2, <1>7
  <2>2. (m \ {c}) \ {y} = u
    OBVIOUS
  <2>3. QED
    BY <2>1, <2>2
<1>9. SumOver(F, m \ {y}) = F[c] + SumOver(F, u)
  <2>1. m \ {y} \notin B /\ m \ {y} \in SUBSET S /\ c \in m \ {y}
    BY <1>2, <1>7
  <2>2. (m \ {y}) \ {c} = u
    OBVIOUS
  <2>3. QED
    BY <2>1, <2>2
<1>10. F[y] \in Int /\ F[c] \in Int /\ SumOver(F, u) \in Int
  <2>1. u \in SUBSET S /\ IsFiniteSet(u)
    BY FS_Subset
  <2> HIDE DEF u
  <2>2. SumOver(F, u) \in Int
    BY <2>1, SumOverType
  <2>3. QED
    BY <2>2
<1>11. QED
  BY <1>3, <1>6, <1>8, <1>9, <1>10

(* Two functions that agree on a set have the same sum over it.            *)
LEMMA SumOverSame ==
  ASSUME NEW F, NEW G, NEW S, IsFiniteSet(S), \A s \in S : F[s] = G[s]
  PROVE  SumOver(F, S) = SumOver(G, S)
<1> DEFINE B == {s \in SUBSET S : SumOver(F, s) # SumOver(G, s)}
<1>1. SUFFICES ASSUME B # {}
               PROVE  FALSE
  OBVIOUS
<1>2. PICK m \in B : \A t \in B : t \subseteq m => t = m
  <2> HIDE DEF B
  <2>1. B \in SUBSET SUBSET S
    BY DEF B
  <2>2. QED
    BY <1>1, <2>1, MinimalSubset
<1>3. IsFiniteSet(m) /\ m \in SUBSET S /\ SumOver(F, m) # SumOver(G, m)
  BY FS_Subset
<1>4. m # {}
  <2>1. m = {} => SumOver(F, m) = 0 /\ SumOver(G, m) = 0
    BY <1>3, SumOverUnfolds
  <2>2. QED
    BY <1>3, <2>1
<1>5. PICK x \in m : x = AnElement(m)
  BY <1>4, AnElementIsOne
<1>6. m \ {x} \notin B /\ m \ {x} \in SUBSET S
  BY <1>2, <1>3
<1>7. SumOver(F, m \ {x}) = SumOver(G, m \ {x}) /\ F[x] = G[x]
  BY <1>3, <1>6
<1>8. SumOver(F, m) = F[x] + SumOver(F, m \ {x}) /\ SumOver(G, m) = G[x] + SumOver(G, m \ {x})
  BY <1>3, <1>4, <1>5, SumOverUnfolds
<1>9. QED
  BY <1>3, <1>7, <1>8

(* A sum of naturals is a natural. *)
LEMMA SumOverNat ==
  ASSUME NEW F, NEW S, IsFiniteSet(S), \A s \in S : F[s] \in Nat
  PROVE  SumOver(F, S) \in Nat
<1> DEFINE B == {s \in SUBSET S : SumOver(F, s) \notin Nat}
<1>1. SUFFICES ASSUME B # {}
               PROVE  FALSE
  OBVIOUS
<1>2. PICK m \in B : \A t \in B : t \subseteq m => t = m
  <2> HIDE DEF B
  <2>1. B \in SUBSET SUBSET S
    BY DEF B
  <2>2. QED
    BY <1>1, <2>1, MinimalSubset
<1>3. IsFiniteSet(m) /\ m \in SUBSET S /\ SumOver(F, m) \notin Nat
  BY FS_Subset
<1>4. m # {}
  <2>1. m = {} => SumOver(F, m) = 0
    BY <1>3, SumOverUnfolds
  <2>2. QED
    BY <1>3, <2>1
<1>5. PICK x \in m : x = AnElement(m)
  BY <1>4, AnElementIsOne
<1>6. m \ {x} \notin B /\ m \ {x} \in SUBSET S
  BY <1>2, <1>3
<1>7. SumOver(F, m \ {x}) \in Nat /\ F[x] \in Nat
  BY <1>3, <1>6
<1>8. SumOver(F, m) = F[x] + SumOver(F, m \ {x})
  BY <1>3, <1>4, <1>5, SumOverUnfolds
<1>9. QED
  BY <1>3, <1>7, <1>8

(* Sums over two sets that have no element in common                       *)
LEMMA SumOverDisjoint ==
  ASSUME NEW F, NEW S, IsFiniteSet(S), NEW T, IsFiniteSet(T), S \cap T = {},
         \A s \in S \cup T : F[s] \in Int
  PROVE  SumOver(F, S \cup T) = SumOver(F, S) + SumOver(F, T)
<1> DEFINE B == {s \in SUBSET S : SumOver(F, s \cup T) # SumOver(F, s) + SumOver(F, T)}
<1>1. SUFFICES ASSUME B # {}
               PROVE  FALSE
  OBVIOUS
<1>2. PICK m \in B : \A t \in B : t \subseteq m => t = m
  <2>1. B \in SUBSET SUBSET S
    OBVIOUS
  <2> HIDE DEF B
  <2>2. QED
    BY <1>1, <2>1, MinimalSubset
<1>3. m \subseteq S /\ IsFiniteSet(m) /\ IsFiniteSet(m \cup T)
  BY FS_Subset, FS_Union
<1>4. SumOver(F, T) \in Int
  BY SumOverType
<1>5. m # {}
  <2> SUFFICES ASSUME m = {}
               PROVE  FALSE
    OBVIOUS
  <2>1. SumOver(F, m) = 0
    BY <1>3, SumOverUnfolds
  <2>2. m \cup T = T
    OBVIOUS
  <2>3. SumOver(F, m \cup T) # SumOver(F, m) + SumOver(F, T)
    OBVIOUS
  <2> HIDE DEF B
  <2>4. QED
    BY <2>1, <2>2, <2>3, <1>4
<1>6. PICK x \in m : TRUE
  BY <1>5
<1>7. PICK r : r = m \ {x}
  OBVIOUS
<1>8. r \notin B /\ r \subseteq S
  BY <1>2, <1>6, <1>7
<1>9. SumOver(F, r \cup T) = SumOver(F, r) + SumOver(F, T)
  BY <1>8
<1>10. SumOver(F, m) = F[x] + SumOver(F, r)
  BY <1>3, <1>6, <1>7, SumOverElement
<1>11. SumOver(F, m \cup T) = F[x] + SumOver(F, r \cup T)
  <2>1. (m \cup T) \ {x} = r \cup T
    BY <1>3, <1>6, <1>7
  <2>2. SumOver(F, m \cup T) = F[x] + SumOver(F, (m \cup T) \ {x})
    <3>1. x \in m \cup T /\ \A s \in m \cup T : F[s] \in Int
      BY <1>3, <1>6
    <3> HIDE DEF B
    <3>2. QED
      BY <1>3, <3>1, SumOverElement
  <2>3. QED
    BY <2>1, <2>2
<1>12. SumOver(F, r) \in Int /\ F[x] \in Int
  <2>1. IsFiniteSet(r) /\ x \in S
    BY <1>3, <1>6, <1>7, FS_Subset
  <2>2. \A s \in r : F[s] \in Int
    BY <1>8
  <2> HIDE DEF B
  <2>3. QED
    BY <2>1, <2>2, SumOverType
<1>13. SumOver(F, m \cup T) # SumOver(F, m) + SumOver(F, T)
  OBVIOUS
<1> HIDE DEF B
<1>14. QED
  BY <1>4, <1>9, <1>10, <1>11, <1>12, <1>13

(* A sum is no greater than another whose terms are no smaller.            *)
LEMMA SumOverNoGreater ==
  ASSUME NEW F, NEW G, NEW S, IsFiniteSet(S),
         \A s \in S : F[s] \in Int /\ G[s] \in Int /\ F[s] <= G[s]
  PROVE  SumOver(F, S) <= SumOver(G, S)
<1> DEFINE B == {s \in SUBSET S : ~(SumOver(F, s) <= SumOver(G, s))}
<1>1. SUFFICES ASSUME B # {}
               PROVE  FALSE
  OBVIOUS
<1>2. PICK m \in B : \A t \in B : t \subseteq m => t = m
  <2>1. B \in SUBSET SUBSET S
    OBVIOUS
  <2> HIDE DEF B
  <2>2. QED
    BY <1>1, <2>1, MinimalSubset
<1>3. m \subseteq S /\ IsFiniteSet(m) /\ ~(SumOver(F, m) <= SumOver(G, m))
  BY FS_Subset
<1>4. m # {}
  <2> SUFFICES ASSUME m = {}
               PROVE  FALSE
    OBVIOUS
  <2>1. SumOver(F, m) = 0 /\ SumOver(G, m) = 0
    BY <1>3, SumOverUnfolds
  <2>2. QED
    BY <2>1, <1>3
<1>5. PICK x \in m : TRUE
  BY <1>4
<1>6. PICK r : r = m \ {x}
  OBVIOUS
<1>7. r \notin B /\ r \subseteq S /\ IsFiniteSet(r)
  BY <1>2, <1>3, <1>5, <1>6, FS_Subset
<1>8. SumOver(F, r) <= SumOver(G, r)
  BY <1>7
<1> HIDE DEF B
<1>9. SumOver(F, m) = F[x] + SumOver(F, r) /\ SumOver(G, m) = G[x] + SumOver(G, r)
  BY <1>3, <1>5, <1>6, SumOverElement
<1>10. SumOver(F, r) \in Int /\ SumOver(G, r) \in Int
  BY <1>7, SumOverType
<1>11. F[x] \in Int /\ G[x] \in Int /\ F[x] <= G[x]
  BY <1>3, <1>5
<1>12. QED
  BY <1>3, <1>8, <1>9, <1>10, <1>11

(* Terms that are zero may be left out.                                    *)
LEMMA SumOverZeros ==
  ASSUME NEW F, NEW S, IsFiniteSet(S), NEW T \in SUBSET S,
         \A s \in S : F[s] \in Int, \A s \in S \ T : F[s] = 0
  PROVE  SumOver(F, S) = SumOver(F, T)
<1> DEFINE B == {s \in SUBSET (S \ T) : SumOver(F, s) # 0}
<1>1. B = {}
  <2>1. SUFFICES ASSUME B # {}
                 PROVE  FALSE
    OBVIOUS
  <2>2. IsFiniteSet(S \ T)
    BY FS_Subset
  <2>3. PICK m \in B : \A t \in B : t \subseteq m => t = m
    <3>1. B \in SUBSET SUBSET (S \ T)
      OBVIOUS
    <3> HIDE DEF B
    <3>2. QED
      BY <2>1, <2>2, <3>1, MinimalSubset
  <2>4. m \subseteq S \ T /\ IsFiniteSet(m) /\ SumOver(F, m) # 0
    BY <2>2, FS_Subset
  <2>5. PICK x \in m : TRUE
    BY <2>4, SumOverUnfolds
  <2>6. PICK r : r = m \ {x}
    OBVIOUS
  <2>7. r \notin B /\ r \subseteq S \ T
    BY <2>3, <2>4, <2>5, <2>6
  <2>8. SumOver(F, r) = 0
    BY <2>7
  <2> HIDE DEF B
  <2>9. \A s \in m : F[s] \in Int
    BY <2>4
  <2>10. SumOver(F, m) = F[x] + SumOver(F, r)
    BY <2>4, <2>5, <2>6, <2>9, SumOverElement
  <2>11. F[x] = 0
    BY <2>4, <2>5
  <2>12. QED
    BY <2>4, <2>8, <2>10, <2>11
<1>2. PICK R : R = S \ T
  OBVIOUS
<1>3. SumOver(F, R) = 0
  BY <1>1, <1>2
<1>4. S = T \cup R /\ T \cap R = {} /\ IsFiniteSet(T) /\ IsFiniteSet(R)
  BY <1>2, FS_Subset
<1> HIDE DEF B
<1>5. SumOver(F, T \cup R) = SumOver(F, T) + SumOver(F, R)
  <2>1. \A s \in T \cup R : F[s] \in Int
    BY <1>4
  <2>2. QED
    BY <1>4, <2>1, SumOverDisjoint
<1>6. SumOver(F, T) \in Int
  BY <1>4, SumOverType
<1>7. QED
  BY <1>3, <1>4, <1>5, <1>6
=============================================================================
