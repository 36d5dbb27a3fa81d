------------------------- MODULE ServicePortsProofs -------------------------
(***************************************************************************)
(* What the list operators of ServicePorts compute, for lists of any       *)
(* length: InOrder lists each element of a set once, and MergeServicePorts *)
(* keeps the first list, repeats no name and no number, drops only what    *)
(* repeats, and changes nothing when it is applied again.                  *)
(*                                                                         *)
(* The inductions are over numbers and look at the least counterexample.   *)
(***************************************************************************)
EXTENDS ServicePorts, FiniteSetTheorems, WellFoundedInduction, TLAPS

\* Every set of numbers that is not empty has a least one.
LEMMA LeastNumber ==
  ASSUME NEW S \in SUBSET Nat, S # {}
  PROVE  \E m \in S : \A n \in S : m <= n
<1>1. OpToRel(<, Nat) = {ss \in Nat \X Nat : ss[1] < ss[2]}
  BY DEF OpToRel
<1>2. PICK m \in S : \A n \in S : ~(<<n, m>> \in OpToRel(<, Nat))
  BY NatLessThanWellFounded, WFMin
<1>3. \A n \in S : ~(n < m)
  BY <1>1, <1>2
<1>4. QED
  BY <1>3

-----------------------------------------------------------------------------
(* Ranks.                                                                  *)

\* The elements of S up to p.
UpTo(S, r, p) == {q \in S : r[q] <= r[p]}

\* A set without one of its elements.
LEMMA RemoveOne ==
  ASSUME NEW T, IsFiniteSet(T), NEW x \in T
  PROVE  /\ IsFiniteSet(T \ {x}) /\ Cardinality(T \ {x}) = Cardinality(T) - 1
         /\ Cardinality(T) - 1 \in Nat
<1>1. IsFiniteSet(T \ {x}) /\ Cardinality(T \ {x}) = Cardinality(T) - 1
  BY FS_RemoveElement
<1>2. Cardinality(T \ {x}) \in Nat
  BY <1>1, FS_CardinalityType
<1>3. QED
  BY <1>1, <1>2

\* A finite set has an element of the greatest rank.
LEMMA TopRank ==
  ASSUME NEW U, NEW r \in [U -> Nat],
         NEW S \in SUBSET U, IsFiniteSet(S), S # {}
  PROVE  \E m \in S : \A q \in S : r[q] <= r[m]
<1> DEFINE Bad(T) == T # {} /\ ~ \E m \in T : \A q \in T : r[q] <= r[m]
<1> DEFINE B == {n \in Nat : \E T \in SUBSET U :
                    IsFiniteSet(T) /\ Cardinality(T) = n /\ Bad(T)}
<1> SUFFICES ASSUME Bad(S) PROVE FALSE
  OBVIOUS
<1>1. B # {}
  BY FS_CardinalityType
<1> HIDE DEF Bad
<1>2. PICK n \in B : \A k \in B : n <= k
  <2> HIDE DEF B
  <2>1. B \in SUBSET Nat
    BY DEF B
  <2>2. QED
    BY <1>1, <2>1, LeastNumber
<1>3. PICK T \in SUBSET U : IsFiniteSet(T) /\ Cardinality(T) = n /\ Bad(T)
  BY <1>2
<1>4. PICK x \in T : TRUE
  BY <1>3 DEF Bad
<1>5. IsFiniteSet(T \ {x}) /\ Cardinality(T \ {x}) = n - 1 /\ n - 1 \in Nat
  BY <1>3, RemoveOne
<1>6. ~Bad(T \ {x})
  <2> SUFFICES ASSUME Bad(T \ {x}) PROVE FALSE
    OBVIOUS
  <2>1. n - 1 \in B
    BY <1>5
  <2>2. QED
    BY <1>2, <2>1
<1>7. CASE T \ {x} = {}
  <2>1. r[x] \in Nat /\ \A q \in T : q = x
    BY <1>7
  <2>2. QED
    BY <1>3, <2>1 DEF Bad
<1>8. CASE T \ {x} # {}
  <2>1. PICK m \in T \ {x} : \A q \in T \ {x} : r[q] <= r[m]
    BY <1>6, <1>8 DEF Bad
  <2>2. \A q \in T : r[q] \in Nat
    OBVIOUS
  <2>3. CASE r[x] <= r[m]
    <3>1. \A q \in T : r[q] <= r[m]
      BY <2>1, <2>3
    <3>2. QED
      BY <1>3, <3>1 DEF Bad
  <2>4. CASE ~(r[x] <= r[m])
    <3>1. \A q \in T : r[q] <= r[x]
      BY <2>1, <2>2, <2>4
    <3>2. QED
      BY <1>3, <3>1 DEF Bad
  <2>5. QED
    BY <2>3, <2>4
<1>9. QED
  BY <1>7, <1>8

\* The elements of a finite set with different ranks have all places from 1
\* to their number, each a different one.
LEMMA PlaceExists ==
  ASSUME NEW U, NEW r \in [U -> Nat], \A p, q \in U : r[p] = r[q] => p = q,
         NEW S \in SUBSET U, IsFiniteSet(S)
  PROVE  \A i \in 1 .. Cardinality(S) : \E p \in S : i = Cardinality(UpTo(S, r, p))
<1> DEFINE Bad(T) == \E k \in 1 .. Cardinality(T) :
                        ~ \E p \in T : k = Cardinality(UpTo(T, r, p))
<1> DEFINE B == {n \in Nat : \E T \in SUBSET U :
                    IsFiniteSet(T) /\ Cardinality(T) = n /\ Bad(T)}
<1> SUFFICES ASSUME Bad(S) PROVE FALSE
  OBVIOUS
<1>1. B # {}
  BY FS_CardinalityType
<1> HIDE DEF Bad
<1>2. PICK n \in B : \A k \in B : n <= k
  <2> HIDE DEF B
  <2>1. B \in SUBSET Nat
    BY DEF B
  <2>2. QED
    BY <1>1, <2>1, LeastNumber
<1>3. PICK T \in SUBSET U : IsFiniteSet(T) /\ Cardinality(T) = n /\ Bad(T)
  BY <1>2
<1>4. PICK k \in 1 .. n : ~ \E p \in T : k = Cardinality(UpTo(T, r, p))
  BY <1>3 DEF Bad
<1>5. T # {}
  BY <1>3, <1>4, FS_EmptySet
<1>6. PICK m \in T : \A q \in T : r[q] <= r[m]
  BY <1>3, <1>5, TopRank
<1>7. UpTo(T, r, m) = T
  BY <1>6 DEF UpTo
<1>8. k # n
  BY <1>3, <1>4, <1>7
<1>9. /\ IsFiniteSet(T \ {m}) /\ Cardinality(T \ {m}) = n - 1 /\ n - 1 \in Nat
      /\ k \in 1 .. (n - 1)
  BY <1>3, <1>8, RemoveOne
<1>10. ~Bad(T \ {m})
  <2> SUFFICES ASSUME Bad(T \ {m}) PROVE FALSE
    OBVIOUS
  <2>1. n - 1 \in B
    BY <1>9
  <2>2. QED
    BY <1>2, <2>1
<1>11. PICK p \in T \ {m} : k = Cardinality(UpTo(T \ {m}, r, p))
  BY <1>9, <1>10 DEF Bad
<1>12. UpTo(T, r, p) = UpTo(T \ {m}, r, p)
  <2>1. r[p] \in Nat /\ r[m] \in Nat /\ r[p] # r[m] /\ r[p] <= r[m]
    BY <1>6, <1>11
  <2>2. ~(r[m] <= r[p])
    BY <2>1
  <2>3. QED
    BY <2>2 DEF UpTo
<1>13. QED
  BY <1>4, <1>11, <1>12

LEMMA PlaceGrows ==
  ASSUME NEW U, NEW r \in [U -> Nat], NEW S \in SUBSET U, IsFiniteSet(S),
         NEW p \in S, NEW q \in S, r[p] < r[q]
  PROVE  /\ Cardinality(UpTo(S, r, p)) < Cardinality(UpTo(S, r, q))
         /\ Cardinality(UpTo(S, r, p)) \in Nat /\ Cardinality(UpTo(S, r, q)) \in Nat
<1>1. UpTo(S, r, q) \subseteq S /\ UpTo(S, r, p) \subseteq UpTo(S, r, q)
  BY DEF UpTo
<1>2. q \in UpTo(S, r, q) /\ q \notin UpTo(S, r, p)
  BY DEF UpTo
<1>3. IsFiniteSet(UpTo(S, r, q)) /\ IsFiniteSet(UpTo(S, r, p))
  BY <1>1, FS_Subset
<1>4. /\ Cardinality(UpTo(S, r, p)) <= Cardinality(UpTo(S, r, q))
      /\ Cardinality(UpTo(S, r, p)) # Cardinality(UpTo(S, r, q))
  BY <1>1, <1>2, <1>3, FS_Subset
<1>5. QED
  BY <1>3, <1>4, FS_CardinalityType

LEMMA PlaceUnique ==
  ASSUME NEW U, NEW r \in [U -> Nat], \A p, q \in U : r[p] = r[q] => p = q,
         NEW S \in SUBSET U, IsFiniteSet(S), NEW p \in S, NEW q \in S,
         Cardinality(UpTo(S, r, p)) = Cardinality(UpTo(S, r, q))
  PROVE  p = q
<1>1. r[p] \in Nat /\ r[q] \in Nat
  OBVIOUS
<1>2. ~(r[p] < r[q]) /\ ~(r[q] < r[p])
  BY PlaceGrows
<1>3. QED
  BY <1>1, <1>2

\* Each element has a place.
LEMMA PlaceRange ==
  ASSUME NEW U, NEW r \in [U -> Nat], NEW S \in SUBSET U, IsFiniteSet(S),
         NEW p \in S
  PROVE  Cardinality(UpTo(S, r, p)) \in 1 .. Cardinality(S)
<1>1. UpTo(S, r, p) \subseteq S /\ p \in UpTo(S, r, p)
  BY DEF UpTo
<1>2. /\ IsFiniteSet(UpTo(S, r, p)) /\ Cardinality(UpTo(S, r, p)) <= Cardinality(S)
  BY <1>1, FS_Subset
<1>3. Cardinality(UpTo(S, r, p)) # 0
  BY <1>1, <1>2, FS_EmptySet
<1>4. QED
  BY <1>2, <1>3, FS_CardinalityType
-----------------------------------------------------------------------------
(* The numbers of a set in their order.                                    *)

Selected(S) == InOrder(S, LAMBDA i : i)

LEMMA SelectedIs ==
  ASSUME NEW S
  PROVE  Selected(S) = [i \in 1 .. Cardinality(S) |->
                          CHOOSE p \in S : i = Cardinality({q \in S : q <= p})]
  BY DEF Selected, InOrder

\* Each number of S is listed once, the smaller ones first.
LEMMA SelectedInOrder ==
  ASSUME NEW S \in SUBSET (Nat \ {0}), IsFiniteSet(S)
  PROVE  /\ Cardinality(S) \in Nat
         /\ Selected(S) \in [1 .. Cardinality(S) -> S]
         /\ \A i, j \in 1 .. Cardinality(S) :
               i < j => Selected(S)[i] < Selected(S)[j]
         /\ \A s \in S : \E i \in 1 .. Cardinality(S) : Selected(S)[i] = s
         /\ \A a \in Nat : 1 .. a \subseteq S =>
               \A i \in 1 .. a : i \in 1 .. Cardinality(S) /\ Selected(S)[i] = i
<1> DEFINE U == Nat \ {0}
           r == [i \in U |-> i]
           c == Cardinality(S)
           Place(p) == Cardinality({q \in S : q <= p})
<1>1. IsFiniteSet(S) /\ c \in Nat /\ S \in SUBSET U
  BY FS_CardinalityType
<1>2. r \in [U -> Nat] /\ \A p, q \in U : r[p] = r[q] => p = q
  OBVIOUS
<1>3. ASSUME NEW p \in S PROVE Place(p) = Cardinality(UpTo(S, r, p))
  <2>1. {q \in S : q <= p} = UpTo(S, r, p)
    BY DEF UpTo
  <2>2. QED
    BY <2>1, Zenon
<1>4. Selected(S) = [i \in 1 .. c |-> CHOOSE p \in S : i = Place(p)]
  BY SelectedIs
<1>5. \A p \in S : r[p] = p
  OBVIOUS
<1> HIDE DEF U, r, Place
<1>6. ASSUME NEW i \in 1 .. c PROVE Selected(S)[i] \in S /\ i = Place(Selected(S)[i])
  <2>1. \E p \in S : i = Place(p)
    <3>1. \A k \in 1 .. Cardinality(S) : \E p \in S : k = Cardinality(UpTo(S, r, p))
      BY <1>1, <1>2, PlaceExists
    <3>2. QED
      BY <1>3, <3>1
  <2>2. QED
    BY <1>4, <2>1
<1>7. ASSUME NEW p \in S, NEW q \in S, Place(p) = Place(q) PROVE p = q
  <2>1. Cardinality(UpTo(S, r, p)) = Cardinality(UpTo(S, r, q))
    BY <1>3, <1>7
  <2>2. QED
    BY <1>1, <1>2, <2>1, PlaceUnique
<1>8. ASSUME NEW p \in S, NEW q \in S, p < q
      PROVE  Place(p) < Place(q) /\ Place(p) \in Nat /\ Place(q) \in Nat
  <2>1. r[p] < r[q]
    BY <1>5, <1>8
  <2>2. /\ Cardinality(UpTo(S, r, p)) < Cardinality(UpTo(S, r, q))
        /\ Cardinality(UpTo(S, r, p)) \in Nat /\ Cardinality(UpTo(S, r, q)) \in Nat
    BY <1>1, <1>2, <2>1, PlaceGrows
  <2>3. QED
    BY <1>3, <2>2
<1>9. Selected(S) \in [1 .. c -> S]
  BY <1>6, <1>4
<1>10. ASSUME NEW i \in 1 .. c, NEW j \in 1 .. c, i < j
       PROVE  Selected(S)[i] < Selected(S)[j]
  <2>1. PICK s \in S : s = Selected(S)[i] /\ i = Place(s)
    BY <1>6
  <2>2. PICK t \in S : t = Selected(S)[j] /\ j = Place(t)
    BY <1>6
  <2>3. s # t /\ ~(t < s)
    BY <1>8, <1>10, <2>1, <2>2
  <2>4. QED
    BY <2>1, <2>2, <2>3
<1>11. ASSUME NEW s \in S PROVE Place(s) \in 1 .. c /\ Selected(S)[Place(s)] = s
  <2>1. Place(s) \in 1 .. c
    <3>1. Cardinality(UpTo(S, r, s)) \in 1 .. c
      BY <1>1, <1>2, PlaceRange
    <3>2. QED
      BY <1>3, <3>1
  <2>2. QED
    BY <2>1, <1>6, <1>7
<1>12. ASSUME NEW a \in Nat, 1 .. a \subseteq S, NEW i \in 1 .. a
       PROVE  i \in 1 .. c /\ Selected(S)[i] = i
  <2>1. i \in S /\ {q \in S : q <= i} = 1 .. i
    <3>1. i \in Nat /\ \A q \in S : q \in Nat /\ q >= 1
      OBVIOUS
    <3>2. \A q \in 1 .. i : q \in 1 .. a
      OBVIOUS
    <3>3. \A q \in S : q <= i => q \in 1 .. i
      BY <3>1
    <3>4. i \in S /\ \A q \in 1 .. i : q \in S /\ q <= i
      BY <1>12, <3>2
    <3>5. QED
      BY <3>3, <3>4, Zenon
  <2>2. Place(i) = i
    <3>1. Cardinality(1 .. i) = i
      BY FS_Interval
    <3>2. QED
      BY <2>1, <3>1 DEF Place
  <2>3. QED
    BY <1>11, <2>1, <2>2
<1>13. QED
  BY <1>1, <1>9, <1>10, <1>11, <1>12

-----------------------------------------------------------------------------
(* The ports that MergeServicePorts keeps.                                 *)

\* The port at i repeats none of those before it that f keeps.
Fresh(ports, f, i) ==
    \A j \in 1 .. i - 1 : SameNameOrPort(ports[j], ports[i]) => ~f[j]

Kept(ports) ==
    CHOOSE f : f = [i \in 1 .. Len(ports) |-> Fresh(ports, f, i)]

Pick(ports) ==
    LET result == Selected({i \in 1 .. Len(ports) : Kept(ports)[i]})
    IN  [i \in 1 .. Len(result) |-> ports[result[i]]]

LEMMA MergeIsPick ==
  ASSUME NEW p1, NEW p2
  PROVE  MergeServicePorts(p1, p2) = Pick(p1 \o p2)
  BY DEF MergeServicePorts, Pick, Kept, Fresh, Selected

\* The recursion of kept has a solution for every length.
LEMMA KeptExists ==
  ASSUME NEW ports, NEW n \in Nat
  PROVE  \E f \in [1 .. n -> BOOLEAN] : \A i \in 1 .. n : f[i] <=> Fresh(ports, f, i)
<1> DEFINE Good(m) == \E f \in [1 .. m -> BOOLEAN] :
                         \A i \in 1 .. m : f[i] <=> Fresh(ports, f, i)
           B == {m \in Nat : ~Good(m)}
<1> SUFFICES ASSUME ~Good(n) PROVE FALSE
  OBVIOUS
<1>1. B # {} /\ B \in SUBSET Nat
  OBVIOUS
<1>2. PICK m \in B : \A k \in B : m <= k
  <2> HIDE DEF B
  <2>1. QED
    BY <1>1, LeastNumber
<1>3. m # 0
  <2>1. Good(0)
    <3>1. [i \in 1 .. 0 |-> TRUE] \in [1 .. 0 -> BOOLEAN] /\ \A i \in 1 .. 0 : FALSE
      OBVIOUS
    <3>2. QED
      BY <3>1
  <2>2. QED
    BY <1>2, <2>1
<1>4. Good(m - 1)
  <2>1. m - 1 \in Nat /\ ~(m <= m - 1)
    BY <1>2, <1>3
  <2>2. QED
    BY <1>2, <2>1
<1>5. PICK f \in [1 .. (m - 1) -> BOOLEAN] :
         \A i \in 1 .. (m - 1) : f[i] <=> Fresh(ports, f, i)
  BY <1>4
<1> DEFINE g == [i \in 1 .. m |-> IF i = m THEN Fresh(ports, f, m) ELSE f[i]]
<1>6. m \in 1 .. m /\ m - 1 \in Nat /\ \A i \in 1 .. m : i # m => i \in 1 .. (m - 1)
  BY <1>2, <1>3
<1>7. \A i \in 1 .. (m - 1) : i \in 1 .. m /\ i # m
  BY <1>2, <1>3
<1>8. g \in [1 .. m -> BOOLEAN]
  BY <1>6 DEF Fresh
<1>9. \A j \in 1 .. (m - 1) : g[j] <=> f[j]
  BY <1>7
<1>10. ASSUME NEW i \in 1 .. m PROVE Fresh(ports, g, i) <=> Fresh(ports, f, i)
  <2>1. \A j \in 1 .. (i - 1) : j \in 1 .. (m - 1)
    BY <1>2
  <2>2. \A j \in 1 .. (i - 1) : g[j] <=> f[j]
    BY <1>9, <2>1
  <2> HIDE DEF g
  <2>3. QED
    BY <2>2 DEF Fresh
<1>11. \A i \in 1 .. m : g[i] <=> Fresh(ports, g, i)
  BY <1>5, <1>6, <1>10
<1>12. QED
  BY <1>2, <1>8, <1>11

LEMMA KeptIs ==
  ASSUME NEW ports, Len(ports) \in Nat
  PROVE  /\ Kept(ports) \in [1 .. Len(ports) -> BOOLEAN]
         /\ \A i \in 1 .. Len(ports) : Kept(ports)[i] <=> Fresh(ports, Kept(ports), i)
<1> DEFINE n == Len(ports)
<1>1. PICK f \in [1 .. n -> BOOLEAN] : \A i \in 1 .. n : f[i] <=> Fresh(ports, f, i)
  BY KeptExists
<1>2. \A i \in 1 .. n : f[i] = Fresh(ports, f, i)
  BY <1>1 DEF Fresh
<1>3. f = [i \in 1 .. n |-> Fresh(ports, f, i)]
  BY <1>2
<1>4. Kept(ports) = [i \in 1 .. n |-> Fresh(ports, Kept(ports), i)]
  BY <1>3 DEF Kept
<1>5. \A i \in 1 .. n : Fresh(ports, Kept(ports), i) \in BOOLEAN
  BY DEF Fresh
<1>6. QED
  BY <1>4, <1>5

KeptAt(ports) == {i \in 1 .. Len(ports) : Kept(ports)[i]}

LEMMA KeptAtOrder ==
  ASSUME NEW P, NEW ports \in Seq(P)
  PROVE  /\ KeptAt(ports) \in SUBSET (Nat \ {0}) /\ IsFiniteSet(KeptAt(ports))
         /\ Cardinality(KeptAt(ports)) \in Nat
<1>1. KeptAt(ports) \subseteq 1 .. Len(ports) /\ Len(ports) \in Nat
  BY DEF KeptAt
<1>2. IsFiniteSet(1 .. Len(ports))
  BY <1>1, FS_Interval
<1>3. IsFiniteSet(KeptAt(ports))
  BY <1>1, <1>2, FS_Subset
<1>4. QED
  BY <1>1, <1>3, FS_CardinalityType

\* The list of the kept ports.
LEMMA PickIs ==
  ASSUME NEW P, NEW ports \in Seq(P)
  PROVE  LET S == KeptAt(ports) IN
         /\ Pick(ports) \in Seq(P) /\ Len(Pick(ports)) = Cardinality(S)
         /\ \A i \in 1 .. Cardinality(S) :
               /\ Selected(S)[i] \in S /\ Selected(S)[i] \in 1 .. Len(ports)
               /\ Pick(ports)[i] = ports[Selected(S)[i]]
<1> DEFINE S == KeptAt(ports)
           c == Cardinality(S)
<1>1. S \in SUBSET (Nat \ {0}) /\ IsFiniteSet(S) /\ c \in Nat
  BY KeptAtOrder
<1>2. S \subseteq 1 .. Len(ports)
  BY DEF KeptAt
<1>3. Pick(ports) = [i \in 1 .. Len(Selected(S)) |-> ports[Selected(S)[i]]]
  BY DEF Pick, KeptAt
<1> HIDE DEF S
<1>4. Selected(S) \in [1 .. c -> S]
  BY <1>1, SelectedInOrder
<1> HIDE DEF c
<1>5. Len(Selected(S)) = c
  <2>1. Selected(S) \in Seq(S)
    BY <1>1, <1>4
  <2>2. QED
    BY <1>1, <1>4, <2>1
<1>6. Pick(ports) = [i \in 1 .. c |-> ports[Selected(S)[i]]]
  BY <1>3, <1>5
<1>7. \A i \in 1 .. c : Selected(S)[i] \in S /\ Selected(S)[i] \in 1 .. Len(ports)
  BY <1>2, <1>4
<1>8. \A i \in 1 .. c : ports[Selected(S)[i]] \in P
  BY <1>7
<1>9. Pick(ports) \in [1 .. c -> P]
  BY <1>6, <1>8
<1>10. Pick(ports) \in Seq(P) /\ Len(Pick(ports)) = c
  BY <1>1, <1>9
<1>11. QED
  BY <1>6, <1>7, <1>10 DEF S, c

\* No two ports of the list have the same name or the same number.
Apart(list) ==
    \A i, j \in 1 .. Len(list) : i < j => ~SameNameOrPort(list[i], list[j])

LEMMA PickApart ==
  ASSUME NEW P, NEW ports \in Seq(P)
  PROVE  Apart(Pick(ports))
<1> DEFINE S == KeptAt(ports)
           c == Cardinality(S)
<1>1. /\ Len(Pick(ports)) = c
      /\ \A i \in 1 .. c : /\ Selected(S)[i] \in S
                           /\ Pick(ports)[i] = ports[Selected(S)[i]]
  BY PickIs
<1>2. \A i, j \in 1 .. c : i < j => Selected(S)[i] < Selected(S)[j]
  BY KeptAtOrder, SelectedInOrder
<1>3. ASSUME NEW s \in S, NEW t \in S, s < t
      PROVE  ~SameNameOrPort(ports[s], ports[t])
  <2>1. Len(ports) \in Nat
    OBVIOUS
  <2>2. s \in 1 .. t - 1 /\ t \in 1 .. Len(ports) /\ Kept(ports)[s] /\ Kept(ports)[t]
    BY <1>3, <2>1 DEF KeptAt
  <2>3. Fresh(ports, Kept(ports), t)
    BY <2>1, <2>2, KeptIs
  <2>4. QED
    BY <2>2, <2>3 DEF Fresh
<1> HIDE DEF S, c
<1>4. QED
  BY <1>1, <1>2, <1>3 DEF Apart

\* Each port is kept, or repeats one that is.
LEMMA PickCovers ==
  ASSUME NEW P, NEW ports \in Seq(P), NEW k \in 1 .. Len(ports)
  PROVE  \E i \in 1 .. Len(Pick(ports)) :
            Pick(ports)[i] = ports[k] \/ SameNameOrPort(Pick(ports)[i], ports[k])
<1> DEFINE S == KeptAt(ports)
           c == Cardinality(S)
<1>1. /\ Len(Pick(ports)) = c
      /\ \A i \in 1 .. c : Pick(ports)[i] = ports[Selected(S)[i]]
  BY PickIs
<1>2. \A s \in S : \E i \in 1 .. c : Selected(S)[i] = s
  BY KeptAtOrder, SelectedInOrder
<1>3. \E s \in S : s = k \/ SameNameOrPort(ports[s], ports[k])
  <2>1. Len(ports) \in Nat
    OBVIOUS
  <2>2. CASE Kept(ports)[k]
    BY <2>2 DEF KeptAt
  <2>3. CASE ~Kept(ports)[k]
    <3>1. ~Fresh(ports, Kept(ports), k)
      BY <2>1, <2>3, KeptIs
    <3>2. PICK j \in 1 .. k - 1 : SameNameOrPort(ports[j], ports[k]) /\ Kept(ports)[j]
      BY <3>1 DEF Fresh
    <3>3. QED
      BY <2>1, <3>2 DEF KeptAt
  <2>4. QED
    BY <2>2, <2>3
<1> HIDE DEF S, c
<1>4. QED
  BY <1>1, <1>2, <1>3

-----------------------------------------------------------------------------
(* MergeServicePorts.                                                      *)

LEMMA Concatenation ==
  ASSUME NEW P, NEW p1 \in Seq(P), NEW p2 \in Seq(P)
  PROVE  /\ p1 \o p2 \in Seq(P) /\ Len(p1 \o p2) = Len(p1) + Len(p2)
         /\ Len(p1) \in Nat /\ Len(p2) \in Nat
         /\ \A i \in 1 .. Len(p1) : (p1 \o p2)[i] = p1[i]
         /\ \A i \in 1 .. Len(p2) : (p1 \o p2)[Len(p1) + i] = p2[i]
  OBVIOUS

\* The merged list has ports of the two lists only, and repeats no name and
\* no number of a port: it is one the API server accepts.
THEOREM MergeApart ==
  ASSUME NEW P, NEW p1 \in Seq(P), NEW p2 \in Seq(P)
  PROVE  MergeServicePorts(p1, p2) \in Seq(P) /\ Apart(MergeServicePorts(p1, p2))
  BY Concatenation, MergeIsPick, PickIs, PickApart

\* What a list of ports offers: a port with this name or this number.
Covers(list, p) ==
    \E i \in 1 .. Len(list) : list[i] = p \/ SameNameOrPort(list[i], p)

\* Nothing is dropped but what repeats a name or a number that is there.
THEOREM MergeCovers ==
  ASSUME NEW P, NEW p1 \in Seq(P), NEW p2 \in Seq(P)
  PROVE  /\ \A i \in 1 .. Len(p1) : Covers(MergeServicePorts(p1, p2), p1[i])
         /\ \A i \in 1 .. Len(p2) : Covers(MergeServicePorts(p1, p2), p2[i])
<1> DEFINE ports == p1 \o p2
<1>1. /\ ports \in Seq(P) /\ Len(ports) = Len(p1) + Len(p2)
      /\ Len(p1) \in Nat /\ Len(p2) \in Nat
      /\ \A i \in 1 .. Len(p1) : ports[i] = p1[i]
      /\ \A i \in 1 .. Len(p2) : ports[Len(p1) + i] = p2[i]
  BY Concatenation
<1>2. MergeServicePorts(p1, p2) = Pick(ports)
  BY MergeIsPick
<1> HIDE DEF ports
<1>3. \A k \in 1 .. Len(ports) : Covers(Pick(ports), ports[k])
  BY <1>1, PickCovers DEF Covers
<1>4. \A i \in 1 .. Len(p1) : i \in 1 .. Len(ports)
  BY <1>1
<1>5. \A i \in 1 .. Len(p2) : Len(p1) + i \in 1 .. Len(ports)
  BY <1>1
<1>6. \A i \in 1 .. Len(p1) : Covers(Pick(ports), p1[i])
  BY <1>1, <1>3, <1>4
<1>7. \A i \in 1 .. Len(p2) : Covers(Pick(ports), p2[i])
  BY <1>1, <1>3, <1>5
<1>8. QED
  BY <1>2, <1>6, <1>7

\* The ports of the first list that come before any repetition are kept.
LEMMA FirstKept ==
  ASSUME NEW P, NEW p1 \in Seq(P), NEW p2 \in Seq(P), Apart(p1)
  PROVE  \A i \in 1 .. Len(p1) : Kept(p1 \o p2)[i] /\ i \in 1 .. Len(p1 \o p2)
<1> DEFINE ports == p1 \o p2
<1>1. /\ Len(ports) = Len(p1) + Len(p2) /\ Len(p1) \in Nat /\ Len(p2) \in Nat
      /\ \A i \in 1 .. Len(p1) : ports[i] = p1[i]
  BY Concatenation
<1> HIDE DEF ports
<1>2. ASSUME NEW i \in 1 .. Len(p1)
      PROVE  i \in 1 .. Len(ports) /\ Kept(ports)[i]
  <2>1. i \in 1 .. Len(ports) /\ Len(ports) \in Nat
    BY <1>1
  <2>2. \A j \in 1 .. i - 1 : j \in 1 .. Len(p1) /\ j < i
    BY <1>1
  <2>3. Fresh(ports, Kept(ports), i)
    BY <1>1, <2>2 DEF Fresh, Apart
  <2>4. QED
    BY <2>1, <2>3, KeptIs
<1>3. QED
  BY <1>2 DEF ports

\* The first list stays as it is, at the head of the result, when it repeats
\* nothing itself.
THEOREM MergeKeepsFirst ==
  ASSUME NEW P, NEW p1 \in Seq(P), NEW p2 \in Seq(P), Apart(p1)
  PROVE  \A i \in 1 .. Len(p1) : /\ i \in 1 .. Len(MergeServicePorts(p1, p2))
                                 /\ MergeServicePorts(p1, p2)[i] = p1[i]
<1> DEFINE ports == p1 \o p2
           S == KeptAt(ports)
           c == Cardinality(S)
<1>1. /\ ports \in Seq(P) /\ Len(p1) \in Nat
      /\ \A i \in 1 .. Len(p1) : ports[i] = p1[i]
  BY Concatenation
<1>2. \A i \in 1 .. Len(p1) : i \in S
  BY FirstKept DEF KeptAt
<1>3. MergeServicePorts(p1, p2) = Pick(ports)
  BY MergeIsPick
<1> HIDE DEF ports
<1>4. /\ Len(Pick(ports)) = c
      /\ \A i \in 1 .. c : Pick(ports)[i] = ports[Selected(S)[i]]
  BY <1>1, PickIs
<1>5. \A i \in 1 .. Len(p1) : i \in 1 .. c /\ Selected(S)[i] = i
  <2>1. S \in SUBSET (Nat \ {0}) /\ IsFiniteSet(S)
    BY <1>1, KeptAtOrder
  <2> HIDE DEF S
  <2>2. QED
    BY <1>1, <1>2, <2>1, SelectedInOrder
<1>6. QED
  BY <1>1, <1>3, <1>4, <1>5

\* A list to which the second one adds nothing stays as it is.
LEMMA MergeNothing ==
  ASSUME NEW P, NEW R \in Seq(P), NEW p2 \in Seq(P), Apart(R),
         \A k \in 1 .. Len(p2) : \E i \in 1 .. Len(R) : SameNameOrPort(R[i], p2[k])
  PROVE  MergeServicePorts(R, p2) = R
<1> DEFINE ports == R \o p2
           S == KeptAt(ports)
           n == Len(R)
<1>1. /\ ports \in Seq(P) /\ Len(ports) = n + Len(p2)
      /\ n \in Nat /\ Len(p2) \in Nat /\ Len(ports) \in Nat
      /\ \A i \in 1 .. n : ports[i] = R[i]
      /\ \A i \in 1 .. Len(p2) : ports[n + i] = p2[i]
  BY Concatenation
<1>2. \A i \in 1 .. n : Kept(ports)[i] /\ i \in 1 .. Len(ports)
  BY FirstKept
<1>3. MergeServicePorts(R, p2) = Pick(ports)
  BY MergeIsPick
<1> HIDE DEF ports
<1>4. ASSUME NEW k \in 1 .. Len(ports), ~(k \in 1 .. n) PROVE ~Kept(ports)[k]
  <2>1. k - n \in 1 .. Len(p2) /\ ports[k] = p2[k - n]
    <3>1. k - n \in 1 .. Len(p2) /\ n + (k - n) = k
      BY <1>1, <1>4
    <3>2. QED
      BY <1>1, <3>1
  <2>2. PICK i \in 1 .. n : SameNameOrPort(R[i], ports[k])
    BY <2>1
  <2>3. i \in 1 .. k - 1 /\ ports[i] = R[i] /\ Kept(ports)[i]
    BY <1>1, <1>2, <1>4
  <2>4. ~Fresh(ports, Kept(ports), k)
    BY <2>2, <2>3 DEF Fresh
  <2>5. QED
    BY <1>1, <2>4, KeptIs
<1>5. S = 1 .. n
  <2>1. \A k \in 1 .. n : k \in S
    BY <1>2 DEF KeptAt
  <2>2. \A k \in S : k \in 1 .. n
    BY <1>4 DEF KeptAt
  <2>3. QED
    BY <2>1, <2>2, Zenon
<1>6. Cardinality(S) = n
  <2> HIDE DEF n
  <2>1. Cardinality(1 .. n) = n
    BY <1>1, FS_Interval
  <2>2. QED
    BY <1>5, <2>1, Zenon
<1>7. Pick(ports) \in Seq(P) /\ Len(Pick(ports)) = n
  BY <1>1, <1>6, PickIs
<1>8. \A i \in 1 .. n : MergeServicePorts(R, p2)[i] = R[i]
  BY MergeKeepsFirst
<1>9. QED
  <2>1. R \in Seq(P) /\ Len(R) = n /\ \A i \in 1 .. n : Pick(ports)[i] = R[i]
    BY <1>3, <1>8
  <2> HIDE DEF n
  <2>2. Pick(ports) = R
    BY <1>7, <2>1
  <2>3. QED
    BY <1>3, <2>2

\* Merging the same ports once more changes nothing, so that a resource that
\* is defaulted on every write does not grow.
THEOREM MergeIdempotent ==
  ASSUME NEW P, NEW p1 \in Seq(P), NEW p2 \in Seq(P)
  PROVE  MergeServicePorts(MergeServicePorts(p1, p2), p2) = MergeServicePorts(p1, p2)
<1> DEFINE R == MergeServicePorts(p1, p2)
<1>1. R \in Seq(P) /\ Apart(R)
  BY MergeApart
<1>2. \A k \in 1 .. Len(p2) : Covers(R, p2[k])
  BY MergeCovers
<1> HIDE DEF R
<1>3. \A k \in 1 .. Len(p2) : \E i \in 1 .. Len(R) : SameNameOrPort(R[i], p2[k])
  BY <1>2 DEF Covers, SameNameOrPort
<1>4. MergeServicePorts(R, p2) = R
  BY <1>1, <1>3, MergeNothing
<1>5. QED
  BY <1>4 DEF R

-----------------------------------------------------------------------------
(* Ports by name.                                                          *)

LEMMA ByNameIs ==
  ASSUME NEW S
  PROVE  ByName(S) = [i \in 1 .. Cardinality(S) |->
            CHOOSE p \in S :
                i = Cardinality({q \in S : NameRank[q.name] <= NameRank[p.name]})]
  BY DEF ByName, InOrder

\* The ports are told apart by the rank of their names.
Ranked(S) ==
    /\ \A p \in S : NameRank[p.name] \in Nat
    /\ \A p, q \in S : NameRank[p.name] = NameRank[q.name] => p = q

\* ByName lists the ports of a set, and all of them.
LEMMA ByNameLists ==
  ASSUME NEW S, IsFiniteSet(S), Ranked(S)
  PROVE  /\ ByName(S) \in Seq(S)
         /\ \A p \in S : \E i \in 1 .. Len(ByName(S)) : ByName(S)[i] = p
<1> DEFINE r == [p \in S |-> NameRank[p.name]]
           c == Cardinality(S)
           Place(p) == Cardinality({q \in S : NameRank[q.name] <= NameRank[p.name]})
<1>1. c \in Nat
  BY FS_CardinalityType
<1>2. r \in [S -> Nat] /\ (\A p, q \in S : r[p] = r[q] => p = q) /\ S \in SUBSET S
  BY DEF Ranked
<1>3. ASSUME NEW p \in S PROVE Place(p) = Cardinality(UpTo(S, r, p))
  <2>1. {q \in S : NameRank[q.name] <= NameRank[p.name]} = UpTo(S, r, p)
    BY DEF UpTo
  <2>2. QED
    BY <2>1, Zenon
<1>4. ByName(S) = [i \in 1 .. c |-> CHOOSE p \in S : i = Place(p)]
  BY ByNameIs
<1> HIDE DEF r, Place
<1>5. ASSUME NEW i \in 1 .. c PROVE ByName(S)[i] \in S /\ i = Place(ByName(S)[i])
  <2>1. \E p \in S : i = Place(p)
    <3>1. \E p \in S : i = Cardinality(UpTo(S, r, p))
      BY <1>2, PlaceExists
    <3>2. QED
      BY <1>3, <3>1
  <2>2. QED
    BY <1>4, <2>1
<1>6. ASSUME NEW p \in S PROVE Place(p) \in 1 .. c /\ ByName(S)[Place(p)] = p
  <2>1. Place(p) \in 1 .. c
    <3>1. Cardinality(UpTo(S, r, p)) \in 1 .. c
      BY <1>2, PlaceRange
    <3>2. QED
      BY <1>3, <3>1
  <2>2. PICK q \in S : q = ByName(S)[Place(p)] /\ Place(p) = Place(q)
    BY <2>1, <1>5
  <2>3. Cardinality(UpTo(S, r, p)) = Cardinality(UpTo(S, r, q))
    BY <1>3, <2>2
  <2>4. p = q
    BY <1>2, <2>3, PlaceUnique
  <2>5. QED
    BY <2>1, <2>2, <2>4
<1>7. ByName(S) \in [1 .. c -> S]
  BY <1>4, <1>5
<1> HIDE DEF c
<1>8. ByName(S) \in Seq(S) /\ Len(ByName(S)) = c
  BY <1>1, <1>7
<1>9. QED
  BY <1>6, <1>8

=============================================================================
