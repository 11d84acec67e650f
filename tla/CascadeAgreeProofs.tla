------------------------- MODULE CascadeAgreeProofs -------------------------
(***************************************************************************)
(* Proofs that the two backends answer a cascade alike.  LadybugBackend    *)
(* asks for acyclic paths of bounded length, InMemoryBackend walks breadth *)
(* first: both are compared with what lies within a number of hops.        *)
(***************************************************************************)
EXTENDS MemoryWalkProofs

\* The order of the natural numbers, as the relation WFMin takes.
LessThan == {ss \in Nat \X Nat : ss[1] < ss[2]}

\* A set of numbers that is not empty has a least one.
LEMMA LeastNumber ==
  ASSUME NEW S, S \subseteq Nat, S # {}
  PROVE  \E n \in S : \A m \in S : n <= m
<1>1. IsWellFoundedOn(LessThan, Nat)
  BY NatLessThanWellFounded DEF OpToRel, LessThan
<1>2. PICK n \in S : \A m \in S : ~ (<<m, n>> \in LessThan)
  BY <1>1, WFMin
<1>3. ASSUME NEW m \in S PROVE n <= m
  <2>1. m \in Nat /\ n \in Nat
    OBVIOUS
  <2>2. <<m, n>> \in LessThan <=> m < n
    BY <2>1 DEF LessThan
  <2>3. QED
    BY <1>2, <2>1, <2>2
<1>4. QED
  BY <1>3

-----------------------------------------------------------------------------
(* The graph: finitely many stored states, and only stored states have, or  *)
(* are, dependents.                                                         *)

Grounded ==
  /\ IsFiniteSet(Ids)
  /\ \A x : Dependents(x) \subseteq Ids
  /\ \A x : Dependents(x) # {} => x \in Ids

\* Every edge the engine stores has both its endpoints.
LEMMA GraphIsGrounded ==
  ASSUME IInv, IsFiniteSet(states)
  PROVE  Grounded
<1>1. IsFiniteSet(Ids)
  <2>1. [x \in states |-> x.id] \in Surjection(states, Ids)
    BY DEF Surjection, Ids
  <2>2. QED
    BY <2>1, FS_Surjection
<1>2. ASSUME NEW x, NEW y \in Dependents(x)
      PROVE  {x, y} \subseteq Ids
  <2>1. PICK n \in edges : n[3] = x /\ n[2] = y
    BY DependentsOfEdges
  <2>2. QED
    BY <2>1 DEF IInv, Anchored
<1>3. QED
  BY <1>1, <1>2 DEF Grounded

-----------------------------------------------------------------------------
(* The acyclic paths of LadybugBackend.traverse.                            *)

\* An acyclic path of n edges leads from s to x.
Reaches(s, x, n) == \E p \in AcyclicPaths(s, n) : p[n] = x

LEMMA PathPrefix ==
  ASSUME NEW s, NEW n \in Nat, NEW p \in AcyclicPaths(s, n), NEW i \in 0 .. n
  PROVE  Reaches(s, p[i], i)
<1> DEFINE q == [j \in 0 .. i |-> p[j]]
<1>1. q \in AcyclicPaths(s, i)
  BY DEF AcyclicPaths
<1>2. QED
  BY <1>1 DEF Reaches

\* A path that cannot be extended by y has been at y.
LEMMA PathExtends ==
  ASSUME Grounded, NEW s, NEW n \in Nat, NEW x, Reaches(s, x, n),
         NEW y \in Dependents(x)
  PROVE  \E m \in 0 .. n + 1 : Reaches(s, y, m)
<1>1. PICK p \in AcyclicPaths(s, n) : p[n] = x
  BY DEF Reaches
<1>2. CASE \E i \in 0 .. n : p[i] = y
  BY <1>2, PathPrefix
<1>3. CASE \A i \in 0 .. n : p[i] # y
  <2> DEFINE q == [j \in 0 .. n + 1 |-> IF j = n + 1 THEN y ELSE p[j]]
  <2>0. /\ p \in [0 .. n -> Ids] /\ p[0] = s
        /\ \A i \in 1 .. n : p[i] \in Dependents(p[i - 1])
        /\ \A i, j \in 0 .. n : p[i] = p[j] => i = j
    BY DEF AcyclicPaths
  <2>1. q \in [0 .. n + 1 -> Ids] /\ q[0] = s
    BY <2>0 DEF Grounded
  <2>2. ASSUME NEW i \in 1 .. n + 1
        PROVE  q[i] \in Dependents(q[i - 1])
    <3>1. CASE i = n + 1
      <4>1. q[i] = y /\ q[i - 1] = p[n]
        BY <3>1
      <4>2. QED
        BY <1>1, <4>1
    <3>2. CASE i # n + 1
      <4>1. i \in 1 .. n /\ q[i] = p[i] /\ q[i - 1] = p[i - 1]
        BY <3>2
      <4>2. QED
        BY <2>0, <4>1
    <3>3. QED
      BY <3>1, <3>2
  <2>3. ASSUME NEW i \in 0 .. n + 1, NEW j \in 0 .. n + 1, q[i] = q[j]
        PROVE  i = j
    BY <1>3, <2>0, <2>3
  <2>4. q \in AcyclicPaths(s, n + 1)
    <3> HIDE DEF q
    <3> QED BY <2>1, <2>2, <2>3 DEF AcyclicPaths
  <2>5. q[n + 1] = y
    OBVIOUS
  <2>6. Reaches(s, y, n + 1)
    <3> HIDE DEF q
    <3> QED BY <2>4, <2>5 DEF Reaches
  <2>7. QED
    BY <2>6
<1>4. QED
  BY <1>2, <1>3

LEMMA PathIsStored ==
  ASSUME NEW s, NEW n \in Nat, NEW x, Reaches(s, x, n)
  PROVE  x \in Ids /\ (n = 0 => x = s)
  BY DEF Reaches, AcyclicPaths

LEMMA PathLast ==
  ASSUME NEW s, NEW n \in Nat, NEW y, Reaches(s, y, n + 1)
  PROVE  \E x : Reaches(s, x, n) /\ y \in Dependents(x)
<1>1. PICK p \in AcyclicPaths(s, n + 1) : p[n + 1] = y
  BY DEF Reaches
<1>2. Reaches(s, p[n], n)
  BY <1>1, PathPrefix
<1>3. y \in Dependents(p[n])
  <2>1. p[n + 1] \in Dependents(p[(n + 1) - 1])
    BY DEF AcyclicPaths
  <2>2. QED
    BY <1>1, <2>1
<1>4. QED
  BY <1>2, <1>3

\* No acyclic path is as long as there are states.
LEMMA PathIsShort ==
  ASSUME Grounded, NEW s, NEW n \in Nat, NEW x, Reaches(s, x, n)
  PROVE  Cardinality(Ids) \in Nat /\ n < Cardinality(Ids)
<1>1. PICK p \in AcyclicPaths(s, n) : TRUE
  BY DEF Reaches
<1>2. p \in Injection(0 .. n, Ids)
  BY DEF AcyclicPaths, Injection, IsInjective
<1>3. Cardinality(0 .. n) = n + 1
  BY FS_Interval
<1>4. Cardinality(0 .. n) <= Cardinality(Ids)
  BY <1>2, FS_Injection DEF Grounded
<1>5. Cardinality(Ids) \in Nat
  BY FS_CardinalityType DEF Grounded
<1>6. QED
  BY <1>3, <1>4, <1>5

\* A path from a node of a closed set stays in it.
LEMMA PathStays ==
  ASSUME NEW T, Closed(T), NEW s \in T, NEW n \in Nat, NEW x,
         Reaches(s, x, n)
  PROVE  x \in T
<1>1. PICK p \in AcyclicPaths(s, n) : p[n] = x
  BY DEF Reaches
<1>2. /\ p[0] = s
      /\ \A i \in 1 .. n : p[i] \in Dependents(p[i - 1])
  BY DEF AcyclicPaths
<1> DEFINE Out == {i \in 0 .. n : p[i] \notin T}
<1>3. SUFFICES ASSUME Out # {} PROVE FALSE
  BY <1>1
<1>4. PICK i \in Out : \A j \in Out : i <= j
  <2>1. Out \subseteq Nat
    OBVIOUS
  <2>2. QED
    BY <1>3, <2>1, LeastNumber
<1>5. i # 0
  BY <1>2
<1>6. i \in 1 .. n /\ i - 1 \in 0 .. n /\ i - 1 \notin Out
  BY <1>4, <1>5
<1>7. QED
  BY <1>2, <1>6 DEF Closed

-----------------------------------------------------------------------------
(* What lies within a number of hops, and at exactly that many.              *)

Within(s, n) == {s} \cup {x \in Ids : \E m \in 0 .. n : Reaches(s, x, m)}

Ring(s, n) == IF n = 0 THEN {s} ELSE Within(s, n) \ Within(s, n - 1)

\* s and the dependents of what lies within n hops lie within n + 1, and
\* nothing else does.
LEMMA WithinNext ==
  ASSUME Grounded, NEW s, NEW n \in Nat
  PROVE  /\ Within(s, 0) = {s}
         /\ Within(s, n) \subseteq Within(s, n + 1)
         /\ \A x \in Within(s, n) : Dependents(x) \subseteq Within(s, n + 1)
         /\ \A y \in Within(s, n + 1) \ Within(s, n) :
              \E x \in Within(s, n) : y \in Dependents(x)
<1>1. Within(s, 0) = {s}
  <2>1. ASSUME NEW x, NEW m \in 0 .. 0, Reaches(s, x, m)
        PROVE  x = s
    BY <2>1, PathIsStored
  <2>2. QED
    BY <2>1 DEF Within
<1>2. Within(s, n) \subseteq Within(s, n + 1)
  BY DEF Within
<1>3. ASSUME NEW x \in Within(s, n), NEW y \in Dependents(x)
      PROVE  y \in Within(s, n + 1)
  <2>1. x \in Ids /\ y \in Ids
    BY DEF Grounded
  <2>2. \E m \in 0 .. n : Reaches(s, x, m)
    <3>1. CASE x = s
      <4> DEFINE p == [i \in 0 .. 0 |-> s]
      <4>1. p \in AcyclicPaths(s, 0) /\ p[0] = s
        BY <2>1, <3>1 DEF AcyclicPaths
      <4>2. QED
        BY <3>1, <4>1 DEF Reaches
    <3>2. QED
      BY <3>1 DEF Within
  <2>3. PICK m \in 0 .. n : Reaches(s, x, m)
    BY <2>2
  <2>4. \E k \in 0 .. m + 1 : Reaches(s, y, k)
    BY <2>3, PathExtends
  <2>5. QED
    BY <2>1, <2>4 DEF Within
<1>4. ASSUME NEW y \in Within(s, n + 1) \ Within(s, n)
      PROVE  \E x \in Within(s, n) : y \in Dependents(x)
  <2>1. PICK m \in 0 .. n + 1 : Reaches(s, y, m)
    BY DEF Within
  <2>2. y \in Ids /\ m \notin 0 .. n
    BY <2>1 DEF Within
  <2>3. m = n + 1
    BY <2>2
  <2>4. PICK x : Reaches(s, x, n) /\ y \in Dependents(x)
    BY <2>1, <2>3, PathLast
  <2>5. x \in Within(s, n)
    BY <2>4 DEF Within, Grounded
  <2>6. QED
    BY <2>4, <2>5
<1>5. QED
  BY <1>1, <1>2, <1>3, <1>4

LEMMA WithinStays ==
  ASSUME NEW T, Closed(T), NEW s \in T, NEW n \in Nat
  PROVE  Within(s, n) \subseteq T
  BY PathStays DEF Within

LEMMA WithinGrows ==
  ASSUME NEW s, NEW n \in Nat, NEW m \in Nat, m <= n
  PROVE  Within(s, m) \subseteq Within(s, n)
  BY DEF Within

\* What lies within n hops holds all dependents of what lies closer.
LEMMA RingIsLast ==
  ASSUME Grounded, NEW s, NEW n \in Nat, NEW x \in Within(s, n),
         x \notin Ring(s, n)
  PROVE  Dependents(x) \subseteq Within(s, n)
<1>1. n # 0
  BY WithinNext DEF Ring
<1>2. n - 1 \in Nat /\ x \in Within(s, n - 1)
  BY <1>1 DEF Ring
<1>3. Dependents(x) \subseteq Within(s, (n - 1) + 1)
  BY <1>2, WithinNext
<1>4. (n - 1) + 1 = n
  OBVIOUS
<1>5. QED
  BY <1>3, <1>4

\* An empty ring ends the graph: what lies within a hop less is closed.
LEMMA EmptyRing ==
  ASSUME Grounded, NEW s, NEW n \in Nat \ {0}, Ring(s, n) = {}
  PROVE  Closed(Within(s, n)) /\ \A m \in Nat : m >= n => Ring(s, m) = {}
<1>1. n - 1 \in Nat /\ (n - 1) + 1 = n
  OBVIOUS
<1>2. Within(s, n - 1) \subseteq Within(s, n)
  BY <1>1, WithinGrows
<1>3. Within(s, n) = Within(s, n - 1)
  BY <1>2 DEF Ring
<1>4. Closed(Within(s, n))
  <2>1. \A x \in Within(s, n - 1) : Dependents(x) \subseteq Within(s, n)
    BY <1>1, WithinNext
  <2>2. QED
    BY <1>3, <2>1 DEF Closed
<1>5. ASSUME NEW m \in Nat, m >= n
      PROVE  Ring(s, m) = {}
  <2>1. s \in Within(s, n) /\ m # 0 /\ m - 1 \in Nat
    BY <1>5 DEF Within
  <2>2. Within(s, m) \subseteq Within(s, n)
    BY <1>4, <2>1, WithinStays
  <2>3. CASE m = n
    BY <2>3
  <2>4. CASE m # n
    <3>1. Within(s, n) \subseteq Within(s, m - 1)
      BY <1>5, <2>1, <2>4, WithinGrows
    <3>2. QED
      BY <2>1, <2>2, <3>1 DEF Ring
  <2>5. QED
    BY <2>3, <2>4
<1>6. QED
  BY <1>4, <1>5

-----------------------------------------------------------------------------
(* LadybugBackend.traverse in these terms.                                   *)

LEMMA LengthsWithin ==
  ASSUME Grounded, NEW s, NEW id \in Ids \ {s}, NEW n \in Nat
  PROVE  /\ Lengths(s, id, n) # {} <=> id \in Within(s, n)
         /\ n # 0 /\ id \in Within(s, n) =>
              (IsLeast(n, Lengths(s, id, n)) <=> id \in Ring(s, n))
<1>1. \A m \in Nat : m \in Lengths(s, id, n) <=>
                       m <= n /\ Reaches(s, id, m)
  <2> SUFFICES ASSUME NEW m \in Nat
               PROVE  m \in Lengths(s, id, n) <=> m <= n /\ Reaches(s, id, m)
    OBVIOUS
  <2>1. m \in Lengths(s, id, n) <=>
          m \in 1 .. Cardinality(Ids) /\ m <= n /\ Reaches(s, id, m)
    BY DEF Lengths, Reaches
  <2>2. Reaches(s, id, m) => m \in 1 .. Cardinality(Ids)
    BY PathIsShort, PathIsStored
  <2>3. QED
    BY <2>1, <2>2
<1>2. Lengths(s, id, n) \subseteq Nat
  <2>1. Lengths(s, id, n) \subseteq 1 .. Cardinality(Ids)
    BY DEF Lengths
  <2>2. Cardinality(Ids) \in Nat
    BY FS_CardinalityType DEF Grounded
  <2>3. QED
    BY <2>1, <2>2
<1>3. \A k \in Nat : id \in Within(s, k) <=>
                       \E m \in 0 .. k : Reaches(s, id, m)
  BY DEF Within
<1>4. Lengths(s, id, n) # {} <=> id \in Within(s, n)
  BY <1>1, <1>2, <1>3
<1>5. ASSUME n # 0, id \in Within(s, n)
      PROVE  IsLeast(n, Lengths(s, id, n)) <=> id \in Ring(s, n)
  <2>1. n - 1 \in Nat
    BY <1>5
  <2>2. id \in Ring(s, n) <=> \A m \in 0 .. n - 1 : ~ Reaches(s, id, m)
    BY <1>3, <1>5, <2>1 DEF Ring
  <2>3. IsLeast(n, Lengths(s, id, n)) <=>
          /\ Reaches(s, id, n)
          /\ \A m \in Nat : m <= n /\ Reaches(s, id, m) => n <= m
    BY <1>1, <1>2 DEF IsLeast
  <2>4. \E m \in 0 .. n : Reaches(s, id, m)
    BY <1>3, <1>5
  <2>5. QED
    BY <2>2, <2>3, <2>4
<1>6. QED
  BY <1>4, <1>5

LEMMA LadybugBounded ==
  ASSUME Grounded, NEW s, NEW d \in Nat
  PROVE  LadybugTraverse(s, d) =
           [reached |-> Within(s, d) \ {s},
            frontier |-> {x \in Ring(s, d) : Dependents(x) # {}}]
<1> DEFINE found == {id \in Ids \ {s} : Lengths(s, id, d) # {}}
           last == IF d = 0 THEN {s}
                   ELSE {id \in found : IsLeast(d, Lengths(s, id, d))}
<1>1. d # NoBound /\ ~ (d < 0)
  BY CascadeAssumption
<1>2. LadybugTraverse(s, d) =
        [reached |-> found,
         frontier |-> {id \in last : Dependents(id) # {}}]
  BY <1>1 DEF LadybugTraverse
<1>3. found = Within(s, d) \ {s}
  BY LengthsWithin DEF Within
<1>4. last = Ring(s, d)
  <2>1. CASE d = 0
    BY <2>1 DEF Ring
  <2>2. CASE d # 0
    <3>1. s \in Within(s, d - 1) /\ Within(s, d) \subseteq {s} \cup Ids
      BY DEF Within
    <3>2. Ring(s, d) \subseteq found
      BY <1>3, <2>2, <3>1 DEF Ring
    <3>3. \A id \in found :
            IsLeast(d, Lengths(s, id, d)) <=> id \in Ring(s, d)
      BY <1>3, <2>2, LengthsWithin
    <3>4. QED
      BY <2>2, <3>2, <3>3
  <2>3. QED
    BY <2>1, <2>2
<1>5. QED
  BY <1>2, <1>3, <1>4

\* With no depth it goes to its ceiling, and raises just when the graph goes
\* there.
LEMMA LadybugUnbounded ==
  ASSUME Grounded, NEW s
  PROVE  LadybugTraverse(s, NoBound) =
           IF Ring(s, DepthCeiling) # {} THEN Raised
           ELSE [reached |-> Within(s, DepthCeiling) \ {s}, frontier |-> {}]
<1> DEFINE C == DepthCeiling
           found == {id \in Ids \ {s} : Lengths(s, id, C) # {}}
           last == {id \in found : IsLeast(C, Lengths(s, id, C))}
<1>1. C \in Nat \ {0}
  BY CascadeAssumption
<1>2. LadybugTraverse(s, NoBound) =
        IF last # {} THEN Raised
        ELSE [reached |-> found,
              frontier |-> {id \in last : Dependents(id) # {}}]
  BY <1>1 DEF LadybugTraverse
<1>3. found = Within(s, C) \ {s}
  BY <1>1, LengthsWithin DEF Within
<1>4. last = Ring(s, C)
  <2>1. s \in Within(s, C - 1) /\ Within(s, C) \subseteq {s} \cup Ids
    BY DEF Within
  <2>2. Ring(s, C) \subseteq found
    BY <1>1, <1>3, <2>1 DEF Ring
  <2>3. \A id \in found :
          IsLeast(C, Lengths(s, id, C)) <=> id \in Ring(s, C)
    BY <1>1, <1>3, LengthsWithin
  <2>4. QED
    BY <2>2, <2>3
<1>5. QED
  BY <1>2, <1>3, <1>4

\* What a traverse returns is no refusal.
LEMMA FoundIsNotRaised ==
  \A R, F : [reached |-> R, frontier |-> F] # Raised
<1> SUFFICES ASSUME NEW R, NEW F, [reached |-> R, frontier |-> F] = Raised
             PROVE  FALSE
  OBVIOUS
<1>1. DOMAIN [reached |-> R, frontier |-> F] = DOMAIN Raised
  OBVIOUS
<1>2. DOMAIN [reached |-> R, frontier |-> F] = {"reached", "frontier"}
  OBVIOUS
<1>3. DOMAIN Raised = {"raised"}
  BY DEF Raised
<1>4. QED
  BY <1>1, <1>2, <1>3

-----------------------------------------------------------------------------
(* InMemoryBackend.traverse under a bound walks ring by ring.               *)

LayerInv ==
  at # "idle" =>
    /\ bound \in Bounds
    /\ bound \in Nat =>
         /\ depth \in 0 .. bound
         /\ seen = Within(start, depth) \cup nxt
         /\ nxt \subseteq Within(start, depth + 1)
         /\ nxt \cap Within(start, depth) = {}
         /\ layer \subseteq Ring(start, depth)
         /\ depth < bound =>
              /\ frontier = {}
              /\ \A x \in Ring(start, depth) \ layer : Dependents(x) \subseteq seen
         /\ depth = bound =>
              /\ nxt = {}
              /\ frontier = {x \in Ring(start, depth) \ layer :
                               Dependents(x) # {}}

\* Nothing of the graph changes while it is walked.
LEMMA HopsStay ==
  ASSUME UNCHANGED vars
  PROVE  /\ \A x : Dependents(x)' = Dependents(x)
         /\ \A s, n : Within(s, n)' = Within(s, n)
         /\ \A s, n : Ring(s, n)' = Ring(s, n)
<1>1. Ids' = Ids /\ \A x : Dependents(x)' = Dependents(x)
  BY DEF vars, store, Ids, Dependents, StoredEdges
<1>2. \A s, n : AcyclicPaths(s, n)' = AcyclicPaths(s, n)
  BY <1>1 DEF AcyclicPaths
<1>3. \A s, n : Within(s, n)' = Within(s, n)
  BY <1>1, <1>2 DEF Within, Reaches
<1>4. QED
  BY <1>1, <1>3 DEF Ring

\* A layer with no node left has led to all of the next ring.
LEMMA LayerEnds ==
  ASSUME Grounded, LayerInv, at # "idle", bound \in Nat, depth < bound,
         layer = {}
  PROVE  seen = Within(start, depth + 1)
<1>1. depth \in Nat
  BY DEF LayerInv
<1>2. Within(start, depth) \subseteq Within(start, depth + 1)
  BY <1>1, WithinNext
<1>3. \A x \in Within(start, depth) : Dependents(x) \subseteq seen
  BY <1>1, RingIsLast DEF LayerInv
<1>4. \A y \in Within(start, depth + 1) \ Within(start, depth) : y \in seen
  BY <1>1, <1>3, WithinNext
<1>5. QED
  BY <1>2, <1>4 DEF LayerInv

LEMMA VisitKeepsLayerInv ==
  ASSUME Grounded, LayerInv, NEW x \in layer, Visit(x)
  PROVE  LayerInv'
<1>1. /\ UNCHANGED <<vars, start, bound, depth>>
      /\ at = "walk" /\ at' = "walk"
      /\ layer' = layer \ {x}
  BY DEF Visit
<1>2. bound \in Bounds
  BY <1>1 DEF LayerInv
<1>3. SUFFICES ASSUME bound \in Nat
               PROVE  LayerInv'
  BY <1>1, <1>2 DEF LayerInv, Bounds
<1> DEFINE W == Within(start, depth)
           Ahead == Within(start, depth + 1)
           R == Ring(start, depth)
<1>4. /\ W' = W /\ Ahead' = Ahead /\ R' = R
      /\ \A y : Dependents(y)' = Dependents(y)
  BY <1>1, HopsStay DEF Ring, Within, Reaches, AcyclicPaths, Ids, Dependents,
     StoredEdges, vars, store
<1>5. /\ depth \in 0 .. bound
      /\ seen = W \cup nxt
      /\ nxt \subseteq Ahead
      /\ nxt \cap W = {}
      /\ layer \subseteq R
      /\ depth < bound =>
           /\ frontier = {}
           /\ \A y \in R \ layer : Dependents(y) \subseteq seen
      /\ depth = bound =>
           /\ nxt = {}
           /\ frontier = {y \in R \ layer : Dependents(y) # {}}
  BY <1>1, <1>3 DEF LayerInv
<1>6. bound # NoBound /\ (PastBound <=> depth = bound)
  BY <1>3, <1>5, CascadeAssumption DEF PastBound
<1>7. x \in W /\ Dependents(x) \subseteq Ahead
  <2>1. R \subseteq W
    BY <1>5, WithinNext DEF Ring
  <2>2. QED
    BY <1>5, <2>1, WithinNext
<1>8. /\ seen' = W \cup nxt'
      /\ nxt' \subseteq Ahead
      /\ nxt' \cap W = {}
      /\ depth < bound =>
           /\ frontier' = {}
           /\ \A y \in R \ layer' : Dependents(y) \subseteq seen'
      /\ depth = bound =>
           /\ nxt' = {}
           /\ frontier' = {y \in R \ layer' : Dependents(y) # {}}
  <2> HIDE DEF W, Ahead, R
  <2>1. CASE AtBound(x)
    <3>1. /\ depth = bound /\ UNCHANGED <<nxt, seen>>
          /\ frontier' = frontier \cup {y \in {x} : Dependents(x) # {}}
      BY <1>6, <2>1 DEF AtBound
    <3>2. QED
      BY <1>1, <1>5, <3>1
  <2>2. CASE Discover(x)
    <3>1. /\ depth # bound
          /\ seen' = seen \cup (Dependents(x) \ seen)
          /\ nxt' = nxt \cup (Dependents(x) \ seen)
          /\ frontier' = frontier
      BY <1>6, <2>2 DEF Discover
    <3>2. QED
      BY <1>1, <1>5, <1>7, <3>1
  <2>3. QED
    BY <2>1, <2>2 DEF Visit
<1>9. QED
  BY <1>1, <1>2, <1>4, <1>5, <1>8 DEF LayerInv, Bounds

LEMMA NextLayerKeepsLayerInv ==
  ASSUME Grounded, LayerInv, NextLayer
  PROVE  LayerInv'
<1>1. /\ UNCHANGED <<vars, start, bound, seen, frontier>>
      /\ at = "walk" /\ at' = "walk"
      /\ layer = {} /\ nxt # {} /\ layer' = nxt /\ nxt' = {}
  BY DEF NextLayer
<1>2. bound \in Bounds
  BY <1>1 DEF LayerInv
<1>3. SUFFICES ASSUME bound \in Nat
               PROVE  LayerInv'
  BY <1>1, <1>2 DEF LayerInv, Bounds
<1>4. depth \in 0 .. bound /\ depth # bound /\ frontier = {}
  BY <1>1, <1>3 DEF LayerInv
<1>5. depth' = depth + 1 /\ (depth + 1) - 1 = depth
  BY <1>3, <1>4, CascadeAssumption DEF NextLayer
<1>6. seen = Within(start, depth + 1)
  BY <1>1, <1>3, <1>4, LayerEnds
<1>7. nxt = Ring(start, depth + 1)
  BY <1>1, <1>3, <1>4, <1>5, <1>6 DEF LayerInv, Ring
<1>8. /\ Within(start, depth)' = Within(start, depth + 1)
      /\ Ring(start, depth)' = Ring(start, depth + 1)
  BY <1>1, <1>5, HopsStay DEF Ring, Within, Reaches, AcyclicPaths, Ids,
     Dependents, StoredEdges, vars, store
<1>9. QED
  BY <1>1, <1>2, <1>3, <1>4, <1>5, <1>6, <1>7, <1>8 DEF LayerInv

LEMMA StepKeepsLayerInv ==
  ASSUME Grounded, LayerInv, [WalkNext]_all
  PROVE  LayerInv'
<1>1. CASE OtherCall
  BY <1>1 DEF OtherCall, walk, LayerInv
<1>2. ASSUME NEW id \in StateIds, NEW d \in Bounds, CallImpact(id, d)
      PROVE  LayerInv'
  <2>1. /\ at' = "walk" /\ start' = id /\ bound' = d /\ depth' = 0
        /\ layer' = {id} /\ nxt' = {} /\ seen' = {id} /\ frontier' = {}
    BY <1>2 DEF CallImpact
  <2>2. Within(id, 0) = {id} /\ Ring(id, 0) = {id}
    BY WithinNext DEF Ring
  <2>3. Within(start, depth)' = {id} /\ Ring(start, depth)' = {id}
    <3>1. UNCHANGED vars
      BY <1>2 DEF CallImpact
    <3>2. QED
      BY <2>1, <2>2, <3>1, HopsStay DEF Ring, Within, Reaches, AcyclicPaths,
         Ids, Dependents, StoredEdges, vars, store
  <2>4. QED
    BY <2>1, <2>3 DEF LayerInv
<1>3. ASSUME NEW x \in layer, Visit(x)
      PROVE  LayerInv'
  BY <1>3, VisitKeepsLayerInv
<1>4. CASE NextLayer
  BY <1>4, NextLayerKeepsLayerInv
<1>5. ASSUME UNCHANGED <<vars, start, bound, loop>>,
             at' = at \/ (at = "walk" /\ at' = "done")
      PROVE  LayerInv'
  <2>1. /\ \A y : Dependents(y)' = Dependents(y)
        /\ Within(start, depth)' = Within(start, depth)
        /\ Within(start, depth + 1)' = Within(start, depth + 1)
        /\ Ring(start, depth)' = Ring(start, depth)
    BY <1>5, HopsStay DEF Ring, Within, Reaches, AcyclicPaths, Ids,
       Dependents, StoredEdges, vars, store, loop
  <2>2. QED
    BY <1>5, <2>1 DEF LayerInv, loop
<1>6. CASE TraverseReturns
  BY <1>5, <1>6 DEF TraverseReturns
<1>7. CASE ImpactReturns
  BY <1>7 DEF ImpactReturns, LayerInv
<1>8. CASE UNCHANGED all
  BY <1>5, <1>8 DEF all, walk
<1>9. QED
  BY <1>1, <1>2, <1>3, <1>4, <1>6, <1>7, <1>8 DEF WalkNext, WalkStep

\* The walk has at each of its steps seen what lies within its depth, and of
\* the next ring what the layer it is in has led to so far.
THEOREM LayerInvariance == WalkSpec => [](Grounded /\ LayerInv)
<1>1. WalkInit => LayerInv
  BY DEF WalkInit, LayerInv
<1>2. IInv /\ IsFiniteSet(states) => Grounded
  BY GraphIsGrounded
<1>3. Grounded /\ LayerInv /\ [WalkNext]_all => LayerInv'
  BY StepKeepsLayerInv
<1>4. QED
  BY <1>1, <1>2, <1>3, WalkImplementsCore, Invariance, FinitelyManyStates, PTL
  DEF WalkSpec

-----------------------------------------------------------------------------
(* A bound below zero is passed at the start.                               *)

BelowZeroInv ==
  (at # "idle" /\ bound \in Int /\ bound < 0) =>
    /\ depth = 0 /\ nxt = {} /\ seen = {start} /\ layer \subseteq {start}
    /\ frontier = {x \in {start} \ layer : Dependents(x) # {}}

LEMMA StepKeepsBelowZero ==
  ASSUME BelowZeroInv, [WalkNext]_all
  PROVE  BelowZeroInv'
<1>1. CASE OtherCall
  BY <1>1 DEF OtherCall, walk, BelowZeroInv
<1>2. ASSUME NEW id \in StateIds, NEW d \in Bounds, CallImpact(id, d)
      PROVE  BelowZeroInv'
  BY <1>2 DEF CallImpact, BelowZeroInv
<1>3. ASSUME NEW x \in layer, Visit(x), at # "idle", bound \in Int, bound < 0
      PROVE  BelowZeroInv'
  <2>1. /\ depth = 0 /\ nxt = {} /\ seen = {start} /\ layer = {start}
        /\ x = start /\ frontier = {}
    BY <1>3 DEF BelowZeroInv
  <2>2. PastBound
    BY <1>3, <2>1, CascadeAssumption DEF PastBound
  <2>3. AtBound(x)
    BY <1>3, <2>2 DEF Visit, Discover
  <2>4. /\ UNCHANGED <<start, depth, nxt, seen>> /\ layer' = {}
        /\ frontier' = {y \in {start} : Dependents(y) # {}}
    BY <1>3, <2>1, <2>3 DEF Visit, AtBound
  <2>5. \A y : Dependents(y)' = Dependents(y)
    BY <1>3, HopsStay DEF Visit
  <2>6. QED
    BY <2>1, <2>4, <2>5 DEF BelowZeroInv
<1>4. ASSUME NEW x \in layer, Visit(x)
      PROVE  BelowZeroInv'
  <2>1. at # "idle" /\ UNCHANGED bound
    BY <1>4 DEF Visit
  <2>2. QED
    BY <1>3, <1>4, <2>1 DEF BelowZeroInv
<1>5. CASE NextLayer
  BY <1>5 DEF NextLayer, BelowZeroInv
<1>6. CASE ImpactReturns
  BY <1>6 DEF ImpactReturns, BelowZeroInv
<1>7. CASE TraverseReturns \/ UNCHANGED all
  <2>1. /\ UNCHANGED <<vars, start, bound, loop>>
        /\ at' = at \/ (at = "walk" /\ at' = "done")
    BY <1>7 DEF TraverseReturns, all, walk
  <2>2. \A y : Dependents(y)' = Dependents(y)
    BY <2>1, HopsStay
  <2>3. QED
    BY <2>1, <2>2 DEF BelowZeroInv, loop
<1>8. QED
  BY <1>1, <1>2, <1>4, <1>5, <1>6, <1>7 DEF WalkNext, WalkStep

LEMMA BelowZeroInvariance == WalkSpec => []BelowZeroInv
<1>1. WalkInit => BelowZeroInv
  BY DEF WalkInit, BelowZeroInv
<1>2. QED
  BY <1>1, StepKeepsBelowZero, PTL DEF WalkSpec

\* It is the depth zero of Ladybug.
LEMMA BelowZeroIsZero ==
  ASSUME Grounded, BelowZeroInv, WalkInv, at = "done", bound \in Int, bound < 0
  PROVE  LadybugTraverse(start, 0) =
           [reached |-> reached, frontier |-> frontier]
<1>1. /\ layer = {} /\ reached = {}
      /\ frontier = {x \in {start} : Dependents(x) # {}}
  BY DEF BelowZeroInv, WalkInv
<1>2. Within(start, 0) = {start} /\ Ring(start, 0) = {start}
  BY WithinNext DEF Ring
<1>3. QED
  BY <1>1, <1>2, LadybugBounded

-----------------------------------------------------------------------------
\* Under a bound the walk ends with what lies within it.
LEMMA BoundedWalk ==
  ASSUME Grounded, LayerInv, WalkInv, at = "done", bound \in Nat
  PROVE  /\ reached = Within(start, bound) \ {start}
         /\ frontier = {x \in Ring(start, bound) : Dependents(x) # {}}
<1>1. /\ depth \in 0 .. bound /\ layer = {} /\ nxt = {}
      /\ seen = Within(start, depth) /\ reached = seen \ {start}
  BY DEF LayerInv, WalkInv
<1>2. CASE depth = bound
  BY <1>1, <1>2 DEF LayerInv
<1>3. CASE depth # bound
  <2>1. depth \in Nat /\ depth < bound /\ bound \in Nat \ {0}
    BY <1>1, <1>3
  <2>2. seen = Within(start, depth + 1)
    BY <1>1, <2>1, LayerEnds
  <2>3. (depth + 1) - 1 = depth /\ depth + 1 \in Nat \ {0}
    BY <2>1
  <2>4. Ring(start, depth + 1) = {}
    BY <1>1, <2>2, <2>3 DEF Ring
  <2>5. Closed(Within(start, depth + 1)) /\ Ring(start, bound) = {}
    BY <2>1, <2>3, <2>4, EmptyRing
  <2>6. Within(start, bound) = seen
    <3>1. start \in seen
      BY DEF WalkInv
    <3>2. Within(start, bound) \subseteq seen
      BY <2>2, <2>5, <3>1, WithinStays
    <3>3. seen \subseteq Within(start, bound)
      BY <2>1, <2>2, <2>3, WithinGrows
    <3>4. QED
      BY <3>2, <3>3
  <2>7. frontier = {}
    BY <2>1 DEF LayerInv
  <2>8. QED
    BY <1>1, <2>5, <2>6, <2>7
<1>4. QED
  BY <1>2, <1>3

\* With no bound it ends with all that depends on its start.
LEMMA WholeWalk ==
  ASSUME Grounded, Stored, WalkInv, at = "done", bound = NoBound
  PROVE  /\ Closure({start}) = {start} \cup reached /\ frontier = {}
         /\ \A n \in Nat : Within(start, n) \ {start} \subseteq reached
<1>1. frontier = {} /\ start \in StateIds
  BY DEF WalkInv
<1>2. Closure({start}) = {start} \cup reached
  <2>1. Closure({}) = {}
    <3>1. Closed({})
      BY DEF Closed
    <3>2. QED
      BY <3>1, ClosureIsLeast
  <2>2. QED
    BY <1>1, <2>1, WalkIsWhole
<1>3. Closed(Closure({start})) /\ start \in Closure({start})
  BY <1>1, ClosureIsClosed, ClosureHolds
<1>4. QED
  BY <1>1, <1>2, <1>3, WithinStays

\* So does LadybugBackend where the graph ends before the ceiling.
LEMMA UnboundedWalk ==
  ASSUME Grounded, Stored, WalkInv, at = "done", bound = NoBound,
         Ring(start, DepthCeiling) = {}
  PROVE  /\ reached = Within(start, DepthCeiling) \ {start}
         /\ frontier = {}
<1>1. start \in StateIds /\ start \notin reached /\ DepthCeiling \in Nat \ {0}
  BY CascadeAssumption DEF WalkInv
<1>2. Closed(Within(start, DepthCeiling))
  BY <1>1, EmptyRing
<1>3. start \in Within(start, DepthCeiling)
  BY DEF Within
<1>4. Within(start, DepthCeiling) \in SUBSET StateIds
  BY <1>1 DEF Within, Stored
<1>5. Closure({start}) \subseteq Within(start, DepthCeiling)
  BY <1>2, <1>3, <1>4, ClosureIsLeast
<1>6. QED
  BY <1>1, <1>5, WholeWalk

\* The two backends agree on every cascade of every graph, cycles and diamonds
\* included, but for a depth that LadybugBackend refuses and for a graph that
\* goes to its ceiling when no depth is given.
THEOREM BackendsAlwaysAgree == WalkSpec => []BackendsAgree
<1> DEFINE found == [reached |-> reached, frontier |-> frontier]
<1>1. Grounded /\ LayerInv /\ BelowZeroInv /\ Stored /\ WalkInv => BackendsAgree
  <2> SUFFICES ASSUME Grounded, LayerInv, BelowZeroInv, Stored, WalkInv,
                      at = "done"
               PROVE  /\ LadybugTraverse(start, bound) \in {Raised, found}
                      /\ bound # NoBound /\ bound < 0 =>
                           LadybugTraverse(start, 0) = found
    BY DEF BackendsAgree, Done, Impact, ImpactResult
  <2>1. bound \in Int \/ bound = NoBound
    BY CascadeAssumption DEF LayerInv, Bounds
  <2>2. CASE bound \in Nat
    <3>1. ~ (bound < 0)
      BY <2>2
    <3>2. QED
      BY <2>2, <3>1, BoundedWalk, LadybugBounded
  <2>3. CASE bound \in Int /\ bound < 0
    <3>1. LadybugTraverse(start, bound) = Raised
      BY <2>3, CascadeAssumption DEF LadybugTraverse
    <3>2. QED
      BY <2>3, <3>1, BelowZeroIsZero
  <2>4. CASE bound = NoBound
    BY <2>4, UnboundedWalk, LadybugUnbounded
  <2>5. QED
    BY <2>1, <2>2, <2>3, <2>4
<1>2. QED
  BY <1>1, LayerInvariance, BelowZeroInvariance, WalkInvariance, PTL

\* LadybugBackend refuses a depth below zero and a full closure that goes to
\* its ceiling, on every graph: what a walk one hop short of the ceiling has
\* not reached is what makes it refuse, and there is no other cause.
THEOREM RefusalIsExact == WalkSpec => []RefusesOnlyDeep
<1>1. Grounded /\ LayerInv /\ Stored /\ WalkInv => RefusesOnlyDeep
  <2> DEFINE C == DepthCeiling
             shorter == LadybugTraverse(start, C - 1)
             refused == LadybugTraverse(start, bound) = Raised
  <2> SUFFICES ASSUME Grounded, LayerInv, Stored, WalkInv, at = "done"
               PROVE  refused <=> \/ bound # NoBound /\ bound < 0
                                  \/ bound = NoBound /\ shorter.reached # reached
    BY DEF RefusesOnlyDeep, Done
  <2>1. bound \in Int \/ bound = NoBound
    BY CascadeAssumption DEF LayerInv, Bounds
  <2>2. CASE bound \in Nat
    <3>1. bound # NoBound /\ ~ (bound < 0)
      BY <2>2, CascadeAssumption
    <3>2. ~ refused
      BY <2>2, LadybugBounded, FoundIsNotRaised
    <3>3. QED
      BY <3>1, <3>2
  <2>3. CASE bound \in Int /\ bound < 0
    <3>1. bound # NoBound
      BY <2>3, CascadeAssumption
    <3>2. refused
      BY <2>3, <3>1 DEF LadybugTraverse
    <3>3. QED
      BY <2>3, <3>1, <3>2
  <2>4. CASE bound = NoBound
    <3>1. C \in Nat \ {0} /\ C - 1 \in Nat
      BY CascadeAssumption
    <3>2. refused <=> Ring(start, C) # {}
      BY <2>4, LadybugUnbounded, FoundIsNotRaised
    <3>3. shorter.reached = Within(start, C - 1) \ {start}
      BY <3>1, LadybugBounded
    <3>4. Ring(start, C) = Within(start, C) \ Within(start, C - 1)
      BY <3>1 DEF Ring
    <3>5. Within(start, C - 1) \subseteq Within(start, C)
      BY <3>1, WithinGrows
    <3>6. CASE Ring(start, C) = {}
      <4>1. reached = Within(start, C) \ {start}
        BY <2>4, <3>6, UnboundedWalk
      <4>2. QED
        BY <2>4, <3>2, <3>3, <3>4, <3>5, <3>6, <4>1
    <3>7. CASE Ring(start, C) # {}
      <4>1. PICK x \in Within(start, C) : x \notin Within(start, C - 1)
        BY <3>4, <3>7
      <4>2. x # start
        BY <4>1 DEF Within
      <4>3. x \in reached
        BY <2>4, <3>1, <4>1, <4>2, WholeWalk
      <4>4. QED
        BY <2>4, <3>2, <3>3, <3>7, <4>1, <4>3
    <3>8. QED
      BY <3>6, <3>7
  <2>5. QED
    BY <2>1, <2>2, <2>3, <2>4
<1>2. QED
  BY <1>1, LayerInvariance, WalkInvariance, PTL

-----------------------------------------------------------------------------
(* Why the loop ends: a number that every turn of it lowers.                *)

\* Nodes not yet seen weigh most, those of the next layer more than those of
\* this one.
Unseen == ({start} \cup Ids) \ seen

Variant == 3 * Cardinality(Unseen) + 2 * Cardinality(nxt) + Cardinality(layer)

\* The turns of the loop of traverse.
Turn == (\E x \in layer : Visit(x)) \/ NextLayer

LEMMA WalkIsFinite ==
  ASSUME Grounded, WalkInv, at = "walk"
  PROVE  /\ IsFiniteSet(Unseen) /\ IsFiniteSet(nxt) /\ IsFiniteSet(layer)
         /\ Cardinality(Unseen) \in Nat /\ Cardinality(nxt) \in Nat
         /\ Cardinality(layer) \in Nat
<1>1. IsFiniteSet({start} \cup Ids)
  BY FS_AddElement, {start} \cup Ids = Ids \cup {start} DEF Grounded
<1>2. /\ Unseen \subseteq {start} \cup Ids
      /\ nxt \subseteq {start} \cup Ids
      /\ layer \subseteq {start} \cup Ids
  BY DEF WalkInv, Unseen
<1>3. IsFiniteSet(Unseen) /\ IsFiniteSet(nxt) /\ IsFiniteSet(layer)
  BY <1>1, <1>2, FS_Subset
<1>4. QED
  BY <1>3, FS_CardinalityType

\* A set with new members taken out of a finite reserve.
LEMMA NewMembers ==
  ASSUME NEW S, NEW T, IsFiniteSet(S), IsFiniteSet(T), T \cap S = {}
  PROVE  /\ IsFiniteSet(S \cup T)
         /\ Cardinality(S \cup T) = Cardinality(S) + Cardinality(T)
<1>1. Cardinality(S \cap T) = 0
  BY FS_EmptySet, S \cap T = {}
<1>2. Cardinality(S) \in Nat /\ Cardinality(T) \in Nat
  BY FS_CardinalityType
<1>3. /\ IsFiniteSet(S \cup T)
      /\ Cardinality(S \cup T) =
           Cardinality(S) + Cardinality(T) - Cardinality(S \cap T)
  BY FS_Union
<1>4. QED
  BY <1>1, <1>2, <1>3

LEMMA TurnLowersVariant ==
  ASSUME Grounded, WalkInv, Turn
  PROVE  Variant \in Nat /\ Variant' \in Nat /\ Variant' < Variant
<1>1. /\ at = "walk" /\ UNCHANGED <<vars, start>> /\ Ids' = Ids
      /\ layer \cup nxt \subseteq seen
      /\ seen \subseteq {start} \cup Ids
  <2>1. at = "walk" /\ UNCHANGED <<vars, start>>
    BY DEF Turn, Visit, NextLayer
  <2>2. Ids' = Ids
    BY <2>1 DEF vars, store, Ids
  <2>3. QED
    BY <2>1, <2>2 DEF WalkInv
<1> DEFINE u == Cardinality(Unseen)
           n == Cardinality(nxt)
           l == Cardinality(layer)
<1>2. /\ IsFiniteSet(Unseen) /\ IsFiniteSet(nxt) /\ IsFiniteSet(layer)
      /\ u \in Nat /\ n \in Nat /\ l \in Nat
  BY <1>1, WalkIsFinite
<1>3. Variant = 3 * u + 2 * n + l
  BY DEF Variant
<1>4. Variant' = 3 * Cardinality(Unseen') + 2 * Cardinality(nxt')
                   + Cardinality(layer')
  BY DEF Variant
<1>5. ASSUME NEW x \in layer, Visit(x)
      PROVE  Variant \in Nat /\ Variant' \in Nat /\ Variant' < Variant
  <2>1. layer' = layer \ {x}
    BY <1>5 DEF Visit
  <2>2. Cardinality(layer') = l - 1
    BY <1>2, <2>1, FS_RemoveElement
  <2>3. l # 0
    BY <1>2, FS_EmptySet
  <2>4. \E new : /\ new \subseteq Unseen
                 /\ seen' = seen \cup new /\ nxt' = nxt \cup new
    <3>1. CASE AtBound(x)
      <4>1. seen' = seen \cup {} /\ nxt' = nxt \cup {}
        BY <3>1 DEF AtBound
      <4>2. QED
        BY <4>1
    <3>2. CASE Discover(x)
      <4> DEFINE new == Dependents(x) \ seen
      <4>1. new \subseteq Unseen
        BY DEF Unseen, Grounded
      <4>2. seen' = seen \cup new /\ nxt' = nxt \cup new
        BY <3>2 DEF Discover
      <4>3. QED
        BY <4>1, <4>2
    <3>3. QED
      BY <1>5, <3>1, <3>2 DEF Visit
  <2>5. PICK new : /\ new \subseteq Unseen
                   /\ seen' = seen \cup new /\ nxt' = nxt \cup new
    BY <2>4
  <2> DEFINE k == Cardinality(new)
  <2>6. IsFiniteSet(new) /\ k \in Nat
    BY <1>2, <2>5, FS_Subset, FS_CardinalityType
  <2>7. Cardinality(nxt') = n + k
    <3>1. new \cap nxt = {}
      BY <1>1, <2>5 DEF Unseen
    <3>2. QED
      BY <1>2, <2>5, <2>6, <3>1, NewMembers
  <2>8. IsFiniteSet(Unseen') /\ Cardinality(Unseen') = u - k
    <3>1. Unseen' = Unseen \ new
      BY <1>1, <2>5 DEF Unseen
    <3>2. Unseen \cap new = new
      BY <2>5
    <3>3. /\ IsFiniteSet(Unseen \ new)
          /\ Cardinality(Unseen \ new) =
               Cardinality(Unseen) - Cardinality(Unseen \cap new)
      BY <1>2, FS_Difference
    <3>4. QED
      BY <3>1, <3>2, <3>3
  <2>9. Cardinality(Unseen') \in Nat
    BY <2>8, FS_CardinalityType
  <2> HIDE DEF u, n, l, k
  <2>10. QED
    BY <1>2, <1>3, <1>4, <2>2, <2>3, <2>6, <2>7, <2>8, <2>9
<1>6. CASE NextLayer
  <2>1. /\ layer = {} /\ nxt # {} /\ layer' = nxt /\ nxt' = {}
        /\ seen' = seen
    BY <1>6 DEF NextLayer
  <2>2. Unseen' = Unseen
    BY <1>1, <2>1 DEF Unseen
  <2>3. n # 0 /\ l = 0 /\ Cardinality(nxt') = 0
    BY <1>2, <2>1, FS_EmptySet
  <2>4. Cardinality(layer') = n /\ Cardinality(Unseen') = u
    BY <2>1, <2>2
  <2> HIDE DEF u, n, l
  <2>5. QED
    BY <1>2, <1>3, <1>4, <2>3, <2>4
<1>7. QED
  BY <1>5, <1>6 DEF Turn

\* Every turn of the loop of traverse lowers a natural number, on cyclic graphs
\* and with no bound too, so no walk turns for ever.
THEOREM LoopHasVariant ==
  WalkSpec => [][Turn => /\ Variant \in Nat /\ Variant' \in Nat
                         /\ Variant' < Variant]_all
<1>1. Grounded /\ WalkInv /\ [WalkNext]_all =>
        [Turn => Variant \in Nat /\ Variant' \in Nat /\ Variant' < Variant]_all
  BY TurnLowersVariant
<1>2. QED
  BY <1>1, LayerInvariance, WalkInvariance, PTL DEF WalkSpec
=============================================================================
