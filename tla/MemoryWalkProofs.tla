------------------------- MODULE MemoryWalkProofs -------------------------
(***************************************************************************)
(* Proofs about MemoryWalk: on every graph of states the calls can build,  *)
(* whatever the order of its visits, a cascade walk of InMemoryBackend     *)
(* loses nothing that its frontier does not lead to.                       *)
(***************************************************************************)
EXTENDS MemoryWalk, MemoryCoreProofs

\* T holds the dependents of its members.
Closed(T) == \A x \in T : Dependents(x) \subseteq T

\* Every dependent is a stored state.
Stored == /\ Ids \subseteq StateIds
          /\ \A x \in StateIds : Dependents(x) \subseteq Ids

-----------------------------------------------------------------------------
(* What Closure is.                                                         *)

LEMMA ClosureHolds ==
  ASSUME NEW S
  PROVE  S \subseteq Closure(S)
  BY DEF Closure

LEMMA ClosureIsLeast ==
  ASSUME NEW S, NEW T \in SUBSET StateIds, S \subseteq T, Closed(T)
  PROVE  Closure(S) \subseteq T
  BY DEF Closure, Closed

LEMMA ClosureIsClosed ==
  ASSUME Stored, NEW S \in SUBSET StateIds
  PROVE  Closure(S) \subseteq StateIds /\ Closed(Closure(S))
<1>1. Closure(S) \subseteq StateIds
  BY DEF Closure
<1>2. ASSUME NEW x \in Closure(S), NEW y \in Dependents(x)
      PROVE  y \in Closure(S)
  <2>1. y \in StateIds
    BY <1>1 DEF Stored
  <2>2. ASSUME NEW T \in SUBSET StateIds, S \subseteq T, Closed(T)
        PROVE  y \in T
    <3>1. x \in T
      BY <2>2, ClosureIsLeast
    <3>2. QED
      BY <2>2, <3>1 DEF Closed
  <2>3. QED
    BY <2>1, <2>2 DEF Closure, Closed
<1>3. QED
  BY <1>1, <1>2 DEF Closed

LEMMA AnchoredIsStored ==
  ASSUME IInv
  PROVE  Stored
<1>1. Ids \subseteq StateIds
  BY DEF IInv, TypeOK, Ids, BeliefState
<1>2. ASSUME NEW x, NEW y \in Dependents(x)
      PROVE  y \in Ids
  <2>1. PICK m \in StoredEdges : m[1] \in CascadeEdgeTypes /\ y = m[2]
    BY DEF Dependents
  <2>2. CASE m \in edges
    BY <2>1, <2>2 DEF IInv, Anchored
  <2>3. CASE m \in {<<"SUPERSEDES", n[1], n[2]>> : n \in supersedes}
    BY <2>1, <2>3 DEF CascadeEdgeTypes
  <2>4. QED
    BY <2>1, <2>2, <2>3 DEF StoredEdges
<1>3. QED
  BY <1>1, <1>2 DEF Stored

\* A step that leaves the store alone leaves the graph alone.
LEMMA GraphStays ==
  ASSUME UNCHANGED vars
  PROVE  /\ Ids' = Ids
         /\ \A x : Dependents(x)' = Dependents(x)
         /\ \A S : Closure(S)' = Closure(S)
  BY DEF vars, store, Ids, Dependents, StoredEdges, Closure

-----------------------------------------------------------------------------
(* The invariant of the walk: a node it has seen and not expanded is still  *)
(* in one of the layers or on the frontier.                                 *)

WalkInv ==
  /\ at \in {"idle", "walk", "done"}
  /\ at # "idle" =>
       /\ start \in StateIds
       /\ start \in seen
       /\ seen \subseteq Closure({start})
       /\ reached = seen \ {start}
       /\ reached \subseteq Ids
       /\ layer \cup nxt \cup frontier \subseteq seen
       /\ \A x \in seen \ (layer \cup nxt \cup frontier) :
            Dependents(x) \subseteq seen
       /\ bound = NoBound => frontier = {}
  /\ at = "done" => layer = {} /\ nxt = {}

LEMMA VisitKeepsWalkInv ==
  ASSUME Stored, WalkInv, NEW x \in layer, Visit(x)
  PROVE  WalkInv'
<1>1. UNCHANGED vars /\ at = "walk" /\ at' = "walk" /\ x \in seen
  BY DEF Visit, WalkInv
<1>2. /\ Ids' = Ids
      /\ \A y : Dependents(y)' = Dependents(y)
      /\ Closure({start})' = Closure({start})
  <2>1. start' = start
    BY DEF Visit
  <2>2. QED
    BY <1>1, <2>1, GraphStays DEF vars, store, Closure, Dependents, StoredEdges
<1>3. seen \subseteq StateIds /\ Dependents(x) \subseteq Ids
  BY <1>1, ClosureIsClosed DEF WalkInv, Stored
<1>4. CASE AtBound(x)
  BY <1>1, <1>2, <1>4 DEF Visit, AtBound, PastBound, WalkInv
<1>5. CASE Discover(x)
  <2>1. Dependents(x) \subseteq Closure({start})
    BY <1>1, ClosureIsClosed DEF WalkInv, Closed
  <2>2. QED
    BY <1>1, <1>2, <1>3, <1>5, <2>1 DEF Visit, Discover, WalkInv
<1>6. QED
  BY <1>4, <1>5 DEF Visit

LEMMA StepKeepsWalkInv ==
  ASSUME Stored, WalkInv, [WalkNext]_all
  PROVE  WalkInv'
<1>1. CASE OtherCall
  BY <1>1 DEF OtherCall, walk, loop, WalkInv
<1>2. ASSUME NEW id \in StateIds, NEW d \in Bounds, CallImpact(id, d)
      PROVE  WalkInv'
  <2>1. id \in Closure({id})'
    BY DEF Closure
  <2>2. QED
    BY <1>2, <2>1 DEF CallImpact, WalkInv
<1>3. ASSUME NEW x \in layer, Visit(x)
      PROVE  WalkInv'
  BY <1>3, VisitKeepsWalkInv
<1>4. ASSUME UNCHANGED <<vars, start, bound, seen, reached, frontier>>,
             at = "walk", at' \in {"walk", "done"},
             layer' \cup nxt' = layer \cup nxt,
             at' = "done" => layer' = {} /\ nxt' = {}
      PROVE  WalkInv'
  <2>1. /\ Ids' = Ids
        /\ \A y : Dependents(y)' = Dependents(y)
        /\ Closure({start})' = Closure({start})
    BY <1>4 DEF vars, store, Ids, Closure, Dependents, StoredEdges
  <2>2. QED
    BY <1>4, <2>1 DEF WalkInv
<1>5. CASE NextLayer
  BY <1>4, <1>5 DEF NextLayer
<1>6. CASE TraverseReturns
  BY <1>4, <1>6 DEF TraverseReturns, loop
<1>7. CASE ImpactReturns
  BY <1>7 DEF ImpactReturns, WalkInv
<1>8. CASE UNCHANGED all
  <2>1. /\ Ids' = Ids
        /\ \A y : Dependents(y)' = Dependents(y)
        /\ Closure({start})' = Closure({start})
    BY <1>8 DEF all, walk, vars, store, Ids, Closure, Dependents, StoredEdges
  <2>2. QED
    BY <1>8, <2>1 DEF all, walk, loop, WalkInv
<1>9. QED
  BY <1>1, <1>2, <1>3, <1>5, <1>6, <1>7, <1>8 DEF WalkNext, WalkStep

\* The walk is the engine's: what is proved of MemoryCore holds here.
LEMMA WalkImplementsCore == WalkSpec => Spec
<1>1. WalkInit => Init
  BY DEF WalkInit
<1>2. [WalkNext]_all => [Next]_vars
  BY DEF WalkNext, WalkStep, OtherCall, CallImpact, Visit, NextLayer,
         TraverseReturns, ImpactReturns, all
<1>3. QED
  BY <1>1, <1>2, PTL DEF WalkSpec, Spec

\* The invariant of the loop of traverse holds at each of its steps.
THEOREM WalkInvariance == WalkSpec => [](Stored /\ WalkInv)
<1>1. WalkInit => WalkInv
  BY DEF WalkInit, WalkInv
<1>2. IInv => Stored
  BY AnchoredIsStored
<1>3. Stored /\ WalkInv /\ [WalkNext]_all => WalkInv'
  BY StepKeepsWalkInv
<1>4. QED
  BY <1>1, <1>2, <1>3, WalkImplementsCore, Invariance, PTL DEF WalkSpec

-----------------------------------------------------------------------------
\* At the end, what the start leads to is what the walk saw and what its
\* frontier leads to.
LEMMA WalkIsWhole ==
  ASSUME Stored, WalkInv, at = "done"
  PROVE  Closure({start}) = {start} \cup reached \cup Closure(frontier)
<1> DEFINE T == seen \cup Closure(frontier)
<1>1. /\ seen = {start} \cup reached
      /\ seen \subseteq Closure({start})
      /\ frontier \subseteq seen
      /\ \A x \in seen \ frontier : Dependents(x) \subseteq seen
      /\ start \in StateIds
  BY DEF WalkInv
<1>2. /\ Closure({start}) \in SUBSET StateIds
      /\ Closed(Closure({start}))
  BY <1>1, ClosureIsClosed
<1>3. /\ frontier \in SUBSET StateIds
      /\ Closure(frontier) \subseteq StateIds
      /\ Closed(Closure(frontier))
  BY <1>1, <1>2, ClosureIsClosed
<1>4. T \subseteq Closure({start})
  BY <1>1, <1>2, <1>3, ClosureIsLeast
<1>5. Closed(T)
  <2>1. frontier \subseteq Closure(frontier)
    BY ClosureHolds
  <2>2. QED
    BY <1>1, <1>3, <2>1 DEF Closed
<1>6. Closure({start}) \subseteq T
  BY <1>1, <1>2, <1>3, <1>5, ClosureIsLeast
<1>7. QED
  BY <1>1, <1>4, <1>6

\* What get_impact makes of the walk.
LEMMA ImpactOfWalk ==
  ASSUME WalkInv, at = "done"
  PROVE  /\ Impact # Raised
         /\ {x.id : x \in Impact.reached} = reached
         /\ Impact.frontier = frontier
         /\ Impact.truncated = (frontier # {})
<1> DEFINE found == [reached |-> reached, frontier |-> frontier]
           result == [reached |-> {x \in states : x.id \in reached},
                      frontier |-> frontier, truncated |-> frontier # {}]
<1>1. found # Raised /\ result # Raised
  <2>1. "reached" \in DOMAIN found /\ "reached" \in DOMAIN result
    OBVIOUS
  <2>2. "reached" \notin DOMAIN Raised
    BY DEF Raised
  <2>3. QED
    BY <2>1, <2>2
<1>2. reached \subseteq Ids
  BY DEF WalkInv
<1>3. Impact = result
  BY <1>1, <1>2 DEF Impact, ImpactResult
<1>4. {x.id : x \in result.reached} = reached
  BY <1>2 DEF Ids
<1>5. QED
  BY <1>1, <1>3, <1>4

\* No cascade of InMemoryBackend silently under-reports, on any graph, from
\* any start, with any depth or none.
THEOREM CascadeResumes == WalkSpec => []FrontierResumes
<1>1. Stored /\ WalkInv => FrontierResumes
  <2> SUFFICES ASSUME Stored, WalkInv, at = "done"
               PROVE  /\ Impact # Raised
                      /\ bound = NoBound => ~ Impact.truncated
                      /\ Closure({start}) =
                           {start} \cup {x.id : x \in Impact.reached}
                                   \cup Closure(Impact.frontier)
    BY DEF FrontierResumes, Done
  <2>1. bound = NoBound => frontier = {}
    BY DEF WalkInv
  <2>2. QED
    BY <2>1, WalkIsWhole, ImpactOfWalk
<1>2. QED
  BY <1>1, WalkInvariance, PTL

-----------------------------------------------------------------------------
(* The graph over time.                                                     *)

\* Only the edges the consumer laid are followed.
LEMMA DependentsOfEdges ==
  ASSUME NEW x
  PROVE  /\ Dependents(x) =
              {n[2] : n \in {m \in edges : /\ m[1] \in CascadeEdgeTypes
                                           /\ m[3] = x}}
         /\ Dependents(x)' =
              {n[2] : n \in {m \in edges' : /\ m[1] \in CascadeEdgeTypes
                                            /\ m[3] = x}}
<1>1. \A n : <<"SUPERSEDES", n[1], n[2]>>[1] \notin CascadeEdgeTypes
  BY DEF CascadeEdgeTypes
<1>2. QED
  BY <1>1 DEF Dependents, StoredEdges

\* A larger graph has larger cascades.
LEMMA ClosureGrows ==
  ASSUME \A x : Dependents(x) \subseteq Dependents(x)',
         NEW S
  PROVE  Closure(S) \subseteq Closure(S)'
<1> SUFFICES ASSUME NEW y \in Closure(S), NEW T \in SUBSET StateIds,
                    S \subseteq T, \A x \in T : Dependents(x)' \subseteq T
             PROVE  y \in T
  BY DEF Closure
<1>1. Closed(T)
  BY DEF Closed
<1>2. QED
  BY <1>1, ClosureIsLeast

\* A belief's own history is not its impact: a step that writes a state leaves
\* every full cascade as it was, superseding writes included, and no step
\* shrinks one.
THEOREM HistoryIsNotImpact == Spec => ImpactStable
<1> DEFINE Stable ==
      \A id \in Ids : /\ Closure({id}) \subseteq Closure({id})'
                      /\ states' # states => Closure({id})' = Closure({id})
<1>1. IInv /\ [Next]_vars => [Stable]_vars
  <2> SUFFICES ASSUME IInv, [Next]_vars PROVE Stable
    OBVIOUS
  <2>1. edges \subseteq edges' /\ (states' # states => edges' = edges)
    BY StepShape DEF IInv, Quiet, Wrote
  <2>2. \A x : Dependents(x) \subseteq Dependents(x)'
    BY <2>1, DependentsOfEdges
  <2>3. ASSUME NEW id, states' # states
        PROVE  Closure({id})' = Closure({id})
    <3>1. \A x : Dependents(x)' = Dependents(x)
      BY <2>1, <2>3, DependentsOfEdges
    <3>2. QED
      BY <3>1 DEF Closure
  <2>4. QED
    BY <2>2, <2>3, ClosureGrows
<1>2. QED
  BY <1>1, Invariance, PTL DEF Spec, ImpactStable

\* The same of every step beside which a cascade walks.
THEOREM ImpactIsStable == WalkSpec => ImpactStable
  BY WalkImplementsCore, HistoryIsNotImpact, PTL
=============================================================================
