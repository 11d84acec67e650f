------------------------------ MODULE Cascade ------------------------------
(***************************************************************************)
(* The dependency cascade: what get_impact of core.py walks over, and the  *)
(* traverse of LadybugBackend.  An edge runs from a dependent to its       *)
(* source, so the walk goes against the arrows.  What a traverse returns   *)
(* is [reached, frontier], sets of state ids.  The traverse of             *)
(* InMemoryBackend is MemoryWalk.                                          *)
(***************************************************************************)
EXTENDS MemoryCore, Integers

CONSTANTS
  Depths,        \* the depths callers pass
  NoBound,       \* depth None
  DepthCeiling   \* _DEPTH_CEILING of backends/ladybug.py

ASSUME CascadeAssumption ==
  /\ Depths \subseteq Int
  /\ NoBound \notin Int
  /\ DepthCeiling \in Nat \ {0}

\* Mutated form of CascadeEdgeTypes: the revision spine is followed too.
CascadeEdgeTypesAll == EdgeType

CascadeEdgeTypes == {"DEPENDS_ON", "DERIVED_FROM"}

\* Every edge between belief states that the backend stores.
StoredEdges == edges \cup {<<"SUPERSEDES", n[1], n[2]>> : n \in supersedes}

\* _in_edges
Dependents(id) ==
  {n[2] : n \in {m \in StoredEdges : m[1] \in CascadeEdgeTypes /\ m[3] = id}}

Raised == [raised |-> TRUE]

-----------------------------------------------------------------------------
(* LadybugBackend.traverse: the least length of an acyclic path, up to a    *)
(* bound compiled into the query.                                           *)

\* start <- p[1] <- ... <- p[n], no node twice
AcyclicPaths(start, n) ==
  {p \in [0 .. n -> Ids] :
     /\ p[0] = start
     /\ \A i \in 1 .. n : p[i] \in Dependents(p[i - 1])
     /\ \A i, j \in 0 .. n : p[i] = p[j] => i = j}

\* The lengths, within the bound, at which `start` reaches id.
Lengths(start, id, bound) ==
  {n \in 1 .. Cardinality(Ids) : /\ n <= bound
                                 /\ \E p \in AcyclicPaths(start, n) : p[n] = id}

IsLeast(n, S) == n \in S /\ \A m \in S : n <= m

\* Mutated form of LadybugTraverse: no fast path for a bound of zero.
LadybugTraverseNoZero(start, depth) ==
  LET bound   == IF depth = NoBound THEN DepthCeiling ELSE depth
      reached == {id \in Ids \ {start} : Lengths(start, id, bound) # {}}
      at(n)   == {id \in reached : IsLeast(n, Lengths(start, id, bound))}
  IN  IF \/ bound < 0
         \/ depth = NoBound /\ at(DepthCeiling) # {}
      THEN Raised
      ELSE [reached |-> reached,
            frontier |-> {id \in at(bound) : Dependents(id) # {}}]

\* Mutated form of LadybugTraverse: a given bound is held to the ceiling too.
LadybugTraverseAudited(start, depth) ==
  LET bound   == IF depth = NoBound THEN DepthCeiling ELSE depth
      reached == {id \in Ids \ {start} : Lengths(start, id, bound) # {}}
      at(n)   == IF n = 0 THEN {start}
                 ELSE {id \in reached : IsLeast(n, Lengths(start, id, bound))}
  IN  IF bound < 0 \/ at(DepthCeiling) # {}
      THEN Raised
      ELSE [reached |-> reached,
            frontier |-> {id \in at(bound) : Dependents(id) # {}}]

LadybugTraverse(start, depth) ==
  LET bound   == IF depth = NoBound THEN DepthCeiling ELSE depth
      reached == {id \in Ids \ {start} : Lengths(start, id, bound) # {}}
      at(n)   == IF n = 0 THEN {start}
                 ELSE {id \in reached : IsLeast(n, Lengths(start, id, bound))}
  IN  IF \/ bound < 0
         \/ depth = NoBound /\ at(DepthCeiling) # {}
      THEN Raised
      ELSE [reached |-> reached,
            frontier |-> {id \in at(bound) : Dependents(id) # {}}]

-----------------------------------------------------------------------------
\* The rest of get_impact: the reached rows fetched again, which raises when
\* one is not stored, and `truncated` derived from the frontier.
ImpactResult(found) ==
  IF found = Raised \/ ~ (found.reached \subseteq Ids) THEN Raised
  ELSE [reached |-> {x \in states : x.id \in found.reached},
        frontier |-> found.frontier,
        truncated |-> found.frontier # {}]

Bounds == Depths \cup {NoBound}

\* The reference: what depends on the nodes of S, directly or not, with S.
\* The least set that holds S and every dependent of its members.
Closure(S) ==
  {id \in StateIds \cup S :
     \A T \in SUBSET StateIds :
       (S \subseteq T /\ \A x \in T : Dependents(x) \subseteq T) => id \in T}

\* A belief's own history is not its impact: writing states, superseding ones
\* included, leaves every full cascade as it was, and no call shrinks one.
ImpactStable ==
  [][\A id \in Ids :
       /\ Closure({id}) \subseteq Closure({id})'
       /\ states' # states => Closure({id})' = Closure({id})]_vars
=============================================================================
