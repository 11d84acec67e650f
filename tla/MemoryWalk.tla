----------------------------- MODULE MemoryWalk -----------------------------
(***************************************************************************)
(* InMemoryBackend.traverse (backends/memory.py), called by get_impact of  *)
(* core.py on any graph of edges between belief states that the engine's   *)
(* calls can build: breadth first, a layer of nodes per hop, one step per  *)
(* node.  The nodes of a layer are visited in any order, which stands for  *)
(* the order of the adjacency lists and of the frozenset of edge types.    *)
(*                                                                         *)
(* get_impact holds one unit of work and writes nothing, so no other call  *)
(* runs between its steps.                                                 *)
(***************************************************************************)
EXTENDS Cascade

VARIABLES
  at,        \* "idle", "walk" in the loop, "done" when traverse returned
  start,     \* the arguments of the call
  bound,
  layer,     \* nodes of this layer not visited yet
  nxt,       \* nodes of the next one
  depth,     \* hops to this layer; with no bound nothing reads it
  seen,
  reached,
  frontier

loop == <<layer, nxt, depth, seen, reached, frontier>>
walk == <<at, start, bound, loop>>
all == <<vars, walk>>

-----------------------------------------------------------------------------
CallImpact(id, d) ==
  /\ at = "idle"
  /\ at' = "walk" /\ start' = id /\ bound' = d
  /\ layer' = {id} /\ nxt' = {} /\ depth' = 0
  /\ seen' = {id} /\ reached' = {} /\ frontier' = {}
  /\ UNCHANGED vars

PastBound == bound # NoBound /\ depth + 1 > bound

\* Mutated form of AtBound: the walk stops there and says nothing.
AtBoundSilent(x) ==
  /\ PastBound
  /\ UNCHANGED <<nxt, seen, reached, frontier>>

\* A node at the bound is on the frontier if it has any neighbour, one the
\* walk has already seen included.
AtBound(x) ==
  /\ PastBound
  /\ frontier' = frontier \cup {y \in {x} : Dependents(x) # {}}
  /\ UNCHANGED <<nxt, seen, reached>>

\* Mutated form of Discover: a node met again is walked again.
DiscoverAgain(x) ==
  /\ ~ PastBound
  /\ seen' = seen \cup Dependents(x)
  /\ reached' = reached \cup (Dependents(x) \ seen)
  /\ nxt' = nxt \cup Dependents(x)
  /\ UNCHANGED frontier

Discover(x) ==
  LET new == Dependents(x) \ seen
  IN  /\ ~ PastBound
      /\ seen' = seen \cup new
      /\ reached' = reached \cup new
      /\ nxt' = nxt \cup new
      /\ UNCHANGED frontier

Visit(x) ==
  /\ at = "walk"
  /\ layer' = layer \ {x}
  /\ AtBound(x) \/ Discover(x)
  /\ UNCHANGED <<vars, at, start, bound, depth>>

NextLayer ==
  /\ at = "walk" /\ layer = {} /\ nxt # {}
  /\ layer' = nxt /\ nxt' = {}
  /\ depth' = IF bound = NoBound THEN depth ELSE depth + 1
  /\ UNCHANGED <<vars, at, start, bound, seen, reached, frontier>>

TraverseReturns ==
  /\ at = "walk" /\ layer = {} /\ nxt = {}
  /\ at' = "done"
  /\ UNCHANGED <<vars, start, bound, loop>>

\* What get_impact makes of what traverse returned.
Impact == ImpactResult([reached |-> reached, frontier |-> frontier])

\* The result reaches the caller, nothing of the walk is kept.
ImpactReturns ==
  /\ at = "done"
  /\ at' = "idle" /\ start' = 0 /\ bound' = NoBound
  /\ layer' = {} /\ nxt' = {} /\ depth' = 0
  /\ seen' = {} /\ reached' = {} /\ frontier' = {}
  /\ UNCHANGED vars

-----------------------------------------------------------------------------
WalkInit ==
  /\ Init
  /\ at = "idle" /\ start = 0 /\ bound = NoBound
  /\ layer = {} /\ nxt = {} /\ depth = 0
  /\ seen = {} /\ reached = {} /\ frontier = {}

WalkStep ==
  \/ \E x \in layer : Visit(x)
  \/ NextLayer \/ TraverseReturns \/ ImpactReturns

OtherCall == at = "idle" /\ Next /\ UNCHANGED walk

WalkNext ==
  \/ OtherCall
  \/ \E id \in StateIds, d \in Bounds : CallImpact(id, d)
  \/ WalkStep

\* A call that has begun runs on: it is one synchronous loop.
WalkSpec == WalkInit /\ [][WalkNext]_all /\ WF_all(WalkStep)

-----------------------------------------------------------------------------
Done == at = "done"

\* The walk ends on every graph, cycles included, with no bound too.
WalkEnds == at = "walk" ~> Done

\* A cascade never silently under-reports: what it did not reach is found by
\* going on from its frontier, so a walk that is not truncated is complete,
\* and it reports nothing that does not depend on its start.  A walk with no
\* bound is not truncated.
FrontierResumes ==
  Done => /\ Impact # Raised
          /\ bound = NoBound => ~ Impact.truncated
          /\ Closure({start}) =
               {start} \cup {x.id : x \in Impact.reached}
                       \cup Closure(Impact.frontier)

\* The backends agree on every cascade that Ladybug does not refuse, cycles and
\* diamonds included.  A depth below zero, which it does, is in memory the depth
\* zero of either.
BackendsAgree ==
  Done => LET ladybug(d) == ImpactResult(LadybugTraverse(start, d))
          IN  /\ ladybug(bound) \in {Raised, Impact}
              /\ bound # NoBound /\ bound < 0 => Impact = ladybug(0)

\* What LadybugBackend refuses, and nothing else: a depth below zero, and a full
\* closure that a walk one hop short of its ceiling would not have completed.
\* A cascade cut at the ceiling is never passed off as complete, and no other
\* is refused, whatever depth is given.
RefusesOnlyDeep ==
  Done => LET shorter == LadybugTraverse(start, DepthCeiling - 1)
          IN  LadybugTraverse(start, bound) = Raised <=>
                \/ bound # NoBound /\ bound < 0
                \/ bound = NoBound /\ shorter.reached # reached
=============================================================================
