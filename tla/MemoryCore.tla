----------------------------- MODULE MemoryCore -----------------------------
(***************************************************************************)
(* The engine of core.py (class MemoryCore) over a store whose units of    *)
(* work are atomic: one action per public operation that may write, one    *)
(* operator per read.  How a unit becomes atomic on each backend is the    *)
(* subject of MemoryUnit and LadybugUnit.                                  *)
(*                                                                         *)
(* Data is abstracted to what the engine looks at.  A UUID is a number:    *)
(* _order_key compares the lower-case hexadecimal strings, which order as  *)
(* the 128-bit integers do.  A payload is the pair of stored tokens        *)
(* (encoded value, stance name) that a write stores and contract copies    *)
(* without reading.                                                        *)
(***************************************************************************)
EXTENDS Naturals, FiniteSets

CONSTANTS
  Scopes,       \* scope ids the callers use
  World,        \* WORLD_SCOPE_ID
  Beliefs,      \* belief ids
  Payloads,     \* stored (value, stance) pairs
  Events,       \* source_event_id handles, chosen by the callers
  StateIds,     \* state_id values; finite in a model (bounds the writes)
  EdgeTypes,    \* the consumer edge types in use, a subset of EdgeType
  MaxGap,       \* bound: how far above its floor a mint may land
  MaxRestarts   \* bound: how often the program restarts on its store

EdgeType == {"SUPERSEDES", "DEPENDS_ON", "DERIVED_FROM"}

Status == {"active", "retracted"}

ASSUME MemoryCoreAssumption ==
  /\ World \in Scopes
  /\ Events \subseteq Nat
  /\ StateIds \subseteq Nat \ {0}
  /\ EdgeTypes \subseteq EdgeType
  /\ MaxGap \in Nat
  /\ MaxRestarts \in Nat

VARIABLES
  scopes,       \* Scope nodes
  beliefs,      \* Belief nodes
  states,       \* BeliefState nodes
  hasRevision,  \* HAS_REVISION edges: belief -> state_id
  supersedes,   \* SUPERSEDES edges _append_state laid: new -> prior
  edges,        \* edges the consumer laid: <<type, from, to>>
  lastId,       \* last state_id this process minted; its floor
  restarts,     \* restarts so far
  outcome       \* how the last call ended

store == <<scopes, beliefs, states, hasRevision, supersedes, edges>>
vars == <<store, lastId, restarts, outcome>>

BeliefState == [id : StateIds, scope : Scopes, belief : Beliefs,
                event : Events, payload : Payloads, status : Status]

Outcome == {"none", "scope", "appended", "failed", "retracted",
            "vacuous", "world_error", "edge", "restarted"}

-----------------------------------------------------------------------------
(* The ordering contract and the state derived from it.                     *)

\* Mutated form of Newer: the tie goes to the older state_id.
NewerTieReversed(x, y) == \/ x.event > y.event
                          \/ x.event = y.event /\ x.id < y.id

\* _order_key(x) > _order_key(y)
Newer(x, y) == \/ x.event > y.event
               \/ x.event = y.event /\ x.id > y.id

\* The ordering-max of a set of states: a singleton, or empty (None).
Tail(S) == {x \in S : \A y \in S : ~ Newer(y, x)}

IsActiveTail(x) == x.status # "retracted"

\* Mutated form of StatesOf: the scope is left out of the match.
StatesOfBelief(s, b) == {x \in states : x.belief = b}

StatesOf(s, b) == {x \in states : x.scope = s /\ x.belief = b}

CurrentTail(s, b) == Tail(StatesOf(s, b))

\* Mutated form of Current: a retracted tail does not collapse.
CurrentUncollapsed(s, b) == CurrentTail(s, b)

\* Mutated form of Current: the least state in place of the greatest.
CurrentOldest(s, b) ==
  {x \in StatesOf(s, b) : /\ IsActiveTail(x)
                          /\ \A y \in StatesOf(s, b) : ~ Newer(x, y)}

\* The retracted tail collapses to None.
Current(s, b) == {x \in CurrentTail(s, b) : IsActiveTail(x)}

-----------------------------------------------------------------------------
(* The reads.  A result is the set of rows; the code sorts it by _order_key. *)

\* Mutated form of CurrentTails: the status filter runs before the max.
CurrentTailsFilterFirst(rows, allowed) ==
  {x \in rows : /\ x.status \in allowed
                /\ x \in Tail({y \in rows : /\ y.belief = x.belief
                                            /\ y.status \in allowed})}

\* Per-belief tail first, status filter after.
CurrentTails(rows, allowed) ==
  {x \in rows : /\ x \in Tail({y \in rows : y.belief = x.belief})
                /\ x.status \in allowed}

\* A BeliefFilter; a component the caller leaves out is its full range.
Filters == [status : SUBSET Status, beliefs : SUBSET Beliefs,
            min : Events, max : Events]

QueryScope(s, f) ==
  {x \in CurrentTails({y \in states : y.scope = s}, f.status) :
     /\ x.belief \in f.beliefs
     /\ f.min <= x.event
     /\ x.event <= f.max}

\* query_scope(scope, BeliefFilter()): the belief base as of now.
Base(s) == CurrentTails({x \in states : x.scope = s}, {"active"})

\* Mutated form of ScopeAt: the max comes before the cut.
ScopeAtDrop(s, e) == {x \in Base(s) : x.event <= e}

\* Mutated form of ScopeAt: the cut excludes its own event.
ScopeAtExclusive(s, e) ==
  {x \in states :
     /\ x \in Tail({y \in states : /\ y.scope = s
                                   /\ y.event < e
                                   /\ y.belief = x.belief})
     /\ IsActiveTail(x)}

\* The inclusive cut comes before the max.
ScopeAt(s, e) ==
  {x \in states :
     /\ x \in Tail({y \in states : /\ y.scope = s
                                   /\ y.event <= e
                                   /\ y.belief = x.belief})
     /\ IsActiveTail(x)}

\* Mutated form of RevisionChain: sorted by state_id alone.
RevisionChainById(b) ==
  LET S == {x \in states : x.belief = b}
  IN  [i \in 1 .. Cardinality(S) |->
         CHOOSE x \in S : Cardinality({y \in S : x.id > y.id}) = i - 1]

\* The states of a belief in every scope, oldest first.
RevisionChain(b) ==
  LET S == {x \in states : x.belief = b}
  IN  [i \in 1 .. Cardinality(S) |->
         CHOOSE x \in S : Cardinality({y \in S : Newer(x, y)}) = i - 1]

-----------------------------------------------------------------------------
(* The writes.                                                              *)

EnsureScope(s) == scopes' = scopes \cup {s}

\* uuid.uuid7(): never below what this process minted, never one in use.
Mintable == {id \in StateIds : /\ lastId < id
                               /\ id <= lastId + MaxGap
                               /\ \A x \in states : x.id # id}

\* Mutated form of AppendState: the hub edge laid the wrong way round.
AppendStateHubReversed(s, b, p, e, status, prior) ==
  \E id \in Mintable :
    /\ states' = states \cup {[id |-> id, scope |-> s, belief |-> b,
                               event |-> e, payload |-> p,
                               status |-> status]}
    /\ hasRevision' = hasRevision \cup {<<id, b>>}
    /\ supersedes' = supersedes \cup {<<id, x.id>> : x \in prior}
    /\ lastId' = id

\* Mutated form of AppendState: the prior is read after the append.
AppendStatePriorAfter(s, b, p, e, status, prior) ==
  \E id \in Mintable :
    LET new == [id |-> id, scope |-> s, belief |-> b, event |-> e,
                payload |-> p, status |-> status]
    IN  /\ states' = states \cup {new}
        /\ hasRevision' = hasRevision \cup {<<b, id>>}
        /\ supersedes' = supersedes \cup
             {<<id, x.id>> : x \in Tail(StatesOf(s, b) \cup {new})}
        /\ lastId' = id

AppendState(s, b, p, e, status, prior) ==
  \E id \in Mintable :
    /\ states' = states \cup {[id |-> id, scope |-> s, belief |-> b,
                               event |-> e, payload |-> p,
                               status |-> status]}
    /\ hasRevision' = hasRevision \cup {<<b, id>>}
    /\ supersedes' = supersedes \cup {<<id, x.id>> : x \in prior}
    /\ lastId' = id

\* Mutated form of Append: the scope is not ensured.
AppendWithoutScope(s, b, p, e) ==
  /\ beliefs' = beliefs \cup {b}
  /\ AppendState(s, b, p, e, "active", Current(s, b))
  /\ outcome' = "appended"
  /\ UNCHANGED <<scopes, edges, restarts>>

Append(s, b, p, e) ==
  /\ EnsureScope(s)
  /\ beliefs' = beliefs \cup {b}
  /\ AppendState(s, b, p, e, "active", Current(s, b))
  /\ outcome' = "appended"
  /\ UNCHANGED <<edges, restarts>>

\* An exception inside the unit (json.dumps refuses the value, a statement
\* fails): the unit rolls back and the exception reaches the caller.  An id
\* minted before it is spent, uuid7 keeps its floor.
CallFails ==
  /\ lastId' \in {lastId} \cup Mintable
  /\ outcome' = "failed"
  /\ UNCHANGED <<store, restarts>>

Revise(s, b, p, e) == Append(s, b, p, e)

Expand(s, b, p, e) == Append(s, b, p, e)

ContractWorld(s) ==
  /\ s = World
  /\ outcome' = "world_error"
  /\ UNCHANGED <<store, lastId, restarts>>

ContractVacuous(s, b) ==
  /\ s # World
  /\ Current(s, b) = {}
  /\ outcome' = "vacuous"
  /\ UNCHANGED <<store, lastId, restarts>>

\* Mutated form of ContractActing: no world guard.
ContractUnguarded(s, b, e) ==
  /\ EnsureScope(s)
  /\ \E prior \in Current(s, b) :
       AppendState(s, b, prior.payload, e, "retracted", {prior})
  /\ outcome' = "retracted"
  /\ UNCHANGED <<beliefs, edges, restarts>>

ContractActing(s, b, e) ==
  /\ s # World
  /\ EnsureScope(s)
  /\ \E prior \in Current(s, b) :
       AppendState(s, b, prior.payload, e, "retracted", {prior})
  /\ outcome' = "retracted"
  /\ UNCHANGED <<beliefs, edges, restarts>>

Contract(s, b, e) ==
  \/ ContractWorld(s)
  \/ ContractVacuous(s, b)
  \/ ContractActing(s, b, e)

GetOrCreateScope(s) ==
  /\ EnsureScope(s)
  /\ outcome' = "scope"
  /\ UNCHANGED <<beliefs, states, hasRevision, supersedes, edges, lastId,
                 restarts>>

Ids == {x.id : x \in states}

\* A missing endpoint is a silent no-op.
AddEdge(from, to, type) ==
  /\ edges' = edges \cup (IF {from, to} \subseteq Ids
                          THEN {<<type, from, to>>} ELSE {})
  /\ outcome' = "edge"
  /\ UNCHANGED <<scopes, beliefs, states, hasRevision, supersedes, lastId,
                 restarts>>

\* A new process opens the stored database.  uuid7 keeps its floor in the
\* process, so the next floor is the clock's, which may have been set back.
Restart ==
  /\ restarts < MaxRestarts
  /\ restarts' = restarts + 1
  /\ lastId' \in {id \in {0} \cup StateIds : id <= lastId}
  /\ outcome' = "restarted"
  /\ UNCHANGED store

-----------------------------------------------------------------------------
Init ==
  /\ scopes = {} /\ beliefs = {} /\ states = {}
  /\ hasRevision = {} /\ supersedes = {} /\ edges = {}
  /\ lastId = 0 /\ restarts = 0
  /\ outcome = "none"

Next ==
  \/ \E s \in Scopes : GetOrCreateScope(s)
  \/ \E s \in Scopes, b \in Beliefs, p \in Payloads, e \in Events :
       Revise(s, b, p, e) \/ Expand(s, b, p, e)
  \/ CallFails
  \/ \E s \in Scopes, b \in Beliefs, e \in Events : Contract(s, b, e)
  \/ \E from, to \in StateIds, type \in EdgeTypes : AddEdge(from, to, type)
  \/ Restart

Spec == Init /\ [][Next]_vars

-----------------------------------------------------------------------------
(* Properties of every state.                                               *)

\* Every variable has its type.
TypeOK ==
  /\ scopes \subseteq Scopes
  /\ beliefs \subseteq Beliefs
  /\ states \subseteq BeliefState
  /\ hasRevision \subseteq Beliefs \X StateIds
  /\ supersedes \subseteq StateIds \X StateIds
  /\ edges \subseteq EdgeType \X StateIds \X StateIds
  /\ lastId \in {0} \cup StateIds
  /\ restarts \in 0 .. MaxRestarts
  /\ outcome \in Outcome

\* No write leaves half of itself: a state has its scope, its belief and its
\* hub edge, and every edge in the store has both its endpoints.
Anchored ==
  /\ \A x \in states : /\ x.scope \in scopes
                       /\ x.belief \in beliefs
                       /\ <<x.belief, x.id>> \in hasRevision
  /\ \A h \in hasRevision :
       \E x \in states : x.belief = h[1] /\ x.id = h[2]
  /\ \A n \in supersedes : {n[1], n[2]} \subseteq Ids
  /\ \A n \in edges : {n[2], n[3]} \subseteq Ids

\* A retracted state supersedes an active state of its own scope and belief
\* and carries that state's payload: contract acts on what was believed.
RetractionHasSource ==
  \A r \in states : r.status = "retracted" =>
    \E x \in states : /\ <<r.id, x.id>> \in supersedes
                     /\ x.status = "active"
                     /\ x.scope = r.scope
                     /\ x.belief = r.belief
                     /\ x.payload = r.payload

\* The spine stays inside one scope and belief, a state supersedes at most
\* one other, and no retracted state is superseded.
SpineShape ==
  \A n \in supersedes : \A x, y \in states :
    (x.id = n[1] /\ y.id = n[2]) =>
      /\ x.scope = y.scope /\ x.belief = y.belief
      /\ y.status = "active"
      /\ \A m \in supersedes : m[1] = n[1] => m = n

\* A state is replaced once: of the states that supersede it, at most one
\* sorts after it.  The others are late writes that never became current.
OneSuccessor ==
  \A x, y, z \in states :
    (/\ {<<y.id, x.id>>, <<z.id, x.id>>} \subseteq supersedes
     /\ Newer(y, x) /\ Newer(z, x)) => y = z

\* The spine has no cycle, late writes and restarts included: every set of
\* states has one that supersedes none of the set.
SpineAcyclic ==
  \A S \in SUBSET Ids :
    S # {} => \E i \in S : \A j \in S : <<i, j>> \notin supersedes

\* The belief base holds one row per belief, and the base as of an event no
\* state is newer than is the base as of now.
LatestCutIsNow ==
  \A s \in Scopes :
    /\ \A x, y \in Base(s) : x.belief = y.belief => x = y
    /\ \A e \in Events :
         (\A x \in states : x.scope = s => x.event <= e) =>
           ScopeAt(s, e) = Base(s)

\* No filter makes history visible: a row is its belief's tail, and an
\* active row under an event_id_max is also in the base as of that event
\* (the filter drops a belief where the cut rewinds it).
FilterShowsOnlyTails ==
  \A s \in Scopes, f \in Filters : \A x \in QueryScope(s, f) :
    /\ x \in CurrentTail(s, x.belief)
    /\ IsActiveTail(x) => x \in ScopeAt(s, f.max)

\* get_revision_chain and the two base reads agree: the last entry of the
\* chain in a scope, up to a cut, decides the belief's row as of that cut.
ChainAgrees ==
  \A s \in Scopes, b \in Beliefs, e \in Events :
    LET chain == RevisionChain(b)
        upTo  == {i \in DOMAIN chain : /\ chain[i].scope = s
                                       /\ chain[i].event <= e}
        last  == {i \in upTo : \A j \in upTo : j <= i}
    IN  {x \in ScopeAt(s, e) : x.belief = b} =
          {x \in {chain[i] : i \in last} : IsActiveTail(x)}

\* The path from the first value to the current one is there to inspect: the
\* first state of a belief lies on every path of SUPERSEDES from its tail, so
\* in every set that holds the tail and is closed under SUPERSEDES.
SpineReachesFirst ==
  \A s \in Scopes, b \in Beliefs : \A last \in CurrentTail(s, b) :
    \A S \in SUBSET Ids :
      (/\ last.id \in S
       /\ \A n \in supersedes : n[1] \in S => n[2] \in S) =>
        \A x \in StatesOf(s, b) :
          (\A y \in StatesOf(s, b) : ~ Newer(x, y)) => x.id \in S

-----------------------------------------------------------------------------
(* Properties of every step.                                                *)

\* The past is stable: a base as of a cut changes only through a state at or
\* before the cut, in that scope, and then only in that state's belief.
HistoryStable ==
  [][\A s \in Scopes, e \in Events :
       \A x \in (ScopeAt(s, e) \ ScopeAt(s, e)')
                 \cup (ScopeAt(s, e)' \ ScopeAt(s, e)) :
         \E y \in states' \ states : /\ y.scope = s
                                     /\ y.belief = x.belief
                                     /\ y.event <= e]_vars

\* x is not a late write: its event sorts after those of its belief, or is the
\* last of them again in a process that has not restarted.
InOrder(x) ==
  \A y \in StatesOf(x.scope, x.belief) :
    y.event < x.event \/ (y.event = x.event /\ restarts = 0)

\* Success: a write that is not late takes effect at once, in a store of any
\* age: a revision is then in the base, a contraction clears it.
InOrderWriteWins ==
  [][\A x \in states' \ states : InOrder(x) =>
       {y \in Base(x.scope)' : y.belief = x.belief} =
         {y \in {x} : y.status = "active"}]_vars

\* The world scope only learns: as of every event, a belief held there stays
\* held, possibly with another value.
WorldOnlyLearns ==
  [][\A e \in Events :
       {x.belief : x \in ScopeAt(World, e)} \subseteq
         {x.belief : x \in ScopeAt(World, e)'}]_vars

\* The tiebreak reflects insertion order: of two writes that share an event,
\* the state written later wins.
TieGoesToLaterWrite ==
  [][\A x \in states' \ states :
       \A y \in StatesOf(x.scope, x.belief) :
         x.event = y.event => Newer(x, y)]_vars

\* The derived current state behaves as a stored pointer would.
B == INSTANCE BeliefBase
       WITH base <- [k \in Scopes \X Beliefs |-> CurrentTail(k[1], k[2])]

BeliefBaseSpec == B!Spec

=============================================================================
