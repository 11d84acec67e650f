-------------------------- MODULE MemoryCoreProofs --------------------------
(***************************************************************************)
(* Proofs about MemoryCore, for any sets of scopes, beliefs, payloads,     *)
(* events and ids, finite or not, and any number of restarts.              *)
(*                                                                         *)
(* Every proof rests on one lemma, StepShape: whatever the call, a step    *)
(* either writes one new state or leaves the states alone.                 *)
(***************************************************************************)
EXTENDS MemoryCore, FiniteSetTheorems, TLAPS

\* One new state x, its hub edge and its SUPERSEDES edges to prior.
Wrote(x, prior) ==
  /\ x.id \in Mintable
  /\ states' = states \cup {x}
  /\ hasRevision' = hasRevision \cup {<<x.belief, x.id>>}
  /\ supersedes' = supersedes \cup {<<x.id, y.id>> : y \in prior}
  /\ scopes' = scopes \cup {x.scope}
  /\ beliefs \subseteq beliefs'
  /\ beliefs' \subseteq beliefs \cup {x.belief}
  /\ edges' = edges
  /\ lastId' = x.id
  /\ restarts' = restarts
  /\ prior \subseteq Current(x.scope, x.belief)
  /\ \/ /\ x.status = "active"
        /\ x.belief \in beliefs'
        /\ prior = Current(x.scope, x.belief)
     \/ /\ x.status = "retracted"
        /\ x.scope # World
        /\ \E y \in prior : prior = {y} /\ x.payload = y.payload

\* No new state: at most a scope or a consumer edge between stored states.
Quiet ==
  /\ UNCHANGED <<states, hasRevision, supersedes, beliefs>>
  /\ scopes \subseteq scopes' /\ scopes' \subseteq scopes \cup Scopes
  /\ edges \subseteq edges'
  /\ edges' \subseteq edges \cup (EdgeType \X Ids \X Ids)
  /\ restarts' \in 0 .. MaxRestarts
  /\ \/ restarts' = restarts /\ lastId' \in {lastId} \cup Mintable
     \/ restarts' = restarts + 1 /\ lastId' \in {0} \cup StateIds

-----------------------------------------------------------------------------
LEMMA MintableIds == Mintable \subseteq StateIds
  BY DEF Mintable

\* Appending a state is a Wrote step, whatever the call.
LEMMA AppendIsWrote ==
  ASSUME NEW s \in Scopes, NEW b \in Beliefs, NEW p \in Payloads,
         NEW e \in Events, NEW status \in Status, NEW prior,
         prior \subseteq Current(s, b),
         scopes' = scopes \cup {s},
         beliefs \subseteq beliefs', beliefs' \subseteq beliefs \cup {b},
         edges' = edges, restarts' = restarts,
         \/ status = "active" /\ b \in beliefs' /\ prior = Current(s, b)
         \/ /\ status = "retracted" /\ s # World
            /\ \E y \in prior : prior = {y} /\ p = y.payload,
         AppendState(s, b, p, e, status, prior)
  PROVE  \E x \in BeliefState : Wrote(x, prior)
<1>1. PICK id \in Mintable :
        /\ states' = states \cup {[id |-> id, scope |-> s, belief |-> b,
                                   event |-> e, payload |-> p,
                                   status |-> status]}
        /\ hasRevision' = hasRevision \cup {<<b, id>>}
        /\ supersedes' = supersedes \cup {<<id, x.id>> : x \in prior}
        /\ lastId' = id
  BY DEF AppendState
<1> DEFINE x == [id |-> id, scope |-> s, belief |-> b, event |-> e,
                 payload |-> p, status |-> status]
<1>2. x \in BeliefState
  BY MintableIds DEF BeliefState
<1>3. Wrote(x, prior)
  BY <1>1 DEF Wrote
<1>4. QED
  BY <1>2, <1>3

LEMMA StepShape ==
  ASSUME TypeOK, [Next]_vars
  PROVE  Quiet \/ \E x \in BeliefState, prior \in SUBSET states :
                    Wrote(x, prior)
<1> USE MemoryCoreAssumption DEF TypeOK
<1> DEFINE Goal == Quiet \/ \E x \in BeliefState, prior \in SUBSET states :
                              Wrote(x, prior)
<1>0. \A s, b : Current(s, b) \subseteq states
  BY DEF Current, CurrentTail, Tail, StatesOf
<1>1. ASSUME NEW s \in Scopes, GetOrCreateScope(s)
      PROVE  Goal
  BY <1>1 DEF GetOrCreateScope, EnsureScope, Quiet
<1>2. ASSUME NEW s \in Scopes, NEW b \in Beliefs, NEW p \in Payloads,
             NEW e \in Events, Append(s, b, p, e)
      PROVE  Goal
  <2>1. \E x \in BeliefState : Wrote(x, Current(s, b))
    BY <1>2, AppendIsWrote DEF Append, EnsureScope, Status
  <2>2. QED
    BY <2>1, <1>0
<1>3. ASSUME CallFails
      PROVE  Goal
  BY <1>3, MintableIds DEF CallFails, Quiet, store
<1>4. ASSUME NEW s \in Scopes, NEW b \in Beliefs, NEW e \in Events,
             Contract(s, b, e)
      PROVE  Goal
  <2>1. CASE ContractWorld(s)
    BY <2>1 DEF ContractWorld, Quiet, store
  <2>2. CASE ContractVacuous(s, b)
    BY <2>2 DEF ContractVacuous, Quiet, store
  <2>3. CASE ContractActing(s, b, e)
    <3>1. PICK y \in Current(s, b) :
            AppendState(s, b, y.payload, e, "retracted", {y})
      BY <2>3 DEF ContractActing
    <3>2. y.payload \in Payloads
      BY <1>0 DEF BeliefState
    <3>3. /\ scopes' = scopes \cup {s} /\ beliefs' = beliefs
          /\ edges' = edges /\ restarts' = restarts /\ s # World
      BY <2>3 DEF ContractActing, EnsureScope
    <3>4. \E x \in BeliefState : Wrote(x, {y})
      BY <3>1, <3>2, <3>3, AppendIsWrote DEF Status
    <3>5. QED
      BY <3>4, <1>0
  <2>4. QED
    BY <1>4, <2>1, <2>2, <2>3 DEF Contract
<1>5. ASSUME NEW from \in StateIds, NEW to \in StateIds,
             NEW type \in EdgeTypes, AddEdge(from, to, type)
      PROVE  Goal
  BY <1>5 DEF AddEdge, Quiet
<1>6. ASSUME Restart
      PROVE  Goal
  BY <1>6 DEF Restart, Quiet, store
<1>7. ASSUME UNCHANGED vars
      PROVE  Goal
  BY <1>7 DEF vars, store, Quiet
<1>8. QED
  BY <1>1, <1>2, <1>3, <1>4, <1>5, <1>6, <1>7 DEF Next, Revise, Expand

-----------------------------------------------------------------------------
\* The outcome of every call is one the engine can report.
LEMMA OutcomeType ==
  ASSUME outcome \in Outcome, [Next]_vars
  PROVE  outcome' \in Outcome
  BY DEF Next, vars, store, Outcome, GetOrCreateScope, Revise, Expand, Append,
         CallFails, Contract, ContractWorld, ContractVacuous, ContractActing,
         AddEdge, Restart

\* No step breaks the types.
LEMMA StepKeepsType ==
  ASSUME TypeOK, [Next]_vars
  PROVE  TypeOK'
<1>1. outcome' \in Outcome
  BY OutcomeType DEF TypeOK
<1>2. CASE Quiet
  <2>1. lastId' \in {0} \cup StateIds
    BY <1>2, MintableIds DEF Quiet, TypeOK
  <2>2. Ids \subseteq StateIds
    BY DEF Ids, TypeOK, BeliefState
  <2>3. edges' \subseteq EdgeType \X StateIds \X StateIds
    BY <1>2, <2>2 DEF Quiet, TypeOK
  <2>4. QED
    BY <1>1, <1>2, <2>1, <2>3 DEF Quiet, TypeOK
<1>3. CASE \E x \in BeliefState, prior \in SUBSET states : Wrote(x, prior)
  <2>1. PICK x \in BeliefState, prior \in SUBSET states : Wrote(x, prior)
    BY <1>3
  <2>2. /\ x.id \in StateIds /\ x.scope \in Scopes /\ x.belief \in Beliefs
    BY DEF BeliefState
  <2>3. \A y \in prior : y.id \in StateIds
    BY DEF TypeOK, BeliefState
  <2>4. /\ states' \subseteq BeliefState
        /\ scopes' \subseteq Scopes /\ beliefs' \subseteq Beliefs
        /\ hasRevision' \subseteq Beliefs \X StateIds
        /\ supersedes' \subseteq StateIds \X StateIds
    BY <2>1, <2>2, <2>3 DEF Wrote, TypeOK
  <2>5. QED
    BY <1>1, <2>1, <2>2, <2>4 DEF Wrote, TypeOK
<1>4. QED
  BY <1>2, <1>3, StepShape

\* Type correctness of the engine's store.
THEOREM TypeCorrect == Spec => []TypeOK
<1>1. Init => TypeOK
  BY MemoryCoreAssumption DEF Init, TypeOK, Outcome
<1>2. TypeOK /\ [Next]_vars => TypeOK'
  BY StepKeepsType
<1>3. QED
  BY <1>1, <1>2, PTL DEF Spec

-----------------------------------------------------------------------------
(* The ordering contract: a strict total order on states with unique ids.   *)

\* Both halves of an order key are numbers.
LEMMA KeysAreNumbers ==
  ASSUME NEW x \in BeliefState
  PROVE  x.event \in Nat /\ x.id \in Nat
<1>1. x.event \in Events /\ x.id \in StateIds
  BY DEF BeliefState
<1>2. QED
  BY <1>1, MemoryCoreAssumption

LEMMA NewerIsStrict ==
  ASSUME NEW x \in BeliefState, NEW y \in BeliefState
  PROVE  /\ Newer(x, y) => ~ Newer(y, x)
         /\ ~ Newer(x, x)
         /\ x.id # y.id => Newer(x, y) \/ Newer(y, x)
<1>1. /\ x.event \in Nat /\ x.id \in Nat
      /\ y.event \in Nat /\ y.id \in Nat
  BY KeysAreNumbers
<1>2. QED
  BY <1>1 DEF Newer

LEMMA NewerIsTransitive ==
  ASSUME NEW x \in BeliefState, NEW y \in BeliefState,
         NEW z \in BeliefState, Newer(x, y), Newer(y, z)
  PROVE  Newer(x, z)
<1>1. /\ x.event \in Nat /\ x.id \in Nat
      /\ y.event \in Nat /\ y.id \in Nat
      /\ z.event \in Nat /\ z.id \in Nat
  BY KeysAreNumbers
<1>2. QED
  BY <1>1 DEF Newer

\* A state_id names one state.
IdsUnique == \A x, y \in states : x.id = y.id => x = y

\* There is at most one tail.
LEMMA TailUnique ==
  ASSUME NEW S, S \subseteq states, TypeOK, IdsUnique,
         NEW x \in Tail(S), NEW y \in Tail(S)
  PROVE  x = y
<1>1. /\ x \in BeliefState /\ y \in BeliefState
      /\ x \in states /\ y \in states
      /\ ~ Newer(x, y) /\ ~ Newer(y, x)
  BY DEF Tail, TypeOK
<1>2. x.id = y.id
  BY <1>1, NewerIsStrict
<1>3. QED
  BY <1>1, <1>2 DEF IdsUnique

\* One more state moves the tail forward or leaves it.
LEMMA TailGrows ==
  ASSUME NEW S, S \subseteq states, TypeOK, IdsUnique,
         NEW x \in BeliefState, \A y \in states : y.id # x.id,
         NEW t \in Tail(S)
  PROVE  /\ Newer(x, t) => Tail(S \cup {x}) = {x}
         /\ ~ Newer(x, t) => Tail(S \cup {x}) = {t}
<1>1. /\ t \in S /\ t \in BeliefState /\ t \in states
      /\ \A y \in S : ~ Newer(y, t) /\ y \in BeliefState /\ y \in states
  BY DEF Tail, TypeOK
<1>2. ASSUME Newer(x, t)
      PROVE  Tail(S \cup {x}) = {x}
  <2>1. ASSUME NEW y \in S
        PROVE  ~ Newer(y, x)
    BY <1>1, <1>2, <2>1, NewerIsTransitive
  <2>2. x \in Tail(S \cup {x})
    BY <2>1, NewerIsStrict DEF Tail
  <2>3. ASSUME NEW y \in Tail(S \cup {x})
        PROVE  y = x
    <3>1. CASE y \in S
      <4>1. ~ Newer(x, y) /\ y.id # x.id /\ y \in BeliefState
        BY <1>1, <3>1 DEF Tail
      <4>2. QED
        BY <4>1, <2>1, <3>1, NewerIsStrict
    <3>2. QED
      BY <3>1 DEF Tail
  <2>4. QED
    BY <2>2, <2>3
<1>3. ASSUME ~ Newer(x, t)
      PROVE  Tail(S \cup {x}) = {t}
  <2>1. t \in Tail(S \cup {x})
    BY <1>1, <1>3 DEF Tail
  <2>2. Newer(t, x)
    BY <1>1, <1>3, NewerIsStrict
  <2>3. ASSUME NEW y \in Tail(S \cup {x})
        PROVE  y = t
    <3>1. y # x
      BY <2>2, <1>1 DEF Tail
    <3>2. y \in Tail(S)
      BY <3>1 DEF Tail
    <3>3. QED
      BY <3>2, TailUnique
  <2>4. QED
    BY <2>1, <2>3
<1>4. QED
  BY <1>2, <1>3

\* The only state of a set is its tail.
LEMMA TailOfOne ==
  ASSUME NEW x \in BeliefState
  PROVE  Tail({x}) = {x}
  BY NewerIsStrict DEF Tail

LEMMA CurrentUnique ==
  ASSUME TypeOK, IdsUnique, NEW s, NEW b,
         NEW x \in Current(s, b), NEW y \in Current(s, b)
  PROVE  x = y
<1>1. StatesOf(s, b) \subseteq states
  BY DEF StatesOf
<1>2. QED
  BY <1>1, TailUnique DEF Current, CurrentTail

-----------------------------------------------------------------------------
(* The inductive invariant: what the spine of every belief looks like.      *)

\* The world scope never holds a retracted state.
WorldNotRetracted ==
  \A x \in states : x.status = "retracted" => x.scope # World

\* A belief with states has a current tail.
TailExists ==
  \A s \in Scopes, b \in Beliefs :
    StatesOf(s, b) # {} => CurrentTail(s, b) # {}

\* While the first process runs, its floor is above every id in the store.
FloorAboveIds == restarts = 0 => \A x \in states : x.id <= lastId

IInv ==
  /\ TypeOK
  /\ IdsUnique
  /\ Anchored
  /\ RetractionHasSource
  /\ SpineShape
  /\ WorldNotRetracted
  /\ TailExists
  /\ FloorAboveIds

LEMMA InitIInv == Init => IInv
<1> SUFFICES ASSUME Init PROVE IInv
  OBVIOUS
<1>1. TypeOK
  BY MemoryCoreAssumption DEF Init, TypeOK, Outcome
<1>2. QED
  BY <1>1 DEF Init, IInv, IdsUnique, Anchored, RetractionHasSource,
              SpineShape, WorldNotRetracted, TailExists, StatesOf,
              FloorAboveIds

\* A step that writes no state disturbs nothing but Anchored and the floor.
LEMMA QuietKeepsIInv ==
  ASSUME IInv, Quiet, TypeOK', FloorAboveIds'
  PROVE  IInv'
<1>1. IdsUnique' /\ RetractionHasSource' /\ SpineShape' /\ WorldNotRetracted'
  BY DEF IInv, Quiet, IdsUnique, RetractionHasSource, SpineShape,
         WorldNotRetracted
<1>2. TailExists'
  BY DEF IInv, Quiet, TailExists, CurrentTail, StatesOf
<1>3. Anchored'
  <2>1. \A n \in edges' : {n[2], n[3]} \subseteq Ids
    BY DEF IInv, Anchored, Quiet
  <2>2. Ids' = Ids
    BY DEF Quiet, Ids
  <2>3. QED
    BY <2>1, <2>2 DEF IInv, Anchored, Quiet
<1>4. QED
  BY <1>1, <1>2, <1>3 DEF IInv

\* The floor stays above the ids until the program restarts.
LEMMA StepKeepsFloor ==
  ASSUME TypeOK, FloorAboveIds, [Next]_vars
  PROVE  FloorAboveIds'
<1> USE MemoryCoreAssumption
<1>1. lastId \in Nat /\ restarts \in Nat
  BY DEF TypeOK
<1>2. \A x \in states : x.id \in Nat
  BY KeysAreNumbers DEF TypeOK
<1>3. \A id \in Mintable : id \in Nat /\ lastId < id
  BY DEF Mintable
<1>4. CASE Quiet
  <2>1. restarts' = 0 => /\ restarts = 0
                         /\ lastId' \in {lastId} \cup Mintable
    BY <1>1, <1>4 DEF Quiet
  <2>2. states' = states
    BY <1>4 DEF Quiet
  <2>3. QED
    BY <2>1, <2>2, <1>1, <1>2, <1>3 DEF FloorAboveIds
<1>5. CASE \E x \in BeliefState, prior \in SUBSET states : Wrote(x, prior)
  <2>1. PICK x \in BeliefState, prior \in SUBSET states : Wrote(x, prior)
    BY <1>5
  <2>2. /\ states' = states \cup {x} /\ lastId' = x.id
        /\ x.id \in Mintable /\ restarts' = restarts
    BY <2>1 DEF Wrote
  <2>3. QED
    BY <2>2, <1>1, <1>2, <1>3 DEF FloorAboveIds
<1>6. QED
  BY <1>4, <1>5, StepShape

\* A step that writes a state keeps the invariant.
LEMMA WroteKeepsIInv ==
  ASSUME IInv, TypeOK', FloorAboveIds',
         NEW x \in BeliefState, NEW prior \in SUBSET states,
         Wrote(x, prior)
  PROVE  IInv'
<1>1. /\ \A y \in states : y.id # x.id
      /\ states' = states \cup {x}
  BY DEF Wrote, Mintable
<1>2. \A y, z \in prior : y = z
  BY CurrentUnique DEF Wrote, IInv
<1>3. \A y \in prior : /\ y \in states /\ y.status = "active"
                       /\ y.scope = x.scope /\ y.belief = x.belief
  <2>1. \A y \in states : y.status \in Status
    BY DEF IInv, TypeOK, BeliefState
  <2>2. QED
    BY <2>1 DEF Wrote, Current, CurrentTail, Tail, StatesOf, IsActiveTail,
                Status
<1>4. IdsUnique'
  BY <1>1 DEF IInv, IdsUnique
<1>5. Anchored'
  <2>1. Ids' = Ids \cup {x.id}
    BY <1>1 DEF Ids
  <2>2. x.belief \in beliefs'
    <3>1. CASE x.status = "active"
      BY <3>1 DEF Wrote
    <3>2. CASE x.status # "active"
      <4>1. PICK y \in prior : prior = {y}
        BY <3>2 DEF Wrote
      <4>2. QED
        BY <4>1, <1>3 DEF IInv, Anchored, Wrote
    <3>3. QED
      BY <3>1, <3>2
  <2>3. \A y \in states' : /\ y.scope \in scopes' /\ y.belief \in beliefs'
                           /\ <<y.belief, y.id>> \in hasRevision'
    BY <1>1, <2>2 DEF IInv, Anchored, Wrote
  <2>4. \A h \in hasRevision' :
          \E y \in states' : y.belief = h[1] /\ y.id = h[2]
    BY <1>1 DEF IInv, Anchored, Wrote
  <2>5. \A n \in supersedes' : {n[1], n[2]} \subseteq Ids'
    BY <2>1, <1>3 DEF IInv, Anchored, Wrote, Ids
  <2>6. \A n \in edges' : {n[2], n[3]} \subseteq Ids'
    BY <2>1 DEF IInv, Anchored, Wrote
  <2>7. QED
    BY <2>3, <2>4, <2>5, <2>6 DEF Anchored
<1>6. RetractionHasSource'
  <2>1. ASSUME NEW r \in states, r.status = "retracted"
        PROVE  \E y \in states' : /\ <<r.id, y.id>> \in supersedes'
                                  /\ y.status = "active"
                                  /\ y.scope = r.scope
                                  /\ y.belief = r.belief
                                  /\ y.payload = r.payload
    BY <1>1, <2>1 DEF IInv, RetractionHasSource, Wrote
  <2>2. ASSUME x.status = "retracted"
        PROVE  \E y \in states' : /\ <<x.id, y.id>> \in supersedes'
                                  /\ y.status = "active"
                                  /\ y.scope = x.scope
                                  /\ y.belief = x.belief
                                  /\ y.payload = x.payload
    <3>1. PICK y \in prior : x.payload = y.payload
      BY <2>2 DEF Wrote
    <3>2. QED
      BY <3>1, <1>1, <1>3 DEF Wrote
  <2>3. QED
    BY <2>1, <2>2, <1>1 DEF RetractionHasSource
<1>7. SpineShape'
  <2>1. \A n \in supersedes : n[1] # x.id /\ n[2] # x.id
    BY <1>1 DEF IInv, Anchored, Ids
  <2>2. ASSUME NEW n \in supersedes, NEW m \in supersedes', m[1] = n[1]
        PROVE  m \in supersedes
    BY <2>1, <2>2 DEF Wrote
  <2>3. ASSUME NEW n \in supersedes, NEW y \in states', NEW z \in states',
               y.id = n[1], z.id = n[2]
        PROVE  /\ y.scope = z.scope /\ y.belief = z.belief
               /\ z.status = "active"
               /\ \A m \in supersedes' : m[1] = n[1] => m = n
    <3>1. y \in states /\ z \in states
      BY <1>1, <2>1, <2>3
    <3>2. QED
      BY <3>1, <2>2, <2>3 DEF IInv, SpineShape
  <2>4. ASSUME NEW w \in prior, NEW y \in states', NEW z \in states',
               y.id = x.id, z.id = w.id
        PROVE  /\ y.scope = z.scope /\ y.belief = z.belief
               /\ z.status = "active"
               /\ \A m \in supersedes' : m[1] = x.id => m = <<x.id, w.id>>
    <3>1. y = x /\ z = w
      BY <1>1, <1>3, <1>4, <2>4 DEF IdsUnique
    <3>2. \A m \in supersedes' : m[1] = x.id => m = <<x.id, w.id>>
      BY <2>1, <1>2 DEF Wrote
    <3>3. QED
      BY <3>1, <3>2, <1>3
  <2>5. QED
    BY <2>3, <2>4 DEF SpineShape, Wrote
<1>8. WorldNotRetracted'
  BY <1>1 DEF IInv, WorldNotRetracted, Wrote
<1>9. TailExists'
  <2> SUFFICES ASSUME NEW s \in Scopes, NEW b \in Beliefs,
                      StatesOf(s, b)' # {}
               PROVE  CurrentTail(s, b)' # {}
    BY DEF TailExists
  <2>1. CASE x.scope = s /\ x.belief = b
    <3>1. StatesOf(s, b)' = StatesOf(s, b) \cup {x}
      BY <1>1, <2>1 DEF StatesOf
    <3>2. StatesOf(s, b) \subseteq states
      BY DEF StatesOf
    <3>3. CurrentTail(s, b)' = Tail(StatesOf(s, b) \cup {x})
      BY <3>1 DEF CurrentTail, Tail, Newer
    <3>4. CASE StatesOf(s, b) = {}
      BY <3>3, <3>4, TailOfOne
    <3>5. CASE StatesOf(s, b) # {}
      <4>1. PICK t : t \in Tail(StatesOf(s, b))
        BY <3>5 DEF IInv, TailExists, CurrentTail
      <4>2. QED
        BY <3>2, <3>3, <4>1, <1>1, TailGrows DEF IInv
    <3>6. QED
      BY <3>4, <3>5
  <2>2. CASE ~ (x.scope = s /\ x.belief = b)
    <3>1. StatesOf(s, b)' = StatesOf(s, b)
      BY <1>1, <2>2 DEF StatesOf
    <3>2. QED
      BY <3>1 DEF IInv, TailExists, CurrentTail, Tail, Newer
  <2>3. QED
    BY <2>1, <2>2
<1>10. QED
  BY <1>4, <1>5, <1>6, <1>7, <1>8, <1>9 DEF IInv

LEMMA StepKeepsIInv ==
  ASSUME IInv, [Next]_vars
  PROVE  IInv'
<1>1. TypeOK' /\ FloorAboveIds'
  BY StepKeepsType, StepKeepsFloor DEF IInv
<1>2. QED
  BY <1>1, StepShape, QuietKeepsIInv, WroteKeepsIInv DEF IInv

\* The engine keeps its invariant, from Init and across every step.
THEOREM Invariance == Spec => []IInv
<1>1. Init => IInv
  BY InitIInv
<1>2. IInv /\ [Next]_vars => IInv'
  BY StepKeepsIInv
<1>3. QED
  BY <1>1, <1>2, PTL DEF Spec

-----------------------------------------------------------------------------
(* The invariants the runs check, for every instance.                       *)

\* Every state has its scope, its belief and its hub edge, and every edge
\* its endpoints.
THEOREM AlwaysAnchored == Spec => []Anchored
<1>1. IInv => Anchored
  BY DEF IInv
<1>2. QED
  BY <1>1, Invariance, PTL

\* A retracted state supersedes the active state it retracts.
THEOREM RetractionsHaveSource == Spec => []RetractionHasSource
<1>1. IInv => RetractionHasSource
  BY DEF IInv
<1>2. QED
  BY <1>1, Invariance, PTL

\* SUPERSEDES stays in one scope and belief, replaces active states only and
\* leaves a state at most once.
THEOREM SpineHasShape == Spec => []SpineShape
<1>1. IInv => SpineShape
  BY DEF IInv
<1>2. QED
  BY <1>1, Invariance, PTL

\* A state has one successor at most: a second would have found another tail.
THEOREM ReplacedOnce == Spec => []OneSuccessor
<1>1. Init => OneSuccessor
  BY DEF Init, OneSuccessor
<1>2. IInv /\ OneSuccessor /\ [Next]_vars => OneSuccessor'
  <2> SUFFICES ASSUME IInv, OneSuccessor, [Next]_vars
               PROVE  OneSuccessor'
    OBVIOUS
  <2>1. CASE Quiet
    BY <2>1 DEF Quiet, OneSuccessor, Newer
  <2>2. ASSUME NEW w \in BeliefState, NEW prior \in SUBSET states,
               Wrote(w, prior)
        PROVE  OneSuccessor'
    <3>1. /\ states' = states \cup {w} /\ \A y \in states : y.id # w.id
          /\ supersedes' = supersedes \cup {<<w.id, y.id>> : y \in prior}
          /\ prior \subseteq Tail(StatesOf(w.scope, w.belief))
      BY <2>2 DEF Wrote, Mintable, Current, CurrentTail
    <3>2. \A n \in supersedes : n[1] # w.id /\ n[2] # w.id
      BY <3>1 DEF IInv, Anchored, Ids
    <3>3. ASSUME NEW x \in states', NEW y \in states',
                 <<y.id, x.id>> \in supersedes', y.id # w.id
          PROVE  y \in states /\ x \in states /\ <<y.id, x.id>> \in supersedes
      BY <3>1, <3>2, <3>3
    <3>4. ASSUME NEW x \in states', NEW y \in states',
                 <<w.id, x.id>> \in supersedes', Newer(y, x),
                 <<y.id, x.id>> \in supersedes', y.id # w.id
          PROVE  FALSE
      <4>1. y \in states /\ x \in states /\ <<y.id, x.id>> \in supersedes
        BY <3>3, <3>4
      <4>2. x \in Tail(StatesOf(w.scope, w.belief))
        BY <3>1, <3>2, <3>4, <4>1 DEF IInv, IdsUnique
      <4>3. y.scope = x.scope /\ y.belief = x.belief
        BY <4>1 DEF IInv, SpineShape
      <4>4. y \in StatesOf(w.scope, w.belief)
        BY <4>1, <4>2, <4>3 DEF StatesOf, Tail
      <4>5. QED
        BY <3>4, <4>2, <4>4 DEF Tail
    <3>5. \A x, y \in states' : x.id = y.id => x = y
      BY <3>1 DEF IInv, IdsUnique
    <3>6. ASSUME NEW x \in states', NEW y \in states', NEW z \in states',
                 <<y.id, x.id>> \in supersedes', Newer(y, x),
                 <<z.id, x.id>> \in supersedes', Newer(z, x)
          PROVE  y = z
      <4>1. CASE y.id # w.id /\ z.id # w.id
        BY <3>3, <3>6, <4>1 DEF OneSuccessor
      <4>2. CASE y.id = w.id /\ z.id # w.id
        BY <3>4, <3>6, <4>2
      <4>3. CASE y.id # w.id /\ z.id = w.id
        BY <3>4, <3>6, <4>3
      <4>4. CASE y.id = w.id /\ z.id = w.id
        BY <3>5, <4>4
      <4>5. QED
        BY <4>1, <4>2, <4>3, <4>4
    <3>7. QED
      BY <3>6 DEF OneSuccessor, Newer
  <2>3. QED
    BY <2>1, <2>2, StepShape DEF IInv
<1>3. QED
  BY <1>1, <1>2, Invariance, PTL DEF Spec

\* The spine has no cycle: a new state supersedes stored ones only.
THEOREM SpineHasNoCycle == Spec => []SpineAcyclic
<1>1. Init => SpineAcyclic
  BY DEF Init, SpineAcyclic, Ids
<1>2. IInv /\ SpineAcyclic /\ [Next]_vars => SpineAcyclic'
  <2> SUFFICES ASSUME IInv, SpineAcyclic, [Next]_vars
               PROVE  SpineAcyclic'
    OBVIOUS
  <2>1. CASE Quiet
    BY <2>1 DEF Quiet, SpineAcyclic, Ids
  <2>2. ASSUME NEW w \in BeliefState, NEW prior \in SUBSET states,
               Wrote(w, prior)
        PROVE  SpineAcyclic'
    <3>1. /\ Ids' = Ids \cup {w.id} /\ w.id \notin Ids
          /\ supersedes' = supersedes \cup {<<w.id, y.id>> : y \in prior}
      BY <2>2 DEF Wrote, Mintable, Ids
    <3>2. \A n \in supersedes : n[1] \in Ids /\ n[2] \in Ids
      BY DEF IInv, Anchored
    <3>3. \A i : <<i, w.id>> \notin supersedes'
      BY <3>1, <3>2 DEF Ids
    <3>4. ASSUME NEW S \in SUBSET Ids', S # {}
          PROVE  \E i \in S : \A j \in S : <<i, j>> \notin supersedes'
      <4>1. CASE S = {w.id}
        BY <3>3, <4>1
      <4>2. CASE S \ {w.id} # {}
        <5>1. S \ {w.id} \in SUBSET Ids
          BY <3>1
        <5>2. PICK i \in S \ {w.id} :
                \A j \in S \ {w.id} : <<i, j>> \notin supersedes
          BY <4>2, <5>1 DEF SpineAcyclic
        <5>3. \A j \in S \ {w.id} : <<i, j>> \notin supersedes'
          BY <3>1, <5>2
        <5>4. QED
          BY <3>3, <5>2, <5>3
      <4>3. QED
        BY <3>4, <4>1, <4>2
    <3>5. QED
      BY <3>4 DEF SpineAcyclic
  <2>3. QED
    BY <2>1, <2>2, StepShape DEF IInv
<1>3. QED
  BY <1>1, <1>2, Invariance, PTL DEF Spec

-----------------------------------------------------------------------------
(* The reads agree with each other.                                         *)

\* A row of the base as of now is the active maximum of its belief's states.
LEMMA BaseRow ==
  ASSUME TypeOK, NEW s, NEW x
  PROVE  x \in Base(s) <=> /\ x \in Tail(StatesOf(s, x.belief))
                           /\ x.status # "retracted"
<1>1. Tail(StatesOf(s, x.belief)) =
        Tail({y \in {z \in states : z.scope = s} : y.belief = x.belief})
  BY DEF StatesOf
<1>2. \A y \in Tail(StatesOf(s, x.belief)) :
        /\ y \in states /\ y.scope = s
        /\ y.status # "retracted" <=> y.status = "active"
  BY DEF Tail, StatesOf, TypeOK, BeliefState, Status
<1>3. QED
  BY <1>1, <1>2 DEF Base, CurrentTails

\* The base has one row per belief and equals the base as of any event that
\* no state of the scope is newer than.
THEOREM LatestCut == Spec => []LatestCutIsNow
<1>1. IInv => LatestCutIsNow
  <2> SUFFICES ASSUME IInv, NEW s \in Scopes
               PROVE  /\ \A x, y \in Base(s) : x.belief = y.belief => x = y
                      /\ \A e \in Events :
                           (\A x \in states : x.scope = s => x.event <= e) =>
                             ScopeAt(s, e) = Base(s)
    BY DEF LatestCutIsNow
  <2>1. ASSUME NEW x \in Base(s), NEW y \in Base(s), x.belief = y.belief
        PROVE  x = y
    <3>1. /\ x \in Tail(StatesOf(s, x.belief))
          /\ y \in Tail(StatesOf(s, x.belief))
      BY <2>1, BaseRow DEF IInv
    <3>2. StatesOf(s, x.belief) \subseteq states
      BY DEF StatesOf
    <3>3. QED
      BY <3>1, <3>2, TailUnique DEF IInv
  <2>2. ASSUME NEW e \in Events,
               \A x \in states : x.scope = s => x.event <= e
        PROVE  ScopeAt(s, e) = Base(s)
    <3>1. \A b : {y \in states : /\ y.scope = s /\ y.event <= e
                                 /\ y.belief = b} = StatesOf(s, b)
      BY <2>2 DEF StatesOf
    <3>2. \A x \in ScopeAt(s, e) : x \in Base(s)
      BY <3>1, BaseRow DEF ScopeAt, IsActiveTail, IInv
    <3>3. \A x \in Base(s) : x \in ScopeAt(s, e)
      <4>1. \A x \in Base(s) : x \in states
        BY DEF Base, CurrentTails
      <4>2. QED
        BY <3>1, <4>1, BaseRow DEF ScopeAt, IsActiveTail, IInv
    <3>4. QED
      BY <3>2, <3>3
  <2>3. QED
    BY <2>1, <2>2
<1>2. QED
  BY <1>1, Invariance, PTL

\* Whatever the filter, a row is its belief's maximum, and an active row is in
\* the base as of the filter's event_id_max.
THEOREM FiltersShowTails == Spec => []FilterShowsOnlyTails
<1>1. IInv => FilterShowsOnlyTails
  <2> SUFFICES ASSUME IInv, NEW s \in Scopes, NEW f \in Filters,
                      NEW x \in QueryScope(s, f)
               PROVE  /\ x \in CurrentTail(s, x.belief)
                      /\ IsActiveTail(x) => x \in ScopeAt(s, f.max)
    BY DEF FilterShowsOnlyTails
  <2>1. /\ x \in states /\ x.scope = s /\ x.event <= f.max
        /\ x \in Tail({y \in {z \in states : z.scope = s} :
                         y.belief = x.belief})
    BY DEF QueryScope, CurrentTails
  <2>2. x \in CurrentTail(s, x.belief)
    BY <2>1 DEF CurrentTail, Tail, StatesOf
  <2>3. x \in Tail({y \in states : /\ y.scope = s /\ y.event <= f.max
                                   /\ y.belief = x.belief})
    BY <2>1 DEF Tail
  <2>4. QED
    BY <2>1, <2>2, <2>3 DEF ScopeAt
<1>2. QED
  BY <1>1, Invariance, PTL

-----------------------------------------------------------------------------
(* What a step may do to the past.                                          *)

\* The rows of one belief that a cut keeps.
UpTo(s, b, e) == {y \in states : y.scope = s /\ y.event <= e /\ y.belief = b}

\* A row of a base is the active tail of its belief's rows up to the cut.
LEMMA ScopeAtRow ==
  ASSUME NEW s, NEW e, NEW x
  PROVE  x \in ScopeAt(s, e) <=> /\ x \in states
                                 /\ x \in Tail(UpTo(s, x.belief, e))
                                 /\ x.status # "retracted"
  BY DEF ScopeAt, UpTo, IsActiveTail

LEMMA ScopeAtRowNext ==
  ASSUME NEW s, NEW e, NEW x
  PROVE  x \in ScopeAt(s, e)' <=> /\ x \in states'
                                  /\ x \in Tail(UpTo(s, x.belief, e)')
                                  /\ x.status # "retracted"
  BY DEF ScopeAt, UpTo, IsActiveTail, Tail, Newer

\* A base as of a cut changes only through a new state at or before the cut,
\* in that scope and belief, on either side of a restart.
THEOREM PastIsStable == Spec => HistoryStable
<1> DEFINE Stable ==
      \A s \in Scopes, e \in Events :
        \A x \in (ScopeAt(s, e) \ ScopeAt(s, e)')
                  \cup (ScopeAt(s, e)' \ ScopeAt(s, e)) :
          \E y \in states' \ states : /\ y.scope = s
                                      /\ y.belief = x.belief
                                      /\ y.event <= e
<1>1. TypeOK /\ [Next]_vars => [Stable]_vars
  <2> SUFFICES ASSUME TypeOK, [Next]_vars,
                      NEW s \in Scopes, NEW e \in Events, NEW x,
                      x \in ScopeAt(s, e) <=> x \notin ScopeAt(s, e)'
               PROVE  \E y \in states' \ states : /\ y.scope = s
                                                  /\ y.belief = x.belief
                                                  /\ y.event <= e
    OBVIOUS
  <2>1. states \subseteq states'
    BY StepShape DEF Quiet, Wrote
  <2>2. CASE UpTo(s, x.belief, e)' = UpTo(s, x.belief, e)
    <3>1. x \in UpTo(s, x.belief, e)
      BY <2>2, ScopeAtRow, ScopeAtRowNext DEF Tail
    <3>2. x \in states /\ x \in states'
      BY <2>1, <3>1 DEF UpTo
    <3>3. QED
      BY <2>2, <3>2, ScopeAtRow, ScopeAtRowNext
  <2>3. CASE UpTo(s, x.belief, e)' # UpTo(s, x.belief, e)
    BY <2>1, <2>3 DEF UpTo
  <2>4. QED
    BY <2>2, <2>3
<1>2. QED
  BY <1>1, TypeCorrect, PTL DEF Spec, HistoryStable

\* The world scope only learns: no call and no restart makes it drop a belief
\* it held, as of any event.
THEOREM WorldKeepsBeliefs == Spec => WorldOnlyLearns
<1> DEFINE Learns ==
      \A e \in Events :
        {x.belief : x \in ScopeAt(World, e)} \subseteq
          {x.belief : x \in ScopeAt(World, e)'}
<1>1. IInv /\ [Next]_vars => [Learns]_vars
  <2> SUFFICES ASSUME IInv, [Next]_vars, NEW e \in Events,
                      NEW t \in ScopeAt(World, e)
               PROVE  \E y \in ScopeAt(World, e)' : y.belief = t.belief
    OBVIOUS
  <2>1. /\ t \in states /\ t.status # "retracted"
        /\ t \in Tail(UpTo(World, t.belief, e))
    BY ScopeAtRow
  <2> DEFINE S == UpTo(World, t.belief, e)
  <2>2. CASE S' = S
    <3>1. t \in states'
      BY <2>1, StepShape DEF Quiet, Wrote, IInv
    <3>2. QED
      BY <2>1, <2>2, <3>1, ScopeAtRowNext
  <2>3. CASE S' # S
    <3>1. PICK x \in BeliefState, prior \in SUBSET states : Wrote(x, prior)
      BY <2>3, StepShape DEF Quiet, UpTo, IInv
    <3>2. /\ states' = states \cup {x} /\ \A y \in states : y.id # x.id
          /\ x.scope = World => x.status # "retracted"
      BY <3>1 DEF Wrote, Mintable
    <3>3. /\ x.scope = World /\ x.belief = t.belief /\ S' = S \cup {x}
      BY <2>3, <3>2 DEF UpTo
    <3>4. S \subseteq states
      BY DEF UpTo
    <3>5. Tail(S \cup {x}) = {x} \/ Tail(S \cup {x}) = {t}
      BY <2>1, <3>2, <3>4, TailGrows DEF IInv
    <3>6. QED
      BY <2>1, <3>2, <3>3, <3>5, ScopeAtRowNext
  <2>4. QED
    BY <2>2, <2>3
<1>2. QED
  BY <1>1, Invariance, PTL DEF Spec, WorldOnlyLearns

\* A write that is not late takes effect at once, restarts or not.
THEOREM LatestWriteWins == Spec => InOrderWriteWins
<1> DEFINE Wins ==
      \A x \in states' \ states : InOrder(x) =>
        {y \in Base(x.scope)' : y.belief = x.belief} =
          {y \in {x} : y.status = "active"}
<1>1. IInv /\ [Next]_vars => [Wins]_vars
  <2> SUFFICES ASSUME IInv, [Next]_vars, NEW x \in states' \ states,
                      InOrder(x)
               PROVE  {y \in Base(x.scope)' : y.belief = x.belief} =
                        {y \in {x} : y.status = "active"}
    OBVIOUS
  <2>1. PICK w \in BeliefState, prior \in SUBSET states : Wrote(w, prior)
    BY StepShape DEF Quiet, IInv
  <2>2. w = x /\ states' = states \cup {x} /\ x.id \in Mintable
    BY <2>1 DEF Wrote
  <2>3. ASSUME NEW y \in StatesOf(x.scope, x.belief)
        PROVE  Newer(x, y)
    <3>1. y \in states /\ y \in BeliefState
      BY DEF StatesOf, IInv, TypeOK
    <3>2. CASE y.event < x.event
      BY <2>1, <2>2, <3>1, <3>2, KeysAreNumbers DEF Newer
    <3>3. CASE y.event = x.event /\ restarts = 0
      <4>1. y.id <= lastId /\ lastId < x.id /\ lastId \in Nat
        BY <2>2, <3>1, <3>3, MemoryCoreAssumption
           DEF IInv, FloorAboveIds, Mintable, TypeOK
      <4>2. QED
        BY <2>1, <2>2, <3>1, <3>3, <4>1, KeysAreNumbers DEF Newer
    <3>4. QED
      BY <3>2, <3>3 DEF InOrder
  <2> DEFINE S == {y \in states' : y.scope = x.scope /\ y.belief = x.belief}
  <2>5. S = StatesOf(x.scope, x.belief) \cup {x}
    BY <2>2 DEF StatesOf
  <2>6. \A y \in S : y \in BeliefState
    BY <2>1, <2>2, <2>5 DEF StatesOf, IInv, TypeOK
  <2>7. Tail(S) = {x}
    <3>1. x \in BeliefState /\ ~ Newer(x, x)
      BY <2>1, <2>2, NewerIsStrict
    <3>2. \A y \in StatesOf(x.scope, x.belief) : ~ Newer(y, x)
      BY <2>3, <2>5, <2>6, <3>1, NewerIsStrict
    <3>3. QED
      BY <2>3, <2>5, <3>1, <3>2 DEF Tail
  <2>8. \A y : y \in Base(x.scope)' /\ y.belief = x.belief
                 <=> y \in Tail(S) /\ y.status = "active"
    BY DEF Base, CurrentTails, Tail, Newer
  <2>9. QED
    BY <2>7, <2>8
<1>2. QED
  BY <1>1, Invariance, PTL DEF Spec, InOrderWriteWins

\* In a process that has not restarted the tiebreak reflects insertion order:
\* of two writes that share an event the later one wins.
THEOREM TiesInOneProcess ==
  ASSUME MaxRestarts = 0
  PROVE  Spec => TieGoesToLaterWrite
<1> DEFINE Later ==
      \A x \in states' \ states :
        \A y \in StatesOf(x.scope, x.belief) :
          x.event = y.event => Newer(x, y)
<1>1. IInv /\ [Next]_vars => [Later]_vars
  <2> SUFFICES ASSUME IInv, [Next]_vars, NEW x \in states' \ states,
                      NEW y \in StatesOf(x.scope, x.belief), x.event = y.event
               PROVE  Newer(x, y)
    OBVIOUS
  <2>1. restarts = 0
    BY DEF IInv, TypeOK
  <2>2. lastId < x.id /\ x.id \in StateIds
    BY StepShape, MintableIds DEF IInv, Quiet, Wrote, Mintable
  <2>3. y \in states /\ y \in BeliefState
    BY DEF StatesOf, IInv, TypeOK
  <2>4. y.id <= lastId /\ lastId \in Nat /\ x.id \in Nat /\ y.id \in Nat
    BY <2>1, <2>2, <2>3, KeysAreNumbers, MemoryCoreAssumption
    DEF IInv, FloorAboveIds, TypeOK
  <2>5. QED
    BY <2>2, <2>4 DEF Newer
<1>2. QED
  BY <1>1, Invariance, PTL DEF Spec, TieGoesToLaterWrite

-----------------------------------------------------------------------------
(* The engine implements the abstract table of BeliefBase.                  *)

\* The row of the table at k, derived.
Row(k) == CurrentTail(k[1], k[2])

Keys == Scopes \X Beliefs

\* A write touches the row of its own scope and belief only.
LEMMA OtherRowsStay ==
  ASSUME NEW x \in BeliefState, NEW prior, Wrote(x, prior),
         NEW k \in Keys, k # <<x.scope, x.belief>>
  PROVE  Row(k)' = Row(k)
<1>1. StatesOf(k[1], k[2])' = StatesOf(k[1], k[2])
  BY DEF Wrote, StatesOf, Keys
<1>2. QED
  BY <1>1 DEF Row, CurrentTail, Tail, Newer

\* The row of a write moves to the new state, or stays when the write is late.
LEMMA OwnRowMoves ==
  ASSUME IInv, NEW x \in BeliefState, NEW prior, Wrote(x, prior),
         NEW k \in Keys, k = <<x.scope, x.belief>>
  PROVE  \/ Row(k)' = Row(k)
         \/ Row(k)' = {x} /\ \A y \in Row(k) : Newer(x, y)
<1> DEFINE S == StatesOf(x.scope, x.belief)
<1>1. /\ \A y \in states : y.id # x.id
      /\ states' = states \cup {x}
      /\ S \subseteq states
      /\ x.scope \in Scopes /\ x.belief \in Beliefs
  BY DEF Wrote, Mintable, StatesOf, BeliefState
<1>2. Row(k) = Tail(S) /\ Row(k)' = Tail(S \cup {x})
  <2>1. S' = S \cup {x}
    BY <1>1 DEF StatesOf
  <2>2. QED
    BY <2>1 DEF Row, CurrentTail, Tail, Newer
<1>3. CASE S = {}
  BY <1>2, <1>3, TailOfOne DEF Tail
<1>4. CASE S # {}
  <2>1. PICK t : t \in Tail(S)
    BY <1>1, <1>4 DEF IInv, TailExists, CurrentTail
  <2>2. Tail(S) = {t}
    BY <1>1, <2>1, TailUnique DEF IInv
  <2>3. /\ Newer(x, t) => Tail(S \cup {x}) = {x}
        /\ ~ Newer(x, t) => Tail(S \cup {x}) = {t}
    BY <1>1, <2>1, TailGrows DEF IInv
  <2>4. QED
    BY <1>2, <2>2, <2>3
<1>5. QED
  BY <1>3, <1>4

\* A step of the engine is a step of the table or leaves it alone.
LEMMA StepRefines ==
  ASSUME IInv, [Next]_vars
  PROVE  \/ [k \in Keys |-> Row(k)]' = [k \in Keys |-> Row(k)]
         \/ \E k \in Keys :
              \E x \in BeliefState :
                /\ <<x.scope, x.belief>> = k
                /\ \A y \in Row(k) : Newer(x, y)
                /\ [k2 \in Keys |-> Row(k2)]' =
                     [[k2 \in Keys |-> Row(k2)] EXCEPT ![k] = {x}]
                /\ \/ x.status = "active"
                   \/ /\ x.status = "retracted" /\ k[1] # World
                      /\ \E y \in Row(k) : /\ y.status = "active"
                                           /\ x.payload = y.payload
<1>1. CASE Quiet
  <2>1. \A k \in Keys : Row(k)' = Row(k)
    BY <1>1 DEF Quiet, Row, CurrentTail, StatesOf, Tail, Newer
  <2>2. QED
    BY <2>1
<1>2. CASE \E x \in BeliefState, prior \in SUBSET states : Wrote(x, prior)
  <2>1. PICK x \in BeliefState, prior \in SUBSET states : Wrote(x, prior)
    BY <1>2
  <2> DEFINE k == <<x.scope, x.belief>>
  <2>2. k \in Keys
    BY DEF Keys, BeliefState
  <2>3. \A j \in Keys : j # k => Row(j)' = Row(j)
    BY <2>1, OtherRowsStay
  <2>4. CASE Row(k)' = Row(k)
    BY <2>3, <2>4
  <2>5. CASE Row(k)' = {x} /\ \A y \in Row(k) : Newer(x, y)
    <3>1. [j \in Keys |-> Row(j)]' =
            [[j \in Keys |-> Row(j)] EXCEPT ![k] = {x}]
      BY <2>2, <2>3, <2>5
    <3>2. CASE x.status = "active"
      BY <2>2, <2>5, <3>1, <3>2
    <3>3. CASE x.status = "retracted" /\ x.scope # World
      <4>1. PICK y \in prior : x.payload = y.payload
        BY <2>1, <3>3 DEF Wrote
      <4>2. /\ y \in Row(k) /\ y.status # "retracted"
        BY <2>1, <4>1 DEF Wrote, Current, IsActiveTail, Row
      <4>3. y.status = "active"
        BY <2>1, <4>1, <4>2 DEF IInv, TypeOK, BeliefState, Status
      <4>4. QED
        BY <2>2, <2>5, <3>1, <3>3, <4>1, <4>2, <4>3
    <3>4. QED
      BY <2>1, <3>2, <3>3 DEF Wrote
  <2>6. QED
    BY <2>1, <2>2, <2>4, <2>5, OwnRowMoves
<1>3. QED
  BY <1>1, <1>2, StepShape DEF IInv

\* The state derived by an ordering-max over the history behaves as a stored
\* current pointer that only moves forward, late writes, retractions and
\* restarts included.
THEOREM ImplementsBeliefBase == Spec => BeliefBaseSpec
<1>1. Init => B!Init
  BY DEF Init, B!Init, CurrentTail, Tail, StatesOf
<1>2. IInv /\ [Next]_vars =>
        [B!Next]_([k \in Scopes \X Beliefs |-> CurrentTail(k[1], k[2])])
  <2> SUFFICES ASSUME IInv, [Next]_vars
               PROVE  [B!Next]_([k \in Scopes \X Beliefs |->
                                  CurrentTail(k[1], k[2])])
    OBVIOUS
  <2> DEFINE base == [k \in Scopes \X Beliefs |-> CurrentTail(k[1], k[2])]
  <2>1. CASE base' = base
    BY <2>1
  <2>2. ASSUME NEW k \in Keys, NEW x \in BeliefState,
               <<x.scope, x.belief>> = k,
               \A y \in Row(k) : Newer(x, y),
               base' = [base EXCEPT ![k] = {x}],
               \/ x.status = "active"
               \/ /\ x.status = "retracted" /\ k[1] # World
                  /\ \E y \in Row(k) : /\ y.status = "active"
                                       /\ x.payload = y.payload
        PROVE  B!Next
    <3>1. base[k] = Row(k)
      BY <2>2 DEF Row, Keys
    <3>2. B!Put(k, x)
      BY <2>2, <3>1 DEF B!Put, B!Later, Newer
    <3>3. CASE x.status = "active"
      <4>1. x \in B!Rows("active", x.payload) /\ x.payload \in Payloads
        BY <3>3 DEF BeliefState, B!Rows
      <4>2. B!Assert(k)
        BY <3>2, <4>1 DEF B!Assert
      <4>3. QED
        BY <2>2, <4>2 DEF B!Next, Keys
    <3>4. CASE x.status # "active"
      <4>1. PICK y \in Row(k) : /\ y.status = "active"
                                /\ x.payload = y.payload
        BY <2>2, <3>4
      <4>2. x \in B!Rows("retracted", y.payload) /\ k[1] # World
        BY <2>2, <3>4, <4>1 DEF BeliefState, B!Rows
      <4>3. B!Retract(k)
        BY <3>1, <3>2, <4>1, <4>2 DEF B!Retract
      <4>4. QED
        BY <2>2, <4>3 DEF B!Next, Keys
    <3>5. QED
      BY <3>3, <3>4
  <2>3. QED
    BY <2>1, <2>2, StepRefines DEF Keys, Row
<1>3. QED
  BY <1>1, <1>2, Invariance, PTL DEF Spec, BeliefBaseSpec, B!Spec

-----------------------------------------------------------------------------
(* The revision chain: the states of a belief by rank in the order.         *)

\* A call writes at most one state.
THEOREM FinitelyManyStates == Spec => []IsFiniteSet(states)
<1>1. Init => IsFiniteSet(states)
  BY FS_EmptySet DEF Init
<1>2. IInv /\ IsFiniteSet(states) /\ [Next]_vars => IsFiniteSet(states)'
  <2> SUFFICES ASSUME IInv, IsFiniteSet(states), [Next]_vars
               PROVE  IsFiniteSet(states')
    OBVIOUS
  <2>1. states' = states \/ \E x : states' = states \cup {x}
    BY StepShape DEF IInv, Quiet, Wrote
  <2>2. QED
    BY <2>1, FS_AddElement
<1>3. QED
  BY <1>1, <1>2, Invariance, PTL DEF Spec

StatesOfAnyScope(b) == {x \in states : x.belief = b}

Older(b, x) == {y \in StatesOfAnyScope(b) : Newer(x, y)}

Rank(b, x) == Cardinality(Older(b, x))

\* The rank of a state is a number below that of its belief's states, and
\* ranks order states as the ordering contract does.
LEMMA RankOrders ==
  ASSUME TypeOK, IdsUnique, IsFiniteSet(states), NEW b,
         NEW x \in StatesOfAnyScope(b), NEW y \in StatesOfAnyScope(b)
  PROVE  /\ Cardinality(StatesOfAnyScope(b)) \in Nat
         /\ Rank(b, x) \in 0 .. Cardinality(StatesOfAnyScope(b)) - 1
         /\ Newer(x, y) <=> Rank(b, y) < Rank(b, x)
         /\ Rank(b, x) = Rank(b, y) => x = y
<1> DEFINE S == StatesOfAnyScope(b)
<1>1. S \subseteq states /\ S \subseteq BeliefState /\ IsFiniteSet(S)
  BY FS_Subset DEF StatesOfAnyScope, TypeOK
<1>2. /\ Cardinality(S) \in Nat
      /\ \A z \in S : /\ Older(b, z) \subseteq S /\ z \notin Older(b, z)
                      /\ IsFiniteSet(Older(b, z)) /\ Rank(b, z) \in Nat
                      /\ Rank(b, z) < Cardinality(S)
  <2> SUFFICES ASSUME NEW z \in S
               PROVE  /\ Cardinality(S) \in Nat
                      /\ Older(b, z) \subseteq S /\ z \notin Older(b, z)
                      /\ IsFiniteSet(Older(b, z)) /\ Rank(b, z) \in Nat
                      /\ Rank(b, z) < Cardinality(S)
    BY <1>1, FS_CardinalityType
  <2>1. Older(b, z) \subseteq S
    BY DEF Older
  <2>2. z \notin Older(b, z)
    BY <1>1, NewerIsStrict DEF Older
  <2>3. /\ IsFiniteSet(Older(b, z))
        /\ Cardinality(Older(b, z)) <= Cardinality(S)
        /\ Cardinality(S) = Cardinality(Older(b, z)) => S = Older(b, z)
    BY <1>1, <2>1, FS_Subset
  <2>4. Cardinality(S) \in Nat /\ Cardinality(Older(b, z)) \in Nat
    BY <1>1, <2>3, FS_CardinalityType
  <2>5. QED
    BY <2>1, <2>2, <2>3, <2>4 DEF Rank
<1>3. ASSUME NEW v \in S, NEW w \in S, Newer(v, w)
      PROVE  Rank(b, w) < Rank(b, v)
  <2>1. Older(b, w) \subseteq Older(b, v)
    BY <1>1, <1>3, NewerIsTransitive DEF Older
  <2>2. w \in Older(b, v) /\ w \notin Older(b, w)
    BY <1>2, <1>3 DEF Older
  <2>3. /\ Cardinality(Older(b, w)) <= Cardinality(Older(b, v))
        /\ Cardinality(Older(b, v)) = Cardinality(Older(b, w)) =>
             Older(b, v) = Older(b, w)
    BY <1>2, <2>1, FS_Subset
  <2>4. Cardinality(Older(b, w)) \in Nat /\ Cardinality(Older(b, v)) \in Nat
    BY <1>2 DEF Rank
  <2>5. QED
    BY <2>2, <2>3, <2>4 DEF Rank
<1>4. x = y \/ Newer(x, y) \/ Newer(y, x)
  BY <1>1, NewerIsStrict DEF IdsUnique
<1>5. Rank(b, x) \in Nat /\ Rank(b, y) \in Nat
  BY <1>2
<1>6. Newer(x, y) <=> Rank(b, y) < Rank(b, x)
  <2>1. ASSUME Rank(b, y) < Rank(b, x)
        PROVE  Newer(x, y)
    <3>1. x # y
      BY <1>5, <2>1
    <3>2. ~ Newer(y, x)
      BY <1>3, <1>5, <2>1
    <3>3. QED
      BY <1>4, <3>1, <3>2
  <2>2. QED
    BY <1>3, <2>1
<1>7. Rank(b, x) = Rank(b, y) => x = y
  BY <1>3, <1>4, <1>5
<1>8. QED
  BY <1>2, <1>6, <1>7

\* The chain lists each state of the belief once, in the order of its rank.
LEMMA ChainIsByRank ==
  ASSUME TypeOK, IdsUnique, IsFiniteSet(states), NEW b
  PROVE  /\ DOMAIN RevisionChain(b) \subseteq Nat
         /\ \A i \in DOMAIN RevisionChain(b) :
              /\ RevisionChain(b)[i] \in StatesOfAnyScope(b)
              /\ i = Rank(b, RevisionChain(b)[i]) + 1
         /\ \A x \in StatesOfAnyScope(b) :
              \E i \in DOMAIN RevisionChain(b) : RevisionChain(b)[i] = x
<1> DEFINE S == StatesOfAnyScope(b)
           n == Cardinality(S)
           r == [x \in S |-> Rank(b, x)]
<1>1. IsFiniteSet(S) /\ n \in Nat
  <2>1. IsFiniteSet(S)
    BY FS_Subset DEF StatesOfAnyScope
  <2>2. QED
    BY <2>1, FS_CardinalityType
<1>2. RevisionChain(b) = [i \in 1 .. n |-> CHOOSE x \in S : Rank(b, x) = i - 1]
  BY DEF RevisionChain, Rank, Older, StatesOfAnyScope
<1>3. r \in Injection(S, 0 .. n - 1)
  BY RankOrders DEF Injection, IsInjective
<1>4. r \in Surjection(S, 0 .. n - 1)
  <2>1. IsFiniteSet(0 .. n - 1) /\ Cardinality(0 .. n - 1) = n
    BY <1>1, FS_Interval
  <2>2. QED
    BY <1>3, <2>1, FS_Injection
<1>5. ASSUME NEW i \in 1 .. n
      PROVE  /\ RevisionChain(b)[i] \in S
             /\ i = Rank(b, RevisionChain(b)[i]) + 1
  <2>1. i - 1 \in 0 .. n - 1
    BY <1>1
  <2>2. \E x \in S : Rank(b, x) = i - 1
    BY <1>4, <2>1 DEF Surjection
  <2>3. /\ RevisionChain(b)[i] \in S
        /\ Rank(b, RevisionChain(b)[i]) = i - 1
    BY <1>2, <2>2
  <2>4. QED
    BY <1>1, <2>3
<1>6. ASSUME NEW x \in S
      PROVE  \E i \in 1 .. n : RevisionChain(b)[i] = x
  <2>1. Rank(b, x) \in 0 .. n - 1
    BY RankOrders
  <2>2. Rank(b, x) + 1 \in 1 .. n
    BY <1>1, <2>1
  <2>3. /\ RevisionChain(b)[Rank(b, x) + 1] \in S
        /\ Rank(b, RevisionChain(b)[Rank(b, x) + 1]) = Rank(b, x)
    BY <1>5, <2>1, <2>2, RankOrders
  <2>4. QED
    BY <2>2, <2>3, RankOrders
<1>7. DOMAIN RevisionChain(b) = 1 .. n
  BY <1>2
<1>8. QED
  BY <1>1, <1>5, <1>6, <1>7

\* The chain and the base reads agree: the last entry of the chain in a scope
\* up to a cut is what the base as of that cut shows of the belief.
THEOREM ChainAgreesWithBase == Spec => []ChainAgrees
<1>1. IInv /\ IsFiniteSet(states) => ChainAgrees
  <2> SUFFICES ASSUME IInv, IsFiniteSet(states),
                      NEW s \in Scopes, NEW b \in Beliefs, NEW e \in Events
               PROVE  LET chain == RevisionChain(b)
                          upTo  == {i \in DOMAIN chain :
                                      /\ chain[i].scope = s
                                      /\ chain[i].event <= e}
                          last  == {i \in upTo : \A j \in upTo : j <= i}
                      IN  {x \in ScopeAt(s, e) : x.belief = b} =
                            {x \in {chain[i] : i \in last} : IsActiveTail(x)}
    BY DEF ChainAgrees
  <2> DEFINE chain == RevisionChain(b)
             upTo == {i \in DOMAIN chain : /\ chain[i].scope = s
                                           /\ chain[i].event <= e}
             last == {i \in upTo : \A j \in upTo : j <= i}
             U == UpTo(s, b, e)
  <2>1. TypeOK /\ IdsUnique
    BY DEF IInv
  <2>2. /\ DOMAIN chain \subseteq Nat
        /\ \A i \in DOMAIN chain : /\ chain[i] \in StatesOfAnyScope(b)
                                   /\ i = Rank(b, chain[i]) + 1
        /\ \A x \in StatesOfAnyScope(b) : \E i \in DOMAIN chain : chain[i] = x
    BY <2>1, ChainIsByRank
  <2> HIDE DEF chain
  <2>3. U \subseteq StatesOfAnyScope(b)
    BY DEF UpTo, StatesOfAnyScope
  <2>4. \A i \in DOMAIN chain : i \in upTo <=> chain[i] \in U
    BY <2>2 DEF UpTo, StatesOfAnyScope
  <2>5. \A i \in DOMAIN chain, j \in DOMAIN chain :
          Newer(chain[j], chain[i]) <=> ~ (j <= i)
    <3> SUFFICES ASSUME NEW i \in DOMAIN chain, NEW j \in DOMAIN chain
                 PROVE  Newer(chain[j], chain[i]) <=> ~ (j <= i)
      OBVIOUS
    <3>1. Newer(chain[j], chain[i]) <=> Rank(b, chain[i]) < Rank(b, chain[j])
      BY <2>1, <2>2, RankOrders
    <3>2. Rank(b, chain[i]) \in Nat /\ Rank(b, chain[j]) \in Nat
      <4>1. /\ Cardinality(StatesOfAnyScope(b)) \in Nat
            /\ Rank(b, chain[i]) \in 0 .. Cardinality(StatesOfAnyScope(b)) - 1
            /\ Rank(b, chain[j]) \in 0 .. Cardinality(StatesOfAnyScope(b)) - 1
        BY <2>1, <2>2, RankOrders
      <4>2. QED
        BY <4>1
    <3>3. QED
      BY <2>2, <3>1, <3>2
  <2>6. {chain[i] : i \in last} = Tail(U)
    <3>1. ASSUME NEW i \in last
          PROVE  chain[i] \in Tail(U)
      <4>1. chain[i] \in U
        BY <2>4
      <4>2. ASSUME NEW y \in U
            PROVE  ~ Newer(y, chain[i])
        <5>1. PICK j \in DOMAIN chain : chain[j] = y
          BY <2>2, <2>3
        <5>2. j \in upTo
          BY <2>4, <5>1
        <5>3. QED
          BY <2>5, <5>1, <5>2
      <4>3. QED
        BY <4>1, <4>2 DEF Tail
    <3>2. ASSUME NEW x \in Tail(U)
          PROVE  \E i \in last : chain[i] = x
      <4>1. x \in U /\ \A y \in U : ~ Newer(y, x)
        BY DEF Tail
      <4>2. PICK i \in DOMAIN chain : chain[i] = x
        BY <2>2, <2>3, <4>1
      <4>3. i \in upTo
        BY <2>4, <4>1, <4>2
      <4>4. \A j \in upTo : j <= i
        BY <2>4, <2>5, <4>1, <4>2
      <4>5. QED
        BY <4>2, <4>3, <4>4
    <3>3. QED
      BY <3>1, <3>2
  <2>7. \A x : x \in Tail(U) => x.belief = b /\ x \in states
    BY DEF Tail, UpTo
  <2>8. \A x : (x \in ScopeAt(s, e) /\ x.belief = b)
               <=> x \in Tail(U) /\ IsActiveTail(x)
    BY <2>7, ScopeAtRow DEF IsActiveTail
  <2>9. {x \in ScopeAt(s, e) : x.belief = b} =
          {x \in {chain[i] : i \in last} : IsActiveTail(x)}
    <3> HIDE DEF last, U
    <3> QED BY <2>6, <2>8
  <2>10. QED
    BY <2>9 DEF chain
<1>2. QED
  BY <1>1, Invariance, FinitelyManyStates, PTL
=============================================================================
