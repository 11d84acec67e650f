-------------------------- MODULE MemoryUnitProofs --------------------------
(***************************************************************************)
(* Proofs about MemoryUnit: on InMemoryBackend each call of the engine, in *)
(* units of work nested to any depth, with an exception at any step, is    *)
(* one atomic step of MemoryCore or none, and the node index of the        *)
(* backend never drifts from its nodes.                                    *)
(***************************************************************************)
EXTENDS MemoryUnit, SequenceTheorems, TLAPS

\* No id names nodes of two labels.  State ids are minted, random UUIDs, but a
\* scope_id or a belief_id is whatever string the caller passes: keeping them
\* apart, from each other and from state ids, is up to the callers.
StateIdsApart == (Scopes \cup Beliefs) \cap StateIds = {}

IdsApart == StateIdsApart /\ Scopes \cap Beliefs = {}

\* Callers give add_edge the handles of states, as its signature asks.
HandlesOfStates == Handles \subseteq StateIds

-----------------------------------------------------------------------------
(* Types.                                                                   *)

Labels == {"Scope", "Belief", "BeliefState"}

Keys == Scopes \cup Beliefs \cup StateIds

Indexes == UNION {[D -> Labels] : D \in SUBSET Keys}

Rows == [id : StateIds, scope : Scopes, belief : Beliefs, event : Events,
         payload : Payloads, status : {"active", "retracted"}]

Dbs == [scopes : SUBSET Scopes, beliefs : SUBSET Beliefs, states : SUBSET Rows,
        hub : SUBSET (Beliefs \X StateIds), spine : SUBSET (StateIds \X StateIds),
        edges : SUBSET (EdgeTypes \X Handles \X Handles), index : Indexes]

Floors == {0} \cup StateIds

WriteFrames ==
  [at : {"probe", "scope", "belief", "prior", "state", "hub", "spine", "exit"},
   scope : Scopes, belief : Beliefs, payload : Payloads \cup {NoPayload},
   event : Events, status : {"active", "retracted"}, prior : SUBSET Rows,
   floor : Floors]

EdgeFrames == [at : {"edge"}, floor : Floors]

UnitTypeOK ==
  /\ db \in Dbs
  /\ units \in Seq(Dbs)
  /\ call \in WriteFrames \cup EdgeFrames \cup {Idle}
  /\ lastId \in Floors

-----------------------------------------------------------------------------
(* The invariant.                                                           *)

\* The index of a store holds its nodes, each under its own label.
Exact(d) ==
  /\ DOMAIN d.index = d.scopes \cup d.beliefs \cup StateKeys(d)
  /\ \A k \in DOMAIN d.index :
       CASE d.index[k] = "BeliefState" -> k \in StateKeys(d)
         [] d.index[k] = "Belief" -> k \in d.beliefs
         [] OTHER -> k \in d.scopes

\* A store, and so a snapshot, as the calls leave it.
Sound(d) == Exact(d) /\ \A x \in d.states : x.belief \in d.beliefs

\* The state a call has stored, or is to store.
Minting(f, id) ==
  [id |-> id, scope |-> f.scope, belief |-> f.belief, event |-> f.event,
   payload |-> f.payload, status |-> f.status]

\* The prior of a call under way is what was current when it began.
PriorProgress(f) ==
  \/ /\ f.status = "active" /\ f.payload \in Payloads /\ f.at # "probe"
     /\ f.at \in {"state", "hub", "spine", "exit"} =>
          f.prior = Core!Current(f.scope, f.belief)
  \/ /\ f.status = "retracted" /\ f.scope # World /\ f.at = "probe"
  \/ /\ f.status = "retracted" /\ f.scope # World
     /\ f.at \in {"scope", "state", "hub", "spine", "exit"}
     /\ \E x \in Core!Current(f.scope, f.belief) :
          f.prior = {x} /\ f.payload = x.payload

\* What a call has added to the store it began with.
NodesProgress(f) ==
  /\ db.scopes = Innermost.scopes \cup
                   (IF f.at \in {"probe", "scope"} THEN {} ELSE {f.scope})
  /\ db.beliefs = Innermost.beliefs \cup
                    (IF f.status = "active" /\ f.at \notin {"scope", "belief"}
                     THEN {f.belief} ELSE {})
  /\ IF f.at \in {"hub", "spine", "exit"}
     THEN /\ lastId \in Core!Mintable
          /\ db.states = Innermost.states \cup {Minting(f, lastId)}
     ELSE lastId = f.floor /\ db.states = Innermost.states

EdgesProgress(f) ==
  /\ db.edges = Innermost.edges
  /\ db.hub = Innermost.hub \cup
                (IF f.at \in {"spine", "exit"} THEN {<<f.belief, lastId>>} ELSE {})
  /\ db.spine = Innermost.spine \cup
                  (IF f.at = "exit" THEN {<<lastId, x.id>> : x \in f.prior}
                   ELSE {})

WriteProgress(f) == PriorProgress(f) /\ NodesProgress(f) /\ EdgesProgress(f)

EdgeLaid(from, to, type) ==
  db = IF Known(Innermost, from, to)
       THEN [Innermost EXCEPT !.edges = @ \cup {<<type, from, to>>}]
       ELSE Innermost

EdgeProgress(f) ==
  /\ lastId = f.floor
  /\ \E from, to \in Handles, type \in EdgeTypes : EdgeLaid(from, to, type)

Progress(f) ==
  /\ f \in WriteFrames => WriteProgress(f)
  /\ f \in EdgeFrames => EdgeProgress(f)

UnitInv ==
  /\ UnitTypeOK
  /\ Sound(db) /\ \A i \in 1 .. Len(units) : Sound(units[i])
  /\ call # Idle => units # <<>> /\ Progress(call)

-----------------------------------------------------------------------------
(* The backend's primitives keep a store sound.                             *)

LEMMA IndexedType ==
  ASSUME NEW d \in Dbs, NEW k \in Keys, NEW label \in Labels
  PROVE  /\ Indexed(d, k, label) \in Indexes
         /\ DOMAIN Indexed(d, k, label) = DOMAIN d.index \cup {k}
         /\ Indexed(d, k, label)[k] = label
         /\ \A j \in DOMAIN d.index :
              j # k => Indexed(d, k, label)[j] = d.index[j]
<1>1. PICK D \in SUBSET Keys :
        d.index \in [D -> Labels]
  BY DEF Dbs, Indexes
<1>2. Indexed(d, k, label) \in [D \cup {k} -> Labels]
  BY <1>1 DEF Indexed
<1>3. D \cup {k} \in SUBSET Keys
  BY <1>1
<1>4. Indexed(d, k, label) \in Indexes
  BY <1>2, <1>3 DEF Indexes
<1>5. QED
  BY <1>1, <1>4 DEF Indexed

LEMMA ScopeUpserted ==
  ASSUME NEW d \in Dbs, Sound(d), NEW s \in Scopes,
         NEW e, e = UpsertScope(d, s)
  PROVE  /\ e \in Dbs /\ Sound(e)
         /\ e.scopes = d.scopes \cup {s} /\ e.beliefs = d.beliefs
         /\ e.states = d.states /\ e.hub = d.hub /\ e.spine = d.spine
         /\ e.edges = d.edges
<1>1. CASE s \in d.scopes
  BY <1>1 DEF UpsertScope
<1>2. CASE s \notin d.scopes
  <2> DEFINE index == Indexed(d, s, "Scope")
  <2>1. e = [scopes |-> d.scopes \cup {s}, beliefs |-> d.beliefs,
             states |-> d.states, hub |-> d.hub, spine |-> d.spine,
             edges |-> d.edges, index |-> index]
    BY <1>2 DEF UpsertScope, Dbs
  <2>2. /\ index \in Indexes /\ DOMAIN index = DOMAIN d.index \cup {s}
        /\ index[s] = "Scope"
        /\ \A j \in DOMAIN d.index : j # s => index[j] = d.index[j]
    <3>1. "Scope" \in Labels /\ s \in Keys
      BY DEF Labels, Keys
    <3>2. QED
      BY <3>1, IndexedType
  <2> HIDE DEF index
  <2>3. e \in Dbs
    BY <2>1, <2>2 DEF Dbs
  <2>4. /\ e.scopes = d.scopes \cup {s} /\ e.beliefs = d.beliefs
        /\ e.states = d.states /\ e.hub = d.hub /\ e.spine = d.spine
        /\ e.edges = d.edges /\ e.index = index
    BY <2>1 DEF Dbs
  <2>5. Exact(e)
    BY <2>2, <2>4 DEF Sound, Exact, StateKeys
  <2>6. QED
    BY <2>3, <2>4, <2>5 DEF Sound
<1>3. QED
  BY <1>1, <1>2

LEMMA BeliefUpserted ==
  ASSUME NEW d \in Dbs, Sound(d), NEW b \in Beliefs,
         NEW e, e = UpsertBelief(d, b)
  PROVE  /\ e \in Dbs /\ Sound(e)
         /\ e.beliefs = d.beliefs \cup {b} /\ e.scopes = d.scopes
         /\ e.states = d.states /\ e.hub = d.hub /\ e.spine = d.spine
         /\ e.edges = d.edges
<1>1. CASE b \in d.beliefs
  BY <1>1 DEF UpsertBelief
<1>2. CASE b \notin d.beliefs
  <2> DEFINE index == Indexed(d, b, "Belief")
  <2>1. e = [scopes |-> d.scopes, beliefs |-> d.beliefs \cup {b},
             states |-> d.states, hub |-> d.hub, spine |-> d.spine,
             edges |-> d.edges, index |-> index]
    BY <1>2 DEF UpsertBelief, Dbs
  <2>2. /\ index \in Indexes /\ DOMAIN index = DOMAIN d.index \cup {b}
        /\ index[b] = "Belief"
        /\ \A j \in DOMAIN d.index : j # b => index[j] = d.index[j]
    <3>1. "Belief" \in Labels /\ b \in Keys
      BY DEF Labels, Keys
    <3>2. QED
      BY <3>1, IndexedType
  <2> HIDE DEF index
  <2>3. e \in Dbs
    BY <2>1, <2>2 DEF Dbs
  <2>4. /\ e.beliefs = d.beliefs \cup {b} /\ e.scopes = d.scopes
        /\ e.states = d.states /\ e.hub = d.hub /\ e.spine = d.spine
        /\ e.edges = d.edges /\ e.index = index
    BY <2>1 DEF Dbs
  <2>5. Exact(e)
    BY <2>2, <2>4 DEF Sound, Exact, StateKeys
  <2>6. QED
    BY <2>3, <2>4, <2>5 DEF Sound
<1>3. QED
  BY <1>1, <1>2

LEMMA StateUpserted ==
  ASSUME NEW d \in Dbs, Sound(d), NEW x \in Rows, x.belief \in d.beliefs,
         NEW e, e = UpsertState(d, x)
  PROVE  /\ e \in Dbs /\ Sound(e)
         /\ e.states = d.states \cup {x} /\ e.scopes = d.scopes
         /\ e.beliefs = d.beliefs /\ e.hub = d.hub /\ e.spine = d.spine
         /\ e.edges = d.edges
<1>0. PICK k \in Keys : k = x.id
  BY DEF Rows, Keys
<1> DEFINE index == Indexed(d, k, "BeliefState")
<1>1. e = [scopes |-> d.scopes, beliefs |-> d.beliefs,
           states |-> d.states \cup {x}, hub |-> d.hub, spine |-> d.spine,
           edges |-> d.edges, index |-> index]
  BY <1>0 DEF UpsertState, Dbs
<1>2. /\ index \in Indexes /\ DOMAIN index = DOMAIN d.index \cup {k}
      /\ index[k] = "BeliefState"
      /\ \A j \in DOMAIN d.index : j # k => index[j] = d.index[j]
  <2>1. "BeliefState" \in Labels
    BY DEF Labels
  <2>2. QED
    BY <2>1, IndexedType
<1> HIDE DEF index
<1>3. e \in Dbs
  BY <1>1, <1>2 DEF Dbs
<1>4. /\ e.states = d.states \cup {x} /\ e.scopes = d.scopes
      /\ e.beliefs = d.beliefs /\ e.hub = d.hub /\ e.spine = d.spine
      /\ e.edges = d.edges /\ e.index = index
  BY <1>1 DEF Dbs
<1>5. StateKeys(e) = StateKeys(d) \cup {k}
  BY <1>0, <1>4 DEF StateKeys
<1>6. Exact(e)
  BY <1>2, <1>4, <1>5 DEF Sound, Exact
<1>7. QED
  BY <1>3, <1>4, <1>6 DEF Sound

\* Laying an edge is no matter of nodes or index.
LEMMA EdgesAreApart ==
  ASSUME NEW d \in Dbs, Sound(d), NEW e \in Dbs,
         e.scopes = d.scopes, e.beliefs = d.beliefs, e.states = d.states,
         e.index = d.index
  PROVE  Sound(e)
  BY DEF Sound, Exact, StateKeys

LEMMA RestoredIsSound ==
  ASSUME NEW d \in Dbs, Sound(d), NEW e, e = Restored(d)
  PROVE  /\ e \in Dbs /\ Sound(e)
         /\ e.scopes = d.scopes /\ e.beliefs = d.beliefs
         /\ e.states = d.states /\ e.hub = d.hub /\ e.spine = d.spine
         /\ e.edges = d.edges
<1> DEFINE index == Reindex(d)
<1>1. e = [d EXCEPT !.index = index]
  BY DEF Restored
<1>2. StateKeys(d) \subseteq StateIds
  BY DEF StateKeys, Dbs, Rows
<1>3. /\ index \in [d.scopes \cup d.beliefs \cup StateKeys(d) -> Labels]
      /\ \A k \in d.scopes \cup d.beliefs \cup StateKeys(d) :
           index[k] = IF k \in StateKeys(d) THEN "BeliefState"
                      ELSE IF k \in d.beliefs THEN "Belief" ELSE "Scope"
  BY DEF Reindex, Labels
<1> HIDE DEF index
<1>4. d.scopes \cup d.beliefs \cup StateKeys(d) \in SUBSET Keys
  BY <1>2 DEF Dbs, Keys
<1>5. index \in Indexes
  BY <1>3, <1>4 DEF Indexes
<1>6. e \in Dbs
  BY <1>1, <1>5 DEF Dbs
<1>7. /\ e.scopes = d.scopes /\ e.beliefs = d.beliefs
      /\ e.states = d.states /\ e.hub = d.hub /\ e.spine = d.spine
      /\ e.edges = d.edges /\ e.index = index
  BY <1>1 DEF Dbs
<1>8. Exact(e)
  BY <1>3, <1>7 DEF Exact, StateKeys
<1>9. QED
  BY <1>6, <1>7, <1>8 DEF Sound

-----------------------------------------------------------------------------
(* The stack of snapshots.                                                  *)

LEMMA Pushed ==
  ASSUME units \in Seq(Dbs), db \in Dbs, units' = Append(units, db)
  PROVE  /\ units' \in Seq(Dbs) /\ units' # <<>>
         /\ Len(units') = Len(units) + 1
         /\ units'[Len(units')] = db
         /\ \A i \in 1 .. Len(units) : units'[i] = units[i]
  OBVIOUS

LEMMA Popped ==
  ASSUME units \in Seq(Dbs), units # <<>>, units' = Outside
  PROVE  /\ units' \in Seq(Dbs) /\ Len(units') = Len(units) - 1
         /\ \A i \in 1 .. Len(units') : units'[i] = units[i]
         /\ Len(units) \in 1 .. Len(units)
         /\ Innermost \in Dbs
<1>1. PICK n \in Nat : n + 1 = Len(units)
  <2>1. Len(units) \in Nat /\ Len(units) # 0
    OBVIOUS
  <2>2. Len(units) - 1 \in Nat
    BY <2>1
  <2>3. QED
    BY <2>2
<1>2. units' = SubSeq(units, 1, n)
  BY <1>1 DEF Outside, Front
<1>3. QED
  BY <1>1, <1>2 DEF Innermost

\* What is left when a unit is closed, the innermost or another.
Kept ==
  /\ units' \in Seq(Dbs)
  /\ \A j \in 1 .. Len(units') : \E k \in 1 .. Len(units) : units'[j] = units[k]

LEMMA PoppedKeeps ==
  ASSUME units \in Seq(Dbs), units # <<>>, units' = Outside
  PROVE  Kept
<1>1. /\ units' \in Seq(Dbs) /\ Len(units') = Len(units) - 1
      /\ \A i \in 1 .. Len(units') : units'[i] = units[i]
      /\ Len(units) \in Nat
  BY Popped
<1>2. \A i \in 1 .. Len(units') : i \in 1 .. Len(units)
  BY <1>1
<1>3. QED
  BY <1>1, <1>2 DEF Kept

LEMMA RemovedKeeps ==
  ASSUME units \in Seq(Dbs), NEW i \in DOMAIN units,
         units' = RemoveAt(units, i)
  PROVE  Kept /\ units[i] \in Dbs /\ i \in 1 .. Len(units)
<1>1. Len(units) \in Nat /\ i \in 1 .. Len(units) /\ units[i] \in Dbs
  OBVIOUS
<1> DEFINE n == Len(units)
           inner == SubSeq(units, 1, i - 1)
           outer == SubSeq(units, i + 1, n)
<1>2. /\ inner \in Seq(Dbs) /\ Len(inner) = i - 1
      /\ \A j \in 1 .. i - 1 : inner[j] = units[j]
  BY <1>1
<1>3. /\ outer \in Seq(Dbs) /\ Len(outer) = n - i
      /\ \A j \in 1 .. n - i : outer[j] = units[i + j]
  BY <1>1
<1>4. units' = inner \o outer
  BY DEF RemoveAt
<1> HIDE DEF inner, outer
<1>5. /\ units' \in Seq(Dbs) /\ Len(units') = n - 1
      /\ \A j \in 1 .. n - 1 :
           units'[j] = IF j <= i - 1 THEN inner[j] ELSE outer[j - (i - 1)]
  <2>1. /\ inner \o outer \in Seq(Dbs)
        /\ Len(inner \o outer) = Len(inner) + Len(outer)
        /\ \A j \in 1 .. Len(inner) + Len(outer) :
             (inner \o outer)[j] = IF j <= Len(inner) THEN inner[j]
                                  ELSE outer[j - Len(inner)]
    <3>1. inner \in Seq(Dbs) /\ outer \in Seq(Dbs)
      BY <1>2, <1>3
    <3>2. QED
      BY ONLY <3>1, ConcatProperties
  <2>2. Len(inner) + Len(outer) = n - 1
    BY <1>1, <1>2, <1>3
  <2>3. QED
    BY <1>2, <1>4, <2>1, <2>2
<1>6. ASSUME NEW j \in 1 .. n - 1
      PROVE  \E k \in 1 .. n : units'[j] = units[k]
  <2>1. CASE j <= i - 1
    <3>1. units'[j] = units[j] /\ j \in 1 .. n
      BY <1>1, <1>2, <1>5, <2>1
    <3>2. QED
      BY <3>1
  <2>2. CASE ~ (j <= i - 1)
    <3>1. j - (i - 1) \in 1 .. n - i /\ j + 1 \in 1 .. n
          /\ i + (j - (i - 1)) = j + 1
      BY <1>1, <2>2
    <3>2. units'[j] = units[j + 1]
      BY <1>3, <1>5, <2>2, <3>1
    <3>3. QED
      BY <3>1, <3>2
  <2>3. QED
    BY <2>1, <2>2
<1>7. QED
  BY <1>1, <1>5, <1>6 DEF Kept

-----------------------------------------------------------------------------
(* A call under way: what it can count on.                                  *)

WriteSteps == {"probe", "scope", "belief", "prior", "state", "hub", "spine", "exit"}

LEMMA FrameKinds ==
  /\ \A f \in WriteFrames : f.at \in WriteSteps /\ f # Idle /\ f \notin EdgeFrames
  /\ \A f \in EdgeFrames : f.at = "edge" /\ f # Idle /\ f \notin WriteFrames
  /\ Idle \notin WriteFrames \cup EdgeFrames /\ Idle.at = "idle"
  BY DEF WriteFrames, EdgeFrames, Idle, WriteSteps

\* In a call the innermost unit is its own, and a sound store.
LEMMA InCall ==
  ASSUME UnitInv, call # Idle
  PROVE  /\ call \in WriteFrames \cup EdgeFrames
         /\ db \in Dbs /\ Sound(db) /\ lastId \in Floors
         /\ units \in Seq(Dbs) /\ units # <<>>
         /\ Innermost \in Dbs /\ Sound(Innermost)
         /\ Settled = Innermost
         /\ Len(units) \in 1 .. Len(units)
<1>1. /\ call \in WriteFrames \cup EdgeFrames
      /\ db \in Dbs /\ Sound(db) /\ lastId \in Floors
      /\ units \in Seq(Dbs) /\ units # <<>>
  BY DEF UnitInv, UnitTypeOK
<1>2. Len(units) \in 1 .. Len(units) /\ units[Len(units)] \in Dbs
  BY <1>1
<1>3. QED
  BY <1>1, <1>2 DEF UnitInv, Innermost, Settled

LEMMA InWrite ==
  ASSUME UnitInv, call.at \in WriteSteps
  PROVE  /\ call \in WriteFrames /\ call # Idle
         /\ PriorProgress(call) /\ NodesProgress(call) /\ EdgesProgress(call)
<1>1. call \in WriteFrames /\ call # Idle
  BY FrameKinds DEF UnitInv, UnitTypeOK, WriteSteps
<1>2. QED
  BY <1>1 DEF UnitInv, Progress, WriteProgress

\* What the reads of the engine depend on.
LEMMA CurrentOf ==
  ASSUME db.states = Settled.states
  PROVE  \A s, b : Live!Current(s, b) = Core!Current(s, b)
  BY DEF Live!Current, Live!CurrentTail, Live!Tail, Live!StatesOf, Live!Newer,
         Live!IsActiveTail, Core!Current, Core!CurrentTail, Core!Tail,
         Core!StatesOf, Core!Newer, Core!IsActiveTail

LEMMA CurrentIsStored ==
  \A s, b : \A x \in Core!Current(s, b) :
    x \in Settled.states /\ x.scope = s /\ x.belief = b /\ x.status # "retracted"
  BY DEF Core!Current, Core!CurrentTail, Core!Tail, Core!StatesOf,
         Core!IsActiveTail

LEMMA MintableOf ==
  ASSUME call # Idle, db.states = Settled.states, lastId = call.floor
  PROVE  Live!Mintable = Core!Mintable
  BY DEF Live!Mintable, Core!Mintable

\* While a call runs, nothing it goes by changes.
LEMMA CoreStays ==
  ASSUME call # Idle, call' # Idle, call'.floor = call.floor, units' = units
  PROVE  /\ Innermost' = Innermost
         /\ \A s, b : Core!Current(s, b)' = Core!Current(s, b)
         /\ Core!Mintable' = Core!Mintable
  BY DEF Innermost, Settled, Core!Current, Core!CurrentTail, Core!Tail,
         Core!StatesOf, Core!IsActiveTail, Core!Newer, Core!Mintable

-----------------------------------------------------------------------------
(* The ways a step can move a call.                                         *)

LEMMA MovesOn ==
  ASSUME UnitInv, call \in WriteFrames, call' \in WriteFrames, units' = units,
         db' \in Dbs, Sound(db)', lastId' \in Floors, WriteProgress(call)'
  PROVE  UnitInv'
<1>1. UnitTypeOK'
  BY DEF UnitInv, UnitTypeOK
<1>2. units' # <<>>
  BY FrameKinds DEF UnitInv
<1>3. Progress(call)'
  BY FrameKinds DEF Progress
<1>4. QED
  BY <1>1, <1>2, <1>3 DEF UnitInv

\* The store a call begins with is what it settles for.
LEMMA Begins ==
  ASSUME UnitInv, call = Idle, units' = Append(units, db),
         call' \in WriteFrames \cup EdgeFrames,
         db' \in Dbs, Sound(db)', lastId' \in Floors, Progress(call)'
  PROVE  UnitInv'
<1>1. /\ units \in Seq(Dbs) /\ db \in Dbs /\ Sound(db)
      /\ \A i \in 1 .. Len(units) : Sound(units[i])
  BY DEF UnitInv, UnitTypeOK
<1>2. /\ units' \in Seq(Dbs) /\ units' # <<>>
      /\ Len(units') = Len(units) + 1
      /\ units'[Len(units')] = db
      /\ \A i \in 1 .. Len(units) : units'[i] = units[i]
  BY <1>1, Pushed
<1>3. \A i \in 1 .. Len(units') : Sound(units'[i])
  <2>1. Len(units) \in Nat
    BY <1>1
  <2>2. \A i \in 1 .. Len(units') : i \in 1 .. Len(units) \/ i = Len(units')
    BY <1>2, <2>1
  <2>3. QED
    BY <1>1, <1>2, <2>2
<1>4. UnitTypeOK'
  BY <1>2 DEF UnitTypeOK
<1>5. QED
  BY <1>2, <1>3, <1>4 DEF UnitInv

\* A unit ends, the call's or its caller's.
LEMMA UnitEnds ==
  ASSUME UnitInv, Kept, call' = Idle,
         db' \in Dbs, Sound(db)', lastId' \in Floors
  PROVE  UnitInv'
<1>1. \A i \in 1 .. Len(units) : Sound(units[i])
  BY DEF UnitInv
<1>2. \A i \in 1 .. Len(units') : Sound(units'[i])
  BY <1>1 DEF Kept
<1>3. UnitTypeOK'
  BY DEF UnitTypeOK, Kept
<1>4. QED
  BY <1>2, <1>3 DEF UnitInv

\* A unit the caller opens or a scope it asks for, between calls.
LEMMA BetweenCalls ==
  ASSUME UnitInv, call = Idle, call' = Idle,
         units' \in {units, Append(units, db)},
         db' \in Dbs, Sound(db)', lastId' \in Floors
  PROVE  UnitInv'
<1>1. /\ units \in Seq(Dbs) /\ db \in Dbs /\ Sound(db)
      /\ \A i \in 1 .. Len(units) : Sound(units[i])
  BY DEF UnitInv, UnitTypeOK
<1>2. units' \in Seq(Dbs) /\ \A i \in 1 .. Len(units') : Sound(units'[i])
  <2>1. CASE units' = units
    BY <1>1, <2>1
  <2>2. CASE units' = Append(units, db)
    <3>1. /\ units' \in Seq(Dbs) /\ Len(units') = Len(units) + 1
          /\ units'[Len(units')] = db
          /\ \A i \in 1 .. Len(units) : units'[i] = units[i]
      BY <1>1, <2>2, Pushed
    <3>2. Len(units) \in Nat
      BY <1>1
    <3>3. \A i \in 1 .. Len(units') : i \in 1 .. Len(units) \/ i = Len(units')
      BY <3>1, <3>2
    <3>4. QED
      BY <1>1, <3>1, <3>3
  <2>3. QED
    BY <2>1, <2>2
<1>3. UnitTypeOK'
  BY <1>2 DEF UnitTypeOK
<1>4. QED
  BY <1>2, <1>3 DEF UnitInv

-----------------------------------------------------------------------------
(* The steps of a write, one by one.                                        *)

LEMMA GoesOn ==
  ASSUME call \in WriteFrames, NEW step \in WriteSteps, Go(step)
  PROVE  /\ call' \in WriteFrames /\ call' # Idle /\ call'.at = step
         /\ call'.scope = call.scope /\ call'.belief = call.belief
         /\ call'.payload = call.payload /\ call'.event = call.event
         /\ call'.status = call.status /\ call'.prior = call.prior
         /\ call'.floor = call.floor
<1>1. /\ call' \in WriteFrames /\ call'.at = step
      /\ call'.scope = call.scope /\ call'.belief = call.belief
      /\ call'.payload = call.payload /\ call'.event = call.event
      /\ call'.status = call.status /\ call'.prior = call.prior
      /\ call'.floor = call.floor
  BY DEF Go, WriteFrames, WriteSteps
<1>2. QED
  BY <1>1, FrameKinds

LEMMA ProbeKeeps ==
  ASSUME UnitInv, Probe
  PROVE  UnitInv'
<1>1. /\ call.at = "probe" /\ call.at \in WriteSteps
      /\ UNCHANGED <<db, lastId>>
  BY DEF Probe, At, WriteSteps
<1>2. /\ call \in WriteFrames /\ call # Idle
      /\ PriorProgress(call) /\ NodesProgress(call) /\ EdgesProgress(call)
  BY <1>1, InWrite
<1>3. /\ db \in Dbs /\ Sound(db) /\ lastId \in Floors /\ units # <<>>
      /\ Innermost \in Dbs /\ Settled = Innermost
  BY <1>2, InCall
<1>4. CASE Leave("vacuous")
  BY <1>1, <1>3, <1>4, UnitEnds, PoppedKeeps DEF Leave, UnitInv, UnitTypeOK
<1>5. ASSUME NEW x \in Live!Current(call.scope, call.belief),
             call' = [call EXCEPT !.at = "scope", !.prior = {x},
                                  !.payload = x.payload],
             units' = units
      PROVE  UnitInv'
  <2>1. x \in Core!Current(call.scope, call.belief)
    <3>1. db.states = Settled.states
      BY <1>1, <1>2, <1>3 DEF NodesProgress
    <3>2. QED
      BY <1>5, <3>1, CurrentOf
  <2>2. x \in Rows
    BY <1>3, <2>1, CurrentIsStored DEF Dbs
  <2>3. /\ call' \in WriteFrames /\ call'.at = "scope"
        /\ call'.scope = call.scope /\ call'.belief = call.belief
        /\ call'.payload = x.payload /\ call'.status = call.status
        /\ call'.prior = {x} /\ call'.floor = call.floor
    BY <1>2, <1>5, <2>2 DEF WriteFrames, Rows
  <2>4. /\ Innermost' = Innermost
        /\ \A s, b : Core!Current(s, b)' = Core!Current(s, b)
    BY <1>2, <1>5, <2>3, FrameKinds, CoreStays
  <2>5. PriorProgress(call)'
    BY <1>1, <1>2, <2>1, <2>3, <2>4 DEF PriorProgress
  <2>6. NodesProgress(call)' /\ EdgesProgress(call)'
    BY <1>1, <1>2, <2>3, <2>4 DEF NodesProgress, EdgesProgress, PriorProgress
  <2>7. QED
    BY <1>1, <1>2, <1>3, <1>5, <2>3, <2>5, <2>6, MovesOn DEF WriteProgress
<1>6. QED
  BY <1>4, <1>5 DEF Probe

LEMMA EnsureScopeKeeps ==
  ASSUME UnitInv, EnsureScope
  PROVE  UnitInv'
<1>1. /\ call.at = "scope" /\ call.at \in WriteSteps
      /\ UNCHANGED <<units, lastId>>
      /\ db' = UpsertScope(db, call.scope)
  BY DEF EnsureScope, At, WriteSteps
<1>2. /\ call \in WriteFrames /\ call # Idle
      /\ PriorProgress(call) /\ NodesProgress(call) /\ EdgesProgress(call)
      /\ call.scope \in Scopes
  BY <1>1, InWrite DEF WriteFrames
<1>3. db \in Dbs /\ Sound(db) /\ lastId \in Floors
  BY <1>2, InCall
<1>4. /\ db' \in Dbs /\ Sound(db)'
      /\ db'.scopes = db.scopes \cup {call.scope} /\ db'.beliefs = db.beliefs
      /\ db'.states = db.states /\ db'.hub = db.hub /\ db'.spine = db.spine
      /\ db'.edges = db.edges
  BY <1>1, <1>2, <1>3, ScopeUpserted
<1>5. PICK step \in WriteSteps :
        /\ Go(step)
        /\ step = IF call.status = "active" THEN "belief" ELSE "state"
  BY DEF EnsureScope, WriteSteps
<1>6. /\ call' \in WriteFrames /\ call' # Idle /\ call'.at = step
      /\ call'.scope = call.scope /\ call'.belief = call.belief
      /\ call'.payload = call.payload /\ call'.status = call.status
      /\ call'.prior = call.prior /\ call'.floor = call.floor
  BY <1>2, <1>5, GoesOn
<1>7. /\ Innermost' = Innermost
      /\ \A s, b : Core!Current(s, b)' = Core!Current(s, b)
  BY <1>1, <1>2, <1>6, CoreStays
<1>8. PriorProgress(call)'
  BY <1>1, <1>2, <1>5, <1>6, <1>7 DEF PriorProgress
<1>9. NodesProgress(call)' /\ EdgesProgress(call)'
  BY <1>1, <1>2, <1>4, <1>5, <1>6, <1>7 DEF NodesProgress, EdgesProgress
<1>10. QED
  BY <1>1, <1>2, <1>3, <1>4, <1>6, <1>8, <1>9, MovesOn DEF WriteProgress

LEMMA MaterialiseBeliefKeeps ==
  ASSUME UnitInv, MaterialiseBelief
  PROVE  UnitInv'
<1>1. /\ call.at = "belief" /\ call.at \in WriteSteps
      /\ UNCHANGED <<units, lastId>>
      /\ db' = UpsertBelief(db, call.belief)
      /\ Go("prior") /\ "prior" \in WriteSteps
  BY DEF MaterialiseBelief, At, WriteSteps
<1>2. /\ call \in WriteFrames /\ call # Idle
      /\ PriorProgress(call) /\ NodesProgress(call) /\ EdgesProgress(call)
      /\ call.belief \in Beliefs
  BY <1>1, InWrite DEF WriteFrames
<1>3. db \in Dbs /\ Sound(db) /\ lastId \in Floors
  BY <1>2, InCall
<1>4. /\ db' \in Dbs /\ Sound(db)'
      /\ db'.beliefs = db.beliefs \cup {call.belief} /\ db'.scopes = db.scopes
      /\ db'.states = db.states /\ db'.hub = db.hub /\ db'.spine = db.spine
      /\ db'.edges = db.edges
  BY <1>1, <1>2, <1>3, BeliefUpserted
<1>5. /\ call' \in WriteFrames /\ call' # Idle /\ call'.at = "prior"
      /\ call'.scope = call.scope /\ call'.belief = call.belief
      /\ call'.payload = call.payload /\ call'.status = call.status
      /\ call'.prior = call.prior /\ call'.floor = call.floor
  BY <1>1, <1>2, GoesOn
<1>6. /\ Innermost' = Innermost
      /\ \A s, b : Core!Current(s, b)' = Core!Current(s, b)
  BY <1>1, <1>2, <1>5, CoreStays
<1>7. PriorProgress(call)'
  BY <1>1, <1>2, <1>5, <1>6 DEF PriorProgress
<1>8. NodesProgress(call)' /\ EdgesProgress(call)'
  BY <1>1, <1>2, <1>4, <1>5, <1>6
  DEF NodesProgress, EdgesProgress, PriorProgress
<1>9. QED
  BY <1>1, <1>2, <1>3, <1>4, <1>5, <1>7, <1>8, MovesOn DEF WriteProgress

LEMMA FindPriorKeeps ==
  ASSUME UnitInv, FindPrior
  PROVE  UnitInv'
<1>1. /\ call.at = "prior" /\ call.at \in WriteSteps
      /\ UNCHANGED <<db, units, lastId>>
  BY DEF FindPrior, At, WriteSteps
<1>2. /\ call \in WriteFrames /\ call # Idle
      /\ PriorProgress(call) /\ NodesProgress(call) /\ EdgesProgress(call)
  BY <1>1, InWrite
<1>3. /\ db \in Dbs /\ Sound(db) /\ lastId \in Floors
      /\ Innermost \in Dbs /\ Settled = Innermost
  BY <1>2, InCall
<1>4. PICK prior : /\ prior = Core!Current(call.scope, call.belief)
                   /\ call' = [call EXCEPT !.at = "state", !.prior = prior]
  <2>1. db.states = Settled.states
    BY <1>1, <1>2, <1>3 DEF NodesProgress
  <2>2. QED
    BY <2>1, CurrentOf DEF FindPrior
<1>5. prior \in SUBSET Rows
  BY <1>3, <1>4, CurrentIsStored DEF Dbs
<1>6. /\ call' \in WriteFrames /\ call'.at = "state"
      /\ call'.scope = call.scope /\ call'.belief = call.belief
      /\ call'.payload = call.payload /\ call'.status = call.status
      /\ call'.prior = prior /\ call'.floor = call.floor
  BY <1>2, <1>4, <1>5 DEF WriteFrames
<1>7. /\ Innermost' = Innermost
      /\ \A s, b : Core!Current(s, b)' = Core!Current(s, b)
  BY <1>1, <1>2, <1>6, FrameKinds, CoreStays
<1>8. PriorProgress(call)'
  BY <1>1, <1>2, <1>4, <1>6, <1>7 DEF PriorProgress
<1>9. NodesProgress(call)' /\ EdgesProgress(call)'
  BY <1>1, <1>2, <1>6, <1>7 DEF NodesProgress, EdgesProgress
<1>10. QED
  BY <1>1, <1>2, <1>3, <1>6, <1>8, <1>9, MovesOn DEF WriteProgress

LEMMA StoreStateKeeps ==
  ASSUME UnitInv, StoreState
  PROVE  UnitInv'
<1>1. /\ call.at = "state" /\ call.at \in WriteSteps
      /\ units' = units /\ Go("hub") /\ "hub" \in WriteSteps
  BY DEF StoreState, At, WriteSteps
<1>2. /\ call \in WriteFrames /\ call # Idle
      /\ PriorProgress(call) /\ NodesProgress(call) /\ EdgesProgress(call)
  BY <1>1, InWrite
<1>3. /\ db \in Dbs /\ Sound(db) /\ lastId \in Floors
      /\ Innermost \in Dbs /\ Sound(Innermost) /\ Settled = Innermost
  BY <1>2, InCall
<1>4. db.states = Innermost.states /\ lastId = call.floor
  BY <1>1, <1>2 DEF NodesProgress
<1>5. PICK id \in Core!Mintable :
        db' = UpsertState(db, Minting(call, id)) /\ lastId' = id
  BY <1>2, <1>3, <1>4, MintableOf DEF StoreState, Minting
<1>6. id \in StateIds /\ id \in Floors
  BY DEF Core!Mintable, Floors
<1>7. call.payload \in Payloads
  <2>1. ASSUME NEW x \in Core!Current(call.scope, call.belief)
        PROVE  x.payload \in Payloads
    BY <1>3, CurrentIsStored DEF Dbs, Rows
  <2>2. QED
    BY <1>1, <1>2, <2>1 DEF PriorProgress
<1>8. PICK new \in Rows : new = Minting(call, id)
  BY <1>2, <1>6, <1>7 DEF Minting, Rows, WriteFrames
<1>9. new.belief \in db.beliefs
  <2>1. new.belief = call.belief
    BY <1>8 DEF Minting
  <2>2. CASE call.status = "active"
    BY <1>1, <1>2, <2>1, <2>2 DEF NodesProgress
  <2>3. CASE call.status = "retracted"
    <3>1. PICK x \in Core!Current(call.scope, call.belief) : TRUE
      BY <1>1, <1>2, <2>3 DEF PriorProgress
    <3>2. x \in Innermost.states /\ x.belief = call.belief
      BY <1>3, CurrentIsStored
    <3>3. QED
      BY <1>2, <1>3, <2>1, <3>2 DEF Sound, NodesProgress
  <2>4. QED
    BY <1>2, <2>2, <2>3 DEF WriteFrames
<1>10. /\ db' \in Dbs /\ Sound(db)'
       /\ db'.states = db.states \cup {new} /\ db'.scopes = db.scopes
       /\ db'.beliefs = db.beliefs /\ db'.hub = db.hub
       /\ db'.spine = db.spine /\ db'.edges = db.edges
  BY <1>3, <1>5, <1>8, <1>9, StateUpserted
<1>11. /\ call' \in WriteFrames /\ call' # Idle /\ call'.at = "hub"
       /\ call'.scope = call.scope /\ call'.belief = call.belief
       /\ call'.payload = call.payload /\ call'.event = call.event
       /\ call'.status = call.status /\ call'.prior = call.prior
       /\ call'.floor = call.floor
  BY <1>1, <1>2, GoesOn
<1>12. /\ Innermost' = Innermost
       /\ \A s, b : Core!Current(s, b)' = Core!Current(s, b)
       /\ Core!Mintable' = Core!Mintable
  BY <1>1, <1>2, <1>11, CoreStays
<1>13. PriorProgress(call)'
  BY <1>1, <1>2, <1>11, <1>12 DEF PriorProgress
<1>14. NodesProgress(call)'
  <2>1. Minting(call, lastId)' = new
    BY <1>5, <1>8, <1>11 DEF Minting
  <2>2. QED
    BY <1>1, <1>2, <1>4, <1>5, <1>10, <1>11, <1>12, <2>1 DEF NodesProgress
<1>15. EdgesProgress(call)'
  BY <1>1, <1>2, <1>10, <1>11, <1>12 DEF EdgesProgress
<1>16. QED
  BY <1>1, <1>2, <1>5, <1>6, <1>10, <1>11, <1>13, <1>14, <1>15, MovesOn
  DEF WriteProgress

\* Both ends of the hub edge and of the spine edge are found: they are laid.
LEMMA EndsAreKnown ==
  ASSUME UnitInv, call.at \in {"hub", "spine"}
  PROVE  /\ Known(db, call.belief, lastId)
         /\ \A x \in call.prior : Known(db, lastId, x.id)
         /\ call.belief \in Beliefs /\ lastId \in StateIds
         /\ \A x \in call.prior : x.id \in StateIds
<1>1. /\ call \in WriteFrames /\ call # Idle
      /\ PriorProgress(call) /\ NodesProgress(call)
  BY InWrite DEF WriteSteps
<1>2. /\ db \in Dbs /\ Sound(db) /\ Innermost \in Dbs /\ Settled = Innermost
  BY <1>1, InCall
<1>3. PICK new \in db.states : new.id = lastId /\ new.belief = call.belief
  <2>1. Minting(call, lastId) \in db.states
    BY <1>1 DEF NodesProgress
  <2>2. /\ Minting(call, lastId).id = lastId
        /\ Minting(call, lastId).belief = call.belief
    BY DEF Minting
  <2>3. QED
    BY <2>1, <2>2
<1>4. lastId \in StateKeys(db) /\ call.belief \in db.beliefs
  BY <1>2, <1>3 DEF Sound, StateKeys
<1>5. ASSUME NEW x \in call.prior
      PROVE  x.id \in StateKeys(db)
  <2>1. x \in Innermost.states
    BY <1>1, <1>2, <1>5, CurrentIsStored DEF PriorProgress
  <2>2. QED
    BY <1>1, <2>1 DEF NodesProgress, StateKeys
<1>6. StateKeys(db) \subseteq StateIds
  BY <1>2 DEF Dbs, Rows, StateKeys
<1>7. StateKeys(db) \cup db.beliefs \subseteq DOMAIN db.index
  BY <1>2 DEF Sound, Exact
<1>8. QED
  BY <1>1, <1>4, <1>5, <1>6, <1>7 DEF Known, WriteFrames

LEMMA LayHubKeeps ==
  ASSUME UnitInv, LayHub
  PROVE  UnitInv'
<1>1. /\ call.at = "hub" /\ call.at \in WriteSteps
      /\ UNCHANGED <<units, lastId>> /\ Go("spine") /\ "spine" \in WriteSteps
  BY DEF LayHub, At, WriteSteps
<1>2. /\ call \in WriteFrames /\ call # Idle
      /\ PriorProgress(call) /\ NodesProgress(call) /\ EdgesProgress(call)
  BY <1>1, InWrite
<1>3. db \in Dbs /\ Sound(db) /\ lastId \in Floors
  BY <1>2, InCall
<1>4. /\ db' = [db EXCEPT !.hub = @ \cup {<<call.belief, lastId>>}]
      /\ call.belief \in Beliefs /\ lastId \in StateIds
  BY <1>1, EndsAreKnown DEF LayHub
<1>5. /\ db' \in Dbs /\ db'.index = db.index
      /\ db'.hub = db.hub \cup {<<call.belief, lastId>>}
      /\ db'.scopes = db.scopes /\ db'.beliefs = db.beliefs
      /\ db'.states = db.states /\ db'.spine = db.spine
      /\ db'.edges = db.edges
  <2>1. db' = [scopes |-> db.scopes, beliefs |-> db.beliefs,
               states |-> db.states,
               hub |-> db.hub \cup {<<call.belief, lastId>>},
               spine |-> db.spine, edges |-> db.edges, index |-> db.index]
    BY <1>3, <1>4 DEF Dbs
  <2>2. QED
    BY <1>3, <1>4, <2>1 DEF Dbs
<1>6. Sound(db)'
  BY <1>3, <1>5, EdgesAreApart
<1>7. /\ call' \in WriteFrames /\ call' # Idle /\ call'.at = "spine"
      /\ call'.scope = call.scope /\ call'.belief = call.belief
      /\ call'.payload = call.payload /\ call'.event = call.event
      /\ call'.status = call.status /\ call'.prior = call.prior
      /\ call'.floor = call.floor
  BY <1>1, <1>2, GoesOn
<1>8. /\ Innermost' = Innermost
      /\ \A s, b : Core!Current(s, b)' = Core!Current(s, b)
      /\ Core!Mintable' = Core!Mintable
  BY <1>1, <1>2, <1>7, CoreStays
<1>9. PriorProgress(call)'
  BY <1>1, <1>2, <1>7, <1>8 DEF PriorProgress
<1>10. NodesProgress(call)'
  <2>1. Minting(call, lastId)' = Minting(call, lastId)
    BY <1>1, <1>7 DEF Minting
  <2>2. QED
    BY <1>1, <1>2, <1>5, <1>7, <1>8, <2>1 DEF NodesProgress
<1>11. EdgesProgress(call)'
  BY <1>1, <1>2, <1>5, <1>7, <1>8 DEF EdgesProgress
<1>12. QED
  BY <1>1, <1>2, <1>3, <1>5, <1>6, <1>7, <1>9, <1>10, <1>11, MovesOn
  DEF WriteProgress

LEMMA LaySpineKeeps ==
  ASSUME UnitInv, LaySpine
  PROVE  UnitInv'
<1>1. /\ call.at = "spine" /\ call.at \in WriteSteps
      /\ UNCHANGED <<units, lastId>> /\ Go("exit") /\ "exit" \in WriteSteps
  BY DEF LaySpine, At, WriteSteps
<1>2. /\ call \in WriteFrames /\ call # Idle
      /\ PriorProgress(call) /\ NodesProgress(call) /\ EdgesProgress(call)
  BY <1>1, InWrite
<1>3. db \in Dbs /\ Sound(db) /\ lastId \in Floors
  BY <1>2, InCall
<1> DEFINE laid == {<<lastId, x.id>> : x \in call.prior}
<1>4. /\ db' = [db EXCEPT !.spine = @ \cup laid]
      /\ laid \in SUBSET (StateIds \X StateIds)
  <2>1. /\ \A x \in call.prior : Known(db, lastId, x.id) /\ x.id \in StateIds
        /\ lastId \in StateIds
    BY <1>1, EndsAreKnown
  <2>2. {y \in call.prior : Known(db, lastId, y.id)} = call.prior
    BY <2>1
  <2>3. QED
    BY <2>1, <2>2 DEF LaySpine
<1> HIDE DEF laid
<1>5. /\ db' \in Dbs /\ db'.index = db.index
      /\ db'.spine = db.spine \cup laid
      /\ db'.scopes = db.scopes /\ db'.beliefs = db.beliefs
      /\ db'.states = db.states /\ db'.hub = db.hub
      /\ db'.edges = db.edges
  <2>1. db' = [scopes |-> db.scopes, beliefs |-> db.beliefs,
               states |-> db.states, hub |-> db.hub,
               spine |-> db.spine \cup laid,
               edges |-> db.edges, index |-> db.index]
    BY <1>3, <1>4 DEF Dbs
  <2>2. QED
    BY <1>3, <1>4, <2>1 DEF Dbs
<1>6. Sound(db)'
  BY <1>3, <1>5, EdgesAreApart
<1>7. /\ call' \in WriteFrames /\ call' # Idle /\ call'.at = "exit"
      /\ call'.scope = call.scope /\ call'.belief = call.belief
      /\ call'.payload = call.payload /\ call'.event = call.event
      /\ call'.status = call.status /\ call'.prior = call.prior
      /\ call'.floor = call.floor
  BY <1>1, <1>2, GoesOn
<1>8. /\ Innermost' = Innermost
      /\ \A s, b : Core!Current(s, b)' = Core!Current(s, b)
      /\ Core!Mintable' = Core!Mintable
  BY <1>1, <1>2, <1>7, CoreStays
<1>9. PriorProgress(call)'
  BY <1>1, <1>2, <1>7, <1>8 DEF PriorProgress
<1>10. NodesProgress(call)'
  <2>1. Minting(call, lastId)' = Minting(call, lastId)
    BY <1>1, <1>7 DEF Minting
  <2>2. QED
    BY <1>1, <1>2, <1>5, <1>7, <1>8, <2>1 DEF NodesProgress
<1>11. EdgesProgress(call)'
  <2>1. {<<lastId, x.id>> : x \in call.prior}' = laid
    BY <1>1, <1>7 DEF laid
  <2>2. QED
    BY <1>1, <1>2, <1>5, <1>7, <1>8, <2>1 DEF EdgesProgress
<1>12. QED
  BY <1>1, <1>2, <1>3, <1>5, <1>6, <1>7, <1>9, <1>10, <1>11, MovesOn
  DEF WriteProgress

-----------------------------------------------------------------------------
(* The other steps.                                                         *)

LEMMA FinishKeeps ==
  ASSUME UnitInv, FinishWrite \/ FinishEdge
  PROVE  UnitInv'
<1>1. /\ call # Idle /\ units' = Outside /\ call' = Idle
      /\ UNCHANGED <<db, lastId>>
  BY FrameKinds DEF FinishWrite, FinishEdge, At, Leave
<1>2. QED
  BY <1>1, InCall, UnitEnds, PoppedKeeps

LEMMA CallRaisesKeeps ==
  ASSUME UnitInv, CallRaises
  PROVE  UnitInv'
<1>1. /\ call # Idle /\ units' = Outside /\ call' = Idle
      /\ db' = Restored(Innermost) /\ lastId' = lastId
  BY DEF CallRaises, Leave
<1>2. /\ Innermost \in Dbs /\ Sound(Innermost) /\ units # <<>>
      /\ units \in Seq(Dbs) /\ lastId \in Floors
  BY <1>1, InCall
<1>3. db' \in Dbs /\ Sound(db)'
  BY <1>1, <1>2, RestoredIsSound
<1>4. QED
  BY <1>1, <1>2, <1>3, UnitEnds, PoppedKeeps

LEMMA UserOpensKeeps ==
  ASSUME UnitInv, UserOpens
  PROVE  UnitInv'
  BY BetweenCalls DEF UnitInv, UnitTypeOK, UserOpens

LEMMA UserExitKeeps ==
  ASSUME UnitInv, NEW i \in DOMAIN units, UserFinishes(i) \/ UserRaises(i)
  PROVE  UnitInv'
<1>1. /\ units \in Seq(Dbs) /\ db \in Dbs /\ Sound(db) /\ lastId \in Floors
      /\ call' = Idle /\ lastId' = lastId /\ units' = RemoveAt(units, i)
  BY DEF UnitInv, UnitTypeOK, UserFinishes, UserRaises
<1>2. Kept /\ units[i] \in Dbs /\ Sound(units[i])
  BY <1>1, RemovedKeeps DEF UnitInv
<1>3. db' \in Dbs /\ Sound(db)'
  <2>1. CASE UserFinishes(i)
    BY <1>1, <2>1 DEF UserFinishes
  <2>2. CASE UserRaises(i)
    BY <1>2, <2>2, RestoredIsSound DEF UserRaises
  <2>3. QED
    BY <2>1, <2>2
<1>4. QED
  BY <1>1, <1>2, <1>3, UnitEnds

LEMMA GetScopeKeeps ==
  ASSUME UnitInv, NEW s \in Scopes, GetOrCreateScope(s)
  PROVE  UnitInv'
<1>1. /\ db \in Dbs /\ Sound(db) /\ lastId \in Floors
      /\ call = Idle /\ call' = Idle /\ units' = units /\ lastId' = lastId
      /\ db' = UpsertScope(db, s)
  BY DEF UnitInv, UnitTypeOK, GetOrCreateScope
<1>2. db' \in Dbs /\ Sound(db)'
  BY <1>1, ScopeUpserted
<1>3. QED
  BY <1>1, <1>2, BetweenCalls

LEMMA WriteBegins ==
  ASSUME UnitInv, NEW s \in Scopes, NEW b \in Beliefs, NEW e \in Events,
         \/ \E p \in Payloads : CallAppend(s, b, p, e)
         \/ CallContract(s, b, e)
  PROVE  UnitInv'
<1>1. /\ db \in Dbs /\ Sound(db) /\ lastId \in Floors /\ units \in Seq(Dbs)
      /\ call = Idle /\ UNCHANGED <<db, lastId>>
  BY DEF UnitInv, UnitTypeOK, CallAppend, CallContract
<1>2. CASE call' = Idle
  <2>1. units' = units
    BY <1>1, <1>2, FrameKinds
    DEF CallAppend, CallContract, Enter, Frame, Idle
  <2>2. QED
    BY <1>1, <1>2, <2>1, BetweenCalls
<1>3. ASSUME NEW p \in Payloads \cup {NoPayload},
             NEW at \in {"probe", "scope"}, NEW status \in {"active", "retracted"},
             Enter(Frame(at, s, b, p, e, status)),
             \/ at = "scope" /\ status = "active" /\ p \in Payloads
             \/ at = "probe" /\ status = "retracted" /\ s # World
      PROVE  UnitInv'
  <2>1. /\ call' \in WriteFrames /\ call'.at = at /\ call'.scope = s
        /\ call'.belief = b /\ call'.payload = p /\ call'.status = status
        /\ call'.prior = {} /\ call'.floor = lastId
    BY <1>1, <1>3 DEF Enter, Frame, WriteFrames
  <2>2. units' = Append(units, db) /\ Innermost' = db
    <3>1. units' = Append(units, db)
      BY <1>3 DEF Enter
    <3>2. QED
      BY <1>1, <3>1, Pushed DEF Innermost
  <2>3. PriorProgress(call)'
    BY <1>3, <2>1 DEF PriorProgress
  <2>4. NodesProgress(call)' /\ EdgesProgress(call)'
    BY <1>1, <1>3, <2>1, <2>2 DEF NodesProgress, EdgesProgress
  <2>5. Progress(call)'
    BY <2>1, <2>3, <2>4, FrameKinds DEF Progress, WriteProgress
  <2>6. QED
    BY <1>1, <2>1, <2>2, <2>5, Begins
<1>4. ASSUME NEW p \in Payloads, CallAppend(s, b, p, e)
      PROVE  UnitInv'
  BY <1>3, <1>4 DEF CallAppend
<1>5. CASE CallContract(s, b, e)
  <2>1. CASE s = World
    BY <1>1, <1>2, <1>5, <2>1 DEF CallContract
  <2>2. CASE s # World
    BY <1>3, <1>5, <2>2 DEF CallContract
  <2>3. QED
    BY <2>1, <2>2
<1>6. QED
  BY <1>4, <1>5

LEMMA EdgeBegins ==
  ASSUME UnitInv, NEW from \in Handles, NEW to \in Handles,
         NEW type \in EdgeTypes, CallAddEdge(from, to, type)
  PROVE  UnitInv'
<1>1. /\ db \in Dbs /\ Sound(db) /\ lastId \in Floors /\ units \in Seq(Dbs)
      /\ call = Idle /\ lastId' = lastId /\ units' = Append(units, db)
  BY DEF UnitInv, UnitTypeOK, CallAddEdge
<1>2. call' \in EdgeFrames /\ call'.floor = lastId
  BY <1>1 DEF CallAddEdge, EdgeFrames
<1>3. Innermost' = db
  BY <1>1, Pushed DEF Innermost
<1>4. EdgeLaid(from, to, type)'
  BY <1>3 DEF CallAddEdge, LayEdge, EdgeLaid
<1>5. db' \in Dbs /\ Sound(db)'
  <2>1. CASE Known(db, from, to)
    <3>1. db' = [scopes |-> db.scopes, beliefs |-> db.beliefs,
                 states |-> db.states, hub |-> db.hub, spine |-> db.spine,
                 edges |-> db.edges \cup {<<type, from, to>>},
                 index |-> db.index]
      BY <1>1, <2>1 DEF CallAddEdge, LayEdge, Dbs
    <3>2. db' \in Dbs
      BY <1>1, <3>1 DEF Dbs
    <3>3. QED
      BY <1>1, <3>1, <3>2, EdgesAreApart
  <2>2. CASE ~ Known(db, from, to)
    BY <1>1, <2>2 DEF CallAddEdge, LayEdge
  <2>3. QED
    BY <2>1, <2>2
<1>6. Progress(call)'
  BY <1>1, <1>2, <1>4, FrameKinds DEF Progress, EdgeProgress
<1>7. QED
  BY <1>1, <1>2, <1>5, <1>6, Begins

LEMMA StepKeepsUnitInv ==
  ASSUME UnitInv, [Next]_vars
  PROVE  UnitInv'
<1>1. CASE Step
  BY <1>1, ProbeKeeps, EnsureScopeKeeps, MaterialiseBeliefKeeps, FindPriorKeeps,
     StoreStateKeeps, LayHubKeeps, LaySpineKeeps, FinishKeeps DEF Step
<1>2. CASE \/ CallRaises \/ UserOpens
           \/ \E i \in DOMAIN units : UserFinishes(i) \/ UserRaises(i)
  BY <1>2, CallRaisesKeeps, UserOpensKeeps, UserExitKeeps
<1>3. CASE \E s \in Scopes : GetOrCreateScope(s)
  BY <1>3, GetScopeKeeps
<1>4. CASE \E s \in Scopes, b \in Beliefs, e \in Events :
             \/ \E p \in Payloads : CallAppend(s, b, p, e)
             \/ CallContract(s, b, e)
  BY <1>4, WriteBegins
<1>5. CASE \E from, to \in Handles, type \in EdgeTypes :
             CallAddEdge(from, to, type)
  BY <1>5, EdgeBegins
<1>6. CASE UNCHANGED vars
  <2>1. UnitTypeOK' /\ Innermost' = Innermost
    BY <1>6 DEF vars, UnitInv, UnitTypeOK, Innermost
  <2>2. \A i \in 1 .. Len(units) : Sound(units[i])' = Sound(units[i])
    BY <1>6 DEF vars
  <2>3. Sound(db)' = Sound(db)
    BY <1>6 DEF vars
  <2>4. CASE call = Idle
    BY <1>6, <2>1, <2>2, <2>3, <2>4 DEF vars, UnitInv
  <2>5. CASE call # Idle
    <3>1. /\ \A s, b : Core!Current(s, b)' = Core!Current(s, b)
          /\ Core!Mintable' = Core!Mintable
      BY <1>6, <2>5, CoreStays DEF vars
    <3>2. Progress(call)'
      BY <1>6, <2>1, <2>5, <3>1
      DEF vars, UnitInv, Progress, WriteProgress, PriorProgress, NodesProgress,
          EdgesProgress, EdgeProgress, EdgeLaid, Minting
    <3>3. QED
      BY <1>6, <2>1, <2>2, <2>3, <3>2 DEF vars, UnitInv
  <2>6. QED
    BY <2>4, <2>5
<1>7. QED
  BY <1>1, <1>2, <1>3, <1>4, <1>5, <1>6 DEF Next

LEMMA InitUnitInv == Init => UnitInv
<1> SUFFICES ASSUME Init PROVE UnitInv
  OBVIOUS
<1>1. EmptyDb.index \in [{} -> Labels] /\ {} \in SUBSET Keys
  BY DEF EmptyDb
<1>2. EmptyDb.index \in Indexes
  BY <1>1 DEF Indexes
<1>3. EmptyDb \in Dbs
  BY <1>2 DEF EmptyDb, Dbs
<1>4. Sound(EmptyDb)
  BY DEF Sound, Exact, EmptyDb, StateKeys
<1>5. UnitTypeOK
  BY <1>3 DEF Init, UnitTypeOK, Floors
<1>6. QED
  BY <1>4, <1>5 DEF Init, UnitInv

\* The invariant of the stack of snapshots and of the call under way holds of
\* every state, for any number of nested units.
THEOREM UnitInvariance == Spec => []UnitInv
<1>1. UnitInv /\ [Next]_vars => UnitInv'
  BY StepKeepsUnitInv
<1>2. QED
  BY <1>1, InitUnitInv, PTL DEF Spec

\* The label-agnostic index never drifts from the nodes, at any step of a call
\* and after any rollback, whatever ids the callers choose.
THEOREM IndexStaysExact == Spec => []IndexIsExact
<1>1. UnitInv => IndexIsExact
  BY DEF UnitInv, Sound, Exact, IndexIsExact
<1>2. QED
  BY <1>1, UnitInvariance, PTL

-----------------------------------------------------------------------------
(* What a rollback puts back.                                               *)

\* Where an id names one node, rebuilding the index changes nothing.
LEMMA ReindexIsIndex ==
  ASSUME IdsApart, NEW d \in Dbs, Sound(d)
  PROVE  Restored(d) = d
<1>1. /\ d.scopes \subseteq Scopes /\ d.beliefs \subseteq Beliefs
      /\ StateKeys(d) \subseteq StateIds
  BY DEF Dbs, Rows, StateKeys
<1>2. /\ d.index \in [DOMAIN d.index -> Labels]
      /\ DOMAIN d.index = d.scopes \cup d.beliefs \cup StateKeys(d)
  BY DEF Dbs, Indexes, Sound, Exact
<1>3. ASSUME NEW k \in DOMAIN d.index
      PROVE  d.index[k] = Reindex(d)[k]
  <2>1. /\ d.index[k] = "BeliefState" => k \in StateKeys(d)
        /\ d.index[k] = "Belief" => k \in d.beliefs
        /\ d.index[k] = "Scope" => k \in d.scopes
    BY <1>3 DEF Sound, Exact
  <2>2. d.index[k] \in {"Scope", "Belief", "BeliefState"}
    BY <1>2, <1>3 DEF Labels
  <2>3. Reindex(d)[k] = IF k \in StateKeys(d) THEN "BeliefState"
                        ELSE IF k \in d.beliefs THEN "Belief" ELSE "Scope"
    BY <1>2, <1>3 DEF Reindex
  <2>4. CASE k \in StateKeys(d)
    BY <1>1, <2>1, <2>2, <2>3, <2>4 DEF IdsApart, StateIdsApart
  <2>5. CASE k \in d.beliefs
    BY <1>1, <2>1, <2>2, <2>3, <2>5 DEF IdsApart, StateIdsApart
  <2>6. CASE k \in d.scopes
    BY <1>1, <2>1, <2>2, <2>3, <2>6 DEF IdsApart, StateIdsApart
  <2>7. QED
    BY <1>2, <1>3, <2>4, <2>5, <2>6
<1>4. DOMAIN Reindex(d) = DOMAIN d.index
  BY <1>2 DEF Reindex
<1>5. Reindex(d) = d.index
  <2>1. Reindex(d) = [k \in DOMAIN d.index |-> Reindex(d)[k]]
    BY <1>4 DEF Reindex
  <2>2. d.index = [k \in DOMAIN d.index |-> d.index[k]]
    BY <1>2
  <2>3. QED
    BY <1>3, <2>1, <2>2
<1>6. QED
  BY <1>5 DEF Restored, Dbs

\* An exception, in a call at any step or in a unit of the caller's, leaves the
\* store and the index exactly as its unit found them, where ids do not clash:
\* however many other units are open and in whichever order they are left.
THEOREM UnitsRestore ==
  ASSUME IdsApart
  PROVE  Spec => ExceptionRestoresEntry
<1> DEFINE Restores == /\ CallRaises => db' = Innermost
                       /\ \A i \in DOMAIN units :
                            UserRaises(i) => db' = units[i]
<1>1. UnitInv /\ [Next]_vars => [Restores]_vars
  <2> SUFFICES ASSUME UnitInv
               PROVE  Restores
    OBVIOUS
  <2>1. CallRaises => db' = Innermost
    BY InCall, ReindexIsIndex DEF CallRaises
  <2>2. ASSUME NEW i \in DOMAIN units, UserRaises(i)
        PROVE  db' = units[i]
    <3>1. units[i] \in Dbs /\ Sound(units[i])
      BY DEF UnitInv, UnitTypeOK
    <3>2. QED
      BY <2>2, <3>1, ReindexIsIndex DEF UserRaises
  <2>3. QED
    BY <2>1, <2>2
<1>2. QED
  BY <1>1, UnitInvariance, PTL DEF Spec, ExceptionRestoresEntry

-----------------------------------------------------------------------------
(* Each call is one step of MemoryCore.                                     *)

\* The uuid7 floor as of the last call that ended.
Floor == IF call = Idle THEN lastId ELSE call.floor

SameStore(d, e) ==
  /\ d.scopes = e.scopes /\ d.beliefs = e.beliefs /\ d.states = e.states
  /\ d.hub = e.hub /\ d.spine = e.spine /\ d.edges = e.edges

LEMMA QuietStep ==
  ASSUME SameStore(Settled', Settled), Floor' = Floor, outcome' = outcome
  PROVE  UNCHANGED Core!vars
  BY DEF SameStore, Floor, Core!vars, Core!store

\* A step inside a call shows nothing.
LEMMA InsideIsQuiet ==
  ASSUME UnitInv,
         \/ EnsureScope \/ MaterialiseBelief \/ FindPrior \/ StoreState
         \/ LayHub \/ LaySpine
         \/ Probe /\ ~ Leave("vacuous")
  PROVE  UNCHANGED Core!vars
<1>1. /\ call.at \in WriteSteps /\ units' = units /\ outcome' = outcome
      /\ call' # Idle /\ call # Idle /\ call'.floor = call.floor
  <2>1. call.at \in WriteSteps /\ units' = units /\ outcome' = outcome
    BY DEF EnsureScope, MaterialiseBelief, FindPrior, StoreState, LayHub,
           LaySpine, Probe, At, WriteSteps
  <2>2. call \in WriteFrames /\ call # Idle
    BY <2>1, InWrite
  <2>3. CASE EnsureScope \/ MaterialiseBelief \/ StoreState \/ LayHub \/ LaySpine
    <3>1. \E step \in WriteSteps : Go(step)
      BY <2>3 DEF EnsureScope, MaterialiseBelief, StoreState, LayHub, LaySpine,
                  WriteSteps
    <3>2. QED
      BY <2>1, <2>2, <3>1, GoesOn
  <2>4. CASE FindPrior \/ (Probe /\ ~ Leave("vacuous"))
    <3>1. call'.at \in {"state", "scope"} /\ call'.floor = call.floor
      BY <2>2, <2>4 DEF FindPrior, Probe, WriteFrames
    <3>2. QED
      BY <2>1, <2>2, <3>1, FrameKinds
  <2>5. QED
    BY <2>3, <2>4
<1>2. Settled' = Settled /\ Floor' = Floor
  BY <1>1 DEF Settled, Innermost, Floor
<1>3. QED
  BY <1>1, <1>2, QuietStep DEF SameStore

\* Nor does its beginning.
LEMMA BeginningIsQuiet ==
  ASSUME UnitInv, call = Idle, call' # Idle, units' = Append(units, db),
         call'.floor = lastId, outcome' = outcome
  PROVE  UNCHANGED Core!vars
<1>1. units \in Seq(Dbs) /\ db \in Dbs
  BY DEF UnitInv, UnitTypeOK
<1>2. Settled' = db /\ Settled = db /\ Floor' = Floor
  BY <1>1, Pushed DEF Settled, Innermost, Floor
<1>3. QED
  BY <1>2, QuietStep DEF SameStore

LEMMA ProbeIsVacuous ==
  ASSUME UnitInv, Probe, Leave("vacuous")
  PROVE  Core!Next
<1>1. /\ call.at = "probe" /\ call.at \in WriteSteps
      /\ UNCHANGED <<db, lastId>> /\ call' = Idle /\ outcome' = "vacuous"
  BY DEF Probe, At, WriteSteps, Leave
<1>2. /\ call \in WriteFrames /\ call # Idle
      /\ PriorProgress(call) /\ NodesProgress(call) /\ EdgesProgress(call)
  BY <1>1, InWrite
<1>3. Settled = Innermost
  BY <1>2, InCall
<1>4. Settled' = db /\ SameStore(db, Settled) /\ Floor' = Floor
  BY <1>1, <1>2, <1>3
  DEF Settled, SameStore, NodesProgress, EdgesProgress, PriorProgress, Floor
<1>5. Core!Current(call.scope, call.belief) = {}
  <2>1. Live!Current(call.scope, call.belief) = {}
    <3>1. \A x : call' # [call EXCEPT !.at = "scope", !.prior = {x},
                                      !.payload = x.payload]
      BY <1>1, <1>2, FrameKinds DEF WriteFrames, Idle
    <3>2. QED
      BY <3>1 DEF Probe
  <2>2. QED
    BY <1>4, <2>1, CurrentOf DEF SameStore
<1>6. call.scope # World /\ call.scope \in Scopes /\ call.belief \in Beliefs
      /\ call.event \in Events
  BY <1>1, <1>2 DEF PriorProgress, WriteFrames
<1>7. Core!ContractVacuous(call.scope, call.belief)
  BY <1>1, <1>4, <1>5, <1>6
  DEF Core!ContractVacuous, Core!store, SameStore, Floor
<1>8. QED
  BY <1>6, <1>7 DEF Core!Next, Core!Contract

LEMMA FinishIsWrite ==
  ASSUME UnitInv, FinishWrite
  PROVE  Core!Next
<1>1. /\ call.at = "exit" /\ call.at \in WriteSteps
      /\ UNCHANGED <<db, lastId>> /\ call' = Idle
      /\ outcome' = IF call.status = "active" THEN "appended" ELSE "retracted"
  BY DEF FinishWrite, At, WriteSteps, Leave
<1>2. /\ call \in WriteFrames /\ call # Idle
      /\ PriorProgress(call) /\ NodesProgress(call) /\ EdgesProgress(call)
  BY <1>1, InWrite
<1>3. Settled = Innermost /\ Settled' = db /\ Floor' = lastId
  BY <1>1, <1>2, InCall DEF Settled, Floor
<1>4. /\ call.scope \in Scopes /\ call.belief \in Beliefs
      /\ call.event \in Events
      /\ call.status = "active" \/ call.status = "retracted"
  BY <1>2 DEF WriteFrames
<1>5. /\ db.scopes = Settled.scopes \cup {call.scope}
      /\ db.edges = Settled.edges
      /\ lastId \in Core!Mintable
      /\ db.states = Settled.states \cup {Minting(call, lastId)}
      /\ db.hub = Settled.hub \cup {<<call.belief, lastId>>}
      /\ db.spine = Settled.spine \cup {<<lastId, x.id>> : x \in call.prior}
  BY <1>1, <1>2, <1>3 DEF NodesProgress, EdgesProgress
<1>6. Core!AppendState(call.scope, call.belief, call.payload, call.event,
                       call.status, call.prior)
  BY <1>3, <1>5 DEF Core!AppendState, Minting, Floor
<1>7. Core!EnsureScope(call.scope)
  BY <1>3, <1>5 DEF Core!EnsureScope
<1>8. CASE call.status = "active"
  <2>1. /\ call.payload \in Payloads
        /\ call.prior = Core!Current(call.scope, call.belief)
        /\ db.beliefs = Settled.beliefs \cup {call.belief}
    BY <1>1, <1>2, <1>3, <1>8 DEF PriorProgress, NodesProgress
  <2>2. Core!Append(call.scope, call.belief, call.payload, call.event)
    BY <1>1, <1>3, <1>5, <1>6, <1>7, <1>8, <2>1 DEF Core!Append
  <2>3. QED
    BY <1>4, <2>1, <2>2 DEF Core!Next, Core!Revise
<1>9. CASE call.status = "retracted"
  <2>1. /\ call.scope # World
        /\ \E x \in Core!Current(call.scope, call.belief) :
             call.prior = {x} /\ call.payload = x.payload
        /\ db.beliefs = Settled.beliefs
    BY <1>1, <1>2, <1>3, <1>9 DEF PriorProgress, NodesProgress
  <2>2. PICK prior \in Core!Current(call.scope, call.belief) :
          Core!AppendState(call.scope, call.belief, prior.payload, call.event,
                           "retracted", {prior})
    BY <1>6, <1>9, <2>1
  <2>3. Core!ContractActing(call.scope, call.belief, call.event)
    BY <1>1, <1>3, <1>5, <1>7, <1>9, <2>1, <2>2 DEF Core!ContractActing
  <2>4. QED
    BY <1>4, <2>3 DEF Core!Next, Core!Contract
<1>10. QED
  BY <1>4, <1>8, <1>9

LEMMA FinishIsEdge ==
  ASSUME StateIdsApart, HandlesOfStates, UnitInv, FinishEdge
  PROVE  Core!Next
<1>1. /\ call.at = "edge" /\ UNCHANGED <<db, lastId>> /\ call' = Idle
      /\ outcome' = "edge"
  BY DEF FinishEdge, At, Leave
<1>2. call \in EdgeFrames /\ call # Idle
  BY <1>1, FrameKinds DEF UnitInv, UnitTypeOK, WriteSteps
<1>3. /\ Settled = Innermost /\ Settled' = db
      /\ Innermost \in Dbs /\ Sound(Innermost)
  BY <1>1, <1>2, InCall DEF Settled
<1>4. lastId = call.floor /\ Floor' = Floor
  BY <1>1, <1>2 DEF UnitInv, Progress, EdgeProgress, Floor
<1>5. PICK from \in Handles, to \in Handles, type \in EdgeTypes :
        EdgeLaid(from, to, type)
  BY <1>2 DEF UnitInv, Progress, EdgeProgress
<1>6. from \in StateIds /\ to \in StateIds
  BY DEF HandlesOfStates
<1>7. Known(Innermost, from, to) <=> {from, to} \subseteq StateKeys(Innermost)
  <2>1. /\ DOMAIN Innermost.index = Innermost.scopes \cup Innermost.beliefs
                                      \cup StateKeys(Innermost)
        /\ Innermost.scopes \subseteq Scopes
        /\ Innermost.beliefs \subseteq Beliefs
    BY <1>3 DEF Sound, Exact, Dbs
  <2>2. QED
    BY <1>6, <2>1 DEF Known, StateIdsApart
<1>8. StateKeys(Innermost) = Core!Ids
  BY <1>3 DEF StateKeys, Core!Ids
<1>9. /\ db.edges = Settled.edges \cup (IF {from, to} \subseteq Core!Ids
                                        THEN {<<type, from, to>>} ELSE {})
      /\ db.scopes = Settled.scopes /\ db.beliefs = Settled.beliefs
      /\ db.states = Settled.states /\ db.hub = Settled.hub
      /\ db.spine = Settled.spine
  BY <1>3, <1>5, <1>7, <1>8 DEF EdgeLaid, Dbs
<1>10. Core!AddEdge(from, to, type)
  BY <1>1, <1>3, <1>4, <1>9 DEF Core!AddEdge, Floor
<1>11. QED
  BY <1>6, <1>10 DEF Core!Next

LEMMA RaisingIsFailing ==
  ASSUME UnitInv, CallRaises
  PROVE  Core!Next
<1>1. /\ call # Idle /\ call' = Idle /\ db' = Restored(Innermost)
      /\ lastId' = lastId /\ outcome' = "failed"
  BY DEF CallRaises, Leave
<1>2. Innermost \in Dbs /\ Sound(Innermost) /\ Settled = Innermost
  BY <1>1, InCall
<1>3. Settled' = db' /\ SameStore(db', Settled) /\ Floor' = lastId
  BY <1>1, <1>2, RestoredIsSound DEF Settled, SameStore, Floor
<1>4. lastId \in {Floor} \cup Core!Mintable
  <2>1. CASE call \in WriteFrames
    BY <1>1, <2>1 DEF UnitInv, Progress, WriteProgress, NodesProgress, Floor
  <2>2. CASE call \in EdgeFrames
    BY <1>1, <2>2 DEF UnitInv, Progress, EdgeProgress, Floor
  <2>3. QED
    BY <1>1, <2>1, <2>2, InCall
<1>5. Core!CallFails
  BY <1>1, <1>3, <1>4 DEF Core!CallFails, Core!store, SameStore, Floor
<1>6. QED
  BY <1>5 DEF Core!Next

LEMMA GetScopeIsOne ==
  ASSUME UnitInv, NEW s \in Scopes, GetOrCreateScope(s)
  PROVE  Core!Next
<1>1. /\ db \in Dbs /\ Sound(db) /\ call = Idle /\ call' = Idle
      /\ lastId' = lastId /\ db' = UpsertScope(db, s) /\ outcome' = "scope"
  BY DEF UnitInv, UnitTypeOK, GetOrCreateScope
<1>2. /\ db'.scopes = db.scopes \cup {s} /\ db'.beliefs = db.beliefs
      /\ db'.states = db.states /\ db'.hub = db.hub /\ db'.spine = db.spine
      /\ db'.edges = db.edges
  BY <1>1, ScopeUpserted
<1>3. Settled = db /\ Settled' = db' /\ Floor' = Floor
  BY <1>1 DEF Settled, Floor
<1>4. Core!GetOrCreateScope(s)
  BY <1>1, <1>2, <1>3 DEF Core!GetOrCreateScope, Core!EnsureScope, Floor
<1>5. QED
  BY <1>4 DEF Core!Next

CallOrRollback == Core!Next \/ \E i \in DOMAIN units : UserRaises(i)

LEMMA StepIsAtomic ==
  ASSUME StateIdsApart, HandlesOfStates, UnitInv, [Next]_vars
  PROVE  [CallOrRollback]_(Core!vars)
<1> USE DEF CallOrRollback
<1>1. CASE Step
  <2>1. CASE Probe
    BY <2>1, InsideIsQuiet, ProbeIsVacuous
  <2>2. QED
    BY <1>1, <2>1, InsideIsQuiet, FinishIsWrite, FinishIsEdge DEF Step
<1>2. CASE CallRaises
  BY <1>2, RaisingIsFailing DEF CallOrRollback
<1>3. CASE UserOpens \/ \E i \in DOMAIN units : UserFinishes(i)
  <2>1. /\ Settled' = Settled /\ Floor' = Floor /\ outcome' = outcome
    BY <1>3 DEF UserOpens, UserFinishes, Settled, Floor
  <2>2. QED
    BY <2>1, QuietStep DEF SameStore
<1>4. CASE \E s \in Scopes : GetOrCreateScope(s)
  BY <1>4, GetScopeIsOne
<1>5. ASSUME NEW s \in Scopes, NEW b \in Beliefs, NEW e \in Events,
             \/ \E p \in Payloads : CallAppend(s, b, p, e)
             \/ CallContract(s, b, e)
      PROVE  [CallOrRollback]_(Core!vars)
  <2>1. CASE CallContract(s, b, e) /\ s = World
    <3>1. Settled' = Settled /\ Floor' = Floor /\ outcome' = "world_error"
      BY <2>1 DEF CallContract, Settled, Floor
    <3>2. Core!ContractWorld(s)
      BY <2>1, <3>1 DEF Core!ContractWorld, Core!store, Floor
    <3>3. QED
      BY <3>2 DEF Core!Next, Core!Contract
  <2>2. CASE ~ (CallContract(s, b, e) /\ s = World)
    <3>1. /\ call = Idle /\ outcome' = outcome
          /\ \E at, p, status : Enter(Frame(at, s, b, p, e, status))
      BY <1>5, <2>2 DEF CallAppend, CallContract
    <3>2. units' = Append(units, db) /\ call' # Idle /\ call'.floor = lastId
      BY <3>1 DEF Enter, Frame, Idle
    <3>3. QED
      BY <3>1, <3>2, BeginningIsQuiet
  <2>3. QED
    BY <2>1, <2>2
<1>6. ASSUME NEW from \in Handles, NEW to \in Handles, NEW type \in EdgeTypes,
             CallAddEdge(from, to, type)
      PROVE  [CallOrRollback]_(Core!vars)
  <2>1. /\ call = Idle /\ outcome' = outcome /\ units' = Append(units, db)
        /\ call' # Idle /\ call'.floor = lastId
    BY <1>6 DEF CallAddEdge, Idle
  <2>2. QED
    BY <2>1, BeginningIsQuiet
<1>7. CASE UNCHANGED vars
  <2>1. Settled' = Settled /\ Floor' = Floor /\ outcome' = outcome
    BY <1>7 DEF vars, Settled, Innermost, Floor
  <2>2. QED
    BY <2>1, QuietStep DEF SameStore
<1>8. QED
  BY <1>1, <1>2, <1>3, <1>4, <1>5, <1>6, <1>7 DEF Next, CallOrRollback

\* On InMemoryBackend each call is atomic, whatever the nesting of the units
\* around it and wherever it raises, provided no id names two nodes and the
\* callers lay edges between states.
THEOREM EngineInMemory ==
  ASSUME StateIdsApart, HandlesOfStates
  PROVE  Spec => CallsAreAtomic
<1>1. Init => Core!Init
  BY DEF Init, Core!Init, Settled, EmptyDb, Idle
<1>2. UnitInv /\ [Next]_vars => [CallOrRollback]_(Core!vars)
  BY StepIsAtomic
<1>3. QED
  BY <1>1, <1>2, UnitInvariance, PTL DEF Spec, CallsAreAtomic, CallOrRollback

-----------------------------------------------------------------------------
(* Where ids do not clash, an edge joins two states.                        *)

Joined(d) == \A n \in d.edges : {n[2], n[3]} \subseteq StateKeys(d)

JoinInv == Joined(db) /\ \A i \in 1 .. Len(units) : Joined(units[i])

\* A store that only gains states keeps its edges joined.
LEMMA JoinedGrows ==
  ASSUME NEW d, Joined(d), NEW e, e.edges = d.edges, d.states \subseteq e.states
  PROVE  Joined(e)
  BY DEF Joined, StateKeys

\* The step of a call that lays an edge.
LEMMA EdgeIsJoined ==
  ASSUME StateIdsApart, HandlesOfStates, UnitInv, Joined(db),
         NEW from \in Handles, NEW to \in Handles, NEW type \in EdgeTypes,
         CallAddEdge(from, to, type)
  PROVE  Joined(db)'
<1>1. db \in Dbs /\ Sound(db) /\ LayEdge(from, to, type)
  BY DEF UnitInv, UnitTypeOK, CallAddEdge
<1>2. CASE Known(db, from, to)
  <2>1. {from, to} \subseteq StateKeys(db)
    BY <1>1, <1>2 DEF Known, Sound, Exact, Dbs, StateIdsApart, HandlesOfStates
  <2>2. /\ db'.edges = db.edges \cup {<<type, from, to>>}
        /\ db'.states = db.states
    BY <1>1, <1>2 DEF LayEdge, Dbs
  <2>3. StateKeys(db)' = StateKeys(db)
    BY <2>2 DEF StateKeys
  <2>4. QED
    BY <2>1, <2>2, <2>3 DEF Joined
<1>3. CASE ~ Known(db, from, to)
  BY <1>1, <1>3 DEF LayEdge
<1>4. QED
  BY <1>2, <1>3

\* A step that lays no consumer edge, and is no rollback, only adds to the store.
LEMMA StoreGrows ==
  ASSUME UnitInv, [Step]_vars \/ UserOpens
                  \/ (\E i \in DOMAIN units : UserFinishes(i))
                  \/ \E s \in Scopes : GetOrCreateScope(s)
  PROVE  db'.edges = db.edges /\ db.states \subseteq db'.states
<1>1. db \in Dbs /\ Sound(db)
  BY DEF UnitInv, UnitTypeOK
<1>2. ASSUME NEW s, db' = UpsertScope(db, s)
      PROVE  db'.edges = db.edges /\ db'.states = db.states
  BY <1>1, <1>2 DEF UpsertScope, Dbs
<1>3. ASSUME NEW b, db' = UpsertBelief(db, b)
      PROVE  db'.edges = db.edges /\ db'.states = db.states
  BY <1>1, <1>3 DEF UpsertBelief, Dbs
<1>4. ASSUME NEW x, db' = UpsertState(db, x)
      PROVE  db'.edges = db.edges /\ db.states \subseteq db'.states
  BY <1>1, <1>4 DEF UpsertState, Dbs
<1>5. ASSUME NEW h, db' = [db EXCEPT !.hub = h] \/ db' = [db EXCEPT !.spine = h]
      PROVE  db'.edges = db.edges /\ db'.states = db.states
  BY <1>1, <1>5 DEF Dbs
<1>6. CASE StoreState
  BY <1>4, <1>6 DEF StoreState
<1>7. CASE LayHub \/ LaySpine
  BY <1>5, <1>7 DEF LayHub, LaySpine
<1>8. CASE EnsureScope \/ MaterialiseBelief \/ \E s \in Scopes : GetOrCreateScope(s)
  BY <1>2, <1>3, <1>8 DEF EnsureScope, MaterialiseBelief, GetOrCreateScope
<1>9. CASE UNCHANGED db
  BY <1>9
<1>10. QED
  BY <1>6, <1>7, <1>8, <1>9
  DEF Step, Probe, FindPrior, FinishWrite, FinishEdge, UserOpens, UserFinishes,
      vars

LEMMA StepKeepsJoined ==
  ASSUME StateIdsApart, HandlesOfStates, UnitInv, JoinInv, [Next]_vars
  PROVE  Joined(db)'
<1>1. CASE \/ [Step]_vars \/ UserOpens
           \/ \E i \in DOMAIN units : UserFinishes(i)
           \/ \E s \in Scopes : GetOrCreateScope(s)
  BY <1>1, StoreGrows, JoinedGrows DEF JoinInv
<1>2. CASE CallRaises \/ \E i \in DOMAIN units : UserRaises(i)
  <2>1. PICK i \in 1 .. Len(units) : db' = Restored(units[i])
    <3>1. CASE CallRaises
      BY <3>1, InCall DEF CallRaises, Innermost
    <3>2. CASE \E i \in DOMAIN units : UserRaises(i)
      BY <3>2 DEF UserRaises, UnitInv, UnitTypeOK
    <3>3. QED
      BY <1>2, <3>1, <3>2
  <2>2. units[i] \in Dbs /\ Sound(units[i]) /\ Joined(units[i])
    BY DEF UnitInv, UnitTypeOK, JoinInv
  <2>3. db'.edges = units[i].edges /\ db'.states = units[i].states
    BY <2>1, <2>2, RestoredIsSound
  <2>4. QED
    BY <2>2, <2>3, JoinedGrows
<1>3. ASSUME NEW s \in Scopes, NEW b \in Beliefs, NEW e \in Events,
             \/ \E p \in Payloads : CallAppend(s, b, p, e)
             \/ CallContract(s, b, e)
      PROVE  Joined(db)'
  BY <1>3 DEF CallAppend, CallContract, JoinInv
<1>4. ASSUME NEW from \in Handles, NEW to \in Handles, NEW type \in EdgeTypes,
             CallAddEdge(from, to, type)
      PROVE  Joined(db)'
  BY <1>4, EdgeIsJoined DEF JoinInv
<1>5. QED
  BY <1>1, <1>2, <1>3, <1>4 DEF Next

\* The snapshots are stores that were.
LEMMA SnapshotsStayJoined ==
  ASSUME UnitInv, JoinInv, [Next]_vars
  PROVE  \A i \in 1 .. Len(units') : Joined(units'[i])
<1>1. units \in Seq(Dbs) /\ db \in Dbs
  BY DEF UnitInv, UnitTypeOK
<1>2. units' = units \/ units' = Append(units, db) \/ Kept
  <2>1. CASE FinishWrite \/ FinishEdge \/ CallRaises \/ Probe
    <3>1. units # <<>>
      BY <2>1, FrameKinds
      DEF FinishWrite, FinishEdge, CallRaises, Probe, At, UnitInv
    <3>2. QED
      BY <1>1, <2>1, <3>1, PoppedKeeps
      DEF FinishWrite, FinishEdge, CallRaises, Probe, Leave
  <2>2. CASE \E i \in DOMAIN units : UserFinishes(i) \/ UserRaises(i)
    BY <1>1, <2>2, RemovedKeeps DEF UserFinishes, UserRaises
  <2>3. QED
    BY <2>1, <2>2
    DEF Next, Step, EnsureScope, MaterialiseBelief, FindPrior, StoreState,
        LayHub, LaySpine, UserOpens, GetOrCreateScope, CallAppend, CallContract,
        Enter, CallAddEdge, vars
<1>3. CASE units' = Append(units, db)
  <2>1. /\ Len(units') = Len(units) + 1 /\ units'[Len(units')] = db
        /\ \A i \in 1 .. Len(units) : units'[i] = units[i]
        /\ Len(units) \in Nat
    BY <1>1, <1>3, Pushed
  <2>2. \A i \in 1 .. Len(units') : i \in 1 .. Len(units) \/ i = Len(units')
    BY <2>1
  <2>3. QED
    BY <2>1, <2>2 DEF JoinInv
<1>4. CASE Kept
  BY <1>4 DEF JoinInv, Kept
<1>5. QED
  BY <1>2, <1>3, <1>4 DEF JoinInv

\* The consumer's edges join belief states, through rollbacks too, provided no
\* id names two nodes and the callers lay edges between states: a belief id
\* passed for a state id is the one way to break it.
THEOREM EdgesStayJoined ==
  ASSUME StateIdsApart, HandlesOfStates
  PROVE  Spec => []EdgesJoinStates
<1>1. Init => JoinInv
  BY DEF Init, JoinInv, Joined, EmptyDb
<1>2. UnitInv /\ JoinInv /\ [Next]_vars => JoinInv'
  BY StepKeepsJoined, SnapshotsStayJoined DEF JoinInv
<1>3. JoinInv => EdgesJoinStates
  BY DEF JoinInv, Joined, EdgesJoinStates
<1>4. QED
  BY <1>1, <1>2, <1>3, UnitInvariance, PTL DEF Spec
=============================================================================
