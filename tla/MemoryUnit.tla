----------------------------- MODULE MemoryUnit -----------------------------
(***************************************************************************)
(* The calls of core.py on InMemoryBackend (backends/memory.py), one step  *)
(* per backend primitive.  A unit of work is a snapshot of nodes and edges *)
(* that an exception, at any step, restores; the label-agnostic index is   *)
(* not in the snapshot and is rebuilt.  Callers may open units of their    *)
(* own around calls and, entering them by hand, exit them in any order.    *)
(*                                                                         *)
(* Each call implements one atomic step of MemoryCore.                     *)
(***************************************************************************)
EXTENDS Naturals, SequencesExt

CONSTANTS
  Scopes, World, Beliefs, Payloads, Events, StateIds, EdgeTypes, MaxGap,
                \* as in MemoryCore
  Handles,      \* UUIDs the callers pass to add_edge
  MaxUserUnits  \* bound: units the callers open around calls

VARIABLES
  db,         \* the backend: nodes by label, edges by type, the node index
  units,      \* the open units in the order of entry: what each restores
  call,       \* the core call in progress
  lastId,     \* the uuid7 floor of the process
  outcome     \* how the last call ended

vars == <<db, units, call, lastId, outcome>>

Idle == [at |-> "idle"]

\* The engine's reads, on what the backend holds now.
Live == INSTANCE MemoryCore
          WITH scopes <- db.scopes, beliefs <- db.beliefs,
               states <- db.states, hasRevision <- db.hub,
               supersedes <- db.spine, edges <- db.edges,
               MaxRestarts <- 0, restarts <- 0

-----------------------------------------------------------------------------
(* The backend's primitives.                                                *)

EmptyDb == [scopes |-> {}, beliefs |-> {}, states |-> {}, hub |-> {},
            spine |-> {}, edges |-> {}, index |-> [k \in {} |-> ""]]

StateKeys(d) == {x.id : x \in d.states}

\* _reindex: the label tables in the order they were created, the last wins.
Reindex(d) ==
  [k \in d.scopes \cup d.beliefs \cup StateKeys(d) |->
     CASE k \in StateKeys(d) -> "BeliefState"
       [] k \in d.beliefs \ StateKeys(d) -> "Belief"
       [] OTHER -> "Scope"]

\* The index of a first insert; a re-upsert leaves it alone.
Indexed(d, k, label) ==
  [j \in DOMAIN d.index \cup {k} |-> IF j = k THEN label ELSE d.index[j]]

UpsertScope(d, s) ==
  IF s \in d.scopes THEN d
  ELSE [d EXCEPT !.scopes = @ \cup {s}, !.index = Indexed(d, s, "Scope")]

UpsertBelief(d, b) ==
  IF b \in d.beliefs THEN d
  ELSE [d EXCEPT !.beliefs = @ \cup {b}, !.index = Indexed(d, b, "Belief")]

UpsertState(d, x) ==
  [d EXCEPT !.states = @ \cup {x}, !.index = Indexed(d, x.id, "BeliefState")]

\* add_edge asks the index whether both endpoints are known nodes.
Known(d, from, to) == {from, to} \subseteq DOMAIN d.index

\* Mutated form of Restored: the index is left as it was.
RestoredUnindexed(saved) == [saved EXCEPT !.index = db.index]

\* What an exception in a unit puts back: the snapshot, and the index anew.
Restored(saved) == [saved EXCEPT !.index = Reindex(saved)]

-----------------------------------------------------------------------------
(* Units of work.                                                           *)

\* The unit a call opened for itself: nothing else is entered or left in a call.
Innermost == units[Len(units)]
Outside == Front(units)

Enter(frame) ==
  /\ units' = Append(units, db)
  /\ call' = frame

Leave(result) ==
  /\ units' = Outside
  /\ call' = Idle
  /\ outcome' = result

\* A unit the caller opens around calls, and its two ends.
UserOpens ==
  /\ call = Idle /\ Len(units) < MaxUserUnits
  /\ units' = Append(units, db)
  /\ UNCHANGED <<db, call, lastId, outcome>>

UserFinishes(i) ==
  /\ call = Idle
  /\ units' = RemoveAt(units, i)
  /\ UNCHANGED <<db, call, lastId, outcome>>

\* Mutated form of UserRaises: the snapshot of the unit entered last is restored.
UserRaisesLast(i) ==
  /\ call = Idle
  /\ units' = RemoveAt(units, i)
  /\ db' = Restored(Innermost)
  /\ UNCHANGED <<call, lastId, outcome>>

\* A unit restores what it found when it was entered, whichever other units
\* are open and whatever they have restored since.
UserRaises(i) ==
  /\ call = Idle
  /\ units' = RemoveAt(units, i)
  /\ db' = Restored(units[i])
  /\ UNCHANGED <<call, lastId, outcome>>

\* An exception inside the call's unit, the TypeError of a value json cannot
\* encode among them, or a KeyboardInterrupt at any step.
CallRaises ==
  /\ call # Idle
  /\ db' = Restored(Innermost)
  /\ Leave("failed")
  /\ UNCHANGED lastId

-----------------------------------------------------------------------------
(* revise, expand and contract, step by step.                               *)

\* A contraction has no payload until its probe finds one.
NoPayload == <<>>

Frame(at, s, b, p, e, status) ==
  [at |-> at, scope |-> s, belief |-> b, payload |-> p, event |-> e,
   status |-> status, prior |-> {}, floor |-> lastId]

CallAppend(s, b, p, e) ==
  /\ call = Idle
  /\ Enter(Frame("scope", s, b, p, e, "active"))
  /\ UNCHANGED <<db, lastId, outcome>>

CallContract(s, b, e) ==
  /\ call = Idle
  /\ IF s = World
     THEN outcome' = "world_error" /\ UNCHANGED <<units, call>>
     ELSE /\ Enter(Frame("probe", s, b, NoPayload, e, "retracted"))
          /\ UNCHANGED outcome
  /\ UNCHANGED <<db, lastId>>

At(step) == call.at = step

Go(step) == call' = [call EXCEPT !.at = step]

\* Mutated form of Probe: the scope is materialised before the probe.
ProbeAfterEnsure ==
  /\ At("probe")
  /\ LET prior == Live!Current(call.scope, call.belief)
     IN  \/ prior = {} /\ Leave("vacuous")
         \/ \E x \in prior :
              /\ call' = [call EXCEPT !.at = "scope", !.prior = {x},
                                      !.payload = x.payload]
              /\ UNCHANGED <<units, outcome>>
  /\ db' = UpsertScope(db, call.scope)
  /\ UNCHANGED lastId

\* contract's probe: no active current state is a no-op; otherwise its
\* payload is the one to store.
Probe ==
  /\ At("probe")
  /\ LET prior == Live!Current(call.scope, call.belief)
     IN  \/ prior = {} /\ Leave("vacuous")
         \/ \E x \in prior :
              /\ call' = [call EXCEPT !.at = "scope", !.prior = {x},
                                      !.payload = x.payload]
              /\ UNCHANGED <<units, outcome>>
  /\ UNCHANGED <<db, lastId>>

EnsureScope ==
  /\ At("scope")
  /\ db' = UpsertScope(db, call.scope)
  /\ Go(IF call.status = "active" THEN "belief" ELSE "state")
  /\ UNCHANGED <<units, lastId, outcome>>

MaterialiseBelief ==
  /\ At("belief")
  /\ db' = UpsertBelief(db, call.belief)
  /\ Go("prior")
  /\ UNCHANGED <<units, lastId, outcome>>

FindPrior ==
  /\ At("prior")
  /\ call' = [call EXCEPT !.at = "state",
                          !.prior = Live!Current(call.scope, call.belief)]
  /\ UNCHANGED <<db, units, lastId, outcome>>

\* The mint and the BeliefState upsert of _append_state.
StoreState ==
  /\ At("state")
  /\ \E id \in Live!Mintable :
       /\ db' = UpsertState(db, [id |-> id, scope |-> call.scope,
                                 belief |-> call.belief,
                                 event |-> call.event,
                                 payload |-> call.payload,
                                 status |-> call.status])
       /\ lastId' = id
  /\ Go("hub")
  /\ UNCHANGED <<units, outcome>>

\* HAS_REVISION, belief -> the state just minted.
LayHub ==
  /\ At("hub")
  /\ db' = IF Known(db, call.belief, lastId)
           THEN [db EXCEPT !.hub = @ \cup {<<call.belief, lastId>>}]
           ELSE db
  /\ Go("spine")
  /\ UNCHANGED <<units, lastId, outcome>>

\* SUPERSEDES, the state just minted -> prior.
LaySpine ==
  /\ At("spine")
  /\ db' = [db EXCEPT !.spine = @ \cup
              {<<lastId, x.id>> : x \in {y \in call.prior :
                                           Known(db, lastId, y.id)}}]
  /\ Go("exit")
  /\ UNCHANGED <<units, lastId, outcome>>

FinishWrite ==
  /\ At("exit")
  /\ Leave(IF call.status = "active" THEN "appended" ELSE "retracted")
  /\ UNCHANGED <<db, lastId>>

-----------------------------------------------------------------------------
(* The other calls.                                                         *)

\* No unit of work: one match, then at most one upsert.
GetOrCreateScope(s) ==
  /\ call = Idle
  /\ db' = UpsertScope(db, s)
  /\ outcome' = "scope"
  /\ UNCHANGED <<units, call, lastId>>

LayEdge(from, to, type) ==
  db' = IF Known(db, from, to)
        THEN [db EXCEPT !.edges = @ \cup {<<type, from, to>>}]
        ELSE db

CallAddEdge(from, to, type) ==
  /\ call = Idle
  /\ LayEdge(from, to, type)
  /\ units' = Append(units, db)
  /\ call' = [at |-> "edge", floor |-> lastId]
  /\ UNCHANGED <<lastId, outcome>>

FinishEdge ==
  /\ At("edge")
  /\ Leave("edge")
  /\ UNCHANGED <<db, lastId>>

-----------------------------------------------------------------------------
Init ==
  /\ db = EmptyDb /\ units = <<>> /\ call = Idle
  /\ lastId = 0 /\ outcome = "none"

Step ==
  \/ Probe \/ EnsureScope \/ MaterialiseBelief \/ FindPrior \/ StoreState
  \/ LayHub \/ LaySpine \/ FinishWrite \/ FinishEdge

Next ==
  \/ Step \/ CallRaises
  \/ UserOpens \/ \E i \in DOMAIN units : UserFinishes(i) \/ UserRaises(i)
  \/ \E s \in Scopes : GetOrCreateScope(s)
  \/ \E s \in Scopes, b \in Beliefs, e \in Events :
       \/ \E p \in Payloads : CallAppend(s, b, p, e)
       \/ CallContract(s, b, e)
  \/ \E from, to \in Handles, type \in EdgeTypes : CallAddEdge(from, to, type)

Spec == Init /\ [][Next]_vars

-----------------------------------------------------------------------------
\* Between calls, and at every step of one, the index holds exactly the nodes
\* there are, each under its own label: what add_edge and traverse look up is
\* what match_nodes finds, after any number of rollbacks.
IndexIsExact ==
  /\ DOMAIN db.index = db.scopes \cup db.beliefs \cup StateKeys(db)
  /\ \A k \in DOMAIN db.index :
       CASE db.index[k] = "BeliefState" -> k \in StateKeys(db)
         [] db.index[k] = "Belief" -> k \in db.beliefs
         [] OTHER -> k \in db.scopes

\* A unit left by an exception leaves the backend, index included, as it was
\* when that unit was entered: whatever calls and units there have been inside
\* it, and in whichever order units are exited.
ExceptionRestoresEntry ==
  [][/\ CallRaises => db' = Innermost
     /\ \A i \in DOMAIN units : UserRaises(i) => db' = units[i]]_vars

\* A rollback only undoes: what an exception undid stays undone.
UndoneStaysUndone ==
  [][(CallRaises \/ \E i \in DOMAIN units : UserRaises(i))
       => db'.states \subseteq db.states]_vars

\* The endpoints of a consumer edge are belief states, as they are where the
\* MATCH of the reference backend names their label.
EdgesJoinStates ==
  \A n \in db.edges : {n[2], n[3]} \subseteq StateKeys(db)

\* The store a call under way will leave if it raises, else the store as it is.
Settled == IF call = Idle THEN db ELSE Innermost

Core == INSTANCE MemoryCore
          WITH scopes <- Settled.scopes, beliefs <- Settled.beliefs,
               states <- Settled.states, hasRevision <- Settled.hub,
               supersedes <- Settled.spine, edges <- Settled.edges,
               MaxRestarts <- 0, restarts <- 0,
               lastId <- IF call = Idle THEN lastId ELSE call.floor

\* Each call, inside a unit of its caller's too, is one atomic step of
\* MemoryCore, or none when it raises.  Only an exception that leaves a unit
\* of the caller's does what no call does.
CallsAreAtomic ==
  Core!Init /\ [][Core!Next \/ \E i \in DOMAIN units : UserRaises(i)]_(Core!vars)
=============================================================================
