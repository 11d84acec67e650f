---------------------------- MODULE LadybugCalls ----------------------------
(***************************************************************************)
(* The calls of core.py on LadybugBackend (backends/ladybug.py), one step  *)
(* per statement, made over several connections to one database.  A call   *)
(* that a statement fails in raises: nothing in core.py catches it, so the *)
(* unit of work ends there.  The process may die between two statements.   *)
(*                                                                         *)
(* The variables of MemoryCore are what is committed, and the process's    *)
(* uuid7 floor as of the last call that ended.  Ladybug is external: one   *)
(* transaction at a time writes, a statement outside it reads what is      *)
(* committed, and a write outside it, with none open, commits by itself.   *)
(***************************************************************************)
EXTENDS MemoryCore

CONSTANTS
  Conns,    \* connections to the database, a LadybugBackend on each
  NoConn    \* no connection: no transaction is open

ASSUME LadybugCallsAssumption == NoConn \notin Conns

VARIABLES
  txn,      \* the connection whose transaction is open, or NoConn
  draft,    \* what that transaction added
  call      \* the call in progress on each connection

db == <<txn, draft, call>>
allVars == <<vars, db>>

Empty == [scopes |-> {}, beliefs |-> {}, states |-> {}, hub |-> {},
          spine |-> {}, edges |-> {}]

Idle == [at |-> "idle"]

\* at: the statement to come; id: the state_id minted, 0 before; ends: the
\* outcome if nothing fails
Frame(kind, at, s, b, p, e, status, ends) ==
  [kind |-> kind, at |-> at, scope |-> s, belief |-> b, payload |-> p,
   event |-> e, status |-> status, prior |-> {}, id |-> 0, ends |-> ends]

Becomes(c, frame) == call' = [call EXCEPT ![c] = frame]

Entered(c, frame) == call[c] = Idle /\ Becomes(c, frame)
Returns(c) == Becomes(c, Idle)

At(c, step) == call[c].at = step
Goto(c, step) == Becomes(c, [call[c] EXCEPT !.at = step])

-----------------------------------------------------------------------------
(* What a statement finds: in the transaction, its additions with what is   *)
(* committed.                                                               *)

View == INSTANCE MemoryCore WITH states <- states \cup draft.states

FoundScopes(c) == scopes \cup (IF txn = c THEN draft.scopes ELSE {})
FoundBeliefs == beliefs \cup draft.beliefs
FoundIds == View!Ids

-----------------------------------------------------------------------------
(* Calls.                                                                   *)

\* A contraction has no payload until its probe finds one.
NoPayload == <<>>

CallAppend(c, s, b, p, e) ==
  /\ Entered(c, Frame("append", "begin", s, b, p, e, "active", "appended"))
  /\ UNCHANGED <<vars, txn, draft>>

CallContract(c, s, b, e) ==
  /\ call[c] = Idle
  /\ IF s = World
     THEN ContractWorld(s) /\ UNCHANGED call
     ELSE /\ Entered(c, Frame("contract", "begin", s, b, NoPayload, e,
                              "retracted", "retracted"))
          /\ UNCHANGED vars
  /\ UNCHANGED <<txn, draft>>

\* No unit of work: a MATCH, and a MERGE if it found nothing.
CallGetOrCreateScope(c, s) ==
  /\ Entered(c, [kind |-> "scope", at |-> "match", scope |-> s, id |-> 0,
                 ends |-> "scope"])
  /\ UNCHANGED <<vars, txn, draft>>

CallAddEdge(c, from, to, type) ==
  /\ Entered(c, [kind |-> "edge", at |-> "begin", from |-> from, to |-> to,
                 type |-> type, id |-> 0, ends |-> "edge"])
  /\ UNCHANGED <<vars, txn, draft>>

-----------------------------------------------------------------------------
(* Statements of a unit of work.                                            *)

FirstStatement(kind) ==
  CASE kind = "append" -> "match" [] kind = "contract" -> "probe"
    [] kind = "edge" -> "edge"

\* Mutated form of BeginTransaction: contract makes its probe before it.
BeginAfterProbe(c) ==
  /\ At(c, "begin")
  /\ \/ /\ call[c].ends = "retracted" /\ call[c].prior = {}
        /\ LET prior == Current(call[c].scope, call[c].belief)
           IN  \/ /\ prior = {}
                  /\ Becomes(c, [call[c] EXCEPT !.ends = "vacuous"])
               \/ \E x \in prior :
                    Becomes(c, [call[c] EXCEPT !.prior = {x},
                                               !.payload = x.payload])
        /\ UNCHANGED txn
     \/ /\ call[c].ends = "retracted" => call[c].prior # {}
        /\ txn = NoConn /\ txn' = c
        /\ Goto(c, CASE call[c].ends = "retracted" -> "match"
                     [] call[c].ends = "vacuous" -> "commit"
                     [] OTHER -> FirstStatement(call[c].kind))
  /\ UNCHANGED <<vars, draft>>

BeginTransaction(c) ==
  /\ At(c, "begin") /\ txn = NoConn
  /\ txn' = c
  /\ Goto(c, FirstStatement(call[c].kind))
  /\ UNCHANGED <<vars, draft>>

\* contract: with nothing to retract, the unit commits having written nothing.
Probe(c) ==
  /\ At(c, "probe")
  /\ LET prior == View!Current(call[c].scope, call[c].belief)
     IN  \/ /\ prior = {}
            /\ Becomes(c, [call[c] EXCEPT !.at = "commit", !.ends = "vacuous"])
         \/ \E x \in prior :
              Becomes(c, [call[c] EXCEPT !.at = "match", !.prior = {x},
                                         !.payload = x.payload])
  /\ UNCHANGED <<vars, txn, draft>>

AfterScope(kind) == IF kind = "append" THEN "belief" ELSE "state"

\* The MATCH of _ensure_scope, and of get_or_create_scope, which returns if it
\* finds the scope.
MatchScope(c) ==
  /\ At(c, "match")
  /\ IF call[c].scope \notin FoundScopes(c)
     THEN Goto(c, "merge") /\ UNCHANGED outcome
     ELSE IF call[c].kind = "scope"
     THEN Returns(c) /\ outcome' = "scope"
     ELSE Goto(c, AfterScope(call[c].kind)) /\ UNCHANGED outcome
  /\ UNCHANGED <<store, lastId, restarts, txn, draft>>

\* The MERGE of _ensure_scope.
MergeScope(c) ==
  /\ At(c, "merge") /\ call[c].kind # "scope"
  /\ draft' = [draft EXCEPT !.scopes = @ \cup {call[c].scope}]
  /\ Goto(c, AfterScope(call[c].kind))
  /\ UNCHANGED <<vars, txn>>

\* The MERGE of get_or_create_scope, by which time the scope may be there.
MergeScopeAlone(c) ==
  /\ At(c, "merge") /\ call[c].kind = "scope" /\ txn = NoConn
  /\ GetOrCreateScope(call[c].scope)
  /\ Returns(c)
  /\ UNCHANGED <<txn, draft>>

MergeBelief(c) ==
  /\ At(c, "belief")
  /\ draft' = [draft EXCEPT !.beliefs = @ \cup {call[c].belief}]
  /\ Goto(c, "prior")
  /\ UNCHANGED <<vars, txn>>

FindPrior(c) ==
  /\ At(c, "prior")
  /\ Becomes(c, [call[c] EXCEPT
       !.at = "state",
       !.prior = View!Current(call[c].scope, call[c].belief)])
  /\ UNCHANGED <<vars, txn, draft>>

\* The mint and the MERGE of _append_state.
MergeState(c) ==
  /\ At(c, "state")
  /\ \E id \in Mintable :
       /\ draft' = [draft EXCEPT !.states = @ \cup
            {[id |-> id, scope |-> call[c].scope, belief |-> call[c].belief,
              event |-> call[c].event, payload |-> call[c].payload,
              status |-> call[c].status]}]
       /\ Becomes(c, [call[c] EXCEPT !.at = "hub", !.id = id])
  /\ UNCHANGED <<vars, txn>>

\* HAS_REVISION: both ends are MATCHed, each under its own label.
MergeHub(c) ==
  /\ At(c, "hub")
  /\ draft' = [draft EXCEPT !.hub = @ \cup
       {h \in {<<call[c].belief, call[c].id>>} :
          h[1] \in FoundBeliefs /\ h[2] \in FoundIds}]
  /\ Goto(c, "spine")
  /\ UNCHANGED <<vars, txn>>

\* SUPERSEDES, if there is a prior.
MergeSpine(c) ==
  /\ At(c, "spine")
  /\ draft' = [draft EXCEPT !.spine = @ \cup
       {n \in {<<call[c].id, x.id>> : x \in call[c].prior} :
          n[1] \in FoundIds /\ n[2] \in FoundIds}]
  /\ Goto(c, "commit")
  /\ UNCHANGED <<vars, txn>>

\* An end that is not found is a silent no-op.
MergeEdge(c) ==
  /\ At(c, "edge")
  /\ draft' = [draft EXCEPT !.edges = @ \cup
       {n \in {<<call[c].type, call[c].from, call[c].to>>} :
          {n[2], n[3]} \subseteq FoundIds}]
  /\ Goto(c, "commit")
  /\ UNCHANGED <<vars, txn>>

Minted(c) == IF call[c].id = 0 THEN lastId ELSE call[c].id

Commit(c) ==
  /\ At(c, "commit")
  /\ scopes' = scopes \cup draft.scopes
  /\ beliefs' = beliefs \cup draft.beliefs
  /\ states' = states \cup draft.states
  /\ hasRevision' = hasRevision \cup draft.hub
  /\ supersedes' = supersedes \cup draft.spine
  /\ edges' = edges \cup draft.edges
  /\ lastId' = Minted(c)
  /\ outcome' = call[c].ends
  /\ txn' = NoConn /\ draft' = Empty
  /\ Returns(c)
  /\ UNCHANGED restarts

\* The statement to come fails, or the step between two raises (the TypeError
\* of json.dumps).  The statement ended the transaction or the ROLLBACK does.  No
\* ROLLBACK follows a COMMIT that fails: that one ends the transaction is assumed
\* of the database here, and of a failed ROLLBACK too; LadybugUnit has both.
\* Another connection's transaction is one reason for a BEGIN or MERGE to fail.
Fails(c) ==
  /\ call[c] # Idle
  /\ outcome' = "failed" /\ lastId' = Minted(c)
  /\ IF txn = c THEN txn' = NoConn /\ draft' = Empty
     ELSE UNCHANGED <<txn, draft>>
  /\ Returns(c)
  /\ UNCHANGED <<store, restarts>>

\* The process dies, calls under way with it, and a new one opens the database.
Crash ==
  /\ Restart
  /\ txn' = NoConn /\ draft' = Empty
  /\ call' = [c \in Conns |-> Idle]

-----------------------------------------------------------------------------
CallsInit ==
  /\ Init
  /\ txn = NoConn /\ draft = Empty
  /\ call = [c \in Conns |-> Idle]

Statement(c) ==
  \/ BeginTransaction(c) \/ Probe(c) \/ MatchScope(c) \/ MergeScope(c)
  \/ MergeScopeAlone(c) \/ MergeBelief(c) \/ FindPrior(c) \/ MergeState(c)
  \/ MergeHub(c) \/ MergeSpine(c) \/ MergeEdge(c) \/ Commit(c)

CallsNext ==
  \/ \E c \in Conns :
       \/ Statement(c) \/ Fails(c)
       \/ \E s \in Scopes : CallGetOrCreateScope(c, s)
       \/ \E s \in Scopes, b \in Beliefs, e \in Events :
            \/ \E p \in Payloads : CallAppend(c, s, b, p, e)
            \/ CallContract(c, s, b, e)
       \/ \E from, to \in StateIds, type \in EdgeTypes :
            CallAddEdge(c, from, to, type)
  \/ Crash

CallsSpec == CallsInit /\ [][CallsNext]_allVars

-----------------------------------------------------------------------------
\* Whatever the connections interleave, whichever statement fails and wherever
\* the process dies, each call is one atomic step of the engine, taken on what
\* is committed when it ends, or leaves nothing.
EngineSpec == Spec
=============================================================================
