------------------------- MODULE LadybugCallsProofs -------------------------
(***************************************************************************)
(* Proofs about LadybugCalls: the engine's calls, a statement at a time    *)
(* over any number of connections, implement MemoryCore, so that what      *)
(* MemoryCoreProofs proves of the engine holds of the database.            *)
(***************************************************************************)
EXTENDS LadybugCalls, MemoryCoreProofs

-----------------------------------------------------------------------------
(* Types.                                                                   *)

WriteFrames ==
  [kind : {"append", "contract"},
   at : {"begin", "probe", "match", "merge", "belief", "prior", "state",
         "hub", "spine", "commit"},
   scope : Scopes, belief : Beliefs, payload : Payloads \cup {NoPayload},
   event : Events, status : Status, prior : SUBSET BeliefState,
   id : {0} \cup StateIds, ends : {"appended", "retracted", "vacuous"}]

ScopeFrames ==
  [kind : {"scope"}, at : {"match", "merge"}, scope : Scopes, id : {0},
   ends : {"scope"}]

EdgeFrames ==
  [kind : {"edge"}, at : {"begin", "edge", "commit"}, from : StateIds,
   to : StateIds, type : EdgeTypes, id : {0}, ends : {"edge"}]

Drafts ==
  [scopes : SUBSET Scopes, beliefs : SUBSET Beliefs,
   states : SUBSET BeliefState, hub : SUBSET (Beliefs \X StateIds),
   spine : SUBSET (StateIds \X StateIds),
   edges : SUBSET (EdgeTypes \X StateIds \X StateIds)]

CallsTypeOK ==
  /\ txn \in Conns \cup {NoConn}
  /\ draft \in Drafts
  /\ call \in [Conns -> WriteFrames \cup ScopeFrames \cup EdgeFrames \cup {Idle}]

\* A frame whose call has a transaction.
Begun(f) == f.at \notin {"idle", "begin"} /\ f.kind # "scope"

-----------------------------------------------------------------------------
(* How far the transaction of a call has come: what it has added, and that  *)
(* what it read of the committed store is still so.                         *)

\* The state the call mints.
Minting(f) == [id |-> f.id, scope |-> f.scope, belief |-> f.belief,
               event |-> f.event, payload |-> f.payload, status |-> f.status]

EdgeProgress(f) ==
  /\ draft.scopes = {} /\ draft.beliefs = {} /\ draft.states = {}
  /\ draft.hub = {} /\ draft.spine = {}
  /\ f.at = "edge" => draft.edges = {}
  /\ f.at = "commit" =>
       draft.edges = {n \in {<<f.type, f.from, f.to>>} :
                        {n[2], n[3]} \subseteq Ids}

ScopeProgress(f) ==
  IF f.at \in {"probe", "match", "merge"} \/ f.ends = "vacuous"
  THEN draft.scopes = {}
  ELSE draft.scopes \subseteq {f.scope} /\ f.scope \in scopes \cup draft.scopes

BeliefProgress(f) ==
  draft.beliefs = IF f.at \in {"match", "merge", "belief"}
                     \/ f.kind = "contract"
                  THEN {} ELSE {f.belief}

PriorProgress(f) ==
  \/ f.kind = "append" /\ f.status = "active" /\ f.ends = "appended"
       /\ f.payload \in Payloads
       /\ f.at \in {"match", "merge", "belief", "prior", "state", "hub",
                    "spine", "commit"}
       /\ (f.at \in {"state", "hub", "spine", "commit"} =>
             f.prior = Current(f.scope, f.belief))
  \/ f.kind = "contract" /\ f.status = "retracted" /\ f.ends = "retracted"
       /\ f.scope # World /\ f.at = "probe"
  \/ f.kind = "contract" /\ f.status = "retracted" /\ f.ends = "retracted"
       /\ f.scope # World
       /\ f.at \in {"match", "merge", "state", "hub", "spine", "commit"}
       /\ \E x \in Current(f.scope, f.belief) :
            f.prior = {x} /\ f.payload = x.payload
  \/ f.kind = "contract" /\ f.ends = "vacuous" /\ f.scope # World
       /\ f.at = "commit" /\ Current(f.scope, f.belief) = {}

StateProgress(f) ==
  IF f.at \in {"hub", "spine", "commit"} /\ f.ends # "vacuous"
  THEN f.id \in Mintable /\ draft.states = {Minting(f)}
  ELSE f.id = 0 /\ draft.states = {}

HubProgress(f) ==
  draft.hub = IF f.at \in {"spine", "commit"} /\ f.ends # "vacuous"
              THEN {<<f.belief, f.id>>} ELSE {}

SpineProgress(f) ==
  draft.spine = IF f.at = "commit" /\ f.ends # "vacuous"
                THEN {<<f.id, x.id>> : x \in f.prior} ELSE {}

WriteProgress(f) ==
  /\ draft.edges = {}
  /\ ScopeProgress(f)
  /\ BeliefProgress(f)
  /\ PriorProgress(f)
  /\ StateProgress(f)
  /\ HubProgress(f)
  /\ SpineProgress(f)

Progress(f) == IF f.kind = "edge" THEN EdgeProgress(f) ELSE WriteProgress(f)

\* A call before its transaction.
Waiting(f) ==
  /\ f # Idle => f.id = 0
  /\ f.at = "begin" =>
       \/ f.kind = "edge"
       \/ /\ f.kind = "append" /\ f.status = "active" /\ f.ends = "appended"
          /\ f.payload \in Payloads
       \/ /\ f.kind = "contract" /\ f.status = "retracted"
          /\ f.ends = "retracted" /\ f.scope # World

CallsInv ==
  /\ CallsTypeOK
  /\ txn = NoConn => draft = Empty
  /\ \A c \in Conns : \A f \in {call[c]} :
       /\ txn = c => Begun(f) /\ Progress(f)
       /\ txn # c => ~ Begun(f) /\ Waiting(f)

-----------------------------------------------------------------------------
(* Steps that leave the store and the transaction alone.                    *)

LEMMA ReadsStay ==
  ASSUME UNCHANGED <<states, lastId>>
  PROVE  /\ \A s, b : Current(s, b)' = Current(s, b)
         /\ Mintable' = Mintable
         /\ Ids' = Ids
  BY DEF Current, CurrentTail, StatesOf, Mintable, Ids

\* What a transaction has done and read stays so while nothing is committed.
LEMMA ProgressStays ==
  ASSUME UNCHANGED <<store, lastId, draft>>, NEW f, Progress(f)
  PROVE  Progress(f)'
<1>1. /\ \A s, b : Current(s, b)' = Current(s, b)
      /\ Mintable' = Mintable /\ Ids' = Ids
  BY ReadsStay DEF store
<1>2. CASE f.kind = "edge"
  BY <1>1, <1>2 DEF Progress, EdgeProgress
<1>3. CASE f.kind # "edge"
  <2>1. WriteProgress(f)
    BY <1>3 DEF Progress
  <2>2. ScopeProgress(f)' /\ BeliefProgress(f)'
    BY <2>1 DEF store, WriteProgress, ScopeProgress, BeliefProgress
  <2>3. PriorProgress(f)'
    BY <1>1, <2>1 DEF WriteProgress, PriorProgress
  <2>4. StateProgress(f)' /\ HubProgress(f)' /\ SpineProgress(f)'
    BY <1>1, <2>1 DEF WriteProgress, StateProgress, HubProgress,
                      SpineProgress, Minting
  <2>5. QED
    BY <1>3, <2>1, <2>2, <2>3, <2>4 DEF Progress, WriteProgress
<1>4. QED
  BY <1>2, <1>3

-----------------------------------------------------------------------------
(* The ways a step can move a call.                                         *)

Frames == WriteFrames \cup ScopeFrames \cup EdgeFrames \cup {Idle}

LEMMA IdleWaits == Idle \in Frames /\ ~ Begun(Idle) /\ Waiting(Idle)
  BY DEF Frames, Idle, Begun, Waiting

\* A call without a transaction.
LEMMA MovesOutside ==
  ASSUME CallsInv, NEW c \in Conns, txn # c, NEW g \in Frames,
         call' = [call EXCEPT ![c] = g], UNCHANGED <<store, lastId, txn, draft>>,
         ~ Begun(g), Waiting(g)
  PROVE  CallsInv'
<1>1. CallsTypeOK'
  BY DEF CallsInv, CallsTypeOK, Frames
<1>2. ASSUME NEW d \in Conns, txn = d, NEW f, f = call'[d]
      PROVE  Begun(f) /\ Progress(f)'
  <2>1. call'[d] = call[d]
    BY <1>2 DEF CallsInv, CallsTypeOK
  <2>2. Begun(f) /\ Progress(f)
    BY <1>2, <2>1 DEF CallsInv
  <2>3. QED
    BY <2>2, ProgressStays
<1>3. ASSUME NEW d \in Conns, txn # d, NEW f, f = call'[d]
      PROVE  ~ Begun(f) /\ Waiting(f)
  BY <1>3 DEF CallsInv, CallsTypeOK
<1>4. QED
  BY <1>1, <1>2, <1>3 DEF CallsInv, Begun, Waiting

\* The call that has the transaction, or now begins it.
LEMMA MovesInside ==
  ASSUME CallsInv, NEW c \in Conns, txn \in {c, NoConn}, txn' = c,
         NEW g \in Frames, call' = [call EXCEPT ![c] = g], draft' \in Drafts,
         Begun(g), Progress(g)'
  PROVE  CallsInv'
<1>1. CallsTypeOK'
  BY DEF CallsInv, CallsTypeOK, Frames
<1>2. call'[c] = g
  BY DEF CallsInv, CallsTypeOK
<1>3. ASSUME NEW d \in Conns, c # d, NEW f, f = call'[d]
      PROVE  ~ Begun(f) /\ Waiting(f)
  BY <1>3, LadybugCallsAssumption DEF CallsInv, CallsTypeOK
<1>4. QED
  BY <1>1, <1>2, <1>3, LadybugCallsAssumption DEF CallsInv, Begun, Waiting

\* The end of a call, and of its transaction if it has one.
LEMMA EndsCall ==
  ASSUME CallsInv, NEW c \in Conns, txn \in {c, NoConn}, txn' = NoConn,
         draft' = Empty, call' = [call EXCEPT ![c] = Idle]
  PROVE  CallsInv'
<1>1. Empty \in Drafts
  BY DEF Empty, Drafts
<1>2. CallsTypeOK'
  BY <1>1, IdleWaits DEF CallsInv, CallsTypeOK, Frames
<1>3. ASSUME NEW d \in Conns, NEW f, f = call'[d]
      PROVE  ~ Begun(f) /\ Waiting(f)
  BY <1>3, IdleWaits, LadybugCallsAssumption DEF CallsInv, CallsTypeOK
<1>4. QED
  BY <1>2, <1>3, LadybugCallsAssumption DEF CallsInv, Begun, Waiting

-----------------------------------------------------------------------------
(* The actions, one by one.                                                 *)

\* What the invariant says of the call on one connection.
LEMMA Focus ==
  ASSUME CallsInv, NEW c \in Conns, NEW f, f = call[c]
  PROVE  /\ f \in Frames
         /\ \A g : [call EXCEPT ![c] = g] \in [Conns -> Frames \cup {g}]
         /\ txn = c => Begun(f) /\ Progress(f)
         /\ txn # c => ~ Begun(f) /\ Waiting(f)
         /\ f = Idle => txn # c
  BY IdleWaits DEF CallsInv, CallsTypeOK, Frames

LEMMA CallsWait ==
  ASSUME CallsInv, NEW c \in Conns, NEW s \in Scopes,
         \/ \E b \in Beliefs, p \in Payloads, e \in Events :
              CallAppend(c, s, b, p, e)
         \/ \E b \in Beliefs, e \in Events : CallContract(c, s, b, e)
         \/ CallGetOrCreateScope(c, s)
  PROVE  CallsInv'
<1>1. call[c] = Idle /\ txn # c
  BY Focus DEF CallAppend, CallContract, CallGetOrCreateScope, Entered, Becomes
<1>2. UNCHANGED <<store, lastId, txn, draft>>
  BY DEF CallAppend, CallContract, CallGetOrCreateScope, ContractWorld, vars,
         store
<1>3. PICK g \in Frames : /\ call' = [call EXCEPT ![c] = g]
                          /\ ~ Begun(g) /\ Waiting(g)
  <2>1. ASSUME NEW b \in Beliefs, NEW p \in Payloads, NEW e \in Events,
               CallAppend(c, s, b, p, e)
        PROVE  \E g \in Frames : /\ call' = [call EXCEPT ![c] = g]
                                 /\ ~ Begun(g) /\ Waiting(g)
    <3> DEFINE g == Frame("append", "begin", s, b, p, e, "active", "appended")
    <3>1. g \in WriteFrames /\ ~ Begun(g) /\ Waiting(g)
      BY DEF Frame, WriteFrames, Begun, Waiting, Status
    <3>2. QED
      BY <2>1, <3>1 DEF CallAppend, Entered, Becomes, Frames
  <2>2. ASSUME NEW b \in Beliefs, NEW e \in Events,
               CallContract(c, s, b, e), s # World
        PROVE  \E g \in Frames : /\ call' = [call EXCEPT ![c] = g]
                                 /\ ~ Begun(g) /\ Waiting(g)
    <3> DEFINE g == Frame("contract", "begin", s, b, NoPayload, e,
                          "retracted", "retracted")
    <3>1. g \in WriteFrames /\ ~ Begun(g) /\ Waiting(g)
      BY <2>2 DEF Frame, WriteFrames, Begun, Waiting, Status
    <3>2. QED
      BY <2>2, <3>1 DEF CallContract, Entered, Becomes, Frames
  <2>3. ASSUME NEW b \in Beliefs, NEW e \in Events,
               CallContract(c, s, b, e), s = World
        PROVE  \E g \in Frames : /\ call' = [call EXCEPT ![c] = g]
                                 /\ ~ Begun(g) /\ Waiting(g)
    BY <1>1, <2>3, IdleWaits DEF CallContract, CallsInv, CallsTypeOK
  <2>4. CASE CallGetOrCreateScope(c, s)
    <3> DEFINE g == [kind |-> "scope", at |-> "match", scope |-> s, id |-> 0,
                     ends |-> "scope"]
    <3>1. g \in ScopeFrames /\ ~ Begun(g) /\ Waiting(g)
      BY DEF ScopeFrames, Begun, Waiting
    <3>2. QED
      BY <2>4, <3>1 DEF CallGetOrCreateScope, Entered, Becomes, Frames
  <2>5. QED
    BY <2>1, <2>2, <2>3, <2>4
<1>4. QED
  BY <1>1, <1>2, <1>3, MovesOutside

LEMMA EdgeCallWaits ==
  ASSUME CallsInv, NEW c \in Conns, NEW from \in StateIds,
         NEW to \in StateIds, NEW type \in EdgeTypes,
         CallAddEdge(c, from, to, type)
  PROVE  CallsInv'
<1> DEFINE g == [kind |-> "edge", at |-> "begin", from |-> from, to |-> to,
                 type |-> type, id |-> 0, ends |-> "edge"]
<1>1. g \in Frames /\ ~ Begun(g) /\ Waiting(g)
  BY DEF Frames, EdgeFrames, Begun, Waiting
<1>2. txn # c /\ call' = [call EXCEPT ![c] = g]
  BY Focus DEF CallAddEdge, Entered, Becomes
<1>3. UNCHANGED <<store, lastId, txn, draft>>
  BY DEF CallAddEdge, vars
<1> HIDE DEF g
<1>4. QED
  BY <1>1, <1>2, <1>3, MovesOutside

LEMMA BeginKeeps ==
  ASSUME CallsInv, NEW c \in Conns, BeginTransaction(c)
  PROVE  CallsInv'
<1>1. PICK f : f = call[c]
  OBVIOUS
<1>2. PICK g : g = [f EXCEPT !.at = FirstStatement(f.kind)]
  OBVIOUS
<1>3. /\ f.at = "begin" /\ txn = NoConn /\ txn' = c /\ draft' = Empty
      /\ call' = [call EXCEPT ![c] = g]
  BY <1>1, <1>2 DEF BeginTransaction, At, Goto, Becomes, CallsInv
<1>4. f \in WriteFrames \cup EdgeFrames /\ Waiting(f) /\ f # Idle
  BY <1>1, <1>3, Focus, LadybugCallsAssumption
     DEF Frames, ScopeFrames, Idle
<1>5. Empty \in Drafts
  BY DEF Empty, Drafts
<1>6. CASE f \in WriteFrames
  <2>1. /\ g \in WriteFrames /\ g.id = 0 /\ Begun(g)
        /\ g.ends = f.ends /\ g.kind = f.kind /\ g.status = f.status
        /\ g.scope = f.scope /\ g.payload = f.payload
        /\ g.at = IF f.kind = "append" THEN "match" ELSE "probe"
    BY <1>2, <1>3, <1>4, <1>6 DEF WriteFrames, FirstStatement, Begun, Waiting
  <2>2. \/ /\ f.kind = "append" /\ f.status = "active" /\ f.ends = "appended"
           /\ f.payload \in Payloads
        \/ /\ f.kind = "contract" /\ f.status = "retracted"
           /\ f.ends = "retracted" /\ f.scope # World
    BY <1>3, <1>4, <1>6 DEF Waiting, WriteFrames
  <2>3. Progress(g)'
    BY <1>3, <2>1, <2>2 DEF Progress, WriteProgress, ScopeProgress,
       BeliefProgress, PriorProgress, StateProgress, HubProgress,
       SpineProgress, Empty
  <2>4. QED
    BY <1>3, <1>5, <2>1, <2>3, MovesInside DEF Frames
<1>7. CASE f \in EdgeFrames
  <2>1. g \in EdgeFrames /\ Begun(g) /\ g.at = "edge" /\ g.kind = "edge"
    BY <1>2, <1>3, <1>7 DEF EdgeFrames, FirstStatement, Begun
  <2>2. Progress(g)'
    BY <1>3, <2>1 DEF Progress, EdgeProgress, Empty
  <2>3. QED
    BY <1>3, <1>5, <2>1, <2>2, MovesInside DEF Frames
<1>8. QED
  BY <1>4, <1>6, <1>7

\* The call with the transaction is a write or an edge call.
LEMMA InTransaction ==
  ASSUME CallsInv, NEW c \in Conns, NEW f, f = call[c], Begun(f)
  PROVE  /\ txn = c /\ Progress(f) /\ draft \in Drafts
         /\ \/ f \in WriteFrames /\ f.kind # "edge" /\ WriteProgress(f)
            \/ f \in EdgeFrames /\ f.kind = "edge" /\ EdgeProgress(f)
<1>1. txn = c /\ Progress(f) /\ f \in Frames /\ draft \in Drafts
  BY Focus DEF CallsInv, CallsTypeOK
<1>2. f \in WriteFrames \cup EdgeFrames
  BY <1>1 DEF Frames, ScopeFrames, Idle, Begun
<1>3. QED
  BY <1>1, <1>2 DEF WriteFrames, EdgeFrames, Progress

\* A read in a transaction that wrote no state reads what is committed.
LEMMA ViewIsCommitted ==
  ASSUME draft.states = {}
  PROVE  \A s, b : View!Current(s, b) = Current(s, b)
  BY DEF View!Current, View!CurrentTail, View!Tail, View!StatesOf,
         View!IsActiveTail, View!Newer,
         Current, CurrentTail, Tail, StatesOf, IsActiveTail, Newer

LEMMA CurrentStates ==
  \A s, b : \A x \in Current(s, b) :
    x \in states /\ x.scope = s /\ x.belief = b
  BY DEF Current, CurrentTail, Tail, StatesOf

\* At a statement only a write makes.
LEMMA Writing ==
  ASSUME CallsInv, NEW c \in Conns, NEW f, f = call[c],
         \/ f.at \in {"probe", "belief", "prior", "state", "hub", "spine"}
         \/ f.at \in {"match", "merge"} /\ f.kind # "scope"
  PROVE  /\ f \in WriteFrames /\ f.kind # "edge" /\ WriteProgress(f)
         /\ txn = c /\ draft \in Drafts
<1>1. f \in Frames
  BY Focus
<1>2. f \in WriteFrames
  BY <1>1 DEF Frames, EdgeFrames, ScopeFrames, Idle
<1>3. Begun(f)
  BY <1>2 DEF Begun, WriteFrames
<1>4. QED
  BY <1>2, <1>3, InTransaction DEF EdgeFrames

LEMMA ProbeKeeps ==
  ASSUME TypeOK, CallsInv, NEW c \in Conns, Probe(c)
  PROVE  CallsInv'
<1>1. PICK f : f = call[c]
  OBVIOUS
<1>2. f.at = "probe" /\ UNCHANGED <<store, lastId, txn, draft>>
  BY <1>1 DEF Probe, At, vars
<1>3. /\ f \in WriteFrames /\ txn = c /\ WriteProgress(f) /\ draft \in Drafts
      /\ f.kind # "edge"
  BY <1>1, <1>2, Writing
<1>4. draft.states = {} /\ f.id = 0
  BY <1>2, <1>3 DEF WriteProgress, StateProgress
<1>5. \A s, b : Current(s, b)' = Current(s, b)
  BY <1>2, ReadsStay DEF store
<1>6. f.kind = "contract" /\ f.status = "retracted" /\ f.scope # World
      /\ f.ends = "retracted"
  BY <1>2, <1>3 DEF WriteProgress, PriorProgress
<1>7. CASE Current(f.scope, f.belief) = {}
  <2>1. PICK g : g = [f EXCEPT !.at = "commit", !.ends = "vacuous"]
    OBVIOUS
  <2>0. View!Current(call[c].scope, call[c].belief) = {}
    BY <1>1, <1>4, <1>7, ViewIsCommitted
  <2>2. call' = [call EXCEPT ![c] = g]
    BY <1>1, <2>0, <2>1 DEF Probe, Becomes
  <2>3. /\ g \in WriteFrames /\ Begun(g) /\ g.at = "commit" /\ g.id = 0
        /\ g.ends = "vacuous" /\ g.kind = "contract" /\ g.scope # World
        /\ g.scope = f.scope /\ g.belief = f.belief
    BY <1>3, <1>4, <1>6, <2>1 DEF WriteFrames, Begun
  <2>4. WriteProgress(g)'
    BY <1>2, <1>3, <1>4, <1>5, <1>6, <1>7, <2>3
       DEF WriteProgress, ScopeProgress, BeliefProgress, PriorProgress,
           StateProgress, HubProgress, SpineProgress
  <2>5. QED
    BY <1>2, <1>3, <2>2, <2>3, <2>4, MovesInside DEF Frames, Progress
<1>8. CASE Current(f.scope, f.belief) # {}
  <2>1. PICK x \in Current(f.scope, f.belief) :
          call' = [call EXCEPT ![c] = [f EXCEPT !.at = "match", !.prior = {x},
                                                !.payload = x.payload]]
    BY <1>1, <1>4, <1>8, ViewIsCommitted DEF Probe, Becomes
  <2>2. PICK g : g = [f EXCEPT !.at = "match", !.prior = {x},
                               !.payload = x.payload]
    OBVIOUS
  <2>3. call' = [call EXCEPT ![c] = g]
    BY <1>1, <2>1, <2>2
  <2>4. x \in BeliefState
    BY CurrentStates DEF TypeOK
  <2>5. /\ g \in WriteFrames /\ Begun(g) /\ g.at = "match" /\ g.id = 0
        /\ g.ends = "retracted" /\ g.status = "retracted"
        /\ g.kind = "contract" /\ g.scope # World
        /\ g.scope = f.scope /\ g.belief = f.belief
        /\ g.prior = {x} /\ g.payload = x.payload
    BY <1>3, <1>4, <1>6, <2>2, <2>4 DEF WriteFrames, Begun, BeliefState
  <2>6. WriteProgress(g)'
    BY <1>2, <1>3, <1>4, <1>5, <1>6, <1>8, <2>5
       DEF WriteProgress, ScopeProgress, BeliefProgress, PriorProgress,
           StateProgress, HubProgress, SpineProgress
  <2>7. QED
    BY <1>2, <1>3, <2>3, <2>5, <2>6, MovesInside DEF Frames, Progress
<1>9. QED
  BY <1>7, <1>8

LEMMA MatchScopeKeeps ==
  ASSUME CallsInv, NEW c \in Conns, MatchScope(c)
  PROVE  CallsInv'
<1>1. PICK f : f = call[c]
  OBVIOUS
<1>2. f.at = "match" /\ UNCHANGED <<store, lastId, txn, draft>>
  BY <1>1 DEF MatchScope, At
<1>3. \A s, b : Current(s, b)' = Current(s, b)
  BY <1>2, ReadsStay DEF store
<1>4. Mintable' = Mintable
  BY <1>2, ReadsStay DEF store
<1>5. CASE f.kind = "scope"
  <2>1. f \in ScopeFrames /\ txn # c
    BY <1>1, <1>2, <1>5, Focus
       DEF Begun, Frames, WriteFrames, EdgeFrames, Idle
  <2>2. PICK g \in {Idle, [f EXCEPT !.at = "merge"]} :
          call' = [call EXCEPT ![c] = g]
    BY <1>1, <1>2, <1>5 DEF MatchScope, Goto, Returns, Becomes
  <2>3. g \in Frames /\ ~ Begun(g) /\ Waiting(g)
    BY <2>1, <2>2, IdleWaits DEF Frames, ScopeFrames, Begun, Waiting
  <2>4. QED
    BY <1>2, <2>1, <2>2, <2>3, MovesOutside
<1>6. CASE f.kind # "scope"
  <2>1. /\ f \in WriteFrames /\ f.kind # "edge" /\ WriteProgress(f)
        /\ txn = c /\ draft \in Drafts
    BY <1>1, <1>2, <1>6, Writing
  <2>2. draft.scopes = {} /\ draft.beliefs = {} /\ draft.states = {}
        /\ f.ends # "vacuous" /\ f.id = 0
    BY <1>2, <2>1 DEF WriteProgress, ScopeProgress, BeliefProgress,
                      StateProgress, PriorProgress
  <2>3. PICK step \in {"merge", "belief", "state"} :
          /\ call' = [call EXCEPT ![c] = [f EXCEPT !.at = step]]
          /\ step # "merge" => f.scope \in scopes
          /\ step = "belief" => f.kind = "append"
          /\ step = "state" => f.kind = "contract"
    BY <1>1, <1>2, <1>6, <2>1, <2>2
       DEF MatchScope, FoundScopes, Goto, Becomes, AfterScope, WriteFrames
  <2>4. PICK g : g = [f EXCEPT !.at = step]
    OBVIOUS
  <2>5. /\ g \in WriteFrames /\ Begun(g) /\ g.at = step
        /\ g.kind = f.kind /\ g.scope = f.scope /\ g.belief = f.belief
        /\ g.payload = f.payload /\ g.status = f.status /\ g.id = f.id
        /\ g.prior = f.prior /\ g.ends = f.ends
    BY <2>1, <2>3, <2>4 DEF WriteFrames, Begun
  <2>6. WriteProgress(g)'
    BY <1>2, <1>3, <1>4, <2>1, <2>2, <2>3, <2>5
       DEF WriteProgress, ScopeProgress, BeliefProgress, PriorProgress,
           StateProgress, HubProgress, SpineProgress, store
  <2>7. QED
    BY <1>2, <2>1, <2>3, <2>4, <2>5, <2>6, MovesInside DEF Frames, Progress
<1>7. QED
  BY <1>5, <1>6

LEMMA MergeScopeKeeps ==
  ASSUME CallsInv, NEW c \in Conns, MergeScope(c)
  PROVE  CallsInv'
<1>1. PICK f : f = call[c]
  OBVIOUS
<1>2. f.at = "merge" /\ f.kind # "scope" /\ UNCHANGED <<store, lastId, txn>>
  BY <1>1 DEF MergeScope, At, vars
<1>3. \A s, b : Current(s, b)' = Current(s, b)
  BY <1>2, ReadsStay DEF store
<1>4. /\ f \in WriteFrames /\ f.kind # "edge" /\ WriteProgress(f)
      /\ txn = c /\ draft \in Drafts
  BY <1>1, <1>2, Writing
<1>5. /\ draft' \in Drafts /\ draft'.scopes = {f.scope}
      /\ draft'.beliefs = {} /\ draft'.states = {} /\ draft'.hub = {}
      /\ draft'.spine = {} /\ draft'.edges = {}
  BY <1>1, <1>2, <1>4 DEF MergeScope, Drafts, WriteFrames, WriteProgress,
     ScopeProgress, BeliefProgress, StateProgress, HubProgress, SpineProgress
<1>6. PICK g : g = [f EXCEPT !.at = AfterScope(f.kind)]
  OBVIOUS
<1>7. call' = [call EXCEPT ![c] = g]
  BY <1>1, <1>6 DEF MergeScope, Goto, Becomes
<1>8. /\ g \in WriteFrames /\ Begun(g)
      /\ g.at = IF f.kind = "append" THEN "belief" ELSE "state"
      /\ g.kind = f.kind /\ g.scope = f.scope /\ g.belief = f.belief
      /\ g.payload = f.payload /\ g.status = f.status /\ g.id = f.id
      /\ g.prior = f.prior /\ g.ends = f.ends
  BY <1>4, <1>6 DEF WriteFrames, Begun, AfterScope
<1>9. WriteProgress(g)'
  BY <1>2, <1>3, <1>4, <1>5, <1>8
     DEF WriteProgress, ScopeProgress, BeliefProgress, PriorProgress,
         StateProgress, HubProgress, SpineProgress
<1>10. QED
  BY <1>2, <1>4, <1>5, <1>7, <1>8, <1>9, MovesInside DEF Frames, Progress

LEMMA MergeScopeAloneKeeps ==
  ASSUME CallsInv, NEW c \in Conns, MergeScopeAlone(c)
  PROVE  CallsInv'
<1>1. txn = NoConn /\ txn' = NoConn /\ draft' = Empty
      /\ call' = [call EXCEPT ![c] = Idle]
  BY DEF MergeScopeAlone, Returns, Becomes, CallsInv
<1>2. QED
  BY <1>1, EndsCall

LEMMA MergeBeliefKeeps ==
  ASSUME CallsInv, NEW c \in Conns, MergeBelief(c)
  PROVE  CallsInv'
<1>1. PICK f : f = call[c]
  OBVIOUS
<1>2. f.at = "belief" /\ UNCHANGED <<store, lastId, txn>>
  BY <1>1 DEF MergeBelief, At, vars
<1>3. /\ f \in WriteFrames /\ f.kind # "edge" /\ WriteProgress(f)
      /\ txn = c /\ draft \in Drafts
  BY <1>1, <1>2, Writing
<1>4. /\ f.kind = "append" /\ f.ends # "vacuous" /\ draft.beliefs = {}
      /\ draft.states = {} /\ f.id = 0
  BY <1>2, <1>3 DEF WriteProgress, PriorProgress, BeliefProgress, StateProgress
<1>5. /\ draft' \in Drafts /\ draft'.beliefs = {f.belief}
      /\ draft'.scopes = draft.scopes /\ draft'.states = {}
      /\ draft'.hub = {} /\ draft'.spine = {} /\ draft'.edges = {}
  BY <1>1, <1>2, <1>3, <1>4 DEF MergeBelief, Drafts, WriteFrames,
     WriteProgress, HubProgress, SpineProgress
<1>6. PICK g : g = [f EXCEPT !.at = "prior"]
  OBVIOUS
<1>7. call' = [call EXCEPT ![c] = g]
  BY <1>1, <1>6 DEF MergeBelief, Goto, Becomes
<1>8. /\ g \in WriteFrames /\ Begun(g) /\ g.at = "prior"
      /\ g.kind = f.kind /\ g.scope = f.scope /\ g.belief = f.belief
      /\ g.payload = f.payload /\ g.status = f.status /\ g.id = f.id
      /\ g.ends = f.ends
  BY <1>3, <1>6 DEF WriteFrames, Begun
<1>9. WriteProgress(g)'
  BY <1>2, <1>3, <1>4, <1>5, <1>8
     DEF WriteProgress, ScopeProgress, BeliefProgress, PriorProgress,
         StateProgress, HubProgress, SpineProgress, store
<1>10. QED
  BY <1>2, <1>3, <1>5, <1>7, <1>8, <1>9, MovesInside DEF Frames, Progress

LEMMA FindPriorKeeps ==
  ASSUME TypeOK, CallsInv, NEW c \in Conns, FindPrior(c)
  PROVE  CallsInv'
<1>1. PICK f : f = call[c]
  OBVIOUS
<1>2. f.at = "prior" /\ UNCHANGED <<store, lastId, txn, draft>>
  BY <1>1 DEF FindPrior, At, vars
<1>3. /\ f \in WriteFrames /\ f.kind # "edge" /\ WriteProgress(f)
      /\ txn = c /\ draft \in Drafts
  BY <1>1, <1>2, Writing
<1>4. /\ f.kind = "append" /\ f.ends # "vacuous"
      /\ draft.states = {} /\ f.id = 0
  BY <1>2, <1>3 DEF WriteProgress, PriorProgress, StateProgress
<1>5. \A s, b : Current(s, b)' = Current(s, b)
  BY <1>2, ReadsStay DEF store
<1>6. PICK prior : prior = Current(f.scope, f.belief)
  OBVIOUS
<1>7. PICK g : g = [f EXCEPT !.at = "state", !.prior = prior]
  OBVIOUS
<1>8. call' = [call EXCEPT ![c] = g]
  <2>1. View!Current(call[c].scope, call[c].belief) = prior
    BY <1>1, <1>4, <1>6, ViewIsCommitted
  <2>2. QED
    BY <1>1, <1>7, <2>1 DEF FindPrior, Becomes
<1>9. prior \in SUBSET BeliefState
  BY <1>6, CurrentStates DEF TypeOK
<1>10. /\ g \in WriteFrames /\ Begun(g) /\ g.at = "state"
       /\ g.kind = f.kind /\ g.scope = f.scope /\ g.belief = f.belief
       /\ g.payload = f.payload /\ g.status = f.status /\ g.id = f.id
       /\ g.ends = f.ends /\ g.prior = prior
  BY <1>3, <1>7, <1>9 DEF WriteFrames, Begun
<1>11. WriteProgress(g)'
  BY <1>2, <1>3, <1>4, <1>5, <1>6, <1>10
     DEF WriteProgress, ScopeProgress, BeliefProgress, PriorProgress,
         StateProgress, HubProgress, SpineProgress, store
<1>12. QED
  BY <1>2, <1>3, <1>8, <1>10, <1>11, MovesInside DEF Frames, Progress

LEMMA MergeStateKeeps ==
  ASSUME TypeOK, CallsInv, NEW c \in Conns, MergeState(c)
  PROVE  CallsInv'
<1>1. PICK f : f = call[c]
  OBVIOUS
<1>2. f.at = "state" /\ UNCHANGED <<store, lastId, txn>>
  BY <1>1 DEF MergeState, At, vars
<1>3. /\ f \in WriteFrames /\ f.kind # "edge" /\ WriteProgress(f)
      /\ txn = c /\ draft \in Drafts
  BY <1>1, <1>2, Writing
<1>4. f.ends # "vacuous" /\ draft.states = {} /\ f.payload \in Payloads
  <2>1. f.ends # "vacuous" /\ draft.states = {}
    BY <1>2, <1>3 DEF WriteProgress, PriorProgress, StateProgress
  <2>2. \A x \in Current(f.scope, f.belief) : x.payload \in Payloads
    BY CurrentStates DEF TypeOK, BeliefState
  <2>3. QED
    BY <1>2, <1>3, <2>1, <2>2 DEF WriteProgress, PriorProgress
<1>5. \A s, b : Current(s, b)' = Current(s, b)
  BY <1>2, ReadsStay DEF store
<1>6. Mintable' = Mintable
  BY <1>2, ReadsStay DEF store
<1>7. PICK id \in Mintable :
        /\ draft' = [draft EXCEPT !.states = @ \cup
             {[id |-> id, scope |-> f.scope, belief |-> f.belief,
               event |-> f.event, payload |-> f.payload,
               status |-> f.status]}]
        /\ call' = [call EXCEPT ![c] = [f EXCEPT !.at = "hub", !.id = id]]
  BY <1>1 DEF MergeState, Becomes
<1>8. PICK g : g = [f EXCEPT !.at = "hub", !.id = id]
  OBVIOUS
<1>9. /\ g \in WriteFrames /\ Begun(g) /\ g.at = "hub"
      /\ g.kind = f.kind /\ g.scope = f.scope /\ g.belief = f.belief
      /\ g.payload = f.payload /\ g.status = f.status /\ g.id = id
      /\ g.ends = f.ends /\ g.prior = f.prior /\ g.event = f.event
  BY <1>3, <1>8, MintableIds DEF WriteFrames, Begun
<1>10. Minting(g) \in BeliefState
  BY <1>3, <1>4, <1>9, MintableIds DEF Minting, WriteFrames, BeliefState
<1>11. draft'.states = {Minting(g)}
  BY <1>3, <1>4, <1>7, <1>9 DEF Minting, Drafts
<1>12. /\ draft' \in Drafts /\ draft'.scopes = draft.scopes
       /\ draft'.beliefs = draft.beliefs /\ draft'.hub = draft.hub
       /\ draft'.spine = draft.spine /\ draft'.edges = draft.edges
  BY <1>3, <1>7, <1>10, <1>11 DEF Drafts
<1>13. WriteProgress(g)'
  BY <1>2, <1>3, <1>4, <1>5, <1>6, <1>9, <1>11, <1>12
     DEF WriteProgress, ScopeProgress, BeliefProgress, PriorProgress,
         StateProgress, HubProgress, SpineProgress, Minting, store
<1>14. QED
  BY <1>2, <1>3, <1>7, <1>8, <1>9, <1>12, <1>13, MovesInside
     DEF Frames, Progress

LEMMA MergeHubKeeps ==
  ASSUME IInv, CallsInv, NEW c \in Conns, MergeHub(c)
  PROVE  CallsInv'
<1>1. PICK f : f = call[c]
  OBVIOUS
<1>2. f.at = "hub" /\ UNCHANGED <<store, lastId, txn>>
  BY <1>1 DEF MergeHub, At, vars
<1>3. /\ f \in WriteFrames /\ f.kind # "edge" /\ WriteProgress(f)
      /\ txn = c /\ draft \in Drafts
  BY <1>1, <1>2, Writing
<1>4. /\ f.ends # "vacuous" /\ draft.hub = {} /\ f.id \in StateIds
      /\ draft.states = {Minting(f)}
  BY <1>2, <1>3, MintableIds
     DEF WriteProgress, PriorProgress, StateProgress, HubProgress
<1>5. f.belief \in FoundBeliefs /\ f.id \in FoundIds
  <2>1. f.belief \in FoundBeliefs
    <3>1. CASE f.kind = "append"
      BY <1>2, <1>3, <3>1 DEF WriteProgress, BeliefProgress, FoundBeliefs
    <3>2. CASE f.kind = "contract"
      <4>1. PICK x : x \in Current(f.scope, f.belief)
        BY <1>2, <1>3, <1>4, <3>2 DEF WriteProgress, PriorProgress
      <4>2. x \in states /\ x.belief = f.belief
        BY <4>1, CurrentStates
      <4>3. QED
        BY <4>2 DEF FoundBeliefs, IInv, Anchored
    <3>3. QED
      BY <1>3, <3>1, <3>2 DEF WriteFrames
  <2>2. Minting(f).id = f.id
    BY DEF Minting
  <2>3. f.id \in FoundIds
    BY <1>4, <2>2 DEF FoundIds, View!Ids
  <2>4. QED
    BY <2>1, <2>3
<1>6. /\ \A s, b : Current(s, b)' = Current(s, b)
      /\ Mintable' = Mintable
  BY <1>2, ReadsStay DEF store
<1>7. PICK h : h = <<f.belief, f.id>>
  OBVIOUS
<1>8. {k \in {h} : k[1] \in FoundBeliefs /\ k[2] \in FoundIds} = {h}
  BY <1>5, <1>7
<1>9. draft' = [draft EXCEPT !.hub = @ \cup {h}]
  BY <1>1, <1>7, <1>8 DEF MergeHub
<1>10. h \in Beliefs \X StateIds
  BY <1>3, <1>4, <1>7 DEF WriteFrames
<1>11. /\ draft' \in Drafts /\ draft'.hub = {h}
       /\ draft'.scopes = draft.scopes /\ draft'.beliefs = draft.beliefs
       /\ draft'.states = draft.states /\ draft'.spine = draft.spine
       /\ draft'.edges = draft.edges
  BY <1>3, <1>4, <1>9, <1>10 DEF Drafts
<1>12. PICK g : g = [f EXCEPT !.at = "spine"]
  OBVIOUS
<1>13. call' = [call EXCEPT ![c] = g]
  BY <1>1, <1>12 DEF MergeHub, Goto, Becomes
<1>14. /\ g \in WriteFrames /\ Begun(g) /\ g.at = "spine"
       /\ g.kind = f.kind /\ g.scope = f.scope /\ g.belief = f.belief
       /\ g.payload = f.payload /\ g.status = f.status /\ g.id = f.id
       /\ g.ends = f.ends /\ g.prior = f.prior /\ g.event = f.event
  BY <1>3, <1>12 DEF WriteFrames, Begun
<1>15. WriteProgress(g)'
  BY <1>2, <1>3, <1>4, <1>6, <1>7, <1>11, <1>14
     DEF WriteProgress, ScopeProgress, BeliefProgress, PriorProgress,
         StateProgress, HubProgress, SpineProgress, Minting, store
<1>16. QED
  BY <1>2, <1>3, <1>11, <1>13, <1>14, <1>15, MovesInside DEF Frames, Progress

LEMMA MergeSpineKeeps ==
  ASSUME TypeOK, CallsInv, NEW c \in Conns, MergeSpine(c)
  PROVE  CallsInv'
<1>1. PICK f : f = call[c]
  OBVIOUS
<1>2. f.at = "spine" /\ UNCHANGED <<store, lastId, txn>>
  BY <1>1 DEF MergeSpine, At, vars
<1>3. /\ f \in WriteFrames /\ f.kind # "edge" /\ WriteProgress(f)
      /\ txn = c /\ draft \in Drafts
  BY <1>1, <1>2, Writing
<1>4. /\ f.ends # "vacuous" /\ draft.spine = {} /\ f.id \in StateIds
      /\ draft.states = {Minting(f)}
  BY <1>2, <1>3, MintableIds
     DEF WriteProgress, PriorProgress, StateProgress, SpineProgress
<1>5. \A x \in f.prior : x \in states
  BY <1>2, <1>3, CurrentStates DEF WriteProgress, PriorProgress
<1>6. /\ \A s, b : Current(s, b)' = Current(s, b)
      /\ Mintable' = Mintable
  BY <1>2, ReadsStay DEF store
<1>7. PICK links : links = {<<f.id, x.id>> : x \in f.prior}
  OBVIOUS
<1>8. {n \in links : n[1] \in FoundIds /\ n[2] \in FoundIds} = links
  <2>1. Minting(f).id = f.id
    BY DEF Minting
  <2>2. f.id \in FoundIds /\ \A x \in f.prior : x.id \in FoundIds
    BY <1>4, <1>5, <2>1 DEF FoundIds, View!Ids
  <2>3. QED
    BY <1>7, <2>2
<1>9. draft' = [draft EXCEPT !.spine = @ \cup links]
  BY <1>1, <1>7, <1>8 DEF MergeSpine
<1>10. links \in SUBSET (StateIds \X StateIds)
  BY <1>4, <1>5, <1>7 DEF TypeOK, BeliefState
<1>11. /\ draft' \in Drafts /\ draft'.spine = links
       /\ draft'.scopes = draft.scopes /\ draft'.beliefs = draft.beliefs
       /\ draft'.states = draft.states /\ draft'.hub = draft.hub
       /\ draft'.edges = draft.edges
  BY <1>3, <1>4, <1>9, <1>10 DEF Drafts
<1>12. PICK g : g = [f EXCEPT !.at = "commit"]
  OBVIOUS
<1>13. call' = [call EXCEPT ![c] = g]
  BY <1>1, <1>12 DEF MergeSpine, Goto, Becomes
<1>14. /\ g \in WriteFrames /\ Begun(g) /\ g.at = "commit"
       /\ g.kind = f.kind /\ g.scope = f.scope /\ g.belief = f.belief
       /\ g.payload = f.payload /\ g.status = f.status /\ g.id = f.id
       /\ g.ends = f.ends /\ g.prior = f.prior /\ g.event = f.event
  BY <1>3, <1>12 DEF WriteFrames, Begun
<1>15. WriteProgress(g)'
  BY <1>2, <1>3, <1>4, <1>6, <1>7, <1>11, <1>14
     DEF WriteProgress, ScopeProgress, BeliefProgress, PriorProgress,
         StateProgress, HubProgress, SpineProgress, Minting, store
<1>16. QED
  BY <1>2, <1>3, <1>11, <1>13, <1>14, <1>15, MovesInside DEF Frames, Progress

LEMMA MergeEdgeKeeps ==
  ASSUME CallsInv, NEW c \in Conns, MergeEdge(c)
  PROVE  CallsInv'
<1>1. PICK f : f = call[c]
  OBVIOUS
<1>2. f.at = "edge" /\ UNCHANGED <<store, lastId, txn>>
  BY <1>1 DEF MergeEdge, At, vars
<1>3. f \in EdgeFrames /\ f.kind = "edge"
  BY <1>1, <1>2, Focus DEF Frames, WriteFrames, ScopeFrames, EdgeFrames, Idle
<1>4. txn = c /\ draft \in Drafts /\ EdgeProgress(f)
  BY <1>1, <1>2, <1>3, InTransaction DEF Begun, EdgeFrames, WriteFrames
<1>5. draft.states = {} /\ draft.edges = {}
  BY <1>2, <1>4 DEF EdgeProgress
<1>6. FoundIds = Ids /\ Ids' = Ids
  BY <1>2, <1>5 DEF FoundIds, View!Ids, Ids, store
<1>7. PICK links : links = {n \in {<<f.type, f.from, f.to>>} :
                              {n[2], n[3]} \subseteq Ids}
  OBVIOUS
<1>8. draft' = [draft EXCEPT !.edges = @ \cup links]
  BY <1>1, <1>6, <1>7 DEF MergeEdge
<1>9. links \in SUBSET (EdgeTypes \X StateIds \X StateIds)
  BY <1>3, <1>7 DEF EdgeFrames
<1>10. /\ draft' \in Drafts /\ draft'.edges = links
       /\ draft'.scopes = draft.scopes /\ draft'.beliefs = draft.beliefs
       /\ draft'.states = draft.states /\ draft'.hub = draft.hub
       /\ draft'.spine = draft.spine
  BY <1>4, <1>5, <1>8, <1>9 DEF Drafts
<1>11. PICK g : g = [f EXCEPT !.at = "commit"]
  OBVIOUS
<1>12. call' = [call EXCEPT ![c] = g]
  BY <1>1, <1>11 DEF MergeEdge, Goto, Becomes
<1>13. /\ g \in EdgeFrames /\ Begun(g) /\ g.at = "commit" /\ g.kind = "edge"
       /\ g.type = f.type /\ g.from = f.from /\ g.to = f.to
  BY <1>3, <1>11 DEF EdgeFrames, Begun
<1>14. EdgeProgress(g)'
  BY <1>4, <1>6, <1>7, <1>10, <1>13 DEF EdgeProgress
<1>15. QED
  BY <1>2, <1>4, <1>10, <1>12, <1>13, <1>14, MovesInside DEF Frames, Progress

\* A frame that has come to its COMMIT.
LEMMA Committing ==
  ASSUME CallsInv, NEW c \in Conns, NEW f, f = call[c], f.at = "commit"
  PROVE  /\ txn = c /\ draft \in Drafts
         /\ \/ f \in WriteFrames /\ f.kind # "edge" /\ WriteProgress(f)
            \/ f \in EdgeFrames /\ f.kind = "edge" /\ EdgeProgress(f)
<1>1. f \in WriteFrames \cup EdgeFrames
  BY Focus DEF Frames, ScopeFrames, Idle
<1>2. Begun(f)
  BY <1>1 DEF Begun, WriteFrames, EdgeFrames
<1>3. QED
  BY <1>2, InTransaction

LEMMA CommitKeeps ==
  ASSUME CallsInv, NEW c \in Conns, Commit(c)
  PROVE  CallsInv'
<1>1. txn = c
  BY Committing DEF Commit, At
<1>2. QED
  BY <1>1, EndsCall DEF Commit, Returns, Becomes

LEMMA FailsKeeps ==
  ASSUME CallsInv, NEW c \in Conns, Fails(c)
  PROVE  CallsInv'
<1>1. CASE txn = c
  BY <1>1, EndsCall DEF Fails, Returns, Becomes
<1>2. CASE txn # c
  <2>1. call[c] # Idle /\ call[c].id = 0
    BY <1>2, Focus DEF Fails, Waiting
  <2>2. UNCHANGED <<store, lastId, txn, draft>>
    BY <1>2, <2>1 DEF Fails, Minted
  <2>3. QED
    BY <1>2, <2>2, IdleWaits, MovesOutside DEF Fails, Returns, Becomes
<1>3. QED
  BY <1>1, <1>2

LEMMA CrashKeeps ==
  ASSUME CallsInv, Crash
  PROVE  CallsInv'
<1>1. Empty \in Drafts
  BY DEF Empty, Drafts
<1>2. CallsTypeOK'
  BY <1>1, IdleWaits DEF Crash, CallsTypeOK, Frames
<1>3. QED
  BY <1>2, IdleWaits, LadybugCallsAssumption
     DEF Crash, CallsInv, Begun, Waiting

LEMMA InitKeeps == CallsInit => CallsInv
<1> SUFFICES ASSUME CallsInit PROVE CallsInv
  OBVIOUS
<1>1. Empty \in Drafts
  BY DEF Empty, Drafts
<1>2. CallsTypeOK
  BY <1>1, IdleWaits DEF CallsInit, CallsTypeOK, Frames
<1>3. QED
  BY <1>2, IdleWaits, LadybugCallsAssumption DEF CallsInit, CallsInv

LEMMA StutterKeeps ==
  ASSUME CallsInv, UNCHANGED allVars
  PROVE  CallsInv'
<1>1. UNCHANGED <<store, lastId, txn, draft, call>>
  BY DEF allVars, vars, db
<1>2. ASSUME NEW c \in Conns, NEW f, f = call[c]
      PROVE  /\ txn = c => Begun(f) /\ Progress(f)'
             /\ txn # c => ~ Begun(f) /\ Waiting(f)
  BY <1>1, <1>2, ProgressStays DEF CallsInv
<1>3. QED
  BY <1>1, <1>2 DEF CallsInv, CallsTypeOK, Begun, Waiting

LEMMA CallsStepKeeps ==
  ASSUME IInv, CallsInv, [CallsNext]_allVars
  PROVE  CallsInv'
<1>1. TypeOK
  BY DEF IInv
<1>2. ASSUME NEW c \in Conns, Statement(c)
      PROVE  CallsInv'
  BY <1>1, <1>2, BeginKeeps, ProbeKeeps, MatchScopeKeeps, MergeScopeKeeps,
     MergeScopeAloneKeeps, MergeBeliefKeeps, FindPriorKeeps, MergeStateKeeps,
     MergeHubKeeps, MergeSpineKeeps, MergeEdgeKeeps, CommitKeeps
     DEF Statement
<1>3. ASSUME NEW c \in Conns, Fails(c)
      PROVE  CallsInv'
  BY <1>3, FailsKeeps
<1>4. ASSUME NEW c \in Conns, NEW s \in Scopes,
             \/ \E b \in Beliefs, p \in Payloads, e \in Events :
                  CallAppend(c, s, b, p, e)
             \/ \E b \in Beliefs, e \in Events : CallContract(c, s, b, e)
             \/ CallGetOrCreateScope(c, s)
      PROVE  CallsInv'
  BY <1>4, CallsWait
<1>5. QED
  BY <1>2, <1>3, <1>4, CrashKeeps, StutterKeeps, EdgeCallWaits DEF CallsNext

-----------------------------------------------------------------------------
(* Every statement is a step of the engine, or none.                        *)

\* The only statements that change what MemoryCore sees.
LEMMA CommitRefines ==
  ASSUME IInv, CallsInv, NEW c \in Conns, Commit(c)
  PROVE  Next
<1>1. PICK f : f = call[c]
  OBVIOUS
<1>2. /\ f.at = "commit" /\ draft \in Drafts
      /\ \/ f \in WriteFrames /\ f.kind # "edge" /\ WriteProgress(f)
         \/ f \in EdgeFrames /\ f.kind = "edge" /\ EdgeProgress(f)
  BY <1>1, Committing DEF Commit, At
<1>3. /\ scopes' = scopes \cup draft.scopes
      /\ beliefs' = beliefs \cup draft.beliefs
      /\ states' = states \cup draft.states
      /\ hasRevision' = hasRevision \cup draft.hub
      /\ supersedes' = supersedes \cup draft.spine
      /\ edges' = edges \cup draft.edges
      /\ lastId' = IF f.id = 0 THEN lastId ELSE f.id
      /\ outcome' = f.ends
      /\ restarts' = restarts
  BY <1>1 DEF Commit, Minted
<1>4. CASE f.kind = "edge"
  <2>1. AddEdge(f.from, f.to, f.type)
    BY <1>2, <1>3, <1>4 DEF EdgeFrames, EdgeProgress, AddEdge
  <2>2. QED
    BY <1>2, <1>4, <2>1 DEF EdgeFrames, Next
<1>5. CASE f.kind # "edge" /\ f.ends = "vacuous"
  <2>1. /\ f.scope # World /\ Current(f.scope, f.belief) = {} /\ f.id = 0
        /\ f.kind = "contract"
        /\ draft.scopes = {} /\ draft.states = {} /\ draft.hub = {}
        /\ draft.beliefs = {} /\ draft.spine = {} /\ draft.edges = {}
    BY <1>2, <1>5 DEF WriteProgress, ScopeProgress, BeliefProgress,
       PriorProgress, StateProgress, HubProgress, SpineProgress
  <2>2. ContractVacuous(f.scope, f.belief)
    BY <1>3, <1>5, <2>1 DEF ContractVacuous, store
  <2>3. QED
    BY <1>2, <1>5, <2>2 DEF WriteFrames, Contract, Next
<1>6. CASE f.kind # "edge" /\ f.ends # "vacuous"
  <2>1. /\ f \in WriteFrames /\ f.id \in Mintable
        /\ draft.states = {Minting(f)} /\ draft.hub = {<<f.belief, f.id>>}
        /\ draft.spine = {<<f.id, x.id>> : x \in f.prior}
        /\ draft.edges = {} /\ draft.scopes \subseteq {f.scope}
        /\ f.scope \in scopes \cup draft.scopes
    BY <1>2, <1>6 DEF WriteProgress, ScopeProgress, StateProgress,
       HubProgress, SpineProgress
  <2>2. f.id # 0
    BY <2>1, MintableIds, MemoryCoreAssumption
  <2>3. /\ scopes' = scopes \cup {f.scope} /\ edges' = edges
        /\ lastId' = f.id /\ outcome' = f.ends /\ restarts' = restarts
    BY <1>3, <2>1, <2>2
  <2>4. AppendState(f.scope, f.belief, f.payload, f.event, f.status, f.prior)
    BY <1>3, <2>1, <2>3 DEF AppendState, Minting
  <2>5. CASE f.kind = "append"
    <3>1. /\ f.payload \in Payloads /\ f.status = "active"
          /\ f.ends = "appended" /\ f.prior = Current(f.scope, f.belief)
          /\ draft.beliefs = {f.belief}
      BY <1>2, <1>6, <2>5 DEF WriteProgress, PriorProgress, BeliefProgress
    <3>2. Append(f.scope, f.belief, f.payload, f.event)
      BY <1>3, <2>3, <2>4, <3>1 DEF Append, EnsureScope
    <3>3. QED
      BY <2>1, <3>1, <3>2 DEF WriteFrames, Next, Revise
  <2>6. CASE f.kind = "contract"
    <3>1. /\ f.status = "retracted" /\ f.ends = "retracted"
          /\ f.scope # World /\ draft.beliefs = {}
      BY <1>2, <1>6, <2>6 DEF WriteProgress, PriorProgress, BeliefProgress
    <3>2. PICK x \in Current(f.scope, f.belief) :
            f.prior = {x} /\ f.payload = x.payload
      BY <1>2, <1>6, <2>6 DEF WriteProgress, PriorProgress
    <3>3. ContractActing(f.scope, f.belief, f.event)
      BY <1>3, <2>3, <2>4, <3>1, <3>2 DEF ContractActing, EnsureScope
    <3>4. QED
      BY <2>1, <3>3 DEF WriteFrames, Contract, Next
  <2>7. QED
    BY <2>1, <2>5, <2>6 DEF WriteFrames
<1>7. QED
  BY <1>4, <1>5, <1>6

LEMMA FailsRefines ==
  ASSUME CallsInv, NEW c \in Conns, Fails(c)
  PROVE  CallFails
<1>1. PICK f : f = call[c]
  OBVIOUS
<1>2. f.id = 0 \/ f.id \in Mintable
  <2>1. CASE txn # c
    BY <1>1, <2>1, Focus DEF Fails, Waiting
  <2>2. CASE txn = c
    BY <1>1, <2>2, Focus, InTransaction
       DEF WriteProgress, StateProgress, EdgeFrames
  <2>3. QED
    BY <2>1, <2>2
<1>3. QED
  BY <1>1, <1>2 DEF Fails, Minted, CallFails

\* A get_or_create_scope that found the scope left what one that merges it
\* again would.
LEMMA MatchScopeRefines ==
  ASSUME CallsInv, NEW c \in Conns, MatchScope(c)
  PROVE  Next \/ UNCHANGED vars
<1>1. PICK f : f = call[c]
  OBVIOUS
<1>2. f.at = "match" /\ UNCHANGED <<store, lastId, restarts>>
  BY <1>1 DEF MatchScope, At
<1>3. CASE f.kind = "scope" /\ f.scope \in FoundScopes(c)
  <2>1. f \in ScopeFrames /\ txn # c
    BY <1>1, <1>2, <1>3, Focus
       DEF Begun, Frames, WriteFrames, EdgeFrames, Idle
  <2>2. f.scope \in scopes /\ f.scope \in Scopes
    BY <1>3, <2>1 DEF FoundScopes, ScopeFrames
  <2>3. outcome' = "scope"
    BY <1>1, <1>3 DEF MatchScope
  <2>4. GetOrCreateScope(f.scope)
    BY <1>2, <2>2, <2>3 DEF GetOrCreateScope, EnsureScope, store
  <2>5. QED
    BY <2>2, <2>4 DEF Next
<1>4. CASE ~ (f.kind = "scope" /\ f.scope \in FoundScopes(c))
  BY <1>1, <1>2, <1>4 DEF MatchScope, vars
<1>5. QED
  BY <1>3, <1>4

LEMMA MergeScopeAloneRefines ==
  ASSUME CallsInv, NEW c \in Conns, MergeScopeAlone(c)
  PROVE  Next
<1>1. PICK f : f = call[c]
  OBVIOUS
<1>2. f.at = "merge" /\ f.kind = "scope" /\ GetOrCreateScope(f.scope)
  BY <1>1 DEF MergeScopeAlone, At
<1>3. f.scope \in Scopes
  BY <1>1, <1>2, Focus DEF Frames, WriteFrames, ScopeFrames, EdgeFrames, Idle
<1>4. QED
  BY <1>2, <1>3 DEF Next

LEMMA CallsStepRefines ==
  ASSUME IInv, CallsInv, [CallsNext]_allVars
  PROVE  [Next]_vars
<1>1. ASSUME NEW c \in Conns, Statement(c)
      PROVE  [Next]_vars
  <2>1. CASE MatchScope(c) \/ MergeScopeAlone(c) \/ Commit(c)
    BY <2>1, MatchScopeRefines, MergeScopeAloneRefines, CommitRefines
  <2>2. CASE \/ BeginTransaction(c) \/ Probe(c) \/ MergeScope(c)
             \/ MergeBelief(c) \/ FindPrior(c) \/ MergeState(c)
             \/ MergeHub(c) \/ MergeSpine(c) \/ MergeEdge(c)
    BY <2>2 DEF BeginTransaction, Probe, MergeScope, MergeBelief, FindPrior,
       MergeState, MergeHub, MergeSpine, MergeEdge
  <2>3. QED
    BY <1>1, <2>1, <2>2 DEF Statement
<1>2. ASSUME NEW c \in Conns, Fails(c)
      PROVE  [Next]_vars
  BY <1>2, FailsRefines DEF Next
<1>3. ASSUME NEW c \in Conns, NEW s \in Scopes, NEW b \in Beliefs,
             NEW e \in Events, CallContract(c, s, b, e)
      PROVE  [Next]_vars
  BY <1>3 DEF CallContract, Contract, Next
<1>4. ASSUME Crash
      PROVE  [Next]_vars
  BY <1>4 DEF Crash, Next
<1>5. CASE UNCHANGED allVars
  BY <1>5 DEF allVars
<1>6. QED
  BY <1>1, <1>2, <1>3, <1>4, <1>5
     DEF CallsNext, CallAppend, CallGetOrCreateScope, CallAddEdge

-----------------------------------------------------------------------------
\* The store's invariant and the calls' hold of every state of the database.
THEOREM CallsInvariance == CallsSpec => [](IInv /\ CallsInv)
<1>1. CallsInit => IInv /\ CallsInv
  BY InitIInv, InitKeeps DEF CallsInit
<1>2. IInv /\ CallsInv /\ [CallsNext]_allVars => (IInv /\ CallsInv)'
  BY CallsStepRefines, CallsStepKeeps, StepKeepsIInv
<1>3. QED
  BY <1>1, <1>2, PTL DEF CallsSpec

\* The engine on LadybugBackend is atomic: over any number of connections,
\* with any interleaving of their statements, any failures and any restarts,
\* each call takes effect at once on the store as committed, or not at all.
THEOREM EngineOnLadybug == CallsSpec => EngineSpec
<1>1. CallsInit => Init
  BY DEF CallsInit
<1>2. IInv /\ CallsInv /\ [CallsNext]_allVars => [Next]_vars
  BY CallsStepRefines
<1>3. QED
  BY <1>1, <1>2, CallsInvariance, PTL DEF CallsSpec, EngineSpec, Spec

\* What the engine promises its store, the database keeps.
THEOREM DatabaseAnchored == CallsSpec => []Anchored
BY EngineOnLadybug, AlwaysAnchored DEF EngineSpec

\* A write that is not late takes effect when it commits, whichever connection
\* made it.
THEOREM LatestCommitWins == CallsSpec => InOrderWriteWins
BY EngineOnLadybug, LatestWriteWins DEF EngineSpec

\* Over any number of connections the committed states behave as a table with
\* one stored current state per scope and belief.
THEOREM DatabaseIsATable == CallsSpec => BeliefBaseSpec
BY EngineOnLadybug, ImplementsBeliefBase DEF EngineSpec
=============================================================================
