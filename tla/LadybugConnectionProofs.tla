---------------------- MODULE LadybugConnectionProofs ----------------------
(***************************************************************************)
(* Proofs about LadybugConnection, for any number of backends, namespaces, *)
(* tables, caps and depths.                                                *)
(***************************************************************************)
EXTENDS LadybugConnection, TLAPS

Setup == {"database", "connection", "init", "ddl"}

\* No statement is made from a namespace that did not pass.
NamespaceInv == call.at = "ddl" => call.ns \in Valid

\* The call has opened this handle of b and still answers for it.
Answers(kind, b) ==
  /\ call # Idle /\ call.b = b /\ call.owned
  /\ call.at \in {"init", "ddl", "close_conn", "close_db"}
                  \cup (IF kind = "db" THEN {"connection"} ELSE {})
  /\ kind = "conn" => call.at # "close_db"

\* A handle no one has tried to close is a backend's in use or the call's.
HandleInv ==
  /\ call # Idle =>
       /\ call.at \in {"database", "connection", "close_conn", "close_db"}
            => call.owned
       /\ call.at \in Setup => call.b \notin DOMAIN live
  /\ \A h \in handles \ tried : h[2] \in Backends =>
       \/ h[2] \in DOMAIN live /\ live[h[2]].owned /\ ~ live[h[2]].closed
       \/ Answers(h[1], h[2])

\* The cap is as given, or the walk of the call will put it back.
CapInv ==
  /\ \A c \in Conns \ doubtful :
       \/ cap[c] = given[c]
       \/ call # Idle /\ call.at \in {"lifted_walk", "restore"} /\ c = conn
  /\ (call # Idle /\ call.at \in {"lift", "walk"} /\ conn \notin doubtful) =>
       call.prior = cap[conn]
  /\ (call # Idle /\ call.at = "walk") => call.bound <= call.prior
  /\ (call # Idle /\ call.at = "lifted_walk") => call.bound = cap[conn]
  /\ (call # Idle /\ call.at \in {"lifted_walk", "restore"}
        /\ conn \notin doubtful) => call.prior = given[conn]

\* The first n tables of b's namespace are there: in the database, or in the
\* open transaction if b was set up inside it.
Made(b, own, ns, n) ==
  \A i \in 1 .. n :
    <<IF own THEN b ELSE Host, ns, Tables[i]>>
      \in tables \cup (IF b \in inside THEN drafts ELSE {})

SchemaInv ==
  /\ ~ inTxn => drafts = {} /\ inside = {}
  /\ \A b \in DOMAIN live \ undone :
       Made(b, live[b].owned, live[b].ns, Len(Tables))
  /\ call # Idle =>
       /\ call.at = "ddl" => Made(call.b, call.owned, call.ns, call.ddl)
       /\ call.at \in {"database", "connection", "init"} => call.ddl = 0

ConnectionInv ==
  /\ TypeOK /\ NamespaceInv /\ HandleInv /\ TenantKeepsConnection
  /\ CapInv /\ SchemaInv

-----------------------------------------------------------------------------
LEMMA ConnIsConn ==
  ASSUME call \in Calls
  PROVE  conn \in Conns
  BY DEF conn, Calls, Conns

LEMMA IdleIsNoCall == Idle \notin Calls /\ Idle.at = "idle"
  BY DEF Idle, Calls, Steps

\* What a call's frame is after one more step of it.
LEMMA GotoFrame ==
  ASSUME call \in Calls, NEW s \in Steps, Goto(s)
  PROVE  /\ call' \in Calls /\ call' # Idle /\ call'.at = s
         /\ call'.b = call.b /\ call'.owned = call.owned
         /\ call'.ns = call.ns /\ call'.bound = call.bound
         /\ call'.prior = call.prior /\ call'.ddl = call.ddl
         /\ conn' = conn
<1>1. /\ call' \in Calls /\ call'.at = s
      /\ call'.b = call.b /\ call'.owned = call.owned
      /\ call'.ns = call.ns /\ call'.bound = call.bound
      /\ call'.prior = call.prior /\ call'.ddl = call.ddl
  BY DEF Goto, Calls
<1>2. QED
  BY <1>1, IdleIsNoCall DEF conn

LEMMA NewFrame ==
  ASSUME NEW s \in Steps, NEW b \in Backends, NEW own \in BOOLEAN,
         NEW n \in Namespaces, NEW d \in Nat, call' = Frame(s, b, own, n, d)
  PROVE  /\ call' \in Calls /\ call' # Idle /\ call'.at = s
         /\ call'.b = b /\ call'.owned = own /\ call'.ns = n
         /\ call'.bound = d /\ call'.prior = 0 /\ call'.ddl = 0
<1>1. call' \in Calls
  BY DEF Frame, Calls
<1>2. QED
  BY <1>1, IdleIsNoCall DEF Frame

\* A step of a call in progress is of a call.
LEMMA StepIsCalls ==
  ASSUME TypeOK, call.at \in Steps
  PROVE  call \in Calls /\ call # Idle
  BY IdleIsNoCall DEF TypeOK, Idle, Steps

-----------------------------------------------------------------------------
(* Every variable keeps its type.                                           *)

OpenType == handles \subseteq Handles /\ tried \subseteq Handles
SchemaType == /\ tables \cup drafts \subseteq Conns \X Namespaces \X TableNames
              /\ inTxn \in BOOLEAN
              /\ inside \subseteq Backends /\ undone \subseteq Backends
CapsType == /\ cap \in [Conns -> Nat] /\ given \in [Conns -> Nat]
            /\ doubtful \subseteq Conns
LiveType == /\ DOMAIN live \subseteq Backends
            /\ \A b \in DOMAIN live :
                 live[b] \in [owned : BOOLEAN, ns : Valid, closed : BOOLEAN]
CallType == call \in Calls \cup {Idle}

LEMMA TypeIsParts ==
  /\ TypeOK <=> OpenType /\ SchemaType /\ CapsType /\ LiveType /\ CallType
  /\ TypeOK' <=>
       OpenType' /\ SchemaType' /\ CapsType' /\ LiveType' /\ CallType'
  BY DEF TypeOK, OpenType, SchemaType, CapsType, LiveType, CallType

LEMMA LostKeepsType ==
  ASSUME SchemaType, TransactionLost \/ UNCHANGED schema
  PROVE  SchemaType'
  BY DEF SchemaType, TransactionLost, schema

LEMMA FailsKeepsType ==
  ASSUME SchemaType, StatementFails
  PROVE  SchemaType'
  BY LostKeepsType DEF StatementFails

LEMMA NewCallKeepsType ==
  ASSUME TypeOK, NEW b \in Backends,
         \/ \E ns \in Namespaces : CallOpen(b, ns) \/ CallFromConnection(b, ns)
         \/ CallClose(b)
         \/ \E depth \in Depths : CallTraverse(b, depth)
  PROVE  TypeOK'
<1> USE LadybugConnectionAssumption
<1>1. CASE \E ns \in Namespaces : CallOpen(b, ns) \/ CallFromConnection(b, ns)
  <2>1. CallType'
    BY <1>1, NewFrame DEF CallOpen, CallFromConnection, CallType, Steps
  <2>2. QED
    BY <1>1, <2>1, TypeIsParts
    DEF CallOpen, CallFromConnection, Attempt, open, caps, OpenType,
        SchemaType, CapsType, LiveType
<1>2. CASE CallClose(b)
  <2>1. live[b] \in [owned : BOOLEAN, ns : Valid, closed : BOOLEAN]
    BY <1>2 DEF CallClose, TypeOK
  <2>2. LiveType'
    BY <1>2, <2>1, TypeIsParts DEF CallClose, LiveType
  <2>3. live[b].owned \in BOOLEAN /\ live[b].ns \in Namespaces
    BY <2>1
  <2>4. CallType'
    BY <1>2, <2>3, NewFrame DEF CallClose, CallType, Steps
  <2>5. QED
    BY <1>2, <2>2, <2>4, TypeIsParts
    DEF CallClose, open, schema, caps, OpenType, SchemaType, CapsType
<1>3. CASE \E depth \in Depths : CallTraverse(b, depth)
  <2>1. PICK depth \in Depths : CallTraverse(b, depth)
    BY <1>3
  <2>2. live[b] \in [owned : BOOLEAN, ns : Valid, closed : BOOLEAN]
    BY <2>1 DEF CallTraverse, TypeOK
  <2>3. live[b].owned \in BOOLEAN /\ live[b].ns \in Namespaces /\ depth \in Nat
    BY <2>2
  <2>4. CallType'
    <3>1. CASE depth = 0
      BY <2>1, <2>3, <3>1, NewFrame DEF CallTraverse, CallType, Steps
    <3>2. CASE depth # 0
      BY <2>1, <2>3, <3>2, NewFrame DEF CallTraverse, CallType, Steps
    <3>3. QED
      BY <3>1, <3>2
  <2>5. QED
    BY <2>1, <2>4, TypeIsParts
    DEF CallTraverse, open, schema, caps, OpenType, SchemaType, CapsType,
        LiveType
<1>4. QED
  BY <1>1, <1>2, <1>3

LEMMA HostKeepsType ==
  ASSUME TypeOK,
         \/ \E n \in Caps : HostSetsCap(n)
         \/ Begin \/ Commit \/ Rollback \/ HostCloses
  PROVE  TypeOK'
<1> USE LadybugConnectionAssumption, TypeIsParts
<1>1. CASE \E n \in Caps : HostSetsCap(n)
  BY <1>1 DEF HostSetsCap, open, schema, OpenType, SchemaType, CapsType,
              LiveType, CallType
<1>2. CASE Begin \/ Commit
  BY <1>2 DEF Begin, Commit, open, caps, OpenType, SchemaType, CapsType,
              LiveType, CallType
<1>3. CASE Rollback \/ HostCloses
  <2>1. SchemaType'
    BY <1>3, LostKeepsType DEF Rollback, HostCloses
  <2>2. QED
    BY <1>3, <2>1 DEF Rollback, HostCloses, open, caps, OpenType, CapsType,
                      LiveType, CallType
<1>4. QED
  BY <1>1, <1>2, <1>3

LEMMA StepKeepsType ==
  ASSUME TypeOK, NamespaceInv, CallStep
  PROVE  TypeOK'
<1> USE LadybugConnectionAssumption
<1>1. call \in Calls /\ call.at \in Steps /\ conn \in Conns
  BY StepIsCalls, ConnIsConn
  DEF CallStep, Steps, OpenDatabase, OpenConnection, ValidateNamespace,
      BootstrapStatement, BackendReturned, CloseConnection, CloseDatabase,
      ReadCap, LiftCap, WalkSucceeds, WalkFails, RestoreCap
<1>2. /\ call.b \in Backends /\ call.owned \in BOOLEAN
      /\ call.ns \in Namespaces /\ call.bound \in Nat /\ call.prior \in Nat
      /\ call.ddl \in 0 .. Len(Tables)
  BY <1>1 DEF Calls
<1>3. \A s \in Steps : Goto(s) \/ Return => CallType'
  BY <1>1, GotoFrame DEF Return, CallType
<1>4. CASE OpenDatabase \/ CloseConnection \/ CloseDatabase
  <2>1. CallType'
    BY <1>3, <1>4 DEF OpenDatabase, CloseConnection, CloseDatabase, Steps
  <2>2. OpenType'
    BY <1>1, <1>2, <1>4, TypeIsParts
    DEF OpenDatabase, CloseConnection, CloseDatabase, OpenType, Opened, open,
        CloseHandle, Handles, Conns
  <2>3. QED
    BY <1>4, <2>1, <2>2, TypeIsParts
    DEF OpenDatabase, CloseConnection, CloseDatabase, schema, caps, SchemaType,
        CapsType, LiveType
<1>5. CASE OpenConnection
  <2>1. CallType'
    BY <1>3, <1>5 DEF OpenConnection, Steps
  <2>2. OpenType'
    BY <1>1, <1>2, <1>5, TypeIsParts
    DEF OpenConnection, OpenType, Opened, open, Handles, Conns
  <2>3. CapsType'
    <3>1. call.b \in Conns
      BY <1>2 DEF Conns
    <3>2. CASE UNCHANGED caps
      BY <3>2, TypeIsParts DEF CapsType, caps
    <3>3. CASE ~ UNCHANGED caps
      <4>1. /\ cap' = [cap EXCEPT ![call.b] = DefaultCap]
            /\ given' = [given EXCEPT ![call.b] = DefaultCap]
            /\ doubtful' = doubtful \ {call.b}
        BY <1>5, <3>3 DEF OpenConnection, open, caps
      <4>2. QED
        BY <3>1, <4>1, TypeIsParts DEF CapsType
    <3>4. QED
      BY <3>2, <3>3
  <2>4. QED
    BY <1>5, <2>1, <2>2, <2>3, TypeIsParts
    DEF OpenConnection, schema, SchemaType, LiveType
<1>6. CASE ValidateNamespace
  <2>1. CallType'
    BY <1>3, <1>6 DEF ValidateNamespace, InitFails, Steps
  <2>2. QED
    BY <1>6, <2>1, TypeIsParts
    DEF ValidateNamespace, open, schema, caps, OpenType, SchemaType, CapsType,
        LiveType
<1>7. CASE BootstrapStatement
  <2>1. CallType'
    <3>1. call' = [call EXCEPT !.ddl = NextTable] => CallType'
      BY <1>1, <1>2, <1>7 DEF BootstrapStatement, NextTable, CallType, Calls
    <3>2. QED
      BY <1>3, <1>7, <3>1 DEF BootstrapStatement, InitFails, Steps
  <2>2. SchemaType'
    <3>1. CASE StatementFails
      BY <3>1, FailsKeepsType, TypeIsParts
    <3>2. CASE CreateTable
      <4>1. Tables[call.ddl + 1] \in TableNames
        BY <1>2, <1>7 DEF BootstrapStatement, TableNames
      <4>2. QED
        BY <1>1, <1>2, <3>2, <4>1, TypeIsParts DEF CreateTable, SchemaType
    <3>3. QED
      BY <1>7, <3>1, <3>2 DEF BootstrapStatement
  <2>3. QED
    BY <1>7, <2>1, <2>2, TypeIsParts
    DEF BootstrapStatement, open, caps, OpenType, CapsType, LiveType
<1>8. CASE WalkSucceeds \/ WalkFails
  <2>1. CallType'
    BY <1>3, <1>8 DEF WalkSucceeds, WalkFails, Steps
  <2>2. SchemaType'
    BY <1>8, FailsKeepsType, LostKeepsType, TypeIsParts
    DEF WalkSucceeds, WalkFails
  <2>3. QED
    BY <1>8, <2>1, <2>2, TypeIsParts
    DEF WalkSucceeds, WalkFails, open, caps, OpenType, CapsType, LiveType
<1>9. CASE ReadCap
  <2>1. CallType'
    <3>1. ASSUME NEW read \in {cap[conn], DefaultCap},
                 call' = [call EXCEPT !.prior = read,
                            !.at = IF Lifts(read) THEN "lift" ELSE "walk"]
          PROVE  CallType'
      <4>1. read \in Nat
        BY <1>1 DEF TypeOK
      <4>2. QED
        BY <1>1, <3>1, <4>1 DEF CallType, Calls, Steps
    <3>2. QED
      BY <1>3, <1>9, <3>1 DEF ReadCap, StatementRaises, Steps
  <2>2. SchemaType'
    BY <1>9, FailsKeepsType, LostKeepsType, TypeIsParts
    DEF ReadCap, StatementRaises
  <2>3. QED
    BY <1>1, <1>9, <2>1, <2>2, TypeIsParts
    DEF ReadCap, open, OpenType, CapsType, LiveType
<1>10. CASE LiftCap \/ RestoreCap
  <2>1. CallType'
    BY <1>3, <1>10 DEF LiftCap, RestoreCap, StatementRaises, Steps
  <2>2. SchemaType'
    BY <1>10, FailsKeepsType, LostKeepsType, TypeIsParts
    DEF LiftCap, RestoreCap, StatementRaises
  <2>3. CapsType'
    BY <1>1, <1>2, <1>10, TypeIsParts DEF LiftCap, RestoreCap, CapsType
  <2>4. QED
    BY <1>10, <2>1, <2>2, <2>3, TypeIsParts
    DEF LiftCap, RestoreCap, open, OpenType, LiveType
<1>11. CASE BackendReturned
  <2>1. CallType'
    BY <1>3, <1>11 DEF BackendReturned, Steps
  <2>2. LiveType'
    BY <1>2, <1>11, TypeIsParts DEF BackendReturned, LiveType, NamespaceInv
  <2>3. QED
    BY <1>11, <2>1, <2>2, TypeIsParts
    DEF BackendReturned, open, schema, caps, OpenType, SchemaType, CapsType
<1>12. QED
  BY <1>4, <1>5, <1>6, <1>7, <1>8, <1>9, <1>10, <1>11 DEF CallStep

-----------------------------------------------------------------------------
(* The calls.                                                               *)

\* What a step makes of the frame, for the conjuncts that look at it.
LEMMA FrameOfStep ==
  ASSUME TypeOK, CallStep
  PROVE  /\ call \in Calls /\ call # Idle /\ conn \in Conns
         /\ \/ call' = Idle /\ call'.at = "idle"
            \/ /\ call' \in Calls /\ call' # Idle
               /\ call'.b = call.b /\ call'.owned = call.owned
               /\ call'.ns = call.ns /\ call'.bound = call.bound
               /\ conn' = conn
               /\ ~ ReadCap => call'.prior = call.prior
<1>1. call \in Calls /\ call # Idle /\ conn \in Conns
  BY StepIsCalls, ConnIsConn
  DEF CallStep, Steps, OpenDatabase, OpenConnection, ValidateNamespace,
      BootstrapStatement, BackendReturned, CloseConnection, CloseDatabase,
      ReadCap, LiftCap, WalkSucceeds, WalkFails, RestoreCap
<1> DEFINE Goes ==
      \/ call' = Idle /\ call'.at = "idle"
      \/ /\ call' \in Calls /\ call' # Idle
         /\ call'.b = call.b /\ call'.owned = call.owned
         /\ call'.ns = call.ns /\ call'.bound = call.bound
         /\ conn' = conn
         /\ ~ ReadCap => call'.prior = call.prior
<1>2. ASSUME NEW s \in Steps, Goto(s)
      PROVE  Goes
  BY <1>1, <1>2, GotoFrame
<1>3. Return => Goes
  BY IdleIsNoCall DEF Return
<1>4. CASE BootstrapStatement
  <2>1. ASSUME call.ddl < Len(Tables), call' = [call EXCEPT !.ddl = NextTable]
        PROVE  Goes
    <3>1. call.ddl + 1 \in 0 .. Len(Tables)
      BY <1>1, <2>1, LadybugConnectionAssumption DEF Calls
    <3>2. /\ call' \in Calls
          /\ call'.b = call.b /\ call'.owned = call.owned
          /\ call'.ns = call.ns /\ call'.bound = call.bound
          /\ call'.prior = call.prior
      BY <1>1, <2>1, <3>1 DEF Calls, NextTable
    <3>3. QED
      BY <3>2, IdleIsNoCall DEF conn
  <2>2. QED
    BY <1>1, <1>2, <1>3, <1>4, <2>1
    DEF BootstrapStatement, InitFails, Steps
<1>5. CASE ReadCap
  <2>1. ASSUME NEW read \in {cap[conn], DefaultCap},
               call' = [call EXCEPT !.prior = read,
                          !.at = IF Lifts(read) THEN "lift" ELSE "walk"]
        PROVE  Goes
    <3>1. read \in Nat
      BY <1>1, LadybugConnectionAssumption DEF TypeOK
    <3>2. /\ call' \in Calls
          /\ call'.b = call.b /\ call'.owned = call.owned
          /\ call'.ns = call.ns /\ call'.bound = call.bound
      BY <1>1, <2>1, <3>1 DEF Calls, Steps
    <3>3. QED
      BY <1>5, <3>2, IdleIsNoCall DEF conn
  <2>2. QED
    BY <1>1, <1>3, <1>5, <2>1 DEF ReadCap, StatementRaises
<1>6. CASE ~ BootstrapStatement /\ ~ ReadCap
  BY <1>1, <1>2, <1>3, <1>6
  DEF CallStep, Steps, OpenDatabase, OpenConnection, ValidateNamespace,
      BackendReturned, CloseConnection, CloseDatabase, InitFails,
      LiftCap, WalkSucceeds, WalkFails, RestoreCap, StatementRaises
<1>7. QED
  BY <1>1, <1>4, <1>5, <1>6

LEMMA StepKeepsNamespace ==
  ASSUME TypeOK, NamespaceInv, CallStep
  PROVE  NamespaceInv'
<1> SUFFICES ASSUME call'.at = "ddl" PROVE call'.ns \in Valid
  BY DEF NamespaceInv
<1>1. call'.ns = call.ns /\ call \in Calls
  BY FrameOfStep
<1>2. CASE ValidateNamespace
  BY <1>1, <1>2, GotoFrame, IdleIsNoCall
  DEF ValidateNamespace, InitFails, Return, Steps
<1>3. CASE BootstrapStatement
  BY <1>1, <1>3 DEF BootstrapStatement, NamespaceInv
<1>4. CASE ~ ValidateNamespace /\ ~ BootstrapStatement
  <2>1. ASSUME NEW s \in Steps \ {"ddl"}
        PROVE  ~ Goto(s)
    BY <1>1, <2>1, GotoFrame
  <2>2. ~ Return
    BY IdleIsNoCall DEF Return
  <2>3. ~ ReadCap
    <3>1. ASSUME NEW read,
                 call' = [call EXCEPT !.prior = read,
                            !.at = IF Lifts(read) THEN "lift" ELSE "walk"]
          PROVE  FALSE
      BY <1>1, <3>1 DEF Calls
    <3>2. QED
      BY <2>2, <3>1 DEF ReadCap, StatementRaises
  <2>4. QED
    BY <1>4, <2>1, <2>2, <2>3
    DEF CallStep, Steps, OpenDatabase, OpenConnection, BackendReturned,
        CloseConnection, CloseDatabase, LiftCap, WalkSucceeds, WalkFails,
        RestoreCap, StatementRaises
<1>5. QED
  BY <1>2, <1>3, <1>4

-----------------------------------------------------------------------------
(* The handles.                                                             *)

\* A step that opens and closes nothing and keeps the call where it answers.
LEMMA HandlesStay ==
  ASSUME HandleInv, TenantKeepsConnection, UNCHANGED <<open, live>>,
         call # Idle, call' # Idle,
         call'.b = call.b, call'.owned = call.owned, call'.at = call.at
  PROVE  HandleInv' /\ TenantKeepsConnection'
  BY DEF HandleInv, TenantKeepsConnection, Answers, open

\* A call that answers for no handle begins, goes on or returns.
LEMMA HandlesUnanswered ==
  ASSUME HandleInv, TenantKeepsConnection, UNCHANGED <<open, live>>,
         \A b : ~ Answers("db", b) /\ ~ Answers("conn", b),
         handles \subseteq Handles,
         call' # Idle =>
           /\ call'.at \in {"database", "connection", "close_conn", "close_db"}
                => call'.owned
           /\ call'.at \in Setup => call'.b \notin DOMAIN live
  PROVE  HandleInv' /\ TenantKeepsConnection'
<1>1. ASSUME NEW h \in handles' \ tried', h[2] \in Backends
      PROVE  h[2] \in DOMAIN live' /\ live'[h[2]].owned /\ ~ live'[h[2]].closed
  BY <1>1 DEF open, Handles, HandleInv
<1>2. QED
  BY <1>1 DEF HandleInv, TenantKeepsConnection, open

\* A step of the call that answers for what it opened and has tried to close
\* what it answers for no more.
LEMMA HandlesMove ==
  ASSUME HandleInv, TenantKeepsConnection, live' = live,
         call # Idle, call' # Idle, call.b # Host,
         call'.b = call.b, call.owned, call'.owned,
         call'.at \in Setup => call'.b \notin DOMAIN live,
         \A h \in handles' \ tried' :
           \/ h \in handles \ tried /\ ~ Answers(h[1], h[2])
           \/ Answers(h[1], h[2])',
         \A h \in tried' \ tried : h[2] = call.b
  PROVE  HandleInv' /\ TenantKeepsConnection'
<1>1. ASSUME NEW h \in handles' \ tried', h[2] \in Backends
      PROVE  \/ /\ h[2] \in DOMAIN live' /\ live'[h[2]].owned
                /\ ~ live'[h[2]].closed
             \/ Answers(h[1], h[2])'
  BY <1>1 DEF HandleInv
<1>2. QED
  BY <1>1 DEF HandleInv, TenantKeepsConnection

LEMMA StepKeepsHandles ==
  ASSUME TypeOK, HandleInv, TenantKeepsConnection, CallStep
  PROVE  HandleInv' /\ TenantKeepsConnection'
<1> USE LadybugConnectionAssumption
<1>1. /\ call \in Calls /\ call # Idle /\ handles \subseteq Handles
      /\ call.b \in Backends /\ call.b # Host
  BY FrameOfStep DEF TypeOK, Calls
<1>2. \A s \in Steps : Goto(s) =>
        /\ call' # Idle /\ call'.at = s
        /\ call'.b = call.b /\ call'.owned = call.owned
  BY <1>1, GotoFrame
<1>3. CASE OpenDatabase
  <2>1. call.at = "database" /\ call.owned /\ call.b \notin DOMAIN live
    BY <1>1, <1>3 DEF OpenDatabase, HandleInv, Setup
  <2>2. CASE Opened(<<"db", call.b>>) /\ Goto("connection")
    <3>1. /\ call' # Idle /\ call'.b = call.b /\ call'.owned = call.owned
          /\ call'.at = "connection" /\ live' = live
      BY <1>2, <1>3, <2>2 DEF OpenDatabase, Steps
    <3>2. ASSUME NEW h \in handles' \ tried'
          PROVE  \/ h \in handles \ tried /\ ~ Answers(h[1], h[2])
                 \/ Answers(h[1], h[2])'
      BY <2>1, <2>2, <3>1, <3>2 DEF Opened, Answers
    <3>3. QED
      BY <1>1, <2>1, <2>2, <3>1, <3>2, HandlesMove DEF Opened
  <2>3. CASE Return /\ UNCHANGED open
    BY <1>1, <1>3, <2>1, <2>3, HandlesUnanswered
    DEF OpenDatabase, Answers, Return
  <2>4. QED
    BY <1>3, <2>2, <2>3 DEF OpenDatabase
<1>4. CASE OpenConnection
  <2>1. call.at = "connection" /\ call.owned /\ call.b \notin DOMAIN live
    BY <1>1, <1>4 DEF OpenConnection, HandleInv, Setup
  <2>2. CASE Opened(<<"conn", call.b>>) /\ Goto("init")
    <3>1. /\ call' # Idle /\ call'.b = call.b /\ call'.owned = call.owned
          /\ call'.at = "init" /\ live' = live
      BY <1>2, <1>4, <2>2 DEF OpenConnection, Steps
    <3>2. ASSUME NEW h \in handles' \ tried'
          PROVE  \/ h \in handles \ tried /\ ~ Answers(h[1], h[2])
                 \/ Answers(h[1], h[2])'
      BY <2>1, <2>2, <3>1, <3>2 DEF Opened, Answers
    <3>3. QED
      BY <1>1, <2>1, <2>2, <3>1, <3>2, HandlesMove DEF Opened
  <2>3. CASE Goto("close_db") /\ UNCHANGED open
    BY <1>1, <1>2, <1>4, <2>1, <2>3
    DEF OpenConnection, HandleInv, TenantKeepsConnection, Answers, open, Setup,
        Handles, Steps
  <2>4. QED
    BY <1>4, <2>2, <2>3 DEF OpenConnection, open
<1>5. ASSUME call.at \in {"init", "ddl"}, InitFails, UNCHANGED <<open, live>>
      PROVE  HandleInv' /\ TenantKeepsConnection'
  <2>1. CASE call.owned
    BY <1>1, <1>2, <1>5, <2>1
    DEF InitFails, HandleInv, TenantKeepsConnection, Answers, open, Setup,
        Handles, Steps
  <2>2. CASE ~ call.owned
    BY <1>1, <1>5, <2>2, HandlesUnanswered DEF InitFails, Answers, Return
  <2>3. QED
    BY <2>1, <2>2
<1>6. CASE ValidateNamespace
  <2>1. CASE Goto("ddl")
    BY <1>1, <1>2, <1>6, <2>1
    DEF ValidateNamespace, HandleInv, TenantKeepsConnection, Answers, open,
        Setup, Handles, Steps
  <2>2. QED
    BY <1>5, <1>6, <2>1 DEF ValidateNamespace
<1>7. CASE BootstrapStatement
  <2>1. ASSUME call' = [call EXCEPT !.ddl = NextTable]
        PROVE  HandleInv' /\ TenantKeepsConnection'
    <3>1. /\ call'.b = call.b /\ call'.owned = call.owned
          /\ call'.at = call.at /\ call' # Idle
      BY <1>1, <1>7, <2>1, IdleIsNoCall DEF Calls, BootstrapStatement
    <3>2. QED
      BY <1>1, <1>7, <3>1, HandlesStay DEF BootstrapStatement
  <2>2. QED
    BY <1>5, <1>7, <2>1 DEF BootstrapStatement
<1>8. CASE BackendReturned
  <2>1. /\ call.at = "ddl" /\ call.b \notin DOMAIN live
        /\ call' = Idle /\ UNCHANGED open
        /\ DOMAIN live' = DOMAIN live \cup {call.b}
        /\ live'[call.b].owned = call.owned /\ ~ live'[call.b].closed
        /\ \A b \in DOMAIN live : live'[b] = live[b]
    BY <1>1, <1>8 DEF BackendReturned, HandleInv, Setup, Return
  <2>2. ASSUME NEW h \in handles' \ tried', h[2] \in Backends
        PROVE  /\ h[2] \in DOMAIN live' /\ live'[h[2]].owned
               /\ ~ live'[h[2]].closed
    BY <2>1, <2>2 DEF HandleInv, Answers, open
  <2>3. QED
    BY <2>1, <2>2 DEF HandleInv, TenantKeepsConnection, open
<1>9. CASE CloseConnection
  <2>1. call.at = "close_conn" /\ call.owned /\ conn = call.b
    BY <1>1, <1>9 DEF CloseConnection, HandleInv, conn
  <2>2. QED
    <3>1. /\ call' # Idle /\ call'.b = call.b /\ call'.owned = call.owned
          /\ call'.at = "close_db" /\ live' = live
      BY <1>2, <1>9 DEF CloseConnection, Steps
    <3>2. ASSUME NEW h \in handles' \ tried'
          PROVE  \/ h \in handles \ tried /\ ~ Answers(h[1], h[2])
                 \/ Answers(h[1], h[2])'
      <4>1. h \in handles \ tried /\ h # <<"conn", call.b>> /\ h \in Handles
        BY <1>1, <1>9, <2>1, <3>2 DEF CloseConnection, CloseHandle
      <4>2. h[1] \in {"db", "conn"} /\ h = <<h[1], h[2]>>
        BY <4>1 DEF Handles
      <4>3. QED
        BY <2>1, <3>1, <4>1, <4>2 DEF Answers
    <3>3. QED
      BY <1>1, <1>9, <2>1, <3>1, <3>2, HandlesMove
      DEF CloseConnection, CloseHandle, Setup
<1>10. CASE CloseDatabase
  <2>1. call.at = "close_db" /\ call.owned /\ conn = call.b /\ call' = Idle
    BY <1>1, <1>10 DEF CloseDatabase, HandleInv, conn, Return
  <2>2. QED
    BY <1>1, <1>10, <2>1
    DEF CloseDatabase, CloseHandle, HandleInv, TenantKeepsConnection, Answers,
        Handles
<1>11. CASE ReadCap \/ LiftCap \/ WalkSucceeds \/ WalkFails \/ RestoreCap
  <2>1. /\ call.at \in {"read", "lift", "walk", "lifted_walk", "probe",
                        "restore"}
        /\ UNCHANGED <<open, live>>
    BY <1>11 DEF ReadCap, LiftCap, WalkSucceeds, WalkFails, RestoreCap
  <2>2. \A b : ~ Answers("db", b) /\ ~ Answers("conn", b)
    BY <2>1 DEF Answers
  <2>3. call' # Idle => call'.at \in {"lift", "walk", "lifted_walk", "restore"}
    BY <1>1, <1>2, <1>11
    DEF ReadCap, LiftCap, WalkSucceeds, WalkFails, RestoreCap, StatementRaises,
        Return, Steps, Calls
  <2>4. QED
    BY <1>1, <2>1, <2>2, <2>3, HandlesUnanswered DEF Setup
<1>12. QED
  BY <1>3, <1>4, <1>6, <1>7, <1>8, <1>9, <1>10, <1>11 DEF CallStep

LEMMA OutsideKeepsHandles ==
  ASSUME TypeOK, HandleInv, TenantKeepsConnection,
         \/ \E n \in Caps : HostSetsCap(n)
         \/ Begin \/ Commit \/ Rollback \/ HostCloses
         \/ \E b \in Backends :
              \/ \E ns \in Namespaces :
                   CallOpen(b, ns) \/ CallFromConnection(b, ns)
              \/ CallClose(b)
              \/ \E depth \in Depths : CallTraverse(b, depth)
  PROVE  HandleInv' /\ TenantKeepsConnection'
<1> USE LadybugConnectionAssumption
<1>1. call = Idle /\ handles \subseteq Handles
  BY DEF HostSetsCap, Begin, Commit, Rollback, HostCloses, CallOpen,
         CallFromConnection, Attempt, CallClose, CallTraverse, TypeOK
<1>2. \A b : ~ Answers("db", b) /\ ~ Answers("conn", b)
  BY <1>1 DEF Answers
<1>3. CASE (\E n \in Caps : HostSetsCap(n)) \/ Begin \/ Commit \/ Rollback
  BY <1>1, <1>2, <1>3, HandlesUnanswered
  DEF HostSetsCap, Begin, Commit, Rollback, TransactionLost, Setup
<1>4. CASE HostCloses
  BY <1>1, <1>2, <1>4
  DEF HostCloses, HandleInv, TenantKeepsConnection, Handles
<1>5. ASSUME NEW b \in Backends, NEW ns \in Namespaces,
             CallOpen(b, ns) \/ CallFromConnection(b, ns)
      PROVE  HandleInv' /\ TenantKeepsConnection'
  <2>1. CASE CallOpen(b, ns)
    <3>1. call'.b = b /\ call'.owned = TRUE /\ b \notin DOMAIN live
      BY <2>1, NewFrame DEF CallOpen, Attempt, Unused, Steps
    <3>2. QED
      BY <1>1, <1>2, <2>1, <3>1, HandlesUnanswered DEF CallOpen, Attempt
  <2>2. CASE CallFromConnection(b, ns)
    <3>1. call'.b = b /\ call'.at = "init" /\ b \notin DOMAIN live
      BY <2>2, NewFrame DEF CallFromConnection, Attempt, Unused, Steps
    <3>2. QED
      BY <1>1, <1>2, <2>2, <3>1, HandlesUnanswered
      DEF CallFromConnection, Attempt
  <2>3. QED
    BY <1>5, <2>1, <2>2
<1>6. ASSUME NEW b \in Backends, CallClose(b)
      PROVE  HandleInv' /\ TenantKeepsConnection'
  <2>1. /\ live[b].owned \in BOOLEAN /\ live[b].ns \in Namespaces
        /\ DOMAIN live' = DOMAIN live /\ UNCHANGED open
        /\ \A c \in DOMAIN live : c # b => live'[c] = live[c]
    BY <1>6 DEF TypeOK, CallClose
  <2>2. CASE live[b].owned = TRUE
    <3>1. /\ call' # Idle /\ call'.b = b /\ call'.at = "close_conn"
          /\ call'.owned
      <4>1. call' = Frame("close_conn", b, TRUE, live[b].ns, 0)
        BY <1>6, <2>2 DEF CallClose, Closes
      <4>2. QED
        BY <2>1, <4>1, NewFrame DEF Steps
    <3>2. QED
      BY <1>1, <1>2, <2>1, <3>1
      DEF HandleInv, TenantKeepsConnection, Answers, Setup, open, Handles
  <2>3. CASE live[b].owned = FALSE
    <3>1. call' = Idle
      BY <1>6, <2>3 DEF CallClose, Closes
    <3>2. QED
      BY <1>1, <1>2, <2>1, <2>3, <3>1
      DEF HandleInv, TenantKeepsConnection, Answers, open, Handles
  <2>4. QED
    BY <2>1, <2>2, <2>3
<1>7. ASSUME NEW b \in Backends, NEW depth \in Depths, CallTraverse(b, depth)
      PROVE  HandleInv' /\ TenantKeepsConnection'
  <2>1. /\ live[b].owned \in BOOLEAN /\ live[b].ns \in Namespaces
        /\ depth \in Nat
    BY <1>7 DEF TypeOK, CallTraverse
  <2>2. call'.at \in {"probe", "read"}
    BY <1>7, <2>1, NewFrame DEF CallTraverse, Steps
  <2>3. QED
    BY <1>1, <1>2, <1>7, <2>2, HandlesUnanswered DEF CallTraverse, Setup
<1>8. QED
  BY <1>3, <1>4, <1>5, <1>6, <1>7

-----------------------------------------------------------------------------
(* The cap.                                                                 *)

CapSteps == {"lift", "walk", "lifted_walk", "restore"}

\* A step outside a walk that leaves the caps alone.
LEMMA CapsStay ==
  ASSUME CapInv, UNCHANGED caps,
         call # Idle => call.at \notin {"lifted_walk", "restore"},
         call' # Idle => call'.at \notin CapSteps
  PROVE  CapInv'
  BY DEF CapInv, caps, CapSteps

LEMMA StepKeepsCaps ==
  ASSUME TypeOK, CapInv, CallStep
  PROVE  CapInv'
<1> USE LadybugConnectionAssumption
<1>1. /\ call \in Calls /\ call # Idle /\ conn \in Conns
      /\ call.bound \in Nat /\ call.prior \in Nat /\ call.b \in Backends
      /\ cap \in [Conns -> Nat] /\ given \in [Conns -> Nat]
  BY FrameOfStep DEF Calls, TypeOK
<1>2. \A s \in Steps : Goto(s) =>
        /\ call' # Idle /\ call'.at = s /\ conn' = conn
        /\ call'.bound = call.bound /\ call'.prior = call.prior
  BY <1>1, GotoFrame
<1>3. CASE OpenDatabase \/ ValidateNamespace \/ BackendReturned
             \/ CloseConnection \/ CloseDatabase
  BY <1>1, <1>2, <1>3, CapsStay
  DEF OpenDatabase, ValidateNamespace, BackendReturned, CloseConnection,
      CloseDatabase, InitFails, Return, Steps, CapSteps
<1>4. CASE BootstrapStatement
  <2>1. call' # Idle => call'.at \notin CapSteps
    BY <1>1, <1>2, <1>4
    DEF BootstrapStatement, InitFails, Return, Steps, CapSteps, Calls
  <2>2. QED
    BY <1>4, <2>1, CapsStay DEF BootstrapStatement
<1>5. CASE OpenConnection
  <2>1. call' # Idle /\ call'.at \notin CapSteps
    BY <1>1, <1>2, <1>5 DEF OpenConnection, Steps, CapSteps
  <2>2. CASE UNCHANGED caps
    BY <1>5, <2>1, <2>2, CapsStay DEF OpenConnection
  <2>3. CASE ~ UNCHANGED caps
    <3>1. /\ cap' = [cap EXCEPT ![call.b] = DefaultCap]
          /\ given' = [given EXCEPT ![call.b] = DefaultCap]
          /\ doubtful' = doubtful \ {call.b}
          /\ call.at = "connection"
      BY <1>5, <2>3 DEF OpenConnection, open, caps
    <3>2. \A c \in Conns \ doubtful' : cap'[c] = given'[c]
      BY <1>1, <3>1 DEF CapInv
    <3>3. QED
      BY <2>1, <3>2 DEF CapInv, CapSteps
  <2>4. QED
    BY <2>2, <2>3
<1>6. CASE ReadCap
  <2>1. call.at = "read" /\ UNCHANGED <<cap, given>>
    BY <1>6 DEF ReadCap
  <2>2. ASSUME NEW read \in {cap[conn], DefaultCap},
               doubtful' = doubtful \cup {c \in {conn} : read # cap[c]},
               call' = [call EXCEPT !.prior = read,
                          !.at = IF Lifts(read) THEN "lift" ELSE "walk"]
        PROVE  CapInv'
    <3>1. read \in Nat
      BY <1>1
    <3>2. /\ call'.prior = read /\ call'.bound = call.bound
          /\ call'.at = IF Lifts(read) THEN "lift" ELSE "walk"
          /\ conn' = conn
      BY <1>1, <2>2 DEF Calls, conn
    <3>3. call'.at = "walk" => call'.bound <= call'.prior
      BY <1>1, <3>1, <3>2 DEF Lifts
    <3>4. \A c \in Conns \ doubtful' : cap'[c] = given'[c]
      BY <1>1, <2>1, <2>2 DEF CapInv
    <3>5. conn' \notin doubtful' => call'.prior = cap'[conn']
      BY <2>1, <2>2, <3>2
    <3>6. call'.at \in {"lift", "walk"}
      BY <3>2
    <3>7. QED
      BY <3>3, <3>4, <3>5, <3>6 DEF CapInv
  <2>3. CASE Return /\ UNCHANGED doubtful
    BY <2>1, <2>3, CapsStay DEF Return, caps
  <2>4. QED
    BY <1>6, <2>2, <2>3 DEF ReadCap, StatementRaises
<1>7. CASE LiftCap
  <2>1. /\ call.at = "lift" /\ UNCHANGED <<given, doubtful>>
    BY <1>7 DEF LiftCap
  <2>2. CASE cap' = [cap EXCEPT ![conn] = call.bound] /\ Goto("lifted_walk")
    <3>1. /\ call' # Idle /\ call'.at = "lifted_walk" /\ conn' = conn
          /\ call'.bound = call.bound /\ call'.prior = call.prior
      BY <1>2, <2>2 DEF Steps
    <3>2. /\ cap'[conn] = call.bound
          /\ \A c \in Conns : c # conn => cap'[c] = cap[c]
      BY <1>1, <2>2
    <3>3. conn \notin doubtful => call.prior = given[conn]
      BY <1>1, <2>1 DEF CapInv
    <3>4. \A c \in Conns \ doubtful' : cap'[c] = given'[c] \/ c = conn'
      BY <1>1, <2>1, <3>1, <3>2 DEF CapInv
    <3>5. QED
      BY <2>1, <3>1, <3>2, <3>3, <3>4 DEF CapInv
  <2>3. CASE Return /\ UNCHANGED cap
    BY <2>1, <2>3, CapsStay DEF Return, caps
  <2>4. QED
    BY <1>7, <2>2, <2>3 DEF LiftCap, StatementRaises
<1>8. CASE WalkSucceeds \/ WalkFails
  <2>1. /\ call.at \in {"probe", "walk", "lifted_walk"} /\ UNCHANGED caps
    BY <1>8 DEF WalkSucceeds, WalkFails
  <2>2. CASE call.at = "lifted_walk"
    <3>1. /\ call' # Idle /\ call'.at = "restore" /\ conn' = conn
          /\ call'.prior = call.prior
      BY <1>2, <1>8, <2>2 DEF WalkSucceeds, WalkFails, Steps
    <3>2. QED
      BY <1>1, <2>1, <2>2, <3>1 DEF CapInv, caps
  <2>3. CASE call.at # "lifted_walk"
    BY <1>8, <2>1, <2>3, CapsStay DEF WalkSucceeds, WalkFails, Return
  <2>4. QED
    BY <2>2, <2>3
<1>9. CASE RestoreCap
  <2>1. /\ call.at = "restore" /\ call' = Idle /\ UNCHANGED given
    BY <1>9 DEF RestoreCap, Return, StatementRaises
  <2>2. CASE cap' = [cap EXCEPT ![conn] = call.prior] /\ UNCHANGED doubtful
    BY <1>1, <2>1, <2>2 DEF CapInv
  <2>3. CASE doubtful' = doubtful \cup {conn} /\ UNCHANGED cap
    BY <1>1, <2>1, <2>3 DEF CapInv
  <2>4. QED
    BY <1>9, <2>2, <2>3 DEF RestoreCap
<1>10. QED
  BY <1>3, <1>4, <1>5, <1>6, <1>7, <1>8, <1>9 DEF CallStep

LEMMA OutsideKeepsCaps ==
  ASSUME TypeOK, CapInv,
         \/ \E n \in Caps : HostSetsCap(n)
         \/ Begin \/ Commit \/ Rollback \/ HostCloses
         \/ \E b \in Backends :
              \/ \E ns \in Namespaces :
                   CallOpen(b, ns) \/ CallFromConnection(b, ns)
              \/ CallClose(b)
              \/ \E depth \in Depths : CallTraverse(b, depth)
  PROVE  CapInv'
<1> USE LadybugConnectionAssumption
<1>1. ASSUME NEW n \in Caps, HostSetsCap(n)
      PROVE  CapInv'
  <2>1. \A c \in Conns \ doubtful' : cap'[c] = given'[c]
    BY <1>1 DEF HostSetsCap, CapInv, TypeOK, Conns
  <2>2. QED
    BY <1>1, <2>1 DEF HostSetsCap, CapInv
<1>2. CASE Begin \/ Commit \/ Rollback \/ HostCloses
  BY <1>2, CapsStay DEF Begin, Commit, Rollback, HostCloses
<1>3. ASSUME NEW b \in Backends, NEW ns \in Namespaces,
             CallOpen(b, ns) \/ CallFromConnection(b, ns)
      PROVE  CapInv'
  <2>1. call'.at \in {"database", "init"}
    BY <1>3, NewFrame DEF CallOpen, CallFromConnection, Steps
  <2>2. QED
    BY <1>3, <2>1, CapsStay DEF CallOpen, CallFromConnection, Attempt, CapSteps
<1>4. ASSUME NEW b \in Backends, CallClose(b)
      PROVE  CapInv'
  <2>1. live[b].owned \in BOOLEAN /\ live[b].ns \in Namespaces
    BY <1>4 DEF TypeOK, CallClose
  <2>2. call' # Idle => call'.at = "close_conn"
    BY <1>4, <2>1, NewFrame DEF CallClose, Steps
  <2>3. QED
    BY <1>4, <2>2, CapsStay DEF CallClose, CapSteps
<1>5. ASSUME NEW b \in Backends, NEW depth \in Depths, CallTraverse(b, depth)
      PROVE  CapInv'
  <2>1. /\ live[b].owned \in BOOLEAN /\ live[b].ns \in Namespaces
        /\ depth \in Nat
    BY <1>5 DEF TypeOK, CallTraverse
  <2>2. call'.at \in {"probe", "read"}
    BY <1>5, <2>1, NewFrame DEF CallTraverse, Steps
  <2>3. QED
    BY <1>5, <2>2, CapsStay DEF CallTraverse, CapSteps
<1>6. QED
  BY <1>1, <1>2, <1>3, <1>4, <1>5

-----------------------------------------------------------------------------
(* The tables.                                                              *)

\* No table of a backend in use is lost but with the transaction it was set up
\* in, and then the backend is known to be undone.
LEMMA LostKeepsSchema ==
  ASSUME SchemaInv, TransactionLost, live' = live,
         call' # Idle =>
           call'.at \notin {"ddl", "database", "connection", "init"}
  PROVE  SchemaInv'
<1>1. ASSUME NEW b \in DOMAIN live \ undone'
      PROVE  Made(b, live[b].owned, live[b].ns, Len(Tables))'
  <2>1. b \notin inside /\ b \notin undone
    BY <1>1 DEF TransactionLost
  <2>2. QED
    BY <1>1, <2>1 DEF TransactionLost, SchemaInv, Made
<1>2. QED
  BY <1>1 DEF SchemaInv, TransactionLost

LEMMA SchemaStays ==
  ASSUME SchemaInv, UNCHANGED schema,
         DOMAIN live' = DOMAIN live,
         \A b \in DOMAIN live : /\ live'[b].owned = live[b].owned
                                /\ live'[b].ns = live[b].ns,
         call' # Idle =>
           call'.at \notin {"ddl", "database", "connection", "init"}
  PROVE  SchemaInv'
  BY DEF SchemaInv, schema, Made

LEMMA FailsKeepsSchema ==
  ASSUME SchemaInv, StatementFails, live' = live,
         call' # Idle =>
           call'.at \notin {"ddl", "database", "connection", "init"}
  PROVE  SchemaInv'
<1>1. CASE TransactionLost
  BY <1>1, LostKeepsSchema
<1>2. CASE UNCHANGED schema
  BY <1>2, SchemaStays
<1>3. QED
  BY <1>1, <1>2 DEF StatementFails

\* A new table adds to every schema and takes from none.
LEMMA CreateKeepsMade ==
  ASSUME CreateTable, NEW b, NEW own, NEW ns, NEW n, Made(b, own, ns, n)
  PROVE  Made(b, own, ns, n)'
<1>1. tables \subseteq tables' /\ drafts \subseteq drafts'
      /\ inside \subseteq inside'
  BY DEF CreateTable
<1>2. QED
  BY <1>1 DEF Made

LEMMA CreateMakes ==
  ASSUME call \in Calls, call.ddl < Len(Tables), CreateTable,
         NEW b, NEW own, NEW ns, NEW n \in Nat,
         b = call.b, own = call.owned, ns = call.ns, n = call.ddl,
         Made(b, own, ns, n)
  PROVE  Made(b, own, ns, n + 1)'
<1> DEFINE Have == tables' \cup (IF b \in inside' THEN drafts' ELSE {})
<1>1. conn = IF own THEN b ELSE Host
  BY DEF conn
<1>2. <<conn, ns, Tables[n + 1]>> \in Have
  BY DEF CreateTable
<1>3. tables \cup (IF b \in inside THEN drafts ELSE {}) \subseteq Have
  BY DEF CreateTable
<1>4. \A i \in 1 .. n : <<conn, ns, Tables[i]>> \in Have
  BY <1>1, <1>3 DEF Made
<1>5. ASSUME NEW i \in 1 .. n + 1
      PROVE  <<conn, ns, Tables[i]>> \in Have
  <2>1. i \in 1 .. n \/ i = n + 1
    OBVIOUS
  <2>2. QED
    BY <1>2, <1>4, <2>1
<1>6. QED
  BY <1>1, <1>5 DEF Made

LEMMA StepKeepsSchema ==
  ASSUME TypeOK, SchemaInv, CallStep
  PROVE  SchemaInv'
<1> USE LadybugConnectionAssumption
<1>1. /\ call \in Calls /\ call # Idle /\ call.ddl \in Nat
  BY FrameOfStep DEF Calls
<1>2. \A s \in Steps : Goto(s) =>
        /\ call' # Idle /\ call'.at = s /\ call'.ddl = call.ddl
        /\ call'.b = call.b /\ call'.owned = call.owned /\ call'.ns = call.ns
  BY <1>1, GotoFrame
<1>3. CASE OpenDatabase \/ OpenConnection
  <2>1. /\ UNCHANGED <<schema, live>> /\ call.ddl = 0
        /\ call' # Idle => call'.ddl = 0 /\ call'.at # "ddl"
    BY <1>1, <1>2, <1>3
    DEF OpenDatabase, OpenConnection, Return, SchemaInv, Steps
  <2>2. QED
    BY <2>1 DEF SchemaInv, Made, schema
<1>4. CASE ValidateNamespace
  <2>1. UNCHANGED <<schema, live>> /\ call.ddl = 0
    BY <1>1, <1>4 DEF ValidateNamespace, SchemaInv
  <2>2. CASE Goto("ddl")
    <3>1. call' # Idle /\ call'.at = "ddl" /\ call'.ddl = 0
      BY <1>2, <2>1, <2>2 DEF Steps
    <3>2. QED
      BY <2>1, <3>1 DEF SchemaInv, Made, schema
  <2>3. CASE InitFails
    BY <1>2, <2>1, <2>3, SchemaStays DEF InitFails, Return, Steps
  <2>4. QED
    BY <1>4, <2>2, <2>3 DEF ValidateNamespace
<1>5. CASE BootstrapStatement
  <2>1. /\ call.at = "ddl" /\ call.ddl < Len(Tables) /\ live' = live
    BY <1>5 DEF BootstrapStatement
  <2>2. CASE InitFails /\ StatementFails
    BY <1>2, <2>1, <2>2, FailsKeepsSchema DEF InitFails, Return, Steps
  <2>3. CASE CreateTable /\ call' = [call EXCEPT !.ddl = NextTable]
    <3>1. PICK b, own, ns, n : /\ b = call.b /\ own = call.owned
                               /\ ns = call.ns /\ n = call.ddl
      OBVIOUS
    <3>2. Made(b, own, ns, n)
      BY <1>1, <2>1, <3>1 DEF SchemaInv
    <3>3. Made(b, own, ns, n + 1)'
      BY <1>1, <2>1, <2>3, <3>1, <3>2, CreateMakes
    <3>4. /\ call'.b = b /\ call'.owned = own /\ call'.ns = ns
          /\ call'.ddl = n + 1 /\ call'.at = "ddl"
      BY <1>1, <2>1, <2>3, <3>1 DEF Calls, NextTable
    <3>5. ASSUME NEW c \in DOMAIN live \ undone
          PROVE  Made(c, live[c].owned, live[c].ns, Len(Tables))'
      <4>1. PICK o, m : o = live[c].owned /\ m = live[c].ns
        OBVIOUS
      <4>2. Made(c, o, m, Len(Tables))
        BY <3>5, <4>1 DEF SchemaInv
      <4>3. Made(c, o, m, Len(Tables))'
        BY <2>3, <4>2, CreateKeepsMade
      <4>4. QED
        BY <2>1, <4>1, <4>3 DEF Made
    <3>6. /\ undone' = undone /\ inTxn' = inTxn
          /\ ~ inTxn => drafts' = drafts /\ inside' = inside
      BY <2>3 DEF CreateTable
    <3>7. Made(call.b, call.owned, call.ns, call.ddl)'
      BY <3>3, <3>4 DEF Made
    <3>8. QED
      BY <2>1, <3>4, <3>5, <3>6, <3>7 DEF SchemaInv
  <2>4. QED
    BY <1>5, <2>2, <2>3 DEF BootstrapStatement
<1>6. CASE BackendReturned
  <2>1. /\ UNCHANGED schema /\ call' = Idle
        /\ DOMAIN live' = DOMAIN live \cup {call.b}
        /\ live'[call.b].owned = call.owned /\ live'[call.b].ns = call.ns
        /\ \A b \in DOMAIN live : b # call.b => live'[b] = live[b]
        /\ Made(call.b, call.owned, call.ns, Len(Tables))
    BY <1>1, <1>6 DEF BackendReturned, Return, SchemaInv
  <2>2. ASSUME NEW b \in DOMAIN live' \ undone'
        PROVE  Made(b, live[b].owned, live[b].ns, Len(Tables))'
    <3>1. CASE b = call.b
      BY <2>1, <3>1 DEF Made, schema
    <3>2. CASE b # call.b
      BY <2>1, <2>2, <3>2 DEF SchemaInv, Made, schema
    <3>3. QED
      BY <3>1, <3>2
  <2>3. QED
    BY <2>1, <2>2 DEF SchemaInv, schema
<1>7. CASE CloseConnection \/ CloseDatabase
  BY <1>2, <1>7, SchemaStays DEF CloseConnection, CloseDatabase, Return, Steps
<1>8. CASE ReadCap \/ LiftCap \/ WalkSucceeds \/ WalkFails \/ RestoreCap
  <2>1. call' # Idle => call'.at \in {"lift", "walk", "lifted_walk", "restore"}
    BY <1>1, <1>2, <1>8
    DEF ReadCap, LiftCap, WalkSucceeds, WalkFails, RestoreCap, StatementRaises,
        Return, Steps, Calls
  <2>2. live' = live /\ (UNCHANGED schema \/ StatementFails)
    BY <1>8
    DEF ReadCap, LiftCap, WalkSucceeds, WalkFails, RestoreCap, StatementRaises
  <2>3. QED
    BY <2>1, <2>2, SchemaStays, FailsKeepsSchema
<1>9. QED
  BY <1>3, <1>4, <1>5, <1>6, <1>7, <1>8 DEF CallStep

LEMMA OutsideKeepsSchema ==
  ASSUME TypeOK, SchemaInv,
         \/ \E n \in Caps : HostSetsCap(n)
         \/ Begin \/ Commit \/ Rollback \/ HostCloses
         \/ \E b \in Backends :
              \/ \E ns \in Namespaces :
                   CallOpen(b, ns) \/ CallFromConnection(b, ns)
              \/ CallClose(b)
              \/ \E depth \in Depths : CallTraverse(b, depth)
  PROVE  SchemaInv'
<1> USE LadybugConnectionAssumption
<1>1. CASE \E n \in Caps : HostSetsCap(n)
  BY <1>1, SchemaStays DEF HostSetsCap
<1>2. CASE Rollback \/ HostCloses
  BY <1>2, LostKeepsSchema DEF Rollback, HostCloses
<1>3. CASE Begin
  BY <1>3 DEF Begin, SchemaInv, Made
<1>4. CASE Commit
  BY <1>4 DEF Commit, SchemaInv, Made
<1>5. ASSUME NEW b \in Backends, NEW ns \in Namespaces,
             CallOpen(b, ns) \/ CallFromConnection(b, ns)
      PROVE  SchemaInv'
  <2>1. call' # Idle /\ call'.at \in {"database", "init"} /\ call'.ddl = 0
    BY <1>5, NewFrame DEF CallOpen, CallFromConnection, Steps
  <2>2. /\ b \notin DOMAIN live /\ live' = live
        /\ inside' = inside \ {b} /\ undone' = undone \ {b}
        /\ UNCHANGED <<tables, inTxn, drafts>>
    BY <1>5 DEF CallOpen, CallFromConnection, Attempt, Unused
  <2>3. ASSUME NEW c \in DOMAIN live \ undone'
        PROVE  Made(c, live[c].owned, live[c].ns, Len(Tables))'
    BY <2>2, <2>3 DEF SchemaInv, Made
  <2>4. QED
    BY <2>1, <2>2, <2>3 DEF SchemaInv
<1>6. ASSUME NEW b \in Backends, CallClose(b)
      PROVE  SchemaInv'
  <2>1. /\ live[b] \in [owned : BOOLEAN, ns : Valid, closed : BOOLEAN]
        /\ live' = [live EXCEPT ![b].closed = TRUE]
        /\ UNCHANGED schema
    BY <1>6 DEF TypeOK, CallClose
  <2>2. \A c \in DOMAIN live : /\ live'[c].owned = live[c].owned
                               /\ live'[c].ns = live[c].ns
    BY <2>1
  <2>3. call' # Idle => call'.at = "close_conn"
    BY <1>6, <2>1, NewFrame DEF CallClose, Steps
  <2>4. QED
    BY <2>1, <2>2, <2>3, SchemaStays
<1>7. ASSUME NEW b \in Backends, NEW depth \in Depths, CallTraverse(b, depth)
      PROVE  SchemaInv'
  <2>1. /\ live[b].owned \in BOOLEAN /\ live[b].ns \in Namespaces
        /\ depth \in Nat
    BY <1>7 DEF TypeOK, CallTraverse
  <2>2. call'.at \in {"probe", "read"}
    BY <1>7, <2>1, NewFrame DEF CallTraverse, Steps
  <2>3. QED
    BY <1>7, <2>2, SchemaStays DEF CallTraverse
<1>8. QED
  BY <1>1, <1>2, <1>3, <1>4, <1>5, <1>6, <1>7

-----------------------------------------------------------------------------
(* The theorems.                                                            *)

LEMMA InitConnection == Init => ConnectionInv
<1> SUFFICES ASSUME Init PROVE ConnectionInv
  OBVIOUS
<1> USE LadybugConnectionAssumption
<1>1. TypeOK
  BY DEF Init, TypeOK, Handles, Conns
<1>2. NamespaceInv
  BY IdleIsNoCall DEF Init, NamespaceInv
<1>3. HandleInv /\ TenantKeepsConnection
  BY DEF Init, HandleInv, TenantKeepsConnection
<1>4. CapInv
  BY DEF Init, CapInv
<1>5. SchemaInv
  BY DEF Init, SchemaInv
<1>6. QED
  BY <1>1, <1>2, <1>3, <1>4, <1>5 DEF ConnectionInv

\* The four parts and the types hold of every state: each step keeps each part.
THEOREM ConnectionInvariance == Spec => []ConnectionInv
<1>1. ConnectionInv /\ [Next]_vars => ConnectionInv'
  <2> SUFFICES ASSUME ConnectionInv, [Next]_vars
               PROVE  ConnectionInv'
    OBVIOUS
  <2>1. CASE CallStep
    BY <2>1, StepKeepsType, StepKeepsNamespace, StepKeepsHandles,
       StepKeepsCaps, StepKeepsSchema DEF ConnectionInv
  <2> DEFINE Host1 == \/ \E n \in Caps : HostSetsCap(n)
                      \/ Begin \/ Commit \/ Rollback \/ HostCloses
             Call1 == \E b \in Backends :
                        \/ \E ns \in Namespaces :
                             CallOpen(b, ns) \/ CallFromConnection(b, ns)
                        \/ CallClose(b)
                        \/ \E depth \in Depths : CallTraverse(b, depth)
  <2>2. CASE Host1 \/ Call1
    <3>1. TypeOK'
      BY <2>2, HostKeepsType, NewCallKeepsType DEF ConnectionInv
    <3>2. /\ HandleInv' /\ TenantKeepsConnection' /\ CapInv' /\ SchemaInv'
      BY <2>2, OutsideKeepsHandles, OutsideKeepsCaps, OutsideKeepsSchema
      DEF ConnectionInv
    <3>3. NamespaceInv'
      <4>1. CASE Host1
        BY <4>1, IdleIsNoCall
        DEF HostSetsCap, Begin, Commit, Rollback, HostCloses, NamespaceInv
      <4>2. ASSUME NEW b \in Backends, NEW ns \in Namespaces,
                   CallOpen(b, ns) \/ CallFromConnection(b, ns)
            PROVE  NamespaceInv'
        BY <4>2, NewFrame, LadybugConnectionAssumption
        DEF CallOpen, CallFromConnection, NamespaceInv, Steps
      <4>3. ASSUME NEW b \in Backends, CallClose(b)
            PROVE  NamespaceInv'
        BY <4>3, IdleIsNoCall DEF CallClose, Frame, NamespaceInv
      <4>4. ASSUME NEW b \in Backends, NEW depth \in Depths,
                   CallTraverse(b, depth)
            PROVE  NamespaceInv'
        BY <4>4 DEF CallTraverse, Frame, NamespaceInv
      <4>5. QED
        BY <2>2, <4>1, <4>2, <4>3, <4>4
    <3>4. QED
      BY <3>1, <3>2, <3>3 DEF ConnectionInv
  <2>3. CASE UNCHANGED vars
    BY <2>3
    DEF vars, open, schema, caps, ConnectionInv, TypeOK, NamespaceInv, HandleInv,
        TenantKeepsConnection, CapInv, SchemaInv, Answers, Made, conn
  <2>4. QED
    BY <2>1, <2>2, <2>3 DEF Next
<1>2. QED
  BY <1>1, InitConnection, PTL DEF Spec

\* Whatever fails, in whatever order, nothing a backend opened is left without
\* a close that was tried.
THEOREM NothingIsLeft == Spec => []NothingLeft
<1>1. ConnectionInv => NothingLeft
  BY DEF ConnectionInv, HandleInv, NothingLeft, Answers
<1>2. QED
  BY <1>1, ConnectionInvariance, PTL

\* No backend closes what the host lent it.
THEOREM HostKeepsItsConnection == Spec => []TenantKeepsConnection
<1>1. ConnectionInv => TenantKeepsConnection
  BY DEF ConnectionInv
<1>2. QED
  BY <1>1, ConnectionInvariance, PTL

\* Every variable keeps its type, whatever fails.
THEOREM ConnectionTypes == Spec => []TypeOK
<1>1. ConnectionInv => TypeOK
  BY DEF ConnectionInv
<1>2. QED
  BY <1>1, ConnectionInvariance, PTL

\* The cap after a walk is the cap before it, unless it could not be read or the
\* statement that puts it back failed.
THEOREM CapIsPutBack == Spec => []CapIsGiven
<1>1. ConnectionInv => CapIsGiven
  BY DEF ConnectionInv, CapInv, CapIsGiven
<1>2. QED
  BY <1>1, ConnectionInvariance, PTL

\* The cap in a walk is enough for it: Ladybug never cuts the walk short.
THEOREM CapIsEnough == Spec => []WalkFits
<1>1. ConnectionInv => WalkFits
  <2> SUFFICES ASSUME ConnectionInv, call.at \in {"walk", "lifted_walk"},
                      conn \notin doubtful
               PROVE  call.bound <= cap[conn]
    BY DEF WalkFits
  <2>1. call \in Calls /\ call # Idle
    BY StepIsCalls DEF ConnectionInv, Steps
  <2>2. QED
    BY <2>1 DEF ConnectionInv, CapInv, Calls
<1>2. QED
  BY <1>1, ConnectionInvariance, PTL

\* A backend in use never finds half of its schema.
THEOREM SchemaIsWhole == Spec => []SchemaWhole
<1>1. ConnectionInv => SchemaWhole
  <2> SUFFICES ASSUME ConnectionInv, NEW b \in DOMAIN live \ undone,
                      NEW i \in DOMAIN Tables
               PROVE  <<IF live[b].owned THEN b ELSE Host, live[b].ns, Tables[i]>>
                        \in tables \cup drafts
    BY DEF SchemaWhole
  <2>1. i \in 1 .. Len(Tables)
    BY LadybugConnectionAssumption
  <2>2. QED
    BY <2>1 DEF ConnectionInv, SchemaInv, Made
<1>2. QED
  BY <1>1, ConnectionInvariance, PTL

-----------------------------------------------------------------------------
(* A database is closed after the connection to it.                         *)

\* What a call closes is no backend's in use: its own, or one the call is
\* closing and has marked so.
ClosingInv ==
  call.at \in {"close_conn", "close_db"} =>
    (call.b \in DOMAIN live => live[call.b].closed)

LEMMA StepKeepsClosing ==
  ASSUME ConnectionInv, ClosingInv, [Next]_vars
  PROVE  ClosingInv'
<1>1. ASSUME call.at \in Setup, call'.at \notin {"close_conn", "close_db"}
             \/ (call'.b = call.b /\ live' = live)
      PROVE  ClosingInv'
  <2>1. call \in Calls /\ call # Idle /\ call.b \notin DOMAIN live
    BY <1>1, StepIsCalls DEF ConnectionInv, HandleInv, Setup, Steps
  <2>2. QED
    BY <1>1, <2>1 DEF ClosingInv
<1>2. CASE OpenDatabase \/ OpenConnection \/ ValidateNamespace
           \/ BootstrapStatement \/ BackendReturned
  <2>1. call \in Calls /\ call.at \in Setup
    BY <1>2, StepIsCalls
    DEF OpenDatabase, OpenConnection, ValidateNamespace, BootstrapStatement,
        BackendReturned, ConnectionInv, Setup, Steps
  <2>2. \/ call' = Idle
        \/ call'.at \notin {"close_conn", "close_db"}
        \/ call'.b = call.b /\ live' = live
    BY <1>2, <2>1, GotoFrame
    DEF OpenDatabase, OpenConnection, ValidateNamespace, BootstrapStatement,
        BackendReturned, InitFails, Return, Setup, Steps, Calls
  <2>3. QED
    BY <1>1, <2>1, <2>2, IdleIsNoCall
<1>3. CASE CloseConnection \/ CloseDatabase
  <2>1. call \in Calls /\ call.at \in {"close_conn", "close_db"}
    BY <1>3, StepIsCalls
    DEF CloseConnection, CloseDatabase, ConnectionInv, Steps
  <2>2. live' = live /\ (call' = Idle \/ call'.b = call.b)
    BY <1>3, <2>1, GotoFrame DEF CloseConnection, CloseDatabase, Return, Steps
  <2>3. QED
    BY <2>1, <2>2, IdleIsNoCall DEF ClosingInv
<1>4. CASE ReadCap \/ LiftCap \/ WalkSucceeds \/ WalkFails \/ RestoreCap
  <2>1. call \in Calls
    BY <1>4, StepIsCalls
    DEF ReadCap, LiftCap, WalkSucceeds, WalkFails, RestoreCap, ConnectionInv,
        Steps
  <2>2. call'.at \in {"lift", "walk", "lifted_walk", "restore", "idle"}
    BY <1>4, <2>1, GotoFrame, IdleIsNoCall
    DEF ReadCap, LiftCap, WalkSucceeds, WalkFails, RestoreCap,
        StatementRaises, Return, Steps, Calls
  <2>3. QED
    BY <2>2 DEF ClosingInv
<1>5. CASE \/ \E n \in Caps : HostSetsCap(n)
           \/ Begin \/ Commit \/ Rollback \/ HostCloses \/ UNCHANGED vars
  BY <1>5
  DEF HostSetsCap, Begin, Commit, Rollback, HostCloses, vars, ClosingInv
<1>6. ASSUME NEW b \in Backends, NEW ns \in Namespaces,
             CallOpen(b, ns) \/ CallFromConnection(b, ns)
      PROVE  ClosingInv'
  BY <1>6 DEF CallOpen, CallFromConnection, Frame, ClosingInv
<1>7. ASSUME NEW b \in Backends, CallClose(b)
      PROVE  ClosingInv'
  <2>1. live'[b].closed
    BY <1>7 DEF CallClose, ConnectionInv, TypeOK
  <2>2. call' = Idle \/ call'.b = b
    BY <1>7 DEF CallClose, Frame
  <2>3. QED
    BY <2>1, <2>2, IdleIsNoCall DEF ClosingInv
<1>8. ASSUME NEW b \in Backends, NEW depth \in Depths, CallTraverse(b, depth)
      PROVE  ClosingInv'
  BY <1>8 DEF CallTraverse, Frame, ClosingInv
<1>9. QED
  BY <1>2, <1>3, <1>4, <1>5, <1>6, <1>7, <1>8 DEF Next, CallStep

\* The only step that takes a database away is the last of a close.
LEMMA DatabaseGoesLast ==
  ASSUME ConnectionInv, ClosingInv, Next, NEW b \in Backends,
         <<"db", b>> \in handles \ handles'
  PROVE  <<"conn", b>> \notin handles \ tried
<1>1. CASE CloseDatabase
  <2>1. call \in Calls /\ call # Idle /\ call.at = "close_db"
    BY <1>1, StepIsCalls DEF CloseDatabase, ConnectionInv, Steps
  <2>2. call.owned /\ conn = b /\ call.b = b
    BY <1>1, <2>1 DEF CloseDatabase, CloseHandle, ConnectionInv, HandleInv, conn
  <2>3. b \in DOMAIN live => live[b].closed
    BY <2>1, <2>2 DEF ClosingInv
  <2>4. ~ Answers("conn", b)
    BY <2>1 DEF Answers
  <2>5. QED
    BY <2>3, <2>4 DEF ConnectionInv, HandleInv
<1>2. CASE ~ CloseDatabase
  BY <1>2
  DEF Next, CallStep, OpenDatabase, OpenConnection, ValidateNamespace,
      BootstrapStatement, BackendReturned, CloseConnection, CloseHandle,
      ReadCap, LiftCap, WalkSucceeds, WalkFails, RestoreCap, HostSetsCap,
      Begin, Commit, Rollback, HostCloses, CallOpen, CallFromConnection,
      Attempt, CallClose, CallTraverse, Opened, open
<1>3. QED
  BY <1>1, <1>2

\* No database is closed before its connection's close was tried, on any path
\* of a failed open or of a close.
THEOREM ConnectionGoesFirst == Spec => ConnectionFirst
<1>1. Init => ClosingInv
  BY IdleIsNoCall DEF Init, ClosingInv
<1>2. ConnectionInv /\ ClosingInv /\ [Next]_vars => ClosingInv'
  BY StepKeepsClosing
<1>3. ConnectionInv /\ ClosingInv /\ [Next]_vars =>
        [\A b \in Backends :
           <<"db", b>> \in handles \ handles' =>
             <<"conn", b>> \notin handles \ tried]_vars
  BY DatabaseGoesLast
<1>4. QED
  BY <1>1, <1>2, <1>3, ConnectionInvariance, PTL DEF Spec, ConnectionFirst
=============================================================================
