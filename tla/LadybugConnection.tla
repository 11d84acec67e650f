------------------------- MODULE LadybugConnection -------------------------
(***************************************************************************)
(* What LadybugBackend (backends/ladybug.py) does to the connection it is  *)
(* on, and to the database behind it: open, from_connection, close, the    *)
(* schema bootstrap, and the hop cap that traverse lifts and puts back.    *)
(*                                                                         *)
(* One call runs at a time, a statement per step, and every statement and  *)
(* every close may fail.  Between calls the host, whose connection the     *)
(* tenants share, sets its cap, opens and ends transactions, and closes.   *)
(* Ladybug is external: whether a rolled-back transaction takes the tables *)
(* made in it along is left open.                                          *)
(***************************************************************************)
EXTENDS Naturals, Sequences

CONSTANTS
  Backends,      \* bound: the backends; also names what `open` opens for each
  Host,          \* the host's database and connection
  Namespaces,    \* namespaces callers pass
  Valid,         \* those that _NS_RE matches
  Caps,          \* caps the host sets
  Depths,        \* max_depth values callers pass, in place of None the ceiling
  DefaultCap,    \* _DEFAULT_HOP_CAP, Ladybug's own default
  Tables         \* the tables of _bootstrap_schema, in its order: seven there

TableNames == {Tables[i] : i \in DOMAIN Tables}

ASSUME LadybugConnectionAssumption ==
  /\ Host \notin Backends
  /\ Valid \subseteq Namespaces
  /\ Caps \subseteq Nat /\ Depths \subseteq Nat /\ DefaultCap \in Nat
  /\ Tables \in Seq(TableNames) /\ Tables # <<>>

Conns == Backends \cup {Host}
Handles == {"db", "conn"} \X Conns

VARIABLES
  \* databases and connections: which are open, and (history) on which a
  \* backend has called close
  handles, tried,
  \* the tables <<database, namespace, table>>; the host's connection: whether
  \* it has a transaction, the tables made in it, and (history) the tenants set
  \* up in it, and in one since rolled back
  tables, inTxn, drafts, inside, undone,
  \* var_length_extend_max_depth of each connection; (history) as its holder
  \* set it, and the connections where it could not be read or put back
  cap, given, doubtful,
  live,      \* the backends their callers hold
  call       \* the call in progress

open == <<handles, tried>>
schema == <<tables, inTxn, drafts, inside, undone>>
caps == <<cap, given, doubtful>>
vars == <<open, schema, caps, live, call>>

Idle == [at |-> "idle"]

\* at: the next step; ddl: tables bootstrapped; prior: prior_cap
Frame(at, b, owned, ns, bound) ==
  [at |-> at, b |-> b, owned |-> owned, ns |-> ns, bound |-> bound,
   prior |-> 0, ddl |-> 0]

Goto(at) == call' = [call EXCEPT !.at = at]
Return == call' = Idle

\* self._conn, which names its database too
conn == IF call.owned THEN call.b ELSE Host

IsOpen(c) == <<"conn", c>> \in handles

-----------------------------------------------------------------------------
(* Statements.                                                              *)

\* Ladybug ends the transaction.
TransactionLost ==
  /\ tables' \in {tables, tables \cup drafts}
  /\ inTxn' = FALSE /\ drafts' = {} /\ inside' = {}
  /\ undone' = undone \cup inside

\* A statement that fails may end the transaction it ran in.
StatementFails ==
  \/ UNCHANGED schema
  \/ conn = Host /\ inTxn /\ TransactionLost

-----------------------------------------------------------------------------
(* open and from_connection.                                                *)

\* The database and the connection of an earlier open(b) are closed, and what
\* is in that database is still there.
Unused(b) == b \notin DOMAIN live /\ \A h \in handles : h[2] # b

\* A new attempt: what an earlier one of b did is over.
Attempt(b) ==
  /\ call = Idle /\ Unused(b)
  /\ inside' = inside \ {b} /\ undone' = undone \ {b}
  /\ UNCHANGED <<open, tables, inTxn, drafts, caps, live>>

CallOpen(b, ns) ==
  /\ Attempt(b)
  /\ call' = Frame("database", b, TRUE, ns, 0)

CallFromConnection(b, ns) ==
  /\ Attempt(b)
  /\ call' = Frame("init", b, FALSE, ns, 0)

Opened(h) == handles' = handles \cup {h} /\ tried' = tried \ {h}

OpenDatabase ==
  /\ call.at = "database"
  /\ \/ Opened(<<"db", call.b>>) /\ Goto("connection")
     \/ Return /\ UNCHANGED open
  /\ UNCHANGED <<schema, caps, live>>

\* A new connection has Ladybug's default cap.
OpenConnection ==
  /\ call.at = "connection"
  /\ \/ /\ Opened(<<"conn", call.b>>) /\ Goto("init")
        /\ cap' = [cap EXCEPT ![call.b] = DefaultCap]
        /\ given' = [given EXCEPT ![call.b] = DefaultCap]
        /\ doubtful' = doubtful \ {call.b}
     \/ Goto("close_db") /\ UNCHANGED <<open, caps>>
  /\ UNCHANGED <<schema, live>>

\* Mutated form of InitFails: __init__ leaves behind what was opened.
InitFailsOpen == Return

\* Mutated form of InitFails: only the database is closed.
InitFailsHalf == IF call.owned THEN Goto("close_db") ELSE Return

\* The exception leaves __init__: the ExitStack of open closes the connection
\* and then the database; from_connection has nothing to close.
InitFails == IF call.owned THEN Goto("close_conn") ELSE Return

\* Mutated form of ValidateNamespace: any namespace will do.
ValidateNothing ==
  /\ call.at = "init"
  /\ Goto("ddl")
  /\ UNCHANGED <<open, schema, caps, live>>

ValidateNamespace ==
  /\ call.at = "init"
  /\ IF call.ns \in Valid THEN Goto("ddl") ELSE InitFails
  /\ UNCHANGED <<open, schema, caps, live>>

\* Mutated form of NextTable: a database that has the first table is taken for
\* one that has them all.
NextTableOnce ==
  IF <<conn, call.ns, Tables[1]>> \in tables THEN Len(Tables) ELSE call.ddl + 1

NextTable == call.ddl + 1

\* CREATE ... IF NOT EXISTS, in the transaction of the connection if it has one.
CreateTable ==
  LET table == <<conn, call.ns, Tables[call.ddl + 1]>>
  IN  /\ IF conn = Host /\ inTxn
         THEN /\ drafts' = drafts \cup ({table} \ tables)
              /\ inside' = inside \cup {call.b}
              /\ UNCHANGED tables
         ELSE tables' = tables \cup {table} /\ UNCHANGED <<drafts, inside>>
      /\ UNCHANGED <<inTxn, undone>>

BootstrapStatement ==
  /\ call.at = "ddl" /\ call.ddl < Len(Tables)
  /\ \/ IsOpen(conn) /\ CreateTable /\ call' = [call EXCEPT !.ddl = NextTable]
     \/ InitFails /\ StatementFails
  /\ UNCHANGED <<open, caps, live>>

\* opened.pop_all(), and the backend is its caller's.
BackendReturned ==
  /\ call.at = "ddl" /\ call.ddl = Len(Tables)
  /\ live' = [b \in DOMAIN live \cup {call.b} |->
                IF b = call.b
                THEN [owned |-> call.owned, ns |-> call.ns, closed |-> FALSE]
                ELSE live[b]]
  /\ Return
  /\ UNCHANGED <<open, schema, caps>>

-----------------------------------------------------------------------------
(* close, and the end of a failed open: the connection, then the database.  *)

\* Mutated form of Closes: a tenant closes the connection it is on.
ClosesAny(b) == TRUE

Closes(b) == live[b].owned

CallClose(b) ==
  /\ call = Idle /\ b \in DOMAIN live
  /\ live' = [live EXCEPT ![b].closed = TRUE]
  /\ call' = IF Closes(b)
             THEN Frame("close_conn", b, live[b].owned, live[b].ns, 0) ELSE Idle
  /\ UNCHANGED <<open, schema, caps>>

\* close() of one handle; one that raises may leave it open.
CloseHandle(h) ==
  /\ handles' \in {handles \ {h}, handles}
  /\ tried' = tried \cup {h}

\* Raising, it goes on to the database.
CloseConnection ==
  /\ call.at = "close_conn"
  /\ CloseHandle(<<"conn", conn>>)
  /\ Goto("close_db")
  /\ UNCHANGED <<schema, caps, live>>

CloseDatabase ==
  /\ call.at = "close_db"
  /\ CloseHandle(<<"db", conn>>)
  /\ Return
  /\ UNCHANGED <<schema, caps, live>>

-----------------------------------------------------------------------------
(* The statements of traverse.                                              *)

\* A bound of zero is a query of its own, which needs no cap.
CallTraverse(b, depth) ==
  /\ call = Idle /\ b \in DOMAIN live
  /\ call' = Frame(IF depth = 0 THEN "probe" ELSE "read",
                   b, live[b].owned, live[b].ns, depth)
  /\ UNCHANGED <<open, schema, caps, live>>

StatementRaises == Return /\ StatementFails

\* Mutated form of Lifts: measured against the default.
LiftsPastDefault(read) == call.bound > DefaultCap

Lifts(read) == call.bound > read

\* _read_var_length_cap: the live value, or the default if no row has it.
ReadCap ==
  /\ call.at = "read"
  /\ \/ /\ IsOpen(conn)
        /\ \E read \in {cap[conn], DefaultCap} :
             /\ doubtful' = doubtful \cup {c \in {conn} : read # cap[c]}
             /\ call' = [call EXCEPT !.prior = read,
                                     !.at = IF Lifts(read) THEN "lift" ELSE "walk"]
        /\ UNCHANGED schema
     \/ StatementRaises /\ UNCHANGED doubtful
  /\ UNCHANGED <<open, cap, given, live>>

LiftCap ==
  /\ call.at = "lift"
  /\ \/ /\ IsOpen(conn)
        /\ cap' = [cap EXCEPT ![conn] = call.bound] /\ Goto("lifted_walk")
        /\ UNCHANGED schema
     \/ StatementRaises /\ UNCHANGED cap
  /\ UNCHANGED <<open, given, doubtful, live>>

WalkSucceeds ==
  /\ call.at \in {"probe", "walk", "lifted_walk"} /\ IsOpen(conn)
  /\ IF call.at = "lifted_walk" THEN Goto("restore") ELSE Return
  /\ UNCHANGED <<open, schema, caps, live>>

\* Mutated form of WalkFails: there is no finally.
WalkFailsAtOnce ==
  /\ call.at \in {"probe", "walk", "lifted_walk"}
  /\ Return
  /\ StatementFails
  /\ UNCHANGED <<open, caps, live>>

WalkFails ==
  /\ call.at \in {"probe", "walk", "lifted_walk"}
  /\ IF call.at = "lifted_walk" THEN Goto("restore") ELSE Return
  /\ StatementFails
  /\ UNCHANGED <<open, caps, live>>

RestoreCap ==
  /\ call.at = "restore"
  /\ \/ /\ IsOpen(conn)
        /\ cap' = [cap EXCEPT ![conn] = call.prior]
        /\ Return /\ UNCHANGED <<schema, doubtful>>
     \/ /\ StatementRaises
        /\ doubtful' = doubtful \cup {conn} /\ UNCHANGED cap
  /\ UNCHANGED <<open, given, live>>

-----------------------------------------------------------------------------
(* The host, between calls.                                                 *)

HostSetsCap(n) ==
  /\ call = Idle /\ IsOpen(Host)
  /\ cap' = [cap EXCEPT ![Host] = n] /\ given' = [given EXCEPT ![Host] = n]
  /\ doubtful' = doubtful \ {Host}
  /\ UNCHANGED <<open, schema, live, call>>

\* By the host, or by the unit_of_work of a tenant.
Begin ==
  /\ call = Idle /\ IsOpen(Host) /\ ~ inTxn
  /\ inTxn' = TRUE
  /\ UNCHANGED <<open, tables, drafts, inside, undone, caps, live, call>>

Commit ==
  /\ call = Idle /\ inTxn
  /\ inTxn' = FALSE /\ tables' = tables \cup drafts
  /\ drafts' = {} /\ inside' = {}
  /\ UNCHANGED <<open, undone, caps, live, call>>

Rollback ==
  /\ call = Idle /\ inTxn
  /\ TransactionLost
  /\ UNCHANGED <<open, caps, live, call>>

HostCloses ==
  /\ call = Idle /\ IsOpen(Host)
  /\ handles' = handles \ {<<"conn", Host>>}
  /\ TransactionLost
  /\ UNCHANGED <<tried, caps, live, call>>

-----------------------------------------------------------------------------
Init ==
  /\ handles = {"db", "conn"} \X {Host} /\ tried = {}
  /\ tables = {} /\ inTxn = FALSE /\ drafts = {}
  /\ inside = {} /\ undone = {}
  /\ cap = [c \in Conns |-> DefaultCap] /\ given = cap /\ doubtful = {}
  /\ live = [b \in {} |-> {}]
  /\ call = Idle

CallStep ==
  \/ OpenDatabase \/ OpenConnection \/ ValidateNamespace
  \/ BootstrapStatement \/ BackendReturned
  \/ CloseConnection \/ CloseDatabase
  \/ ReadCap \/ LiftCap \/ WalkSucceeds \/ WalkFails \/ RestoreCap

Next ==
  \/ CallStep
  \/ \E n \in Caps : HostSetsCap(n)
  \/ Begin \/ Commit \/ Rollback \/ HostCloses
  \/ \E b \in Backends :
       \/ \E ns \in Namespaces : CallOpen(b, ns) \/ CallFromConnection(b, ns)
       \/ CallClose(b)
       \/ \E depth \in Depths : CallTraverse(b, depth)

Spec == Init /\ [][Next]_vars

-----------------------------------------------------------------------------
Steps == {"database", "connection", "init", "ddl", "close_conn", "close_db",
          "read", "lift", "walk", "lifted_walk", "probe", "restore"}

Calls == [at : Steps, b : Backends, owned : BOOLEAN, ns : Namespaces,
          bound : Nat, prior : Nat, ddl : 0 .. Len(Tables)]

\* Every variable has its type.
TypeOK ==
  /\ handles \subseteq Handles /\ tried \subseteq Handles
  /\ tables \cup drafts \subseteq Conns \X Namespaces \X TableNames
  /\ inTxn \in BOOLEAN
  /\ inside \subseteq Backends /\ undone \subseteq Backends
  /\ cap \in [Conns -> Nat] /\ given \in [Conns -> Nat]
  /\ doubtful \subseteq Conns
  /\ DOMAIN live \subseteq Backends
  /\ \A b \in DOMAIN live :
       live[b] \in [owned : BOOLEAN, ns : Valid, closed : BOOLEAN]
  /\ call \in Calls \cup {Idle}

\* Whatever failed on the way, a failed open and a close leave no database and
\* no connection that they did not try to close.
NothingLeft ==
  call = Idle =>
    \A h \in handles \ tried :
      h[2] \in Backends =>
        h[2] \in DOMAIN live /\ live[h[2]].owned /\ ~ live[h[2]].closed

\* A database is not closed under a connection to it: the connection's close
\* comes first.
ConnectionFirst ==
  [][\A b \in Backends :
       <<"db", b>> \in handles \ handles' =>
         <<"conn", b>> \notin handles \ tried]_vars

\* No backend closes the host's connection, a failed from_connection and a
\* tenant's close included, nor its database.
TenantKeepsConnection == \A h \in tried : h[2] # Host

\* A walk leaves the cap as the connection's holder set it, whichever of its
\* statements fail, other than the reading and the restoring one.
CapIsGiven ==
  call = Idle => \A c \in Conns \ doubtful : cap[c] = given[c]

\* A walk fits under the cap, also when the holder set it below the default.
WalkFits ==
  (call.at \in {"walk", "lifted_walk"} /\ conn \notin doubtful) =>
    call.bound <= cap[conn]

\* A backend in use has all of its tables, whatever an earlier attempt left of
\* them, unless it was set up inside a transaction that was rolled back.
SchemaWhole ==
  \A b \in DOMAIN live \ undone : \A i \in DOMAIN Tables :
    <<IF live[b].owned THEN b ELSE Host, live[b].ns, Tables[i]>>
      \in tables \cup drafts
=============================================================================
