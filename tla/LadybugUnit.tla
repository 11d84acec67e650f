---------------------------- MODULE LadybugUnit ----------------------------
(***************************************************************************)
(* LadybugBackend.unit_of_work (backends/ladybug.py): the units open on    *)
(* one connection, the bookkeeping _exec and _restore keep for them in     *)
(* _UNITS, and what a unit tells its caller when it ends.                  *)
(*                                                                         *)
(* The database is external: one transaction per connection; a statement   *)
(* that fails may end it, a COMMIT or ROLLBACK that fails may end it or    *)
(* leave it open, and commits nothing; a write outside it commits by       *)
(* itself.  The block inside a unit is free: it writes, catches failures   *)
(* and goes on, opens units, and, entering them by hand, exits them in any *)
(* order.                                                                  *)
(***************************************************************************)
EXTENDS Naturals, FiniteSets

CONSTANTS
  Units,         \* bound: the units ever opened, numbered in that order
  MaxWrites,     \* bound: writes made inside units
  NoUnit,        \* no unit: _UNITS has no entry, or the database no transaction
  BareFailures,  \* whether statements fail on the bare connection
  Closes,        \* whether the connection is closed under an open unit
  EndFailures    \* whether COMMIT and ROLLBACK fail on an open connection

ASSUME LadybugUnitAssumption ==
  /\ Units \subseteq Nat \ {0}
  /\ MaxWrites \in Nat
  /\ NoUnit \notin Units
  /\ {BareFailures, Closes, EndFailures} \subseteq BOOLEAN

Writes == 1 .. MaxWrites

VARIABLES
  \* Ladybug
  txn,        \* the unit whose BEGIN opened the transaction, or NoUnit
  pending,    \* writes in the open transaction
  committed,  \* writes in the database
  closed,     \* the connection is closed
  \* backends/ladybug.py
  current,    \* _UNITS[conn]
  unit,       \* the _Unit of each unit opened so far
  \* what the callers are told
  result,     \* how each unit ended, and the note it ended with
  \* history, read by no action
  made,       \* the writes a unit answers for
  hurt,       \* units in which a statement failed
  unseen,     \* units with a failure no backend saw
  blind,      \* units that saw a later failure after an unseen one
  astray      \* units left in a transaction a unit inside them failed to end

database == <<txn, pending, committed, closed>>
history == <<made, hurt, unseen, blind, astray>>
vars == <<database, current, unit, result, history>>

Fresh(outer) == [failed |-> FALSE, writesAfter |-> 0, writes |-> 0,
                 outer |-> outer, done |-> FALSE]

Opened == DOMAIN unit
Open == {u \in Opened : ~ unit[u].done}

NotEnded == [how |-> "open", note |-> "none", count |-> 0]

Ended(how, note, count) == [how |-> how, note |-> note, count |-> count]

-----------------------------------------------------------------------------
(* _exec: what a statement does to the current unit's record.               *)

\* The first failure that may have ended the transaction is remembered.
MarkFailed(u) == [unit EXCEPT ![u].failed = TRUE]

\* Mutated form of CountWrite: once a statement failed, writes stand still.
CountWriteEither(u) ==
  IF unit[u].failed THEN [unit EXCEPT ![u].writesAfter = @ + 1]
  ELSE [unit EXCEPT ![u].writes = @ + 1]

\* Mutated form of CountWrite: writes_after is not counted.
CountWriteBeforeOnly(u) == [unit EXCEPT ![u].writes = @ + 1]

CountWrite(u) ==
  [unit EXCEPT ![u].writes = @ + 1,
               ![u].writesAfter = @ + (IF unit[u].failed THEN 1 ELSE 0)]

SeenFailure ==
  IF current = NoUnit THEN UNCHANGED <<unit, hurt, blind>>
  ELSE /\ unit' = MarkFailed(current)
       /\ hurt' = hurt \cup {current}
       /\ blind' = blind \cup
            (IF current \in unseen /\ ~ unit[current].failed
             THEN {current} ELSE {})

Write ==
  \E w \in Writes \ UNION {made[u] : u \in Opened} :
    /\ \A v \in Writes : v < w => \E u \in Opened : v \in made[u]
    /\ current # NoUnit /\ ~ closed
    /\ IF txn = NoUnit
       THEN committed' = committed \cup {w} /\ UNCHANGED pending
       ELSE pending' = pending \cup {w} /\ UNCHANGED committed
    /\ unit' = CountWrite(current)
    /\ made' = [made EXCEPT ![current] = @ \cup {w}]
    /\ UNCHANGED <<txn, closed, current, result, hurt, unseen, blind, astray>>

\* A failure Ladybug rolls the transaction back for, or one that leaves it
\* open but is not on the list of those known to.
StatementFails ==
  /\ current # NoUnit
  /\ \/ txn' = NoUnit /\ pending' = {}
     \/ ~ closed /\ UNCHANGED <<txn, pending>>
  /\ SeenFailure
  /\ UNCHANGED <<committed, closed, current, result, made, unseen, astray>>

\* A failure in _KEEPS_TRANSACTION.
StatementRefused ==
  /\ current # NoUnit /\ ~ closed
  /\ hurt' = hurt \cup {current}
  /\ UNCHANGED <<database, current, unit, result, made, unseen, blind, astray>>

BareStatementFails ==
  /\ BareFailures /\ current # NoUnit /\ txn # NoUnit
  /\ txn' = NoUnit /\ pending' = {}
  /\ hurt' = hurt \cup {current}
  /\ unseen' = unseen \cup {current}
  /\ UNCHANGED <<committed, closed, current, unit, result, made, blind, astray>>

CloseConnection ==
  /\ Closes /\ ~ closed /\ current # NoUnit
  /\ closed' = TRUE /\ txn' = NoUnit /\ pending' = {}
  /\ UNCHANGED <<committed, current, unit, result, history>>

-----------------------------------------------------------------------------
(* unit_of_work.                                                            *)

\* Units come into use in the order of their numbers.
NextUnit == {u \in Units \ Opened : \A v \in Units \ Opened : u <= v}

\* BEGIN inside an open transaction fails and ends it, as any failure may.
BeginFails ==
  /\ NextUnit # {}
  /\ txn # NoUnit \/ closed
  /\ txn' = NoUnit /\ pending' = {}
  /\ SeenFailure
  /\ UNCHANGED <<committed, closed, current, result, made, unseen, astray>>

\* Mutated form of Begin: the unit is registered, no transaction opened.
BeginNothing(u) ==
  /\ txn = NoUnit /\ ~ closed
  /\ unit' = [v \in Opened \cup {u} |->
                IF v = u THEN Fresh(current) ELSE unit[v]]
  /\ result' = [v \in Opened \cup {u} |->
                  IF v = u THEN NotEnded ELSE result[v]]
  /\ made' = [v \in Opened \cup {u} |-> IF v = u THEN {} ELSE made[v]]
  /\ current' = u
  /\ UNCHANGED <<database, hurt, unseen, blind, astray>>

Begin(u) ==
  /\ txn = NoUnit /\ ~ closed
  /\ txn' = u
  /\ unit' = [v \in Opened \cup {u} |->
                IF v = u THEN Fresh(current) ELSE unit[v]]
  /\ result' = [v \in Opened \cup {u} |->
                  IF v = u THEN NotEnded ELSE result[v]]
  /\ made' = [v \in Opened \cup {u} |-> IF v = u THEN {} ELSE made[v]]
  /\ current' = u
  /\ UNCHANGED <<pending, committed, closed, hurt, unseen, blind, astray>>

\* The chain of outer units of u: the least set that holds the outer unit of
\* u and of each of its members.
Around(u) ==
  {v \in Opened :
     \A S \in SUBSET Opened :
       (\A w \in S \cup {u} : unit[w].outer \in S \cup {NoUnit}) => v \in S}

\* The nearest unit around u that is still open, the exited ones passed over.
\* A unit opens inside the ones before it.
LiveOuter(u) ==
  {v \in Around(u) \cap Open : \A w \in Around(u) \cap Open : w <= v}

\* _restore, in the finally of unit_of_work: `kept` writes of u count in the
\* units `outer`, and `next` is the current unit from here on.
Settle(u, kept, outer, next) ==
  /\ unit' = [v \in Opened |->
       IF v = u THEN [unit[u] EXCEPT !.done = TRUE]
       ELSE IF v \notin outer THEN unit[v]
       ELSE [unit[v] EXCEPT
               !.writes = @ + kept,
               !.writesAfter = @ + (IF unit[v].failed THEN kept ELSE 0)]]
  /\ current' = next
  /\ made' = [v \in Opened |->
                IF v \in outer THEN made[v] \cup made[u] ELSE made[v]]
  /\ hurt' = hurt \cup (IF u \in hurt THEN outer ELSE {})
  /\ blind' = blind \cup (IF u \in blind THEN outer ELSE {})
  /\ astray' = astray \cup
       (IF u \in astray \/ (u = current /\ txn' # NoUnit) THEN outer ELSE {})
  /\ UNCHANGED unseen

OnlyElse(S, default) == IF S = {} THEN default ELSE CHOOSE v \in S : TRUE

\* Mutated form of Restore: an exited outer unit is put back.
RestoreExited(u, kept) ==
  Settle(u, kept, {unit[u].outer} \ {NoUnit},
         IF current # u THEN current ELSE unit[u].outer)

\* Mutated form of Restore: the current unit is replaced by whoever exits.
RestoreAlways(u, kept) ==
  Settle(u, kept, LiveOuter(u), OnlyElse(LiveOuter(u), NoUnit))

Restore(u, kept) ==
  Settle(u, kept, LiveOuter(u),
         IF current # u THEN current ELSE OnlyElse(LiveOuter(u), NoUnit))

\* Mutated form of MayBeKept: with no failure seen, nothing is kept.
MayBeKeptSeen(u) == unit[u].writesAfter

\* The writes of u that may be in place, as u's own record has it.
MayBeKept(u) == IF unit[u].failed THEN unit[u].writesAfter ELSE unit[u].writes

\* _lost_note or _unseen_note.
GoneNote(u) == IF unit[u].failed THEN "lost" ELSE "unseen"

\* On the block's own exception the note is left out when nothing is lost.
Reports(u, how) ==
  IF MayBeKept(u) = 0 THEN Ended(how, "none", 0)
  ELSE Ended(how, GoneNote(u), MayBeKept(u))

Tell(u, ended) == result' = [result EXCEPT ![u] = ended]

\* The block raised while a unit opened inside it is still open.
RaiseEarly(u) ==
  /\ u \in Open /\ current # u
  /\ Tell(u, Reports(u, "raised"))
  /\ Restore(u, MayBeKept(u))
  /\ UNCHANGED database

RaiseRollsBack(u) ==
  /\ current = u /\ txn # NoUnit
  /\ txn' = NoUnit /\ pending' = {}
  /\ Tell(u, Ended("raised", "none", 0))
  /\ Restore(u, 0)
  /\ UNCHANGED <<committed, closed>>

\* ROLLBACK finds no transaction.
RaiseFindsNone(u) ==
  /\ current = u /\ txn = NoUnit /\ ~ closed
  /\ UNCHANGED database
  /\ Tell(u, Reports(u, "raised"))
  /\ Restore(u, MayBeKept(u))

\* COMMIT or ROLLBACK fails for a reason of its own: the connection is closed,
\* or the transaction is there, and is ended by the failure or left open.
EndFails(u) ==
  /\ current = u
  /\ \/ closed /\ UNCHANGED <<txn, pending>>
     \/ /\ EndFailures /\ txn # NoUnit
        /\ \/ txn' = NoUnit /\ pending' = {}
           \/ UNCHANGED <<txn, pending>>
  /\ UNCHANGED <<committed, closed>>

RaiseRollbackFails(u) ==
  /\ EndFails(u)
  /\ Tell(u, Ended("raised", "rollback_failed", 0))
  /\ Restore(u, IF unit[u].failed THEN unit[u].writesAfter ELSE 0)

\* The block finished while a unit opened inside it is still open.
FinishEarly(u) ==
  /\ u \in Open /\ current # u
  /\ Tell(u, Ended("commit_error", GoneNote(u), MayBeKept(u)))
  /\ Restore(u, MayBeKept(u))
  /\ UNCHANGED database

FinishCommits(u) ==
  /\ current = u /\ txn # NoUnit
  /\ txn' = NoUnit /\ pending' = {}
  /\ committed' = committed \cup pending
  /\ Tell(u, Ended("committed", "none", 0))
  /\ Restore(u, unit[u].writes)
  /\ UNCHANGED closed

\* Mutated form of FinishFindsNone: the COMMIT error is swallowed.
FinishSwallows(u) ==
  /\ current = u /\ txn = NoUnit /\ ~ closed
  /\ UNCHANGED database
  /\ Tell(u, Ended("committed", "none", 0))
  /\ Restore(u, MayBeKept(u))

\* COMMIT finds no transaction.
FinishFindsNone(u) ==
  /\ current = u /\ txn = NoUnit /\ ~ closed
  /\ UNCHANGED database
  /\ Tell(u, Ended("commit_error", GoneNote(u), MayBeKept(u)))
  /\ Restore(u, MayBeKept(u))

FinishCommitFails(u) ==
  /\ EndFails(u)
  /\ Tell(u, Ended("commit_failed", "none", 0))
  /\ Restore(u, 0)

Exit(u) ==
  \/ RaiseEarly(u) \/ RaiseRollsBack(u) \/ RaiseFindsNone(u)
  \/ RaiseRollbackFails(u)
  \/ FinishEarly(u) \/ FinishCommits(u) \/ FinishFindsNone(u)
  \/ FinishCommitFails(u)

-----------------------------------------------------------------------------
None == [u \in {} |-> {}]

Init ==
  /\ txn = NoUnit /\ pending = {} /\ committed = {} /\ closed = FALSE
  /\ current = NoUnit /\ unit = None /\ result = None
  /\ made = None /\ hurt = {} /\ unseen = {} /\ blind = {} /\ astray = {}

Next ==
  \/ Write \/ StatementFails \/ StatementRefused \/ BareStatementFails
  \/ CloseConnection \/ BeginFails
  \/ \E u \in NextUnit : Begin(u)
  \/ \E u \in Opened : Exit(u)

Spec == Init /\ [][Next]_vars

-----------------------------------------------------------------------------
Record == [failed : BOOLEAN, writesAfter : Nat, writes : Nat,
           outer : Units \cup {NoUnit}, done : BOOLEAN]

\* Every variable has its type, and a record counts the writes after a failure
\* among its writes.
TypeOK ==
  /\ txn \in Units \cup {NoUnit}
  /\ pending \subseteq Writes /\ committed \subseteq Writes
  /\ closed \in BOOLEAN
  /\ current \in Units \cup {NoUnit}
  /\ Opened \subseteq Units /\ unit \in [Opened -> Record]
  /\ \A u \in Opened : unit[u].writesAfter <= unit[u].writes
  /\ DOMAIN result = Opened /\ made \in [Opened -> SUBSET Writes]

\* What a COMMIT or ROLLBACK settles are writes of the unit that ends, or of
\* units inside it: no transaction of an open unit is settled by another unit,
\* whatever order units exit in.
TransactionIsCurrents ==
  /\ txn \in Open => txn = current
  /\ current # NoUnit => pending \subseteq made[current]
  /\ txn = NoUnit => pending = {}

\* How a unit ends whose COMMIT or ROLLBACK failed for a reason of its own.
EndFailed(r) == r.how = "commit_failed" \/ r.note = "rollback_failed"

\* _UNITS names an open unit, and nothing when none is open: once every unit
\* has exited, no record lingers, and a transaction stays open only if its own
\* unit was told that ending it failed.
NoStaleUnit ==
  /\ current # NoUnit => current \in Open
  /\ Open = {} => current = NoUnit
  /\ txn \in Opened \ Open => EndFailed(result[txn])

\* A unit that commits leaves all of its writes in place, unless it went on in
\* a transaction that a unit inside it had failed to end.
CommitKeepsAll ==
  [][\A u \in Opened :
       /\ result[u].how = "open" /\ result'[u].how = "committed"
       /\ u \notin astray
       => made[u] \subseteq committed']_vars

\* All or nothing: as long as no statement of a unit failed, its writes reach
\* the database in the one step that commits it.
AllOrNothing ==
  [][\A w \in committed' \ committed : \A u \in Open :
       (w \in made'[u] /\ u \notin hurt') =>
         /\ result'[u].how = "committed"
         /\ made[u] \subseteq committed']_vars

Escaped(u) == Cardinality(made[u] \cap committed)

\* The record of an open unit counts every write of its that is in place, so
\* what a unit leaves is never under-counted in the unit around it: true of all
\* but the units NotesCoverEscapes leaves out.
KeptIsCounted ==
  ~ closed =>
    \A u \in Open \ (blind \cup astray) : Escaped(u) <= MayBeKept(u)

\* A unit that ends in an error says at least how many of its writes it left
\* in place, unless its ROLLBACK failed for a reason of its own.
Covers(u, r) == r.note = "rollback_failed" \/ Escaped(u) <= r.count

\* A note covers what escaped: true as long as no failure on the bare
\* connection is followed by one a backend saw, and no unit inside leaves its
\* transaction behind by a COMMIT or ROLLBACK that fails otherwise.
NotesCoverEscapes ==
  [][\A u \in Open \ (blind \cup astray) :
       LET r == result'[u]
       IN  r.how \in {"raised", "commit_error"} => Covers(u, r)]_vars

\* A block's exception with no note means nothing the unit wrote is in place.
SilenceMeansUndone ==
  [][\A u \in Open :
       result'[u].how = "raised" /\ result'[u].note = "none"
         => Escaped(u) = 0]_vars

\* A COMMIT that fails for a reason of its own found its transaction: nothing
\* of the unit ran outside it.
FailedCommitRanInside ==
  [][\A u \in Open : result'[u].how = "commit_failed" => Escaped(u) = 0]_vars
=============================================================================
