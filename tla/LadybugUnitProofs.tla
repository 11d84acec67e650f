--------------------------- MODULE LadybugUnitProofs ---------------------------
(***************************************************************************)
(* Proofs about LadybugUnit, for any number of units and writes, opened    *)
(* and exited in any order, with any failures.                             *)
(***************************************************************************)
EXTENDS LadybugUnit, FiniteSetTheorems, TLAPS

-----------------------------------------------------------------------------
(* The inductive invariant.                                                 *)

\* A unit whose transaction may have ended at a failure, seen or not.
Marked(u) == unit[u].failed \/ u \in unseen

\* Units open in the order of their numbers, and one opens inside another only
\* once the other's transaction has ended, at a failure.
Nesting ==
  /\ \A v \in Opened, w \in Units : w < v => w \in Opened
  /\ \A v \in Opened : unit[v].outer # NoUnit =>
       unit[v].outer \in {w \in Opened : w < v /\ w # txn /\ Marked(w)}

\* The transaction of an open unit holds the writes of that unit, all of them;
\* one that its unit failed to end has the unit's later writes in the current
\* unit, which went astray in it.
Transaction ==
  /\ current # NoUnit => current \in Open
  /\ txn # NoUnit => txn \in Opened /\ ~ closed
  /\ txn \in Open => /\ txn = current
                     /\ pending = made[txn]
                     /\ Cardinality(made[txn]) <= unit[txn].writes
  /\ txn \in Opened \ Open =>
       /\ EndFailed(result[txn])
       /\ current # NoUnit =>
            current \in astray /\ pending \subseteq made[current]
  /\ txn = NoUnit => pending = {}
  /\ committed \cap pending = {}
  /\ committed \subseteq UNION {made[u] : u \in Opened}

\* A unit without its transaction has a failure to show for it, one without a
\* failure has left nothing, and no write counts in two open units.
Marks ==
  /\ \A v \in Open \ {txn} : Marked(v) \/ closed
  /\ \A v \in Opened : unit[v].failed => v \in hurt
  /\ unseen \subseteq hurt
  /\ \A v \in Open : ~ Marked(v) => made[v] \cap committed = {}
  /\ \A v, w \in Open : v # w => made[v] \cap made[w] = {}
  /\ \A v \in Open : result[v] = NotEnded

\* The units whose record is to be relied on.
Reliable ==
  {u \in Open : u \notin blind \cup astray /\ ~ (closed /\ u = current)}

Counts == \A u \in Reliable : Escaped(u) <= MayBeKept(u)

UInv ==
  /\ TypeOK
  /\ Nesting
  /\ Transaction
  /\ Marks
  /\ Counts

-----------------------------------------------------------------------------
(* Sets of writes.                                                          *)

LEMMA WritesFinite ==
  ASSUME NEW S \in SUBSET Writes
  PROVE  IsFiniteSet(S) /\ Cardinality(S) \in Nat
<1>1. IsFiniteSet(Writes)
  BY FS_Interval, LadybugUnitAssumption DEF Writes
<1>2. QED
  BY <1>1, FS_Subset, FS_CardinalityType

LEMMA UnionBound ==
  ASSUME NEW S \in SUBSET Writes, NEW T \in SUBSET Writes
  PROVE  Cardinality(S \cup T) <= Cardinality(S) + Cardinality(T)
<1>1. IsFiniteSet(S) /\ IsFiniteSet(T) /\ S \cap T \in SUBSET Writes
  BY WritesFinite
<1>2. /\ Cardinality(S) \in Nat /\ Cardinality(T) \in Nat
      /\ Cardinality(S \cap T) \in Nat
  BY <1>1, WritesFinite
<1>3. Cardinality(S \cup T)
        = Cardinality(S) + Cardinality(T) - Cardinality(S \cap T)
  BY <1>1, FS_Union
<1>4. QED
  BY <1>2, <1>3

LEMMA OneMore ==
  ASSUME NEW S \in SUBSET Writes, NEW w
  PROVE  Cardinality(S \cup {w}) <= Cardinality(S) + 1
<1>1. IsFiniteSet(S) /\ Cardinality(S) \in Nat
  BY WritesFinite
<1>2. Cardinality(S \cup {w}) =
        IF w \in S THEN Cardinality(S) ELSE Cardinality(S) + 1
  BY <1>1, FS_AddElement
<1>3. QED
  BY <1>1, <1>2

-----------------------------------------------------------------------------
(* The units around a unit.                                                 *)

\* The nearest live outer unit opened before u, has lost its transaction at a
\* failure, and is the only one.
LEMMA LiveOuterIsOuter ==
  ASSUME UInv, NEW u \in Opened
  PROVE  /\ \A v \in LiveOuter(u) :
              /\ v \in Open /\ v \in Opened /\ v \in Units
              /\ v < u /\ v # txn /\ Marked(v)
         /\ \A v, w \in LiveOuter(u) : v = w
<1> DEFINE S == {w \in Opened : w < u /\ w # txn /\ Marked(w)}
<1>1. Opened \subseteq Units /\ Units \subseteq Nat
  BY LadybugUnitAssumption DEF UInv, TypeOK
<1>2. ASSUME NEW w \in S \cup {u}, unit[w].outer # NoUnit
      PROVE  unit[w].outer \in S
  <2>1. /\ w \in Opened /\ unit[w].outer \in Opened
        /\ unit[w].outer < w /\ (w < u \/ w = u)
        /\ unit[w].outer # txn /\ Marked(unit[w].outer)
    BY <1>2 DEF UInv, Nesting
  <2>2. u \in Nat /\ w \in Nat /\ unit[w].outer \in Nat
    BY <1>1, <2>1
  <2>3. unit[w].outer < u
    BY <2>1, <2>2
  <2>4. QED
    BY <2>1, <2>3
<1>3. S \in SUBSET Opened
  OBVIOUS
<1>4. Around(u) \subseteq S
  BY <1>2, <1>3 DEF Around
<1>5. \A v \in LiveOuter(u) :
        v \in S /\ v \in Open /\ \A w \in LiveOuter(u) : w <= v
  BY <1>4 DEF LiveOuter
<1>6. ASSUME NEW v \in LiveOuter(u), NEW w \in LiveOuter(u)
      PROVE  v = w
  <2>1. v \in Nat /\ w \in Nat /\ v <= w /\ w <= v
    BY <1>1, <1>5
  <2>2. QED
    BY <2>1
<1>7. QED
  BY <1>1, <1>5, <1>6

-----------------------------------------------------------------------------
(* The steps inside units keep the invariant.                               *)

LEMMA RecordFields ==
  ASSUME UInv, NEW u \in Opened
  PROVE  /\ unit[u].failed \in BOOLEAN /\ unit[u].done \in BOOLEAN
         /\ unit[u].writes \in Nat /\ unit[u].writesAfter \in Nat
         /\ unit[u].writesAfter <= unit[u].writes
         /\ unit[u].outer \in Units \cup {NoUnit}
         /\ made[u] \in SUBSET Writes
         /\ u \in Units /\ u # NoUnit
  BY LadybugUnitAssumption DEF UInv, TypeOK, Record

\* Writes that are nowhere yet are in no unit and not in the database.
LEMMA NewWrite ==
  ASSUME UInv, NEW w \in Writes \ UNION {made[u] : u \in Opened}
  PROVE  w \notin committed /\ \A u \in Opened : w \notin made[u]
  BY DEF UInv, Transaction

LEMMA WriteKeeps ==
  ASSUME UInv, Write
  PROVE  UInv'
<1>1. PICK w \in Writes \ UNION {made[u] : u \in Opened} :
        /\ current # NoUnit /\ ~ closed
        /\ IF txn = NoUnit
           THEN committed' = committed \cup {w} /\ UNCHANGED pending
           ELSE pending' = pending \cup {w} /\ UNCHANGED committed
        /\ unit' = CountWrite(current)
        /\ made' = [made EXCEPT ![current] = @ \cup {w}]
        /\ UNCHANGED <<txn, closed, current, result, hurt, unseen, blind,
                       astray>>
  BY DEF Write
<1>2. PICK c : c = current
  OBVIOUS
<1>3. c \in Open /\ c \in Opened /\ c # NoUnit
  BY <1>1, <1>2 DEF UInv, Transaction, Open
<1>4. w \notin committed /\ \A u \in Opened : w \notin made[u]
  BY NewWrite
<1>5. /\ Opened' = Opened
      /\ \A v \in Opened : v # c => unit'[v] = unit[v] /\ made'[v] = made[v]
      /\ unit'[c].failed = unit[c].failed /\ unit'[c].outer = unit[c].outer
      /\ unit'[c].done = unit[c].done
      /\ unit'[c].writes = unit[c].writes + 1
      /\ unit'[c].writesAfter =
           unit[c].writesAfter + (IF unit[c].failed THEN 1 ELSE 0)
      /\ made'[c] = made[c] \cup {w} /\ unit'[c] \in Record
  <2>1. /\ unit \in [Opened -> Record] /\ made \in [Opened -> SUBSET Writes]
        /\ unit[c] \in Record
    BY <1>3 DEF UInv, TypeOK
  <2>2. made' = [made EXCEPT ![c] = @ \cup {w}]
    BY <1>1, <1>2
  <2>3. PICK r : r = [unit[c] EXCEPT !.writes = @ + 1,
                        !.writesAfter = @ + (IF unit[c].failed THEN 1 ELSE 0)]
    OBVIOUS
  <2>4. unit' = [unit EXCEPT ![c] = r]
    BY <1>1, <1>2, <2>3 DEF CountWrite
  <2>5. /\ r.failed = unit[c].failed /\ r.outer = unit[c].outer
        /\ r.done = unit[c].done /\ r.writes = unit[c].writes + 1
        /\ r.writesAfter =
             unit[c].writesAfter + (IF unit[c].failed THEN 1 ELSE 0)
        /\ r \in Record
    <3>1. PICK i \in Nat : i = unit[c].writes + 1
      BY <1>3, RecordFields
    <3>2. PICK j \in Nat :
            j = unit[c].writesAfter + (IF unit[c].failed THEN 1 ELSE 0)
      BY <1>3, RecordFields
    <3>3. r = [unit[c] EXCEPT !.writes = i, !.writesAfter = j]
      BY <2>1, <2>3, <3>1, <3>2 DEF Record
    <3>4. QED
      BY <2>1, <3>1, <3>2, <3>3 DEF Record
  <2>6. unit'[c] = r
    BY <1>3, <2>1, <2>4
  <2>7. QED
    BY <1>3, <2>1, <2>2, <2>4, <2>5, <2>6 DEF Opened
<1>6. /\ Open' = Open
      /\ \A v \in Opened : /\ Marked(v)' <=> Marked(v)
                           /\ unit'[v].failed = unit[v].failed
                           /\ unit'[v].outer = unit[v].outer
  BY <1>1, <1>5 DEF Open, Marked
<1>7. TypeOK'
  <2>1. /\ unit \in [Opened -> Record] /\ made \in [Opened -> SUBSET Writes]
        /\ unit[c] \in Record
    BY <1>3 DEF UInv, TypeOK
  <2>2. unit' \in [Opened -> Record]
    BY <1>1, <1>2, <1>5, <2>1 DEF CountWrite
  <2>3. made' \in [Opened -> SUBSET Writes]
    BY <1>1, <1>2, <2>1
  <2>4. ASSUME NEW v \in Opened
        PROVE  unit'[v].writesAfter <= unit'[v].writes
    <3>1. unit'[c].writesAfter <= unit'[c].writes
      BY <1>3, <1>5, RecordFields
    <3>2. QED
      BY <1>5, <3>1, RecordFields
  <2>5. QED
    BY <1>1, <1>5, <2>2, <2>3, <2>4 DEF UInv, TypeOK
<1>8. Nesting'
  BY <1>1, <1>5, <1>6 DEF UInv, Nesting
<1>9. Transaction'
  <2>1. committed' \subseteq UNION {made'[u] : u \in Opened}
    <3>1. w \in made'[c]
      BY <1>5
    <3>2. \A u \in Opened : made[u] \subseteq made'[u]
      BY <1>5
    <3>3. committed' \subseteq committed \cup {w}
      BY <1>1
    <3>4. QED
      BY <1>3, <3>1, <3>2, <3>3 DEF UInv, Transaction
  <2>2. txn \in Open =>
          /\ txn = c /\ pending' = made'[c]
          /\ Cardinality(made'[c]) <= unit'[c].writes
    <3>1. Cardinality(made[c] \cup {w}) <= Cardinality(made[c]) + 1
      BY <1>3, RecordFields, OneMore
    <3>2. Cardinality(made[c]) \in Nat /\ Cardinality(made'[c]) \in Nat
      BY <1>3, <1>5, RecordFields, WritesFinite
    <3>3. txn \in Open =>
            /\ txn = c /\ pending = made[c] /\ pending' = pending \cup {w}
            /\ Cardinality(made[c]) <= unit[c].writes
      BY <1>1, <1>2, <1>3 DEF UInv, Transaction
    <3>4. unit[c].writes \in Nat /\ unit'[c].writes = unit[c].writes + 1
          /\ made'[c] = made[c] \cup {w}
      BY <1>3, <1>5, RecordFields
    <3>5. Cardinality(made'[c]) <= Cardinality(made[c]) + 1
      BY <3>1, <3>4
    <3>6. QED
      BY <3>2, <3>3, <3>4, <3>5
  <2>3. w \notin pending
    <3>1. pending \subseteq made[c]
      BY <1>2, <1>3 DEF UInv, Transaction
    <3>2. QED
      BY <1>3, <1>4, <3>1
  <2>4. committed' \cap pending' = {}
    BY <1>1, <1>4, <2>3 DEF UInv, Transaction
  <2>5. txn \in Opened \ Open => /\ EndFailed(result[txn]) /\ c \in astray
                                 /\ pending' \subseteq made'[c]
    <3>1. pending' \subseteq pending \cup {w}
      BY <1>1
    <3>2. QED
      BY <1>2, <1>3, <1>5, <3>1 DEF UInv, Transaction
  <2>6. txn = NoUnit => pending' = {}
    BY <1>1 DEF UInv, Transaction
  <2>7. QED
    BY <1>1, <1>2, <1>3, <1>5, <1>6, <2>1, <2>2, <2>4, <2>5, <2>6
       DEF UInv, Transaction, EndFailed
<1>10. Marks'
  <2>1. txn = NoUnit => Marked(c)
    BY <1>1, <1>3 DEF UInv, Marks
  <2>2. \A v \in Open : ~ Marked(v) => made'[v] \cap committed' = {}
    BY <1>1, <1>2, <1>4, <1>5, <2>1 DEF UInv, Marks, Open
  <2>3. \A v, z \in Open : v # z => made'[v] \cap made'[z] = {}
    BY <1>4, <1>5 DEF UInv, Marks, Open
  <2>4. QED
    BY <1>1, <1>5, <1>6, <2>2, <2>3 DEF UInv, Marks, Open
<1>11. Counts'
  <2>1. Reliable' = Reliable
    BY <1>1, <1>6 DEF Reliable
  <2>2. ASSUME NEW v \in Reliable
        PROVE  (Escaped(v) <= MayBeKept(v))'
    <3>1. v \in Opened /\ Escaped(v) <= MayBeKept(v)
      BY DEF UInv, Counts, Reliable, Open
    <3>2. CASE v # c
      <4>1. made'[v] \cap committed' = made[v] \cap committed
        BY <1>1, <1>4, <1>5, <3>1, <3>2
      <4>2. QED
        BY <1>5, <3>1, <3>2, <4>1 DEF Escaped, MayBeKept
    <3>3. CASE v = c
      <4>1. PICK S \in SUBSET Writes : S = made[c] \cap committed
        BY <1>3, RecordFields
      <4>2. PICK T : T = made'[c] \cap committed'
        OBVIOUS
      <4>3. T = S \/ T = S \cup {w}
        BY <1>1, <1>4, <1>5, <1>3, <4>1, <4>2, RecordFields
      <4>4. Cardinality(T) <= Cardinality(S) + 1 /\ Cardinality(T) \in Nat
            /\ Cardinality(S) \in Nat
        <5>1. Cardinality(S) \in Nat /\ Cardinality(S \cup {w}) \in Nat
          BY WritesFinite
        <5>2. Cardinality(S \cup {w}) <= Cardinality(S) + 1
          BY OneMore
        <5>3. QED
          BY <4>3, <5>1, <5>2
      <4>5. Cardinality(S) <= MayBeKept(c)
        BY <3>1, <3>3, <4>1 DEF Escaped
      <4>6. MayBeKept(c)' = MayBeKept(c) + 1 /\ MayBeKept(c) \in Nat
        BY <1>3, <1>5, RecordFields DEF MayBeKept
      <4>7. Cardinality(T) <= MayBeKept(c)'
        BY <4>4, <4>5, <4>6
      <4>8. QED
        BY <3>3, <4>2, <4>7 DEF Escaped, MayBeKept
    <3>4. QED
      BY <3>2, <3>3
  <2>3. QED
    BY <2>1, <2>2 DEF Counts
<1>12. QED
  BY <1>7, <1>8, <1>9, <1>10, <1>11 DEF UInv

\* What Counts says of a unit that has a reliable record before a step.
LEMMA CountsAt ==
  ASSUME UInv, NEW v \in Reliable
  PROVE  /\ v \in Open /\ v \in Opened
         /\ Cardinality(made[v] \cap committed) <= MayBeKept(v)
  BY DEF UInv, Counts, Reliable, Open, Escaped

\* A failure that the backends see.
LEMMA FailureKeeps ==
  ASSUME UInv, SeenFailure, current # NoUnit,
         \/ txn' = NoUnit /\ pending' = {}
         \/ ~ closed /\ UNCHANGED <<txn, pending>>,
         UNCHANGED <<committed, closed, current, result, made, unseen, astray>>
  PROVE  UInv'
<1>1. PICK c : c = current
  OBVIOUS
<1>2. c \in Open /\ c \in Opened /\ c # NoUnit
  BY <1>1 DEF UInv, Transaction, Open
<1>3. /\ unit' = [unit EXCEPT ![c].failed = TRUE]
      /\ hurt' = hurt \cup {c}
      /\ blind' = blind \cup (IF c \in unseen /\ ~ unit[c].failed
                              THEN {c} ELSE {})
  BY <1>1 DEF SeenFailure, MarkFailed
<1>4. /\ unit \in [Opened -> Record] /\ unit[c] \in Record
  BY <1>2 DEF UInv, TypeOK
<1>5. /\ Opened' = Opened /\ unit' \in [Opened -> Record]
      /\ \A v \in Opened : v # c => unit'[v] = unit[v]
      /\ unit'[c].failed
      /\ \A v \in Opened : /\ unit'[v].outer = unit[v].outer
                           /\ unit'[v].done = unit[v].done
                           /\ unit'[v].writes = unit[v].writes
                           /\ unit'[v].writesAfter = unit[v].writesAfter
  <2>1. PICK r : r = [unit[c] EXCEPT !.failed = TRUE]
    OBVIOUS
  <2>2. /\ r \in Record /\ r.failed /\ r.outer = unit[c].outer
        /\ r.done = unit[c].done /\ r.writes = unit[c].writes
        /\ r.writesAfter = unit[c].writesAfter
    BY <1>4, <2>1 DEF Record
  <2>3. unit' = [unit EXCEPT ![c] = r]
    BY <1>3, <2>1
  <2>4. QED
    BY <1>2, <1>4, <2>2, <2>3 DEF Opened
<1>6. Open' = Open /\ \A v \in Opened : Marked(v)' <=> Marked(v) \/ v = c
  BY <1>5 DEF Open, Marked
<1>7. TypeOK'
  BY <1>5 DEF UInv, TypeOK
<1>8. Nesting'
  BY <1>5, <1>6 DEF UInv, Nesting
<1>9. Transaction'
  <2>1. \/ txn' = NoUnit /\ pending' = {}
        \/ UNCHANGED <<txn, pending>>
    OBVIOUS
  <2>2. NoUnit \notin Opened
    BY RecordFields
  <2>3. \A v \in Open : unit'[v].writes = unit[v].writes
    BY <1>5 DEF Open
  <2>4. QED
    BY <1>1, <1>2, <1>5, <1>6, <2>1, <2>2, <2>3
       DEF UInv, Transaction, EndFailed, Open
<1>10. Marks'
  <2>1. \A v \in Open \ {txn'} : Marked(v)' \/ closed
    BY <1>1, <1>6 DEF UInv, Marks, Transaction, Open
  <2>2. QED
    BY <1>3, <1>5, <1>6, <2>1 DEF UInv, Marks, Open
<1>11. Counts'
  <2>1. ASSUME NEW v \in Reliable'
        PROVE  (Escaped(v) <= MayBeKept(v))'
    <3>1. v \in Reliable /\ v \in Opened
      BY <1>3, <1>6 DEF Reliable, Open
    <3>2. CASE v # c \/ unit[c].failed
      <4>1. MayBeKept(v)' = MayBeKept(v)
        BY <1>5, <3>1, <3>2 DEF MayBeKept
      <4>2. QED
        BY <3>1, <4>1, CountsAt DEF Escaped
    <3>3. CASE v = c /\ ~ unit[c].failed
      <4>1. ~ Marked(c)
        BY <1>3, <3>3 DEF Reliable, Marked
      <4>2. made[c] \cap committed = {}
        BY <1>2, <4>1 DEF UInv, Marks
      <4>3. MayBeKept(v)' = unit[c].writesAfter /\ unit[c].writesAfter \in Nat
        BY <1>2, <1>5, <3>3, RecordFields DEF MayBeKept
      <4>4. Escaped(v)' = 0
        BY <3>3, <4>2, FS_EmptySet DEF Escaped
      <4>5. QED
        BY <4>3, <4>4
    <3>4. QED
      BY <3>2, <3>3
  <2>2. QED
    BY <2>1 DEF Counts
<1>12. QED
  BY <1>7, <1>8, <1>9, <1>10, <1>11 DEF UInv

LEMMA StatementFailsKeeps ==
  ASSUME UInv, StatementFails
  PROVE  UInv'
  BY FailureKeeps DEF StatementFails

\* Steps that leave units, their writes and the database as they are.
LEMMA RecordsStayKeeps ==
  ASSUME UInv, UNCHANGED <<unit, made, committed, current, result, astray>>,
         \/ UNCHANGED <<txn, pending>>
         \/ txn' = NoUnit /\ pending' = {},
         closed' \in BOOLEAN, closed => closed', closed' => txn' = NoUnit,
         hurt \subseteq hurt', unseen \subseteq unseen', unseen' \subseteq hurt',
         \A v \in unseen' \ unseen : v = current,
         blind' = blind,
         txn \in Open /\ txn # txn' => closed' \/ current \in unseen'
  PROVE  UInv'
<1>1. /\ Opened' = Opened /\ Open' = Open
      /\ \A v : Marked(v) => Marked(v)'
      /\ \A v : Marked(v)' => Marked(v) \/ v = current
  BY DEF Opened, Open, Marked
<1>2. TypeOK' /\ Nesting' /\ Transaction'
  <2>1. NoUnit \notin Opened
    BY RecordFields
  <2>2. QED
    BY <1>1, <2>1 DEF UInv, TypeOK, Nesting, Transaction, EndFailed, Open
<1>3. Marks'
  <2>1. \A v \in Open \ {txn'} : Marked(v)' \/ closed'
    BY <1>1 DEF UInv, Marks, Transaction, Marked
  <2>2. QED
    BY <1>1, <2>1 DEF UInv, Marks
<1>4. Counts'
  BY <1>1 DEF UInv, Counts, Reliable, Escaped, MayBeKept
<1>5. QED
  BY <1>2, <1>3, <1>4 DEF UInv

LEMMA StatementRefusedKeeps ==
  ASSUME UInv, StatementRefused
  PROVE  UInv'
  BY RecordsStayKeeps
     DEF StatementRefused, database, UInv, TypeOK, Transaction, Marks

LEMMA BareStatementFailsKeeps ==
  ASSUME UInv, BareStatementFails
  PROVE  UInv'
  BY RecordsStayKeeps
     DEF BareStatementFails, UInv, TypeOK, Transaction, Marks

LEMMA CloseConnectionKeeps ==
  ASSUME UInv, CloseConnection
  PROVE  UInv'
  BY RecordsStayKeeps
     DEF CloseConnection, history, UInv, TypeOK, Transaction, Marks

\* A BEGIN that fails with no unit current ends a transaction that no open
\* unit has, or finds the connection closed.
LEMMA BeginFailsKeeps ==
  ASSUME UInv, BeginFails
  PROVE  UInv'
<1>1. CASE current # NoUnit
  BY <1>1, FailureKeeps DEF BeginFails
<1>2. CASE current = NoUnit
  <2>1. UNCHANGED <<unit, hurt, blind>>
    BY <1>2 DEF BeginFails, SeenFailure
  <2>2. txn \notin Open
    BY <1>2, RecordFields DEF UInv, Transaction, Open
  <2>3. QED
    BY <2>1, <2>2, RecordsStayKeeps DEF BeginFails, UInv, TypeOK, Transaction,
       Marks
<1>3. QED
  BY <1>1, <1>2

-----------------------------------------------------------------------------
(* Units that open and exit keep the invariant.                             *)

LEMMA BeginKeeps ==
  ASSUME UInv, NEW u \in NextUnit, Begin(u)
  PROVE  UInv'
<1>1. PICK c : c = current
  OBVIOUS
<1>2. /\ txn = NoUnit /\ ~ closed /\ txn' = u /\ current' = u
      /\ UNCHANGED <<pending, committed, closed, hurt, unseen, blind, astray>>
  BY DEF Begin
<1>3. PICK r : r = Fresh(c)
  OBVIOUS
<1>4. /\ Opened' = Opened \cup {u} /\ u \notin Opened
      /\ unit'[u] = r /\ made'[u] = {} /\ result'[u] = NotEnded
      /\ \A v \in Opened : /\ unit'[v] = unit[v] /\ made'[v] = made[v]
                           /\ result'[v] = result[v]
      /\ DOMAIN result' = Opened \cup {u}
      /\ made' \in [Opened \cup {u} -> SUBSET Writes]
  BY <1>1, <1>3 DEF Begin, NextUnit, Opened, UInv, TypeOK
<1>5. /\ r \in Record /\ ~ r.failed /\ ~ r.done /\ r.outer = c
      /\ r.writes = 0 /\ r.writesAfter = 0
  BY <1>1, <1>3 DEF Fresh, Record, UInv, TypeOK
<1>6. /\ u \in Units /\ u # NoUnit /\ u \in Nat
      /\ Opened \subseteq Units /\ Units \subseteq Nat
  BY LadybugUnitAssumption DEF NextUnit, UInv, TypeOK
<1>7. /\ Open' = Open \cup {u}
      /\ \A v \in Opened : Marked(v)' <=> Marked(v)
  BY <1>2, <1>4, <1>5 DEF Open, Marked
<1>8. TypeOK'
  <2>1. unit' \in [Opened \cup {u} -> Record]
    BY <1>1, <1>3, <1>5 DEF Begin, UInv, TypeOK
  <2>2. \A v \in Opened \cup {u} : unit'[v].writesAfter <= unit'[v].writes
    BY <1>4, <1>5, RecordFields
  <2>3. QED
    BY <1>2, <1>4, <1>6, <2>1, <2>2 DEF UInv, TypeOK
<1>9. Nesting'
  <2>1. \A w \in Units : w < u => w \in Opened
    BY <1>6 DEF NextUnit
  <2>2. c # NoUnit => c \in Opened /\ c < u /\ Marked(c) /\ c # u
    <3>1. SUFFICES ASSUME c # NoUnit
                   PROVE  c \in Opened /\ c < u /\ Marked(c) /\ c # u
      OBVIOUS
    <3>2. c \in Open /\ c \in Opened /\ Marked(c)
      BY <1>1, <1>2, <3>1 DEF UInv, Transaction, Marks, Open
    <3>3. ~ (u < c)
      BY <1>4, <1>6, <3>2 DEF UInv, Nesting
    <3>4. QED
      BY <1>4, <1>6, <3>2, <3>3
  <2>3. \A v \in Opened : unit[v].outer # NoUnit =>
          unit[v].outer \in {w \in Opened : w < v /\ w # u /\ Marked(w)}
    BY <1>4 DEF UInv, Nesting
  <2>4. \A v \in Opened, w \in Units : w < v => w \in Opened
    BY DEF UInv, Nesting
  <2>5. \A v \in Opened' : unit'[v].outer # NoUnit =>
          unit'[v].outer \in {w \in Opened' : /\ w < v /\ w # u
                                              /\ Marked(w)'}
    BY <1>4, <1>5, <1>7, <2>2, <2>3
  <2>6. QED
    BY <1>2, <1>4, <2>1, <2>4, <2>5 DEF Nesting
<1>10. Transaction'
  <2>1. pending' = {} /\ committed \subseteq UNION {made[v] : v \in Opened}
    BY <1>2 DEF UInv, Transaction
  <2>2. committed' \subseteq UNION {made'[v] : v \in Opened'}
    BY <1>2, <1>4, <2>1
  <2>3. Cardinality(made'[u]) <= unit'[u].writes
    BY <1>4, <1>5, FS_EmptySet
  <2>4. QED
    BY <1>2, <1>4, <1>6, <1>7, <2>1, <2>2, <2>3 DEF Transaction
<1>11. Marks'
  <2>1. \A v \in Open' \ {txn'} : Marked(v)' \/ closed'
    <3>1. \A v \in Open : v # NoUnit /\ v \in Opened
      BY RecordFields DEF Open
    <3>2. QED
      BY <1>2, <1>7, <3>1 DEF UInv, Marks
  <2>2. \A v \in Opened' : unit'[v].failed => v \in hurt'
    BY <1>2, <1>4, <1>5 DEF UInv, Marks
  <2>3. \A v \in Open' : ~ Marked(v)' => made'[v] \cap committed' = {}
    BY <1>2, <1>4, <1>7 DEF UInv, Marks, Open
  <2>4. \A v, w \in Open' : v # w => made'[v] \cap made'[w] = {}
    BY <1>4, <1>7 DEF UInv, Marks, Open
  <2>5. \A v \in Open' : result'[v] = NotEnded
    BY <1>4, <1>7 DEF UInv, Marks, Open
  <2>6. QED
    BY <1>2, <2>1, <2>2, <2>3, <2>4, <2>5 DEF UInv, Marks
<1>12. Counts'
  <2>1. ASSUME NEW v \in Reliable', v = u
        PROVE  (Escaped(v) <= MayBeKept(v))'
    <3>1. made'[u] \cap committed' = {}
      BY <1>4
    <3>2. Escaped(u)' = 0
      BY <3>1, FS_EmptySet DEF Escaped
    <3>3. MayBeKept(u)' = 0
      BY <1>4, <1>5 DEF MayBeKept
    <3>4. QED
      BY <2>1, <3>2, <3>3
  <2>2. ASSUME NEW v \in Reliable', v # u
        PROVE  (Escaped(v) <= MayBeKept(v))'
    <3>1. v \in Reliable /\ v \in Opened
      BY <1>2, <1>7, <2>2 DEF Reliable, Open
    <3>2. QED
      BY <1>2, <1>4, <3>1, CountsAt DEF Escaped, MayBeKept
  <2>3. QED
    BY <2>1, <2>2 DEF Counts
<1>13. QED
  BY <1>8, <1>9, <1>10, <1>11, <1>12 DEF UInv

\* A unit that exits, leaving at most `kept` writes in place.
Leaves(u, kept, ended) ==
  /\ Restore(u, kept)
  /\ Tell(u, ended)
  /\ closed' = closed
  /\ \/ current # u /\ UNCHANGED <<txn, pending, committed>>
     \/ /\ current = u /\ txn' = NoUnit /\ pending' = {}
        /\ \/ committed' = committed
           \/ committed' = committed \cup pending
     \/ /\ current = u /\ txn # NoUnit /\ EndFailed(ended)
        /\ UNCHANGED <<txn, pending, committed>>
  /\ \/ u \in blind \cup astray
     \/ closed /\ u = current
     \/ Cardinality(made[u] \cap committed') <= kept

LEMMA LeavesKeeps ==
  ASSUME UInv, NEW u \in Open, NEW kept \in Nat, NEW ended,
         Leaves(u, kept, ended)
  PROVE  UInv'
<1>1. PICK L : L = LiveOuter(u)
  OBVIOUS
<1>2. u \in Opened
  BY DEF Open
<1>3. /\ \A v \in L : /\ v \in Open /\ v \in Opened /\ v # u
                      /\ v # txn /\ Marked(v)
      /\ \A v, w \in L : v = w
  <2>1. u \in Nat
    BY <1>2, RecordFields, LadybugUnitAssumption
  <2>2. QED
    BY <1>1, <1>2, <2>1, LiveOuterIsOuter
<1>4. /\ unit' = [v \in Opened |->
           IF v = u THEN [unit[u] EXCEPT !.done = TRUE]
           ELSE IF v \notin L THEN unit[v]
           ELSE [unit[v] EXCEPT
                   !.writes = @ + kept,
                   !.writesAfter = @ + (IF unit[v].failed THEN kept ELSE 0)]]
      /\ current' = IF current # u THEN current ELSE OnlyElse(L, NoUnit)
      /\ made' = [v \in Opened |->
                    IF v \in L THEN made[v] \cup made[u] ELSE made[v]]
      /\ hurt' = hurt \cup (IF u \in hurt THEN L ELSE {})
      /\ blind' = blind \cup (IF u \in blind THEN L ELSE {})
      /\ unseen' = unseen
      /\ astray' = astray \cup
           (IF u \in astray \/ (u = current /\ txn' # NoUnit) THEN L ELSE {})
  BY <1>1 DEF Leaves, Restore, Settle
<1>5. /\ closed' = closed
      /\ \/ current # u /\ UNCHANGED <<txn, pending, committed>>
         \/ /\ current = u /\ txn' = NoUnit /\ pending' = {}
            /\ \/ committed' = committed
               \/ committed' = committed \cup pending
         \/ /\ current = u /\ txn # NoUnit /\ EndFailed(ended)
            /\ UNCHANGED <<txn, pending, committed>>
      /\ \/ u \in blind \cup astray
         \/ closed /\ u = current
         \/ Cardinality(made[u] \cap committed') <= kept
  BY DEF Leaves
<1>6. /\ DOMAIN result' = Opened
      /\ \A v \in Opened : v # u => result'[v] = result[v]
      /\ result'[u] = ended
  BY <1>2 DEF Leaves, Tell, UInv, TypeOK
<1>7. Opened' = Opened /\ made' \in [Opened -> SUBSET Writes]
  BY <1>2, <1>4, RecordFields DEF Opened
<1>8. /\ unit'[u] \in Record /\ unit'[u].done
      /\ unit'[u].writes = unit[u].writes
      /\ unit'[u].writesAfter = unit[u].writesAfter
      /\ unit'[u].failed = unit[u].failed /\ unit'[u].outer = unit[u].outer
  <2>1. unit[u] \in Record /\ unit'[u] = [unit[u] EXCEPT !.done = TRUE]
    BY <1>2, <1>4 DEF UInv, TypeOK
  <2>2. QED
    BY <2>1 DEF Record
<1>9. \A v \in Opened \ {u} : v \notin L => unit'[v] = unit[v]
  BY <1>4
<1>10. ASSUME NEW v \in L
       PROVE  /\ unit'[v] \in Record
              /\ unit'[v].failed = unit[v].failed
              /\ unit'[v].outer = unit[v].outer
              /\ unit'[v].done = unit[v].done
              /\ unit'[v].writes = unit[v].writes + kept
              /\ unit'[v].writesAfter =
                   unit[v].writesAfter + (IF unit[v].failed THEN kept ELSE 0)
  <2>1. v \in Opened /\ v # u /\ unit[v] \in Record
    BY <1>3 DEF UInv, TypeOK
  <2>2. PICK i \in Nat : i = unit[v].writes + kept
    BY <2>1, RecordFields
  <2>3. PICK j \in Nat :
          j = unit[v].writesAfter + (IF unit[v].failed THEN kept ELSE 0)
    BY <2>1, RecordFields
  <2>4. unit'[v] = [unit[v] EXCEPT !.writes = i, !.writesAfter = j]
    BY <1>4, <2>1, <2>2, <2>3 DEF Record
  <2>5. QED
    BY <2>1, <2>2, <2>3, <2>4 DEF Record
<1>11. /\ Open' = Open \ {u}
       /\ \A v \in Opened : /\ Marked(v)' <=> Marked(v)
                            /\ unit'[v].failed = unit[v].failed
                            /\ unit'[v].outer = unit[v].outer
  BY <1>3, <1>4, <1>7, <1>8, <1>9, <1>10 DEF Open, Marked
<1>12. \/ current # u /\ current' = current
       \/ current = u /\ current' \in L /\ L = {current'}
       \/ current = u /\ current' = NoUnit /\ L = {}
  BY <1>3, <1>4 DEF OnlyElse
<1>13. TypeOK'
  <2>1. unit' \in [Opened -> Record]
    <3>1. \A v \in Opened : unit'[v] \in Record
      BY <1>8, <1>9, <1>10 DEF UInv, TypeOK
    <3>2. QED
      BY <1>4, <3>1
  <2>2. committed' \subseteq Writes /\ pending' \subseteq Writes
    BY <1>5 DEF UInv, TypeOK
  <2>3. current' \in Units \cup {NoUnit}
    BY <1>3, <1>12 DEF UInv, TypeOK
  <2>4. ASSUME NEW v \in Opened
        PROVE  unit'[v].writesAfter <= unit'[v].writes
    <3>1. CASE v \in L
      BY <1>10, <3>1, RecordFields
    <3>2. CASE v = u
      BY <1>2, <1>8, <3>2, RecordFields
    <3>3. QED
      BY <1>9, <3>1, <3>2, RecordFields
  <2>5. QED
    BY <1>5, <1>6, <1>7, <2>1, <2>2, <2>3, <2>4 DEF UInv, TypeOK
<1>14. Nesting'
  BY <1>5, <1>7, <1>11 DEF UInv, Nesting
<1>15. /\ NoUnit \notin Opened /\ u # NoUnit
       /\ current = u => pending \subseteq made[u]
       /\ txn # u => txn \notin Open \/ current # u
  <2>1. NoUnit \notin Opened
    BY RecordFields
  <2>2. QED
    BY <1>2, <2>1 DEF UInv, Transaction, Open
<1>16. /\ \A v \in Opened : made[v] \subseteq made'[v]
       /\ \A v \in Opened \ L : made'[v] = made[v]
       /\ \A v \in L : made'[v] = made[v] \cup made[u]
       /\ committed \subseteq committed'
       /\ committed' \subseteq committed \cup made[u]
  BY <1>3, <1>4, <1>5, <1>15
<1>17. Transaction'
  <2>1. current' # NoUnit => current' \in Open'
    BY <1>3, <1>11, <1>12 DEF UInv, Transaction
  <2>2. committed' \subseteq UNION {made'[v] : v \in Opened}
    BY <1>2, <1>16 DEF UInv, Transaction
  <2>3. CASE current = u /\ txn' = NoUnit
    BY <1>5, <1>7, <1>11, <1>15, <2>1, <2>2, <2>3 DEF UInv, Transaction, Open
  <2>4. CASE current # u
    <3>1. UNCHANGED <<txn, pending, committed, closed, current>>
      BY <1>5, <1>12, <2>4
    <3>2. txn \in Open =>
            /\ txn \in Opened /\ txn # u /\ txn \notin L
            /\ txn = current /\ pending = made[txn]
            /\ Cardinality(made[txn]) <= unit[txn].writes
      BY <1>3, <2>4 DEF UInv, Transaction, Open
    <3>3. txn \in Open => made'[txn] = made[txn] /\ unit'[txn] = unit[txn]
      BY <1>9, <1>16, <3>2
    <3>4. txn \in Opened \ Open' =>
            /\ txn \in Opened \ Open /\ txn # u
      BY <1>11, <2>4 DEF UInv, Transaction
    <3>5. txn \in Opened \ Open' => EndFailed(result'[txn])
      BY <1>6, <3>4 DEF UInv, Transaction
    <3>6. txn \in Opened \ Open' /\ current # NoUnit =>
            current \in astray' /\ pending \subseteq made'[current]
      BY <1>4, <1>16, <3>4 DEF UInv, Transaction, Open
    <3>7. QED
      BY <1>7, <1>11, <2>1, <2>2, <3>1, <3>2, <3>3, <3>5, <3>6
         DEF UInv, Transaction, EndFailed
  <2>5. CASE current = u /\ txn' # NoUnit
    <3>1. UNCHANGED <<txn, pending, committed, closed>> /\ EndFailed(ended)
      BY <1>5, <2>5
    <3>2. txn \in Opened /\ txn \notin Open' /\ ~ closed
      BY <1>11, <2>5, <3>1 DEF UInv, Transaction
    <3>3. EndFailed(result'[txn])
      BY <1>6, <1>11, <3>1, <3>2 DEF UInv, Transaction
    <3>4. current' # NoUnit =>
            current' \in astray' /\ pending \subseteq made'[current']
      BY <1>4, <1>12, <1>16, <1>15, <2>5
    <3>5. QED
      BY <1>7, <2>1, <2>2, <2>5, <3>1, <3>2, <3>3, <3>4
         DEF UInv, Transaction, EndFailed
  <2>6. QED
    BY <2>3, <2>4, <2>5
<1>18. Marks'
  <2>1. \A v \in Open' \ {txn'} : Marked(v) \/ closed
    BY <1>5, <1>11 DEF UInv, Marks, Transaction
  <2>2. \A v \in Open' : ~ Marked(v) => made'[v] \cap committed' = {}
    <3>1. ASSUME NEW v \in Open', ~ Marked(v)
          PROVE  made'[v] \cap committed' = {}
      <4>1. v \in Open /\ v # u /\ v \in Opened /\ v \notin L
        BY <1>3, <1>11, <3>1 DEF Open
      <4>2. made[v] \cap committed = {} /\ made[v] \cap made[u] = {}
        BY <3>1, <4>1 DEF UInv, Marks
      <4>3. QED
        BY <1>16, <4>1, <4>2
    <3>2. QED
      BY <3>1
  <2>3. ASSUME NEW v \in Open', NEW w \in Open', v # w
        PROVE  made'[v] \cap made'[w] = {}
    <3>1. /\ v \in Open /\ v # u /\ v \in Opened
          /\ w \in Open /\ w # u /\ w \in Opened
      BY <1>11 DEF Open
    <3>2. /\ made[v] \cap made[w] = {} /\ made[v] \cap made[u] = {}
          /\ made[w] \cap made[u] = {}
      BY <2>3, <3>1 DEF UInv, Marks
    <3>3. v \notin L \/ w \notin L
      BY <1>3, <2>3
    <3>4. QED
      BY <1>16, <3>1, <3>2, <3>3
  <2>4. \A v \in Open' : v \in Open /\ v # u /\ v \in Opened
    BY <1>11 DEF Open
  <2>5. \A v \in Open' : result'[v] = NotEnded
    BY <1>6, <2>4 DEF UInv, Marks
  <2>6. /\ \A v \in Opened : unit'[v].failed => v \in hurt'
        /\ unseen' \subseteq hurt'
    BY <1>4, <1>11 DEF UInv, Marks
  <2>7. \A v \in Open' : Marked(v)' <=> Marked(v)
    BY <1>11, <2>4
  <2>8. \A v \in Open' \ {txn'} : Marked(v)' \/ closed'
    BY <1>5, <2>1, <2>7
  <2>9. \A v \in Open' : ~ Marked(v)' => made'[v] \cap committed' = {}
    BY <2>2, <2>7
  <2>10. \A v, w \in Open' : v # w => made'[v] \cap made'[w] = {}
    BY <2>3
  <2>11. QED
    BY <1>7, <2>5, <2>6, <2>8, <2>9, <2>10 DEF Marks
<1>19. Counts'
  <2>1. ASSUME NEW v \in Reliable'
        PROVE  (Escaped(v) <= MayBeKept(v))'
    <3>1. v \in Open /\ v # u /\ v \in Opened /\ v \notin blind' \cup astray'
          /\ ~ (closed /\ v = current')
      BY <1>5, <1>11 DEF Reliable, Open
    <3>2. v \in Reliable
      BY <1>4, <1>12, <3>1 DEF Reliable
    <3>3. made[v] \cap committed' = made[v] \cap committed
      <4>1. made[v] \cap made[u] = {}
        BY <3>1 DEF UInv, Marks
      <4>2. QED
        BY <1>16, <4>1
    <3>4. CASE v \notin L
      <4>1. made'[v] \cap committed' = made[v] \cap committed
        BY <1>16, <3>1, <3>3, <3>4
      <4>2. QED
        BY <1>9, <3>1, <3>2, <3>4, <4>1, CountsAt DEF Escaped, MayBeKept
    <3>5. CASE v \in L
      <4>1. Cardinality(made[u] \cap committed') <= kept
        BY <1>4, <1>5, <1>12, <3>1, <3>5
      <4>2. PICK S \in SUBSET Writes : S = made[v] \cap committed
        BY <3>1, RecordFields
      <4>3. PICK T \in SUBSET Writes : T = made[u] \cap committed'
        BY <1>2, RecordFields
      <4>4. PICK R \in SUBSET Writes : R = made'[v] \cap committed'
        BY <1>7, <3>1
      <4>5. R = S \cup T
        BY <1>16, <3>3, <3>5, <4>2, <4>3, <4>4
      <4>6. Cardinality(R) <= Cardinality(S) + Cardinality(T)
        BY <4>5, UnionBound
      <4>7. Cardinality(S) <= MayBeKept(v) /\ Cardinality(T) <= kept
        BY <3>2, <4>1, <4>2, <4>3, CountsAt
      <4>8. MayBeKept(v)' = MayBeKept(v) + kept /\ MayBeKept(v) \in Nat
        BY <1>10, <3>1, <3>5, RecordFields DEF MayBeKept
      <4>9. Cardinality(R) \in Nat /\ Cardinality(S) \in Nat
            /\ Cardinality(T) \in Nat
        BY WritesFinite
      <4>10. Cardinality(R) <= MayBeKept(v)'
        BY <4>6, <4>7, <4>8, <4>9
      <4>11. QED
        BY <4>4, <4>10 DEF Escaped, MayBeKept
    <3>6. QED
      BY <3>4, <3>5
  <2>2. QED
    BY <2>1 DEF Counts
<1>20. QED
  BY <1>13, <1>14, <1>17, <1>18, <1>19 DEF UInv

\* How each way of exiting leaves the database and the units around.
LEMMA ExitLeaves ==
  ASSUME UInv, NEW u \in Opened, Exit(u)
  PROVE  u \in Open /\ \E kept \in Nat : \E ended : Leaves(u, kept, ended)
<1>1. u \in Open
  BY RecordFields
     DEF UInv, Transaction, Exit, RaiseEarly, RaiseRollsBack, RaiseFindsNone,
         RaiseRollbackFails, FinishEarly, FinishCommits, FinishFindsNone,
         FinishCommitFails, EndFails
<1>2. MayBeKept(u) \in Nat /\ unit[u].writes \in Nat
      /\ unit[u].writesAfter \in Nat
  BY RecordFields DEF MayBeKept
<1>3. u \in Reliable => Cardinality(made[u] \cap committed) <= MayBeKept(u)
  BY CountsAt
<1>4. txn # NoUnit /\ current = u /\ u \notin astray =>
        /\ pending = made[u] /\ made[u] \cap committed = {}
        /\ Cardinality(made[u]) <= unit[u].writes
  BY RecordFields DEF UInv, Transaction
<1>5. closed => txn = NoUnit
  BY DEF UInv, Transaction
<1>6. CASE \/ RaiseEarly(u) \/ FinishEarly(u)
           \/ RaiseFindsNone(u) \/ FinishFindsNone(u)
  <2>1. u \in blind \cup astray \/ u \in Reliable
    BY <1>1, <1>6 DEF RaiseEarly, FinishEarly, RaiseFindsNone,
       FinishFindsNone, Reliable
  <2>2. UNCHANGED database /\ Restore(u, MayBeKept(u))
        /\ (current = u => txn = NoUnit)
    BY <1>6 DEF RaiseEarly, FinishEarly, RaiseFindsNone, FinishFindsNone
  <2>3. PICK ended : Tell(u, ended)
    BY <1>6 DEF RaiseEarly, FinishEarly, RaiseFindsNone, FinishFindsNone
  <2>4. pending = {} \/ txn # NoUnit
    BY DEF UInv, Transaction
  <2>5. Leaves(u, MayBeKept(u), ended)
    BY <1>3, <2>1, <2>2, <2>3, <2>4 DEF Leaves, database
  <2>6. QED
    BY <1>1, <1>2, <2>5
<1>7. CASE RaiseRollsBack(u)
  <2>1. u \in astray \/ Cardinality(made[u] \cap committed') <= 0
    BY <1>4, <1>7, FS_EmptySet DEF RaiseRollsBack
  <2>2. Leaves(u, 0, Ended("raised", "none", 0))
    BY <1>7, <2>1 DEF RaiseRollsBack, Leaves
  <2>3. QED
    BY <1>1, <2>2
<1>8. CASE RaiseRollbackFails(u) \/ FinishCommitFails(u)
  <2>1. EndFails(u)
    BY <1>8 DEF RaiseRollbackFails, FinishCommitFails
  <2>2. PICK kept \in Nat : Restore(u, kept)
    BY <1>2, <1>8 DEF RaiseRollbackFails, FinishCommitFails
  <2>3. PICK ended : Tell(u, ended) /\ EndFailed(ended)
    BY <1>8 DEF RaiseRollbackFails, FinishCommitFails, EndFailed, Ended
  <2>4. /\ current = u /\ UNCHANGED <<committed, closed>>
        /\ \/ txn' = NoUnit /\ pending' = {}
           \/ txn # NoUnit /\ UNCHANGED <<txn, pending>>
    BY <1>5, <2>1 DEF EndFails, UInv, Transaction
  <2>5. closed \/ txn # NoUnit
    BY <2>1 DEF EndFails
  <2>6. \/ u \in astray \/ closed
        \/ Cardinality(made[u] \cap committed') <= kept
    BY <1>4, <2>4, <2>5, FS_EmptySet
  <2>7. Leaves(u, kept, ended)
    BY <2>2, <2>3, <2>4, <2>6 DEF Leaves
  <2>8. QED
    BY <1>1, <2>7
<1>9. CASE FinishCommits(u)
  <2>1. u \in astray \/ made[u] \cap committed' = made[u]
    BY <1>4, <1>9 DEF FinishCommits
  <2>2. Leaves(u, unit[u].writes, Ended("committed", "none", 0))
    BY <1>4, <1>9, <2>1 DEF FinishCommits, Leaves
  <2>3. QED
    BY <1>1, <1>2, <2>2
<1>10. QED
  BY <1>6, <1>7, <1>8, <1>9 DEF Exit

LEMMA InitUInv == Init => UInv
<1> SUFFICES ASSUME Init PROVE UInv
  OBVIOUS
<1>1. Opened = {} /\ Open = {}
  BY DEF Init, None, Opened, Open
<1>2. TypeOK
  BY <1>1 DEF Init, None, TypeOK, Opened
<1>3. QED
  BY <1>1, <1>2 DEF Init, UInv, Nesting, Transaction, Marks, Counts, Reliable

LEMMA StutterKeeps ==
  ASSUME UInv, UNCHANGED vars
  PROVE  UInv'
  BY DEF vars, database, history, UInv, TypeOK, Nesting, Transaction,
     Marks, Counts, Reliable, Escaped, MayBeKept, Marked, Open, Opened

\* The records and the database stay in step.
THEOREM UnitInvariance == Spec => []UInv
<1>1. Init => UInv
  BY InitUInv
<1>2. UInv /\ [Next]_vars => UInv'
  <2> SUFFICES ASSUME UInv, [Next]_vars
               PROVE  UInv'
    OBVIOUS
  <2>1. ASSUME NEW u \in Opened, Exit(u)
        PROVE  UInv'
    <3>1. u \in Open
      BY <2>1, ExitLeaves
    <3>2. PICK kept \in Nat : \E ended : Leaves(u, kept, ended)
      BY <2>1, ExitLeaves
    <3>3. PICK ended : Leaves(u, kept, ended)
      BY <3>2
    <3>4. QED
      BY <3>1, <3>3, LeavesKeeps
  <2>2. QED
    BY <2>1, WriteKeeps, StatementFailsKeeps, StatementRefusedKeeps,
       BareStatementFailsKeeps, CloseConnectionKeeps, BeginFailsKeeps,
       BeginKeeps, StutterKeeps DEF Next
<1>3. QED
  BY <1>1, <1>2, PTL DEF Spec

-----------------------------------------------------------------------------
(* The properties the run checks, for every number of units and writes.     *)

\* Type correctness of the bookkeeping.
THEOREM UnitTypes == Spec => []TypeOK
<1>1. UInv => TypeOK
  BY DEF UInv
<1>2. QED
  BY <1>1, UnitInvariance, PTL

\* A transaction of an open unit is the current unit's own, and what is in the
\* open transaction are writes of the current unit.
THEOREM OneTransaction == Spec => []TransactionIsCurrents
<1>1. UInv => TransactionIsCurrents
  BY DEF UInv, Transaction, TransactionIsCurrents
<1>2. QED
  BY <1>1, UnitInvariance, PTL

\* Once every unit has exited no record lingers, and no transaction but one
\* whose unit was told that ending it failed.
THEOREM NoUnitLingers == Spec => []NoStaleUnit
<1>1. UInv => NoStaleUnit
  BY DEF UInv, Transaction, NoStaleUnit
<1>2. QED
  BY <1>1, UnitInvariance, PTL

\* The record of an open unit never under-counts what is in place, unless it
\* saw a failure too late or is in a transaction another unit failed to end.
THEOREM EscapesAreCounted == Spec => []KeptIsCounted
<1>1. UInv => KeptIsCounted
  BY DEF UInv, Counts, Reliable, KeptIsCounted
<1>2. QED
  BY <1>1, UnitInvariance, PTL

-----------------------------------------------------------------------------
(* What a step may do.                                                      *)

\* A write that reaches the database by itself is one of a unit in which a
\* statement failed.
LEMMA OutsideIsHurt ==
  ASSUME UInv, NEW u \in Open, u # txn, ~ closed
  PROVE  u \in hurt
  BY DEF UInv, Marks, Marked, Open

\* What a commit adds is its unit's, and all of it unless the unit went astray.
LEMMA CommitAdds ==
  ASSUME UInv, NEW u \in Opened, FinishCommits(u)
  PROVE  /\ txn \in Open => txn = u
         /\ ~ closed
         /\ committed' \subseteq committed \cup made[u]
         /\ txn = u \/ u \notin astray => committed' = committed \cup made[u]
         /\ result'[u].how = "committed"
  BY RecordFields
     DEF UInv, TypeOK, Transaction, FinishCommits, Tell, Ended

\* Only an exit that commits tells its caller so, or adds to the database
\* what units wrote in their transaction.
LEMMA CommitsOnlyByCommit ==
  ASSUME UInv, [Next]_vars
  PROVE  \/ committed' = committed /\ \A u \in Opened :
              result'[u].how = "committed" => result[u].how = "committed"
         \/ Write /\ result' = result
         \/ \E u \in Opened :
              /\ FinishCommits(u)
              /\ \A v \in Opened : v # u => result'[v] = result[v]
<1> DEFINE Stays == committed' = committed /\ \A u \in Opened :
                      result'[u].how = "committed" => result[u].how = "committed"
<1>1. ASSUME NEW u \in Opened, Exit(u), ~ FinishCommits(u)
      PROVE  Stays
  <2>1. PICK ended : Tell(u, ended) /\ ended.how # "committed"
    BY <1>1 DEF Exit, RaiseEarly, RaiseRollsBack, RaiseFindsNone,
       RaiseRollbackFails, FinishEarly, FinishFindsNone, FinishCommitFails,
       Reports, Ended
  <2>2. committed' = committed
    BY <1>1 DEF Exit, RaiseEarly, RaiseRollsBack, RaiseFindsNone,
       RaiseRollbackFails, FinishEarly, FinishFindsNone, FinishCommitFails,
       EndFails, database
  <2>3. QED
    BY <2>1, <2>2 DEF Tell, UInv, TypeOK
<1>2. ASSUME NEW u \in Opened, FinishCommits(u)
      PROVE  \A v \in Opened : v # u => result'[v] = result[v]
  BY <1>2 DEF FinishCommits, Tell, UInv, TypeOK
<1>3. ASSUME NEW u \in NextUnit, Begin(u)
      PROVE  Stays
  BY <1>3 DEF Begin, NextUnit, UInv, TypeOK
<1>4. ASSUME \/ StatementFails \/ StatementRefused \/ BareStatementFails
             \/ CloseConnection \/ BeginFails \/ UNCHANGED vars
      PROVE  Stays
  BY <1>4 DEF StatementFails, StatementRefused, BareStatementFails,
     CloseConnection, BeginFails, vars, database
<1>5. Write => result' = result
  BY DEF Write
<1> HIDE DEF Stays
<1>6. \/ Stays
      \/ Write /\ result' = result
      \/ \E u \in Opened :
           /\ FinishCommits(u)
           /\ \A v \in Opened : v # u => result'[v] = result[v]
  <2>1. CASE UNCHANGED vars
    BY <1>4, <2>1
  <2>2. CASE Next
    BY <1>1, <1>2, <1>3, <1>4, <1>5, <2>2 DEF Next
  <2>3. QED
    BY <2>1, <2>2
<1>7. QED
  BY <1>6 DEF Stays

\* A unit that commits leaves all of its writes in place, unless it went on in
\* a transaction a unit inside it had failed to end.
THEOREM CommitIsWhole == Spec => CommitKeepsAll
<1>1. UInv /\ [Next]_vars =>
        [\A u \in Opened :
           (/\ result[u].how = "open" /\ result'[u].how = "committed"
            /\ u \notin astray)
             => made[u] \subseteq committed']_vars
  <2> SUFFICES ASSUME UInv, [Next]_vars, NEW u \in Opened,
                      result[u].how = "open", result'[u].how = "committed",
                      u \notin astray
               PROVE  made[u] \subseteq committed'
    OBVIOUS
  <2>1. PICK v \in Opened : /\ FinishCommits(v)
                            /\ v # u => result'[u] = result[u]
    BY CommitsOnlyByCommit
  <2>2. QED
    BY <2>1, CommitAdds
<1>2. QED
  BY <1>1, UnitInvariance, PTL DEF Spec, CommitKeepsAll

\* A unit in which no statement failed is all or nothing: its writes reach the
\* database in the one step that commits it.
THEOREM UnitIsAtomic == Spec => AllOrNothing
<1>1. UInv /\ [Next]_vars =>
        [\A w \in committed' \ committed : \A u \in Open :
           (w \in made'[u] /\ u \notin hurt') =>
             /\ result'[u].how = "committed"
             /\ made[u] \subseteq committed']_vars
  <2> SUFFICES ASSUME UInv, [Next]_vars, NEW w \in committed' \ committed,
                      NEW u \in Open, w \in made'[u], u \notin hurt'
               PROVE  /\ result'[u].how = "committed"
                      /\ made[u] \subseteq committed'
    OBVIOUS
  <2>0. u \in Opened
    BY DEF Open
  <2>1. CASE Write
    <3>1. PICK x \in Writes \ UNION {made[v] : v \in Opened} :
            /\ current # NoUnit /\ ~ closed
            /\ IF txn = NoUnit
               THEN committed' = committed \cup {x} /\ UNCHANGED pending
               ELSE pending' = pending \cup {x} /\ UNCHANGED committed
            /\ made' = [made EXCEPT ![current] = @ \cup {x}]
            /\ hurt' = hurt
      BY <2>1 DEF Write
    <3>2. w = x /\ txn = NoUnit
      BY <3>1
    <3>3. w \notin made[u]
      BY <2>0, <3>2, NewWrite
    <3>4. u = current
      BY <2>0, <3>1, <3>3 DEF UInv, TypeOK
    <3>5. QED
      BY <3>1, <3>2, <3>4, OutsideIsHurt
  <2>2. CASE ~ Write
    <3>1. PICK v \in Opened : FinishCommits(v)
      BY <2>2, CommitsOnlyByCommit
    <3>2. hurt \subseteq hurt' /\ ~ closed
      BY <3>1, CommitAdds DEF FinishCommits, Restore, Settle
    <3>3. u = txn /\ txn = v
      BY <3>1, <3>2, CommitAdds, OutsideIsHurt
    <3>4. QED
      BY <3>1, <3>3, CommitAdds
  <2>3. QED
    BY <2>1, <2>2
<1>2. QED
  BY <1>1, UnitInvariance, PTL DEF Spec, AllOrNothing

\* What an exit tells about what it leaves.
LEMMA ExitCovers ==
  ASSUME UInv, NEW u \in Opened, Exit(u), u \notin blind \cup astray,
         result'[u].how \in {"raised", "commit_error"}
  PROVE  Covers(u, result'[u])
<1>1. \A ended : Tell(u, ended) => result'[u] = ended
  BY DEF Tell, UInv, TypeOK
<1>2. u \in Reliable => Escaped(u) <= MayBeKept(u)
  BY DEF UInv, Counts
<1>3. u \in Open
  BY ExitLeaves
<1>4. CASE RaiseEarly(u) \/ RaiseFindsNone(u)
  <2>1. u \in Reliable
    BY <1>3, <1>4 DEF RaiseEarly, RaiseFindsNone, Reliable
  <2>2. result'[u] = Reports(u, "raised")
    BY <1>1, <1>4 DEF RaiseEarly, RaiseFindsNone
  <2>3. Reports(u, "raised").count = MayBeKept(u)
    BY DEF Reports, Ended
  <2>4. QED
    BY <1>2, <2>1, <2>2, <2>3 DEF Covers
<1>5. CASE FinishEarly(u) \/ FinishFindsNone(u)
  <2>1. u \in Reliable
    BY <1>3, <1>5 DEF FinishEarly, FinishFindsNone, Reliable
  <2>2. result'[u] = Ended("commit_error", GoneNote(u), MayBeKept(u))
    BY <1>1, <1>5 DEF FinishEarly, FinishFindsNone
  <2>3. result'[u].count = MayBeKept(u)
    BY <2>2 DEF Ended
  <2>4. QED
    BY <1>2, <2>1, <2>3 DEF Covers
<1>6. CASE RaiseRollsBack(u)
  <2>1. result'[u] = Ended("raised", "none", 0)
    BY <1>1, <1>6 DEF RaiseRollsBack
  <2>2. made[u] \cap committed = {}
    BY <1>6, RecordFields DEF RaiseRollsBack, UInv, Transaction
  <2>3. Escaped(u) = 0
    BY <2>2, FS_EmptySet DEF Escaped
  <2>4. QED
    BY <2>1, <2>3 DEF Covers, Ended
<1>7. CASE RaiseRollbackFails(u)
  <2>1. result'[u] = Ended("raised", "rollback_failed", 0)
    BY <1>1, <1>7 DEF RaiseRollbackFails
  <2>2. QED
    BY <2>1 DEF Covers, Ended
<1>8. CASE FinishCommits(u) \/ FinishCommitFails(u)
  <2>1. result'[u] \in {Ended("committed", "none", 0),
                        Ended("commit_failed", "none", 0)}
    BY <1>1, <1>8 DEF FinishCommits, FinishCommitFails
  <2>2. QED
    BY <2>1 DEF Ended
<1>9. QED
  BY <1>4, <1>5, <1>6, <1>7, <1>8 DEF Exit

\* What a unit says when it ends in an error covers what it left in place,
\* unless it saw a failure too late, its ROLLBACK failed for a reason of its
\* own or it went on in a transaction another unit had failed to end.
THEOREM NotesAreHonest == Spec => NotesCoverEscapes
<1> DEFINE Covered(u) ==
      LET r == result'[u]
      IN  r.how \in {"raised", "commit_error"} => Covers(u, r)
<1>1. UInv /\ [Next]_vars =>
        [\A u \in Open \ (blind \cup astray) : Covered(u)]_vars
  <2> SUFFICES ASSUME UInv, [Next]_vars, NEW u \in Open \ (blind \cup astray)
               PROVE  Covered(u)
    OBVIOUS
  <2>1. u \in Opened /\ result[u] = NotEnded
    BY DEF UInv, Marks, Open
  <2>2. CASE result'[u] = result[u]
    BY <2>1, <2>2 DEF NotEnded
  <2>3. CASE Exit(u)
    BY <2>1, <2>3, ExitCovers
  <2>4. ASSUME NEW v \in Opened, Exit(v), v # u
        PROVE  result'[u] = result[u]
    <3>1. PICK ended : Tell(v, ended)
      BY <2>4, ExitLeaves DEF Leaves
    <3>2. QED
      BY <2>1, <2>4, <3>1 DEF Tell, UInv, TypeOK
  <2>5. ASSUME NEW v \in NextUnit, Begin(v)
        PROVE  result'[u] = result[u]
    BY <2>1, <2>5 DEF Begin, NextUnit
  <2>6. ASSUME \/ Write \/ StatementFails \/ StatementRefused
               \/ BareStatementFails \/ CloseConnection \/ BeginFails
               \/ UNCHANGED vars
        PROVE  result'[u] = result[u]
    BY <2>6 DEF Write, StatementFails, StatementRefused, BareStatementFails,
       CloseConnection, BeginFails, vars
  <2> HIDE DEF Covered
  <2>7. QED
    BY <2>2, <2>3, <2>4, <2>5, <2>6 DEF Next
<1>2. QED
  BY <1>1, UnitInvariance, PTL DEF Spec, NotesCoverEscapes
=============================================================================
