# A verification of doxastica in TLA+

doxastica (`src/src/doxastica`) is a library that stores beliefs: every revision
of a belief is a new immutable `BeliefState` node in a labelled property graph,
and what is believed *now*, or *was* believed at an event, is computed from the
nodes. These modules state what that library promises, model-check it with TLC
on small instances, and prove the core of it with TLAPS for instances of any
size. File and line references are to the repository; `core.py`, `memory.py` and
`ladybug.py` are `src/doxastica/core.py`, `src/doxastica/backends/memory.py` and
`src/doxastica/backends/ladybug.py`.

## The system

| Part | State it keeps | Operations |
|---|---|---|
| `MemoryCore` (`core.py`), the engine | none of its own: it composes a backend | writes: `get_or_create_scope`, `revise`, `expand`, `contract`, `add_edge`; reads: `query_scope`, `get_scope_at`, `get_revision_chain`, `get_impact` |
| `InMemoryBackend` (`memory.py`) | nodes by label, adjacency by edge type, a label-agnostic node index | `upsert_node`, `add_edge`, `match_nodes`, `traverse`, `unit_of_work` |
| `LadybugBackend` (`ladybug.py`) | the database; `_UNITS`, one record per connection with an open unit; ownership of the connection; the connection's hop cap | the same five, `open`, `from_connection`, `close` |
| `models.py`, `protocol.py`, `ports.py`, `errors.py` | none | type declarations and the documented promises |

How they interact. A call of the engine is synchronous. A write opens one
`unit_of_work` on the backend, makes up to five backend calls inside it and
returns; an exception anywhere inside undoes the unit. Callers may open units of
their own around calls (`MemoryCore.unit_of_work`), enter them by hand and exit
them in any order. Several Ladybug backends may share one connection, which has
one transaction; `_UNITS` is what they share. Several connections of one process
may share one database, in which one transaction at a time writes. A host may
lend its connection to a backend, and goes on using it.

Where the difficulty lies:

* **Ordering.** `source_event_id` is the caller's, and events arrive late or
  share an id. `state_id` breaks ties, and is monotonic inside a process only.
* **Derived state.** There is no stored current pointer: every read and every
  write takes a maximum over the history, with a cut, a status filter and a
  retracted-means-absent rule whose order matters.
* **Partial failure.** A write is several backend calls. In memory the undo is a
  snapshot that leaves out the index. On Ladybug a failed statement may end the
  transaction by itself, after which a write commits at once.
* **Order of exits.** Units nest and, by hand, exit out of order.
* **Interleaving.** Calls on two connections to one database interleave statement
  by statement, and the process may die between two statements.
* **Borrowed state.** A backend may be the tenant of a host's connection: its hop
  cap, its open transaction and its end belong to the host.
* **Walks.** The two backends compute a bounded cascade by unrelated algorithms
  (layers with a visited set; acyclic paths of bounded length), on graphs with
  cycles.

There are no threads in the library, no messages and no timeouts, and no call
ever has to happen: the specifications are safety specifications, but for one
loop. `InMemoryBackend.traverse` runs `while layer` on graphs with cycles, and
that it ends is a liveness property (`WalkEnds`).

What makes each part correct:

* engine: the derived current state behaves as a stored pointer that moves only
  forward; history is append-only; the past changes only where a state is added
  to it; the world scope only learns; the spine has no cycle;
* units of work: a call is one atomic step or none, over any number of
  connections; the caller is told about every write that escaped;
* connection: what a backend opened is closed, what it was lent is left as it
  was, and a backend in use has all of its tables;
* cascade: a walk ends, a bounded one never silently under-reports, and the
  backends agree.

## The modules

| Module | Models | Extends / instances |
|---|---|---|
| `MemoryCore` | the engine over a store with atomic units: state, writes, reads | instances `BeliefBase` |
| `BeliefBase` | what the engine promises, as a table with one stored current state per (scope, belief) | |
| `Cascade` | what `get_impact` walks over and makes of a walk; Ladybug's `traverse` | extends `MemoryCore` |
| `MemoryWalk` | the in-memory `traverse` under `get_impact`, one step per node | extends `Cascade` |
| `MemoryUnit` | the calls of the engine on `InMemoryBackend`, one step per backend call, with units nested around them | instances `MemoryCore` twice: its reads, and the specification it implements |
| `LadybugCalls` | the calls of the engine on `LadybugBackend`, one step per statement, over several connections, with failures and crashes | extends `MemoryCore`, which it implements, and instances it for what a statement reads |
| `LadybugUnit` | `LadybugBackend.unit_of_work`, `_exec`, `_restore`, the notes | |
| `LadybugConnection` | `open`, `from_connection`, `close`, the schema bootstrap, the hop cap of `traverse` | |
| `MemoryCoreProofs`, `MemoryWalkProofs`, `MemoryUnitProofs`, `LadybugCallsProofs`, `LadybugConnectionProofs`, `LadybugUnitProofs` | proofs about the module of that name | extend it and `TLAPS`; `MemoryWalkProofs` and `LadybugCallsProofs` extend `MemoryCoreProofs` too |
| `CascadeAgreeProofs` | the proof that the two algorithms of `traverse` agree, and why the loop ends | extends `MemoryWalkProofs` |
| `MCMemoryCore`, `MCCascade`, `MCMemoryUnit`, `MCLadybugCalls`, `MCLadybugConnection` | constants, views and symmetry for TLC; `LadybugUnit` needs none | |

An operator whose comment starts "Mutated form of" is a plausible bug in the
definition that follows it. It is used by no specification: it is put in the
place of that definition to see the property that guards against it fail.

### MemoryCore

A variable per kind of graph element: `scopes`, `beliefs`, `states` (nodes),
`hasRevision`, `supersedes` (edges the engine lays) and `edges` (edges the
consumer lays with `add_edge`). `lastId` is the last `state_id` this process
minted, `restarts` counts restarts, `outcome` says how the last call ended.

A UUID is a number: `_order_key` compares canonical lower-case hexadecimal
strings, which order as the 128-bit integers do. The value and stance of a
state are stored tokens that only `contract` touches, by copying them: together
they are one `payload`. A call that raises in its unit is `CallFails`: the store
is as before, the minted id is spent. `Revise` and `Expand` are the same append,
as in the code; `Contract` has three outcomes (world-scope error, vacuous no-op,
retraction). `Restart` is a new process on the stored database: `uuid.uuid7()`
keeps its floor in the process, so the new floor is the clock's, at most the old
one. `Mintable` is what `uuid7()` may return: above the floor and never an id in
use. The second half is an assumption on the library (random bits that never
repeat), not something the code checks.

The reads are operators: `Current`, `QueryScope`, `ScopeAt`, `RevisionChain`.
The order in which they cut, take the maximum and filter is the code's.

Properties:

* `Anchored`, `RetractionHasSource`, `SpineShape`, `SpineAcyclic`,
  `OneSuccessor`: the shape of the graph after any sequence of calls;
* `LatestCutIsNow`, `FilterShowsOnlyTails`, `ChainAgrees`: the reads agree with
  each other at every cut and under every filter;
* `HistoryStable`, `InOrderWriteWins`, `WorldOnlyLearns`: what a step may not do
  to what was believed, and to what is;
* `BeliefBaseSpec`: the engine implements the abstract table of `BeliefBase`,
  with the row of (scope, belief) mapped to the ordering-max of its states. A
  late write is a stuttering step there.

### Cascade and MemoryWalk

`Dependents` is the neighbour relation of a walk against the arrows over
`DEPENDS_ON` and `DERIVED_FROM`. `LadybugTraverse` is the query of `ladybug.py`:
least length of an acyclic path within the bound, the fast path for zero, the
refusal of a negative bound and of a closure that reaches `_DEPTH_CEILING`.
`ImpactResult` is the rest of `get_impact`: the re-fetch and `truncated`. The
reference is `Closure`, the least set closed under `Dependents`.

`MemoryWalk` is the loop of `memory.py`: `layer`, `nxt`, `seen`, `reached` and
`frontier` are its variables, `Visit` an iteration over one node of the layer
(`AtBound` or `Discover`), `NextLayer` the turn of the outer loop. A layer is a
set: the order of its nodes, which is that of adjacency lists and of a frozenset
of edge types, is left open. `OtherCall` is any call of the engine while no walk
runs, so the graphs walked are those the engine can build of edges between belief
states; an in-memory graph with an edge to a node of another label (finding 3) is
not among them. `get_impact` holds
one unit of work and writes nothing, so no call runs between its steps; on
Ladybug the walk is one query inside one transaction, and rows are immutable, so
its re-fetch cannot meet another state than the walk did.

* `FrontierResumes` says a truncated result is one from whose frontier the rest
  can be found, so that an untruncated one is complete, with nothing spurious,
  and that no re-fetch fails;
* `WalkEnds`: the loop ends, on cycles and with no bound too;
* `BackendsAgree` compares the two algorithms where Ladybug's does not raise, and
  says what a negative depth is in memory, where it does: the depth zero of either;
* `RefusesOnlyDeep` says when it raises: for a negative bound, and for a full
  closure that a walk one hop short of the ceiling would not have completed, so no
  cut cascade is passed off as complete and no other is refused;
* `ImpactStable`: writing states, which lays `SUPERSEDES` edges, changes no
  cascade, and no call shrinks one.

### MemoryUnit

`db` is the backend with its index, `units` the stack of snapshots of the open
units, `call` the call in progress with its program counter. Each backend call
of a write is an action (`Probe`, `EnsureScope`, `MaterialiseBelief`,
`FindPrior`, `StoreState`, `LayHub`, `LaySpine`), and `CallRaises` may happen at
any of them. `UserOpens`, `UserFinishes`, `UserRaises` are units around calls,
which exit in any order: an exit takes its own snapshot out of the stack, and an
exception restores it, whichever units are still open. The unit of a call is the
last one entered. `_reindex` walks the label tables in the order they were created.

`CallsAreAtomic` says each call, inside a unit of its caller's too, is one step
of `MemoryCore`, or none when it raises: what is compared is `Settled`, the store
that will be left if the call raises. Only an exception that leaves a unit of the
caller's does what no call does. `IndexIsExact` and `ExceptionRestoresEntry` are
about the index and about nesting, in any order of exits. That what an exception
undid stays undone (`UndoneStaysUndone`) is not so: finding 6.

### LadybugCalls

The same calls on the reference backend. The variables of `MemoryCore` are what
is committed; `txn` is the connection whose transaction is open, `draft` what it
added, `call` the frame of the call in progress on each connection. Each
statement is an action: `BeginTransaction`, `Probe`, `MatchScope`, `MergeScope`,
`MergeBelief`, `FindPrior`, `MergeState`, `MergeHub`, `MergeSpine`, `MergeEdge`,
`Commit`. `get_or_create_scope` opens no unit: its MATCH and its MERGE
(`MergeScopeAlone`) stand outside, with other connections in between. `Fails` is
any statement that raises, which ends the call, since nothing in `core.py`
catches it; `Crash` ends every call and starts a process whose `uuid7` floor is
the clock's. `lastId` is the floor as of the last call that ended: a `uuid7()`
of a call whose transaction is still open is in its frame.

The database is external. Assumed of it: one transaction at a time writes
(`ladybug.py:591`, "Ladybug lets no other connection write"), a statement inside
it reads the committed store with its own additions, and one outside reads the
committed store. A second `BEGIN` waits or fails, both of which are here. A
`COMMIT` or `ROLLBACK` that fails ends its transaction: the code issues no
`ROLLBACK` after a failed `COMMIT` (`ladybug.py:641-652`), so that is the
database's to do. `LadybugUnit` has the other outcome, too.

`EngineSpec` is `MemoryCore`'s `Spec`, of the same variables: every call is one
step of the engine on what is committed when it ends, or leaves nothing.

### LadybugUnit

The database is external: one transaction per connection, which a failed
statement may end, and a write outside it commits at once. A `COMMIT` or
`ROLLBACK` that fails commits nothing, and may end the transaction or leave it
open, on a connection that is open or closed (`EndFails`). `unit` has the
`_Unit` record of each unit, `current` is `_UNITS[conn]`. The block inside a
unit is free: it writes, catches failures and goes on, opens units, and exits
them in any order. `StatementFails` is a failure the backend sees and that may
or may not have ended the transaction, `StatementRefused` one of
`_KEEPS_TRANSACTION`, `BareStatementFails` one on the bare connection, which no
backend sees. Each way a unit can end is an action, named for it. `made`,
`hurt`, `unseen`, `blind` and `astray` are history: no action reads them. `astray`
are the units left in a transaction that a unit inside them failed to end: their
writes go into it, and its writes may be committed by them, after the inner unit's
caller was told that its `COMMIT` failed.

* `TransactionIsCurrents`, `NoStaleUnit`: no unit settles the transaction of
  another open one, none is left registered, and a transaction outlives its unit
  only if that unit's `COMMIT` or `ROLLBACK` was reported to have failed;
* `KeptIsCounted`, `NotesCoverEscapes`: a unit that ends in an error says at
  least how many of its writes are in place. It holds as long as no unseen
  failure is followed by one that is seen (then see finding 1), the connection
  is not closed under the unit (finding 2) and the unit is not `astray`;
* `CommitKeepsAll`, `AllOrNothing`: a unit that commits, and is not `astray`, has
  all of its writes in place; one in which no statement failed reaches the database in one step.

### LadybugConnection

`handles` are the databases and connections that are open, `tables` what is in
each database, `cap` the `var_length_extend_max_depth` of each connection, `live`
the backends callers hold, `call` the call in progress. A backend is opened on
its own database, or on the connection of the `Host`, which between calls sets
its cap (`HostSetsCap`), opens and ends transactions, and closes. Every statement
and every close may fail, and a statement that fails inside a transaction may
end it. `InitFails` is the `ExitStack` of `open`. `BootstrapStatement` makes one
table at a time, in the host's transaction if it has one; whether a rollback
takes the tables along is left open.

* `NothingLeft`, `ConnectionFirst`: what a failed `open` or a `close` leaves
  open was at least tried, connection before database;
* `TenantKeepsConnection`: no backend closes what is the host's;
* `CapIsGiven`, `WalkFits`: after a walk the cap is what its holder set, and
  during it the cap is high enough. `doubtful` are the connections where the cap
  could not be read (the code falls back on the default) or put back, because
  the restoring statement failed: there the code promises nothing, and nothing
  is claimed;
* `SchemaWhole`: a backend in use has all of its tables, whatever an earlier
  attempt left of them. `undone` are those set up in a transaction the host
  rolled back: `from_connection` cannot know.

## The runs

| Run | Configuration | Bounds | Question |
|---|---|---|---|
| core | `MCMemoryCore.cfg` | 2 scopes (world and one), 2 beliefs, 3 events, 3 writes, 1 restart with the clock set back | do writes and reads keep their promises for every order of events, and implement the table of `BeliefBase` |
| cascade | `MCCascade.cfg` | 3 states, 1 edge type, every graph, depths -1 to 2 and none, ceiling 2 | does the walk end, complete, in agreement, and is it refused only where it must be |
| memory_unit | `MCMemoryUnit.cfg` | 3 writes, interrupted anywhere, 2 user units around calls, exited in any order | is a call atomic, do units restore |
| ladybug_calls | `MCLadybugCalls.cfg` | 2 connections, 2 scopes, 2 writes, 1 crash | are interleaved calls atomic |
| connection | `MCLadybugConnection.cfg` | 2 backends, 2 namespaces (one invalid), 2 tables, caps 1 and 3 around the default 2, depths 0, 2, 4 | is what was opened closed, what was lent left alone |
| ladybug_unit | `MCLadybugUnit.cfg` | 3 units, 2 writes, every failure of a statement, `COMMIT` or `ROLLBACK`, close (4.3 million states, some two minutes) | are escapes accounted for |
| tie_break, spine, shared_index, exit_order, silence, failed_commit | the `.cfg` of that name | as above, smaller; no `EndFailures` in the last two, which need none | one finding each |

Why the bounds are enough. Every property of the core is about one scope and
belief, or about two that must not affect each other; two of each show
interference. The core run has no consumer edge types, so the part of `Anchored` about such
edges is shown by the theorem `AlwaysAnchored` and not by the run.
Three writes give late, tied and in-order writes and a
write-retract-write; the restart between any two of them lets a mint land below
stored ids. A cycle, a diamond to the start and a chain that reaches the
bound exist on three nodes. Three units give a unit with an outer one that has
exited before it, and its outer in turn, which is what the loop of `_restore` is
for; two writes put one before and one after a failure. Two connections and two
writes of one belief give every pair of interleaved calls; they have one event,
so a late write there comes from an id below the stored one after the crash, and
the theorem covers the other orders. Two backends are a tenant beside an owner or
beside a tenant; the code has seven tables, of which two are enough for a
bootstrap that stops half way; depths and caps lie on either side of each other
and of the default. The theorems below lift these bounds, for every
property of the passing runs but `WalkEnds`.
`MaxGap`, `MaxRestarts`, `StateIds`, `Units`, `MaxWrites`, `MaxUserUnits` and
`Backends` are bounds and named as such in the modules. `CHECK_DEADLOCK FALSE`
stands where all ids or units may be used up or every unit or connection is
closed with nothing left to open.

Fairness. `MemoryWalk` has `WF_all(WalkStep)`: a walk that has begun goes on. The
code justifies it: `get_impact` is a synchronous loop that waits for nothing, so
each iteration is followed by the next. Nothing says a call is ever made, and no
other module has fairness.

The views of `MCMemoryCore` and `MCLadybugCalls` leave out `outcome`, which no
guard reads. The symmetries permute beliefs, connections and backends, which are
compared for equality only.

## Findings

Each is a run in which TLC shows the code doing what a docstring, a comment or a
page of the documentation says it does not.

1. `silence`: a failure on the bare connection ends the transaction, a later
   write commits by itself, and a *second* failure, seen by the backend, makes
   `writes_after` start at zero after it: the exception leaves the unit with no
   note though a write stays (`ladybug.py:606`, docstring 576-577).
2. `failed_commit`: `COMMIT` failing for another reason is taken to mean "the
   transaction was still there, so nothing ran outside it" (`ladybug.py:650`).
   With the connection closed after the transaction had ended, that is not so.
3. `shared_index`: the in-memory `add_edge` accepts a node of any label as an
   endpoint (`memory.py:99`), where the docstring (88-90) promises to mirror the
   labelled `MATCH` of the reference backend.
4. `tie_break`: across a restart with the clock set back, the later of two writes
   that share an event loses the tie (`core.py:314`;
   `docs/src/explanation/derived-current-uuid7-ordering.md:44`).
5. `spine`: a belief that was retracted and revised again has a `SUPERSEDES`
   chain that stops at the revision (`core.py:326`;
   `docs/src/explanation/superseded-chain-no-recovery.md:42`). `get_revision_chain`
   reads by `belief_id` and is not affected.
6. `exit_order`: in memory each unit restores the snapshot it took itself, in
   whatever order units exit (`memory.py:184`), so an inner unit that raises after
   the unit around it puts back what that one had undone. The docstring (172-173)
   says partial writes never persist, and Ladybug supports that order of exits
   (`ladybug.py:726-730`) and leaves nothing.

Two differences have no run of their own. A depth below zero raises on Ladybug
(`ladybug.py:470`) and walks as zero in memory (`memory.py:154`), where the parity
suite (`tests/test_backend_parity.py:5-6`) and
`docs/src/explanation/backend-contract.md:59` say the two must agree:
`RefusesOnlyDeep` and `BackendsAgree` say what each does. And a node at the bound
whose neighbours were all seen is put on the frontier (`memory.py:157`, and the same
in Ladybug's query), so a complete result may be reported truncated, which
`docs/src/how-to/trace-dependency-cascade.md:96` says it is not; the direction is
the safe one, since `FrontierResumes` has no incomplete result reported complete.

## The proofs

All theorems hold for every value of the constants, under the named assumption
of the module (events and ids are natural numbers, the world is a scope, the
host is no backend, and so on): sets of any size, finite or not, and any number
of restarts, connections, backends, units and failures. Four theorems have
hypotheses of their own, `TiesInOneProcess` and three of `MemoryUnitProofs`; each
is said below, with the finding that shows it is needed.

Every invariant and action property of a passing run is stated by a theorem. The
finite-set and sequence theorems of the library are cited for cardinalities,
finiteness and the stack of units.

### The engine: MemoryCoreProofs

1. `StepShape`: a step either writes one new state `x` with its hub edge and its
   `SUPERSEDES` edges to `prior` (`Wrote`), or no state (`Quiet`). The case
   analysis over the calls is made once, here.
2. `NewerIsStrict`, `NewerIsTransitive`: the order key is a strict total order on
   states with different ids. `TailUnique`, `TailGrows`, `TailOfOne`: the
   maximum is unique, and adding a state moves it to that state or leaves it.
3. `IInv`, the inductive invariant, has the three invariants `Anchored`,
   `RetractionHasSource`, `SpineShape`, and four facts they and the action
   properties need: `IdsUnique`, from `Mintable`; `WorldNotRetracted`;
   `TailExists`, a belief with states has a maximum (not evident for sets that
   may be infinite); and `FloorAboveIds`, before any restart no stored id is
   above the floor of `uuid7`. `Anchored` is needed for `SpineShape` (a new id
   is on no old edge), `IdsUnique` for the uniqueness of the maximum, and so for
   one `SUPERSEDES` edge per state. `Invariance` is `Spec => []IInv`.

| Theorem | Statement |
|---|---|
| `TypeCorrect` | `Spec => []TypeOK` |
| `AlwaysAnchored`, `RetractionsHaveSource`, `SpineHasShape` | `Spec => []` of the invariant |
| `ReplacedOnce` | `Spec => []OneSuccessor`: a second successor that sorts after the state would have found another maximum |
| `SpineHasNoCycle` | `Spec => []SpineAcyclic`: a new state is on no old edge, so no set of states becomes closed under `SUPERSEDES` |
| `LatestCut` | `Spec => []LatestCutIsNow`: the cut at the last event removes nothing |
| `FiltersShowTails` | `Spec => []FilterShowsOnlyTails`: rows are maxima under every filter |
| `PastIsStable` | `Spec => HistoryStable` |
| `WorldKeepsBeliefs` | `Spec => WorldOnlyLearns`: retractions are never in the world scope, so its maximum at any cut stays active |
| `LatestWriteWins` | `Spec => InOrderWriteWins`, ties from `FloorAboveIds`. Of a write that ties after a restart nothing is claimed: finding 4 |
| `FinitelyManyStates` | `Spec => []IsFiniteSet(states)`: a call writes at most one state |
| `ChainAgreesWithBase` | `Spec => []ChainAgrees`. The rank of a state is the number of older ones; ranks are an injection of `n` states into `0 .. n - 1`, so a surjection (`RankOrders`, `ChainIsByRank`), and the last entry of the chain before a cut is the maximum at that cut |
| `TiesInOneProcess` | `MaxRestarts = 0` implies `Spec => TieGoesToLaterWrite`: what the documentation says of ties is true of one process. Finding 4 is the same property with a restart |
| `ImplementsBeliefBase` | `Spec => BeliefBaseSpec`: initial states map to initial states, and a step to a step of the table or a stutter |

### The walk: MemoryWalkProofs

`WalkInv`: a node the walk has seen is in one of its layers, on its frontier, or
has all of its dependents seen; what it has seen lies in the `Closure` of its
start; with no bound the frontier is empty. That both ends of every edge are
stored is `AlwaysAnchored`. When both layers are empty the seen
nodes with the closure of the frontier are closed under `Dependents`, and
`CascadeResumes` (`WalkSpec => []FrontierResumes`) follows from `Closure` being
the least such set: no induction over paths is needed. `HistoryIsNotImpact` and
`ImpactIsStable` are `ImpactStable`, of `Spec` and of `WalkSpec`: a write leaves
`edges`, and so `Dependents`, as it was (`DependentsOfEdges`), and more edges only
make a larger closure (`ClosureGrows`).

### The two algorithms: CascadeAgreeProofs

`Within(i, d)` is what a path of at most `d` edges reaches from `i`, `Ring(i, d)`
what `d` edges reach and `d - 1` do not. The prover has no induction over the
length of a path; where one is needed the proof takes the least length at which
the claim would fail (`LeastNumber`, from `WFMin` of the library, which is stated
of a relation and a set and so can be used). `PathIsShort` bounds an acyclic
path by the number of stored states, which are finitely many
(`FinitelyManyStates`): beyond that bound nothing new is reached. From these,
`LadybugBounded` and `LadybugUnbounded` say what the query returns in terms of
`Within`, and `BoundedWalk` and `UnboundedWalk` what the loop returns.

`LayerInv` is the loop invariant behind the second: with a bound, `seen` is
`Within(start, depth)` and what of the next ring has been found; `layer` is the
part of the ring not yet visited; the nodes of the ring already visited have
their dependents in `seen`, or at the bound are on the frontier exactly if they
have any.

| Theorem | Statement |
|---|---|
| `LayerInvariance` | `WalkSpec => [](Grounded /\ LayerInv)`, where `Grounded` says the graph is finite and only stored states are on its edges |
| `BackendsAlwaysAgree` | `WalkSpec => []BackendsAgree`, on cycles and diamonds of any size, for every bound and ceiling; `BelowZeroInv` is the loop invariant of a negative bound |
| `RefusalIsExact` | `WalkSpec => []RefusesOnlyDeep`: with no bound the query raises exactly if `Within` still grows at the last hop below the ceiling |
| `LoopHasVariant` | every turn of the loop lowers a natural number, three times the unseen nodes with twice the next layer and the layer: the part of "the walk ends" that is not liveness |

### Calls in memory: MemoryUnitProofs

`UnitInv` says of `db`, and of every snapshot on the stack, that it is `Sound`
(its index knows exactly its nodes, under a label each has, and every state has its
belief), and of a call in progress how far its store is ahead of the innermost
snapshot (`Progress`, by the program counter). The store a raising call leaves is
that snapshot with a rebuilt index; a finishing call is, against that snapshot, the
whole of `Revise`, `Expand`, `Contract` or `AddEdge`.

Three hypotheses are the caller's part. `StateIdsApart`: no scope or belief has
the id of a state. State ids are UUIDs the engine mints; scope and belief ids are
strings the caller is free to choose, so nothing rules this out, and it is unlikely
only of a caller who does not pick them among UUIDs. `IdsApart`: besides, no scope
and belief share an id, which a caller may well make them do; only `UnitsRestore`
needs it, since what `_reindex` finds under such an id depends on which label was
stored first. `HandlesOfStates`: what is handed to `add_edge` are ids of states, as
its documentation takes for granted. None is checked by `memory.py`; finding 3 is
what happens without the third.

| Theorem | Hypotheses | Statement |
|---|---|---|
| `UnitInvariance` | none | `Spec => []UnitInv` |
| `IndexStaysExact` | none | `Spec => []IndexIsExact`: the index agrees with the nodes even when ids clash |
| `UnitsRestore` | `IdsApart` | `Spec => ExceptionRestoresEntry` |
| `EngineInMemory` | `StateIdsApart`, `HandlesOfStates` | `Spec => CallsAreAtomic` |
| `EdgesStayJoined` | `StateIdsApart`, `HandlesOfStates` | `Spec => []EdgesJoinStates` |

### Calls on Ladybug: LadybugCallsProofs

`CallsInv` says, of the call that holds the transaction, what it has added so far
(`ScopeProgress`, `BeliefProgress`, `StateProgress`, `HubProgress`,
`SpineProgress`, by its program counter) and that what it read is still so
(`PriorProgress`: its prior is the current state of the committed store, since
nobody else commits); of every other call, that it has added nothing (`Waiting`).
With `IInv`, each statement is a stutter of `MemoryCore` and `Commit` is
`Revise`, `Expand`, `Contract` or `AddEdge` as a whole.

| Theorem | Statement |
|---|---|
| `CallsInvariance` | `CallsSpec => [](IInv /\ CallsInv)` |
| `EngineOnLadybug` | `CallsSpec => EngineSpec`: the refinement |
| `DatabaseAnchored`, `LatestCommitWins` | `CallsSpec => []Anchored`, `CallsSpec => InOrderWriteWins`, by the refinement from the theorems about the engine; so may the others be |
| `DatabaseIsATable` | `CallsSpec => BeliefBaseSpec`: the two refinements composed |

### Connections: LadybugConnectionProofs

`ConnectionInv` has four parts besides the types. `HandleInv`: a handle no one
has tried to close belongs to a backend in use or is answered for by the call in
progress. `CapInv`: the cap is as given, or the call holds the given value in
`prior_cap` and has yet to restore it. `SchemaInv`: the first `ddl` tables of the
call's namespace are in the database or in the open transaction. `NamespaceInv`:
no statement is made from a namespace that did not pass.

| Theorem | Statement |
|---|---|
| `ConnectionInvariance` | `Spec => []ConnectionInv` |
| `NothingIsLeft`, `HostKeepsItsConnection`, `SchemaIsWhole` | `Spec => []` of `NothingLeft`, `TenantKeepsConnection`, `SchemaWhole` |
| `ConnectionTypes`, `CapIsPutBack`, `CapIsEnough` | `Spec => []` of `TypeOK`, `CapIsGiven`, `WalkFits`, the last two for the connections not in `doubtful` |
| `ConnectionGoesFirst` | `Spec => ConnectionFirst`, with `ClosingInv`: what is being closed is in no one's use, so the handle a close of a database finds is the one its own call has tried |

### Units on Ladybug: LadybugUnitProofs

`UInv` has `TypeOK` and four parts. `Nesting`: a unit opens inside another only
once the other's transaction has ended. `Transaction`: the
transaction of an open unit is the current unit's and holds all its writes; one
that its unit failed to end holds writes of the current unit, which is `astray`.
`Marks`: an open unit without the
transaction has a failure to show for it, and one without a failure has left
nothing in place. `Counts`: the record of a unit covers what escaped of it. The
heart is that a unit around another is never the holder of the transaction and
is already marked, so the writes an inner unit leaves land in a record that
counts them. `Reliable`, in `Counts`, leaves out the units of the two findings:
those with an unseen failure before a seen one and the current unit of a closed
connection; and the `astray` units, whose record may miss what an inner unit wrote
into the transaction they commit.

| Theorem | Statement |
|---|---|
| `UnitInvariance` | `Spec => []UInv` |
| `UnitTypes`, `OneTransaction`, `NoUnitLingers`, `EscapesAreCounted` | `Spec => []` of `TypeOK`, `TransactionIsCurrents`, `NoStaleUnit`, `KeptIsCounted` |
| `CommitIsWhole`, `UnitIsAtomic`, `NotesAreHonest` | `Spec =>` of `CommitKeepsAll`, `AllOrNothing`, `NotesCoverEscapes` |

### Only model-checked

`WalkEnds`: liveness under fairness is out of the prover's reach. Its safety half
is `LoopHasVariant`. The properties of the runs that expect a violation are false
of the code; two of them hold, and are proved, under a hypothesis
(`TiesInOneProcess`, `EdgesStayJoined`).

## Not modelled

* The encoding of values (json, base64) and of stance, and the hydration of
  rows: a round trip of opaque data. Stance has an order that no operation of
  the engine reads.
* The text of Cypher queries and the validation of the identifiers in them: what
  they do to the graph is modelled, not how they are put together.
* The direction `"out"` of `traverse`, which no call of the engine asks for, and
  its `ValueError`s for arguments the engine does not pass.
* An interrupt that lands between two statements of Python where no call of the
  driver is (between the lift of the cap and the `try`, for one).
* A unit of a caller's that spans several calls, on two connections:
  `LadybugUnit` has units and their statements on one connection, `LadybugCalls`
  one unit per call. In particular a write of the engine inside a caller's own
  unit is a nested `BEGIN` on Ladybug, which fails and may end the transaction
  (`BeginFails` of `LadybugUnit`), while in memory units nest.
* On Ladybug, calls of the engine over a `COMMIT` or `ROLLBACK` that fails and
  leaves its transaction open: `LadybugUnit` has it, `LadybugCalls` does not.
* In memory, walks over a graph with an edge to a node that is no belief state
  (finding 3), where the re-fetch of `get_impact` would find no such state.
* The threads of a caller: neither backend has a lock, and the documentation
  promises nothing there.
* `protocol.py`, `ports.py`, `models.py` and `errors.py` declare types; the
  promises in their docstrings are the properties.
* Documentation scripts and packaging.

## Plan

Done: the engine, the cascade, the units of work of both backends, the calls on
both, connections, and the proofs above. What could be added:

1. The invariants of the engine (`IInv`) of every store in memory, after callers'
   rollbacks too: leaving a unit of the caller's is a step no call of the engine
   makes, so they do not follow from `CallsAreAtomic`. They are needed of each
   snapshot on the stack.
2. A caller's unit around several calls, with a second connection beside it.
