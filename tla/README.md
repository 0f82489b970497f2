# vexdb in TLA+

This directory holds TLA+ specifications of vexdb, a vector database: its HTTP
server and snapshot files (`crates/vex-server`, `crates/vex-core/src/persist.rs`)
and its two indexes (`crates/vex-core/src/flat.rs`, `hnsw.rs`). TLC checks them on
small instances, TLAPS proves the central theorems for all instances. File and
line numbers below are those of the repository; `PROJECT.json` maps each
definition to its lines.

## 1. The system

| Component | State it keeps | Operations | Interacts with |
|---|---|---|---|
| Registry (`state.rs`, `AppState`) | `RwLock<HashMap<name, Arc<Collection>>>` | `load`, `get`, `flush_all` | handlers clone Arcs out of it; create and drop change it |
| Collection (`state.rs`) | `RwLock<AnyIndex>`, `dirty: AtomicBool` | `flush` | flushed by requests, the background task and `main` |
| Handlers (`routes.rs`) | none | create, drop, upsert, delete, snapshot; list, stats, search | locks of the registry and of one index |
| Background task, `main` (`main.rs`) | ticker | tick, drain, final flush | `flush_all`, concurrently with handlers and with each other |
| Snapshot files (`persist.rs`) | `<name>.vex`, `<name>.vex.tmp` | `save`, `load` | the file system; overlapping saves share the temporary file |
| Snapshot format (`persist.rs`) | none | `write_*`, `read_*` | both indexes |
| Flat index (`flat.rs`) | entries, position map | add, remove, search | distance, filters |
| HNSW index (`hnsw.rs`) | node arena, id map, entry point, top layer, live count, RNG | add, remove, search, exact search, traced search | distance, filters, trace sinks |
| Filters (`payload.rs`), distances (`distance.rs`), vectors | none | pure functions | searches |
| CLI, wasm bindings, demo, scripts | an index each | wrappers | vex-core |

What is hard here:

* *Concurrency.* Handlers run in parallel on the threads of one tokio runtime.
  The registry lock, the index lock and the dirty flag are three separate things;
  handlers hold an `Arc` that outlives its registration; `flush` holds a *read*
  lock, so two flushes of one collection run side by side on the same two files.
* *Failure.* The process may be killed between any two system calls, a call may
  fail, a payload may turn out to be unserialisable; then comes a restart from
  the files that are there.
* *Ordering.* The dirty flag is set after the index changed and cleared after it
  was saved; the final flush runs while the background one may still be running.
* *Liveness.* Writers wait behind flushes; acknowledged writes have to reach the
  disk; a signal has to end the process.
* *Partial failure.* A batch is applied point by point under the write lock; an
  insertion may panic in the middle, which poisons the lock for all that follow.
* *Data structures.* `swap_remove` with a position map; a layered graph with
  tombstones, re-added ids, bounded lists and a moving entry point; beam search
  with filters, ties and early termination.

What makes the components correct: the registry never replaces a collection
silently; a created collection survives and a dropped one does not return; the
dirty flag covers everything unsaved; a snapshot is whole at every moment; a clean
shutdown loses nothing; requests finish. Indexes implement a map; their searches
yield the right ids in the right order; the graph stays well-formed. A batch is
applied as a whole or not at all, an answer is of one moment, and whatever can be
built can be saved and read back as what it was.

## 2. Modules

| Module | Models |
|---|---|
| `SnapshotFs` | contents of a snapshot file: blocks of serialised collections, what a reader accepts |
| `VexServer` | registry, collections, handlers, flushes, process life, files |
| `VexStore` | abstract: collections in memory, and one snapshot per name that changes atomically |
| `MCVexServer` | instances of `VexServer` |
| `VexServerProofs` | lemmas and theorems: types, the registry, whole snapshots |
| `VexServerFlushProofs` | theorems on overlapping saves and the dirty flag, on what was created and dropped, and that the server implements `VexStore` |
| `PointsApi`, `MCPointsApi` | the points of one collection: handlers, batches, panics, the lock; its instance |
| `PointStore` | abstract: points that a request changes at once, and a saved moment of them |
| `PointsApiProofs` | lemmas and theorems, the refinement of `PointStore` among them |
| `SnapshotFormat`, `SnapshotFormatProofs` | what `write_flat` and `write_hnsw` put into a file and `read_any` makes of one; lemmas on it |
| `TopK`, `TopKProofs` | the bounded heap of both searches and its reference definition; lemmas on it and on loops |
| `FlatIndex` | the flat index |
| `FlatReload`, `FlatFilters` | a flat index and its snapshot, on processors with either kernel; what filters find in it |
| `MCFlatIndex`, `FlatIndexProofs` | instances of the last three modules, and their theorems |
| `HnswSearch` | algorithms that read the graph: descent, beam search, neighbor selection, and what they report |
| `HnswIndex`, `HnswIndexProofs` | insertion, deletion, search, traces; theorems |
| `HnswReload`, `HnswReloadProofs`, `MCHnswIndex` | an HNSW index that is saved and loaded as it is used; theorems; instances |
| `PayloadFilter` | JSON values and `Filter::matches` |
| `DistanceKernels` | the sums of the scalar and the AVX2 kernels |
| `VectorMap` | abstract: what the `Index` trait promises of either index, a map |

There are two models of the server, at two grains. `VexServer` has many collections,
every system call of a save, and the flag; a mutation is one step of it. `PointsApi`
has one collection and every point of a batch; a save is one step of it. `FlatReload`
and `HnswReload` compose an index with `SnapshotFormat`, the flat one also with
`DistanceKernels`; `FlatFilters` composes the flat index with `PayloadFilter`.
`HnswReload` adds an action: `Reload` replaces the index by what its snapshot yields.

### VexServer and SnapshotFs

A process is a worker (a runtime thread serving a request), `Background` (the
flush task) or `Main` (the final flush). `pc[p]` names the point between two steps;
a step runs from one point where others can see a difference to the next:

| Code | Steps |
|---|---|
| `upsert_points`, `delete_point` | `StartWrite` (`get`), `ApplyWrite` or `ApplyNothing` (under the write lock), `MarkDirty` (after it) |
| `snapshot_collection` | `StartSnapshot` (`get`), then a save |
| `create_collection` | `BeginCreate` (lock, check, new collection), a save with the registry locked, `PublishCreated` |
| `drop_collection` | `DropCollection` (remove, unlock), `DropExists`, `DropUnlink` |
| `Collection::flush`, `AnyIndex::save` | `FlushLock`, `OpenTmp`, `WriteBlock`..., `RenameTmp`, `ClearDirty`; `FlushFails` at any of them |
| `flush_all` | `StartTick` or `StartFinalFlush` (copy the Arcs), `NextCollection`..., `EndFlushAll` |
| `main` | `Signal`, `StartFinalFlush`, `Exit`; `Crash` for a kill; `Load` or `LoadFails` for the next start |

A collection object is an *incarnation*, a number: a name that is dropped and
created again stands for another one, and a stale Arc for an old one. The state of
an index is the set of mutations applied to it. A file is a sequence of blocks, each
tagged with the snapshot it is a part of; a fresh index fits in one block, an index
with data takes two, so that files are found half written and a file can mix two
snapshots. A file descriptor follows its file through renames and removals (`fd`):
a save whose file was renamed by another one goes on writing under the final name.
`acked` and `fate` record what clients were told.

Read locks are not variables: the readers of an index that matter are the processes
inside `save` (`Saving`), and the write lock is taken and released in one step. The
registry lock is a variable because `create_collection` keeps it while it saves.

What this abstraction leaves out: the read-only handlers and a read-only server; the
answers' contents, batches and panics, which `PointsApi` has; a mutation that cannot
be serialised stays in the index (nobody deletes that point again); a reader that
queues behind a waiting writer (this delays it, and no property depends on who is
first); power loss (`save` calls no `fsync`, so what it promises is about killed
processes). The map names `write_hnsw` and `read_hnsw_body` for the blocks and the
rejection of torn files, the flat bodies being handled alike.

### PointsApi

An index is a map from ids to points, with the length of the node arena and the top
layer if it is an HNSW index. The locks are variables here (`writer`, `readers`,
`poisoned`). `pc[w]` names where a thread is:

| `pc` | Code | Steps from there |
|---|---|---|
| `u_lock` | `upsert_points` before `lock_write` | `LockUpsert` (lock, check the whole batch) or `RefuseUpsert` |
| `u_apply` | its loop over the points | `ApplyPoint` (`remove`, `Vector::new`, `add_with_payload`), `StopUpsert` for an error or a panic, `EndUpsert` |
| `d_lock` | `delete_point` | `DeletePoint`, `RefuseDelete` |
| `s_lock` | `search` before `lock_read` | `RunSearch`, or `RefuseSearch` (poisoned, or the search panics) |
| `s_answer` | after `search_opts`, the guard still held | `AnswerSearch`, which looks the payloads up |
| `f_lock`, `f_save`, `f_done` | `Collection::flush` | `LockSave` or `RefuseSave`, `Save`, `EndSave` |

`create_collection` is the choice of `config` among what it accepts (`Accepts`). A
panic of `add_with_payload` comes from one of two causes the code has: `m = 1`,
which `routes.rs:187` accepts although `sample_level` divides by `ln(1) = 0`, and an
arena whose next position does not fit in 32 bits. With `m = 1` the level is
`usize::MAX`, and `level + 1` panics in a build that checks overflow
(`OverflowChecks`) and wraps in one that does not: the node has no layers, and the
next insertion or search panics. A panic under the write lock poisons it, one under
a read lock does not. `committed` is a history variable: the points when the write
lock was last released by a holder that did not panic.

`fits` tells whether the dimension of a point is the collection's. `Vector::new` in
the loop would find that out too, but after a remove and perhaps after other points:
without the check before the loop a batch is applied in half.

### SnapshotFormat

A file is a sequence of sections: the header, the counters of the body, one section
for each entry or node. A section that a reader does not get to the end of is one
that is not there. Writers yield a file or nothing (`put_payload` refuses), readers
an index or nothing; both are sets of at most one element. `ReadFlatBody` and
`ReadHnswBody` have the checks of the readers, and rebuild `id_to_pos` entry by entry
(`EntryPositions`, `NodePositions`) with the readers' rule for tombstones. Bytes within sections, JSON as
text and which `SnapshotError` a refusal is are left out.

### Indexes

`FlatIndex` and `HnswIndex` are deterministic translations with the vector's
distance function, the filter predicate and, for HNSW, the levels a node may get as
parameters; `sample_level` is a choice among `Levels`, which covers any seed.
Positions of `FlatIndex` are the code's; those of `HnswIndex` are the code's plus
one, and 0 is `None`. Distances are natural numbers that stand for ranks under
`total_cmp` (`Dist \in Nat` is assumed, nothing else of it: neither symmetry nor a
triangle inequality); NaN, for which `<` and `total_cmp` differ, is not covered. Loops of
the code are functions of the number of turns, or folds, so that no operator is
RECURSIVE there. An insertion searches all layers before it changes any: the search
of a layer reads only that layer's lists, which the code has not changed yet at that
point either. `M >= 2` is assumed; `m = 1` is a matter of `PointsApi`.

What the searches report to a `TraceSink` is part of the walk and of the beam of
`HnswSearch`: hops, edges with their status, numbers of distances. `SearchTraced`
puts ids in the place of positions, as `TraceRecorder` does.

`PayloadFilter` has JSON values as records that tell their kind, so that 3 and 3.0
are different for `eq` and alike for `range`, and filters as terms. `MatchesGiven` is
one level of `Filter::matches`: whether a filter matches a payload, given which of its
`Parts` do. `MCFlatIndex` closes the recursion (`FilterMatches`, which is RECURSIVE);
`FlatFilters` assumes of `Matches` only that it satisfies the equation
(`FilterAssumption`), for the filters that the properties are about.
`DistanceKernels` has the sums over integers: what the lanes, the chunks, the rest
and the horizontal sum of the AVX2 code add up, without rounding.

### Abstract specifications

`VexStore` lets a snapshot change only from one whole state to another: to a fresh
collection before anyone sees it, to the current state of the collection, or to
nothing once it is dropped. `ImplementsStore` maps `live` to the registered
collections of a running server and `disk` to what loading each file would yield.
`PointStore` upserts a batch, deletes, saves and restarts in one step each;
`ImplementsPointStore` maps what clients find to `committed` and the snapshot to
`disk.points`. `VectorMap` is a partial function; `ImplementsMap` maps it to what
`vector()` and `payload()` answer.

## 3. What is checked

Every run finishes within about two and a half minutes with two TLC workers, most of
them in less than one.

| Run | Instance | Properties |
|---|---|---|
| `server_core` | 1 name, 3 workers (symmetric), create/upsert/delete/snapshot, 2 mutations, shutdown, crashes; 438,846 states | `DirtyCoversUnsaved`, `TornOnlyWhileWriting`, `CleanShutdownKeepsAcked` |
| `server_crash` | `AloneSpec`: 2 names, 2 workers (both symmetric), create/drop/upsert/snapshot, one unserialisable mutation, failing calls, crashes, 3 incarnations; about 1.1 million states | `DirtyCoversUnsaved`, `NoTruncatedSnapshot`, `CreatedSurvives`, `ImplementsStore` |
| `server_drop` | 2 names, 3 workers, create/drop, crashes, 3 incarnations; 63,905 states | `DroppedStaysDropped`, `RegisteredNeverReplaced` |
| `server_live` | 2 names, 2 workers, create/upsert/delete, 2 mutations of which one cannot be serialised, shutdown, fairness; 38,793 states | `RequestsFinish`, `WritesReachDisk`, `ShutdownEnds` |
| `points` | 3 threads, 2 ids, batches of two points, flat and HNSW collections made at the limits, 2 upserts, crashes, fairness; 56,858 states | `TypeOK`, `AnswersAreCommitted`, `SnapshotsLoad`, `ImplementsPointStore`, `RequestsEnd` |
| `flat` | 4 ids, 3 vectors on a line, 4 payloads, filters of every operator; 37,468 states | `TypeOK`, `PositionsAgree`, `SearchIsExact`, `FiltersFindSets`, `BareVectorsNeedVacuousFilters`, `FlatSurvivesReload`, `DamagedFlatIsRefused`, `KernelsAgree`, `ImplementsMap` |
| `hnsw` | `MCSpec`: adds, removes and re-adds on 3 nodes with 2 payloads, removals from 4 nodes, growth to 6 nodes, reloads; 2 layers, 2 vectors; 12,265 states | `TypeOK`, `EdgesStayInLayer`, `EntryIsHighest`, `LiveNodesAgree`, `SearchIsSound`, `SmallIndexIsExact`, `TraceTellsTheSearch`, `FiltersWidenTheSearch`, `HnswSurvivesReload`, `DamagedHnswIsRefused`, `ImplementsMap` |

Each of these properties is also run against a mutant of the code (operators with
a comment that starts with "Mutant"), and TLC finds the mutant out.

*What the less obvious properties say.* `DirtyCoversUnsaved` is checked twice: in
`server_core` against flushes that overlap each other and the writers, in
`server_crash` against saves that fail, after which the flag has to stay.
`WritesReachDisk`: in `server_live` the collection that got the second mutation
fails in each pass of `flush_all`, whichever it visits first, and a mutation of the
other one still gets to the disk. `AnswersAreCommitted`: the payload of a hit
belongs to the vector that was found, and neither hits nor counts are of half a
batch. `SnapshotsLoad`: the limits of `create_collection` and those of the readers
fit each other, with two exceptions it names. `TraceTellsTheSearch`: a recorded
trace, which names nodes by ids that a tombstone and its successor share, still
leads from the entry point to every hit. `FiltersWidenTheSearch`: a search that
yields fewer than `k` hits has found all there is in its component of the graph.
`HnswSurvivesReload` has one exception as well: an id removed more than once is
mapped to another of its tombstones after a reload, which nothing can observe.

*Why the bounds suffice.* The races of the server are among two saves of one
collection and one writer, or among a drop, a create and a flush of one name: three
workers plus the two flushers contain all of them, and `server_core` has room for
both flushers, two snapshot requests and a write at once. Two blocks are enough for
a torn and for a mixed file. Three incarnations of two names let a name be reused
and another be there. Two mutations let one be saved and another not; how several writes
of one collection race its flushes is a matter of safety and of `server_core`. In
`points`, a batch of two points has a middle, an id twice or a bad point after a good one; three
threads are a writer, a reader and a save; `MaxPos` 2 stands for `u32::MAX`, so
that the second of two upserts of two points fills the arena and panics. In the
indexes, four ids make `swap_remove` move the first, an inner and the last entry;
with M = 2, lists of the upper layer overflow from the fourth node on and those of
layer 0 with the sixth. Up to 24 components give a kernel three chunks and every
length of the rest.

*Where the index runs are reduced.* Vectors that a reflection exchanges are added
first in one order only (`Canonical`); in `hnsw`, new ids come in order, since ids
are only compared; in `flat`, the payloads a vector may carry depend on its id
(`MayCarry`); once nodes are removed or carry payloads, the arena stays within
`ChurnNodes`, 3, plus one.

*Where the runs are restricted.* `NoTruncatedSnapshot`, `CreatedSurvives` and
`ImplementsStore` are false of the whole system (next section). `server_crash`
checks them under `AloneSpec`, where a drop or an explicit snapshot runs alone from
its start to its end, while creates, writes and the background task overlap as they
like, calls fail and the process is killed at any step; there is no shutdown, whose
flush overlaps the background's. `server_drop` has no write. What they show is that
these races are the only causes there. `points` is a release build
(`OverflowChecks = FALSE`), which has more to go wrong than a checked one.

`CHECK_DEADLOCK` is off for the two HNSW runs, whose arena is bounded, and for
`points`, where a process that cannot load the snapshot does not start again.

*Fairness.* In `server_live` the runtime schedules every thread that can take a
step and a flush in progress goes on: weak fairness of the flushers, of the ticker,
of the final flush and of the exit. A handler waiting for an index's write lock may
see it taken over and over by flushes; `std::sync::RwLock` (futex implementation)
makes new readers wait behind a waiting writer, so it gets it in the end: strong
fairness of the workers. In `points` only weak fairness of each thread's `Continue`
is assumed, and `RequestsEnd` is conditional instead: once clients fall silent,
everything under way ends, behind a panic and a poisoned lock too. No fairness of
clients, signals, crashes or restarts.

### Disagreements with the documentation

| Run | The repository says | What happens |
|---|---|---|
| `truncated_snapshot` | persist.rs:148 "a crash mid-write never leaves a truncated snapshot behind" | two overlapping saves of one collection: A truncates the shared temporary file that B has finished, B renames it, the process is killed. The next start fails (`LoadFails`). |
| `oversize_payload` | main.rs:83 "a clean shutdown never loses acknowledged writes" | a payload over 16 MiB is accepted by `upsert_points` and refused by `put_payload`: the collection can no longer be saved. |
| `dropped_returns` | README.md:115 "drop (removes the snapshot)" | a flush that had the Arc already writes the file again after the drop; the collection is back after a restart. |
| `created_lost` | routes.rs:218 "an empty collection survives a restart" | drop releases the registry before it removes the file, a create of the same name in between is answered, its file is removed. |
| `hnsw_unreachable` | index.rs:19 "`k` larger than the number of stored vectors yields `len()` results" | shrinking adjacency lists can remove the last edge into a node. |

Met while modelling, without a run of their own:

* `routes.rs:187` accepts `m = 1`, with which the first or the second point
  of an HNSW collection panics, and whose snapshot the reader refuses: the exception of
  `SnapshotsLoad`.
* `add_with_payload` accepts a node at position `u32::MAX` (hnsw.rs:615), so that
  the arena has 2^32 nodes, and the reader refuses that many (persist.rs:478): the
  other exception.
* index.rs:29 says that vectors without a payload match only vacuous filters;
  payload.rs:62 adds negations, and so does the code.
* persist.rs:34-36 promises `Corrupt` for a truncated file; some of them yield
  `Io` from `read_exact`. It is refused either way, which is what the runs check.
* The limits of `routes.rs` are the server's; the CLI and the wasm bindings have
  those of `vex-core` only.

## 4. What is proved

`VexServerProofs`, for every set of names and workers, every bound and every value
of the switches, from `ServerAssumption` alone:

* `TypeCorrect`: `Spec => []TypeOK`, for all instances, so that no run repeats it.
  `TypeOK` is not inductive: that a save stays inside its snapshot needs that the
  index does not change under it (`Offsets`, with the lock); that descriptors point
  to files that exist needs `OpenFiles`; that `Load` registers only what was made
  needs to know which incarnations the blocks of a name's files come from
  (`FilesOwned`, `Unmade`). `IInv` is their conjunction with what the registry and
  the Arcs refer to (`HoldsArc`, `RegistryOwns`), who may hold the registry lock
  (`LockHeld`) and who may work in which phase (`Stopped`). There is one lemma per
  action.
* `CreateIsExclusive`: `Spec => RegisteredNeverReplaced`, from `LockHeld`: the
  name of a create that holds the registry lock is free until it is inserted.
* `SnapshotsWhole`: under `SavesExclusive` (no drop, no snapshot request, no
  shutdown) `Spec => []NoTruncatedSnapshot`. `WInv` adds to `IInv` that at most one
  save works on the files of a name (`OneSaver`: creates hold the registry lock and
  their name is free; the background task saves registered collections only) and
  that a save under way has in the temporary file exactly the blocks written so far
  of an index its read lock keeps from changing (`SaveProgress`). The
  assumption is needed: `truncated_snapshot` is the counterexample without it.

`PointsApiProofs`, for every set of threads, ids and points, batches of any length,
either build and any `MaxPos`, from `PointsAssumption` alone:

* `PointsTypeCorrect`: `Spec => []TypeOK`, who holds which lock included.
* `AnswersAgree`: `Spec => []AnswersAreCommitted`.
* `AcceptedIsLoadable`: `Spec => []SnapshotsLoad`. The arena is the only counter
  that can grow past what the reader accepts, and `max_layer` only with `m = 1`.
* `BatchesAreAtomic`: `Spec => ImplementsPointStore`, every step maps to a step of
  `PointStore` or to a stutter.

The invariant is `PInv`. `LockInv` says that the lock is held exactly where `pc`
says so, a writer alone, and that nobody is inside once it is poisoned; `RequestInv`
says what a thread has with it, and that the batch being applied passed the check;
`IndexInv` relates the arena to the points, in memory and on disk; `SyncInv` is the
heart: with no writer and a sound lock the index is `committed`, and in the middle of
a batch it is `committed` with the first `at - 1` points applied. That point by point
amounts to `PointStore`'s definition by the last point of each id is
`AppliedNext`, a lemma about one more point; the induction over the batch is the
one over the steps of the specification. There is one lemma per action.

`VexServerFlushProofs` is about the server again, in three parts. In the first, saves of one collection may overlap here, requests for
snapshots and the flushes of a shutdown included. Two assumptions replace
`SavesExclusive`: `NothingDropped` and `SavesSucceed` (no system call of a save
fails and every mutation can be serialised). Both are needed: `dropped_returns` and
`oversize_payload` are counterexamples without them.

* `FlagCoversWrites`: `Spec => []DirtyCoversUnsaved`.
* `OverlappingSavesHeal`: `Spec => []TornOnlyWhileWriting`.
* `ShutdownKeepsAcked`: `Spec => []CleanShutdownKeepsAcked`.

All three follow from one invariant, `OInv`, and what makes it work is that it does
not ask what a file *has* but what it *will have*: a file settles on a snapshot
(`WillHold`) if each of its blocks is there already or still ahead of the offset of
a save that has the file open, under whichever name. Saves that overlap write the
same state, since each holds a read lock and writers are kept out, and so a second
`File::create` that truncates what the first one wrote, or a rename under an open
descriptor, leaves the file settling all the same.

The second part, with failing calls, crashes and shutdowns at every step:

* `CreatedSurvivesRestarts`: under `NothingDropped`, `Spec => []CreatedSurvives`.
  `CInv` follows the file of a created collection: it consists of blocks of that
  incarnation only (`SavesOwn`, `CreatedOnDisk`). `created_lost` is the
  counterexample without the assumption.
* `DropIsFinal`: under `OnlyCreatesAndDrops`, `Spec => []DroppedStaysDropped`.
  `DInv` says who can still save what (`OnlyCreatesSave`, `CreatesFresh`), that an
  incarnation is in one file at most (`InOneFile`) and in none once its drop was
  answered. `dropped_returns` is the counterexample when there are writes.

The third part: `SavesAreAtomic`, `Spec => ImplementsStore` under
`SavesExclusive`. Every step maps to a step of `VexStore` or a stutter: `RenameTmp`
to the change of a snapshot, `Load` to a stutter since what is loaded is what the
mapping had on disk. `RInv` is `WInv` with what a create has in the file before it
is published (`NewIsEmpty`, `NewOnDisk`).

The other modules are about the indexes.

`TopKProofs` has the lemmas about `Offer`, `Sorted` and `LeastK` (`OfferKeepsLeast`:
the heap has the `cap` least of all items offered so far; `SortedLeast`) and a way
to prove what loops compute. The induction theorems of the library take an operator
as a parameter, which the provers here cannot instantiate; `NatSetInduction` is
induction for a *set* of numbers, from the least number outside of it (`WFMin`). A
loop then takes two steps. First, the recursion has a
solution (`LoopSolution`, `FoldExists`: one more turn extends a solution, so there is
one of every length), without which a recursive function is a CHOOSE of nothing.
Then, what holds of the solution before a turn and is preserved by each turn
holds at the end (`ChainInduction`, `FoldInduction`).

`FlatIndexProofs`, for every set of ids, vectors, payloads and filters:
`FlatTypeCorrect` and `FlatPositionsAgree`, whose conjunction is the invariant
`FInv`; the proof of `Remove` follows the three kinds of positions `swap_remove`
leaves. From it `FlatImplementsMap`: `Spec => ImplementsMap`, and
`FlatSearchIsExact`: `Spec => []SearchIsExact`, by induction over the scan: after
`i` entries the heap has the least of those of them that match.

`HnswIndexProofs`, for every `M` above 1, `ef_construction`, set of levels, and
distance, and for graphs of any size:

* `ArenaIsTyped` (`TypeOK`), `LinksAreSound` (`EdgesStayInLayer`), `EntryIsOnTop`
  (`EntryIsHighest`), `OneLiveNodePerId` (`LiveNodesAgree`).
* `SearchesAreSound`: `Spec => []SearchIsSound`, by `SearchSound` for every `k` and
  `ef`.
* `FiltersNeverStarve`: `Spec => []FiltersWidenTheSearch`.
* `SmallSearchesAreExact`: `Spec => []SmallIndexIsExact`, by `SmallSearchExact` for
  every `k`.
* `TracesTellTheSearch`: `Spec => []TraceTellsTheSearch`.
* `HnswImplementsMap`: `Spec => ImplementsMap`.

The invariant `HInv` is a conjunction about the lists (`LinkedUpTo`: each list is free
of duplicates, within its maximum, and of nodes of that layer other than its own), the
entry point, the map and the live count. That insertion preserves it needs what each
algorithm yields on a graph in which a layer is closed under its lists (`Closed`):
the descent stays in the layer, the beam has candidates of the layer only, without
duplicates (`Beams`), and never loses its last one, neighbor selection yields some
of its candidates, each once and at most `m` (`SelectNeighborsType`), and the new node
is found by none of them, as nothing leads to it yet.

How far the beam gets is a second argument. While the beam is not full it keeps what
it evaluates, so that each node it has seen is still to be expanded or has all its
neighbors seen (`Explored`), and after `i` turns `i` nodes have been expanded or the
frontier is empty. A beam that never fills has therefore seen exactly what the lists
lead to (`BeamSeesAll`), which is `FiltersNeverStarve`; once full it stays full
(`ExpandKeepsFull`). `SmallSearchesAreExact` needs that this is the whole index:
`SmallInv`, no proper part of a graph of at most `2 * M + 1` nodes is closed under the
lists of layer 0. An insertion preserves it since an old list, which leads to fewer
than all the others, has room for the back link (`RoomForBackLink`), and selection
yields at least one neighbor. A beam as wide as the index is full only with all its
nodes (`WideBeam`), and the scan of `search_exact` keeps the least of the same
candidates (`ScanAllKeepsLeast`).

What a trace tells is a third one, about what the loops append. The hops of a walk
lead from the entry point to where the walk is (`Hopped`), which each greedy step
preserves on its layer and each layer hands to the one below (`DescendKeeps`). The
edges of a beam say where it has been (`Told`): there is one for each node visited but
the start, each leaves a node that an earlier edge kept, and they account for the
frontier, which is what makes this inductive, and for the results. `LiveNodesAgree`
then turns positions into ids: an admitted node is the one its id stands for, although
tombstones share it.

### Snapshots, filters and kernels

`SnapshotFormatProofs` has what both indexes need: a reader makes something of a file
only if all of it is there and good (`FlatRead`, `HnswRead`), and the maps that the
readers build have the entries' positions (`EntryPositionsAre`) or those of
`MapNode`'s rule (`NodePositionsAre`), by induction over the loop.

`HnswReloadProofs`, from `ReloadAssumption`: metric, dim and m are within the limits
of `create_collection` (routes.rs:178-206), a level is below `MAX_LAYERS`, and the
arena has positions of 32 bits. The level bound is one the code relies on too
(persist.rs:58-60): `sample_level` takes the logarithm of a number of 53 bits, so that
only a 0 out of 2^53 exceeds it.

* `HnswReloads`: `ReloadSpec => []HnswSurvivesReload`.
* `HnswDamageIsNoticed`: `ReloadSpec => []DamagedHnswIsRefused`. A changed flag is
  found by `LiveCountAgrees`, as one live node more or less is never none.
* `HnswOutlivesProcesses`: under `ReloadSpec`, with reloads at any moment, all of the
  invariants proved for `Spec` still hold.
* `ReloadsImplementMap`: `ReloadSpec => ImplementsMap`.

The invariant is `HnswReloadProofs!RInv`: `HInv` and `SmallInv`, which are not
sensitive to which tombstone an id is mapped to, and `IdsInv`, that every node's id is
in the map. Without `IdsInv` a reload, whose map is built from the nodes, might know
ids that the index did not. TLC checked `IdsInv` on the instance of `hnsw` first.

`FlatIndexProofs`, beyond the index itself:

* `FlatReloads`: `Spec => []FlatSurvivesReload`, and `FlatDamageIsNoticed`:
  `Spec => []DamagedFlatIsRefused`, from `FInv` and `FlatReloadAssumption`, which
  again is what `create_collection` accepts. A reload changes nothing, so that it
  needs no specification of its own.
* `KernelsAddUp`: for any two sequences of integers of the same length both kernels
  yield the sum of all terms. The lanes' sums, chunk by chunk, are the reference's sum
  up to there (`LaneSums`). `FlatKernelsAgree` is the same of an index's entries.
* `FiltersAreSets`: `Spec => []FiltersFindSets`, for any filters and payloads. That a
  search for more than `len()` finds every match is `FoundAll`, from `SearchExact`.
* `BareVectorsAreFoundByVacuousFilters`: `Spec => []BareVectorsNeedVacuousFilters`,
  by induction over the depth of filters (`VacuousFilters`).

`FilterAssumption` holds of the code because `Filter::matches` is a recursion over a
finite tree (payload.rs:55-83): it is that recursion, one level at a time, for an
index's payloads; `Nesting` is a filter's depth. TLC evaluates it for `FilterMatches`
on every filter of the `flat` run, as it evaluates the other assumptions.

*Only model-checked:* liveness (`server_live`, `RequestsEnd`), which is out of the
prover's reach; and that the dirty flag outlives a failed save (`DirtyCoversUnsaved`
in `server_crash`), since `FlagCoversWrites` assumes `SavesSucceed`. Every
invariant, action property and refinement of a passing run is stated by a theorem,
some of those on `VexServer` under the assumptions named above.

## 5. What is not modelled

* The vector and id types and the errors: newtypes, a length check, a total function
  from errors to status codes.
* `AnyIndex` beyond the choice of reader and writer: a dispatch.
* Floating point: rounding, square roots, the division of the cosine, NaN; the
  instructions of the AVX2 kernels beyond what they add up; the parsing of JSON
  (a float may come back from a snapshot one unit in the last place off).
* The CLI and the wasm bindings: single-threaded wrappers around one index.
* Demo pages, scripts and benchmarks.
* `ef_construction`, `ef_search`, the seed and the state of the generator in a
  snapshot (persist.rs:437-440): the first two are parameters of the model that no
  reload changes, and levels are a choice. That construction
  goes on after a load as it would have without (README.md:190) is not shown.
* A level of `MAX_LAYERS` or more with `m` above 1, which needs a draw of exactly 0
  out of 2^53 (persist.rs:58-60): neither `HnswReload` nor `PointsApi` has it.
* Loss of power, and files that another program wrote: neighbor indices and entry
  points are not compared with layers by the reader (persist.rs:517), which no file
  of the program's own making needs.

## 6. Plan

What is left: `VexServer`'s mutations refined to batches, so that `PointsApi` and
`VexServer` become one composition.
