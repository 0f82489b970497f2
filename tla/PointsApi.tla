----------------------------- MODULE PointsApi -----------------------------
(***************************************************************************)
(* The points of one collection behind their RwLock: the handlers that     *)
(* change and read them (crates/vex-server/src/routes.rs), the saves       *)
(* (state.rs), and the panics of HnswIndex::add_with_payload (vex-core).   *)
(* A batch is applied point by point here, which VexServer does in one     *)
(* step; a save is one step here, which VexServer does block by block.     *)
(*                                                                         *)
(* An index is a map from ids to points, as VectorMap has it, with the     *)
(* length of the node arena of HnswIndex and its top layer.                *)
(***************************************************************************)
EXTENDS Naturals, Sequences, FiniteSets, Functions

CONSTANTS
  Workers,         \* threads that serve requests, and the flush task
  Ids,             \* point ids
  Points,          \* what is stored with an id: [vector, payload]
  Batches,         \* bodies of upserts: sequences of BatchPoint
  CreateRequests,  \* bodies of creates: [index, dim, m]
  MaxPos,          \* u32::MAX, the last position of an arena
  OverflowChecks,  \* does the build check arithmetic for overflow?
  MaxUpserts       \* bound on the upserts a process serves

NoOne == "no one"
NoPayload == << >>

BatchPoint == [id : Ids, point : Points, fits : BOOLEAN]

ASSUME PointsAssumption ==
  /\ NoOne \notin Workers
  /\ MaxPos \in Nat /\ MaxUpserts \in Nat /\ OverflowChecks \in BOOLEAN
  /\ Batches \subseteq Seq(BatchPoint)

VARIABLES
  config,     \* what the collection was created with
  up,         \* is there a process?
  points,     \* the live vectors: id |-> [vector, payload]
  arena,      \* HnswIndex: nodes.len()
  max_layer,  \* HnswIndex: max_layer
  writer,     \* Collection.index: who has the write lock,
  readers,    \* ... the read locks,
  poisoned,   \* ... and did a holder of the write lock panic?
  disk,       \* the index in the snapshot file
  pc,         \* where each worker is
  job,        \* the batch or the id of its request
  at,         \* the point of the batch that is next
  found,      \* the hits of its search
  upserts,    \* upserts served so far
  committed   \* the points when the write lock was last released

index == <<points, arena, max_layer>>
lock == <<writer, readers, poisoned>>
request == <<job, at, found>>
vars == <<config, up, index, lock, disk, pc, request, upserts, committed>>

NoPoints == [id \in {} |-> {}]

-----------------------------------------------------------------------------
(* Creation, and what a snapshot of the collection is to a reader. *)

MAX_DIM == 65536
MAX_BATCH == 10000

(* usize::MAX, and the width of the arena's positions *)
UsizeMax == 2147483647

(* Mutant: a dimension of zero passes. *)
AcceptsAnyDim(req) ==
  /\ req.dim <= MAX_DIM
  /\ req.index = "flat" \/ (req.index = "hnsw" /\ req.m \in 1 .. 256)

(* What create_collection does not answer with BadRequest. *)
Accepts(req) ==
  /\ req.dim \in 1 .. MAX_DIM
  /\ req.index = "flat" \/ (req.index = "hnsw" /\ req.m \in 1 .. 256)

Snapshot == [points |-> points, arena |-> arena, max_layer |-> max_layer]

Format == INSTANCE SnapshotFormat WITH Unserialisable <- {}

(* The header and the counters of the snapshot pass the reader. *)
Loadable(s) ==
  LET type == IF config.index = "flat" THEN Format!TYPE_FLAT ELSE Format!TYPE_HNSW
      counters == [m |-> config.m, entry |-> IF s.arena = 0 THEN Format!NO_ENTRY ELSE 0,
                   max_layer |-> s.max_layer, node_count |-> s.arena]
  IN /\ Format!HeaderOk(Format!WriteHeader(type, "l2", config.dim))
     /\ config.index = "hnsw" => Format!CountersOk(counters) /\ s.arena <= MaxPos

Init ==
  /\ config \in {req \in CreateRequests : Accepts(req)}
  /\ up = TRUE
  /\ points = NoPoints /\ arena = 0 /\ max_layer = 0
  /\ writer = NoOne /\ readers = {} /\ poisoned = FALSE
  /\ disk = Snapshot
  /\ pc = [w \in Workers |-> "idle"]
  /\ job = [w \in Workers |-> << >>]
  /\ at = [w \in Workers |-> 0]
  /\ found = [w \in Workers |-> {}]
  /\ upserts = 0
  /\ committed = NoPoints

-----------------------------------------------------------------------------
(* The process w begins a request, or goes on with it. *)
Begin(w, first, what) ==
  /\ up /\ pc[w] = "idle"
  /\ pc' = [pc EXCEPT ![w] = first]
  /\ job' = [job EXCEPT ![w] = what]
  /\ UNCHANGED <<config, up, index, lock, disk, at, found, committed>>

Goto(w, next) == pc' = [pc EXCEPT ![w] = next]

(* What the handler had is gone. *)
Finish(w) ==
  /\ Goto(w, "idle")
  /\ job' = [job EXCEPT ![w] = << >>]
  /\ at' = [at EXCEPT ![w] = 0]
  /\ found' = [found EXCEPT ![w] = {}]

(* Mutant: a poisoned lock is taken all the same (into_inner). *)
SoundOrNot == TRUE

(* lock_read and lock_write give an error, 500, once the lock is poisoned. *)
Sound == ~ poisoned

MayRead == writer = NoOne
MayWrite == writer = NoOne /\ readers = {}

(* A request that found the lock poisoned, or was refused. *)
Refuse(w) ==
  /\ Finish(w)
  /\ UNCHANGED <<config, up, index, lock, disk, upserts, committed>>

-----------------------------------------------------------------------------
(* upsert_points *)

StartUpsert(w) ==
  \E batch \in Batches :
    /\ Len(batch) \in 1 .. MAX_BATCH
    /\ upserts < MaxUpserts
    /\ upserts' = upserts + 1
    /\ Begin(w, "u_lock", batch)

(* Mutant: points are checked one by one, when it is their turn. *)
FitsLater(batch) == TRUE

(* The whole batch is checked before the first point is touched. *)
Fits(batch) == \A i \in 1 .. Len(batch) : batch[i].fits

LockUpsert(w) ==
  /\ pc[w] = "u_lock" /\ MayWrite /\ Sound /\ Fits(job[w])
  /\ writer' = w
  /\ at' = [at EXCEPT ![w] = 1]
  /\ Goto(w, "u_apply")
  /\ UNCHANGED <<config, up, index, readers, poisoned, disk, job, found, upserts, committed>>

RefuseUpsert(w) ==
  /\ pc[w] = "u_lock" /\ MayWrite /\ (~ Sound \/ ~ Fits(job[w]))
  /\ Refuse(w)

(* Mutant: positions are not checked to fit in 32 bits. *)
AddOutcomeUnchecked(p) == IF p.fits THEN "added" ELSE "refused"

(***************************************************************************)
(* Vector::new refuses a point that does not fit; then add_with_payload.   *)
(* HnswIndex: with m = 1, sample_level divides by ln(1) and yields         *)
(* usize::MAX; level + 1 is an overflow that panics before the node is in  *)
(* the arena or, unchecked, gives it no layers, so that the next insertion *)
(* panics when it looks for its neighbors.  With any m the position of a   *)
(* node has to fit in 32 bits.                                             *)
(***************************************************************************)
AddOutcome(p) ==
  IF ~ p.fits THEN "refused"
  ELSE IF config.index = "flat" THEN "added"
  ELSE IF (config.m = 1 /\ OverflowChecks) \/ arena > MaxPos THEN "panics early"
  ELSE IF config.m = 1 /\ arena > 0 THEN "panics late"
  ELSE "added"

Removed(id) == Restrict(points, DOMAIN points \ {id})
Added(p) == [id \in DOMAIN points \cup {p.id} |-> IF id = p.id THEN p.point ELSE points[id]]

(* The node is in the arena, which flat indexes do not have. *)
Pushed ==
  /\ arena' = IF config.index = "hnsw" THEN arena + 1 ELSE 0
  /\ max_layer' = IF config.index = "hnsw" /\ config.m = 1 THEN UsizeMax ELSE max_layer

(* The point is removed, if it is there, and added. *)
ApplyPoint(w) ==
  LET p == job[w][at[w]] IN
  /\ pc[w] = "u_apply" /\ at[w] <= Len(job[w])
  /\ AddOutcome(p) = "added"
  /\ points' = Added(p) /\ Pushed
  /\ at' = [at EXCEPT ![w] = @ + 1]
  /\ UNCHANGED <<config, up, lock, disk, pc, job, found, upserts, committed>>

(***************************************************************************)
(* The insertion fails.  An error drops the guard of the write lock; a     *)
(* panic does too, and poisons the lock.                                   *)
(***************************************************************************)
StopUpsert(w) ==
  LET p == job[w][at[w]]
      outcome == AddOutcome(p)
  IN /\ pc[w] = "u_apply" /\ at[w] <= Len(job[w])
     /\ outcome # "added"
     /\ IF outcome = "panics late" THEN points' = Added(p) /\ Pushed
        ELSE points' = Removed(p.id) /\ UNCHANGED <<arena, max_layer>>
     /\ writer' = NoOne
     /\ poisoned' = (outcome # "refused")
     /\ committed' = IF outcome = "refused" THEN points' ELSE committed
     /\ Finish(w)
     /\ UNCHANGED <<config, up, readers, disk, upserts>>

(* Mutant: the points are saved before the write lock is released. *)
EndUpsertSaving(w) ==
  /\ pc[w] = "u_apply" /\ at[w] > Len(job[w])
  /\ committed' = points
  /\ Goto(w, "f_lock")
  /\ UNCHANGED <<config, up, index, lock, disk, request, upserts>>

EndUpsert(w) ==
  /\ pc[w] = "u_apply" /\ at[w] > Len(job[w])
  /\ writer' = NoOne
  /\ committed' = points
  /\ Finish(w)
  /\ UNCHANGED <<config, up, index, readers, poisoned, disk, upserts>>

-----------------------------------------------------------------------------
(* delete_point *)

StartDelete(w) == \E id \in Ids : Begin(w, "d_lock", <<id>>) /\ UNCHANGED upserts

DeletePoint(w) ==
  LET id == job[w][1] IN
  /\ pc[w] = "d_lock" /\ MayWrite /\ Sound
  /\ points' = Removed(id)
  /\ committed' = points'
  /\ Finish(w)
  /\ UNCHANGED <<config, up, arena, max_layer, lock, disk, upserts>>

RefuseDelete(w) == pc[w] = "d_lock" /\ MayWrite /\ ~ Sound /\ Refuse(w)

-----------------------------------------------------------------------------
(* search, and stats *)

StartSearch(w) == Begin(w, "s_lock", << >>) /\ UNCHANGED upserts

(* Layers up to usize::MAX are looked for in nodes that have none. *)
SearchPanics == max_layer = UsizeMax /\ points # NoPoints

(* Mutant: the guard is dropped with the search. *)
HeldBySearch(w) == readers

(* The guard lives on until the payloads have been looked up. *)
HeldFor(w) == readers \cup {w}

(* search_opts, asked for all there is *)
RunSearch(w) ==
  /\ pc[w] = "s_lock" /\ MayRead /\ Sound /\ ~ SearchPanics
  /\ found' = [found EXCEPT ![w] = {[id |-> id, vector |-> points[id].vector] : id \in DOMAIN points}]
  /\ readers' = HeldFor(w)
  /\ Goto(w, "s_answer")
  /\ UNCHANGED <<config, up, index, writer, poisoned, disk, job, at, upserts,
                 committed>>

(* A panic under a read lock does not poison it. *)
RefuseSearch(w) ==
  /\ pc[w] = "s_lock" /\ MayRead /\ (~ Sound \/ SearchPanics)
  /\ Refuse(w)

PayloadOf(map, id) == IF id \in DOMAIN map THEN map[id].payload ELSE NoPayload

(* The hits with the payloads the index has for them now. *)
Answer(w) ==
  {[id |-> hit.id, vector |-> hit.vector, payload |-> PayloadOf(points, hit.id)] : hit \in found[w]}

AnswerSearch(w) ==
  /\ pc[w] = "s_answer"
  /\ readers' = readers \ {w}
  /\ Finish(w)
  /\ UNCHANGED <<config, up, index, writer, poisoned, disk, upserts, committed>>

(* stats: len(), with the read lock for that one look at the index *)
Count == Cardinality(DOMAIN points)

-----------------------------------------------------------------------------
(* Collection::flush, forced by a request or due *)

StartSave(w) == Begin(w, "f_lock", << >>) /\ UNCHANGED upserts

LockSave(w) ==
  /\ pc[w] = "f_lock" /\ MayRead /\ Sound
  /\ readers' = readers \cup {w}
  /\ Goto(w, "f_save")
  /\ UNCHANGED <<config, up, index, writer, poisoned, disk, request, upserts, committed>>

RefuseSave(w) == pc[w] = "f_lock" /\ MayRead /\ ~ Sound /\ Refuse(w)

Save(w) ==
  /\ pc[w] = "f_save"
  /\ disk' = Snapshot
  /\ Goto(w, "f_done")
  /\ UNCHANGED <<config, up, index, lock, request, upserts, committed>>

EndSave(w) ==
  /\ pc[w] = "f_done"
  /\ readers' = readers \ {w}
  /\ Finish(w)
  /\ UNCHANGED <<config, up, index, writer, poisoned, disk, upserts, committed>>

-----------------------------------------------------------------------------
(* The process is killed; the next one starts if it can load the snapshot. *)
Crash ==
  /\ up
  /\ up' = FALSE
  /\ pc' = [w \in Workers |-> "idle"]
  /\ writer' = NoOne /\ readers' = {} /\ poisoned' = FALSE
  /\ job' = [w \in Workers |-> << >>]
  /\ at' = [w \in Workers |-> 0]
  /\ found' = [w \in Workers |-> {}]
  /\ UNCHANGED <<config, index, disk, upserts, committed>>

Load ==
  /\ ~ up /\ Loadable(disk)
  /\ up' = TRUE
  /\ points' = disk.points /\ arena' = disk.arena /\ max_layer' = disk.max_layer
  /\ committed' = disk.points
  /\ UNCHANGED <<config, lock, disk, pc, request, upserts>>

(* A client asks, or the flush task finds the collection dirty. *)
Start(w) == StartUpsert(w) \/ StartDelete(w) \/ StartSearch(w) \/ StartSave(w)

Continue(w) ==
  \/ LockUpsert(w) \/ RefuseUpsert(w) \/ ApplyPoint(w) \/ StopUpsert(w) \/ EndUpsert(w)
  \/ DeletePoint(w) \/ RefuseDelete(w)
  \/ RunSearch(w) \/ RefuseSearch(w) \/ AnswerSearch(w)
  \/ LockSave(w) \/ RefuseSave(w) \/ Save(w) \/ EndSave(w)

Next == (\E w \in Workers : Start(w) \/ Continue(w)) \/ Crash \/ Load

Spec == Init /\ [][Next]_vars

(* Threads that can go on do.  Nobody has to ask, to crash or to restart. *)
FairSpec == Spec /\ \A w \in Workers : WF_vars(Continue(w))

-----------------------------------------------------------------------------
(* What must hold. *)

(***************************************************************************)
(* Who holds which lock is where it takes one, a writer alone; positions   *)
(* of the arena fit in 32 bits, and no live vector is without a node.      *)
(***************************************************************************)
TypeOK ==
  /\ config \in CreateRequests /\ up \in BOOLEAN /\ poisoned \in BOOLEAN
  /\ DOMAIN points \subseteq Ids /\ \A id \in DOMAIN points : points[id] \in Points
  /\ arena \in 0 .. MaxPos + 1 /\ max_layer \in {0, UsizeMax}
  /\ config.index = "hnsw" => Cardinality(DOMAIN points) <= arena
  /\ readers = {w \in Workers : pc[w] \in {"s_answer", "f_save", "f_done"}}
  /\ \A w \in Workers : pc[w] = "u_apply" <=> writer = w
  /\ writer # NoOne => readers = {} /\ ~ poisoned

Store == INSTANCE PointStore WITH
  StoreIds <- Ids, StoreBatches <- Batches, stored <- committed, saved <- disk.points

(***************************************************************************)
(* routes.rs:272-273, "so a bad point mid-batch can't leave a half-applied *)
(* request": a batch is applied as a whole, with the last of its points    *)
(* for each id, or not at all, and a snapshot never has a part of one,     *)
(* whatever panics in the middle.                                          *)
(***************************************************************************)
ImplementsPointStore == Store!StoreSpec

HitsOf(map) ==
  {[id |-> id, vector |-> map[id].vector, payload |-> map[id].payload] : id \in DOMAIN map}

(***************************************************************************)
(* An answer is about the points of one moment between requests: each hit  *)
(* has the payload of the vector that was found, no hit is of half a       *)
(* batch, and the count is that of live points.                            *)
(***************************************************************************)
AnswersAreCommitted ==
  /\ \A w \in Workers : pc[w] = "s_answer" => Answer(w) = HitsOf(committed)
  /\ up /\ MayRead /\ Sound => Count = Cardinality(DOMAIN committed)

(***************************************************************************)
(* What create_collection accepts and inserts build up can be read back,   *)
(* but for m = 1 and an arena that is full to the last position.           *)
(***************************************************************************)
SnapshotsLoad ==
  ~ Loadable(disk) => config.index = "hnsw" /\ (config.m = 1 \/ disk.arena = MaxPos + 1)

(***************************************************************************)
(* Once clients fall silent, every request that is under way comes to an   *)
(* end, also behind a panic and when the lock is poisoned: nobody waits    *)
(* for a lock that is not released.                                        *)
(***************************************************************************)
RequestsEnd ==
  <>[][\A w \in Workers : ~ Start(w)]_vars =>
    \A w \in Workers : pc[w] # "idle" ~> pc[w] = "idle"

=============================================================================
