-------------------------- MODULE PointsApiProofs --------------------------
(***************************************************************************)
(* What PointsApi guarantees for any threads, ids, batches and builds.     *)
(***************************************************************************)
EXTENDS PointsApi, FiniteSetTheorems, TLAPS

-----------------------------------------------------------------------------
(* Batches point by point. *)

(* No point of a batch applied: nothing has changed. *)
LEMMA AppliedNone ==
  ASSUME NEW map, map = [id \in DOMAIN map |-> map[id]], NEW batch
  PROVE  Store!Applied(map, batch, 0) = map
<1>1. Store!IdsOf(batch, 0) = {}
  BY DEF Store!IdsOf
<1>2. QED
  BY <1>1 DEF Store!Applied

Put(map, p) == [id \in DOMAIN map \cup {p.id} |-> IF id = p.id THEN p.point ELSE map[id]]

(* One more point of a batch: its id has that point, others stay. *)
LEMMA AppliedNext ==
  ASSUME NEW map, NEW batch \in Seq(BatchPoint),
         NEW n \in Nat, n < Len(batch)
  PROVE  Store!Applied(map, batch, n + 1) = Put(Store!Applied(map, batch, n), batch[n + 1])
<1> DEFINE new == batch[n + 1].id
<1>1. Store!IdsOf(batch, n + 1) = Store!IdsOf(batch, n) \cup {new}
  <2>1. 1 .. n + 1 = (1 .. n) \cup {n + 1}
    OBVIOUS
  <2>2. QED
    BY <2>1 DEF Store!IdsOf
<1>2. Store!LastFor(batch, n + 1, new) = {n + 1}
  BY DEF Store!LastFor
<1>3. ASSUME NEW id, id # new
      PROVE  Store!LastFor(batch, n + 1, id) = Store!LastFor(batch, n, id)
  <2>1. \A i \in 1 .. n : (i + 1) .. (n + 1) = ((i + 1) .. n) \cup {n + 1}
    OBVIOUS
  <2>2. 1 .. n + 1 = (1 .. n) \cup {n + 1}
    OBVIOUS
  <2>3. QED
    BY <1>3, <2>1, <2>2 DEF Store!LastFor
<1>4. Store!LastPoint(batch, n + 1, new) = batch[n + 1].point
  BY <1>2 DEF Store!LastPoint
<1>5. DOMAIN Store!Applied(map, batch, n) = DOMAIN map \cup Store!IdsOf(batch, n)
  BY DEF Store!Applied
<1>6. DOMAIN Store!Applied(map, batch, n + 1) = DOMAIN Store!Applied(map, batch, n) \cup {new}
  BY <1>1, <1>5 DEF Store!Applied
<1>7. ASSUME NEW id \in DOMAIN Store!Applied(map, batch, n + 1)
      PROVE  Store!Applied(map, batch, n + 1)[id] =
               IF id = new THEN batch[n + 1].point ELSE Store!Applied(map, batch, n)[id]
  <2>1. CASE id = new
    BY <1>1, <1>4, <2>1 DEF Store!Applied
  <2>2. CASE id # new
    <3>1. Store!LastFor(batch, n + 1, id) = Store!LastFor(batch, n, id)
      BY <1>3, <2>2
    <3>2. Store!LastPoint(batch, n + 1, id) = Store!LastPoint(batch, n, id)
      BY <3>1, Zenon DEF Store!LastPoint
    <3>3. QED
      BY <1>1, <1>5, <1>6, <2>2, <3>2 DEF Store!Applied
  <2>3. QED
    BY <2>1, <2>2
<1>8. Store!Applied(map, batch, n + 1) =
        [id \in DOMAIN Store!Applied(map, batch, n + 1) |-> Store!Applied(map, batch, n + 1)[id]]
  BY DEF Store!Applied
<1>9. QED
  BY <1>6, <1>7, <1>8 DEF Put

-----------------------------------------------------------------------------
(* The invariant. *)

Pcs == {"idle", "u_lock", "u_apply", "d_lock", "s_lock", "s_answer", "f_lock", "f_save", "f_done"}
Reading == {"s_answer", "f_save", "f_done"}

IsMap(map) ==
  /\ map = [id \in DOMAIN map |-> map[id]]
  /\ DOMAIN map \subseteq Ids /\ IsFiniteSet(DOMAIN map)
  /\ \A id \in DOMAIN map : map[id] \in Points

(* The parts of an index, in memory or in the snapshot, fit each other. *)
IsIndex(map, length, top) ==
  /\ IsMap(map)
  /\ length \in 0 .. MaxPos + 1 /\ top \in {0, UsizeMax}
  /\ config.index = "hnsw" => Cardinality(DOMAIN map) <= length
  /\ top # 0 => config.index = "hnsw" /\ config.m = 1

IndexInv ==
  /\ config \in CreateRequests /\ Accepts(config) /\ up \in BOOLEAN
  /\ IsIndex(points, arena, max_layer)
  /\ IsIndex(disk.points, disk.arena, disk.max_layer)

(* What a worker has with it where it is. *)
RequestInv ==
  /\ pc \in [Workers -> Pcs]
  /\ job = [w \in Workers |-> job[w]] /\ at \in [Workers -> Nat]
  /\ found = [w \in Workers |-> found[w]]
  /\ \A w \in Workers :
       /\ pc[w] \in {"u_lock", "u_apply"} => job[w] \in Batches
       /\ pc[w] = "u_apply" => Fits(job[w]) /\ at[w] \in 1 .. Len(job[w]) + 1
       /\ pc[w] = "d_lock" => job[w][1] \in Ids

LockInv ==
  /\ poisoned \in BOOLEAN /\ writer \in Workers \cup {NoOne}
  /\ readers = {w \in Workers : pc[w] \in Reading}
  /\ \A w \in Workers : pc[w] = "u_apply" <=> writer = w
  /\ writer # NoOne => readers = {} /\ ~ poisoned
  /\ readers # {} => ~ poisoned
  /\ ~ up => \A w \in Workers : pc[w] = "idle"

FoundIn(map) == {[id |-> id, vector |-> map[id].vector] : id \in DOMAIN map}

(* How far the index is from the points clients see. *)
SyncInv ==
  /\ IsMap(committed)
  /\ up /\ writer = NoOne /\ ~ poisoned => points = committed
  /\ \A w \in Workers :
       /\ pc[w] = "u_apply" => points = Store!Applied(committed, job[w], at[w] - 1)
       /\ pc[w] = "s_answer" => found[w] = FoundIn(committed)

PInv == IndexInv /\ RequestInv /\ LockInv /\ SyncInv

(* Points of clients and index stay, and who works on them goes on as before. *)
LEMMA SyncKept ==
  ASSUME SyncInv, committed' = committed, points' = points,
         up' /\ writer' = NoOne /\ ~ poisoned' => points = committed,
         \A w \in Workers :
           pc'[w] \in {"u_apply", "s_answer"} =>
             pc'[w] = pc[w] /\ job'[w] = job[w] /\ at'[w] = at[w] /\ found'[w] = found[w]
  PROVE  SyncInv'
<1>1. IsMap(committed)' /\ (up /\ writer = NoOne /\ ~ poisoned => points = committed)'
  BY DEF SyncInv, IsMap
<1>2. ASSUME NEW w \in Workers, pc'[w] = "u_apply"
      PROVE  (points = Store!Applied(committed, job[w], at[w] - 1))'
  <2>1. points = Store!Applied(committed, job[w], at[w] - 1)
    BY <1>2 DEF SyncInv
  <2> QED
    BY <1>2, <2>1
<1>3. ASSUME NEW w \in Workers, pc'[w] = "s_answer"
      PROVE  (found[w] = FoundIn(committed))'
  BY <1>3 DEF SyncInv, FoundIn
<1> QED
  BY <1>1, <1>2, <1>3 DEF SyncInv

(* Starting a request touches no index and no lock. *)
LEMMA BeginInv ==
  ASSUME PInv, NEW w \in Workers, NEW first \in {"u_lock", "d_lock", "s_lock", "f_lock"}, NEW what,
         Begin(w, first, what),
         first = "u_lock" => what \in Batches,
         first = "d_lock" => what[1] \in Ids
  PROVE  PInv'
<1> USE DEF PInv, Begin, index, lock
<1>1. IndexInv'
  BY DEF IndexInv, IsIndex, IsMap, Accepts
<1>2. RequestInv'
  BY DEF RequestInv, Pcs, Fits
<1>3. LockInv'
  BY DEF RequestInv, LockInv, Reading, Pcs
<1>4. SyncInv'
  BY SyncKept DEF RequestInv, SyncInv
<1> QED
  BY <1>1, <1>2, <1>3, <1>4

(* Index and snapshot stay. *)
LEMMA IndexKept ==
  ASSUME IndexInv, UNCHANGED <<config, index, disk>>, up' \in BOOLEAN
  PROVE  IndexInv'
  BY DEF IndexInv, IsIndex, IsMap, Accepts, index

(* A request that ends where it is leaves all as it was. *)
LEMMA RefuseInv ==
  ASSUME PInv, NEW w \in Workers, pc[w] \in {"u_lock", "d_lock", "s_lock", "f_lock"}, Refuse(w)
  PROVE  PInv'
<1> USE DEF PInv, Refuse, Finish, Goto, lock
<1>1. IndexInv'
  BY IndexKept DEF IndexInv
<1>2. RequestInv'
  BY DEF RequestInv, Pcs, Fits
<1>3. LockInv'
  BY DEF RequestInv, LockInv, Reading, Pcs
<1>4. SyncInv'
  BY SyncKept DEF RequestInv, SyncInv, index
<1> QED
  BY <1>1, <1>2, <1>3, <1>4

(* Nothing of the batch is applied yet. *)
LEMMA LockUpsertInv ==
  ASSUME PInv, NEW w \in Workers, LockUpsert(w)
  PROVE  PInv'
<1> USE DEF PInv, LockUpsert, Goto, MayWrite, Sound
<1>1. IndexInv'
  BY IndexKept DEF IndexInv
<1>2. RequestInv'
  <2>1. job[w] \in Seq(BatchPoint)
    BY PointsAssumption DEF RequestInv
  <2> QED
    BY <2>1 DEF RequestInv, Pcs, Fits
<1>3. LockInv'
  BY PointsAssumption DEF RequestInv, LockInv, Reading, Pcs
<1>4. SyncInv'
  <2>1. points = committed /\ up
    BY PointsAssumption DEF SyncInv, LockInv
  <2>2. ASSUME NEW x \in Workers, pc'[x] = "u_apply"
        PROVE  x = w
    BY <2>2, PointsAssumption DEF RequestInv, LockInv
  <2>3. at'[w] - 1 = 0 /\ job' = job
    BY DEF RequestInv
  <2>4. points' = Store!Applied(committed', job'[w], at'[w] - 1)
    BY <2>1, <2>3, AppliedNone DEF SyncInv, IsMap, index
  <2>5. ASSUME NEW x \in Workers, pc'[x] = "s_answer"
        PROVE  FALSE
    BY <2>5 DEF RequestInv, LockInv, Reading
  <2> QED
    BY <2>1, <2>2, <2>4, <2>5 DEF SyncInv, IsMap, index
<1> QED
  BY <1>1, <1>2, <1>3, <1>4

(* The lock is released with the whole batch applied. *)
LEMMA EndUpsertInv ==
  ASSUME PInv, NEW w \in Workers, EndUpsert(w)
  PROVE  PInv'
<1> USE DEF PInv, EndUpsert, Finish, Goto
<1>1. IndexInv'
  BY IndexKept DEF IndexInv
<1>2. RequestInv'
  BY DEF RequestInv, Pcs, Fits
<1>3. LockInv'
  BY PointsAssumption DEF RequestInv, LockInv, Reading, Pcs
<1>4. SyncInv'
  <2>1. IsMap(points)
    BY DEF IndexInv, IsIndex
  <2>2. \A x \in Workers : pc'[x] \notin {"u_apply", "s_answer"}
    BY PointsAssumption DEF RequestInv, LockInv, Reading
  <2> QED
    BY <2>1, <2>2 DEF SyncInv, IsMap, index
<1> QED
  BY <1>1, <1>2, <1>3, <1>4

(* The two kinds of readers come and go. *)
LEMMA RunSearchInv ==
  ASSUME PInv, NEW w \in Workers, RunSearch(w)
  PROVE  PInv'
<1> USE DEF PInv, RunSearch, Goto, HeldFor, MayRead, Sound
<1>1. IndexInv'
  BY IndexKept DEF IndexInv
<1>2. RequestInv'
  BY DEF RequestInv, Pcs, Fits
<1>3. LockInv'
  BY DEF RequestInv, LockInv, Reading, Pcs
<1>4. SyncInv'
  <2>1. points = committed /\ up
    BY DEF SyncInv, LockInv
  <2>2. found'[w] = FoundIn(committed)
    BY <2>1 DEF FoundIn, RequestInv
  <2>3. ASSUME NEW x \in Workers, pc'[x] = "u_apply"
        PROVE  FALSE
    BY <2>3, PointsAssumption DEF RequestInv, LockInv
  <2>4. ASSUME NEW x \in Workers, pc'[x] = "s_answer"
        PROVE  found'[x] = FoundIn(committed)
    BY <2>2, <2>4 DEF RequestInv, SyncInv
  <2> QED
    BY <2>1, <2>3, <2>4 DEF SyncInv, IsMap, FoundIn, index
<1> QED
  BY <1>1, <1>2, <1>3, <1>4

LEMMA LockSaveInv ==
  ASSUME PInv, NEW w \in Workers, LockSave(w)
  PROVE  PInv'
<1> USE DEF PInv, LockSave, Goto, MayRead, Sound, request
<1>1. IndexInv'
  BY IndexKept DEF IndexInv
<1>2. RequestInv'
  BY DEF RequestInv, Pcs, Fits
<1>3. LockInv'
  BY DEF RequestInv, LockInv, Reading, Pcs
<1>4. SyncInv'
  BY SyncKept DEF RequestInv, SyncInv, index
<1> QED
  BY <1>1, <1>2, <1>3, <1>4

LEMMA ReaderEndsInv ==
  ASSUME PInv, NEW w \in Workers, AnswerSearch(w) \/ EndSave(w)
  PROVE  PInv'
<1> USE DEF PInv, AnswerSearch, EndSave, Finish, Goto
<1>1. IndexInv'
  BY IndexKept DEF IndexInv
<1>2. RequestInv'
  <2>1. /\ pc' = [pc EXCEPT ![w] = "idle"] /\ job' = [job EXCEPT ![w] = << >>]
        /\ at' = [at EXCEPT ![w] = 0] /\ found' = [found EXCEPT ![w] = {}]
    OBVIOUS
  <2>2. pc' \in [Workers -> Pcs] /\ at' \in [Workers -> Nat]
    BY <2>1 DEF RequestInv, Pcs
  <2>3. job' = [x \in Workers |-> job'[x]] /\ found' = [x \in Workers |-> found'[x]]
    BY <2>1 DEF RequestInv
  <2>4. pc'[w] = "idle"
    BY <2>1 DEF RequestInv
  <2>5. \A x \in Workers \ {w} : pc'[x] = pc[x] /\ job'[x] = job[x] /\ at'[x] = at[x]
    BY <2>1 DEF RequestInv
  <2>6. UNCHANGED config
    OBVIOUS
  <2> QED
    BY <2>2, <2>3, <2>4, <2>5, <2>6 DEF RequestInv, Fits
<1>3. LockInv'
  BY DEF RequestInv, LockInv, Reading, Pcs
<1>4. SyncInv'
  BY SyncKept DEF RequestInv, SyncInv, index
<1> QED
  BY <1>1, <1>2, <1>3, <1>4

(* What is saved is an index in memory. *)
LEMMA SaveInv ==
  ASSUME PInv, NEW w \in Workers, Save(w)
  PROVE  PInv'
<1> USE DEF PInv, Save, Goto, lock, request
<1>1. IndexInv'
  BY DEF IndexInv, IsIndex, IsMap, Accepts, Snapshot, index
<1>2. RequestInv'
  BY DEF RequestInv, Pcs, Fits
<1>3. LockInv'
  BY DEF RequestInv, LockInv, Reading, Pcs
<1>4. SyncInv'
  BY SyncKept DEF RequestInv, SyncInv, index
<1> QED
  BY <1>1, <1>2, <1>3, <1>4

-----------------------------------------------------------------------------
(* The steps that change the points. *)

(* A map without an id: one of its points less, or the same map. *)
LEMMA RemovedIsMap ==
  ASSUME IsMap(points), NEW id
  PROVE  /\ IsMap(Removed(id))
         /\ Cardinality(DOMAIN Removed(id)) \in Nat
         /\ Cardinality(DOMAIN Removed(id)) <= Cardinality(DOMAIN points)
<1>1. Removed(id) = [x \in DOMAIN points \ {id} |-> points[x]]
  BY DEF Removed, Restrict
<1>2. /\ IsFiniteSet(DOMAIN points \ {id})
      /\ Cardinality(DOMAIN points \ {id}) <= Cardinality(DOMAIN points)
  BY FS_Subset DEF IsMap
<1>3. Cardinality(DOMAIN points \ {id}) \in Nat
  BY <1>2, FS_CardinalityType
<1> QED
  BY <1>1, <1>2, <1>3 DEF IsMap

(* A map with a point put: at most one point more. *)
LEMMA AddedIsMap ==
  ASSUME IsMap(points), NEW p \in BatchPoint
  PROVE  /\ IsMap(Added(p))
         /\ Cardinality(DOMAIN points) \in Nat
         /\ Cardinality(DOMAIN Added(p)) \in Nat
         /\ Cardinality(DOMAIN Added(p)) <= Cardinality(DOMAIN points) + 1
<1>1. Added(p) = [x \in DOMAIN points \cup {p.id} |-> IF x = p.id THEN p.point ELSE points[x]]
  BY DEF Added
<1>2. /\ IsFiniteSet(DOMAIN points \cup {p.id})
      /\ Cardinality(DOMAIN points \cup {p.id}) =
           IF p.id \in DOMAIN points THEN Cardinality(DOMAIN points)
           ELSE Cardinality(DOMAIN points) + 1
  BY FS_AddElement DEF IsMap
<1>3. Cardinality(DOMAIN points) \in Nat /\ Cardinality(DOMAIN points \cup {p.id}) \in Nat
  BY <1>2, FS_CardinalityType DEF IsMap
<1>4. p.id \in Ids /\ p.point \in Points
  BY DEF BatchPoint
<1> QED
  BY <1>1, <1>2, <1>3, <1>4 DEF IsMap

(* The point that is next fits, is of its type, and its worker has the lock. *)
LEMMA NextPoint ==
  ASSUME PInv, NEW w \in Workers, pc[w] = "u_apply", at[w] <= Len(job[w])
  PROVE  /\ job[w] \in Seq(BatchPoint)
         /\ at[w] \in 1 .. Len(job[w])
         /\ job[w][at[w]] \in BatchPoint
         /\ job[w][at[w]].fits
         /\ writer = w /\ readers = {} /\ ~ poisoned /\ up
         /\ \A x \in Workers : pc[x] = "u_apply" => x = w
         /\ \A x \in Workers : pc[x] \notin Reading
<1>1. job[w] \in Batches /\ Fits(job[w]) /\ at[w] \in 1 .. Len(job[w]) + 1
  BY DEF PInv, RequestInv
<1>2. job[w] \in Seq(BatchPoint)
  BY <1>1, PointsAssumption
<1>3. at[w] \in 1 .. Len(job[w])
  BY <1>1, <1>2
<1>4. job[w][at[w]] \in BatchPoint
  BY <1>2, <1>3
<1>5. job[w][at[w]].fits
  BY <1>1, <1>3 DEF Fits
<1>6. writer = w /\ readers = {} /\ ~ poisoned /\ up
  BY PointsAssumption DEF PInv, LockInv
<1>7. \A x \in Workers : (pc[x] = "u_apply" => x = w) /\ pc[x] \notin Reading
  BY <1>6 DEF PInv, LockInv
<1> QED
  BY <1>2, <1>3, <1>4, <1>5, <1>6, <1>7

(* An index with a point put and its node pushed. *)
LEMMA PushedIsIndex ==
  ASSUME IndexInv, NEW p \in BatchPoint,
         config.index = "hnsw" => ~ arena > MaxPos,
         points' = Added(p), Pushed, UNCHANGED <<config, disk>>, up' \in BOOLEAN
  PROVE  IndexInv'
<1>1. IsMap(points) /\ arena \in 0 .. MaxPos + 1 /\ MaxPos \in Nat
  BY PointsAssumption DEF IndexInv, IsIndex
<1>2. /\ IsMap(Added(p))
      /\ Cardinality(DOMAIN points) \in Nat /\ Cardinality(DOMAIN Added(p)) \in Nat
      /\ Cardinality(DOMAIN Added(p)) <= Cardinality(DOMAIN points) + 1
  BY <1>1, AddedIsMap
<1>3. arena' \in 0 .. MaxPos + 1 /\ (config.index = "hnsw" => arena' = arena + 1)
  <2>1. CASE config.index = "flat"
    <3>1. config.index # "hnsw"
      BY <2>1
    <3>2. arena' = 0
      BY <3>1 DEF Pushed
    <3> QED
      BY <1>1, <3>1, <3>2
  <2>2. CASE config.index = "hnsw"
    <3>1. arena' = arena + 1
      BY <2>2 DEF Pushed
    <3> QED
      BY <1>1, <2>2, <3>1
  <2> QED
    BY <2>1, <2>2 DEF IndexInv, Accepts
<1>4. IsMap(points)'
  BY <1>2
<1>5. /\ max_layer' \in {0, UsizeMax}
      /\ max_layer' # 0 => config.index = "hnsw" /\ config.m = 1
  BY DEF Pushed, IndexInv, IsIndex
<1>6. config.index = "hnsw" => Cardinality(DOMAIN points') <= arena'
  BY <1>1, <1>2, <1>3 DEF IndexInv, IsIndex
<1>7. IsIndex(points, arena, max_layer)'
  BY <1>3, <1>4, <1>5, <1>6 DEF IsIndex
<1>8. IsIndex(disk.points, disk.arena, disk.max_layer)'
  BY DEF IndexInv, IsIndex, IsMap
<1> QED
  BY <1>7, <1>8 DEF IndexInv, Accepts

(* An index with a point removed, its node a tombstone. *)
LEMMA RemovedIsIndex ==
  ASSUME IndexInv, NEW id, points' = Removed(id),
         UNCHANGED <<config, arena, max_layer, disk>>, up' \in BOOLEAN
  PROVE  IndexInv'
<1>1. IsMap(points)
  BY DEF IndexInv, IsIndex
<1>2. /\ IsMap(Removed(id)) /\ Cardinality(DOMAIN Removed(id)) \in Nat
      /\ Cardinality(DOMAIN Removed(id)) <= Cardinality(DOMAIN points)
      /\ Cardinality(DOMAIN points) \in Nat
  BY <1>1, RemovedIsMap, FS_CardinalityType DEF IsMap
<1>3. IsMap(points)'
  BY <1>2
<1>4. config.index = "hnsw" => Cardinality(DOMAIN points') <= arena
  BY <1>2, PointsAssumption DEF IndexInv, IsIndex
<1>5. IsIndex(points, arena, max_layer)'
  BY <1>3, <1>4 DEF IsIndex, IndexInv
<1>6. IsIndex(disk.points, disk.arena, disk.max_layer)'
  BY DEF IndexInv, IsIndex, IsMap
<1> QED
  BY <1>5, <1>6 DEF IndexInv, Accepts

(* One more point of the batch is applied. *)
LEMMA ApplyPointInv ==
  ASSUME PInv, NEW w \in Workers, ApplyPoint(w)
  PROVE  PInv'
<1> DEFINE p == job[w][at[w]]
<1>1. pc[w] = "u_apply" /\ at[w] <= Len(job[w]) /\ AddOutcome(p) = "added"
  BY DEF ApplyPoint
<1>2. points' = Added(p) /\ Pushed /\ at' = [at EXCEPT ![w] = @ + 1]
  BY DEF ApplyPoint
<1>3. UNCHANGED <<config, up, writer, readers, poisoned, disk, pc, job, found, committed>>
  BY DEF ApplyPoint, lock
<1>4. /\ job[w] \in Seq(BatchPoint) /\ at[w] \in 1 .. Len(job[w])
      /\ p \in BatchPoint
      /\ \A x \in Workers : pc[x] = "u_apply" => x = w
      /\ \A x \in Workers : pc[x] \notin Reading
      /\ writer = w
  BY <1>1, NextPoint
<1>5. IndexInv'
  <2>1. config.index = "hnsw" => ~ arena > MaxPos
    BY <1>1 DEF AddOutcome
  <2>2. IndexInv /\ up' \in BOOLEAN
    BY <1>3 DEF PInv, IndexInv
  <2> QED
    BY <1>2, <1>3, <1>4, <2>1, <2>2, PushedIsIndex
<1>6. RequestInv'
  <2>1. at' \in [Workers -> Nat] /\ at'[w] \in 1 .. Len(job[w]) + 1
    BY <1>2, <1>4 DEF PInv, RequestInv
  <2>2. \A x \in Workers : x # w => at'[x] = at[x]
    BY <1>2 DEF PInv, RequestInv
  <2> QED
    BY <1>3, <2>1, <2>2 DEF PInv, RequestInv, Fits
<1>7. LockInv'
  BY <1>3 DEF PInv, LockInv, Reading
<1>8. SyncInv'
  <2>1. points = Store!Applied(committed, job[w], at[w] - 1)
    BY <1>1 DEF PInv, SyncInv
  <2>2. PICK n \in Nat : n = at[w] - 1 /\ n < Len(job[w]) /\ n + 1 = at[w]
    BY <1>4
  <2>3. Store!Applied(committed, job[w], at[w]) = Added(p)
    <3>1. Store!Applied(committed, job[w], n + 1) =
            Put(Store!Applied(committed, job[w], n), job[w][n + 1])
      BY <1>4, <2>2, AppliedNext
    <3>2. points = Store!Applied(committed, job[w], n)
      BY <2>1, <2>2
    <3>3. Put(points, p) = Added(p)
      BY DEF Put, Added
    <3> QED
      BY <2>2, <3>1, <3>2, <3>3
  <2>4. at'[w] - 1 = at[w]
    BY <1>2, <1>4 DEF PInv, RequestInv
  <2>5. points' = Store!Applied(committed', job'[w], at'[w] - 1)
    BY <1>2, <1>3, <2>3, <2>4
  <2>6. IsMap(committed)' /\ writer' # NoOne
    BY <1>3, <1>4, PointsAssumption DEF PInv, SyncInv
  <2> QED
    BY <1>3, <1>4, <2>5, <2>6 DEF SyncInv, Reading
<1> QED
  BY <1>5, <1>6, <1>7, <1>8 DEF PInv

(* The next point panics: the lock is poisoned, the points of clients stay. *)
LEMMA StopUpsertInv ==
  ASSUME PInv, NEW w \in Workers, StopUpsert(w)
  PROVE  PInv' /\ committed' = committed
<1> DEFINE p == job[w][at[w]]
<1>1. pc[w] = "u_apply" /\ at[w] <= Len(job[w]) /\ AddOutcome(p) # "added"
  BY DEF StopUpsert
<1>2. /\ p \in BatchPoint /\ p.fits
      /\ \A x \in Workers : pc[x] = "u_apply" => x = w
      /\ \A x \in Workers : pc[x] \notin Reading
      /\ writer = w /\ readers = {} /\ up
  BY <1>1, NextPoint
<1>3. AddOutcome(p) # "refused"
  BY <1>2 DEF AddOutcome
<1>4. /\ IF AddOutcome(p) = "panics late" THEN points' = Added(p) /\ Pushed
         ELSE points' = Removed(p.id) /\ UNCHANGED <<arena, max_layer>>
      /\ writer' = NoOne /\ poisoned' = TRUE /\ committed' = committed
  BY <1>3 DEF StopUpsert
<1>5. UNCHANGED <<config, up, readers, disk>> /\ Finish(w)
  BY DEF StopUpsert
<1>6. IndexInv'
  <2>1. IndexInv /\ up' \in BOOLEAN
    BY <1>5 DEF PInv, IndexInv
  <2>2. CASE AddOutcome(p) = "panics late"
    <3>1. config.index = "hnsw" => ~ arena > MaxPos
      BY <2>2 DEF AddOutcome
    <3> QED
      BY <1>2, <1>4, <1>5, <2>1, <2>2, <3>1, PushedIsIndex
  <2>3. CASE AddOutcome(p) # "panics late"
    BY <1>4, <1>5, <2>1, <2>3, RemovedIsIndex
  <2> QED
    BY <2>2, <2>3
<1>7. RequestInv'
  BY <1>5 DEF PInv, RequestInv, Pcs, Fits, Finish, Goto
<1>8. LockInv'
  BY <1>2, <1>4, <1>5, PointsAssumption DEF PInv, RequestInv, LockInv, Reading, Pcs, Finish, Goto
<1>9. SyncInv'
  <2>1. \A x \in Workers : pc'[x] \notin {"u_apply", "s_answer"}
    BY <1>2, <1>5 DEF PInv, RequestInv, Reading, Finish, Goto
  <2>2. IsMap(committed)'
    BY <1>4 DEF PInv, SyncInv
  <2> QED
    BY <1>4, <2>1, <2>2 DEF SyncInv
<1> QED
  BY <1>4, <1>6, <1>7, <1>8, <1>9 DEF PInv

(* A point is removed, from the index and for clients. *)
LEMMA DeletePointInv ==
  ASSUME PInv, NEW w \in Workers, DeletePoint(w)
  PROVE  PInv'
<1> USE DEF PInv, DeletePoint, Finish, Goto, MayWrite, Sound
<1>1. IndexInv'
  BY RemovedIsIndex DEF IndexInv
<1>2. RequestInv'
  BY DEF RequestInv, Pcs, Fits
<1>3. LockInv'
  BY DEF RequestInv, LockInv, Reading, Pcs, lock
<1>4. SyncInv'
  <2>1. IsMap(points)'
    BY <1>1 DEF IndexInv, IsIndex
  <2>2. \A x \in Workers : pc'[x] \notin {"u_apply", "s_answer"}
    BY PointsAssumption DEF RequestInv, LockInv, Reading
  <2> QED
    BY <2>1, <2>2 DEF SyncInv, IsMap, lock
<1> QED
  BY <1>1, <1>2, <1>3, <1>4

(* A kill ends all requests; no thread is left to look at the index. *)
LEMMA CrashInv ==
  ASSUME PInv, Crash
  PROVE  PInv'
<1> USE DEF PInv, Crash
<1>1. IndexInv'
  BY IndexKept DEF IndexInv
<1>2. RequestInv'
  BY DEF RequestInv, Pcs
<1>3. LockInv'
  BY PointsAssumption DEF LockInv, Reading
<1>4. SyncInv'
  BY DEF SyncInv, IsMap, index
<1> QED
  BY <1>1, <1>2, <1>3, <1>4

(* What was saved is in memory again. *)
LEMMA LoadInv ==
  ASSUME PInv, Load
  PROVE  PInv'
<1> USE DEF PInv, Load
<1>1. IndexInv'
  BY DEF IndexInv, IsIndex, IsMap, Accepts
<1>2. RequestInv'
  BY DEF RequestInv, Pcs, Fits, request
<1>3. LockInv'
  BY DEF LockInv, Reading, lock
<1>4. SyncInv'
  <2>1. IsMap(committed)'
    BY <1>1 DEF IndexInv, IsIndex
  <2>2. \A w \in Workers : pc'[w] = "idle"
    BY DEF LockInv
  <2> QED
    BY <2>1, <2>2 DEF SyncInv
<1> QED
  BY <1>1, <1>2, <1>3, <1>4

(* A collection is created with an empty index, which is saved. *)
LEMMA InitPInv == Init => PInv
<1> SUFFICES ASSUME Init PROVE PInv
  OBVIOUS
<1>1. NoPoints = [id \in {} |-> {}] /\ DOMAIN NoPoints = {}
  BY DEF NoPoints
<1>2. IsFiniteSet({}) /\ Cardinality({}) = 0
  BY FS_EmptySet
<1>3. IsMap(NoPoints)
  BY <1>1, <1>2 DEF IsMap
<1>4. IsIndex(points, arena, max_layer)
  BY <1>1, <1>2, <1>3, PointsAssumption DEF Init, IsIndex
<1>5. disk.points = points /\ disk.arena = arena /\ disk.max_layer = max_layer
  BY DEF Init, Snapshot
<1>6. IndexInv
  BY <1>4, <1>5 DEF Init, IndexInv
<1>7. RequestInv
  BY DEF Init, RequestInv, Pcs
<1>8. LockInv
  BY PointsAssumption DEF Init, LockInv, Reading
<1>9. SyncInv
  BY <1>3 DEF Init, SyncInv
<1> QED
  BY <1>6, <1>7, <1>8, <1>9 DEF PInv

(* No step disturbs the invariant. *)
LEMMA NextPInv == PInv /\ [Next]_vars => PInv'
<1> SUFFICES ASSUME PInv, [Next]_vars PROVE PInv'
  OBVIOUS
<1>1. ASSUME NEW w \in Workers, Start(w)
      PROVE  PInv'
  <2>1. CASE StartUpsert(w)
    BY <2>1, BeginInv DEF StartUpsert
  <2>2. CASE StartDelete(w)
    <3>1. PICK id \in Ids : Begin(w, "d_lock", <<id>>)
      BY <2>2 DEF StartDelete
    <3>2. <<id>>[1] \in Ids
      OBVIOUS
    <3> QED
      BY <3>1, <3>2, BeginInv
  <2>3. CASE StartSearch(w)
    BY <2>3, BeginInv DEF StartSearch
  <2>4. CASE StartSave(w)
    BY <2>4, BeginInv DEF StartSave
  <2> QED
    BY <1>1, <2>1, <2>2, <2>3, <2>4 DEF Start
<1>2. ASSUME NEW w \in Workers, Continue(w)
      PROVE  PInv'
  <2>1. CASE RefuseUpsert(w) \/ RefuseDelete(w) \/ RefuseSearch(w) \/ RefuseSave(w)
    BY <2>1, RefuseInv DEF RefuseUpsert, RefuseDelete, RefuseSearch, RefuseSave
  <2>2. CASE LockUpsert(w) \/ ApplyPoint(w) \/ StopUpsert(w) \/ EndUpsert(w)
    BY <2>2, LockUpsertInv, ApplyPointInv, StopUpsertInv, EndUpsertInv
  <2>3. CASE DeletePoint(w)
    BY <2>3, DeletePointInv
  <2>4. CASE RunSearch(w) \/ AnswerSearch(w)
    BY <2>4, RunSearchInv, ReaderEndsInv
  <2>5. CASE LockSave(w) \/ Save(w) \/ EndSave(w)
    BY <2>5, LockSaveInv, SaveInv, ReaderEndsInv
  <2> QED
    BY <1>2, <2>1, <2>2, <2>3, <2>4, <2>5 DEF Continue
<1>3. CASE UNCHANGED vars
  <2>1. IndexInv'
    BY <1>3, IndexKept DEF PInv, IndexInv, vars, index
  <2>2. RequestInv'
    BY <1>3 DEF PInv, RequestInv, Fits, vars, request
  <2>3. LockInv'
    BY <1>3 DEF PInv, LockInv, Reading, vars, lock
  <2>4. SyncInv'
    BY <1>3, SyncKept DEF PInv, SyncInv, vars, index, lock, request
  <2> QED
    BY <2>1, <2>2, <2>3, <2>4 DEF PInv
<1> QED
  BY <1>1, <1>2, <1>3, CrashInv, LoadInv DEF Next

LEMMA AlwaysPInv == Spec => []PInv
  BY InitPInv, NextPInv, PTL DEF Spec

-----------------------------------------------------------------------------
(***************************************************************************)
(* The lock is held by those who are where it is taken, by a writer alone; *)
(* no live vector is without a node of the arena, and positions fit.       *)
(***************************************************************************)
THEOREM PointsTypeCorrect == Spec => []TypeOK
<1>1. PInv => TypeOK
  BY PointsAssumption DEF PInv, IndexInv, IsIndex, IsMap, LockInv, Reading, TypeOK
<1> QED
  BY <1>1, AlwaysPInv, PTL

(***************************************************************************)
(* routes.rs:313-343: search looks up the payloads under the lock it       *)
(* searched with, so an answer is about one moment between requests.       *)
(***************************************************************************)
THEOREM AnswersAgree == Spec => []AnswersAreCommitted
<1>1. PInv => AnswersAreCommitted
  <2> SUFFICES ASSUME PInv PROVE AnswersAreCommitted
    OBVIOUS
  <2>1. ASSUME NEW w \in Workers, pc[w] = "s_answer"
        PROVE  Answer(w) = HitsOf(committed)
    <3>1. writer = NoOne /\ ~ poisoned /\ up
      BY <2>1 DEF PInv, LockInv, Reading
    <3>2. points = committed /\ found[w] = FoundIn(committed)
      BY <2>1, <3>1 DEF PInv, SyncInv
    <3>3. \A id \in DOMAIN committed : PayloadOf(committed, id) = committed[id].payload
      BY DEF PayloadOf
    <3>4. Answer(w) = {[id |-> hit.id, vector |-> hit.vector, payload |-> PayloadOf(committed, hit.id)] :
                         hit \in FoundIn(committed)}
      BY <3>2 DEF Answer
    <3>5. ASSUME NEW x \in Answer(w)
          PROVE  x \in HitsOf(committed)
      <4>1. PICK hit \in FoundIn(committed) :
              x = [id |-> hit.id, vector |-> hit.vector, payload |-> PayloadOf(committed, hit.id)]
        BY <3>4
      <4>2. PICK id \in DOMAIN committed : hit = [id |-> id, vector |-> committed[id].vector]
        BY DEF FoundIn
      <4> QED
        BY <3>3, <4>1, <4>2 DEF HitsOf
    <3>6. ASSUME NEW x \in HitsOf(committed)
          PROVE  x \in Answer(w)
      <4>1. PICK id \in DOMAIN committed :
              x = [id |-> id, vector |-> committed[id].vector, payload |-> committed[id].payload]
        BY DEF HitsOf
      <4> DEFINE hit == [id |-> id, vector |-> committed[id].vector]
      <4>2. hit \in FoundIn(committed) /\ hit.id = id /\ hit.vector = committed[id].vector
        BY DEF FoundIn
      <4> QED
        BY <3>3, <3>4, <4>1, <4>2
    <3> QED
      BY <3>5, <3>6
  <2>2. up /\ MayRead /\ Sound => Count = Cardinality(DOMAIN committed)
    BY DEF PInv, SyncInv, MayRead, Sound, Count
  <2> QED
    BY <2>1, <2>2 DEF AnswersAreCommitted
<1> QED
  BY <1>1, AlwaysPInv, PTL

LEMMA IntervalGrows == \A a, b \in Nat : a <= b => \A m \in 1 .. a : m \in 1 .. b
  OBVIOUS

(* The server's bound on m is below the format's. *)
LEMMA ConnectionsFit == \A m \in 1 .. 256 : m \in 1 .. Format!MaxM
<1> DEFINE most == 256
<1>1. most \in Nat /\ Format!MaxM \in Nat
  BY DEF Format!MaxM
<1>2. most <= Format!MaxM
  BY DEF Format!MaxM
<1> HIDE DEF most
<1>3. \A m \in 1 .. most : m \in 1 .. Format!MaxM
  BY <1>1, <1>2, IntervalGrows
<1> QED
  BY <1>3 DEF most

(***************************************************************************)
(* What routes.rs:171-219 accepts, persist.rs reads back, for every        *)
(* dimension, m and history but the two exceptions.                        *)
(***************************************************************************)
THEOREM AcceptedIsLoadable == Spec => []SnapshotsLoad
<1>1. PInv => SnapshotsLoad
  <2> SUFFICES ASSUME PInv, ~ (config.index = "hnsw" /\ (config.m = 1 \/ disk.arena = MaxPos + 1))
               PROVE  Loadable(disk)
    BY DEF SnapshotsLoad
  <2>1. config.dim \in 1 .. Format!MaxDim
    <3>1. config.dim \in 1 .. MAX_DIM
      BY DEF PInv, IndexInv, Accepts
    <3>2. MAX_DIM \in Nat /\ Format!MaxDim \in Nat /\ MAX_DIM <= Format!MaxDim
      BY SMT DEF MAX_DIM, Format!MaxDim
    <3>3. \A d \in 1 .. MAX_DIM : d \in 1 .. Format!MaxDim
      BY <3>2
    <3> QED
      BY <3>1, <3>3, Zenon
  <2>2. ASSUME NEW type \in {0, 1}
        PROVE  Format!HeaderOk(Format!WriteHeader(type, "l2", config.dim))
    <3>1. Format!ToTag("l2") = 1
      BY DEF Format!ToTag
    <3>2. "l2" \in Format!FromTag(1)
      BY <3>1 DEF Format!FromTag, Format!Metrics
    <3> QED
      BY <2>1, <2>2, <3>1, <3>2 DEF Format!HeaderOk, Format!WriteHeader, Format!TYPE_FLAT,
         Format!TYPE_HNSW
  <2>3. ASSUME config.index = "hnsw"
        PROVE  /\ disk.arena <= MaxPos
               /\ Format!CountersOk([m |-> config.m,
                                     entry |-> IF disk.arena = 0 THEN Format!NO_ENTRY ELSE 0,
                                     max_layer |-> disk.max_layer, node_count |-> disk.arena])
    <3>1. config.m \in 1 .. 256 /\ disk.max_layer = 0
      BY <2>3, SMT DEF PInv, IndexInv, IsIndex, Accepts
    <3>2. config.m \in 1 .. Format!MaxM
      BY <3>1, ConnectionsFit
    <3>3. disk.max_layer < Format!MAX_LAYERS
      BY <3>1, SMT DEF Format!MAX_LAYERS
    <3>4. disk.arena \in 0 .. MaxPos
      BY <2>3, PointsAssumption DEF PInv, IndexInv, IsIndex
    <3> QED
      BY <3>2, <3>3, <3>4, PointsAssumption DEF Format!CountersOk
  <2> QED
    BY <2>2, <2>3 DEF Loadable, Format!TYPE_FLAT, Format!TYPE_HNSW
<1> QED
  BY <1>1, AlwaysPInv, PTL

(***************************************************************************)
(* routes.rs:272-273: a batch is applied as a whole or not at all, also    *)
(* when a point panics, and a snapshot is of a moment between requests.    *)
(***************************************************************************)
THEOREM BatchesAreAtomic == Spec => ImplementsPointStore
<1>1. Init => Store!StoreInit
  BY DEF Init, Store!StoreInit, NoPoints, Snapshot
<1>2. PInv /\ [Next]_vars => [Store!StoreNext]_<<committed, disk.points>>
  <2> SUFFICES ASSUME PInv, [Next]_vars
               PROVE  Store!StoreNext \/ UNCHANGED <<committed, disk.points>>
    OBVIOUS
  <2>1. ASSUME NEW w \in Workers, Start(w)
        PROVE  UNCHANGED <<committed, disk.points>>
    BY <2>1 DEF Start, StartUpsert, StartDelete, StartSearch, StartSave, Begin
  <2>2. ASSUME NEW w \in Workers, EndUpsert(w)
        PROVE  Store!StoreNext
    <3>1. job[w] \in Batches /\ at[w] = Len(job[w]) + 1 /\ Len(job[w]) \in Nat
      BY <2>2, PointsAssumption DEF EndUpsert, PInv, RequestInv
    <3>2. points = Store!Applied(committed, job[w], at[w] - 1)
      BY <2>2 DEF EndUpsert, PInv, SyncInv
    <3>3. committed' = Store!Upserted(committed, job[w]) /\ disk' = disk
      <4>1. at[w] - 1 = Len(job[w])
        BY <3>1
      <4> QED
        BY <2>2, <3>2, <4>1 DEF EndUpsert, Store!Upserted
    <3> QED
      BY <3>1, <3>3 DEF Store!StoreNext, Store!StoreUpsert
  <2>3. ASSUME NEW w \in Workers, DeletePoint(w)
        PROVE  Store!StoreNext
    <3>1. points = committed
      BY <2>3 DEF DeletePoint, PInv, SyncInv, LockInv, MayWrite, Sound
    <3>2. job[w][1] \in Ids
      BY <2>3 DEF DeletePoint, PInv, RequestInv
    <3>3. committed' = Restrict(committed, DOMAIN committed \ {job[w][1]}) /\ disk' = disk
      BY <2>3, <3>1 DEF DeletePoint, Removed
    <3> QED
      BY <3>2, <3>3 DEF Store!StoreNext, Store!StoreDelete, Store!Restrict, Restrict
  <2>4. ASSUME NEW w \in Workers, Save(w)
        PROVE  Store!StoreNext
    <3>1. points = committed
      BY <2>4 DEF Save, PInv, SyncInv, LockInv, Reading
    <3> QED
      BY <2>4, <3>1 DEF Save, Snapshot, Store!StoreNext, Store!StoreSave
  <2>5. ASSUME NEW w \in Workers, Continue(w), ~ EndUpsert(w), ~ DeletePoint(w), ~ Save(w)
        PROVE  UNCHANGED <<committed, disk.points>>
    <3>1. CASE StopUpsert(w)
      BY <3>1, StopUpsertInv DEF StopUpsert
    <3>2. CASE RefuseUpsert(w) \/ RefuseDelete(w) \/ RefuseSearch(w) \/ RefuseSave(w)
      BY <3>2 DEF RefuseUpsert, RefuseDelete, RefuseSearch, RefuseSave, Refuse
    <3>3. CASE LockUpsert(w) \/ ApplyPoint(w)
      BY <3>3 DEF LockUpsert, ApplyPoint
    <3>4. CASE RunSearch(w) \/ AnswerSearch(w) \/ LockSave(w) \/ EndSave(w)
      BY <3>4 DEF RunSearch, AnswerSearch, LockSave, EndSave
    <3> QED
      BY <2>5, <3>1, <3>2, <3>3, <3>4 DEF Continue
  <2>6. CASE Crash \/ UNCHANGED vars
    BY <2>6 DEF Crash, vars
  <2>7. CASE Load
    BY <2>7 DEF Load, Store!StoreNext, Store!StoreRestart
  <2> QED
    BY <2>1, <2>2, <2>3, <2>4, <2>5, <2>6, <2>7 DEF Next
<1> QED
  BY <1>1, <1>2, AlwaysPInv, PTL DEF Spec, ImplementsPointStore, Store!StoreSpec

=============================================================================
