----------------------------- MODULE PointStore -----------------------------
(***************************************************************************)
(* What the handlers of one collection promise of its points: a request    *)
(* changes all it asks for at once, and a restart yields the points of     *)
(* some moment between requests, the last one that was saved.              *)
(***************************************************************************)
EXTENDS Naturals, Sequences, Functions

CONSTANTS
  StoreIds,      \* point ids
  StoreBatches   \* the batches clients upsert: sequences of [id, point, ...]

VARIABLES
  stored,  \* id |-> the point clients find
  saved    \* what the snapshot holds

(* The last of the first n points of a batch that are for id. *)
LastFor(batch, n, id) ==
  {i \in 1 .. n : batch[i].id = id /\ \A j \in i + 1 .. n : batch[j].id # id}

LastPoint(batch, n, id) == batch[CHOOSE i \in LastFor(batch, n, id) : TRUE].point

IdsOf(batch, n) == {batch[i].id : i \in 1 .. n}

(* The first n points of a batch applied: the last one for each id counts. *)
Applied(map, batch, n) ==
  [id \in DOMAIN map \cup IdsOf(batch, n) |->
     IF id \in IdsOf(batch, n) THEN LastPoint(batch, n, id) ELSE map[id]]

Upserted(map, batch) == Applied(map, batch, Len(batch))

StoreInit ==
  /\ stored = [id \in {} |-> {}]
  /\ saved = stored

StoreUpsert(batch) == stored' = Upserted(stored, batch) /\ UNCHANGED saved

StoreDelete(id) ==
  /\ stored' = Restrict(stored, DOMAIN stored \ {id})
  /\ UNCHANGED saved

StoreSave == saved' = stored /\ UNCHANGED stored

StoreRestart == stored' = saved /\ UNCHANGED saved

StoreNext ==
  \/ \E batch \in StoreBatches : StoreUpsert(batch)
  \/ \E id \in StoreIds : StoreDelete(id)
  \/ StoreSave
  \/ StoreRestart

StoreSpec == StoreInit /\ [][StoreNext]_<<stored, saved>>

=============================================================================
