----------------------------- MODULE FlatIndex -----------------------------
(***************************************************************************)
(* FlatIndex (crates/vex-core/src/flat.rs): a vector of entries in storage *)
(* order and a map from ids to positions in it, and search by a scan that  *)
(* keeps the k best entries in a bounded heap.                             *)
(*                                                                         *)
(* Positions are the code's, from 0: position p is entries[p + 1].         *)
(***************************************************************************)
EXTENDS TopK, Functions

CONSTANTS
  Ids,               \* vector ids, u64: natural numbers
  Vectors,           \* vectors of the index's dimension
  Payloads,          \* payloads, the absent one included
  Filters,           \* payload filters, the absent one included
  Dist(_, _),        \* DistanceMetric::distance
  Matches(_, _)      \* Filter::matches(filter, payload)

ASSUME FlatAssumption ==
  /\ Ids \subseteq Nat
  /\ \A v, w \in Vectors : Dist(v, w) \in Nat

VARIABLES
  entries,    \* FlatIndex.entries
  id_to_pos   \* FlatIndex.id_to_pos

vars == <<entries, id_to_pos>>

FlatEntry == [id : Ids, vector : Vectors, payload : Payloads]

(* Entries are what add stores; positions are never below 0. *)
TypeOK ==
  /\ entries \in Seq(FlatEntry)
  /\ \E ids \in SUBSET Ids : id_to_pos \in [ids -> Nat]

Init ==
  /\ entries = << >>
  /\ id_to_pos = [id \in {} |-> 0]

Contains(id) == id \in DOMAIN id_to_pos

Entry(id) == entries[id_to_pos[id] + 1]

(* Mutant: positions counted from the wrong end of the new entry. *)
PutBefore(map, id, pos) ==
  [x \in DOMAIN map \cup {id} |-> IF x = id THEN pos - 1 ELSE map[x]]

(* HashMap::insert and HashMap::remove *)
Put(map, id, pos) == [x \in DOMAIN map \cup {id} |-> IF x = id THEN pos ELSE map[x]]
Without(map, id) == Restrict(map, DOMAIN map \ {id})

(* Mutant: a live id is not refused. *)
AddOverwriting(id, v, pl) ==
  /\ Len(entries) < Cardinality(Ids)
  /\ entries' = Append(entries, [id |-> id, vector |-> v, payload |-> pl])
  /\ id_to_pos' = Put(id_to_pos, id, Len(entries))

(* add_with_payload; a live id is an error and changes nothing. *)
Add(id, v, pl) ==
  /\ ~ Contains(id)
  /\ entries' = Append(entries, [id |-> id, vector |-> v, payload |-> pl])
  /\ id_to_pos' = Put(id_to_pos, id, Len(entries))

(* Vec::swap_remove: the last entry takes the place of the removed one. *)
SwapRemove(s, pos) ==
  [i \in 1 .. Len(s) - 1 |-> IF i = pos + 1 THEN s[Len(s)] ELSE s[i]]

(* Mutant: the entry that was moved keeps its old position. *)
RemoveUnmoved(id) ==
  /\ Contains(id)
  /\ entries' = SwapRemove(entries, id_to_pos[id])
  /\ id_to_pos' = Without(id_to_pos, id)

(* remove: the entry that was moved has its position updated. *)
Remove(id) ==
  LET pos == id_to_pos[id]
      rest == Without(id_to_pos, id)
      kept == SwapRemove(entries, pos)
  IN /\ Contains(id)
     /\ entries' = kept
     /\ id_to_pos' = IF pos < Len(kept) THEN Put(rest, kept[pos + 1].id, pos) ELSE rest

Next ==
  \E id \in Ids :
    \/ \E v \in Vectors, pl \in Payloads : Add(id, v, pl)
    \/ Remove(id)

Spec == Init /\ [][Next]_vars

-----------------------------------------------------------------------------
(* search_filtered *)

ItemOf(e, q) == Item(Dist(q, e.vector), e.id)

Search(q, k, f) ==
  LET cap == IF k < Len(entries) THEN k ELSE Len(entries)
      Visit(heap, e) == IF Matches(f, e.payload) THEN Offer(heap, cap, ItemOf(e, q)) ELSE heap
  IN Sorted(Lists!FoldLeft(Visit, {}, entries))

-----------------------------------------------------------------------------
(* What must hold. *)

(***************************************************************************)
(* The position map and the entries agree after any sequence of adds and   *)
(* swap_removes: each live id is where the map says, and nowhere else.     *)
(***************************************************************************)
PositionsAgree ==
  /\ \A id \in DOMAIN id_to_pos : id_to_pos[id] < Len(entries) /\ Entry(id).id = id
  /\ \A i \in 1 .. Len(entries) : Contains(entries[i].id)
                                  /\ id_to_pos[entries[i].id] = i - 1

(***************************************************************************)
(* index.rs:18-29: a search yields exactly the k nearest of the live       *)
(* vectors that match the filter, in ascending order, ties by id, and all  *)
(* of them when there are fewer; a removed id is never among them.         *)
(***************************************************************************)
SearchIsExact ==
  \A q \in Vectors, k \in 1 .. Cardinality(Ids) + 1, f \in Filters :
    Search(q, k, f) =
      LeastK({ItemOf(Entry(id), q) : id \in {x \in DOMAIN id_to_pos :
                                               Matches(f, Entry(x).payload)}}, k)

-----------------------------------------------------------------------------
(* The abstract map. *)

(* vector and payload, for every live id. *)
StoredAt == [id \in DOMAIN id_to_pos |->
               [vector |-> Entry(id).vector, payload |-> Entry(id).payload]]

Points == INSTANCE VectorMap WITH
  MapIds <- Ids, MapVectors <- Vectors, MapPayloads <- Payloads, points <- StoredAt

(***************************************************************************)
(* Whatever swap_remove moves around, clients of vector() and payload()    *)
(* see a map: adding adds one id, removing removes one, nothing else       *)
(* changes.                                                                *)
(***************************************************************************)
ImplementsMap == Points!MapSpec

=============================================================================
