-------------------------------- MODULE TopK --------------------------------
(***************************************************************************)
(* The bounded max-heaps of crates/vex-core: keep the k smallest of the    *)
(* items offered one by one.  Items are a distance and a key (the id, or   *)
(* the position in the arena) that breaks ties; no two items of one search *)
(* have the same key, so a heap is a set.  Distances stand for their ranks *)
(* under f32::total_cmp, a total order that places NaN and the infinities. *)
(***************************************************************************)
EXTENDS Naturals, FiniteSets, Sequences

Lists == INSTANCE SequencesExt

Item(d, k) == [distance |-> d, key |-> k]

(* Ord of HeapItem and of Candidate. *)
Less(x, y) == \/ x.distance < y.distance
              \/ x.distance = y.distance /\ x.key < y.key

(* BinaryHeap::peek, and the top of a min-heap. *)
Greatest(heap) == CHOOSE x \in heap : \A y \in heap \ {x} : Less(y, x)
Least(heap) == CHOOSE x \in heap : \A y \in heap \ {x} : Less(x, y)

(* into_sorted_vec: each item comes after those that are less. *)
Sorted(heap) ==
  LET rank == [x \in heap |-> Cardinality({y \in heap : Less(y, x)})]
  IN [i \in 1 .. Cardinality(heap) |-> CHOOSE x \in heap : rank[x] = i - 1]

(* Mutant: a tie with the worst item is not broken by the key. *)
OfferByDistance(heap, cap, x) ==
  IF Cardinality(heap) < cap THEN heap \cup {x}
  ELSE IF heap # {} /\ x.distance < Greatest(heap).distance
       THEN (heap \ {Greatest(heap)}) \cup {x}
  ELSE heap

(* Push below the capacity; above it replace the worst item by a better one. *)
Offer(heap, cap, x) ==
  IF Cardinality(heap) < cap THEN heap \cup {x}
  ELSE IF heap # {} /\ Less(x, Greatest(heap)) THEN (heap \ {Greatest(heap)}) \cup {x}
  ELSE heap

(* The reference: the k least of a set of items, in order. *)
LeastK(items, k) == SubSeq(Sorted(items), 1, IF k < Cardinality(items) THEN k ELSE Cardinality(items))

=============================================================================
