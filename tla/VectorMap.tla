----------------------------- MODULE VectorMap -----------------------------
(***************************************************************************)
(* What the Index trait (crates/vex-core/src/index.rs) promises of any     *)
(* index, tombstones and adjacency lists aside: it is a map from ids to    *)
(* the vector and the payload stored with them.                            *)
(***************************************************************************)
EXTENDS Functions

CONSTANTS
  MapIds,       \* vector ids
  MapVectors,   \* vectors of the index's dimension
  MapPayloads   \* payloads, the absent one included

VARIABLE points  \* the live vectors: id |-> what is stored

Stored == [vector : MapVectors, payload : MapPayloads]

MapTypeOK == \E ids \in SUBSET MapIds : points \in [ids -> Stored]

MapInit == points = [id \in {} |-> {}]

(* add_with_payload: an id that is live is refused (DuplicateId). *)
MapAdd(id, s) ==
  /\ id \notin DOMAIN points
  /\ points' = [x \in DOMAIN points \cup {id} |-> IF x = id THEN s ELSE points[x]]

(* remove: true when the id was live, and then it is gone. *)
MapRemove(id) ==
  /\ id \in DOMAIN points
  /\ points' = Restrict(points, DOMAIN points \ {id})

MapNext == \E id \in MapIds : MapRemove(id) \/ \E s \in Stored : MapAdd(id, s)

MapSpec == MapInit /\ [][MapNext]_points

=============================================================================
