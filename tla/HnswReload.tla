----------------------------- MODULE HnswReload -----------------------------
(***************************************************************************)
(* An HnswIndex that outlives its process: saved to a snapshot, loaded by  *)
(* the next process, used on (crates/vex-core/src/persist.rs).             *)
(***************************************************************************)
EXTENDS HnswIndex, SnapshotFormat

CONSTANTS
  Metric,  \* metric of the index
  Dim      \* dimension of the index

(***************************************************************************)
(* The limits of the reader.  create_collection refuses metrics, dims and  *)
(* ms beyond them (routes.rs:178-206).  The arena has positions of 32 bits *)
(* (hnsw.rs:615), none of which is NO_ENTRY.  A level is floor(-ln(u) / ln m)*)
(* for a u of 53 bits (hnsw.rs:436-449), for m >= 2 at most 53, unless u   *)
(* is 0; persist.rs:58-60 leaves that one out too.                         *)
(***************************************************************************)
ASSUME ReloadAssumption ==
  /\ Metric \in Metrics /\ Dim \in 1 .. MaxDim /\ M <= MaxM
  /\ Levels \subseteq 0 .. MAX_LAYERS - 1
  /\ MaxNodes <= NO_ENTRY

Index == [metric |-> Metric, dim |-> Dim, m |-> M, nodes |-> nodes, id_to_pos |-> id_to_pos,
          entry_point |-> entry_point, max_layer |-> max_layer, live_count |-> live_count]

(* The process ends, and the next one loads what it saved. *)
Reload ==
  \E file \in WriteHnsw(Index) : \E index \in ReadAny(file) :
    /\ nodes' = index.nodes /\ id_to_pos' = index.id_to_pos
    /\ entry_point' = index.entry_point /\ max_layer' = index.max_layer
    /\ live_count' = index.live_count

ReloadSpec == Init /\ [][Next \/ Reload]_vars

(* The same nodes under the live ids; a removed id has one of its tombstones. *)
SameIds(map) ==
  /\ DOMAIN map = DOMAIN id_to_pos
  /\ \A id \in DOMAIN map :
       IF Live(id) THEN map[id] = id_to_pos[id]
       ELSE map[id] \in Positions /\ nodes[map[id]].id = id /\ nodes[map[id]].deleted

(***************************************************************************)
(* Only a payload that is too long, if only a tombstone's, keeps an index  *)
(* from being saved.  The index a snapshot yields is the one that was      *)
(* saved, but for one thing that nobody sees: an id that was removed more  *)
(* than once is mapped to the first of its tombstones, instead of the last.*)
(***************************************************************************)
HnswSurvivesReload ==
  LET files == WriteHnsw(Index) IN
  /\ files = {} <=> \E p \in Positions : nodes[p].payload \in Unserialisable
  /\ \A file \in files : \E index \in ReadAny(file) :
       /\ ReadAny(file) = {index}
       /\ index = [Index EXCEPT !.id_to_pos = index.id_to_pos] /\ SameIds(index.id_to_pos)

(***************************************************************************)
(* persist.rs:34-36: a file that ends early, wherever, is refused, and so  *)
(* is one in which a node has become a tombstone, or one has come to life. *)
(***************************************************************************)
DamagedHnswIsRefused ==
  \A file \in WriteHnsw(Index) :
    LET Flipped(i) == [file EXCEPT ![i].deleted = ~ @] IN
    /\ \A cut \in Cuts(file) : ReadAny(cut) = {}
    /\ \A i \in 3 .. Len(file) : ReadAny(Flipped(i)) = {}

=============================================================================
