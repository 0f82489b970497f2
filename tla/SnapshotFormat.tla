--------------------------- MODULE SnapshotFormat ---------------------------
(***************************************************************************)
(* The contents of a snapshot file (crates/vex-core/src/persist.rs): what  *)
(* write_flat and write_hnsw put into it, and the index, or the error,     *)
(* that read_any makes of what it finds.                                   *)
(*                                                                         *)
(* A file is a sequence of sections, the header first, then the counters   *)
(* of the body, then one section for each entry or node; a section that    *)
(* ends early is a section that is not there.  A result that may be an     *)
(* error is a set: of the value, or empty.  Indexes are records of the     *)
(* fields of FlatIndex or HnswIndex, with metric and dim.                  *)
(***************************************************************************)
EXTENDS Naturals, Sequences, FiniteSets

CONSTANT Unserialisable  \* payloads of more than MAX_PAYLOAD_BYTES of JSON

MAGIC == "VEXSNAP"
FORMAT_VERSION == 1
TYPE_FLAT == 0
TYPE_HNSW == 1
MAX_LAYERS == 64
MaxDim == 1048576
MaxM == 65536

Metrics == {"cosine", "l2", "dot"}

(* DistanceMetric::to_tag *)
ToTag(metric) == [cosine |-> 0, l2 |-> 1, dot |-> 2][metric]

(* DistanceMetric::from_tag *)
FromTag(tag) == {metric \in Metrics : ToTag(metric) = tag}

WriteHeader(index_type, metric, dim) ==
  [magic |-> MAGIC, version |-> FORMAT_VERSION, index_type |-> index_type,
   metric |-> ToTag(metric), reserved |-> 0, dim |-> dim]

(* What read_header does not refuse. *)
HeaderOk(h) ==
  /\ h.magic = MAGIC /\ h.version = FORMAT_VERSION
  /\ h.index_type \in {TYPE_FLAT, TYPE_HNSW}
  /\ FromTag(h.metric) # {} /\ h.reserved = 0
  /\ h.dim \in 1 .. MaxDim

MetricOf(h) == CHOOSE metric \in FromTag(h.metric) : TRUE

(* put_payload refuses one that is too long, and get_payload its length. *)
PutPayload(pl) == IF pl \in Unserialisable THEN {} ELSE {pl}

PutAll(records) ==
  IF \A i \in DOMAIN records : PutPayload(records[i].payload) # {} THEN {records} ELSE {}

(* Mutant: a reader that finds the end of the file takes what it has. *)
TakeWhatIsThere(body, count) ==
  {SubSeq(body, 2, IF count < Len(body) THEN count + 1 ELSE Len(body))}

(* The count sections after the counters: read_exact finds them or fails.
   Nobody looks at what comes after them. *)
Take(body, count) == IF Len(body) > count THEN {SubSeq(body, 2, count + 1)} ELSE {}

-----------------------------------------------------------------------------
(* write_flat *)
WriteFlat(index) ==
  {<<WriteHeader(TYPE_FLAT, index.metric, index.dim), [count |-> Len(index.entries)]>> \o entries :
     entries \in PutAll(index.entries)}

(* Mutant: positions counted from 1. *)
MapFromOne(map, id, pos) == [x \in DOMAIN map \cup {id} |-> IF x = id THEN pos + 1 ELSE map[x]]

MapEntry(map, id, pos) == [x \in DOMAIN map \cup {id} |-> IF x = id THEN pos ELSE map[x]]

(* The map that is built again, entry by entry. *)
EntryPositions(entries) ==
  LET map[i \in 0 .. Len(entries)] ==
        IF i = 0 THEN [id \in {} |-> 0] ELSE MapEntry(map[i - 1], entries[i].id, i - 1)
  IN map[Len(entries)]

(* read_flat_body; an id found twice is an error. *)
ReadFlatBody(header, body) ==
  LET Unique(entries) == \A i, j \in DOMAIN entries : entries[i].id = entries[j].id => i = j
      found == IF body = << >> THEN {} ELSE Take(body, body[1].count)
  IN {[metric |-> MetricOf(header), dim |-> header.dim, entries |-> entries,
       id_to_pos |-> EntryPositions(entries)] : entries \in {es \in found : Unique(es)}}

-----------------------------------------------------------------------------
(* Stands for u64::MAX, which is no position. *)
NO_ENTRY == 2147483647

(* The positions of HnswIndex are those of the code plus one. *)
RawPosition(p) == IF p = 0 THEN NO_ENTRY ELSE p - 1
RawNode(node) ==
  [node EXCEPT !.neighbors = [l \in DOMAIN @ |-> [i \in DOMAIN @[l] |-> @[l][i] - 1]]]
ArenaNode(raw) ==
  [raw EXCEPT !.neighbors = [l \in DOMAIN @ |-> [i \in DOMAIN @[l] |-> @[l][i] + 1]]]

(* write_hnsw *)
WriteHnsw(index) ==
  LET counters == [m |-> index.m, entry |-> RawPosition(index.entry_point),
                   max_layer |-> index.max_layer, live_count |-> index.live_count,
                   node_count |-> Len(index.nodes)]
  IN {<<WriteHeader(TYPE_HNSW, index.metric, index.dim), counters>>
        \o [p \in DOMAIN nodes |-> RawNode(nodes[p])] : nodes \in PutAll(index.nodes)}

(* The counters read_hnsw_body does not refuse before it reads the nodes. *)
CountersOk(c) ==
  /\ c.m \in 1 .. MaxM
  /\ c.max_layer < MAX_LAYERS
  /\ c.entry = NO_ENTRY \/ c.entry < c.node_count

(* The node sections it does not refuse; their layers are not compared. *)
NodeOk(node, node_count) ==
  /\ node.deleted \in BOOLEAN
  /\ Len(node.neighbors) \in 1 .. MAX_LAYERS
  /\ \A l \in DOMAIN node.neighbors :
       /\ Len(node.neighbors[l]) <= 2 * node_count
       /\ \A i \in DOMAIN node.neighbors[l] : node.neighbors[l][i] < node_count

(* Mutant: the first node of an id keeps it, live or not. *)
MapFirst(map, nodes, p) ==
  [id \in DOMAIN map \cup {nodes[p].id} |-> IF id \in DOMAIN map THEN map[id] ELSE p]

(* A live node takes its id, a tombstone only one that is not there yet. *)
MapNode(map, nodes, p) ==
  [id \in DOMAIN map \cup {nodes[p].id} |->
     IF id \in DOMAIN map /\ (nodes[p].deleted \/ id # nodes[p].id) THEN map[id] ELSE p]

(* Mutant: the count of live nodes is not compared. *)
AnyCount(nodes, count) == TRUE

LiveCountAgrees(nodes, count) ==
  count = Cardinality({p \in DOMAIN nodes : ~ nodes[p].deleted})

(* The map that is built again, node by node. *)
NodePositions(nodes) ==
  LET map[p \in 0 .. Len(nodes)] ==
        IF p = 0 THEN [id \in {} |-> 0] ELSE MapNode(map[p - 1], nodes, p)
  IN map[Len(nodes)]

(* read_hnsw_body *)
ReadHnswBody(header, body) ==
  LET c == body[1]
      Loaded(nodes) ==
        [metric |-> MetricOf(header), dim |-> header.dim, m |-> c.m,
         nodes |-> nodes, id_to_pos |-> NodePositions(nodes),
         entry_point |-> IF c.entry = NO_ENTRY THEN 0 ELSE c.entry + 1,
         max_layer |-> c.max_layer, live_count |-> c.live_count]
      Good(raw) ==
        /\ \A p \in DOMAIN raw : NodeOk(raw[p], c.node_count)
        /\ LiveCountAgrees(raw, c.live_count)
  IN IF body = << >> \/ ~ CountersOk(c) THEN {}
     ELSE {Loaded([p \in DOMAIN raw |-> ArenaNode(raw[p])]) :
             raw \in {r \in Take(body, c.node_count) : Good(r)}}

(* read_any *)
ReadAny(file) ==
  IF file = << >> \/ ~ HeaderOk(file[1]) THEN {}
  ELSE IF file[1].index_type = TYPE_FLAT THEN ReadFlatBody(file[1], Tail(file))
  ELSE ReadHnswBody(file[1], Tail(file))

(* Every way to cut a file short. *)
Cuts(file) == {SubSeq(file, 1, n) : n \in 0 .. Len(file) - 1}

=============================================================================
