-------------------------- MODULE HnswReloadProofs --------------------------
(***************************************************************************)
(* Theorems of HnswReload: an index is what it was after any number of     *)
(* processes saved it and loaded it, for any nodes, levels and payloads.   *)
(***************************************************************************)
EXTENDS HnswReload, HnswIndexProofs, SnapshotFormatProofs

-----------------------------------------------------------------------------
(* What is in the file. *)

Header == WriteHeader(TYPE_HNSW, Metric, Dim)

Counters == [m |-> M, entry |-> RawPosition(entry_point), max_layer |-> max_layer,
             live_count |-> live_count, node_count |-> Len(nodes)]

Raw == [p \in DOMAIN nodes |-> RawNode(nodes[p])]

RawNodes == {RawNode(nodes[p]) : p \in Positions}

HnswFile(raw) == File(Header, Counters, raw)

(* There is one file, or there is none. *)
LEMMA HnswFiles ==
  WriteHnsw(Index) =
    IF \A p \in DOMAIN nodes : nodes[p].payload \notin Unserialisable
    THEN {HnswFile(Raw)} ELSE {}
<1>1. PutAll(nodes) = IF \A p \in DOMAIN nodes : nodes[p].payload \notin Unserialisable
                      THEN {nodes} ELSE {}
  BY DEF PutAll, PutPayload
<1>2. /\ Index.metric = Metric /\ Index.dim = Dim /\ Index.nodes = nodes /\ Index.m = M
      /\ Index.entry_point = entry_point /\ Index.max_layer = max_layer
      /\ Index.live_count = live_count
  BY DEF Index
<1>3. WriteHnsw(Index) = {HnswFile(Raw) : s \in PutAll(nodes)}
  <2>1. WriteHnsw(Index) = {<<Header, Counters>> \o [p \in DOMAIN s |-> RawNode(s[p])] : s \in PutAll(nodes)}
    BY <1>2 DEF WriteHnsw, Header, Counters
  <2>2. \A s \in PutAll(nodes) : s = nodes
    BY <1>1
  <2>3. \A s \in PutAll(nodes) : <<Header, Counters>> \o [p \in DOMAIN s |-> RawNode(s[p])] = HnswFile(Raw)
    BY <2>2 DEF HnswFile, File, Raw
  <2> QED
    BY <2>1, <2>3
<1> QED
  BY <1>1, <1>3

RawLists(lists) == [l \in DOMAIN lists |-> [i \in DOMAIN lists[l] |-> lists[l][i] - 1]]

(* A node is written and read again. *)
LEMMA RawNodeFacts ==
  ASSUME NEW node \in Node
  PROVE  LET raw == RawNode(node) IN
         /\ raw.neighbors = RawLists(node.neighbors)
         /\ raw.deleted = node.deleted /\ raw.id = node.id /\ raw.payload = node.payload
         /\ ArenaNode(raw) = node
<1> DEFINE raw == RawNode(node)
           lists == node.neighbors
<1>1. lists \in Seq(Seq(Nat))
  BY DEF Node
<1>2. raw = [node EXCEPT !.neighbors = RawLists(lists)]
  BY DEF RawNode, RawLists
<1>3. raw = [id |-> node.id, vector |-> node.vector, payload |-> node.payload,
             deleted |-> node.deleted, neighbors |-> RawLists(lists)]
  BY <1>2 DEF Node
<1> HIDE DEF raw
<1>4. ArenaNode(raw) = [raw EXCEPT !.neighbors =
                          [l \in DOMAIN RawLists(lists) |->
                             [i \in DOMAIN RawLists(lists)[l] |-> RawLists(lists)[l][i] + 1]]]
  BY <1>3 DEF ArenaNode
<1>5. [l \in DOMAIN RawLists(lists) |->
         [i \in DOMAIN RawLists(lists)[l] |-> RawLists(lists)[l][i] + 1]] = lists
  <2>1. ASSUME NEW l \in DOMAIN lists
        PROVE  [i \in DOMAIN RawLists(lists)[l] |-> RawLists(lists)[l][i] + 1] = lists[l]
    <3>1. lists[l] \in Seq(Nat)
      BY <1>1
    <3>2. RawLists(lists)[l] = [i \in DOMAIN lists[l] |-> lists[l][i] - 1]
      BY DEF RawLists
    <3> DEFINE list == lists[l]
    <3> HIDE DEF list
    <3>3. \A i \in DOMAIN list : list[i] \in Nat /\ (list[i] - 1) + 1 = list[i]
      BY <3>1 DEF list
    <3>4. list = [i \in DOMAIN list |-> list[i]]
      BY <3>1 DEF list
    <3>5. [i \in DOMAIN list |-> [j \in DOMAIN list |-> list[j] - 1][i] + 1] = list
      BY <3>3, <3>4
    <3> QED
      BY <3>2, <3>5 DEF list
  <2>2. DOMAIN RawLists(lists) = DOMAIN lists
    BY DEF RawLists
  <2>3. lists = [l \in DOMAIN lists |-> lists[l]]
    BY <1>1
  <2> HIDE DEF lists
  <2> QED
    BY <2>1, <2>2, <2>3
<1>6. ArenaNode(raw) = [id |-> node.id, vector |-> node.vector, payload |-> node.payload,
                        deleted |-> node.deleted, neighbors |-> lists]
  BY <1>3, <1>4, <1>5
<1>7. node = [id |-> node.id, vector |-> node.vector, payload |-> node.payload,
              deleted |-> node.deleted, neighbors |-> lists]
  BY DEF Node
<1> QED
  BY <1>3, <1>6, <1>7 DEF raw

(* As many sections as nodes; the arena is read back. *)
LEMMA RawFacts ==
  ASSUME HInv
  PROVE  /\ Len(nodes) \in Nat /\ DOMAIN nodes = Positions /\ nodes \in Seq(Node)
         /\ Raw \in Seq(RawNodes) /\ Len(Raw) = Len(nodes) /\ DOMAIN Raw = Positions
         /\ \A p \in Positions : nodes[p] \in Node /\ Raw[p] = RawNode(nodes[p])
         /\ ArenaOf(Raw) = nodes
<1> DEFINE n == Len(nodes)
<1>1. n \in Nat /\ DOMAIN nodes = 1 .. n /\ nodes \in Seq(Node)
      /\ \A p \in 1 .. n : nodes[p] \in Node
  BY NodeFacts DEF HInv, LinkedUpTo
<1> HIDE DEF n
<1>2. Raw = [p \in 1 .. n |-> RawNode(nodes[p])]
  BY <1>1 DEF Raw
<1>3. Raw \in [1 .. n -> RawNodes]
  BY <1>2 DEF RawNodes, Positions, n
<1>4. Raw \in Seq(RawNodes) /\ Len(Raw) = n /\ DOMAIN Raw = 1 .. n
  BY <1>1, <1>3
<1>5. \A p \in 1 .. n : Raw[p] = RawNode(nodes[p])
  BY <1>2
<1>6. \A p \in 1 .. n : ArenaNode(Raw[p]) = nodes[p]
  BY <1>1, <1>5, RawNodeFacts
<1>7. ArenaOf(Raw) = nodes
  <2>1. nodes = [p \in 1 .. n |-> nodes[p]]
    BY <1>1
  <2> QED
    BY <1>4, <1>6, <2>1 DEF ArenaOf
<1> QED
  BY <1>1, <1>4, <1>5, <1>7 DEF Positions, n

(* The reader's limits are kept, and no entry is taken for a missing one. *)
LEMMA CountersFacts ==
  ASSUME HInv
  PROVE  /\ CountersOk(Counters) /\ Counters.node_count = Len(nodes)
         /\ Counters.live_count = live_count
         /\ HnswLoaded(Metric, Dim, Counters, nodes) =
              [Index EXCEPT !.id_to_pos = NodePositions(nodes)]
<1> DEFINE n == Len(nodes)
           e == RawPosition(entry_point)
           c == Counters
<1>1. n \in Nat /\ n <= MaxNodes
  BY NodeFacts DEF HInv
<1>2. entry_point \in 1 .. n \cup {0} /\ max_layer \in Levels \cup {0}
  BY DEF HInv, EntryInv, Positions
<1>3. M \in 1 .. MaxM /\ max_layer < MAX_LAYERS
  <2>1. M \in Nat /\ M # 0 /\ M <= MaxM /\ MaxM \in Nat
    <3>1. M \in Nat /\ M # 0
      BY HnswAssumption
    <3>2. M <= MaxM
      BY ReloadAssumption
    <3>3. MaxM \in Nat
      BY DEF MaxM
    <3> QED
      BY <3>1, <3>2, <3>3
  <2>2. max_layer \in 0 .. 63
    <3>1. Levels \subseteq 0 .. 63
      BY ReloadAssumption DEF MAX_LAYERS
    <3>2. 0 \in 0 .. 63
      OBVIOUS
    <3> QED
      BY <1>2, <3>1, <3>2
  <2>3. M \in 1 .. MaxM
    BY <2>1
  <2>4. max_layer < MAX_LAYERS
    BY <2>2 DEF MAX_LAYERS
  <2> QED
    BY <2>3, <2>4
<1>4. /\ c.m = M /\ c.entry = e /\ c.max_layer = max_layer /\ c.live_count = live_count
      /\ c.node_count = n
  BY DEF Counters
<1>5. /\ e = NO_ENTRY \/ e < n
      /\ (IF e = NO_ENTRY THEN 0 ELSE e + 1) = entry_point
  <2>1. MaxNodes \in Nat /\ MaxNodes <= NO_ENTRY
    BY HnswAssumption, ReloadAssumption
  <2>2. NO_ENTRY \in Nat
    BY DEF NO_ENTRY
  <2> HIDE DEF n
  <2> QED
    BY <1>1, <1>2, <2>1, <2>2 DEF RawPosition
<1> HIDE DEF c, e, n
<1>6. CountersOk(c)
  BY <1>3, <1>4, <1>5 DEF CountersOk
<1>7. HnswLoaded(Metric, Dim, c, nodes) =
        [metric |-> Metric, dim |-> Dim, m |-> M, nodes |-> nodes,
         id_to_pos |-> NodePositions(nodes), entry_point |-> entry_point,
         max_layer |-> max_layer, live_count |-> live_count]
  BY <1>4, <1>5 DEF HnswLoaded
<1>8. [Index EXCEPT !.id_to_pos = NodePositions(nodes)] =
        [metric |-> Metric, dim |-> Dim, m |-> M, nodes |-> nodes,
         id_to_pos |-> NodePositions(nodes), entry_point |-> entry_point,
         max_layer |-> max_layer, live_count |-> live_count]
  BY DEF Index
<1> QED
  BY <1>4, <1>6, <1>7, <1>8 DEF c, n

(* The reader refuses no node that the index has. *)
LEMMA RawNodeOk ==
  ASSUME HInv, NEW p \in Positions
  PROVE  NodeOk(RawNode(nodes[p]), Len(nodes))
<1> DEFINE n == Len(nodes)
           lists == nodes[p].neighbors
           raw == RawNode(nodes[p])
<1>1. LinkedUpTo(nodes, n) /\ n \in Nat /\ nodes[p] \in Node
  BY RawFacts DEF HInv
<1>2. raw.neighbors = RawLists(lists) /\ raw.deleted = nodes[p].deleted
  BY <1>1, RawNodeFacts
<1>3. lists \in Seq(Seq(Nat)) /\ nodes[p].deleted \in BOOLEAN
  BY <1>1 DEF Node
<1>4. Level(nodes, p) \in Levels
  BY <1>1 DEF LinkedUpTo, Positions
<1>5. Len(lists) \in 1 .. MAX_LAYERS
  <2>1. Len(lists) - 1 \in 0 .. MAX_LAYERS - 1 /\ Len(lists) \in Nat
    BY <1>3, <1>4, ReloadAssumption DEF Level
  <2> QED
    BY <2>1 DEF MAX_LAYERS
<1>6. ASSUME NEW l \in DOMAIN lists
      PROVE  /\ lists[l] \in Seq(Nat) /\ Len(lists[l]) <= 2 * n
             /\ \A i \in DOMAIN lists[l] : lists[l][i] - 1 < n
  <2>1. l \in 1 .. Len(lists) /\ l - 1 \in 0 .. Level(nodes, p)
    BY <1>3 DEF Level
  <2>2. Nbrs(nodes, p, l - 1) = lists[l]
    BY <2>1 DEF Nbrs
  <2> DEFINE list == lists[l]
             S == OnLayer(nodes, l - 1, n) \ {p}
  <2>3. list \in Distinct(S)
    <3>1. Nbrs(nodes, p, l - 1) \in Distinct(S)
      BY <1>1, <2>1 DEF LinkedUpTo, Positions
    <3> QED
      BY <2>2, <3>1
  <2>4. S \in SUBSET (1 .. n)
    BY DEF OnLayer
  <2>5. list \in Seq(Nat)
    BY <1>3
  <2> HIDE DEF list, S
  <2>6. IsFiniteSet(1 .. n) /\ Cardinality(1 .. n) = n
    <3>1. IsFiniteSet(1 .. n) /\ Cardinality(1 .. n) = IF 1 > n THEN 0 ELSE n - 1 + 1
      BY <1>1, FS_Interval
    <3> QED
      BY <1>1, <3>1
  <2>7. IsFiniteSet(S) /\ Cardinality(S) \in Nat /\ Cardinality(S) <= n
    <3>1. IsFiniteSet(S) /\ Cardinality(S) <= Cardinality(1 .. n)
      BY <2>4, <2>6, FS_Subset
    <3> QED
      BY <2>6, <3>1, FS_CardinalityType
  <2>8. Len(list) \in Nat /\ Len(list) <= Cardinality(S)
    BY <2>3, <2>7, DistinctLen
  <2>9. \A i \in DOMAIN list : list[i] \in 1 .. n
    BY <2>3, <2>4, <2>5, DistinctFacts
  <2>10. Len(list) <= 2 * n /\ \A i \in DOMAIN list : list[i] - 1 < n
    BY <1>1, <2>7, <2>8, <2>9
  <2> QED
    BY <2>5, <2>10 DEF list
<1>7. DOMAIN RawLists(lists) = DOMAIN lists /\ Len(RawLists(lists)) = Len(lists)
  <2>1. DOMAIN lists = 1 .. Len(lists) /\ Len(lists) \in Nat
    BY <1>3
  <2> QED
    BY <2>1 DEF RawLists
<1>8. ASSUME NEW l \in DOMAIN lists
      PROVE  /\ Len(RawLists(lists)[l]) <= 2 * n
             /\ \A i \in DOMAIN RawLists(lists)[l] : RawLists(lists)[l][i] < n
  <2> DEFINE list == lists[l]
  <2>1. RawLists(lists)[l] = [i \in DOMAIN list |-> list[i] - 1]
    BY DEF RawLists
  <2>2. list \in Seq(Nat) /\ Len(list) <= 2 * n /\ \A i \in DOMAIN list : list[i] - 1 < n
    BY <1>6
  <2> HIDE DEF list
  <2>3. DOMAIN list = 1 .. Len(list) /\ Len(list) \in Nat
    BY <2>2
  <2>4. Len([i \in DOMAIN list |-> list[i] - 1]) = Len(list)
    BY <2>3
  <2> QED
    BY <2>1, <2>2, <2>4
<1> HIDE DEF raw, lists
<1> QED
  BY <1>2, <1>3, <1>5, <1>7, <1>8 DEF NodeOk, raw

LEMMA RawIsGood == HInv => RawGood(Counters, Raw)
<1> SUFFICES ASSUME HInv PROVE RawGood(Counters, Raw)
  OBVIOUS
<1>1. /\ DOMAIN Raw = Positions
      /\ \A p \in Positions : nodes[p] \in Node /\ Raw[p] = RawNode(nodes[p])
  BY RawFacts
<1>2. \A p \in Positions : Raw[p].deleted = nodes[p].deleted
  BY <1>1, RawNodeFacts
<1>3. Counters.node_count = Len(nodes) /\ Counters.live_count = live_count
  BY CountersFacts
<1>4. {p \in Positions : ~ Raw[p].deleted} = {p \in Positions : ~ nodes[p].deleted}
  BY <1>2
<1>5. live_count = Cardinality({p \in Positions : ~ nodes[p].deleted})
  BY DEF HInv, LiveNodesAgree
<1>6. LiveCountAgrees(Raw, live_count)
  BY <1>1, <1>4, <1>5 DEF LiveCountAgrees
<1>7. \A p \in Positions : NodeOk(Raw[p], Len(nodes))
  BY <1>1, RawNodeOk
<1> QED
  BY <1>1, <1>3, <1>6, <1>7 DEF RawGood

(* The index that the next process has. *)
Restored == [Index EXCEPT !.id_to_pos = NodePositions(nodes)]

LEMMA ReadsBack ==
  ASSUME HInv
  PROVE  /\ ReadAny(HnswFile(Raw)) = {Restored}
         /\ \A cut \in Cuts(HnswFile(Raw)) : ReadAny(cut) = {}
<1> DEFINE n == Len(Raw)
           file == HnswFile(Raw)
<1>1. Raw \in Seq(RawNodes) /\ n = Len(nodes) /\ ArenaOf(Raw) = nodes /\ n \in Nat
  BY RawFacts
<1>2. /\ CountersOk(Counters) /\ Counters.node_count = n
      /\ HnswLoaded(Metric, Dim, Counters, ArenaOf(Raw)) = Restored
  BY <1>1, CountersFacts DEF Restored
<1>3. RawGood(Counters, Raw)
  BY RawIsGood
<1>4. Metric \in Metrics /\ Dim \in 1 .. MaxDim
  BY ReloadAssumption
<1>5. file = File(WriteHeader(TYPE_HNSW, Metric, Dim), Counters, Raw)
  BY DEF HnswFile, Header
<1>6. SubSeq(file, 1, n + 2) = file /\ Len(file) = n + 2
  BY <1>1, <1>5, WholeFile, FileFacts
<1> HIDE DEF n, file
<1>7. ASSUME NEW m \in 0 .. n + 2
      PROVE  ReadAny(SubSeq(file, 1, m)) = IF m = n + 2 THEN {Restored} ELSE {}
  <2>1. ReadAny(SubSeq(file, 1, m)) =
          IF m = n + 2 /\ RawGood(Counters, Raw)
          THEN {HnswLoaded(Metric, Dim, Counters, ArenaOf(Raw))} ELSE {}
    BY <1>1, <1>2, <1>4, <1>5, HnswRead DEF n
  <2> QED
    BY <1>2, <1>3, <2>1
<1>8. ReadAny(file) = {Restored}
  <2>1. n + 2 \in 0 .. n + 2
    BY <1>1
  <2>2. ReadAny(SubSeq(file, 1, n + 2)) = {Restored}
    BY <1>7, <2>1
  <2> QED
    BY <1>6, <2>2
<1>9. \A cut \in Cuts(file) : ReadAny(cut) = {}
  <2> SUFFICES ASSUME NEW m \in 0 .. Len(file) - 1
               PROVE  ReadAny(SubSeq(file, 1, m)) = {}
    BY DEF Cuts
  <2>1. m \in 0 .. n + 2 /\ m # n + 2
    BY <1>1, <1>6
  <2> QED
    BY <1>7, <2>1
<1> QED
  BY <1>8, <1>9 DEF file

(* A tombstone more, or less, is noticed. *)
LEMMA FlipIsRefused ==
  ASSUME HInv, NEW i \in 3 .. Len(HnswFile(Raw))
  PROVE  ReadAny([HnswFile(Raw) EXCEPT ![i].deleted = ~ @]) = {}
<1> DEFINE n == Len(Raw)
           file == HnswFile(Raw)
           p == i - 2
           e == [file[i] EXCEPT !.deleted = ~ @]
           S == RawNodes \cup {e}
           raw == [Raw EXCEPT ![p] = e]
           live == {x \in 1 .. n : ~ nodes[x].deleted}
<1>1. /\ Raw \in Seq(RawNodes) /\ n = Len(nodes) /\ n \in Nat /\ Positions = 1 .. n
      /\ \A x \in 1 .. n : nodes[x] \in Node /\ Raw[x] = RawNode(nodes[x])
  BY RawFacts
<1>2. file = File(Header, Counters, Raw)
  BY DEF HnswFile
<1>3. Len(file) = n + 2 /\ \A x \in 1 .. n : file[x + 2] = Raw[x]
  BY <1>1, <1>2, FileFacts
<1>4. p \in 1 .. n /\ i = p + 2 /\ file[i] = Raw[p]
  <2> HIDE DEF file, n
  <2>1. p \in 1 .. n /\ i = p + 2
    BY <1>1, <1>3 DEF file
  <2> QED
    BY <1>3, <2>1
<1>5. \A x \in 1 .. n : Raw[x].deleted = nodes[x].deleted /\ nodes[x].deleted \in BOOLEAN
  BY <1>1, RawNodeFacts DEF Node
<1>6. e.deleted = ~ nodes[p].deleted
  <2>1. Raw[p] = [nodes[p] EXCEPT !.neighbors = RawLists(@)]
    BY <1>1, <1>4 DEF RawNode, RawLists
  <2>2. Raw[p] = [id |-> nodes[p].id, vector |-> nodes[p].vector, payload |-> nodes[p].payload,
                  deleted |-> nodes[p].deleted, neighbors |-> RawLists(nodes[p].neighbors)]
    BY <1>1, <1>4, <2>1 DEF Node
  <2>3. [Raw[p] EXCEPT !.deleted = ~ @].deleted = ~ nodes[p].deleted
    BY <2>2
  <2> QED
    BY <1>4, <2>3
<1> HIDE DEF e, p
<1>7. [file EXCEPT ![i].deleted = ~ @] = [file EXCEPT ![i] = e]
  BY DEF e
<1> HIDE DEF file
<1>8. Raw \in Seq(S) /\ e \in S
  BY <1>1
<1> HIDE DEF S
<1>9. [file EXCEPT ![i] = e] = File(Header, Counters, raw)
  BY <1>2, <1>4, <1>8, FileExcept
<1>10. raw \in Seq(S) /\ Len(raw) = n /\ DOMAIN raw = 1 .. n
       /\ \A x \in 1 .. n : raw[x] = IF x = p THEN e ELSE Raw[x]
  BY <1>4, <1>8
<1> HIDE DEF raw, n
<1>11. /\ CountersOk(Counters) /\ Counters.node_count = n /\ Counters.live_count = live_count
  BY <1>1, CountersFacts
<1>12. live_count = Cardinality(live)
  BY <1>1 DEF HInv, LiveNodesAgree
<1>13. {x \in DOMAIN raw : ~ raw[x].deleted} = IF p \in live THEN live \ {p} ELSE live \cup {p}
  <2>1. \A x \in 1 .. n : raw[x].deleted = IF x = p THEN ~ nodes[x].deleted ELSE nodes[x].deleted
    BY <1>5, <1>6, <1>10
  <2>2. \A x \in 1 .. n : x \in live <=> ~ nodes[x].deleted
    OBVIOUS
  <2> DEFINE found == {x \in DOMAIN raw : ~ raw[x].deleted}
             other == IF p \in live THEN live \ {p} ELSE live \cup {p}
  <2>3. \A x : x \in found <=> x \in 1 .. n /\ ~ raw[x].deleted
    BY <1>10
  <2>4. \A x : x \in other <=> x \in 1 .. n /\ ~ raw[x].deleted
    BY <1>4, <1>5, <2>1, <2>2
  <2> HIDE DEF found, other
  <2>5. found = other
    BY <2>3, <2>4
  <2> QED
    BY <2>5 DEF found, other
<1>14. live \in SUBSET (1 .. n)
  OBVIOUS
<1> HIDE DEF live
<1>15. IsFiniteSet(live) /\ Cardinality(live) \in Nat
  <2>1. IsFiniteSet(1 .. n)
    BY <1>1, FS_Interval
  <2> QED
    BY <1>14, <2>1, FS_Subset, FS_CardinalityType
<1>16. Cardinality({x \in DOMAIN raw : ~ raw[x].deleted}) # live_count
  <2>1. CASE p \in live
    <3>1. Cardinality(live \ {p}) = Cardinality(live) - 1
      BY <1>15, <2>1, FS_RemoveElement
    <3>2. Cardinality({x \in DOMAIN raw : ~ raw[x].deleted}) = Cardinality(live) - 1
      BY <1>13, <2>1, <3>1
    <3> QED
      BY <1>12, <1>15, <3>2
  <2>2. CASE p \notin live
    <3>1. Cardinality(live \cup {p}) = Cardinality(live) + 1
      BY <1>15, <2>2, FS_AddElement
    <3>2. Cardinality({x \in DOMAIN raw : ~ raw[x].deleted}) = Cardinality(live) + 1
      BY <1>13, <2>2, <3>1
    <3> QED
      BY <1>12, <1>15, <3>2
  <2> QED
    BY <2>1, <2>2
<1>17. ~ RawGood(Counters, raw)
  BY <1>11, <1>16 DEF RawGood, LiveCountAgrees
<1>18. Metric \in Metrics /\ Dim \in 1 .. MaxDim
  BY ReloadAssumption
<1>19. SubSeq(File(Header, Counters, raw), 1, n + 2) = File(Header, Counters, raw)
  BY <1>10, WholeFile
<1>20. ReadAny(SubSeq(File(Header, Counters, raw), 1, n + 2)) = {}
  <2>1. n + 2 \in 0 .. Len(raw) + 2 /\ Counters.node_count = Len(raw)
    BY <1>1, <1>10, <1>11
  <2>2. ReadAny(SubSeq(File(WriteHeader(TYPE_HNSW, Metric, Dim), Counters, raw), 1, n + 2)) =
          IF n + 2 = Len(raw) + 2 /\ RawGood(Counters, raw)
          THEN {HnswLoaded(Metric, Dim, Counters, ArenaOf(raw))} ELSE {}
    BY <1>10, <1>11, <1>18, <2>1, HnswRead
  <2> QED
    BY <1>17, <2>2 DEF Header
<1> QED
  BY <1>7, <1>9, <1>19, <1>20 DEF file

-----------------------------------------------------------------------------
(* What no process changes, though the map is built again: the invariant of *)
(* HnswIndex, and that the map knows the ids of all nodes, tombstones       *)
(* included, which is what it has after it was built again.                 *)

IdsInv == \A p \in Positions : nodes[p].id \in DOMAIN id_to_pos

RInv == HInv /\ SmallInv /\ IdsInv

LEMMA RestoredIds ==
  ASSUME HInv, IdsInv
  PROVE  /\ MapsNodes(nodes, NodePositions(nodes), Len(nodes))
         /\ DOMAIN NodePositions(nodes) = DOMAIN id_to_pos
         /\ SameIds(NodePositions(nodes))
<1> DEFINE n == Len(nodes)
           map == NodePositions(nodes)
<1>1. /\ n \in Nat /\ nodes \in Seq(Node) /\ DOMAIN nodes = 1 .. n /\ Positions = 1 .. n
      /\ \A p \in 1 .. n : nodes[p].deleted \in BOOLEAN
  <2>1. /\ n \in Nat /\ nodes \in Seq(Node) /\ DOMAIN nodes = 1 .. n
        /\ \A p \in Positions : nodes[p] \in Node
    BY RawFacts DEF Positions
  <2>2. Positions = 1 .. n
    BY DEF Positions
  <2>3. \A p \in 1 .. n : nodes[p].deleted \in BOOLEAN
    BY <2>1, <2>2 DEF Node
  <2> QED
    BY <2>1, <2>2, <2>3
<1>2. \A p \in 1 .. n : ~ nodes[p].deleted => /\ nodes[p].id \in DOMAIN id_to_pos
                                              /\ id_to_pos[nodes[p].id] = p
  BY <1>1 DEF HInv, LiveNodesAgree
<1>3. \A id \in DOMAIN id_to_pos : id_to_pos[id] \in 1 .. n /\ nodes[id_to_pos[id]].id = id
  BY <1>1 DEF HInv, MapInv
<1>4. OneLive(nodes)
  BY <1>1, <1>2 DEF OneLive
<1>5. MapsNodes(nodes, map, n)
  BY <1>1, <1>4, NodePositionsAre
<1> HIDE DEF map
<1>6. /\ DOMAIN map = {nodes[j].id : j \in 1 .. n}
      /\ \A id \in DOMAIN map : map[id] \in 1 .. n /\ nodes[map[id]].id = id
      /\ \A j \in 1 .. n : ~ nodes[j].deleted => map[nodes[j].id] = j
  BY <1>5 DEF MapsNodes
<1>7. DOMAIN map = DOMAIN id_to_pos
  <2>1. \A id \in DOMAIN map : id \in DOMAIN id_to_pos
    BY <1>1, <1>6 DEF IdsInv
  <2>2. \A id \in DOMAIN id_to_pos : id \in DOMAIN map
    BY <1>3, <1>6
  <2> QED
    BY <2>1, <2>2
<1>8. ASSUME NEW id \in DOMAIN map, Live(id)
      PROVE  map[id] = id_to_pos[id]
  BY <1>3, <1>6, <1>7, <1>8 DEF Live
<1>9. ASSUME NEW id \in DOMAIN map, ~ Live(id)
      PROVE  map[id] \in 1 .. n /\ nodes[map[id]].id = id /\ nodes[map[id]].deleted
  <2>1. map[id] \in 1 .. n /\ nodes[map[id]].id = id
    BY <1>6
  <2>2. nodes[map[id]].deleted
    <3> SUFFICES ASSUME ~ nodes[map[id]].deleted PROVE FALSE
      OBVIOUS
    <3>1. id \in DOMAIN id_to_pos /\ id_to_pos[id] = map[id]
      BY <1>2, <2>1
    <3> QED
      BY <1>9, <3>1 DEF Live
  <2> QED
    BY <2>1, <2>2
<1>10. SameIds(map)
  BY <1>1, <1>7, <1>8, <1>9 DEF SameIds
<1> QED
  BY <1>5, <1>7, <1>10 DEF map, n

(* All that a new process changes is the map. *)
LEMMA ReloadChanges ==
  ASSUME HInv, Reload
  PROVE  /\ nodes' = nodes /\ entry_point' = entry_point /\ max_layer' = max_layer
         /\ live_count' = live_count /\ id_to_pos' = NodePositions(nodes)
<1>0. PICK file \in WriteHnsw(Index) : \E index \in ReadAny(file) :
        /\ nodes' = index.nodes /\ id_to_pos' = index.id_to_pos
        /\ entry_point' = index.entry_point /\ max_layer' = index.max_layer
        /\ live_count' = index.live_count
  BY DEF Reload
<1>1. PICK index \in ReadAny(file) :
        /\ nodes' = index.nodes /\ id_to_pos' = index.id_to_pos
        /\ entry_point' = index.entry_point /\ max_layer' = index.max_layer
        /\ live_count' = index.live_count
  BY <1>0
<1>2. file = HnswFile(Raw)
  BY HnswFiles
<1>3. index = Restored
  BY <1>2, ReadsBack
<1>4. /\ Restored.nodes = nodes /\ Restored.id_to_pos = NodePositions(nodes)
      /\ Restored.entry_point = entry_point /\ Restored.max_layer = max_layer
      /\ Restored.live_count = live_count
  BY DEF Restored, Index
<1> QED
  BY <1>1, <1>3, <1>4

LEMMA InitRInv == Init => RInv
<1>1. Init => IdsInv
  BY DEF Init, IdsInv, Positions
<1> QED
  BY <1>1, InitHInv, InitSmallInv DEF RInv

(* An id that is taken is never given back. *)
LEMMA NextIds == HInv /\ IdsInv /\ [Next]_vars => IdsInv'
<1> SUFFICES ASSUME HInv, IdsInv, [Next]_vars PROVE IdsInv'
  OBVIOUS
<1> DEFINE n == Len(nodes)
<1>1. ASSUME NEW id \in Ids, NEW v \in Vectors, NEW pl \in Payloads, NEW l \in Levels,
             Add(id, v, pl, l)
      PROVE  IdsInv'
  <2>1. /\ n \in Nat /\ Len(nodes') = n + 1 /\ nodes'[n + 1].id = id
        /\ \A p \in 1 .. n : nodes'[p].id = nodes[p].id
    BY <1>1, AddNodes
  <2>2. DOMAIN id_to_pos' = DOMAIN id_to_pos \cup {id}
    BY <1>1 DEF Add, TakeOver
  <2>3. \A p \in 1 .. n + 1 : nodes'[p].id \in DOMAIN id_to_pos'
    BY <2>1, <2>2 DEF IdsInv, Positions
  <2> QED
    BY <2>1, <2>3 DEF IdsInv, Positions
<1>2. ASSUME NEW id \in Ids, Remove(id)
      PROVE  IdsInv'
  <2>1. Buried(id, n, id_to_pos[id])
    BY <1>2, RemoveNodes
  <2>2. Len(nodes') = n /\ \A p \in 1 .. n : nodes'[p].id = nodes[p].id
    BY <2>1 DEF Buried
  <2>3. id_to_pos' = id_to_pos
    BY <1>2 DEF Remove
  <2> QED
    BY <2>2, <2>3 DEF IdsInv, Positions
<1>3. CASE UNCHANGED vars
  BY <1>3 DEF vars, IdsInv, Positions
<1> QED
  BY <1>1, <1>2, <1>3 DEF Next

LEMMA ReloadKeeps == RInv /\ Reload => RInv'
<1> SUFFICES ASSUME RInv, Reload PROVE RInv'
  OBVIOUS
<1>1. HInv /\ SmallInv /\ IdsInv
  BY DEF RInv
<1>2. /\ nodes' = nodes /\ entry_point' = entry_point /\ max_layer' = max_layer
      /\ live_count' = live_count /\ id_to_pos' = NodePositions(nodes)
  BY <1>1, ReloadChanges
<1>3. /\ MapsNodes(nodes, id_to_pos', Len(nodes)) /\ DOMAIN id_to_pos' = DOMAIN id_to_pos
  BY <1>1, <1>2, RestoredIds
<1>4. LinkedUpTo(nodes', Len(nodes')) /\ Len(nodes') <= MaxNodes
  BY <1>1, <1>2 DEF HInv
<1>5. EntryInv'
  BY <1>1, <1>2 DEF HInv, EntryInv, EntryIsHighest, Positions
<1>6. MapInv'
  BY <1>1, <1>2, <1>3 DEF HInv, MapInv, MapsNodes, Positions
<1>7. LiveNodesAgree'
  BY <1>1, <1>2, <1>3 DEF HInv, LiveNodesAgree, MapsNodes, Positions
<1>8. SmallInv'
  BY <1>1, <1>2 DEF SmallInv
<1>9. IdsInv'
  BY <1>1, <1>2, <1>3 DEF IdsInv, Positions
<1> QED
  BY <1>4, <1>5, <1>6, <1>7, <1>8, <1>9 DEF RInv, HInv

LEMMA RInvHolds == ReloadSpec => []RInv
<1>1. RInv /\ [Next \/ Reload]_vars => RInv'
  <2>1. RInv /\ [Next]_vars => RInv'
    BY NextHInv, NextSmallInv, NextIds DEF RInv
  <2> QED
    BY <2>1, ReloadKeeps
<1> QED
  BY <1>1, InitRInv, PTL DEF ReloadSpec

(***************************************************************************)
(* persist.rs: an index with payloads that can be written comes back from  *)
(* its snapshot as it was, in this process and in any later one; removed   *)
(* ids may stand for other tombstones, and no live id for another node.    *)
(***************************************************************************)
THEOREM HnswReloads == ReloadSpec => []HnswSurvivesReload
<1>1. RInv => HnswSurvivesReload
  <2> SUFFICES ASSUME RInv PROVE HnswSurvivesReload
    OBVIOUS
  <2>1. HInv /\ IdsInv
    BY DEF RInv
  <2>2. DOMAIN nodes = Positions
    BY <2>1, RawFacts
  <2>3. WriteHnsw(Index) = {} <=> \E p \in Positions : nodes[p].payload \in Unserialisable
    BY <2>2, HnswFiles
  <2>4. \A file \in WriteHnsw(Index) : ReadAny(file) = {Restored}
    BY <2>1, HnswFiles, ReadsBack
  <2>5. /\ Restored.id_to_pos = NodePositions(nodes)
        /\ Restored = [Index EXCEPT !.id_to_pos = Restored.id_to_pos]
    BY DEF Restored, Index
  <2>6. SameIds(Restored.id_to_pos)
    BY <2>1, <2>5, RestoredIds
  <2> QED
    BY <2>3, <2>4, <2>5, <2>6 DEF HnswSurvivesReload
<1> QED
  BY <1>1, RInvHolds, PTL

(***************************************************************************)
(* persist.rs:34-36, at any cut, and for any node whose flag is flipped.   *)
(***************************************************************************)
THEOREM HnswDamageIsNoticed == ReloadSpec => []DamagedHnswIsRefused
<1>1. RInv => DamagedHnswIsRefused
  <2> SUFFICES ASSUME RInv PROVE DamagedHnswIsRefused
    OBVIOUS
  <2>1. HInv
    BY DEF RInv
  <2>2. \A file \in WriteHnsw(Index) : file = HnswFile(Raw)
    BY HnswFiles
  <2>3. \A cut \in Cuts(HnswFile(Raw)) : ReadAny(cut) = {}
    BY <2>1, ReadsBack
  <2>4. \A i \in 3 .. Len(HnswFile(Raw)) :
          ReadAny([HnswFile(Raw) EXCEPT ![i].deleted = ~ @]) = {}
    BY <2>1, FlipIsRefused
  <2> QED
    BY <2>2, <2>3, <2>4 DEF DamagedHnswIsRefused
<1> QED
  BY <1>1, RInvHolds, PTL

(***************************************************************************)
(* No property of the graph is lost when processes end and the next ones   *)
(* go on with what was saved: links, entry point, live nodes and searches  *)
(* stay as sound as those of an index that was never saved.                *)
(***************************************************************************)
THEOREM HnswOutlivesProcesses ==
  ReloadSpec =>
    [](/\ TypeOK /\ EdgesStayInLayer /\ EntryIsHighest /\ LiveNodesAgree
       /\ SearchIsSound /\ SmallIndexIsExact /\ FiltersWidenTheSearch /\ TraceTellsTheSearch)
<1>1. RInv => HInv /\ SmallInv
  BY DEF RInv
<1>2. HInv => EntryIsHighest /\ LiveNodesAgree
  BY DEF HInv, EntryInv
<1>3. RInv => /\ TypeOK /\ EdgesStayInLayer /\ EntryIsHighest /\ LiveNodesAgree
              /\ SearchIsSound /\ SmallIndexIsExact /\ FiltersWidenTheSearch
              /\ TraceTellsTheSearch
  BY <1>1, <1>2, TypedArena, SoundLinks, SoundSearches, ExactSmallSearches, WideSearches,
     TellingTraces
<1> QED
  BY <1>3, RInvHolds, PTL

(* A new process stores what the last one did. *)
LEMMA ReloadMap == RInv /\ Reload => StoredAt' = StoredAt
<1> SUFFICES ASSUME RInv, Reload PROVE StoredAt' = StoredAt
  OBVIOUS
<1>1. HInv /\ IdsInv
  BY DEF RInv
<1>2. nodes' = nodes /\ id_to_pos' = NodePositions(nodes)
  BY <1>1, ReloadChanges
<1> DEFINE map == NodePositions(nodes)
<1>3. SameIds(map)
  BY <1>1, RestoredIds
<1> HIDE DEF map
<1>4. DOMAIN map = DOMAIN id_to_pos
  BY <1>3 DEF SameIds
<1>5. \A id \in DOMAIN id_to_pos :
        /\ ~ nodes[id_to_pos[id]].deleted => map[id] = id_to_pos[id]
        /\ nodes[id_to_pos[id]].deleted => nodes[map[id]].deleted
  BY <1>3, <1>4 DEF SameIds, Live
<1> DEFINE ids == {x \in DOMAIN id_to_pos : Live(x)}
           ids2 == {x \in DOMAIN map : x \in DOMAIN map /\ ~ nodes[map[x]].deleted}
<1>6. ids2 = ids
  BY <1>4, <1>5 DEF Live
<1>7. \A id \in ids : map[id] = id_to_pos[id]
  BY <1>5 DEF Live
<1>8. StoredAt' = [id \in ids2 |-> [vector |-> nodes[map[id]].vector,
                                    payload |-> nodes[map[id]].payload]]
  BY <1>2 DEF StoredAt, Live, map
<1>9. StoredAt = [id \in ids |-> [vector |-> nodes[id_to_pos[id]].vector,
                                  payload |-> nodes[id_to_pos[id]].payload]]
  BY DEF StoredAt
<1> HIDE DEF ids, ids2
<1> QED
  BY <1>6, <1>7, <1>8, <1>9

(***************************************************************************)
(* Clients of vector() and payload() see the map from ids to vectors and   *)
(* payloads go on from process to process.                                 *)
(***************************************************************************)
THEOREM ReloadsImplementMap == ReloadSpec => ImplementsMap
<1>1. RInv /\ [Next \/ Reload]_vars => [Points!MapNext]_StoredAt
  <2>1. RInv => HInv
    BY DEF RInv
  <2> QED
    BY <2>1, NextMap, ReloadMap
<1> QED
  BY <1>1, InitMap, RInvHolds, PTL DEF ReloadSpec, ImplementsMap, Points!MapSpec, StoredAt

=============================================================================
