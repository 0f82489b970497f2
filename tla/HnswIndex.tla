----------------------------- MODULE HnswIndex -----------------------------
(***************************************************************************)
(* HnswIndex (crates/vex-core/src/hnsw.rs): insertion into the layered     *)
(* graph, deletion by tombstone, search.  The level of a new node, which   *)
(* sample_level draws from a random generator, is any of Levels.           *)
(***************************************************************************)
EXTENDS HnswSearch

CONSTANTS
  Ids,             \* vector ids
  Vectors,         \* vectors of the index's dimension
  Payloads,        \* payloads, the absent one included
  Filters,         \* payload filters, the absent one included
  Matches(_, _),   \* Filter::matches(filter, payload)
  M,               \* config.m
  EfConstruction,  \* config.ef_construction
  Levels,          \* the levels sample_level may draw
  MaxNodes         \* bound on the arena

ASSUME HnswAssumption ==
  /\ M \in Nat \ {0, 1} /\ EfConstruction \in Nat \ {0}
  /\ Levels \subseteq Nat /\ MaxNodes \in Nat
  /\ \A v, w \in Vectors : Dist(v, w) \in Nat

VARIABLES
  nodes,        \* the arena
  id_to_pos,    \* id |-> position of the node that last took it
  entry_point,  \* position of the entry node, 0 for none
  max_layer,
  live_count

vars == <<nodes, id_to_pos, entry_point, max_layer, live_count>>

Positions == 1 .. Len(nodes)

(* Every position points into the arena, every level is one that was drawn,
   and there are never fewer than 0 live vectors, nor more than nodes. *)
TypeOK ==
  /\ Len(nodes) <= MaxNodes
  /\ \A p \in Positions :
       /\ nodes[p].id \in Ids /\ nodes[p].vector \in Vectors
       /\ nodes[p].payload \in Payloads /\ nodes[p].deleted \in BOOLEAN
       /\ Level(nodes, p) \in Levels
  /\ DOMAIN id_to_pos \subseteq Ids
  /\ \A id \in DOMAIN id_to_pos : id_to_pos[id] \in Positions
  /\ entry_point \in Positions \cup {0}
  /\ max_layer \in Levels \cup {0}
  /\ live_count \in 0 .. Len(nodes)

Init ==
  /\ nodes = << >>
  /\ id_to_pos = [id \in {} |-> 0]
  /\ entry_point = 0
  /\ max_layer = 0
  /\ live_count = 0

(* contains *)
Live(id) == id \in DOMAIN id_to_pos /\ ~ nodes[id_to_pos[id]].deleted

-----------------------------------------------------------------------------
(* add_with_payload *)

MMax(layer) == IF layer = 0 THEN M * 2 ELSE M

(* Mutant: an overfull list is not shrunk. *)
PushedUnbounded(arena, p, layer, new) == Append(Nbrs(arena, p, layer), new)

(* Mutant: the old node is not linked back to the new one. *)
NotPushed(arena, p, layer, new) == Nbrs(arena, p, layer)

(* The list of an old node with the new one in it, shrunk if too long. *)
Pushed(arena, p, layer, new) ==
  LET list == Append(Nbrs(arena, p, layer), new)
  IN IF Len(list) > MMax(layer) THEN ShrinkNeighbors(arena, p, list, MMax(layer)) ELSE list

(***************************************************************************)
(* Phase 1, and the searches of phase 2: each layer the new node lives on  *)
(* is searched, from low down, starting from the best candidate found on   *)
(* the one above.  The search of a layer comes before the changes to its   *)
(* lists and reads no others.                                              *)
(***************************************************************************)
Found(arena, l, low) ==
  LET q == arena[Len(arena)].vector
      ep == Descend(arena, q, StartWalk(Cand(arena, q, entry_point)), max_layer, l + 1).at
      found[i \in 0 .. low + 1] ==
        IF i = 0 THEN <<ep>>
        ELSE SearchLayer(arena, q, found[i - 1][1], EfConstruction, low + 1 - i, DOMAIN arena)
  IN [layer \in 0 .. low |-> found[low + 1 - layer]]

(* The list of p on a layer where the new node chose its neighbors. *)
Relinked(arena, p, layer, chosen) ==
  LET new == Len(arena)
  IN IF p = new THEN chosen
     ELSE IF \E i \in 1 .. Len(chosen) : chosen[i] = p THEN Pushed(arena, p, layer, new)
     ELSE Nbrs(arena, p, layer)

(* The arena with the last node, of level l, linked both ways. *)
Linked(arena, l) ==
  LET low == IF l < max_layer THEN l ELSE max_layer
      cands == Found(arena, l, low)
      chosen == [layer \in 0 .. low |-> SelectNeighbors(arena, cands[layer], M)]
      NewLists(p) ==
        [i \in 1 .. Level(arena, p) + 1 |->
           IF i - 1 \in 0 .. low THEN Relinked(arena, p, i - 1, chosen[i - 1])
           ELSE Nbrs(arena, p, i - 1)]
  IN [p \in DOMAIN arena |-> [arena[p] EXCEPT !.neighbors = NewLists(p)]]

(* Mutant: a live id is not refused. *)
FreeOrNot(id) == TRUE

(* Re-adding a tombstoned id is allowed. *)
Free(id) == ~ Live(id)

(* Mutant: the map keeps the position of the tombstone. *)
KeepOver(id, pos) ==
  [x \in DOMAIN id_to_pos \cup {id} |-> IF x \in DOMAIN id_to_pos THEN id_to_pos[x] ELSE pos]

(* HashMap::insert *)
TakeOver(id, pos) ==
  [x \in DOMAIN id_to_pos \cup {id} |-> IF x = id THEN pos ELSE id_to_pos[x]]

(* Mutant: the entry point stays when the graph gets a new top layer. *)
SameEntry(pos, l) == IF entry_point = 0 THEN pos ELSE entry_point

(* The first node, and one of a new top layer, becomes the entry point. *)
NewEntry(pos, l) == IF entry_point = 0 \/ l > max_layer THEN pos ELSE entry_point

(* The new node takes over the id, which is new or a tombstone's. *)
Add(id, v, pl, l) ==
  LET node == [id |-> id, vector |-> v, payload |-> pl, deleted |-> FALSE,
               neighbors |-> [i \in 1 .. l + 1 |-> << >>]]
      arena == Append(nodes, node)
      new == Len(arena)
  IN /\ Free(id) /\ Len(nodes) < MaxNodes
     /\ nodes' = IF entry_point = 0 THEN arena ELSE Linked(arena, l)
     /\ id_to_pos' = TakeOver(id, new)
     /\ live_count' = live_count + 1
     /\ entry_point' = NewEntry(new, l)
     /\ max_layer' = IF l > max_layer THEN l ELSE max_layer

(* Mutant: an id that was removed already is removed again. *)
RemoveTwice(id) ==
  /\ id \in DOMAIN id_to_pos
  /\ nodes' = [nodes EXCEPT ![id_to_pos[id]].deleted = TRUE]
  /\ live_count' = live_count - 1
  /\ UNCHANGED <<id_to_pos, entry_point, max_layer>>

(* remove: the node becomes a tombstone and stays in the graph. *)
Remove(id) ==
  /\ Live(id)
  /\ nodes' = [nodes EXCEPT ![id_to_pos[id]].deleted = TRUE]
  /\ live_count' = live_count - 1
  /\ UNCHANGED <<id_to_pos, entry_point, max_layer>>

Next ==
  \E id \in Ids :
    \/ \E v \in Vectors, pl \in Payloads, l \in Levels : Add(id, v, pl, l)
    \/ Remove(id)

Spec == Init /\ [][Next]_vars

-----------------------------------------------------------------------------
(* Search. *)

(* Mutant: tombstones are among the results. *)
AdmittedDeleted(p, f) == Matches(f, nodes[p].payload)

(* The closure admit of search_inner, and the condition of search_exact. *)
Admitted(p, f) == ~ nodes[p].deleted /\ Matches(f, nodes[p].payload)

Hit(c) == [id |-> nodes[c.key].id, distance |-> c.distance]

Hits(cands, k) ==
  [i \in 1 .. (IF k < Len(cands) THEN k ELSE Len(cands)) |-> Hit(cands[i])]

(* The early returns of search_inner: there is nothing to find. *)
Empty == entry_point = 0 \/ live_count = 0

(* search_inner, the descent through the upper layers ... *)
Walk(q) == Descend(nodes, q, StartWalk(Cand(nodes, q, entry_point)), max_layer, 1)

(* ... and the beam on the bottom layer, ef or k wide, from where it ends. *)
Beam(q, start, k, ef, f) ==
  BeamSearch(nodes, q, start, IF ef < k THEN k ELSE ef, 0, {p \in Positions : Admitted(p, f)})

Search(q, k, ef, f) ==
  IF Empty THEN << >> ELSE Hits(Sorted(Beam(q, Walk(q).at, k, ef, f).best), k)

(***************************************************************************)
(* search_traced: the hits, and what the sink recorded.  The trace names   *)
(* nodes by their ids, of which a tombstone and its successor have the     *)
(* same.                                                                   *)
(***************************************************************************)
NoTrace == [entry |-> {}, max_layer |-> max_layer, descent |-> << >>, beam |-> << >>,
            visited |-> 0, distance_evals |-> 0]

Trace(q, walk, beam) ==
  LET IdOf(p) == nodes[p].id
      ByIds(e) == [e EXCEPT !.from = IdOf(@), !.to = IdOf(@)]
  IN [entry          |-> {Hit(Cand(nodes, q, entry_point))},
      max_layer      |-> max_layer,
      descent        |-> [i \in 1 .. Len(walk.hops) |-> ByIds(walk.hops[i])],
      beam           |-> [i \in 1 .. Len(beam.edges) |-> ByIds(beam.edges[i])],
      visited        |-> Len(beam.edges) + 1,
      distance_evals |-> walk.evals + Len(beam.edges)]

SearchTraced(q, k, ef, f) ==
  LET walk == Walk(q)
      beam == Beam(q, walk.at, k, ef, f)
  IN IF Empty THEN [hits |-> << >>, trace |-> NoTrace]
     ELSE [hits |-> Hits(Sorted(beam.best), k), trace |-> Trace(q, walk, beam)]

(* search_exact *)
SearchExact(q, k, f) ==
  LET Visit(heap, p) == IF Admitted(p, f) THEN Offer(heap, k, Cand(nodes, q, p)) ELSE heap
  IN Hits(Sorted(Lists!FoldLeft(Visit, {}, [p \in Positions |-> p])), k)

-----------------------------------------------------------------------------
(* What must hold. *)

(***************************************************************************)
(* Every edge of a layer leads to another node of that layer, no edge is   *)
(* there twice, and no list is longer than its maximum, whatever order of  *)
(* levels the nodes came in.  The searches index the lists without a check.*)
(***************************************************************************)
EdgesStayInLayer ==
  \A p \in Positions : \A layer \in 0 .. Level(nodes, p) :
    LET list == Nbrs(nodes, p, layer) IN
    /\ Len(list) <= MMax(layer)
    /\ \A i \in 1 .. Len(list) :
         /\ list[i] \in Positions \ {p} /\ Level(nodes, list[i]) >= layer
         /\ \A j \in 1 .. Len(list) : list[i] = list[j] => i = j

(* Descents start at a node that is on every layer there is. *)
EntryIsHighest ==
  /\ entry_point = 0 <=> nodes = << >>
  /\ entry_point # 0 => Level(nodes, entry_point) = max_layer
  /\ \A p \in Positions : Level(nodes, p) <= max_layer

(***************************************************************************)
(* The count of live vectors, the map and the tombstones agree after any   *)
(* sequence of adds, removes and re-adds of an id: one live node per live  *)
(* id, the one the map says.                                               *)
(***************************************************************************)
LiveNodesAgree ==
  /\ live_count = Cardinality({p \in Positions : ~ nodes[p].deleted})
  /\ \A p \in Positions : ~ nodes[p].deleted => /\ nodes[p].id \in DOMAIN id_to_pos
                                                /\ id_to_pos[nodes[p].id] = p

(***************************************************************************)
(* index.rs:18-29: a search yields distinct live ids that match the filter,*)
(* with their distances, in ascending order, k at the most.                *)
(***************************************************************************)
SearchIsSound ==
  \A q \in Vectors, k \in {1, 2, MaxNodes}, f \in Filters :
    LET hits == Search(q, k, 1, f) IN
    /\ Len(hits) <= k
    /\ \A i \in 1 .. Len(hits) :
         /\ Live(hits[i].id) /\ Admitted(id_to_pos[hits[i].id], f)
         /\ hits[i].distance = Dist(q, nodes[id_to_pos[hits[i].id]].vector)
         /\ \A j \in 1 .. i - 1 : /\ hits[j].distance <= hits[i].distance
                                  /\ hits[j].id # hits[i].id

(***************************************************************************)
(* While no list of layer 0 has ever overflowed, every node is reachable,  *)
(* tombstones included, and a search as wide as the index is exact.        *)
(***************************************************************************)
SmallIndexIsExact ==
  Len(nodes) <= 2 * M + 1 =>
    \A q \in Vectors, k \in 1 .. Len(nodes) + 1, f \in Filters :
      Search(q, k, Len(nodes), f) = SearchExact(q, k, f)

(* The first hop leaves the entry point, each other one the node that the one
   before it reached, for a closer one, on the same layer or a lower one. *)
DescendsFrom(trace, entry) ==
  \A i \in 1 .. Len(trace.descent) :
    LET hop == trace.descent[i] IN
    /\ hop.from = IF i = 1 THEN entry.id ELSE trace.descent[i - 1].to
    /\ hop.distance < IF i = 1 THEN entry.distance ELSE trace.descent[i - 1].distance
    /\ hop.layer \in 1 .. IF i = 1 THEN trace.max_layer ELSE trace.descent[i - 1].layer

(* Where the hops end, the beam starts. *)
StartId(trace, entry) ==
  IF trace.descent = << >> THEN entry.id ELSE trace.descent[Len(trace.descent)].to

(* The beam goes on from nodes it kept; what it admits is live under the id
   and at the distance of the edge. *)
SpreadsFrom(q, trace, start) ==
  \A i \in 1 .. Len(trace.beam) :
    LET e == trace.beam[i] IN
    /\ e.status = "admitted" =>
         Live(e.to) /\ e.distance = Dist(q, nodes[id_to_pos[e.to]].vector)
    /\ e.from = start \/ \E j \in 1 .. i - 1 : /\ trace.beam[j].to = e.from
                                              /\ trace.beam[j].status # "rejected"

(* A hit is the start, or was admitted. *)
Explained(trace, start, hit) ==
  hit.id = start \/ \E i \in 1 .. Len(trace.beam) :
    LET e == trace.beam[i] IN
    e.status = "admitted" /\ e.to = hit.id /\ e.distance = hit.distance

(***************************************************************************)
(* hnsw.rs:110-177: a trace explains its search.  The hops lead from the   *)
(* entry point down, always closer; the beam goes from the node where they *)
(* end to nodes found through nodes it kept, each of them once; each hit   *)
(* is that first node or one the beam admitted, and what it admitted is    *)
(* live under the id the trace gives, with the distance the trace gives.   *)
(***************************************************************************)
TraceTellsTheSearch ==
  \A q \in Vectors, f \in Filters :
    LET traced == SearchTraced(q, 1, 2, f)
        trace == traced.trace
    IN /\ trace.entry = {} <=> live_count = 0
       /\ trace.visited <= Len(nodes) /\ trace.visited <= trace.distance_evals
       /\ \A entry \in trace.entry :
            LET start == StartId(trace, entry) IN
            /\ DescendsFrom(trace, entry) /\ SpreadsFrom(q, trace, start)
            /\ \A i \in 1 .. Len(traced.hits) : Explained(trace, start, traced.hits[i])

(* Positions that the lists of layer 0 lead to from p. *)
ReachableFrom(p) ==
  LET seen[i \in 0 .. Len(nodes)] ==
        IF i = 0 THEN {p}
        ELSE seen[i - 1] \cup UNION {{Nbrs(nodes, x, 0)[j] : j \in 1 .. Len(Nbrs(nodes, x, 0))} :
                                      x \in seen[i - 1]}
  IN seen[Len(nodes)]

(***************************************************************************)
(* hnsw.rs:255-262: a selective filter, or tombstones, widen the search    *)
(* and do not starve it.  When there are fewer than k hits, they are all   *)
(* the live matching vectors of the component in which the beam started.   *)
(***************************************************************************)
FiltersWidenTheSearch ==
  \A q \in Vectors, k \in {1, 2, 3}, f \in Filters :
    LET hits == Search(q, k, 1, f) IN
    ~ Empty /\ Len(hits) < k =>
      {hits[i].id : i \in 1 .. Len(hits)} =
        {nodes[p].id : p \in {x \in ReachableFrom(Walk(q).at.key) : Admitted(x, f)}}

(***************************************************************************)
(* index.rs:18-21, "k larger than the number of stored vectors yields      *)
(* len() results".                                                         *)
(***************************************************************************)
LargeKYieldsAll ==
  \A q \in Vectors, f \in Filters :
    Len(Search(q, live_count + 1, 1, f)) = Len(SearchExact(q, live_count + 1, f))

-----------------------------------------------------------------------------
(* The abstract map. *)

(* vector and payload, for every live id. *)
StoredAt == [id \in {x \in DOMAIN id_to_pos : Live(x)} |->
               [vector |-> nodes[id_to_pos[id]].vector,
                payload |-> nodes[id_to_pos[id]].payload]]

Points == INSTANCE VectorMap WITH
  MapIds <- Ids, MapVectors <- Vectors, MapPayloads <- Payloads, points <- StoredAt

(***************************************************************************)
(* Behind tombstones, waypoints and links clients of vector() and          *)
(* payload() see the same map as of a flat index.                          *)
(***************************************************************************)
ImplementsMap == Points!MapSpec

=============================================================================
