----------------------------- MODULE HnswSearch -----------------------------
(***************************************************************************)
(* The algorithms of HnswIndex (crates/vex-core/src/hnsw.rs) that read the *)
(* graph: greedy descent, beam search of one layer, neighbor selection.    *)
(*                                                                         *)
(* The arena is a sequence of nodes; a node's position here is the code's  *)
(* plus one.  neighbors[layer + 1] is its adjacency list on a layer.       *)
(* Loops are functions of the number of turns taken; each turn after the   *)
(* last one of the code's changes nothing.                                 *)
(***************************************************************************)
EXTENDS TopK

CONSTANT Dist(_, _)   \* DistanceMetric::distance

Level(nodes, p) == Len(nodes[p].neighbors) - 1

Nbrs(nodes, p, layer) == nodes[p].neighbors[layer + 1]

(* Candidate: a node and its distance from the query. *)
Cand(nodes, q, p) == Item(Dist(q, nodes[p].vector), p)

-----------------------------------------------------------------------------
(***************************************************************************)
(* The searches report to a TraceSink what they do.  A walk through the    *)
(* upper layers is where it has got to, the hops it took, and the number   *)
(* of distances it computed.                                               *)
(***************************************************************************)
StartWalk(c) == [at |-> c, hops |-> << >>, evals |-> 1]

Hop(layer, from, c) == [layer |-> layer, from |-> from, to |-> c.key, distance |-> c.distance]

(* A neighbor that is closer than the best so far is the best from then on. *)
GreedyStep(nodes, q, layer, walk, nb) ==
  LET c == Cand(nodes, q, nb) IN
  IF c.distance < walk.at.distance
  THEN [at    |-> c,
        hops  |-> Append(walk.hops, Hop(layer, walk.at.key, c)),
        evals |-> walk.evals + 1]
  ELSE [walk EXCEPT !.evals = @ + 1]

(* One pass over the list of the node it starts from. *)
GreedyPass(nodes, q, layer, walk) ==
  Lists!FoldLeft(LAMBDA w, nb : GreedyStep(nodes, q, layer, w, nb), walk,
                 Nbrs(nodes, walk.at.key, layer))

(* One turn of the loop, which ends with the first pass that does not move. *)
Climb(nodes, q, layer, state) ==
  LET next == GreedyPass(nodes, q, layer, state.walk)
  IN IF state.improved THEN [walk |-> next, improved |-> next.at # state.walk.at] ELSE state

(* greedy_closest: each pass but the last gets closer, so there are no more
   passes than nodes. *)
GreedyClosest(nodes, q, layer, walk) ==
  LET loop[i \in 0 .. Len(nodes)] ==
        IF i = 0 THEN [walk |-> walk, improved |-> TRUE] ELSE Climb(nodes, q, layer, loop[i - 1])
  IN loop[Len(nodes)].walk

(* The layers from high down to low, one by one. *)
Descend(nodes, q, walk, high, low) ==
  LET turns == IF high < low THEN 0 ELSE high - low + 1
      after[i \in 0 .. turns] ==
        IF i = 0 THEN walk ELSE GreedyClosest(nodes, q, high - i + 1, after[i - 1])
  IN after[turns]

-----------------------------------------------------------------------------
(* BeamEdge: what became of a neighbor when it was evaluated. *)
Edge(from, c, status) ==
  [from |-> from, to |-> c.key, distance |-> c.distance, status |-> status]

(* Mutant: the start of the beam is not marked as visited. *)
StartUnvisited(start, admitted) ==
  [visited |-> {}, frontier |-> {start},
   best |-> IF start.key \in admitted THEN {start} ELSE {}, edges |-> << >>]

StartBeam(start, admitted) ==
  [visited |-> {start.key}, frontier |-> {start},
   best |-> IF start.key \in admitted THEN {start} ELSE {}, edges |-> << >>]

(* Mutant: a full beam is one that has seen enough nodes, results or not. *)
RoomByVisits(beam, ef) == Cardinality(beam.visited) < ef

(* best.len() < ef: while there is room, nothing is too far away. *)
Room(beam, ef) == Cardinality(beam.best) < ef

(* The worst result is infinitely far away while there is none. *)
CloserThanWorst(c, best) == best = {} \/ c.distance < Greatest(best).distance
FartherThanWorst(c, best) == best # {} /\ c.distance > Greatest(best).distance

(* search_layer: the neighbor nb of the node being expanded is evaluated.
   The closure that admits nodes is the set of those it admits. *)
Evaluate(nodes, q, ef, admitted, from, beam, nb) ==
  LET c == Cand(nodes, q, nb)
      kept == Room(beam, ef) \/ CloserThanWorst(c, beam.best)
      grown == beam.best \cup {c}
      status == IF ~ kept THEN "rejected" ELSE IF nb \in admitted THEN "admitted" ELSE "routed"
  IN IF nb \in beam.visited THEN beam
     ELSE [visited  |-> beam.visited \cup {nb},
           frontier |-> IF kept THEN beam.frontier \cup {c} ELSE beam.frontier,
           best     |-> IF status # "admitted" THEN beam.best
                        ELSE IF Cardinality(grown) > ef THEN grown \ {Greatest(grown)}
                        ELSE grown,
           edges    |-> Append(beam.edges, Edge(from, c, status))]

(***************************************************************************)
(* One turn of the loop: the closest frontier node is expanded, unless the *)
(* beam is full and the node is worse than all of it, which ends the loop. *)
(***************************************************************************)
Expand(nodes, q, ef, layer, admitted, beam) ==
  LET current == Least(beam.frontier)
      stop == ~ Room(beam, ef) /\ FartherThanWorst(current, beam.best)
      popped == [beam EXCEPT !.frontier = @ \ {current}]
  IN IF beam.frontier = {} THEN beam
     ELSE IF stop THEN [beam EXCEPT !.frontier = {}]
     ELSE Lists!FoldLeft(LAMBDA b, nb : Evaluate(nodes, q, ef, admitted, current.key, b, nb),
                   popped, Nbrs(nodes, current.key, layer))

(* The beam at the end: every node enters the frontier at most once, so it
   empties in time. *)
BeamSearch(nodes, q, start, ef, layer, admitted) ==
  LET beam[i \in 0 .. Len(nodes) + 1] ==
        IF i = 0 THEN StartBeam(start, admitted)
        ELSE Expand(nodes, q, ef, layer, admitted, beam[i - 1])
  IN beam[Len(nodes) + 1]

SearchLayer(nodes, q, start, ef, layer, admitted) ==
  Sorted(BeamSearch(nodes, q, start, ef, layer, admitted).best)

-----------------------------------------------------------------------------
(* Some neighbor that is kept is closer to the candidate than the target is. *)
Dominated(nodes, c, selected) ==
  \E i \in 1 .. Len(selected) : Dist(nodes[c.key].vector, nodes[selected[i]].vector) < c.distance

(* One candidate is kept, or pruned, or left out when there are enough. *)
Consider(nodes, m, acc, c) ==
  IF Len(acc.selected) >= m THEN acc
  ELSE IF Dominated(nodes, c, acc.selected) THEN [acc EXCEPT !.pruned = Append(@, c.key)]
  ELSE [acc EXCEPT !.selected = Append(@, c.key)]

(* select_neighbors: closest first; then fill up with the pruned ones. *)
SelectNeighbors(nodes, cands, m) ==
  LET chosen == Lists!FoldLeft(LAMBDA acc, c : Consider(nodes, m, acc, c),
                               [selected |-> << >>, pruned |-> << >>], cands)
      all == chosen.selected \o chosen.pruned
  IN SubSeq(all, 1, IF m < Len(all) THEN m ELSE Len(all))

(* shrink_neighbors: the list of a node reduced to the m_max best for it. *)
ShrinkNeighbors(nodes, p, list, m_max) ==
  SelectNeighbors(nodes, Sorted({Cand(nodes, nodes[p].vector, nb) : nb \in Lists!ToSet(list)}), m_max)

=============================================================================
