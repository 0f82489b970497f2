---------------------------- MODULE MCHnswIndex ----------------------------
(***************************************************************************)
(* HnswIndex with vectors on a line and the squared distance, which is     *)
(* what the L2 metric computes.                                            *)
(***************************************************************************)
EXTENDS HnswReload, Integers

CONSTANTS
  NoFilter,
  Nothing,      \* no payload
  ChurnNodes    \* bound on the arena once nodes are removed or have payloads

MCDist(a, b) == (a - b) * (a - b)

(* A filter names the payload it asks for. *)
MCMatches(f, pl) == f = NoFilter \/ f = pl

(* Vectors 0 and 1 play the same role: a client may add 0 first. *)
Canonical(v) == nodes = << >> => v = 0

(* A client that only adds vectors, each with the next id. *)
Grow ==
  /\ Len(nodes) < MaxNodes
  /\ \A p \in Positions : nodes[p].id = p /\ ~ nodes[p].deleted
                         /\ nodes[p].payload = Nothing
  /\ \E v \in Vectors, l \in Levels :
       Canonical(v) /\ Add(Len(nodes) + 1, v, Nothing, l)

GrowSpec == Init /\ [][Grow]_vars

(***************************************************************************)
(* A client that adds, removes and adds again a few ids, with any          *)
(* payloads, or removes vectors of an index that has grown somewhat        *)
(* larger.  Ids are only compared for equality: new ones come in order.    *)
(***************************************************************************)
Churn ==
  \/ /\ Len(nodes) < ChurnNodes
     /\ \E id \in Ids, v \in Vectors, pl \in Payloads, l \in Levels :
          /\ id \in DOMAIN id_to_pos \/ id = Cardinality(DOMAIN id_to_pos) + 1
          /\ Canonical(v) /\ Add(id, v, pl, l)
  \/ Len(nodes) <= ChurnNodes + 1 /\ \E id \in Ids : Remove(id)

MCSpec == Init /\ [][Grow \/ Churn \/ Reload]_vars

=============================================================================
