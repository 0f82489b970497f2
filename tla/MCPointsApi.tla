---------------------------- MODULE MCPointsApi ----------------------------
(***************************************************************************)
(* An instance of PointsApi: two ids, batches with one or two points, one  *)
(* id twice or a point that does not fit, creates at the limits.           *)
(***************************************************************************)
EXTENDS PointsApi

CONSTANTS a, b   \* point ids

P(v) == [vector |-> v, payload |-> <<v>>]
Entry(id, v, fits) == [id |-> id, point |-> P(v), fits |-> fits]

MCPoints == {P(1), P(2)}

MCBatches ==
  {<<Entry(a, 1, TRUE), Entry(b, 1, TRUE)>>,
   <<Entry(b, 2, TRUE), Entry(b, 1, TRUE)>>,
   <<Entry(a, 2, TRUE), Entry(b, 2, FALSE)>>}

MCRequests ==
  [index : {"flat", "ivf"}, dim : {0, 65536, 65537}, m : {16}]
    \cup [index : {"hnsw"}, dim : {0, 65536}, m : {0, 1, 256, 257}]

=============================================================================
