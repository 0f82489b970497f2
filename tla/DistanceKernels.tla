-------------------------- MODULE DistanceKernels --------------------------
(***************************************************************************)
(* The sums a distance is made of (crates/vex-core/src/distance.rs), over  *)
(* integers: eight lanes that each add up every eighth term, put together  *)
(* at the end, and the terms of the rest one by one.  The scalar and the   *)
(* AVX2 kernels differ in how they put the lanes together.  What floating- *)
(* point rounding makes of the order is left out.                          *)
(***************************************************************************)
EXTENDS Integers, Sequences

LANES == 8

(* One term of dot, of l2_sq, and of the two norms that cosine needs. *)
Term(sum, x, y) ==
  CASE sum = "dot" -> x * y
    [] sum = "l2_sq" -> (x - y) * (x - y)
    [] sum = "norm_a" -> x * x
    [] sum = "norm_b" -> y * y

(* Terms are added one by one. *)
SumOf(terms) ==
  LET acc[i \in 0 .. Len(terms)] == IF i = 0 THEN 0 ELSE acc[i - 1] + terms[i]
  IN acc[Len(terms)]

(* split_at(a.len() - a.len() % LANES), and n in the AVX2 kernels *)
Chunked(a) == (Len(a) \div LANES) * LANES

(* Lane l adds up the terms at l, l + LANES, ... of the chunks. *)
Lane(sum, a, b, l) ==
  SumOf([c \in 1 .. Chunked(a) \div LANES |->
           Term(sum, a[(c - 1) * LANES + l], b[(c - 1) * LANES + l])])

Lanes(sum, a, b) == [l \in 1 .. LANES |-> Lane(sum, a, b, l)]

(* Mutant: the rest starts one term too late. *)
RestLate(sum, a, b) ==
  SumOf([i \in 1 .. Len(a) - Chunked(a) |->
           IF i = 1 THEN 0 ELSE Term(sum, a[Chunked(a) + i], b[Chunked(a) + i])])

Rest(sum, a, b) ==
  SumOf([i \in 1 .. Len(a) - Chunked(a) |-> Term(sum, a[Chunked(a) + i], b[Chunked(a) + i])])

(* dot_scalar, l2_sq_scalar, cosine_terms_scalar *)
Scalar(sum, a, b) == SumOf(Lanes(sum, a, b)) + Rest(sum, a, b)

(* hsum256: the halves, the halves of their sum, then its two lanes. *)
HSum256(v) ==
  LET sum128 == [l \in 1 .. 4 |-> v[l] + v[l + 4]]
      sum64 == [l \in 1 .. 2 |-> sum128[l] + sum128[l + 2]]
  IN sum64[1] + sum64[2]

(* dot_avx2, l2_sq_avx2, cosine_terms_avx2 *)
Avx2(sum, a, b) == HSum256(Lanes(sum, a, b)) + Rest(sum, a, b)

-----------------------------------------------------------------------------
Sums == {"dot", "l2_sq", "norm_a", "norm_b"}

(* The definition: the sum of all terms. *)
Reference(sum, a, b) == SumOf([i \in 1 .. Len(a) |-> Term(sum, a[i], b[i])])

(* A vector of n components, one of which differs from the others. *)
Sample(n, odd, v) == [i \in 1 .. n |-> IF i = odd THEN 7 + v ELSE (i % 3) - v]

=============================================================================
