----------------------------- MODULE FlatReload -----------------------------
(***************************************************************************)
(* A FlatIndex that is used elsewhere: saved to a snapshot and loaded by   *)
(* another process (crates/vex-core/src/persist.rs), whose processor may   *)
(* compute distances with the other kernel (distance.rs).                  *)
(***************************************************************************)
EXTENDS FlatIndex, SnapshotFormat, Integers

CONSTANTS
  Metric,         \* metric of the index
  Dim,            \* dimension of the index
  Components(_)   \* the sequences of numbers, rounding left out, a vector may stand for

(* create_collection refuses metrics and dims that the reader would refuse
   (routes.rs:178-206). *)
ASSUME FlatReloadAssumption ==
  /\ Metric \in Metrics /\ Dim \in 1 .. MaxDim
  /\ \A v \in Vectors : Components(v) \subseteq Seq(Int)

Index == [metric |-> Metric, dim |-> Dim, entries |-> entries, id_to_pos |-> id_to_pos]

(***************************************************************************)
(* Whatever was added and removed, the index a snapshot yields is the one  *)
(* that was saved, its rebuilt position map included; only a payload that  *)
(* is too long keeps it from being saved.                                  *)
(***************************************************************************)
FlatSurvivesReload ==
  LET files == WriteFlat(Index) IN
  /\ files = {} <=> \E id \in DOMAIN id_to_pos : Entry(id).payload \in Unserialisable
  /\ \A file \in files : ReadAny(file) = {Index}

(***************************************************************************)
(* persist.rs:34-36: a file that ends early, wherever, is refused, and so  *)
(* is one in which an entry comes twice.                                   *)
(***************************************************************************)
DamagedFlatIsRefused ==
  \A file \in WriteFlat(Index) :
    LET Repeated(i) == [file EXCEPT ![i] = file[3]] IN
    /\ \A cut \in Cuts(file) : ReadAny(cut) = {}
    /\ \A i \in 4 .. Len(file) : ReadAny(Repeated(i)) = {}

-----------------------------------------------------------------------------
Kernels == INSTANCE DistanceKernels

(***************************************************************************)
(* distance.rs:69-79: for vectors of any length the kernel a processor     *)
(* gets adds up each term once, those after the last full chunk included,  *)
(* so that an index built on one processor means the same on another.      *)
(***************************************************************************)
KernelsAgree ==
  Len(entries) = 1 =>
    \A q \in Vectors : \A a \in Components(entries[1].vector), b \in Components(q) :
      Len(a) = Len(b) =>
        \A sum \in Kernels!Sums : /\ Kernels!Scalar(sum, a, b) = Kernels!Reference(sum, a, b)
                                  /\ Kernels!Avx2(sum, a, b) = Kernels!Reference(sum, a, b)

=============================================================================
