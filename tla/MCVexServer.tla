---------------------------- MODULE MCVexServer ----------------------------
(***************************************************************************)
(* Instances of VexServer for TLC.                                         *)
(***************************************************************************)
EXTENDS VexServer, TLC

MCGens == 1 .. MaxGens
MCWrites == 1 .. MaxWrites

(* Workers and names are only compared for equality. *)
WorkerSymmetry == Permutations(Workers)
FullSymmetry == Permutations(Workers) \cup Permutations(Names)

-----------------------------------------------------------------------------
(* The request of p removes or saves a registered collection. *)
Exclusive(p) ==
  \/ pc[p] \in {"drop_exists", "drop_unlink", "f_lock"}
  \/ pc[p] \in SavePcs /\ regLock # p

(***************************************************************************)
(* A client that knows the races of drops and explicit snapshots, and so   *)
(* sends each of them alone: nothing else runs from its start to its end.  *)
(***************************************************************************)
DropsAndSnapshotsAlone ==
  \A p \in Workers : Exclusive(p) \/ Exclusive(p)' =>
    \A q \in Procs \ {p} : pc[q] = "idle" /\ pc'[q] = "idle"

AloneSpec == Init /\ [][Next /\ DropsAndSnapshotsAlone]_vars

=============================================================================
