------------------------------ MODULE VexStore ------------------------------
(***************************************************************************)
(* What the server and its snapshot files promise together: a store of     *)
(* collections in memory, and on disk one snapshot per name that changes   *)
(* from one whole state to another in a single step.                       *)
(*                                                                         *)
(* VexServer implements it when no two saves work on the files of one name *)
(* at a time; see its refinement mapping there.                            *)
(***************************************************************************)
EXTENDS Naturals

CONSTANTS
  StoreNames,   \* collection names
  StoreGens,    \* incarnations of collections
  StoreWrites,  \* mutations
  Nothing       \* no collection

VARIABLES
  live,   \* what clients find under each name
  disk    \* the snapshot of each name

Content == [gen : StoreGens, writes : SUBSET StoreWrites]

Fresh(g) == [gen |-> g, writes |-> {}]

StoreInit ==
  /\ live = [n \in StoreNames |-> Nothing]
  /\ disk = [n \in StoreNames |-> Nothing]

(* A new collection is on disk before any client can see it, ... *)
Prepare(n) ==
  /\ live[n] = Nothing /\ disk[n] = Nothing
  /\ \E g \in StoreGens : disk' = [disk EXCEPT ![n] = Fresh(g)]
  /\ UNCHANGED live

(* ... and then it becomes visible. *)
Open(n) ==
  /\ live[n] = Nothing
  /\ \E g \in StoreGens : disk[n] = Fresh(g)
  /\ live' = [live EXCEPT ![n] = disk[n]]
  /\ UNCHANGED disk

Mutate(n) ==
  /\ live[n] # Nothing
  /\ \E w \in StoreWrites \ live[n].writes :
       live' = [live EXCEPT ![n].writes = @ \cup {w}]
  /\ UNCHANGED disk

(* The snapshot becomes the collection as it is now, all of it at once. *)
Persist(n) ==
  /\ live[n] # Nothing
  /\ disk' = [disk EXCEPT ![n] = live[n]]
  /\ UNCHANGED live

Drop(n) ==
  /\ live[n] # Nothing
  /\ live' = [live EXCEPT ![n] = Nothing]
  /\ UNCHANGED disk

(* The snapshot of a dropped collection goes. *)
Erase(n) ==
  /\ live[n] = Nothing /\ disk[n] # Nothing
  /\ disk' = [disk EXCEPT ![n] = Nothing]
  /\ UNCHANGED live

(* The process ends, in whatever way. *)
Stop ==
  /\ live' = [n \in StoreNames |-> Nothing]
  /\ UNCHANGED disk

(* It starts again with what is on disk. *)
Start ==
  /\ \A n \in StoreNames : live[n] = Nothing
  /\ live' = disk
  /\ UNCHANGED disk

StoreNext ==
  \/ \E n \in StoreNames :
       Prepare(n) \/ Open(n) \/ Mutate(n) \/ Persist(n) \/ Drop(n) \/ Erase(n)
  \/ Stop
  \/ Start

StoreSpec == StoreInit /\ [][StoreNext]_<<live, disk>>

=============================================================================
