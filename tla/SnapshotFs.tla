----------------------------- MODULE SnapshotFs -----------------------------
(***************************************************************************)
(* The files behind one collection, as AnyIndex::save and AnyIndex::load   *)
(* use them (crates/vex-core/src/persist.rs).                              *)
(*                                                                         *)
(* A file is the sequence of the blocks that write(2) calls put in it: a   *)
(* BufWriter hands the serialised index to the file block by block, so a   *)
(* file that was opened but not completely written is a shorter sequence.  *)
(* A block carries the snapshot it is a part of.  What a block holds byte  *)
(* by byte is abstracted; which index state it comes from is not.          *)
(***************************************************************************)
EXTENDS Naturals, Sequences

CONSTANTS
  Gens,      \* collection incarnations: one per Collection object ever made
  Writes,    \* identities of the mutations applied to indexes
  Absent     \* a directory entry that does not exist

(***************************************************************************)
(* The state of one index: which incarnation it is and which mutations     *)
(* have been applied to it.  A snapshot is such a state.                   *)
(***************************************************************************)
Snapshot == [gen : Gens, writes : SUBSET Writes]

(* A range of a file that was skipped over: zeros. *)
Hole == [gen |-> 0, writes |-> {}]

Block == Snapshot \cup {Hole}

File == Seq(Block)

Entry == File \cup {Absent}

(***************************************************************************)
(* Number of blocks of a serialised snapshot.  A fresh index is a header   *)
(* and a few counters and fits one block; an index with data takes two,    *)
(* which is enough for a file to be found half written.                    *)
(***************************************************************************)
Size(s) == IF s.writes = {} THEN 1 ELSE 2

(***************************************************************************)
(* Writing block i at the descriptor's own offset.  If another descriptor  *)
(* truncated the file meanwhile, the blocks before i are a hole.           *)
(***************************************************************************)
WriteAt(f, i, b) ==
  [k \in 1 .. (IF i > Len(f) THEN i ELSE Len(f)) |->
     IF k = i THEN b ELSE IF k <= Len(f) THEN f[k] ELSE Hole]

(* f begins with all the blocks of snapshot s: bytes after them are never read. *)
Holds(f, s) == Len(f) >= Size(s) /\ \A i \in 1 .. Size(s) : f[i] = s

(***************************************************************************)
(* AnyIndex::load accepts the file: the magic bytes are there and every    *)
(* length the first block announces is backed by the blocks that follow.   *)
(* A file torn between two snapshots is rejected (Io or Corrupt).          *)
(***************************************************************************)
Readable(f) == f # Absent /\ f # << >> /\ f[1] # Hole /\ Holds(f, f[1])

(* What loading a readable file yields. *)
Loaded(f) == f[1]

=============================================================================
