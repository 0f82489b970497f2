-------------------------- MODULE VexServerProofs --------------------------
(***************************************************************************)
(* Theorems of VexServer for every set of names and workers, every bound   *)
(* and every combination of requests, faults, crashes and shutdowns.       *)
(***************************************************************************)
EXTENDS VexServer, TLAPS

-----------------------------------------------------------------------------
(* What the file operations of SnapshotFs do, for every file. *)

(***************************************************************************)
(* A file made of blocks from a set stays one when such a block is written *)
(* to it, if holes are in the set.                                         *)
(***************************************************************************)
LEMMA WriteAtType ==
  ASSUME NEW S, Hole \in S, NEW f \in Seq(S), NEW i \in 1 .. 2, NEW b \in S
  PROVE  WriteAt(f, i, b) \in Seq(S)
<1> DEFINE L == IF i > Len(f) THEN i ELSE Len(f)
           e(k) == IF k = i THEN b ELSE IF k <= Len(f) THEN f[k] ELSE Hole
<1>1. L \in Nat
  OBVIOUS
<1>2. \A k \in 1 .. L : e(k) \in S
  OBVIOUS
<1>3. WriteAt(f, i, b) = [k \in 1 .. L |-> e(k)]
  BY DEF WriteAt
<1> QED
  BY <1>1, <1>2, <1>3

(* f is the beginning of snapshot s, k blocks of it. *)
Prefix(f, s, k) == f # Absent /\ Len(f) = k /\ \A i \in 1 .. k : f[i] = s

(* A save that appends the next block of s has one more block of it. *)
LEMMA WriteAtPrefix ==
  ASSUME NEW f \in File, Absent \notin File, NEW s \in Block, NEW k \in 0 .. 1,
         Prefix(f, s, k)
  PROVE  Prefix(WriteAt(f, k + 1, s), s, k + 1)
<1> DEFINE e(j) == IF j = k + 1 THEN s ELSE IF j <= Len(f) THEN f[j] ELSE Hole
<1>1. WriteAt(f, k + 1, s) = [j \in 1 .. k + 1 |-> e(j)]
  BY DEF WriteAt, Prefix
<1>2. \A j \in 1 .. k + 1 : e(j) = s
  BY DEF Prefix
<1>3. WriteAt(f, k + 1, s) = [j \in 1 .. k + 1 |-> s]
  BY <1>1, <1>2
<1>4. [j \in 1 .. k + 1 |-> s] \in File /\ Len([j \in 1 .. k + 1 |-> s]) = k + 1
  BY DEF File
<1> QED
  BY <1>3, <1>4 DEF Prefix

(* A file with all the blocks of s is whole, and loading it yields s. *)
LEMMA PrefixReadable ==
  ASSUME NEW s \in Snapshot, 0 \notin Gens, NEW f \in File, Prefix(f, s, Size(s))
  PROVE  Readable(f) /\ Loaded(f) = s
<1>1. Size(s) \in 1 .. 2
  BY DEF Size
<1>2. f[1] = s /\ f # << >> /\ s # Hole
  BY <1>1 DEF Prefix, Hole, Snapshot, File
<1> QED
  BY <1>1, <1>2 DEF Prefix, Readable, Holds, Loaded

(* Files of a smaller set of blocks are files of a larger one. *)
LEMMA SeqMonotone ==
  ASSUME NEW S, NEW T, S \subseteq T, NEW f \in Seq(S)
  PROVE  f \in Seq(T)
  OBVIOUS

-----------------------------------------------------------------------------
(* Sets of program counters the invariants speak of. *)

WritePcs == {"lock_upsert", "lock_delete", "mark"}
DropPcs == {"drop_exists", "drop_unlink"}

-----------------------------------------------------------------------------
(* The inductive invariant behind the type invariant and the registry. *)

(* A process that works on a collection holds an Arc of one that was made. *)
HoldsArc ==
  \A p \in Procs :
    /\ pc[p] \in WritePcs => p \in Workers /\ wr[p] \in Writes
    /\ pc[p] \in WritePcs \cup SavePcs \cup DropPcs \cup {"f_lock"} => gen[p] \in Gens
    /\ gen[p] # 0 => owner[gen[p]] \in Names
    /\ \A g \in todo[p] : owner[g] \in Names

(* Incarnations from nextGen on were never made. *)
Unmade ==
  \A g \in Gens : owner[g] \in Names => g < nextGen

(* What the registry says of a name is an incarnation made under it. *)
RegistryOwns ==
  \A n \in Names : registry[n] # 0 => owner[registry[n]] = n

(* The file a process has open exists under the entry fd says. *)
OpenFiles ==
  \A p \in Procs :
    /\ fd[p] # "none" => pc[p] = "f_write"
    /\ fd[p] = "tmp" => tmp[NameOf(p)] # Absent
    /\ fd[p] = "path" => path[NameOf(p)] # Absent

(* The offset of a save is inside the snapshot. *)
Offsets ==
  \A p \in Procs : blk[p] = 1 => pc[p] = "f_write" /\ index[gen[p]] # {}

(* Blocks of the incarnations made under name n. *)
BlocksOf(n) == {Hole} \cup {b \in Snapshot : owner[b.gen] = n}

(* The files of a name are made of such blocks. *)
FilesOwned ==
  \A n \in Names : /\ path[n] \in Seq(BlocksOf(n)) \cup {Absent}
                   /\ tmp[n] \in Seq(BlocksOf(n)) \cup {Absent}

(* The registry's write lock is held by a create whose name is free. *)
LockHeld ==
  regLock # NoProc => /\ regLock \in Workers
                      /\ pc[regLock] \in SavePcs
                      /\ registry[NameOf(regLock)] = 0

(* main works only in the final flush, and then no worker does. *)
Stopped ==
  /\ phase = "final" => \A p \in Workers : pc[p] = "idle"
  /\ phase # "final" => pc[Main] = "idle"
  /\ ~ Alive => \A p \in Procs : pc[p] = "idle"

IInv ==
  /\ TypeOK /\ HoldsArc /\ Unmade /\ RegistryOwns /\ OpenFiles /\ Offsets
  /\ FilesOwned /\ LockHeld /\ Stopped

-----------------------------------------------------------------------------
(* The inductive invariant behind whole snapshots. *)

(* What clients and operators must not do for saves never to overlap. *)
SavesExclusive ==
  /\ Ops \subseteq {"create", "upsert", "delete"}
  /\ ~ Shutdowns

(* Only creates and the background task save, never two for one name. *)
OneSaver ==
  /\ phase \in {"running", "crashed"}
  /\ phase = "crashed" => gen[Background] = 0 /\ todo[Background] = {}
  /\ pc[Main] = "idle"
  /\ \A p \in Workers :
       /\ pc[p] \notin DropPcs \cup {"f_lock", "next"}
       /\ pc[p] \in SavePcs => regLock = p
  /\ gen[Background] # 0 => registry[NameOf(Background)] = gen[Background]
  /\ pc[Background] \notin DropPcs \cup WritePcs
  /\ \A g \in todo[Background] : registry[owner[g]] = g

(* A save under way has its blocks, and nothing else, in the temporary file. *)
Progress(p) ==
  /\ fd[p] \in {"none", "tmp"}
  /\ pc[p] = "f_write" => /\ fd[p] = "tmp"
                          /\ Prefix(tmp[NameOf(p)], Current(gen[p]), blk[p])
  /\ pc[p] = "f_rename" =>
       Prefix(tmp[NameOf(p)], Current(gen[p]), Size(Current(gen[p])))

SaveProgress == \A p \in Procs : Progress(p)

WInv == IInv /\ OneSaver /\ SaveProgress /\ NoTruncatedSnapshot

-----------------------------------------------------------------------------
(* What is in the registry, in a hand or on a list was made and is a file's name. *)
LEMMA OwnerType ==
  ASSUME IInv
  PROVE  /\ \A p \in Procs : gen[p] # 0 => gen[p] \in Gens /\ NameOf(p) \in Names
         /\ \A n \in Names : registry[n] # 0 => registry[n] \in Gens
  BY DEF IInv, TypeOK, HoldsArc, NameOf

(* A file that load accepts holds an incarnation made under its name. *)
LEMMA LoadedType ==
  ASSUME IInv, NEW n \in Names, path[n] # Absent, Readable(path[n])
  PROVE  /\ Loaded(path[n]) \in Snapshot
         /\ owner[Loaded(path[n]).gen] = n
<1>1. path[n] \in Seq(BlocksOf(n)) /\ path[n] # << >> /\ path[n][1] # Hole
  BY DEF IInv, FilesOwned, Readable
<1>2. path[n][1] \in BlocksOf(n)
  BY <1>1
<1> QED
  BY <1>1, <1>2 DEF BlocksOf, Loaded

(* Nothing was made, nobody is at work. *)
LEMMA InitInv == Init => IInv
<1> SUFFICES ASSUME Init PROVE IInv
  OBVIOUS
<1> USE ServerAssumption DEF Init
<1>1. TypeOK
  BY DEF TypeOK, Phases, Pcs, SavePcs, Entry
<1>2. HoldsArc /\ Unmade /\ RegistryOwns
  BY DEF HoldsArc, WritePcs, SavePcs, DropPcs, Unmade, RegistryOwns
<1>3. OpenFiles /\ Offsets /\ FilesOwned /\ LockHeld /\ Stopped
  BY DEF OpenFiles, Offsets, FilesOwned, LockHeld, Stopped, Alive, Procs, Flushers
<1> QED
  BY <1>1, <1>2, <1>3 DEF IInv

(* A request takes its Arc from the registry, which holds only made ones. *)
LEMMA StartWriteInv ==
  ASSUME IInv, NEW p \in Workers, NEW n \in Names, StartWrite(p, n)
  PROVE  IInv'
<1> USE ServerAssumption DEF IInv, StartWrite, Get, memory, files, procs, history
<1>a. nextWrite \in Writes /\ nextWrite + 1 \in 1 .. MaxWrites + 1
  BY DEF TypeOK
<1>1. TypeOK'
  BY <1>a DEF TypeOK, Pcs
<1>2. HoldsArc'
  BY DEF HoldsArc, TypeOK, WritePcs, SavePcs, DropPcs, RegistryOwns
<1>3. Unmade' /\ RegistryOwns'
  BY DEF Unmade, RegistryOwns, TypeOK
<1>4. OpenFiles'
  BY DEF OpenFiles, TypeOK, NameOf
<1>5. Offsets'
  BY DEF Offsets, TypeOK
<1>6. FilesOwned'
  BY DEF FilesOwned, BlocksOf
<1>7. LockHeld'
  BY DEF LockHeld, TypeOK, NameOf, SavePcs, Procs, Flushers
<1>8. Stopped'
  BY DEF Stopped, TypeOK, Alive, Procs, Flushers
<1> QED
  BY <1>1, <1>2, <1>3, <1>4, <1>5, <1>6, <1>7, <1>8

(* As for a write: the Arc comes out of the registry. *)
LEMMA StartSnapshotInv ==
  ASSUME IInv, NEW p \in Workers, NEW n \in Names, StartSnapshot(p, n)
  PROVE  IInv'
<1> USE ServerAssumption DEF IInv, StartSnapshot, Get, memory, files, procs, history
<1>1. TypeOK'
  BY DEF TypeOK, HoldsArc, Pcs, Phases, SavePcs, WritePcs, DropPcs
<1>2. HoldsArc'
  BY DEF HoldsArc, TypeOK, WritePcs, SavePcs, DropPcs, RegistryOwns
<1>3. Unmade' /\ RegistryOwns'
  BY DEF Unmade, RegistryOwns, TypeOK
<1>4. OpenFiles'
  BY DEF OpenFiles, TypeOK, NameOf
<1>5. Offsets'
  BY DEF Offsets, TypeOK
<1>6. FilesOwned'
  BY DEF FilesOwned, BlocksOf
<1>7. LockHeld'
  BY DEF LockHeld, TypeOK, NameOf, SavePcs, Procs, Flushers
<1>8. Stopped'
  BY DEF Stopped, TypeOK, Alive, Procs, Flushers
<1> QED
  BY <1>1, <1>2, <1>3, <1>4, <1>5, <1>6, <1>7, <1>8

(* No save is under way, so no offset depends on the index that grows. *)
LEMMA ApplyWriteInv ==
  ASSUME IInv, NEW p \in Procs, ApplyWrite(p)
  PROVE  IInv'
<1> USE ServerAssumption DEF IInv, ApplyWrite, memory, files, procs, history
<1>1. TypeOK'
  BY DEF TypeOK, HoldsArc, Pcs, Phases, SavePcs, WritePcs, DropPcs
<1>2. HoldsArc'
  BY DEF HoldsArc, TypeOK, WritePcs, SavePcs, DropPcs
<1>3. Unmade' /\ RegistryOwns'
  BY DEF Unmade, RegistryOwns, TypeOK
<1>4. OpenFiles'
  BY DEF OpenFiles, TypeOK, NameOf
<1>5. Offsets'
  BY DEF Offsets, TypeOK
<1>6. FilesOwned'
  BY DEF FilesOwned, BlocksOf
<1>7. LockHeld'
  BY DEF LockHeld, TypeOK, NameOf, SavePcs, Procs, Flushers
<1>8. Stopped'
  BY DEF Stopped, TypeOK, Alive, Procs, Flushers
<1> QED
  BY <1>1, <1>2, <1>3, <1>4, <1>5, <1>6, <1>7, <1>8

(* The request ends; nothing but the process changes. *)
LEMMA ApplyNothingInv ==
  ASSUME IInv, NEW p \in Procs, ApplyNothing(p)
  PROVE  IInv'
<1> USE ServerAssumption DEF IInv, ApplyNothing, Finish, memory, files, procs, history
<1>1. TypeOK'
  BY DEF TypeOK, HoldsArc, Pcs, Phases, SavePcs, WritePcs, DropPcs
<1>2. HoldsArc'
  BY DEF HoldsArc, TypeOK, WritePcs, SavePcs, DropPcs
<1>3. Unmade' /\ RegistryOwns'
  BY DEF Unmade, RegistryOwns, TypeOK
<1>4. OpenFiles'
  BY DEF OpenFiles, TypeOK, NameOf
<1>5. Offsets'
  BY DEF Offsets, TypeOK
<1>6. FilesOwned'
  BY DEF FilesOwned, BlocksOf
<1>7. LockHeld'
  BY DEF LockHeld, TypeOK, NameOf, SavePcs, Procs, Flushers
<1>8. Stopped'
  BY DEF Stopped, TypeOK, Alive, Procs, Flushers
<1> QED
  BY <1>1, <1>2, <1>3, <1>4, <1>5, <1>6, <1>7, <1>8

(* The mutation it acknowledges is one that was asked for. *)
LEMMA MarkDirtyInv ==
  ASSUME IInv, NEW p \in Procs, MarkDirty(p)
  PROVE  IInv'
<1> USE ServerAssumption DEF IInv, MarkDirty, Finish, memory, files, procs, history
<1>1. TypeOK'
  BY DEF TypeOK, HoldsArc, Pcs, Phases, SavePcs, WritePcs, DropPcs
<1>2. HoldsArc'
  BY DEF HoldsArc, TypeOK, WritePcs, SavePcs, DropPcs
<1>3. Unmade' /\ RegistryOwns'
  BY DEF Unmade, RegistryOwns, TypeOK
<1>4. OpenFiles'
  BY DEF OpenFiles, TypeOK, NameOf
<1>5. Offsets'
  BY DEF Offsets, TypeOK
<1>6. FilesOwned'
  BY DEF FilesOwned, BlocksOf
<1>7. LockHeld'
  BY DEF LockHeld, TypeOK, NameOf, SavePcs, Procs, Flushers
<1>8. Stopped'
  BY DEF Stopped, TypeOK, Alive, Procs, Flushers
<1> QED
  BY <1>1, <1>2, <1>3, <1>4, <1>5, <1>6, <1>7, <1>8

(* The process holds its Arc already. *)
LEMMA FlushLockInv ==
  ASSUME IInv, NEW p \in Procs, FlushLock(p)
  PROVE  IInv'
<1> USE ServerAssumption DEF IInv, FlushLock, memory, files, procs, history
<1>1. TypeOK'
  BY DEF TypeOK, HoldsArc, Pcs, Phases, SavePcs, WritePcs, DropPcs
<1>2. HoldsArc'
  BY DEF HoldsArc, TypeOK, WritePcs, SavePcs, DropPcs
<1>3. Unmade' /\ RegistryOwns'
  BY DEF Unmade, RegistryOwns, TypeOK
<1>4. OpenFiles'
  BY DEF OpenFiles, TypeOK, NameOf
<1>5. Offsets'
  BY DEF Offsets, TypeOK
<1>6. FilesOwned'
  BY DEF FilesOwned, BlocksOf
<1>7. LockHeld'
  BY DEF LockHeld, TypeOK, NameOf, SavePcs, Procs, Flushers
<1>8. Stopped'
  BY DEF Stopped, TypeOK, Alive, Procs, Flushers
<1> QED
  BY <1>1, <1>2, <1>3, <1>4, <1>5, <1>6, <1>7, <1>8

(* The empty file is a file of the name; descriptors on it stay good. *)
LEMMA OpenTmpInv ==
  ASSUME IInv, NEW p \in Procs, OpenTmp(p)
  PROVE  IInv'
<1> USE ServerAssumption DEF IInv, OpenTmp, memory, files, procs, history
<1>a. gen[p] \in Gens /\ NameOf(p) \in Names /\ gen[p] # 0
  BY OwnerType DEF HoldsArc, SavePcs
<1>b. << >> \in File
  BY DEF File
<1>c. << >> # Absent
  BY <1>b
<1>1. TypeOK'
  BY <1>a, <1>b DEF TypeOK, Entry, Pcs, SavePcs
<1>2. HoldsArc'
  BY DEF HoldsArc, TypeOK, WritePcs, SavePcs, DropPcs
<1>3. Unmade' /\ RegistryOwns'
  BY DEF Unmade, RegistryOwns, TypeOK
<1>4. OpenFiles'
  BY <1>a, <1>c DEF TypeOK, OpenFiles, NameOf
<1>5. Offsets'
  <2> SUFFICES ASSUME NEW q \in Procs, blk'[q] = 1
               PROVE  pc'[q] = "f_write" /\ index'[gen'[q]] # {}
    BY DEF Offsets
  <2>1. blk[q] = 1 /\ (q = p => pc[q] # "f_write")
    BY DEF TypeOK
  <2>2. pc[q] = "f_write" /\ index[gen[q]] # {} /\ q # p
    BY <2>1 DEF Offsets
  <2>3. pc'[q] = pc[q] /\ gen'[q] = gen[q] /\ index' = index
    BY <2>2 DEF TypeOK
  <2> QED
    BY <2>2, <2>3
<1>6. FilesOwned'
  BY <1>a DEF FilesOwned, BlocksOf, TypeOK
<1>7. LockHeld'
  BY DEF LockHeld, TypeOK, NameOf, SavePcs, Procs, Flushers
<1>8. Stopped'
  BY DEF Stopped, TypeOK, Alive, Procs, Flushers
<1> QED
  BY <1>1, <1>2, <1>3, <1>4, <1>5, <1>6, <1>7, <1>8

(* The block written is one of the collection, at an offset inside it. *)
LEMMA WriteBlockInv ==
  ASSUME IInv, NEW p \in Procs, WriteBlock(p)
  PROVE  IInv'
<1> USE ServerAssumption DEF IInv, WriteBlock, memory, files, procs, history
<1> DEFINE s == Current(gen[p])
           i == blk[p] + 1
<1>a. gen[p] \in Gens /\ gen[p] # 0 /\ NameOf(p) \in Names
  BY OwnerType DEF HoldsArc, SavePcs
<1>b. s \in Block /\ s.gen = gen[p] /\ i \in 1 .. 2 /\ Size(s) \in 1 .. 2
  BY <1>a DEF TypeOK, Current, Block, Snapshot, Size
<1>c. /\ fd[p] = "tmp" => tmp[NameOf(p)] \in File /\ WriteAt(tmp[NameOf(p)], i, s) \in File
      /\ fd[p] = "path" => path[NameOf(p)] \in File /\ WriteAt(path[NameOf(p)], i, s) \in File
  BY <1>a, <1>b, WriteAtType DEF TypeOK, Entry, OpenFiles, File, Block
<1>d. i # Size(s) => i = 1 /\ index[gen[p]] # {}
  BY <1>a DEF Offsets, TypeOK, Size, Current
<1>e. /\ s \in BlocksOf(NameOf(p))
      /\ fd[p] = "tmp" => /\ tmp[NameOf(p)] \in Seq(BlocksOf(NameOf(p)))
                         /\ WriteAt(tmp[NameOf(p)], i, s) \in Seq(BlocksOf(NameOf(p)))
      /\ fd[p] = "path" => /\ path[NameOf(p)] \in Seq(BlocksOf(NameOf(p)))
                          /\ WriteAt(path[NameOf(p)], i, s) \in Seq(BlocksOf(NameOf(p)))
  <2>1. s \in BlocksOf(NameOf(p)) /\ Hole \in BlocksOf(NameOf(p))
    BY <1>a, <1>b DEF BlocksOf, NameOf, Current, Snapshot, TypeOK
  <2> QED
    BY <2>1, <1>a, <1>b, WriteAtType DEF FilesOwned, OpenFiles
<1>1. TypeOK'
  BY <1>a, <1>b, <1>c, <1>d DEF TypeOK, Entry, Pcs, SavePcs
<1>2. HoldsArc'
  BY DEF HoldsArc, TypeOK, WritePcs, SavePcs, DropPcs
<1>3. Unmade' /\ RegistryOwns'
  BY DEF Unmade, RegistryOwns, TypeOK
<1>4. OpenFiles'
  BY <1>a, <1>b, <1>c DEF TypeOK, OpenFiles, NameOf
<1>5. Offsets'
  BY <1>a, <1>b, <1>d DEF TypeOK, Offsets
<1>6. FilesOwned'
  <2>1. \A m \in Names : BlocksOf(m)' = BlocksOf(m)
    BY DEF BlocksOf
  <2>2. CASE fd[p] = "tmp"
    BY <1>a, <1>e, <2>1, <2>2 DEF FilesOwned, TypeOK
  <2>3. CASE fd[p] = "path"
    BY <1>a, <1>e, <2>1, <2>3 DEF FilesOwned, TypeOK
  <2>4. CASE fd[p] \notin {"tmp", "path"}
    BY <2>1, <2>4 DEF FilesOwned
  <2> QED
    BY <2>2, <2>3, <2>4
<1>7. LockHeld'
  BY DEF LockHeld, TypeOK, NameOf, SavePcs, Procs, Flushers
<1>8. Stopped'
  BY DEF Stopped, TypeOK, Alive, Procs, Flushers
<1> QED
  BY <1>1, <1>2, <1>3, <1>4, <1>5, <1>6, <1>7, <1>8

(* What lands under the path is a file of the same name. *)
LEMMA RenameTmpInv ==
  ASSUME IInv, NEW p \in Procs, RenameTmp(p)
  PROVE  IInv'
<1> USE ServerAssumption DEF IInv, RenameTmp, memory, files, procs, history
<1>a. gen[p] \in Gens /\ NameOf(p) \in Names /\ gen[p] # 0
  BY OwnerType DEF HoldsArc, SavePcs
<1>1. TypeOK'
  <2>1. fd' \in [Procs -> {"none", "tmp", "path", "gone"}]
    BY DEF TypeOK
  <2>2. path' \in [Names -> Entry] /\ tmp' \in [Names -> Entry]
    BY <1>a DEF TypeOK, Entry
  <2> QED
    BY <2>1, <2>2 DEF TypeOK, Pcs, SavePcs
<1>2. HoldsArc'
  BY DEF HoldsArc, TypeOK, WritePcs, SavePcs, DropPcs
<1>3. Unmade' /\ RegistryOwns'
  BY DEF Unmade, RegistryOwns, TypeOK
<1>4. OpenFiles'
  BY <1>a DEF TypeOK, OpenFiles, NameOf
<1>5. Offsets'
  BY DEF Offsets, TypeOK
<1>6. FilesOwned'
  BY <1>a DEF FilesOwned, BlocksOf, TypeOK
<1>7. LockHeld'
  BY DEF LockHeld, TypeOK, NameOf, SavePcs, Procs, Flushers
<1>8. Stopped'
  BY DEF Stopped, TypeOK, Alive, Procs, Flushers
<1> QED
  BY <1>1, <1>2, <1>3, <1>4, <1>5, <1>6, <1>7, <1>8

(* Only the flag and the process change. *)
LEMMA ClearDirtyInv ==
  ASSUME IInv, NEW p \in Procs, ClearDirty(p)
  PROVE  IInv'
<1> USE ServerAssumption DEF IInv, ClearDirty, Finish, memory, files, procs, history
<1>1. TypeOK'
  BY DEF TypeOK, HoldsArc, Pcs, Phases, SavePcs, WritePcs, DropPcs
<1>2. HoldsArc'
  BY DEF HoldsArc, TypeOK, WritePcs, SavePcs, DropPcs
<1>3. Unmade' /\ RegistryOwns'
  BY DEF Unmade, RegistryOwns, TypeOK
<1>4. OpenFiles'
  BY DEF OpenFiles, TypeOK, NameOf
<1>5. Offsets'
  BY DEF Offsets, TypeOK
<1>6. FilesOwned'
  BY DEF FilesOwned, BlocksOf
<1>7. LockHeld'
  BY DEF LockHeld, TypeOK, NameOf, SavePcs, Procs, Flushers
<1>8. Stopped'
  BY DEF Stopped, TypeOK, Alive, Procs, Flushers
<1> QED
  BY <1>1, <1>2, <1>3, <1>4, <1>5, <1>6, <1>7, <1>8

(* A create that fails gives the registry back; the files stay. *)
LEMMA FlushFailsInv ==
  ASSUME IInv, NEW p \in Procs, FlushFails(p)
  PROVE  IInv'
<1> USE ServerAssumption DEF IInv, FlushFails, Finish, memory, files, procs, history
<1>1. TypeOK'
  BY DEF TypeOK, HoldsArc, Pcs, Phases, SavePcs, WritePcs, DropPcs
<1>2. HoldsArc'
  BY DEF HoldsArc, TypeOK, WritePcs, SavePcs, DropPcs
<1>3. Unmade' /\ RegistryOwns'
  BY DEF Unmade, RegistryOwns, TypeOK
<1>4. OpenFiles'
  BY DEF OpenFiles, TypeOK, NameOf
<1>5. Offsets'
  BY DEF Offsets, TypeOK
<1>6. FilesOwned'
  BY DEF FilesOwned, BlocksOf
<1>7. LockHeld'
  BY DEF LockHeld, TypeOK, NameOf, SavePcs, Procs, Flushers
<1>8. Stopped'
  BY DEF Stopped, TypeOK, Alive, Procs, Flushers
<1> QED
  BY <1>1, <1>2, <1>3, <1>4, <1>5, <1>6, <1>7, <1>8

(* The incarnation is new, so no Arc, file or entry refers to it yet. *)
LEMMA BeginCreateInv ==
  ASSUME IInv, NEW p \in Workers, NEW n \in Names, BeginCreate(p, n)
  PROVE  IInv'
<1> USE ServerAssumption DEF IInv, BeginCreate, memory, files, procs, history
<1>a. nextGen \in Gens /\ \A g \in Gens : owner[g] \in Names => g # nextGen
  BY DEF TypeOK, Unmade
<1>b. nextGen + 1 \in 1 .. MaxGens + 1
  BY DEF TypeOK
<1>1. TypeOK'
  BY <1>a, <1>b DEF TypeOK, Pcs, SavePcs, Procs
<1>2. HoldsArc'
  BY DEF HoldsArc, TypeOK, WritePcs, SavePcs, DropPcs
<1>3. Unmade' /\ RegistryOwns'
  BY <1>a DEF Unmade, RegistryOwns, TypeOK
<1>4. OpenFiles'
  BY <1>a DEF OpenFiles, TypeOK, NameOf, HoldsArc, SavePcs
<1>5. Offsets'
  BY DEF Offsets, TypeOK
<1>6. FilesOwned'
  <2>1. \A m \in Names : BlocksOf(m) \subseteq BlocksOf(m)'
    BY <1>a DEF BlocksOf, Snapshot, TypeOK
  <2> QED
    BY <2>1, SeqMonotone DEF FilesOwned
<1>7. LockHeld'
  BY DEF LockHeld, TypeOK, NameOf, SavePcs, Procs, Flushers
<1>8. Stopped'
  BY DEF Stopped, TypeOK, Alive, Procs, Flushers
<1> QED
  BY <1>1, <1>2, <1>3, <1>4, <1>5, <1>6, <1>7, <1>8

(* The name was free all the while its creator held the registry. *)
LEMMA PublishCreatedInv ==
  ASSUME IInv, NEW p \in Procs, PublishCreated(p)
  PROVE  IInv'
<1> USE ServerAssumption DEF IInv, PublishCreated, Finish, memory, files, procs, history
<1>a. gen[p] \in Gens /\ NameOf(p) \in Names
  BY OwnerType DEF HoldsArc, SavePcs
<1>1. TypeOK'
  BY DEF TypeOK, HoldsArc, Pcs, Phases, SavePcs, WritePcs, DropPcs
<1>2. HoldsArc'
  BY DEF HoldsArc, TypeOK, WritePcs, SavePcs, DropPcs
<1>3. Unmade' /\ RegistryOwns'
  BY <1>a DEF Unmade, RegistryOwns, TypeOK, NameOf
<1>4. OpenFiles'
  BY DEF OpenFiles, TypeOK, NameOf
<1>5. Offsets'
  BY DEF Offsets, TypeOK
<1>6. FilesOwned'
  BY DEF FilesOwned, BlocksOf
<1>7. LockHeld'
  BY DEF LockHeld, TypeOK, NameOf, SavePcs, Procs, Flushers
<1>8. Stopped'
  BY DEF Stopped, TypeOK, Alive, Procs, Flushers
<1> QED
  BY <1>1, <1>2, <1>3, <1>4, <1>5, <1>6, <1>7, <1>8

(* The Arc is the one the registry had. *)
LEMMA DropCollectionInv ==
  ASSUME IInv, NEW p \in Workers, NEW n \in Names, DropCollection(p, n)
  PROVE  IInv'
<1> USE ServerAssumption DEF IInv, DropCollection, memory, files, procs, history
<1>1. TypeOK'
  BY DEF TypeOK, HoldsArc, Pcs, Phases, SavePcs, WritePcs, DropPcs
<1>2. HoldsArc'
  BY DEF HoldsArc, TypeOK, WritePcs, SavePcs, DropPcs, RegistryOwns
<1>3. Unmade' /\ RegistryOwns'
  BY DEF Unmade, RegistryOwns, TypeOK
<1>4. OpenFiles'
  BY DEF OpenFiles, TypeOK, NameOf
<1>5. Offsets'
  BY DEF Offsets, TypeOK
<1>6. FilesOwned'
  BY DEF FilesOwned, BlocksOf
<1>7. LockHeld'
  BY DEF LockHeld, TypeOK, NameOf, SavePcs, Procs, Flushers
<1>8. Stopped'
  BY DEF Stopped, TypeOK, Alive, Procs, Flushers
<1> QED
  BY <1>1, <1>2, <1>3, <1>4, <1>5, <1>6, <1>7, <1>8

(* The process goes on with the same Arc or ends. *)
LEMMA DropExistsInv ==
  ASSUME IInv, NEW p \in Procs, DropExists(p)
  PROVE  IInv'
<1> USE ServerAssumption DEF IInv, DropExists, Finish, memory, files, procs, history
<1>a. gen[p] \in Gens
  BY DEF HoldsArc, DropPcs
<1>1. TypeOK'
  BY <1>a DEF TypeOK, Pcs
<1>2. HoldsArc'
  <2>1. CASE path[NameOf(p)] # Absent
    BY <2>1, <1>a DEF HoldsArc, TypeOK, WritePcs, SavePcs, DropPcs
  <2>2. CASE path[NameOf(p)] = Absent
    BY <2>2 DEF HoldsArc, TypeOK, WritePcs, SavePcs, DropPcs
  <2> QED
    BY <2>1, <2>2
<1>3. Unmade' /\ RegistryOwns'
  BY DEF Unmade, RegistryOwns, TypeOK
<1>4. OpenFiles'
  BY DEF OpenFiles, TypeOK, NameOf
<1>5. Offsets'
  <2> SUFFICES ASSUME NEW q \in Procs, blk'[q] = 1
               PROVE  pc'[q] = "f_write" /\ index'[gen'[q]] # {}
    BY DEF Offsets
  <2>1. blk[q] = 1 /\ (q = p => pc[q] # "f_write")
    BY DEF TypeOK
  <2>2. pc[q] = "f_write" /\ index[gen[q]] # {} /\ q # p
    BY <2>1 DEF Offsets
  <2>3. pc'[q] = pc[q] /\ gen'[q] = gen[q] /\ index' = index
    BY <2>2 DEF TypeOK
  <2> QED
    BY <2>2, <2>3
<1>6. FilesOwned'
  BY DEF FilesOwned, BlocksOf
<1>7. LockHeld'
  BY DEF LockHeld, TypeOK, NameOf, SavePcs, Procs, Flushers
<1>8. Stopped'
  BY DEF Stopped, TypeOK, Alive, Procs, Flushers
<1> QED
  BY <1>1, <1>2, <1>3, <1>4, <1>5, <1>6, <1>7, <1>8

(* Descriptors of the removed file no longer count as under its path. *)
LEMMA DropUnlinkInv ==
  ASSUME IInv, NEW p \in Procs, DropUnlink(p)
  PROVE  IInv'
<1> USE ServerAssumption DEF IInv, DropUnlink, Finish, memory, files, procs, history
<1>a. gen[p] \in Gens /\ NameOf(p) \in Names /\ gen[p] # 0
  BY OwnerType DEF HoldsArc, DropPcs
<1>1. TypeOK'
  BY <1>a DEF TypeOK, Pcs, Entry
<1>2. HoldsArc'
  BY DEF HoldsArc, TypeOK, WritePcs, SavePcs, DropPcs
<1>3. Unmade' /\ RegistryOwns'
  BY DEF Unmade, RegistryOwns, TypeOK
<1>4. OpenFiles'
  BY <1>a DEF TypeOK, OpenFiles, NameOf
<1>5. Offsets'
  BY DEF Offsets, TypeOK
<1>6. FilesOwned'
  BY <1>a DEF FilesOwned, BlocksOf, TypeOK
<1>7. LockHeld'
  BY DEF LockHeld, TypeOK, NameOf, SavePcs, Procs, Flushers
<1>8. Stopped'
  BY DEF Stopped, TypeOK, Alive, Procs, Flushers
<1> QED
  BY <1>1, <1>2, <1>3, <1>4, <1>5, <1>6, <1>7, <1>8

(* The list is a copy of what is registered. *)
LEMMA StartTickInv ==
  ASSUME IInv, StartTick
  PROVE  IInv'
<1> USE ServerAssumption DEF IInv, StartTick, memory, files, procs, history
<1>a. Registered \subseteq Gens /\ \A g \in Registered : owner[g] \in Names
  BY DEF Registered, TypeOK, RegistryOwns
<1>1. TypeOK'
  BY <1>a DEF TypeOK, Pcs, Phases
<1>2. HoldsArc'
  BY <1>a DEF HoldsArc, TypeOK, WritePcs, SavePcs, DropPcs
<1>3. Unmade' /\ RegistryOwns'
  BY DEF Unmade, RegistryOwns, TypeOK
<1>4. OpenFiles'
  BY DEF OpenFiles, TypeOK, NameOf
<1>5. Offsets'
  BY DEF Offsets, TypeOK
<1>6. FilesOwned'
  BY DEF FilesOwned, BlocksOf
<1>7. LockHeld'
  BY DEF LockHeld, TypeOK, NameOf, SavePcs, Procs, Flushers
<1>8. Stopped'
  BY DEF Stopped, TypeOK, Alive, Procs, Flushers
<1> QED
  BY <1>1, <1>2, <1>3, <1>4, <1>5, <1>6, <1>7, <1>8

(* The next Arc is one of the list. *)
LEMMA NextCollectionInv ==
  ASSUME IInv, NEW p \in Procs, NextCollection(p)
  PROVE  IInv'
<1> USE ServerAssumption DEF IInv, NextCollection, memory, files, procs, history
<1>a. PICK g \in todo[p] : /\ todo' = [todo EXCEPT ![p] = @ \ {g}]
                           /\ \/ gen' = [gen EXCEPT ![p] = g] /\ pc' = [pc EXCEPT ![p] = "f_lock"]
                              \/ UNCHANGED <<gen, pc>>
  OBVIOUS
<1>b. g \in Gens
  BY DEF TypeOK
<1>1. TypeOK'
  <2>1. todo' \in [Procs -> SUBSET Gens] /\ gen' \in [Procs -> Gens \cup {0}]
    BY <1>a, <1>b DEF TypeOK
  <2>2. pc' = [pc EXCEPT ![p] = "f_lock"] \/ pc' = pc
    BY <1>a
  <2>3. pc' \in [Procs -> Pcs]
    BY <2>2 DEF TypeOK, Pcs
  <2> QED
    BY <2>1, <2>3 DEF TypeOK
<1>2. HoldsArc'
  BY DEF HoldsArc, TypeOK, WritePcs, SavePcs, DropPcs
<1>3. Unmade' /\ RegistryOwns'
  BY DEF Unmade, RegistryOwns, TypeOK
<1>4. OpenFiles'
  BY DEF OpenFiles, TypeOK, NameOf
<1>5. Offsets'
  <2> SUFFICES ASSUME NEW q \in Procs, blk'[q] = 1
               PROVE  pc'[q] = "f_write" /\ index'[gen'[q]] # {}
    BY DEF Offsets
  <2>1. blk[q] = 1 /\ (q = p => pc[q] # "f_write")
    BY DEF TypeOK
  <2>2. pc[q] = "f_write" /\ index[gen[q]] # {} /\ q # p
    BY <2>1 DEF Offsets
  <2>3. pc'[q] = pc[q] /\ gen'[q] = gen[q] /\ index' = index
    BY <2>2 DEF TypeOK
  <2> QED
    BY <2>2, <2>3
<1>6. FilesOwned'
  BY DEF FilesOwned, BlocksOf
<1>7. LockHeld'
  BY DEF LockHeld, TypeOK, NameOf, SavePcs, Procs, Flushers
<1>8. Stopped'
  BY DEF Stopped, TypeOK, Alive, Procs, Flushers
<1> QED
  BY <1>1, <1>2, <1>3, <1>4, <1>5, <1>6, <1>7, <1>8

(* The process goes idle. *)
LEMMA EndFlushAllInv ==
  ASSUME IInv, NEW p \in Procs, EndFlushAll(p)
  PROVE  IInv'
<1> USE ServerAssumption DEF IInv, EndFlushAll, memory, files, procs, history
<1>1. TypeOK'
  BY DEF TypeOK, HoldsArc, Pcs, Phases, SavePcs, WritePcs, DropPcs
<1>2. HoldsArc'
  BY DEF HoldsArc, TypeOK, WritePcs, SavePcs, DropPcs
<1>3. Unmade' /\ RegistryOwns'
  BY DEF Unmade, RegistryOwns, TypeOK
<1>4. OpenFiles'
  BY DEF OpenFiles, TypeOK, NameOf
<1>5. Offsets'
  BY DEF Offsets, TypeOK
<1>6. FilesOwned'
  BY DEF FilesOwned, BlocksOf
<1>7. LockHeld'
  BY DEF LockHeld, TypeOK, NameOf, SavePcs, Procs, Flushers
<1>8. Stopped'
  BY DEF Stopped, TypeOK, Alive, Procs, Flushers
<1> QED
  BY <1>1, <1>2, <1>3, <1>4, <1>5, <1>6, <1>7, <1>8

(* Only the phase changes, among those of a live server. *)
LEMMA SignalInv ==
  ASSUME IInv, Signal
  PROVE  IInv'
<1> USE ServerAssumption DEF IInv, Signal, memory, files, procs, history
<1>1. TypeOK'
  BY DEF TypeOK, HoldsArc, Pcs, Phases, SavePcs, WritePcs, DropPcs
<1>2. HoldsArc'
  BY DEF HoldsArc, TypeOK, WritePcs, SavePcs, DropPcs
<1>3. Unmade' /\ RegistryOwns'
  BY DEF Unmade, RegistryOwns, TypeOK
<1>4. OpenFiles'
  BY DEF OpenFiles, TypeOK, NameOf
<1>5. Offsets'
  BY DEF Offsets, TypeOK
<1>6. FilesOwned'
  BY DEF FilesOwned, BlocksOf
<1>7. LockHeld'
  BY DEF LockHeld, TypeOK, NameOf, SavePcs, Procs, Flushers
<1>8. Stopped'
  BY DEF Stopped, TypeOK, Alive, Procs, Flushers
<1> QED
  BY <1>1, <1>2, <1>3, <1>4, <1>5, <1>6, <1>7, <1>8

(* All requests are done when main gets its list. *)
LEMMA StartFinalFlushInv ==
  ASSUME IInv, StartFinalFlush
  PROVE  IInv'
<1> USE ServerAssumption DEF IInv, StartFinalFlush, memory, files, procs, history
<1>a. Registered \subseteq Gens /\ \A g \in Registered : owner[g] \in Names
  BY DEF Registered, TypeOK, RegistryOwns
<1>1. TypeOK'
  BY <1>a DEF TypeOK, Pcs, Phases
<1>2. HoldsArc'
  BY <1>a DEF HoldsArc, TypeOK, WritePcs, SavePcs, DropPcs
<1>3. Unmade' /\ RegistryOwns'
  BY DEF Unmade, RegistryOwns, TypeOK
<1>4. OpenFiles'
  BY DEF OpenFiles, TypeOK, NameOf, Stopped
<1>5. Offsets'
  BY DEF Offsets, TypeOK, Stopped
<1>6. FilesOwned'
  BY DEF FilesOwned, BlocksOf
<1>7. LockHeld'
  BY DEF LockHeld, TypeOK, NameOf, SavePcs, Procs, Flushers
<1>8. Stopped'
  BY DEF Stopped, TypeOK, Alive, Procs, Flushers
<1> QED
  BY <1>1, <1>2, <1>3, <1>4, <1>5, <1>6, <1>7, <1>8

(* Nobody is at work when the process ends. *)
LEMMA ExitInv ==
  ASSUME IInv, Exit
  PROVE  IInv'
<1> USE ServerAssumption DEF IInv, Exit, memory, files, procs, history
<1>1. TypeOK'
  BY DEF TypeOK, HoldsArc, Pcs, Phases, SavePcs, WritePcs, DropPcs
<1>2. HoldsArc'
  BY DEF HoldsArc, TypeOK, WritePcs, SavePcs, DropPcs
<1>3. Unmade' /\ RegistryOwns'
  BY DEF Unmade, RegistryOwns, TypeOK
<1>4. OpenFiles'
  BY DEF OpenFiles, TypeOK, NameOf
<1>5. Offsets'
  BY DEF Offsets, TypeOK
<1>6. FilesOwned'
  BY DEF FilesOwned, BlocksOf
<1>7. LockHeld'
  BY DEF LockHeld, TypeOK, NameOf, SavePcs, Procs, Flushers
<1>8. Stopped'
  BY DEF Stopped, MainReturned, TypeOK, Alive, Procs, Flushers
<1> QED
  BY <1>1, <1>2, <1>3, <1>4, <1>5, <1>6, <1>7, <1>8

(* Everything a process had is gone; the files are as they were. *)
LEMMA CrashInv ==
  ASSUME IInv, Crash
  PROVE  IInv'
<1> USE ServerAssumption DEF IInv, Crash, memory, files, procs, history
<1>1. TypeOK'
  BY DEF TypeOK, HoldsArc, Pcs, Phases, SavePcs, WritePcs, DropPcs
<1>2. HoldsArc'
  BY DEF HoldsArc, TypeOK, WritePcs, SavePcs, DropPcs
<1>3. Unmade' /\ RegistryOwns'
  BY DEF Unmade, RegistryOwns, TypeOK
<1>4. OpenFiles'
  BY DEF OpenFiles, TypeOK, NameOf
<1>5. Offsets'
  BY DEF Offsets, TypeOK
<1>6. FilesOwned'
  BY DEF FilesOwned, BlocksOf
<1>7. LockHeld'
  BY DEF LockHeld, TypeOK, NameOf, SavePcs, Procs, Flushers
<1>8. Stopped'
  BY DEF Stopped, TypeOK, Alive, Procs, Flushers
<1> QED
  BY <1>1, <1>2, <1>3, <1>4, <1>5, <1>6, <1>7, <1>8

(* A readable file of a name is an incarnation made under that name. *)
LEMMA LoadInv ==
  ASSUME IInv, Load
  PROVE  IInv'
<1> USE ServerAssumption DEF IInv, Load, memory, files, procs, history
<1>a. \A n \in Names : path[n] # Absent => /\ Loaded(path[n]) \in Snapshot
                                             /\ owner[Loaded(path[n]).gen] = n
  BY LoadedType
<1>b. regLock = NoProc
  BY DEF LockHeld, Stopped, Alive, SavePcs, Procs
<1>1. TypeOK'
  BY <1>a DEF TypeOK, Phases, Snapshot
<1>2. HoldsArc'
  BY DEF HoldsArc, TypeOK, WritePcs, SavePcs, DropPcs
<1>3. Unmade' /\ RegistryOwns'
  BY <1>a DEF Unmade, RegistryOwns, TypeOK, Snapshot
<1>4. OpenFiles'
  BY DEF OpenFiles, TypeOK, NameOf
<1>5. Offsets'
  BY DEF Offsets, Stopped, Alive, Procs
<1>6. FilesOwned'
  BY DEF FilesOwned, BlocksOf
<1>7. LockHeld'
  BY <1>b DEF LockHeld
<1>8. Stopped'
  BY DEF Stopped, TypeOK, Alive, Procs, Flushers
<1> QED
  BY <1>1, <1>2, <1>3, <1>4, <1>5, <1>6, <1>7, <1>8

(* Only the phase changes, among those of a server that is down. *)
LEMMA LoadFailsInv ==
  ASSUME IInv, LoadFails
  PROVE  IInv'
<1> USE ServerAssumption DEF IInv, LoadFails, memory, files, procs, history
<1>1. TypeOK'
  BY DEF TypeOK, HoldsArc, Pcs, Phases, SavePcs, WritePcs, DropPcs
<1>2. HoldsArc'
  BY DEF HoldsArc, TypeOK, WritePcs, SavePcs, DropPcs
<1>3. Unmade' /\ RegistryOwns'
  BY DEF Unmade, RegistryOwns, TypeOK
<1>4. OpenFiles'
  BY DEF OpenFiles, TypeOK, NameOf
<1>5. Offsets'
  BY DEF Offsets, TypeOK
<1>6. FilesOwned'
  BY DEF FilesOwned, BlocksOf
<1>7. LockHeld'
  BY DEF LockHeld, TypeOK, NameOf, SavePcs, Procs, Flushers
<1>8. Stopped'
  BY DEF Stopped, TypeOK, Alive, Procs, Flushers
<1> QED
  BY <1>1, <1>2, <1>3, <1>4, <1>5, <1>6, <1>7, <1>8

-----------------------------------------------------------------------------
(* The theorems that follow from IInv. *)

(* One case per step of a process. *)
LEMMA ContinueInv ==
  ASSUME IInv, NEW p \in Procs, Continue(p)
  PROVE  IInv'
  BY ApplyWriteInv, ApplyNothingInv, MarkDirtyInv, FlushLockInv, OpenTmpInv,
     WriteBlockInv, RenameTmpInv, ClearDirtyInv, FlushFailsInv, PublishCreatedInv,
     DropExistsInv, DropUnlinkInv, NextCollectionInv, EndFlushAllInv
     DEF Continue

(* The invariant is preserved by every step and by stuttering. *)
LEMMA NextInv == IInv /\ [Next]_vars => IInv'
<1> SUFFICES ASSUME IInv, [Next]_vars PROVE IInv'
  OBVIOUS
<1>1. CASE \E p \in Workers, n \in Names : Request(p, n)
  BY <1>1, StartWriteInv, StartSnapshotInv, BeginCreateInv, DropCollectionInv DEF Request
<1>2. CASE \E p \in Procs : Continue(p)
  BY <1>2, ContinueInv
<1>3. CASE StartTick
  BY <1>3, StartTickInv
<1>4. CASE Lifecycle
  BY <1>4, SignalInv, StartFinalFlushInv, ExitInv, CrashInv, LoadInv, LoadFailsInv
     DEF Lifecycle
<1>5. CASE UNCHANGED vars
  <2> USE <1>5 DEF vars, memory, files, procs, history, IInv
  <2>1. TypeOK' /\ Offsets' /\ Stopped'
    BY DEF TypeOK, Offsets, Stopped, Alive
  <2>2. HoldsArc' /\ Unmade' /\ RegistryOwns' /\ OpenFiles' /\ LockHeld'
    BY DEF HoldsArc, Unmade, RegistryOwns, OpenFiles, LockHeld, NameOf
  <2>3. FilesOwned'
    BY DEF FilesOwned, BlocksOf
  <2> QED
    BY <2>1, <2>2, <2>3
<1> QED
  BY <1>1, <1>2, <1>3, <1>4, <1>5 DEF Next

(* What holds of the registry, the Arcs, the lock and the open files in every
   state that can be reached; the theorems below rest on it. *)
THEOREM InductiveInvariant == Spec => []IInv
  BY InitInv, NextInv, PTL DEF Spec

(***************************************************************************)
(* Type correctness: among the rest, a save never writes past the end of   *)
(* its snapshot, and a descriptor is always that of a file that exists.    *)
(***************************************************************************)
THEOREM TypeCorrect == Spec => []TypeOK
<1>1. IInv => TypeOK
  BY DEF IInv
<1> QED
  BY <1>1, InductiveInvariant, PTL

(***************************************************************************)
(* routes.rs:171-224: between the check that a name is free and the        *)
(* insertion nobody else inserts under that name.                          *)
(***************************************************************************)
THEOREM CreateIsExclusive == Spec => RegisteredNeverReplaced
<1> DEFINE Kept == \A n \in Names : Alive /\ registry[n] # 0
                                      => registry'[n] \in {registry[n], 0}
<1>1. ASSUME IInv, [Next]_vars PROVE [Kept]_vars
  <2>1. CASE \E p \in Procs : PublishCreated(p)
    BY <1>1, <2>1, ServerAssumption DEF IInv, LockHeld, PublishCreated, TypeOK
  <2>2. CASE \E p \in Workers, n \in Names : DropCollection(p, n)
    BY <1>1, <2>2 DEF IInv, TypeOK, DropCollection
  <2>3. CASE Crash \/ Load
    BY <2>3 DEF Crash, Load, Alive
  <2>4. CASE UNCHANGED registry
    BY <2>4
  <2>5. CASE UNCHANGED vars
    BY <2>5
  <2>6. ASSUME NEW p \in Workers, NEW n \in Names, Request(p, n), ~ DropCollection(p, n)
        PROVE  UNCHANGED registry
    BY <2>6 DEF Request, StartWrite, StartSnapshot, BeginCreate, memory
  <2>7. ASSUME NEW p \in Procs, Continue(p), ~ PublishCreated(p)
        PROVE  UNCHANGED registry
    BY <2>7 DEF Continue, ApplyWrite, ApplyNothing, MarkDirty, FlushLock, OpenTmp,
       WriteBlock, RenameTmp, ClearDirty, FlushFails, DropExists, DropUnlink,
       NextCollection, EndFlushAll, memory
  <2>8. ASSUME StartTick \/ Lifecycle, ~ Crash, ~ Load
        PROVE  UNCHANGED registry
    BY <2>8 DEF StartTick, Lifecycle, Signal, StartFinalFlush, Exit, LoadFails, memory
  <2> QED
    BY <1>1, <2>1, <2>2, <2>3, <2>4, <2>5, <2>6, <2>7, <2>8 DEF Next
<1> QED
  BY <1>1, InductiveInvariant, PTL DEF Spec, RegisteredNeverReplaced

-----------------------------------------------------------------------------
(* Whole snapshots, when saves are exclusive. *)

(* Two saves under way at a time work on the files of different names. *)
LEMMA SaversApart ==
  ASSUME WInv, NEW p \in Procs, NEW q \in Procs, p # q,
         pc[p] \in SavePcs, pc[q] \in SavePcs
  PROVE  NameOf(p) # NameOf(q)
<1>1. ASSUME NEW r \in Procs, pc[r] \in SavePcs
      PROVE  r = Background \/ (r \in Workers /\ regLock = r)
  BY <1>1 DEF WInv, OneSaver, Procs, Flushers, SavePcs
<1>2. ASSUME NEW r \in Workers, regLock = r, pc[Background] \in SavePcs
      PROVE  NameOf(r) # NameOf(Background)
  <2>1. registry[NameOf(r)] = 0
    BY <1>2, ServerAssumption DEF WInv, IInv, LockHeld, Procs
  <2>2. gen[Background] # 0 /\ registry[NameOf(Background)] = gen[Background]
    BY <1>2, ServerAssumption DEF WInv, IInv, HoldsArc, OneSaver, Procs, Flushers, SavePcs
  <2> QED
    BY <2>1, <2>2
<1> QED
  BY <1>1, <1>2

(* No save begins. *)
LEMMA StartWriteWhole ==
  ASSUME SavesExclusive, WInv, NEW p \in Workers, NEW n \in Names, StartWrite(p, n)
  PROVE  (OneSaver /\ SaveProgress /\ NoTruncatedSnapshot)'
<1> USE ServerAssumption DEF WInv, IInv, StartWrite, Get, memory, files, procs, history
<1>1. OneSaver'
  BY DEF OneSaver, NameOf, TypeOK, SavePcs, WritePcs, DropPcs, Procs, Flushers
<1>2. SaveProgress'
  <2> SUFFICES ASSUME NEW q \in Procs PROVE Progress(q)'
    BY DEF SaveProgress
  <2>1. CASE q = p
    BY <2>1 DEF SaveProgress, Progress, TypeOK, NameOf, Current
  <2>2. CASE q # p
    BY <2>2 DEF SaveProgress, Progress, TypeOK, NameOf, Current
  <2> QED
    BY <2>1, <2>2
<1>3. NoTruncatedSnapshot'
  BY DEF NoTruncatedSnapshot
<1> QED
  BY <1>1, <1>2, <1>3

(* The index that changes is being saved by nobody. *)
LEMMA ApplyWriteWhole ==
  ASSUME SavesExclusive, WInv, NEW p \in Procs, ApplyWrite(p)
  PROVE  (OneSaver /\ SaveProgress /\ NoTruncatedSnapshot)'
<1> USE ServerAssumption DEF WInv, IInv, ApplyWrite, WriteLockFree, Saving, memory, files, procs, history
<1>1. OneSaver'
  BY DEF OneSaver, NameOf, TypeOK, SavePcs, WritePcs, DropPcs, Procs, Flushers
<1>2. SaveProgress'
  <2> SUFFICES ASSUME NEW q \in Procs PROVE Progress(q)'
    BY DEF SaveProgress
  <2>1. CASE q = p
    BY <2>1 DEF SaveProgress, Progress, TypeOK
  <2>2. CASE q # p /\ pc[q] \notin SavePcs
    BY <2>2 DEF SaveProgress, Progress, TypeOK, SavePcs
  <2>3. CASE q # p /\ pc[q] \in SavePcs
    <3>1. gen[q] # gen[p] /\ index'[gen[q]] = index[gen[q]] /\ pc'[q] = pc[q]
      BY <2>3 DEF TypeOK
    <3> QED
      BY <3>1 DEF SaveProgress, Progress, NameOf, Current
  <2> QED
    BY <2>1, <2>2, <2>3
<1>3. NoTruncatedSnapshot'
  BY DEF NoTruncatedSnapshot
<1> QED
  BY <1>1, <1>2, <1>3

(* No save, file or index is touched. *)
LEMMA ApplyNothingWhole ==
  ASSUME SavesExclusive, WInv, NEW p \in Procs, ApplyNothing(p)
  PROVE  (OneSaver /\ SaveProgress /\ NoTruncatedSnapshot)'
<1> USE ServerAssumption DEF WInv, IInv, ApplyNothing, Finish, memory, files, procs, history
<1>1. OneSaver'
  BY DEF OneSaver, NameOf, TypeOK, SavePcs, WritePcs, DropPcs, Procs, Flushers
<1>2. SaveProgress'
  BY DEF SaveProgress, Progress, TypeOK, NameOf, Current, SavePcs
<1>3. NoTruncatedSnapshot'
  BY DEF NoTruncatedSnapshot
<1> QED
  BY <1>1, <1>2, <1>3

(* No save, file or index is touched. *)
LEMMA MarkDirtyWhole ==
  ASSUME SavesExclusive, WInv, NEW p \in Procs, MarkDirty(p)
  PROVE  (OneSaver /\ SaveProgress /\ NoTruncatedSnapshot)'
<1> USE ServerAssumption DEF WInv, IInv, MarkDirty, Finish, memory, files, procs, history
<1>1. OneSaver'
  BY DEF OneSaver, NameOf, TypeOK, SavePcs, WritePcs, DropPcs, Procs, Flushers
<1>2. SaveProgress'
  BY DEF SaveProgress, Progress, TypeOK, NameOf, Current, SavePcs
<1>3. NoTruncatedSnapshot'
  BY DEF NoTruncatedSnapshot
<1> QED
  BY <1>1, <1>2, <1>3

(* The save that begins has written nothing. *)
LEMMA FlushLockWhole ==
  ASSUME SavesExclusive, WInv, NEW p \in Procs, FlushLock(p)
  PROVE  (OneSaver /\ SaveProgress /\ NoTruncatedSnapshot)'
<1> USE ServerAssumption DEF WInv, IInv, FlushLock, memory, files, procs, history
<1>1. OneSaver'
  BY DEF OneSaver, NameOf, TypeOK, SavePcs, WritePcs, DropPcs, Procs, Flushers
<1>2. SaveProgress'
  BY DEF SaveProgress, Progress, TypeOK, NameOf, Current, SavePcs
<1>3. NoTruncatedSnapshot'
  BY DEF NoTruncatedSnapshot
<1> QED
  BY <1>1, <1>2, <1>3

(* Nobody else works on the files of the name, so the new file is this save's. *)
LEMMA OpenTmpWhole ==
  ASSUME SavesExclusive, WInv, NEW p \in Procs, OpenTmp(p)
  PROVE  (OneSaver /\ SaveProgress /\ NoTruncatedSnapshot)'
<1> USE ServerAssumption DEF WInv, IInv, OpenTmp, memory, files, procs, history
<1>a. gen[p] \in Gens /\ NameOf(p) \in Names /\ pc[p] \in SavePcs
  BY OwnerType DEF HoldsArc, SavePcs
<1>b. << >> \in File
  BY DEF File
<1>c. << >> # Absent
  BY <1>b
<1>1. OneSaver'
  BY DEF OneSaver, NameOf, TypeOK, SavePcs, WritePcs, DropPcs, Procs, Flushers
<1>2. SaveProgress'
  <2> SUFFICES ASSUME NEW q \in Procs PROVE Progress(q)'
    BY DEF SaveProgress
  <2>1. CASE q = p
    <3>1. fd'[p] = "tmp" /\ pc'[p] = "f_write" /\ blk'[p] = 0 /\ tmp'[NameOf(p)] = << >>
      BY <1>a DEF TypeOK
    <3>2. Prefix(<< >>, Current(gen[p]), 0)
      BY <1>c DEF Prefix
    <3> QED
      BY <2>1, <3>1, <3>2 DEF Progress, NameOf, Current
  <2>2. CASE q # p /\ pc[q] \in SavePcs
    <3>1. tmp'[NameOf(q)] = tmp[NameOf(q)] /\ pc'[q] = pc[q] /\ fd'[q] = fd[q] /\ blk'[q] = blk[q]
      BY <1>a, <2>2, SaversApart DEF TypeOK
    <3> QED
      BY <3>1 DEF SaveProgress, Progress, NameOf, Current
  <2>3. CASE q # p /\ pc[q] \notin SavePcs
    BY <2>3 DEF SaveProgress, Progress, SavePcs, TypeOK
  <2> QED
    BY <2>1, <2>2, <2>3
<1>3. NoTruncatedSnapshot'
  BY DEF NoTruncatedSnapshot
<1> QED
  BY <1>1, <1>2, <1>3

(* The file gets one block longer, and remains a beginning of the snapshot. *)
LEMMA WriteBlockWhole ==
  ASSUME SavesExclusive, WInv, NEW p \in Procs, WriteBlock(p)
  PROVE  (OneSaver /\ SaveProgress /\ NoTruncatedSnapshot)'
<1> USE ServerAssumption DEF WInv, IInv, WriteBlock, memory, files, procs, history
<1> DEFINE s == Current(gen[p])
           i == blk[p] + 1
<1>a. gen[p] \in Gens /\ gen[p] # 0 /\ NameOf(p) \in Names /\ pc[p] \in SavePcs
  BY OwnerType DEF HoldsArc, SavePcs
<1>b. s \in Block /\ blk[p] \in 0 .. 1
  BY <1>a DEF TypeOK, Current, Block, Snapshot
<1>c. fd[p] = "tmp" /\ tmp[NameOf(p)] \in File /\ Prefix(tmp[NameOf(p)], s, blk[p])
  BY <1>a DEF SaveProgress, Progress, TypeOK, Entry, Prefix
<1>d. Prefix(WriteAt(tmp[NameOf(p)], i, s), s, i)
  BY <1>b, <1>c, WriteAtPrefix
<1>e. /\ tmp' = [tmp EXCEPT ![NameOf(p)] = WriteAt(@, i, s)]
      /\ path' = path
  BY <1>c
<1>1. OneSaver'
  BY DEF OneSaver, NameOf, TypeOK, SavePcs, WritePcs, DropPcs, Procs, Flushers
<1>2. SaveProgress'
  <2> SUFFICES ASSUME NEW q \in Procs PROVE Progress(q)'
    BY DEF SaveProgress
  <2>1. CASE q = p
    <3>1. tmp'[NameOf(p)] = WriteAt(tmp[NameOf(p)], i, s)
      BY <1>a, <1>e DEF TypeOK
    <3>2. Prefix(tmp'[NameOf(p)], s, i)
      BY <3>1, <1>d
    <3>3. CASE i = Size(s)
      <4>1. fd'[p] = "none" /\ pc'[p] = "f_rename"
        BY <3>3 DEF TypeOK
      <4> QED
        BY <2>1, <3>2, <3>3, <4>1 DEF Progress, NameOf, Current
    <3>4. CASE i # Size(s)
      <4>1. fd'[p] = "tmp" /\ pc'[p] = "f_write" /\ blk'[p] = i
        BY <3>4, <1>c DEF TypeOK
      <4> QED
        BY <2>1, <3>2, <4>1 DEF Progress, NameOf, Current
    <3> QED
      BY <3>3, <3>4
  <2>2. CASE q # p /\ pc[q] \in SavePcs
    <3>1. tmp'[NameOf(q)] = tmp[NameOf(q)] /\ pc'[q] = pc[q] /\ fd'[q] = fd[q] /\ blk'[q] = blk[q]
      BY <1>a, <1>e, <2>2, SaversApart DEF TypeOK
    <3> QED
      BY <3>1 DEF SaveProgress, Progress, NameOf, Current
  <2>3. CASE q # p /\ pc[q] \notin SavePcs
    BY <2>3 DEF SaveProgress, Progress, SavePcs, TypeOK
  <2> QED
    BY <2>1, <2>2, <2>3
<1>3. NoTruncatedSnapshot'
  BY <1>e DEF NoTruncatedSnapshot
<1> QED
  BY <1>1, <1>2, <1>3

(* The file that gets the name holds all blocks of the snapshot. *)
LEMMA RenameTmpWhole ==
  ASSUME SavesExclusive, WInv, NEW p \in Procs, RenameTmp(p)
  PROVE  (OneSaver /\ SaveProgress /\ NoTruncatedSnapshot)'
<1> USE ServerAssumption DEF WInv, IInv, RenameTmp, memory, files, procs, history
<1>a. gen[p] \in Gens /\ NameOf(p) \in Names /\ pc[p] \in SavePcs
  BY OwnerType DEF HoldsArc, SavePcs
<1>b. Current(gen[p]) \in Snapshot /\ 0 \notin Gens
  BY <1>a DEF TypeOK, Current, Snapshot
<1>c. tmp[NameOf(p)] \in File /\ Prefix(tmp[NameOf(p)], Current(gen[p]), Size(Current(gen[p])))
  BY <1>a DEF SaveProgress, Progress, TypeOK, Entry
<1>d. Readable(tmp[NameOf(p)])
  BY <1>b, <1>c, PrefixReadable
<1>1. OneSaver'
  BY DEF OneSaver, NameOf, TypeOK, SavePcs, WritePcs, DropPcs, Procs, Flushers
<1>2. SaveProgress'
  <2> SUFFICES ASSUME NEW q \in Procs PROVE Progress(q)'
    BY DEF SaveProgress
  <2>1. CASE q = p
    <3>1. fd[p] = "none" /\ fd'[p] = "none" /\ pc'[p] = "f_clear"
      BY DEF OpenFiles, TypeOK
    <3> QED
      BY <2>1, <3>1 DEF Progress
  <2>2. CASE q # p /\ pc[q] \in SavePcs
    <3>1. tmp'[NameOf(q)] = tmp[NameOf(q)] /\ pc'[q] = pc[q] /\ fd'[q] = fd[q]
      BY <1>a, <2>2, SaversApart DEF TypeOK
    <3> QED
      BY <3>1 DEF SaveProgress, Progress, NameOf, Current
  <2>3. CASE q # p /\ pc[q] \notin SavePcs
    <3>1. fd[q] = "none" /\ fd'[q] = "none" /\ pc'[q] = pc[q]
      BY <2>3 DEF OpenFiles, TypeOK, SavePcs, SaveProgress, Progress
    <3> QED
      BY <2>3, <3>1 DEF Progress, SavePcs
  <2> QED
    BY <2>1, <2>2, <2>3
<1>3. NoTruncatedSnapshot'
  BY <1>a, <1>d DEF NoTruncatedSnapshot, TypeOK
<1> QED
  BY <1>1, <1>2, <1>3

(* The save is over. *)
LEMMA ClearDirtyWhole ==
  ASSUME SavesExclusive, WInv, NEW p \in Procs, ClearDirty(p)
  PROVE  (OneSaver /\ SaveProgress /\ NoTruncatedSnapshot)'
<1> USE ServerAssumption DEF WInv, IInv, ClearDirty, Finish, memory, files, procs, history
<1>1. OneSaver'
  BY DEF OneSaver, NameOf, TypeOK, SavePcs, WritePcs, DropPcs, Procs, Flushers
<1>2. SaveProgress'
  BY DEF SaveProgress, Progress, TypeOK, NameOf, Current, SavePcs
<1>3. NoTruncatedSnapshot'
  BY DEF NoTruncatedSnapshot
<1> QED
  BY <1>1, <1>2, <1>3

(* The save is over and its temporary file is of no use to anyone. *)
LEMMA FlushFailsWhole ==
  ASSUME SavesExclusive, WInv, NEW p \in Procs, FlushFails(p)
  PROVE  (OneSaver /\ SaveProgress /\ NoTruncatedSnapshot)'
<1> USE ServerAssumption DEF WInv, IInv, FlushFails, Finish, memory, files, procs, history
<1>1. OneSaver'
  BY DEF OneSaver, NameOf, TypeOK, SavePcs, WritePcs, DropPcs, Procs, Flushers
<1>2. SaveProgress'
  BY DEF SaveProgress, Progress, TypeOK, NameOf, Current, SavePcs
<1>3. NoTruncatedSnapshot'
  BY DEF NoTruncatedSnapshot
<1> QED
  BY <1>1, <1>2, <1>3

(* The name was free, so the background task is not saving under it. *)
LEMMA BeginCreateWhole ==
  ASSUME SavesExclusive, WInv, NEW p \in Workers, NEW n \in Names, BeginCreate(p, n)
  PROVE  (OneSaver /\ SaveProgress /\ NoTruncatedSnapshot)'
<1> USE ServerAssumption DEF WInv, IInv, BeginCreate, memory, files, procs, history
<1>a. nextGen \in Gens /\ \A g \in Gens : owner[g] \in Names => g # nextGen
  BY DEF TypeOK, Unmade
<1>b. \A q \in Procs : gen[q] # 0 => gen[q] # nextGen /\ owner'[gen[q]] = owner[gen[q]]
  BY <1>a DEF TypeOK, HoldsArc
<1>c. p # Background /\ p \in Procs
  BY DEF Flushers, Procs
<1>1. OneSaver'
  <2>1. \A g \in todo[Background] : owner'[g] = owner[g]
    BY <1>a DEF TypeOK, HoldsArc, Procs, Flushers
  <2>2. gen'[Background] = gen[Background] /\ pc'[Background] = pc[Background]
    BY <1>c DEF TypeOK
  <2>3. gen[Background] # 0 => registry[owner'[gen[Background]]] = gen[Background]
    BY <1>b DEF OneSaver, NameOf, Procs, Flushers
  <2>4. \A q \in Workers : pc'[q] \notin DropPcs \cup {"f_lock", "next"} /\ (pc'[q] \in SavePcs => q = p)
    BY DEF OneSaver, TypeOK, SavePcs, DropPcs, Procs, Flushers
  <2>5. pc'[Main] = "idle"
    BY DEF OneSaver, TypeOK, Flushers
  <2> QED
    BY <2>1, <2>2, <2>3, <2>4, <2>5 DEF OneSaver, NameOf
<1>2. SaveProgress'
  <2> SUFFICES ASSUME NEW q \in Procs PROVE Progress(q)'
    BY DEF SaveProgress
  <2>1. CASE q = p
    BY <1>c, <2>1 DEF SaveProgress, Progress, TypeOK
  <2>2. CASE q # p /\ pc[q] \in SavePcs
    <3>1. gen[q] # 0 /\ gen'[q] = gen[q] /\ NameOf(q)' = NameOf(q)
      BY <1>b, <2>2 DEF HoldsArc, TypeOK, NameOf
    <3> QED
      BY <2>2, <3>1 DEF SaveProgress, Progress, Current, TypeOK
  <2>3. CASE q # p /\ pc[q] \notin SavePcs
    BY <2>3 DEF SaveProgress, Progress, SavePcs, TypeOK
  <2> QED
    BY <2>1, <2>2, <2>3
<1>3. NoTruncatedSnapshot'
  BY DEF NoTruncatedSnapshot
<1> QED
  BY <1>1, <1>2, <1>3

(* What the background task may save from now on was saved already. *)
LEMMA PublishCreatedWhole ==
  ASSUME SavesExclusive, WInv, NEW p \in Procs, PublishCreated(p)
  PROVE  (OneSaver /\ SaveProgress /\ NoTruncatedSnapshot)'
<1> USE ServerAssumption DEF WInv, IInv, PublishCreated, Finish, memory, files, procs, history
<1>a. gen[p] \in Gens /\ NameOf(p) \in Names /\ registry[NameOf(p)] = 0 /\ p \in Workers
  BY OwnerType DEF HoldsArc, SavePcs, LockHeld, Procs
<1>b. \A m \in Names : registry[m] # 0 => registry'[m] = registry[m]
  BY <1>a DEF TypeOK
<1>c. p # Background /\ p # Main
  BY <1>a DEF Flushers
<1>1. OneSaver'
  <2>1. gen'[Background] = gen[Background] /\ pc'[Background] = pc[Background] /\ pc'[Main] = pc[Main]
    BY <1>c DEF TypeOK, Procs, Flushers
  <2>2. \A g \in todo[Background] : registry'[owner[g]] = g
    BY <1>b DEF OneSaver, HoldsArc, TypeOK, Procs, Flushers
  <2>3. gen[Background] # 0 => registry'[owner[gen[Background]]] = gen[Background]
    BY <1>b, OwnerType DEF OneSaver, NameOf, Procs, Flushers
  <2>4. \A q \in Workers : pc'[q] \notin DropPcs \cup {"f_lock", "next"} \cup SavePcs
    BY <1>a DEF OneSaver, TypeOK, Procs, SavePcs, DropPcs
  <2> QED
    BY <2>1, <2>2, <2>3, <2>4 DEF OneSaver, NameOf
<1>2. SaveProgress'
  BY DEF SaveProgress, Progress, TypeOK, NameOf, Current, SavePcs
<1>3. NoTruncatedSnapshot'
  BY DEF NoTruncatedSnapshot
<1> QED
  BY <1>1, <1>2, <1>3

(* The list has what is registered, and nothing is dropped. *)
LEMMA StartTickWhole ==
  ASSUME SavesExclusive, WInv, StartTick
  PROVE  (OneSaver /\ SaveProgress /\ NoTruncatedSnapshot)'
<1> USE ServerAssumption DEF WInv, IInv, StartTick, memory, files, procs, history
<1>a. \A g \in Registered : registry[owner[g]] = g
  BY DEF Registered, RegistryOwns
<1>b. Background \in Procs /\ Background # Main /\ Background \notin Workers
  BY DEF Procs, Flushers
<1>1. OneSaver'
  <2>1. todo'[Background] = Registered /\ pc'[Background] = "next" /\ pc'[Main] = pc[Main]
    BY <1>b DEF TypeOK
  <2>2. \A q \in Workers : pc'[q] = pc[q]
    BY <1>b DEF TypeOK
  <2> QED
    BY <1>a, <2>1, <2>2 DEF OneSaver, NameOf, DropPcs, WritePcs, Alive
<1>2. SaveProgress'
  BY DEF SaveProgress, Progress, TypeOK, NameOf, Current, SavePcs
<1>3. NoTruncatedSnapshot'
  BY DEF NoTruncatedSnapshot
<1> QED
  BY <1>1, <1>2, <1>3

(* The collection it turns to is still the registered one. *)
LEMMA NextCollectionWhole ==
  ASSUME SavesExclusive, WInv, NEW p \in Procs, NextCollection(p)
  PROVE  (OneSaver /\ SaveProgress /\ NoTruncatedSnapshot)'
<1> USE ServerAssumption DEF WInv, IInv, NextCollection, memory, files, procs, history
<1>a. p = Background
  BY DEF OneSaver, Procs, Flushers, TypeOK, HoldsArc, Stopped
<1>b. PICK g \in todo[p] : /\ todo' = [todo EXCEPT ![p] = @ \ {g}]
                           /\ \/ gen' = [gen EXCEPT ![p] = g] /\ pc' = [pc EXCEPT ![p] = "f_lock"]
                              \/ UNCHANGED <<gen, pc>>
  OBVIOUS
<1>c. registry[owner[g]] = g
  BY <1>a DEF OneSaver
<1>1. OneSaver'
  <2>1. \A q \in Workers : pc'[q] = pc[q]
    BY <1>a, <1>b DEF TypeOK, Flushers, Procs
  <2>2. pc'[Main] = pc[Main] /\ Background \in Procs
    BY <1>a, <1>b DEF TypeOK, Flushers, Procs
  <2>3. todo'[Background] \subseteq todo[Background]
    BY <1>a, <1>b DEF TypeOK
  <2>4. gen'[Background] \in {g, gen[Background]} /\ pc'[Background] \in {"f_lock", pc[Background]}
    BY <1>a, <1>b DEF TypeOK
  <2> QED
    BY <1>a, <1>c, <2>1, <2>2, <2>3, <2>4 DEF OneSaver, NameOf, DropPcs, WritePcs
<1>2. SaveProgress'
  <2> SUFFICES ASSUME NEW q \in Procs PROVE Progress(q)'
    BY DEF SaveProgress
  <2>1. CASE q = p
    BY <1>b, <2>1 DEF SaveProgress, Progress, TypeOK
  <2>2. CASE q # p
    BY <1>b, <2>2 DEF SaveProgress, Progress, TypeOK, NameOf, Current
  <2> QED
    BY <2>1, <2>2
<1>3. NoTruncatedSnapshot'
  BY DEF NoTruncatedSnapshot
<1> QED
  BY <1>1, <1>2, <1>3

(* No save is under way in the background task. *)
LEMMA EndFlushAllWhole ==
  ASSUME SavesExclusive, WInv, NEW p \in Procs, EndFlushAll(p)
  PROVE  (OneSaver /\ SaveProgress /\ NoTruncatedSnapshot)'
<1> USE ServerAssumption DEF WInv, IInv, EndFlushAll, memory, files, procs, history
<1>1. OneSaver'
  BY DEF OneSaver, NameOf, TypeOK, SavePcs, WritePcs, DropPcs, Procs, Flushers
<1>2. SaveProgress'
  BY DEF SaveProgress, Progress, TypeOK, NameOf, Current, SavePcs
<1>3. NoTruncatedSnapshot'
  BY DEF NoTruncatedSnapshot
<1> QED
  BY <1>1, <1>2, <1>3

(* The snapshots were whole before it, and no save survives. *)
LEMMA CrashWhole ==
  ASSUME SavesExclusive, WInv, Crash
  PROVE  (OneSaver /\ SaveProgress /\ NoTruncatedSnapshot)'
<1> USE ServerAssumption DEF WInv, IInv, Crash, memory, files, procs, history
<1>1. OneSaver'
  BY DEF OneSaver, NameOf, TypeOK, SavePcs, WritePcs, DropPcs, Procs, Flushers
<1>2. SaveProgress'
  BY DEF SaveProgress, Progress, TypeOK, NameOf, Current, SavePcs
<1>3. NoTruncatedSnapshot'
  BY DEF NoTruncatedSnapshot
<1> QED
  BY <1>1, <1>2, <1>3

(* The registry is what the snapshots say, and no save is under way. *)
LEMMA LoadWhole ==
  ASSUME SavesExclusive, WInv, Load
  PROVE  (OneSaver /\ SaveProgress /\ NoTruncatedSnapshot)'
<1> USE ServerAssumption DEF WInv, IInv, Load, memory, files, procs, history
<1>1. OneSaver'
  BY DEF OneSaver, NameOf, TypeOK, SavePcs, WritePcs, DropPcs, Procs, Flushers
<1>2. SaveProgress'
  <2>1. \A q \in Procs : pc[q] = "idle"
    BY DEF Stopped, Alive
  <2> QED
    BY <2>1 DEF SaveProgress, Progress
<1>3. NoTruncatedSnapshot'
  BY DEF NoTruncatedSnapshot
<1> QED
  BY <1>1, <1>2, <1>3

(* One case per step of a process; requests that drop or snapshot there are none. *)
LEMMA ContinueWhole ==
  ASSUME SavesExclusive, WInv, NEW p \in Procs, Continue(p)
  PROVE  (OneSaver /\ SaveProgress /\ NoTruncatedSnapshot)'
<1>1. pc[p] \notin DropPcs
  BY DEF WInv, OneSaver, Procs, Flushers, DropPcs
<1>2. ~ DropExists(p) /\ ~ DropUnlink(p)
  BY <1>1 DEF DropExists, DropUnlink, DropPcs
<1> QED
  BY <1>2, ApplyWriteWhole, ApplyNothingWhole, MarkDirtyWhole, FlushLockWhole,
     OpenTmpWhole, WriteBlockWhole, RenameTmpWhole, ClearDirtyWhole, FlushFailsWhole,
     PublishCreatedWhole, NextCollectionWhole, EndFlushAllWhole
     DEF Continue

(* The second invariant is preserved by every step of the restricted system. *)
LEMMA NextWhole ==
  ASSUME SavesExclusive, WInv, [Next]_vars
  PROVE  WInv'
<1>1. IInv'
  BY NextInv DEF WInv
<1> SUFFICES (OneSaver /\ SaveProgress /\ NoTruncatedSnapshot)'
  BY <1>1 DEF WInv
<1>2. CASE \E p \in Workers, n \in Names : Request(p, n)
  <2> SUFFICES ASSUME NEW p \in Workers, NEW n \in Names, Request(p, n)
               PROVE  (OneSaver /\ SaveProgress /\ NoTruncatedSnapshot)'
    BY <1>2
  <2>1. ~ StartSnapshot(p, n) /\ ~ DropCollection(p, n)
    BY DEF SavesExclusive, StartSnapshot, DropCollection
  <2> QED
    BY <2>1, StartWriteWhole, BeginCreateWhole DEF Request
<1>3. CASE \E p \in Procs : Continue(p)
  BY <1>3, ContinueWhole
<1>4. CASE StartTick
  BY <1>4, StartTickWhole
<1>5. CASE Lifecycle
  <2>1. ~ Signal /\ ~ StartFinalFlush /\ ~ Exit /\ ~ LoadFails
    BY DEF SavesExclusive, WInv, OneSaver, NoTruncatedSnapshot, Signal, StartFinalFlush,
       Exit, MainReturned, LoadFails
  <2> QED
    BY <1>5, <2>1, CrashWhole, LoadWhole DEF Lifecycle
<1>6. CASE UNCHANGED vars
  BY <1>6 DEF WInv, OneSaver, SaveProgress, Progress, NoTruncatedSnapshot, NameOf, Current,
     vars, memory, files, procs, history
<1> QED
  BY <1>2, <1>3, <1>4, <1>5, <1>6 DEF Next

(* There are no files. *)
LEMMA InitWhole == Init => WInv
<1> SUFFICES ASSUME Init PROVE WInv
  OBVIOUS
<1>1. OneSaver
  BY ServerAssumption
     DEF Init, OneSaver, DropPcs, WritePcs, SavePcs, Procs, Flushers
<1>2. SaveProgress /\ NoTruncatedSnapshot
  BY DEF Init, SaveProgress, Progress, NoTruncatedSnapshot
<1> QED
  BY <1>1, <1>2, InitInv DEF WInv

(***************************************************************************)
(* persist.rs:148, where it is true: if clients only create collections    *)
(* and write to them, then wherever the process is killed, whatever system *)
(* call of a save fails and however often the server restarts, every       *)
(* snapshot is whole.  The invariant is that at most one save works on the *)
(* files of a name and has put there, in order, blocks of an index that    *)
(* its read lock keeps from changing.                                      *)
(***************************************************************************)
THEOREM SnapshotsWhole ==
  ASSUME SavesExclusive
  PROVE  Spec => []NoTruncatedSnapshot
<1>1. Init => WInv
  BY InitWhole
<1>2. WInv /\ [Next]_vars => WInv'
  BY NextWhole
<1>3. WInv => NoTruncatedSnapshot
  BY DEF WInv
<1> QED
  BY <1>1, <1>2, <1>3, PTL DEF Spec

=============================================================================
