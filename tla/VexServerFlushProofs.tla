------------------------ MODULE VexServerFlushProofs ------------------------
(***************************************************************************)
(* What snapshots are worth: saves of one collection that overlap, when    *)
(* nothing is dropped and no system call of a save fails; what clients     *)
(* were told of collections; and the store that server and files are.      *)
(***************************************************************************)
EXTENDS VexServerProofs

(* What clients and the disk must not do. *)
NothingDropped == "drop" \notin Ops
SavesSucceed == ~ IoFaults /\ Oversize = {}

-----------------------------------------------------------------------------
(* The inductive invariant. *)

(* An Arc in a hand or on a list is the registered one, or is being created. *)
HandsRegistered ==
  \A p \in Procs :
    /\ gen[p] # 0 => registry[NameOf(p)] = gen[p] \/ regLock = p
    /\ \A g \in todo[p] : registry[owner[g]] = g
    /\ pc[p] \notin DropPcs
    /\ pc[p] \in {"idle", "next"} => gen[p] = 0
    /\ p \in Workers \/ pc[p] = "idle" => todo[p] = {}

(* How far the saves have got that have the file of name n open as entry d. *)
OffsetsIn(d, n) == {blk[q] : q \in {r \in Procs : fd[r] = d /\ NameOf(r) = n}}

(* Each block of s is in file f, or is still ahead of a save at one of offs. *)
WillHold(f, offs, s) ==
  \A i \in 1 .. Size(s) : (i <= Len(f) /\ f[i] = s) \/ \E b \in offs : b < i

(* The collections whose state now is in their file, or will be. *)
Settled ==
  {g \in Gens :
     /\ owner[g] \in Names /\ path[owner[g]] # Absent
     /\ WillHold(path[owner[g]], OffsetsIn("path", owner[g]), Current(g))}

(* Those of which this is true once the temporary file, if any, is renamed. *)
Settling ==
  {g \in Gens :
     /\ owner[g] \in Names
     /\ IF tmp[owner[g]] = Absent THEN g \in Settled
        ELSE WillHold(tmp[owner[g]], OffsetsIn("tmp", owner[g]), Current(g))}

(* The names whose file some save is still writing. *)
BeingWritten == {NameOf(p) : p \in {q \in Procs : fd[q] = "path"}}

(* Of the saves under way that have opened their file, and of their work. *)
SavesSettle ==
  \A p \in Procs :
    /\ pc[p] \in {"f_write", "f_rename"} => gen[p] \in Settling
    /\ fd[p] = "path" \/ pc[p] = "f_clear" => gen[p] \in Settled

(* A collection neither dirty nor about to be has its state in the file. *)
CleanSettled ==
  Alive => \A n \in Names :
    /\ registry[n] # 0 /\ ~ dirty[registry[n]]
    /\ \A p \in Workers : ~ (pc[p] = "mark" /\ gen[p] = registry[n])
    => registry[n] \in Settled

(* What was acknowledged, or is about to be, was applied. *)
AckedApplied ==
  /\ phase \notin {"crashed", "failed"} => \A g \in Gens : acked[g] \subseteq index[g]
  /\ \A p \in Procs : pc[p] = "mark" => wr[p] \in index[gen[p]]

(* What the final flush is past is in the files. *)
FinalSettles ==
  \A n \in Names : registry[n] # 0 =>
    /\ phase = "final" => \/ registry[n] \in todo[Main] \/ gen[Main] = registry[n]
                          \/ registry[n] \in Settled
    /\ phase = "down" => registry[n] \in Settled

OInv ==
  /\ IInv /\ HandsRegistered /\ SavesSettle /\ CleanSettled
  /\ TornOnlyWhileWriting /\ AckedApplied /\ FinalSettles

-----------------------------------------------------------------------------
(* The Arcs in hands. *)

(* Nobody has an Arc. *)
LEMMA InitHands == Init => HandsRegistered
  BY DEF Init, HandsRegistered, DropPcs

(* Nothing is unregistered, so an Arc stays the registered one. *)
LEMMA ContinueHands ==
  ASSUME IInv, HandsRegistered, NEW p \in Procs, Continue(p)
  PROVE  HandsRegistered'
<1> USE ServerAssumption DEF IInv, memory, files, procs, history
<1>1. CASE ApplyWrite(p)
  BY <1>1 DEF ApplyWrite, HandsRegistered, TypeOK, NameOf, DropPcs
<1>2. CASE ApplyNothing(p)
  BY <1>2 DEF ApplyNothing, Finish, HandsRegistered, TypeOK, NameOf, DropPcs, Procs
<1>3. CASE MarkDirty(p)
  BY <1>3 DEF MarkDirty, Finish, HandsRegistered, TypeOK, NameOf, DropPcs, Procs
<1>4. CASE FlushLock(p)
  BY <1>4 DEF FlushLock, HandsRegistered, TypeOK, NameOf, DropPcs
<1>5. CASE OpenTmp(p)
  BY <1>5 DEF OpenTmp, HandsRegistered, TypeOK, NameOf, DropPcs
<1>6. CASE WriteBlock(p)
  BY <1>6 DEF WriteBlock, HandsRegistered, TypeOK, NameOf, DropPcs
<1>7. CASE RenameTmp(p)
  BY <1>7 DEF RenameTmp, HandsRegistered, TypeOK, NameOf, DropPcs
<1>8. CASE ClearDirty(p)
  BY <1>8 DEF ClearDirty, Finish, HandsRegistered, TypeOK, NameOf, DropPcs, Procs
<1>9. CASE FlushFails(p)
  BY <1>9 DEF FlushFails, Finish, HandsRegistered, TypeOK, NameOf, DropPcs, Procs
<1>10. CASE PublishCreated(p)
  <2>1. gen[p] \in Gens /\ NameOf(p) \in Names /\ registry[NameOf(p)] = 0 /\ p \in Workers
    BY <1>10, OwnerType DEF PublishCreated, HoldsArc, SavePcs, LockHeld
  <2>2. \A m \in Names : registry[m] # 0 => registry'[m] = registry[m]
    BY <1>10, <2>1 DEF PublishCreated, TypeOK
  <2> QED
    BY <1>10, <2>1, <2>2 DEF PublishCreated, Finish, HandsRegistered, TypeOK, HoldsArc,
       NameOf, DropPcs
<1>11. CASE DropExists(p) \/ DropUnlink(p)
  BY <1>11 DEF DropExists, DropUnlink, HandsRegistered, DropPcs
<1>12. CASE NextCollection(p)
  BY <1>12 DEF NextCollection, HandsRegistered, TypeOK, NameOf, DropPcs
<1>13. CASE EndFlushAll(p)
  BY <1>13 DEF EndFlushAll, HandsRegistered, TypeOK, NameOf, DropPcs
<1> QED
  BY <1>1, <1>2, <1>3, <1>4, <1>5, <1>6, <1>7, <1>8, <1>9, <1>10, <1>11, <1>12, <1>13
     DEF Continue

(* Requests and flushes take their Arcs out of the registry. *)
LEMMA NextHands ==
  ASSUME NothingDropped, IInv, HandsRegistered, [Next]_vars
  PROVE  HandsRegistered'
<1> USE ServerAssumption DEF IInv, memory, files, procs, history
<1>1. ASSUME NEW p \in Workers, NEW n \in Names, Request(p, n)
      PROVE  HandsRegistered'
  <2>1. CASE StartWrite(p, n)
    BY <2>1 DEF StartWrite, Get, HandsRegistered, RegistryOwns, TypeOK, NameOf, DropPcs
  <2>2. CASE StartSnapshot(p, n)
    BY <2>2 DEF StartSnapshot, Get, HandsRegistered, RegistryOwns, TypeOK, NameOf, DropPcs
  <2>3. CASE BeginCreate(p, n)
    <3>1. nextGen \in Gens /\ \A g \in Gens : owner[g] \in Names => owner'[g] = owner[g]
      BY <2>3 DEF BeginCreate, TypeOK, Unmade
    <3>2. \A q \in Procs : gen[q] # 0 => owner'[gen[q]] = owner[gen[q]]
      BY <3>1 DEF TypeOK, HoldsArc
    <3>3. \A q \in Procs : \A g \in todo[q] : owner'[g] = owner[g]
      BY <3>1 DEF TypeOK, HoldsArc
    <3>4. \A q \in Procs : gen[q] # 0 => registry[owner[gen[q]]] = gen[q]
      BY <2>3 DEF BeginCreate, HandsRegistered, NameOf, TypeOK
    <3>5. \A q \in Procs : gen'[q] # 0 => registry'[owner'[gen'[q]]] = gen'[q] \/ regLock' = q
      BY <2>3, <3>2, <3>4 DEF BeginCreate, TypeOK
    <3> QED
      BY <2>3, <3>3, <3>5 DEF BeginCreate, HandsRegistered, TypeOK, NameOf, DropPcs
  <2>4. ~ DropCollection(p, n)
    BY DEF NothingDropped, DropCollection
  <2> QED
    BY <1>1, <2>1, <2>2, <2>3, <2>4 DEF Request
<1>2. ASSUME NEW p \in Procs, Continue(p)
      PROVE  HandsRegistered'
  BY <1>2, ContinueHands
<1>a. \A g \in Registered : registry[owner[g]] = g
  BY DEF Registered, RegistryOwns
<1>b. Background \notin Workers /\ Main \notin Workers
  BY DEF Flushers
<1>3. CASE StartTick
  BY <1>3, <1>a, <1>b DEF StartTick, HandsRegistered, TypeOK, NameOf, DropPcs
<1>4. CASE Lifecycle
  <2>1. CASE Signal \/ Exit \/ LoadFails
    BY <2>1 DEF Signal, Exit, LoadFails, HandsRegistered, NameOf
  <2>2. CASE StartFinalFlush
    <3>1. gen[Main] = 0
      BY <2>2 DEF StartFinalFlush, Stopped, HandsRegistered, Procs, Flushers
    <3>2. todo'[Main] = Registered /\ pc'[Main] = "next" /\ Main \in Procs
      BY <2>2 DEF StartFinalFlush, TypeOK, Procs, Flushers
    <3>3. \A q \in Procs \ {Main} : todo'[q] = todo[q] /\ pc'[q] = pc[q]
      BY <2>2 DEF StartFinalFlush, TypeOK
    <3>4. UNCHANGED <<gen, registry, regLock, owner>>
      BY <2>2 DEF StartFinalFlush
    <3> QED
      BY <1>a, <1>b, <3>1, <3>2, <3>3, <3>4 DEF HandsRegistered, NameOf, DropPcs
  <2>3. CASE Crash
    BY <2>3 DEF Crash, HandsRegistered, DropPcs
  <2>4. CASE Load
    <3>1. \A q \in Procs : pc[q] = "idle" /\ gen[q] = 0 /\ todo[q] = {}
      BY <2>4 DEF Load, Stopped, Alive, HandsRegistered
    <3> QED
      BY <2>4, <3>1 DEF Load, HandsRegistered, DropPcs
  <2> QED
    BY <1>4, <2>1, <2>2, <2>3, <2>4 DEF Lifecycle
<1>5. CASE UNCHANGED vars
  BY <1>5 DEF HandsRegistered, NameOf, vars
<1> QED
  BY <1>1, <1>2, <1>3, <1>4, <1>5 DEF Next

-----------------------------------------------------------------------------
(* Files that several saves of one snapshot write. *)

(* A save that writes its next block gets the file nearer to the snapshot. *)
LEMMA WillHoldWrite ==
  ASSUME NEW f \in File, NEW s \in Block, NEW offs \in SUBSET (0 .. 1), NEW b \in 0 .. 1,
         WillHold(f, offs \cup {b}, s)
  PROVE  /\ WillHold(WriteAt(f, b + 1, s), offs \cup {b + 1}, s)
         /\ b + 1 = Size(s) => WillHold(WriteAt(f, b + 1, s), offs, s)
<1> DEFINE L == IF b + 1 > Len(f) THEN b + 1 ELSE Len(f)
           e(k) == IF k = b + 1 THEN s ELSE IF k <= Len(f) THEN f[k] ELSE Hole
           g == WriteAt(f, b + 1, s)
<1>1. L \in Nat /\ Len(f) \in Nat /\ g = [k \in 1 .. L |-> e(k)]
  BY DEF WriteAt, File
<1>2. g \in Seq(Block) /\ Len(g) = L
  <2>1. f \in Seq(Block) /\ Hole \in Block /\ b + 1 \in 1 .. 2
    BY DEF File, Block
  <2>2. g \in Seq(Block)
    BY <2>1, WriteAtType
  <2> QED
    BY <1>1, <2>2
<1>3. Size(s) \in 1 .. 2
  BY DEF Size
<1>4. ASSUME NEW i \in 1 .. Size(s), i # b + 1
      PROVE  \/ i <= L /\ g[i] = s
             \/ b + 1 < i
             \/ \E c \in offs : c < i
  <2>1. CASE i <= Len(f) /\ f[i] = s
    <3>1. i \in 1 .. L /\ i \in Nat
      BY <1>1, <1>3, <2>1
    <3>2. g[i] = e(i) /\ e(i) = s
      BY <1>1, <1>4, <2>1, <3>1
    <3> QED
      BY <3>1, <3>2
  <2>2. CASE \E c \in offs \cup {b} : c < i
    BY <1>3, <1>4, <2>2
  <2> QED
    BY <2>1, <2>2 DEF WillHold
<1>5. b + 1 <= L /\ g[b + 1] = s
  BY <1>1
<1> QED
  BY <1>2, <1>3, <1>4, <1>5 DEF WillHold

(* When no save has the file open any more, it is the snapshot. *)
LEMMA WillHoldReadable ==
  ASSUME NEW f \in File, Absent \notin File, NEW s \in Snapshot, 0 \notin Gens,
         WillHold(f, {}, s)
  PROVE  Readable(f) /\ Loaded(f) = s
<1>1. Size(s) \in 1 .. 2
  BY DEF Size
<1>2. \A i \in 1 .. Size(s) : i <= Len(f) /\ f[i] = s
  BY DEF WillHold
<1>3. f[1] = s /\ f # << >> /\ Len(f) >= Size(s) /\ s # Hole
  BY <1>1, <1>2 DEF Hole, Snapshot, File
<1> QED
  BY <1>2, <1>3 DEF Readable, Holds, Loaded

(* A settled file either is up to date or is still being written. *)
LEMMA SettledFile ==
  ASSUME IInv, NEW g \in Settled
  PROVE  \/ StillWriting(owner[g])
         \/ Readable(path[owner[g]]) /\ Loaded(path[owner[g]]) = Current(g)
<1> USE ServerAssumption
<1>1. CASE OffsetsIn("path", owner[g]) = {}
  <2>0. owner[g] \in Names /\ path[owner[g]] # Absent
        /\ WillHold(path[owner[g]], OffsetsIn("path", owner[g]), Current(g))
    BY DEF Settled
  <2>1. path[owner[g]] \in File /\ WillHold(path[owner[g]], {}, Current(g))
    BY <1>1, <2>0 DEF IInv, TypeOK, Entry
  <2>2. Current(g) \in Snapshot /\ 0 \notin Gens
    BY DEF Settled, Current, Snapshot, IInv, TypeOK
  <2> QED
    BY <2>1, <2>2, WillHoldReadable
<1>2. CASE OffsetsIn("path", owner[g]) # {}
  BY <1>2 DEF OffsetsIn, StillWriting
<1> QED
  BY <1>1, <1>2

(* Two hands on the files of one name hold the same collection. *)
LEMMA SameArc ==
  ASSUME IInv, HandsRegistered, NEW p \in Procs, gen[p] # 0
  PROVE  /\ \A q \in Procs : gen[q] # 0 /\ NameOf(q) = NameOf(p) => gen[q] = gen[p]
         /\ \A n \in Names : n = NameOf(p) /\ registry[n] # 0 => registry[n] = gen[p]
<1> USE ServerAssumption
<1>1. NameOf(p) \in Names
  BY OwnerType
<1>2. regLock = p => registry[NameOf(p)] = 0
  BY DEF IInv, LockHeld
<1>3. \A q \in Procs : regLock = q => registry[NameOf(q)] = 0
  BY DEF IInv, LockHeld
<1> QED
  BY <1>1, <1>2, <1>3 DEF HandsRegistered

-----------------------------------------------------------------------------
(* Steps that leave the files alone, and the saves that have one open. *)

Quiet ==
  /\ UNCHANGED <<path, tmp, fd>>
  /\ \A g \in Gens : owner[g] \in Names => owner'[g] = owner[g]
  /\ \A q \in Procs : fd[q] # "none" => gen'[q] = gen[q] /\ blk'[q] = blk[q]

(* They settle and unsettle nothing but what they change themselves. *)
LEMMA QuietSettles ==
  ASSUME IInv, Quiet
  PROVE  /\ \A g \in Gens : index'[g] = index[g] =>
              /\ g \in Settled => g \in Settled'
              /\ g \in Settling => g \in Settling'
         /\ \A n \in Names : (n \in BeingWritten' <=> n \in BeingWritten)
<1> USE ServerAssumption DEF IInv
<1>1. \A q \in Procs : fd[q] # "none" =>
        /\ fd'[q] = fd[q] /\ blk'[q] = blk[q] /\ NameOf(q)' = NameOf(q)
        /\ NameOf(q) \in Names
  BY DEF Quiet, HoldsArc, OpenFiles, SavePcs, TypeOK, NameOf
<1>2. \A d \in {"path", "tmp"}, n \in Names : OffsetsIn(d, n)' = OffsetsIn(d, n)
  BY <1>1 DEF Quiet, OffsetsIn
<1>3. \A n \in Names : (n \in BeingWritten' <=> n \in BeingWritten)
  BY <1>1 DEF Quiet, BeingWritten
<1>4. ASSUME NEW g \in Gens, index'[g] = index[g], g \in Settled
      PROVE  g \in Settled'
  BY <1>2, <1>4 DEF Settled, Quiet, Current
<1>5. ASSUME NEW g \in Gens, index'[g] = index[g], g \in Settling
      PROVE  g \in Settling'
  BY <1>2, <1>4, <1>5 DEF Settling, Quiet, Current
<1> QED
  BY <1>3, <1>4, <1>5

-----------------------------------------------------------------------------
(* Steps that write or rename a file. *)

(* The same of the next state. *)
LEMMA SettledFileNext ==
  ASSUME IInv', NEW g \in Settled'
  PROVE  \/ owner'[g] \in BeingWritten'
         \/ Readable(path'[owner'[g]]) /\ Loaded(path'[owner'[g]]) = Current(g)'
<1> USE ServerAssumption
<1>1. CASE OffsetsIn("path", owner[g])' = {}
  <2>0. owner'[g] \in Names /\ path'[owner'[g]] # Absent
        /\ WillHold(path'[owner'[g]], OffsetsIn("path", owner[g])', Current(g)')
    BY DEF Settled
  <2>1. path'[owner'[g]] \in File /\ WillHold(path'[owner'[g]], {}, Current(g)')
    BY <1>1, <2>0 DEF IInv, TypeOK, Entry
  <2>2. Current(g)' \in Snapshot /\ 0 \notin Gens
    BY DEF Settled, Current, Snapshot, IInv, TypeOK
  <2> QED
    BY <2>1, <2>2, WillHoldReadable
<1>2. CASE OffsetsIn("path", owner[g])' # {}
  BY <1>2 DEF OffsetsIn, BeingWritten, Settled
<1> QED
  BY <1>1, <1>2

(* A new file is empty, and all its blocks are ahead of the save. *)
LEMMA OpenTmpSettles ==
  ASSUME IInv, NEW p \in Procs, OpenTmp(p)
  PROVE  /\ \A g \in Gens : /\ g \in Settled => g \in Settled'
                            /\ g \in Settling => g \in Settling'
         /\ gen[p] \in Settling'
         /\ \A n \in Names : n \in BeingWritten => n \in BeingWritten'
<1> USE ServerAssumption DEF IInv, OpenTmp, memory, files, procs, history
<1>a. gen[p] \in Gens /\ NameOf(p) \in Names /\ fd[p] = "none"
  BY OwnerType DEF HoldsArc, SavePcs, OpenFiles
<1>b. << >> \in File
  BY DEF File
<1>c. << >> # Absent
  BY <1>b
<1>d. fd'[p] = "tmp" /\ blk'[p] = 0 /\ \A q \in Procs \ {p} : fd'[q] = fd[q] /\ blk'[q] = blk[q]
  BY DEF TypeOK
<1>e. \A q \in Procs : NameOf(q)' = NameOf(q)
  BY DEF NameOf
<1>n. PICK n \in Names : n = NameOf(p)
  BY <1>a
<1>1. \A m \in Names : OffsetsIn("path", m)' = OffsetsIn("path", m)
  BY <1>a, <1>d, <1>e, <1>n DEF OffsetsIn
<1>2. \A m \in Names : m # n => OffsetsIn("tmp", m)' = OffsetsIn("tmp", m)
  BY <1>a, <1>d, <1>e, <1>n DEF OffsetsIn
<1>3. 0 \in OffsetsIn("tmp", n)'
  <2>1. fd'[p] = "tmp" /\ NameOf(p)' = n /\ blk'[p] = 0
    BY <1>d, <1>e, <1>n
  <2> QED
    BY <2>1 DEF OffsetsIn
<1>4. /\ tmp'[n] = << >>
      /\ \A m \in Names : m # n => tmp'[m] = tmp[m]
  BY <1>a, <1>n DEF TypeOK
<1>5. ASSUME NEW g \in Settled
      PROVE  g \in Settled'
  BY <1>1 DEF Settled, Current
<1>6. ASSUME NEW g \in Gens, owner[g] = n
      PROVE  g \in Settling'
  <2>1. \A i \in 1 .. Size(Current(g)') : 0 < i
    BY DEF Size
  <2>2. WillHold(tmp'[owner[g]], OffsetsIn("tmp", n)', Current(g)')
    BY <1>3, <2>1 DEF WillHold
  <2> QED
    BY <1>a, <1>n, <1>c, <1>4, <1>6, <2>2 DEF Settling
<1>7. ASSUME NEW g \in Settling, owner[g] # n
      PROVE  g \in Settling'
  BY <1>2, <1>4, <1>5, <1>7 DEF Settling, Current
<1>8. \A m \in Names : m \in BeingWritten => m \in BeingWritten'
  BY <1>a, <1>d, <1>e, <1>n DEF BeingWritten
<1> QED
  BY <1>a, <1>n, <1>5, <1>6, <1>7, <1>8 DEF Settled, Settling, NameOf

(* A block gets into the file that all who have it open write alike. *)
LEMMA WriteBlockSettles ==
  ASSUME IInv, NEW p \in Procs, WriteBlock(p), gen[p] \in Settling,
         fd[p] = "path" => gen[p] \in Settled
  PROVE  /\ \A g \in Gens : (owner[g] = NameOf(p) => g = gen[p]) =>
              /\ g \in Settled => g \in Settled'
              /\ g \in Settling => g \in Settling'
         /\ fd[p] = "path" => gen[p] \in Settled'
         /\ \A n \in Names : path'[n] # path[n] => fd[p] = "path" /\ n = NameOf(p)
         /\ \A n \in Names :
              n # NameOf(p) \/ fd[p] # "path" => (n \in BeingWritten' <=> n \in BeingWritten)
<1> USE ServerAssumption DEF IInv, WriteBlock, memory, files, procs, history
<1>n. PICK n \in Names : n = NameOf(p)
  BY OwnerType DEF HoldsArc, SavePcs
<1> DEFINE s == Current(gen[p])
           b == blk[p]
           Others(d) == {blk[q] : q \in {r \in Procs \ {p} : fd[r] = d /\ NameOf(r) = n}}
<1>a. gen[p] \in Gens /\ gen[p] # 0 /\ owner[gen[p]] = n
  BY <1>n, OwnerType DEF HoldsArc, SavePcs, NameOf
<1>b. s \in Block /\ Size(s) \in 1 .. 2 /\ b \in 0 .. 1
  BY <1>a DEF TypeOK, Current, Block, Snapshot, Size
<1>c. \A q \in Procs : NameOf(q)' = NameOf(q)
  BY DEF NameOf
<1>d. /\ b + 1 = Size(s) => fd'[p] = "none"
      /\ b + 1 # Size(s) => fd'[p] = fd[p] /\ blk'[p] = b + 1
      /\ \A q \in Procs \ {p} : fd'[q] = fd[q] /\ blk'[q] = blk[q]
  BY DEF TypeOK
<1>e. fd[p] = "tmp" \/ fd[p] = "path" => Others(fd[p]) \in SUBSET (0 .. 1)
  BY DEF TypeOK
<1>1. \A d \in {"tmp", "path"}, m \in Names :
        d # fd[p] \/ m # n => OffsetsIn(d, m)' = OffsetsIn(d, m)
  BY <1>c, <1>d, <1>n DEF OffsetsIn
<1>2. ASSUME NEW d \in {"tmp", "path"}, d = fd[p]
      PROVE  /\ OffsetsIn(d, n) = Others(d) \cup {b}
             /\ OffsetsIn(d, n)' = IF b + 1 = Size(s) THEN Others(d) ELSE Others(d) \cup {b + 1}
  <2>1. OffsetsIn(d, n) = Others(d) \cup {b}
    BY <1>2, <1>n DEF OffsetsIn
  <2>2. CASE b + 1 = Size(s)
    BY <1>2, <1>c, <1>d, <1>n, <2>2 DEF OffsetsIn
  <2>3. CASE b + 1 # Size(s)
    BY <1>2, <1>c, <1>d, <1>n, <2>3 DEF OffsetsIn
  <2> QED
    BY <2>1, <2>2, <2>3
<1>3. ASSUME NEW f \in File, NEW d \in {"tmp", "path"}, d = fd[p], WillHold(f, OffsetsIn(d, n), s)
      PROVE  WillHold(WriteAt(f, b + 1, s), OffsetsIn(d, n)', s)
  <2>1. WillHold(f, Others(d) \cup {b}, s) /\ Others(d) \in SUBSET (0 .. 1)
    BY <1>e, <1>2, <1>3
  <2>2. /\ WillHold(WriteAt(f, b + 1, s), Others(d) \cup {b + 1}, s)
        /\ b + 1 = Size(s) => WillHold(WriteAt(f, b + 1, s), Others(d), s)
    BY <1>b, <2>1, WillHoldWrite
  <2> QED
    BY <1>2, <1>3, <2>2
<1>4. \A g \in Gens : Current(g)' = Current(g)
  BY DEF Current
<1>5. /\ \A m \in Names : m # n \/ fd[p] # "path" => path'[m] = path[m]
      /\ \A m \in Names : m # n \/ fd[p] # "tmp" => tmp'[m] = tmp[m]
      /\ fd[p] = "path" => path'[n] = WriteAt(path[n], b + 1, s)
      /\ fd[p] = "tmp" => tmp'[n] = WriteAt(tmp[n], b + 1, s)
  BY <1>a, <1>n DEF TypeOK
<1>w. /\ fd[p] = "path" => path[n] \in File /\ WriteAt(path[n], b + 1, s) \in File
      /\ fd[p] = "tmp" => tmp[n] \in File /\ WriteAt(tmp[n], b + 1, s) \in File
  <2>1. /\ fd[p] = "path" => path[n] \in File
        /\ fd[p] = "tmp" => tmp[n] \in File
    BY <1>n DEF TypeOK, Entry, OpenFiles
  <2>2. b + 1 \in 1 .. 2 /\ Hole \in Block /\ File = Seq(Block)
    BY <1>b DEF File, Block
  <2>3. \A f \in File : WriteAt(f, b + 1, s) \in File
    BY <2>2, <1>b, WriteAtType
  <2> QED
    BY <2>1, <2>3
<1>6. ASSUME NEW g \in Settled, owner[g] = n => g = gen[p]
      PROVE  g \in Settled'
  <2>1. CASE owner[g] # n \/ fd[p] # "path"
    BY <1>1, <1>4, <1>5, <2>1 DEF Settled
  <2>2. CASE g = gen[p] /\ fd[p] = "path"
    <3>1. owner[g] = n /\ WillHold(path[n], OffsetsIn("path", n), s)
      BY <1>a, <2>2 DEF Settled
    <3>2. WillHold(path'[n], OffsetsIn("path", n)', s)
      BY <1>3, <1>5, <1>w, <2>2, <3>1
    <3>3. path'[n] # Absent
      BY <1>5, <1>w, <2>2
    <3> QED
      BY <1>a, <1>4, <2>2, <3>1, <3>2, <3>3 DEF Settled
  <2> QED
    BY <1>6, <2>1, <2>2
<1>7. ASSUME NEW g \in Settling, owner[g] = n => g = gen[p]
      PROVE  g \in Settling'
  <2>1. CASE owner[g] # n \/ fd[p] # "tmp"
    BY <1>1, <1>4, <1>5, <1>6, <1>7, <2>1 DEF Settling
  <2>2. CASE g = gen[p] /\ fd[p] = "tmp"
    <3>1. owner[g] = n /\ tmp[n] # Absent /\ WillHold(tmp[n], OffsetsIn("tmp", n), s)
      BY <1>a, <1>w, <2>2 DEF Settling, OpenFiles, NameOf
    <3>2. WillHold(tmp'[n], OffsetsIn("tmp", n)', s)
      BY <1>3, <1>5, <1>w, <2>2, <3>1
    <3>3. tmp'[n] # Absent
      BY <1>5, <1>w, <2>2
    <3> QED
      BY <1>a, <1>4, <2>2, <3>1, <3>2, <3>3 DEF Settling
  <2> QED
    BY <1>7, <2>1, <2>2
<1>8. ASSUME NEW m \in Names, m # n \/ fd[p] # "path"
      PROVE  (m \in BeingWritten' <=> m \in BeingWritten)
  BY <1>8, <1>n, <1>c, <1>d DEF BeingWritten
<1>9. fd[p] = "path" => gen[p] \in Settled'
  BY <1>6
<1> QED
  BY <1>n, <1>5, <1>6, <1>7, <1>8, <1>9 DEF Settled, Settling

(* The file that gets the name will hold the state of the collection. *)
LEMMA RenameTmpSettles ==
  ASSUME IInv, NEW p \in Procs, RenameTmp(p), gen[p] \in Settling
  PROVE  /\ \A g \in Gens : (owner[g] = NameOf(p) => g = gen[p]) =>
              /\ g \in Settled => g \in Settled'
              /\ g \in Settling => g \in Settling'
         /\ gen[p] \in Settled'
         /\ \A n \in Names : n # NameOf(p) => /\ path'[n] = path[n]
                                              /\ (n \in BeingWritten' <=> n \in BeingWritten)
<1> USE ServerAssumption DEF IInv, RenameTmp, memory, files, procs, history
<1>n. PICK n \in Names : n = NameOf(p)
  BY OwnerType DEF HoldsArc, SavePcs
<1>a. gen[p] \in Gens /\ gen[p] # 0 /\ owner[gen[p]] = n
  BY <1>n, OwnerType DEF HoldsArc, SavePcs, NameOf
<1>b. \A q \in Procs : NameOf(q)' = NameOf(q) /\ blk'[q] = blk[q]
  BY DEF NameOf
<1>c. \A q \in Procs :
        /\ NameOf(q) # n => fd'[q] = fd[q]
        /\ NameOf(q) = n => (fd'[q] = "path" <=> fd[q] = "tmp") /\ fd'[q] # "tmp"
  BY <1>n DEF TypeOK
<1>1. \A d \in {"tmp", "path"}, m \in Names : m # n => OffsetsIn(d, m)' = OffsetsIn(d, m)
  BY <1>n, <1>b, <1>c DEF OffsetsIn
<1>2. OffsetsIn("path", n)' = OffsetsIn("tmp", n)
  BY <1>n, <1>b, <1>c DEF OffsetsIn
<1>3. /\ path'[n] = tmp[n] /\ tmp'[n] = Absent /\ tmp[n] # Absent
      /\ \A m \in Names : m # n => path'[m] = path[m] /\ tmp'[m] = tmp[m]
  BY <1>a, <1>n DEF TypeOK
<1>4. \A g \in Gens : Current(g)' = Current(g) /\ owner'[g] = owner[g]
  BY DEF Current
<1>5. gen[p] \in Settled'
  <2>1. WillHold(tmp[n], OffsetsIn("tmp", n), Current(gen[p]))
    BY <1>a, <1>3 DEF Settling
  <2> QED
    BY <1>a, <1>2, <1>3, <1>4, <2>1 DEF Settled
<1>6. ASSUME NEW g \in Settled, owner[g] # n
      PROVE  g \in Settled'
  BY <1>1, <1>3, <1>4, <1>6 DEF Settled
<1>7. ASSUME NEW g \in Settling, owner[g] # n
      PROVE  g \in Settling'
  BY <1>1, <1>3, <1>4, <1>6, <1>7 DEF Settling
<1>8. gen[p] \in Settling'
  BY <1>a, <1>3, <1>4, <1>5 DEF Settling
<1>9. \A m \in Names : m # n => (m \in BeingWritten' <=> m \in BeingWritten)
  <2>1. \A m : m \in BeingWritten <=> \E q \in Procs : fd[q] = "path" /\ NameOf(q) = m
    BY DEF BeingWritten
  <2>2. \A m : m \in BeingWritten' <=> \E q \in Procs : fd'[q] = "path" /\ NameOf(q)' = m
    BY DEF BeingWritten
  <2> QED
    BY <1>b, <1>c, <2>1, <2>2
<1>10. ASSUME NEW g \in Gens, owner[g] = n => g = gen[p]
       PROVE  (g \in Settled => g \in Settled') /\ (g \in Settling => g \in Settling')
  BY <1>5, <1>6, <1>7, <1>8, <1>10
<1>11. \A m \in Names : m # n => path'[m] = path[m] /\ (m \in BeingWritten' <=> m \in BeingWritten)
  BY <1>3, <1>9
<1> QED
  BY <1>n, <1>5, <1>10, <1>11

-----------------------------------------------------------------------------
(* What the steps do to the invariant, one part of it at a time. *)

(* Saves go on as they were, and torn files are as torn as before. *)
LEMMA QuietSaves ==
  ASSUME OInv, Quiet, Alive' => Alive,
         \A q \in Procs : pc'[q] \in {"f_write", "f_rename", "f_clear"} =>
                            pc'[q] = pc[q] /\ gen'[q] = gen[q],
         \A q \in Procs : pc[q] \in SavePcs => index'[gen[q]] = index[gen[q]]
  PROVE  SavesSettle' /\ TornOnlyWhileWriting'
<1> USE DEF OInv
<1>a. \A g \in Gens : index'[g] = index[g] =>
        (g \in Settled => g \in Settled') /\ (g \in Settling => g \in Settling')
  BY QuietSettles
<1>1. \A q \in Procs : pc[q] \in SavePcs =>
        /\ gen[q] \in Gens
        /\ gen[q] \in Settled => gen[q] \in Settled'
        /\ gen[q] \in Settling => gen[q] \in Settling'
  BY <1>a DEF IInv, HoldsArc
<1>2. SavesSettle'
  <2> SUFFICES ASSUME NEW q \in Procs
               PROVE  /\ pc'[q] \in {"f_write", "f_rename"} => gen'[q] \in Settling'
                      /\ fd'[q] = "path" \/ pc'[q] = "f_clear" => gen'[q] \in Settled'
    BY DEF SavesSettle
  <2>1. fd'[q] = "path" => fd[q] = "path" /\ pc[q] = "f_write" /\ gen'[q] = gen[q]
    BY DEF Quiet, IInv, OpenFiles
  <2> QED
    BY <1>1, <2>1 DEF SavesSettle, SavePcs
<1>3. TornOnlyWhileWriting'
  BY QuietSettles DEF TornOnlyWhileWriting, Quiet, StillWriting, BeingWritten
<1> QED
  BY <1>2, <1>3

(* No flag is cleared, no index changes, and who is to mark one still is. *)
LEMMA QuietClean ==
  ASSUME OInv, Quiet, Alive' => Alive, UNCHANGED <<registry, index, dirty>>,
         \A q \in Workers : pc[q] = "mark" => pc'[q] = "mark" /\ gen'[q] = gen[q]
  PROVE  CleanSettled'
<1> SUFFICES ASSUME Alive', NEW n \in Names, registry[n] # 0, ~ dirty[registry[n]],
                    \A q \in Workers : ~ (pc'[q] = "mark" /\ gen'[q] = registry[n])
             PROVE  registry[n] \in Settled'
  BY DEF CleanSettled
<1>1. registry[n] \in Gens
  BY DEF OInv, IInv, TypeOK
<1>2. registry[n] \in Settled
  BY DEF OInv, CleanSettled
<1> QED
  BY <1>1, <1>2, QuietSettles DEF OInv

(* Nothing was applied, acknowledged or forgotten. *)
LEMMA SameAcked ==
  ASSUME OInv, UNCHANGED <<index, acked>>, phase' = phase \/ phase \notin {"crashed", "failed"},
         \A q \in Procs : pc'[q] = "mark" => pc[q] = "mark" /\ gen'[q] = gen[q] /\ wr'[q] = wr[q]
  PROVE  AckedApplied'
  BY DEF OInv, AckedApplied

(* The final flush does not get on. *)
LEMMA QuietFinal ==
  ASSUME OInv, Quiet, phase' = phase, UNCHANGED <<registry, index>>,
         todo'[Main] = todo[Main], gen'[Main] = gen[Main]
  PROVE  FinalSettles'
<1>1. \A n \in Names : registry[n] # 0 => registry[n] \in Gens
  BY DEF OInv, IInv, TypeOK
<1> QED
  BY <1>1, QuietSettles DEF OInv, FinalSettles

(* Workers at work mean that there is no final flush yet. *)
LEMMA WorkerNotFinal ==
  ASSUME IInv, NEW p \in Procs, pc[p] # "idle", p \in Workers
  PROVE  phase \in {"running", "draining"}
  BY DEF IInv, Stopped, Alive

(* Before the final flush nothing is asked of it. *)
LEMMA NotFinal ==
  ASSUME phase' \notin {"final", "down"}
  PROVE  FinalSettles'
  BY DEF FinalSettles

(* The parts of the invariant that are not those of other modules. *)
Rest == SavesSettle /\ CleanSettled /\ TornOnlyWhileWriting /\ AckedApplied /\ FinalSettles

(* A request takes an Arc; the saves and the flags stay as they are. *)
LEMMA StartRequestRest ==
  ASSUME OInv, NEW p \in Workers, NEW n \in Names, StartWrite(p, n) \/ StartSnapshot(p, n)
  PROVE  Rest'
<1> USE DEF StartWrite, StartSnapshot, Get, memory, files, procs, history
<1>1. Quiet /\ phase' = "running" /\ phase = "running" /\ p \in Procs
  BY DEF Quiet, OInv, IInv, OpenFiles, TypeOK, Procs
<1>2. \A q \in Procs : pc'[q] \in SavePcs \cup {"mark"} => q # p /\ pc'[q] = pc[q]
  BY DEF OInv, IInv, TypeOK, SavePcs
<1>3. \A q \in Procs : q # p => gen'[q] = gen[q] /\ wr'[q] = wr[q] /\ pc'[q] = pc[q]
  BY DEF OInv, IInv, TypeOK
<1>4. pc[p] = "idle"
  OBVIOUS
<1>5. SavesSettle' /\ TornOnlyWhileWriting'
  BY <1>1, <1>2, <1>3, QuietSaves DEF SavePcs, Alive
<1>6. CleanSettled'
  BY <1>1, <1>3, <1>4, QuietClean DEF Procs, Alive
<1>7. AckedApplied'
  BY <1>1, <1>2, <1>3, SameAcked
<1>8. FinalSettles'
  BY <1>1, NotFinal
<1> QED
  BY <1>5, <1>6, <1>7, <1>8 DEF Rest

(* The collection whose index changes has no save and is to be marked. *)
LEMMA ApplyWriteRest ==
  ASSUME OInv, NEW p \in Procs, ApplyWrite(p)
  PROVE  Rest'
<1> USE DEF ApplyWrite, memory, files, procs, history
<1>a. p \in Workers /\ gen[p] \in Gens /\ wr[p] \in Writes /\ pc[p] \notin SavePcs
  BY DEF OInv, IInv, HoldsArc, WritePcs, SavePcs
<1>b. phase \in {"running", "draining"}
  BY <1>a, WorkerNotFinal DEF OInv
<1>1. Quiet
  BY DEF Quiet
<1>2. /\ pc'[p] = "mark"
      /\ \A q \in Procs : q # p => pc'[q] = pc[q]
      /\ index'[gen[p]] = index[gen[p]] \cup {wr[p]}
      /\ \A g \in Gens : g # gen[p] => index'[g] = index[g]
  BY <1>a DEF OInv, IInv, TypeOK
<1>3. \A q \in Procs : pc[q] \in SavePcs => gen[q] # gen[p] /\ gen[q] \in Gens
  BY DEF WriteLockFree, Saving, OInv, IInv, HoldsArc
<1>4. SavesSettle' /\ TornOnlyWhileWriting'
  BY <1>1, <1>2, <1>3, QuietSaves DEF Alive
<1>5. CleanSettled'
  <2> SUFFICES ASSUME NEW n \in Names, registry[n] # 0, ~ dirty[registry[n]],
                      \A q \in Workers : ~ (pc'[q] = "mark" /\ gen[q] = registry[n])
               PROVE  registry[n] \in Settled'
    BY DEF CleanSettled
  <2>1. registry[n] # gen[p] /\ registry[n] \in Gens
    BY <1>a, <1>2 DEF OInv, IInv, TypeOK
  <2>2. \A q \in Workers : ~ (pc[q] = "mark" /\ gen[q] = registry[n])
    BY <1>2, <2>1 DEF Procs
  <2>3. registry[n] \in Settled
    BY <1>b, <2>2 DEF OInv, CleanSettled, Alive
  <2> QED
    BY <1>1, <1>2, <2>1, <2>3, QuietSettles DEF OInv
<1>6. AckedApplied'
  <2>1. \A g \in Gens : index[g] \subseteq index'[g]
    BY <1>2
  <2>2. \A q \in Procs : pc[q] = "mark" => gen[q] \in Gens
    BY DEF OInv, IInv, HoldsArc, WritePcs
  <2> QED
    BY <1>2, <2>1, <2>2, <1>b DEF OInv, AckedApplied
<1>7. FinalSettles'
  BY <1>b, NotFinal
<1> QED
  BY <1>4, <1>5, <1>6, <1>7 DEF Rest

(* The request ends, and its mutation was not applied. *)
LEMMA ApplyNothingRest ==
  ASSUME OInv, NEW p \in Procs, ApplyNothing(p)
  PROVE  Rest'
<1> USE DEF ApplyNothing, Finish, memory, files, procs, history
<1>a. p \in Workers /\ phase \in {"running", "draining"}
  BY WorkerNotFinal DEF OInv, IInv, HoldsArc, WritePcs
<1>1. Quiet
  BY DEF Quiet, OInv, IInv, OpenFiles, TypeOK
<1>2. pc'[p] = "idle" /\ \A q \in Procs : q # p => pc'[q] = pc[q] /\ gen'[q] = gen[q] /\ wr'[q] = wr[q]
  BY <1>a DEF OInv, IInv, TypeOK
<1>3. SavesSettle' /\ TornOnlyWhileWriting'
  BY <1>1, <1>2, QuietSaves DEF Alive
<1>4. CleanSettled'
  BY <1>1, <1>2, QuietClean DEF Alive, Procs
<1>5. AckedApplied'
  BY <1>2, SameAcked
<1>6. FinalSettles'
  BY <1>a, NotFinal
<1> QED
  BY <1>3, <1>4, <1>5, <1>6 DEF Rest

(* Who was to mark the collection has done so. *)
LEMMA MarkDirtyRest ==
  ASSUME OInv, NEW p \in Procs, MarkDirty(p)
  PROVE  Rest'
<1> USE DEF MarkDirty, Finish, memory, files, procs, history
<1>a. p \in Workers /\ phase \in {"running", "draining"} /\ gen[p] \in Gens
  BY WorkerNotFinal DEF OInv, IInv, HoldsArc, WritePcs
<1>1. Quiet
  BY DEF Quiet, OInv, IInv, OpenFiles, TypeOK
<1>2. /\ pc'[p] = "idle"
      /\ \A q \in Procs : q # p => pc'[q] = pc[q] /\ gen'[q] = gen[q] /\ wr'[q] = wr[q]
      /\ dirty'[gen[p]] = TRUE
      /\ \A g \in Gens : g # gen[p] => dirty'[g] = dirty[g] /\ acked'[g] = acked[g]
      /\ acked'[gen[p]] = acked[gen[p]] \cup {wr[p]}
  BY <1>a DEF OInv, IInv, TypeOK
<1>3. SavesSettle' /\ TornOnlyWhileWriting'
  BY <1>1, <1>2, QuietSaves DEF Alive
<1>4. CleanSettled'
  <2> SUFFICES ASSUME NEW n \in Names, registry[n] # 0, ~ dirty'[registry[n]],
                      \A q \in Workers : ~ (pc'[q] = "mark" /\ gen'[q] = registry[n])
               PROVE  registry[n] \in Settled'
    BY DEF CleanSettled
  <2>1. registry[n] # gen[p] /\ registry[n] \in Gens
    BY <1>2 DEF OInv, IInv, TypeOK
  <2>2. ~ dirty[registry[n]] /\ \A q \in Workers : ~ (pc[q] = "mark" /\ gen[q] = registry[n])
    BY <1>2, <2>1 DEF Procs
  <2>3. registry[n] \in Settled
    BY <1>a, <2>2 DEF OInv, CleanSettled, Alive
  <2> QED
    BY <1>1, <2>1, <2>3, QuietSettles DEF OInv
<1>5. AckedApplied'
  BY <1>a, <1>2 DEF OInv, AckedApplied
<1>6. FinalSettles'
  BY <1>a, NotFinal
<1> QED
  BY <1>3, <1>4, <1>5, <1>6 DEF Rest

(* The save has not opened a file yet. *)
LEMMA FlushLockRest ==
  ASSUME OInv, NEW p \in Procs, FlushLock(p)
  PROVE  Rest'
<1> USE DEF FlushLock, memory, files, procs, history
<1>1. Quiet
  BY DEF Quiet
<1>2. pc[p] = "f_lock" /\ pc'[p] = "f_open" /\ \A q \in Procs : q # p => pc'[q] = pc[q]
  BY DEF OInv, IInv, TypeOK
<1>3. SavesSettle' /\ TornOnlyWhileWriting'
  BY <1>1, <1>2, QuietSaves DEF Alive
<1>4. CleanSettled'
  BY <1>1, <1>2, QuietClean DEF Alive, Procs
<1>5. AckedApplied'
  BY <1>2, SameAcked
<1>6. FinalSettles'
  BY <1>1, QuietFinal
<1> QED
  BY <1>3, <1>4, <1>5, <1>6 DEF Rest

(* What is settled of all collections in use stays settled. *)
LEMMA FileStepClean ==
  ASSUME OInv, NEW p \in Procs, gen[p] # 0,
         UNCHANGED <<phase, registry, index, dirty, gen, wr, todo, acked>>,
         \A q \in Procs : q # p => pc'[q] = pc[q],
         pc[p] # "mark", pc'[p] # "mark",
         \A g \in Gens : (owner[g] = NameOf(p) => g = gen[p]) => (g \in Settled => g \in Settled')
  PROVE  CleanSettled' /\ AckedApplied' /\ FinalSettles'
<1>1. ASSUME NEW m \in Names, registry[m] # 0, registry[m] \in Settled
      PROVE  registry[m] \in Settled'
  <2>1. registry[m] \in Gens /\ owner[registry[m]] = m
    BY <1>1 DEF OInv, IInv, TypeOK, RegistryOwns
  <2>2. m = NameOf(p) => registry[m] = gen[p]
    BY <1>1, SameArc DEF OInv
  <2> QED
    BY <1>1, <2>1, <2>2
<1>2. CleanSettled'
  BY <1>1 DEF OInv, CleanSettled, Alive, Procs
<1>3. AckedApplied'
  BY SameAcked
<1>4. FinalSettles'
  BY <1>1 DEF OInv, FinalSettles
<1> QED
  BY <1>2, <1>3, <1>4

(* The other saves under way are of the same collection, or of another name. *)
LEMMA OthersSettle ==
  ASSUME OInv, NEW p \in Procs, gen[p] # 0, NEW q \in Procs, pc[q] \in SavePcs,
         \A g \in Gens : (owner[g] = NameOf(p) => g = gen[p]) =>
           /\ g \in Settled => g \in Settled'
           /\ g \in Settling => g \in Settling'
  PROVE  /\ gen[q] \in Settled => gen[q] \in Settled'
         /\ gen[q] \in Settling => gen[q] \in Settling'
<1>1. gen[q] \in Gens /\ gen[q] # 0
  BY ServerAssumption DEF OInv, IInv, HoldsArc
<1>2. owner[gen[q]] = NameOf(p) => gen[q] = gen[p]
  BY <1>1, SameArc DEF OInv, NameOf
<1> QED
  BY <1>1, <1>2

(* The save has everything to write yet. *)
LEMMA OpenTmpRest ==
  ASSUME OInv, NEW p \in Procs, OpenTmp(p)
  PROVE  Rest'
<1> USE DEF memory, files, procs, history
<1>a. gen[p] \in Gens /\ gen[p] # 0 /\ pc[p] = "f_open"
  BY ServerAssumption DEF OpenTmp, OInv, IInv, HoldsArc, SavePcs
<1>b. /\ \A g \in Gens : (g \in Settled => g \in Settled') /\ (g \in Settling => g \in Settling')
      /\ gen[p] \in Settling'
      /\ \A n \in Names : n \in BeingWritten => n \in BeingWritten'
  BY OpenTmpSettles DEF OInv
<1>c. /\ pc'[p] = "f_write" /\ fd'[p] = "tmp"
      /\ \A q \in Procs : q # p => pc'[q] = pc[q] /\ fd'[q] = fd[q]
      /\ UNCHANGED <<phase, registry, index, dirty, gen, wr, todo, acked, path>>
  BY DEF OpenTmp, OInv, IInv, TypeOK
<1>1. SavesSettle'
  <2> SUFFICES ASSUME NEW q \in Procs
               PROVE  /\ pc'[q] \in {"f_write", "f_rename"} => gen[q] \in Settling'
                      /\ fd'[q] = "path" \/ pc'[q] = "f_clear" => gen[q] \in Settled'
    BY <1>c DEF SavesSettle
  <2>1. CASE q = p
    BY <1>b, <1>c, <2>1
  <2>2. CASE q # p
    <3>1. fd[q] = "path" \/ pc[q] \in {"f_write", "f_rename", "f_clear"} => gen[q] \in Gens
      BY DEF OInv, IInv, OpenFiles, HoldsArc, SavePcs
    <3> QED
      BY <1>b, <1>c, <2>2, <3>1 DEF OInv, SavesSettle
  <2> QED
    BY <2>1, <2>2
<1>2. TornOnlyWhileWriting'
  BY <1>b, <1>c DEF OInv, TornOnlyWhileWriting, BeingWritten, StillWriting, Alive
<1>3. CleanSettled' /\ AckedApplied' /\ FinalSettles'
  BY <1>a, <1>b, <1>c, FileStepClean
<1> QED
  BY <1>1, <1>2, <1>3 DEF Rest

(* A name whose collection is settled after the step has no torn file. *)
LEMMA FileStepTorn ==
  ASSUME OInv, IInv', NEW p \in Procs, gen[p] # 0, UNCHANGED <<phase, owner>>,
         \A n \in Names : (n = NameOf(p) => gen[p] \notin Settled') =>
           path'[n] = path[n] /\ (n \in BeingWritten => n \in BeingWritten')
  PROVE  TornOnlyWhileWriting'
<1> SUFFICES ASSUME Alive, NEW n \in Names
             PROVE  path'[n] = Absent \/ Readable(path'[n]) \/ n \in BeingWritten'
  BY DEF TornOnlyWhileWriting, BeingWritten, StillWriting, Alive
<1>1. path[n] = Absent \/ Readable(path[n]) \/ n \in BeingWritten
  BY DEF OInv, TornOnlyWhileWriting, BeingWritten, StillWriting
<1>2. CASE n = NameOf(p) /\ gen[p] \in Settled'
  <2>1. PICK g \in Settled' : g = gen[p]
    BY <1>2
  <2>2. owner'[g] = n
    BY <1>2, <2>1 DEF NameOf
  <2> QED
    BY <2>1, <2>2, SettledFileNext
<1>3. CASE ~ (n = NameOf(p) /\ gen[p] \in Settled')
  BY <1>1, <1>3
<1> QED
  BY <1>2, <1>3

(* The file of the name, or its temporary file, gets a block it should have. *)
LEMMA WriteBlockRest ==
  ASSUME OInv, IInv', NEW p \in Procs, WriteBlock(p)
  PROVE  Rest'
<1> USE DEF memory, files, procs, history
<1>a. gen[p] \in Gens /\ gen[p] # 0 /\ NameOf(p) \in Names /\ pc[p] = "f_write"
  BY OwnerType, ServerAssumption DEF WriteBlock, OInv, IInv, HoldsArc, SavePcs
<1>b. gen[p] \in Settling /\ (fd[p] = "path" => gen[p] \in Settled)
  BY <1>a DEF OInv, SavesSettle
<1>c. /\ \A g \in Gens : (owner[g] = NameOf(p) => g = gen[p]) =>
           /\ g \in Settled => g \in Settled'
           /\ g \in Settling => g \in Settling'
      /\ fd[p] = "path" => gen[p] \in Settled'
      /\ \A n \in Names : path'[n] # path[n] => fd[p] = "path" /\ n = NameOf(p)
      /\ \A n \in Names : n # NameOf(p) \/ fd[p] # "path" =>
                            (n \in BeingWritten' <=> n \in BeingWritten)
  BY <1>b, WriteBlockSettles DEF OInv
<1>d. /\ pc'[p] \in {"f_write", "f_rename"} /\ fd'[p] \in {fd[p], "none"}
      /\ \A q \in Procs : q # p => pc'[q] = pc[q] /\ fd'[q] = fd[q]
      /\ UNCHANGED <<phase, registry, owner, index, dirty, gen, wr, todo, acked>>
  BY DEF WriteBlock, OInv, IInv, TypeOK
<1>1. SavesSettle'
  <2> SUFFICES ASSUME NEW q \in Procs
               PROVE  /\ pc'[q] \in {"f_write", "f_rename"} => gen[q] \in Settling'
                      /\ fd'[q] = "path" \/ pc'[q] = "f_clear" => gen[q] \in Settled'
    BY <1>d DEF SavesSettle
  <2>1. CASE q = p
    BY <1>a, <1>b, <1>c, <1>d, <2>1
  <2>2. CASE q # p
    <3>1. fd[q] = "path" => pc[q] = "f_write"
      BY DEF OInv, IInv, OpenFiles
    <3>2. pc[q] \in SavePcs => /\ gen[q] \in Settled => gen[q] \in Settled'
                               /\ gen[q] \in Settling => gen[q] \in Settling'
      BY <1>a, <1>c, OthersSettle
    <3> QED
      BY <1>d, <2>2, <3>1, <3>2 DEF OInv, SavesSettle, SavePcs
  <2> QED
    BY <2>1, <2>2
<1>e. \A n \in Names : (n = NameOf(p) => gen[p] \notin Settled') =>
        path'[n] = path[n] /\ (n \in BeingWritten => n \in BeingWritten')
  BY <1>c
<1>2. TornOnlyWhileWriting'
  BY <1>a, <1>d, <1>e, FileStepTorn
<1>3. CleanSettled' /\ AckedApplied' /\ FinalSettles'
  BY <1>a, <1>c, <1>d, FileStepClean
<1> QED
  BY <1>1, <1>2, <1>3 DEF Rest

(* The file that gets the name is settled, whoever wrote it. *)
LEMMA RenameTmpRest ==
  ASSUME OInv, IInv', NEW p \in Procs, RenameTmp(p)
  PROVE  Rest'
<1> USE DEF memory, files, procs, history
<1>a. gen[p] \in Gens /\ gen[p] # 0 /\ NameOf(p) \in Names /\ pc[p] = "f_rename"
  BY OwnerType, ServerAssumption DEF RenameTmp, OInv, IInv, HoldsArc, SavePcs
<1>b. gen[p] \in Settling
  BY <1>a DEF OInv, SavesSettle
<1>c. /\ \A g \in Gens : (owner[g] = NameOf(p) => g = gen[p]) =>
           /\ g \in Settled => g \in Settled'
           /\ g \in Settling => g \in Settling'
      /\ gen[p] \in Settled'
      /\ \A n \in Names : n # NameOf(p) => /\ path'[n] = path[n]
                                           /\ (n \in BeingWritten' <=> n \in BeingWritten)
  BY <1>b, RenameTmpSettles DEF OInv
<1>d. /\ pc'[p] = "f_clear" /\ \A q \in Procs : q # p => pc'[q] = pc[q]
      /\ \A q \in Procs : fd'[q] = "path" => (NameOf(q) = NameOf(p) /\ fd[q] = "tmp") \/ fd[q] = "path"
      /\ UNCHANGED <<phase, registry, owner, index, dirty, gen, wr, todo, acked>>
  BY DEF RenameTmp, OInv, IInv, TypeOK
<1>1. SavesSettle'
  <2> SUFFICES ASSUME NEW q \in Procs
               PROVE  /\ pc'[q] \in {"f_write", "f_rename"} => gen[q] \in Settling'
                      /\ fd'[q] = "path" \/ pc'[q] = "f_clear" => gen[q] \in Settled'
    BY <1>d DEF SavesSettle
  <2>1. CASE q = p
    BY <1>c, <1>d, <2>1
  <2>2. CASE q # p
    <3>1. fd'[q] = "path" => pc[q] = "f_write"
      BY <1>d DEF OInv, IInv, OpenFiles
    <3>2. pc[q] \in SavePcs => /\ gen[q] \in Settled => gen[q] \in Settled'
                               /\ gen[q] \in Settling => gen[q] \in Settling'
      BY <1>a, <1>c, OthersSettle
    <3>3. pc[q] \in SavePcs /\ NameOf(q) = NameOf(p) => gen[q] = gen[p]
      BY <1>a, SameArc, ServerAssumption DEF OInv, IInv, HoldsArc
    <3> QED
      BY <1>c, <1>d, <2>2, <3>1, <3>2, <3>3 DEF OInv, SavesSettle, SavePcs
  <2> QED
    BY <2>1, <2>2
<1>e. \A n \in Names : (n = NameOf(p) => gen[p] \notin Settled') =>
        path'[n] = path[n] /\ (n \in BeingWritten => n \in BeingWritten')
  BY <1>c
<1>2. TornOnlyWhileWriting'
  BY <1>a, <1>d, <1>e, FileStepTorn
<1>3. CleanSettled' /\ AckedApplied' /\ FinalSettles'
  BY <1>a, <1>c, <1>d, FileStepClean
<1> QED
  BY <1>1, <1>2, <1>3 DEF Rest

(* A save that ends leaves its collection settled, for the final flush too. *)
LEMMA SaveEndsFinal ==
  ASSUME OInv, Quiet, phase' = phase, UNCHANGED <<registry, index, todo>>,
         NEW p \in Procs, gen[p] \in Settled, \A q \in Procs : q # p => gen'[q] = gen[q]
  PROVE  FinalSettles'
<1>1. \A n \in Names : registry[n] # 0 => registry[n] \in Gens
  BY DEF OInv, IInv, TypeOK
<1>2. gen[Main] \in Settled \/ gen'[Main] = gen[Main]
  BY DEF Procs, Flushers
<1> QED
  BY <1>1, <1>2, QuietSettles DEF OInv, FinalSettles

(* The flag goes once the state of the collection is in the file, or will be. *)
LEMMA ClearDirtyRest ==
  ASSUME OInv, NEW p \in Procs, ClearDirty(p)
  PROVE  Rest'
<1> USE DEF ClearDirty, Finish, memory, files, procs, history
<1>a. gen[p] \in Settled /\ gen[p] \in Gens
  BY DEF OInv, SavesSettle, IInv, HoldsArc, SavePcs
<1>1. Quiet
  BY DEF Quiet, OInv, IInv, OpenFiles, TypeOK
<1>2. /\ pc'[p] \in {"idle", "next"}
      /\ \A q \in Procs : q # p => pc'[q] = pc[q] /\ gen'[q] = gen[q]
      /\ \A g \in Gens : g # gen[p] => dirty'[g] = dirty[g]
  BY <1>a DEF OInv, IInv, TypeOK
<1>3. SavesSettle' /\ TornOnlyWhileWriting'
  BY <1>1, <1>2, QuietSaves DEF Alive
<1>4. CleanSettled'
  <2> SUFFICES ASSUME Alive, NEW n \in Names, registry[n] # 0, ~ dirty'[registry[n]],
                      \A q \in Workers : ~ (pc'[q] = "mark" /\ gen'[q] = registry[n])
               PROVE  registry[n] \in Settled'
    BY DEF CleanSettled, Alive
  <2>1. registry[n] \in Gens
    BY DEF OInv, IInv, TypeOK
  <2>2. CASE registry[n] = gen[p]
    BY <1>a, <1>1, <2>2, QuietSettles DEF OInv
  <2>3. CASE registry[n] # gen[p]
    <3>1. ~ dirty[registry[n]] /\ \A q \in Workers : ~ (pc[q] = "mark" /\ gen[q] = registry[n])
      BY <1>2, <2>1, <2>3 DEF Procs
    <3>2. registry[n] \in Settled
      BY <3>1 DEF OInv, CleanSettled
    <3> QED
      BY <1>1, <2>1, <3>2, QuietSettles DEF OInv
  <2> QED
    BY <2>2, <2>3
<1>5. AckedApplied'
  BY <1>2, SameAcked
<1>6. FinalSettles'
  BY <1>1, <1>2, <1>a, SaveEndsFinal
<1> QED
  BY <1>3, <1>4, <1>5, <1>6 DEF Rest

(* Only another save's rename can fail a save: the file has its name already. *)
LEMMA FlushFailsRest ==
  ASSUME SavesSucceed, OInv, NEW p \in Procs, FlushFails(p)
  PROVE  Rest'
<1> USE DEF FlushFails, Finish, memory, files, procs, history
<1>a. pc[p] = "f_rename" /\ tmp[NameOf(p)] = Absent
  BY DEF SavesSucceed, Unserialisable
<1>b. gen[p] \in Settled /\ gen[p] \in Gens
  <2>1. gen[p] \in Settling
    BY <1>a DEF OInv, SavesSettle
  <2> QED
    BY <1>a, <2>1 DEF Settling, NameOf
<1>c. fd' = fd
  BY <1>a DEF OInv, IInv, OpenFiles, TypeOK
<1>1. Quiet
  BY <1>a, <1>c DEF Quiet, OInv, IInv, OpenFiles, TypeOK
<1>2. /\ pc'[p] \in {"idle", "next"}
      /\ \A q \in Procs : q # p => pc'[q] = pc[q] /\ gen'[q] = gen[q]
  BY <1>a DEF OInv, IInv, TypeOK
<1>3. SavesSettle' /\ TornOnlyWhileWriting'
  BY <1>1, <1>2, QuietSaves DEF Alive
<1>4. CleanSettled'
  BY <1>1, <1>2, <1>a, QuietClean DEF Alive, Procs
<1>5. AckedApplied'
  BY <1>2, SameAcked
<1>6. FinalSettles'
  BY <1>1, <1>2, <1>b, SaveEndsFinal
<1> QED
  BY <1>3, <1>4, <1>5, <1>6 DEF Rest

(* A new incarnation has no file and is not registered. *)
LEMMA BeginCreateRest ==
  ASSUME OInv, NEW p \in Workers, NEW n \in Names, BeginCreate(p, n)
  PROVE  Rest'
<1> USE DEF BeginCreate, memory, files, procs, history
<1>a. p \in Procs /\ fd[p] = "none" /\ nextGen \in Gens
  BY ServerAssumption DEF OInv, IInv, OpenFiles, TypeOK, Procs
<1>b. \A g \in Gens : owner[g] \in Names => owner'[g] = owner[g]
  BY <1>a, ServerAssumption DEF OInv, IInv, TypeOK, Unmade
<1>1. Quiet
  BY <1>a, <1>b DEF Quiet, OInv, IInv, TypeOK
<1>2. /\ pc[p] = "idle" /\ pc'[p] = "f_open"
      /\ \A q \in Procs : q # p => pc'[q] = pc[q] /\ gen'[q] = gen[q]
  BY <1>a DEF OInv, IInv, TypeOK
<1>3. SavesSettle' /\ TornOnlyWhileWriting'
  BY <1>1, <1>2, QuietSaves DEF Alive
<1>4. CleanSettled'
  BY <1>1, <1>2, QuietClean DEF Alive, Procs
<1>5. AckedApplied'
  BY <1>2, SameAcked
<1>6. FinalSettles'
  BY NotFinal
<1> QED
  BY <1>3, <1>4, <1>5, <1>6 DEF Rest

(* The collection is registered when its save is done. *)
LEMMA PublishCreatedRest ==
  ASSUME OInv, NEW p \in Procs, PublishCreated(p)
  PROVE  Rest'
<1> USE DEF PublishCreated, Finish, memory, files, procs, history
<1>a. gen[p] \in Settled /\ gen[p] \in Gens /\ p \in Workers /\ NameOf(p) \in Names
  BY OwnerType, ServerAssumption DEF OInv, SavesSettle, IInv, HoldsArc, SavePcs, LockHeld
<1>b. phase \in {"running", "draining"}
  BY <1>a, WorkerNotFinal DEF OInv
<1>1. Quiet
  BY DEF Quiet, OInv, IInv, OpenFiles, TypeOK
<1>2. /\ pc'[p] = "idle"
      /\ \A q \in Procs : q # p => pc'[q] = pc[q] /\ gen'[q] = gen[q]
      /\ registry'[NameOf(p)] = gen[p]
      /\ \A n \in Names : n # NameOf(p) => registry'[n] = registry[n]
  BY <1>a DEF OInv, IInv, TypeOK
<1>3. SavesSettle' /\ TornOnlyWhileWriting'
  BY <1>1, <1>2, QuietSaves DEF Alive
<1>4. CleanSettled'
  <2> SUFFICES ASSUME NEW n \in Names, registry'[n] # 0, ~ dirty[registry'[n]],
                      \A q \in Workers : ~ (pc'[q] = "mark" /\ gen'[q] = registry'[n])
               PROVE  registry'[n] \in Settled'
    BY DEF CleanSettled
  <2>1. CASE n = NameOf(p)
    BY <1>a, <1>1, <1>2, <2>1, QuietSettles DEF OInv
  <2>2. CASE n # NameOf(p)
    <3>1. registry'[n] = registry[n] /\ registry[n] \in Gens
      BY <1>2, <2>2 DEF OInv, IInv, TypeOK
    <3>2. \A q \in Workers : ~ (pc[q] = "mark" /\ gen[q] = registry[n])
      BY <1>2, <3>1 DEF Procs
    <3>3. registry[n] \in Settled
      BY <1>b, <3>1, <3>2 DEF OInv, CleanSettled, Alive
    <3> QED
      BY <1>1, <3>1, <3>3, QuietSettles DEF OInv
  <2> QED
    BY <2>1, <2>2
<1>5. AckedApplied'
  BY <1>2, SameAcked
<1>6. FinalSettles'
  BY <1>b, NotFinal
<1> QED
  BY <1>3, <1>4, <1>5, <1>6 DEF Rest

(* A clean collection that the final flush passes over is in its file. *)
LEMMA NextCollectionRest ==
  ASSUME OInv, NEW p \in Procs, NextCollection(p)
  PROVE  Rest'
<1> USE DEF NextCollection, memory, files, procs, history
<1>a. gen[p] = 0 /\ fd[p] = "none" /\ p \notin Workers /\ Main \in Procs
  BY DEF OInv, HandsRegistered, IInv, OpenFiles, TypeOK, Procs, Flushers
<1>1. Quiet
  BY <1>a DEF Quiet, OInv, IInv, TypeOK
<1>2. /\ pc[p] = "next" /\ pc'[p] \in {"next", "f_lock"}
      /\ \A q \in Procs : q # p => pc'[q] = pc[q] /\ gen'[q] = gen[q] /\ todo'[q] = todo[q]
  BY DEF OInv, IInv, TypeOK
<1>3. SavesSettle' /\ TornOnlyWhileWriting'
  BY <1>1, <1>2, QuietSaves DEF Alive
<1>4. CleanSettled'
  BY <1>1, <1>2, QuietClean DEF Alive, Procs
<1>5. AckedApplied'
  BY <1>2, SameAcked
<1>6. FinalSettles'
  <2>1. CASE p # Main
    BY <1>1, <1>2, <1>a, <2>1, QuietFinal
  <2>2. CASE p = Main /\ phase = "final"
    <3>1. PICK g \in todo[Main] : /\ todo'[Main] = todo[Main] \ {g}
                                  /\ dirty[g] => gen'[Main] = g
                                  /\ ~ dirty[g] => gen'[Main] = gen[Main]
      BY <2>2 DEF OInv, IInv, TypeOK
    <3>2. ASSUME NEW n \in Names, registry[n] # 0, registry[n] \notin todo'[Main],
                 gen'[Main] # registry[n]
          PROVE  registry[n] \in Settled
      <4>1. registry[n] \in todo[Main] => registry[n] = g /\ ~ dirty[g]
        BY <3>1, <3>2
      <4>2. ~ dirty[registry[n]] => registry[n] \in Settled
        BY <2>2, <3>2 DEF OInv, CleanSettled, IInv, Stopped, Alive
      <4>3. registry[n] \notin todo[Main] => registry[n] \in Settled
        BY <1>a, <2>2, <3>2 DEF OInv, FinalSettles
      <4> QED
        BY <4>1, <4>2, <4>3
    <3>3. \A n \in Names : registry[n] # 0 => registry[n] \in Gens
      BY DEF OInv, IInv, TypeOK
    <3> QED
      BY <1>1, <2>2, <3>2, <3>3, QuietSettles DEF OInv, FinalSettles
  <2>3. CASE p = Main /\ phase # "final"
    BY <1>2, <2>3 DEF OInv, IInv, Stopped
  <2> QED
    BY <2>1, <2>2, <2>3
<1> QED
  BY <1>3, <1>4, <1>5, <1>6 DEF Rest

(* flush_all begins or ends. *)
LEMMA TickRest ==
  ASSUME OInv, StartTick \/ \E p \in Procs : EndFlushAll(p)
  PROVE  Rest'
<1> USE DEF StartTick, EndFlushAll, memory, files, procs, history
<1>1. Quiet
  BY DEF Quiet
<1>2. /\ \A q \in Procs : pc'[q] # pc[q] => {pc[q], pc'[q]} = {"idle", "next"}
      /\ todo'[Main] = todo[Main]
  BY ServerAssumption DEF OInv, IInv, TypeOK, Procs, Flushers
<1>3. SavesSettle' /\ TornOnlyWhileWriting'
  BY <1>1, <1>2, QuietSaves DEF Alive
<1>4. CleanSettled'
  BY <1>1, <1>2, QuietClean DEF Alive, Procs
<1>5. AckedApplied'
  BY <1>2, SameAcked
<1>6. FinalSettles'
  BY <1>1, <1>2, QuietFinal
<1> QED
  BY <1>3, <1>4, <1>5, <1>6 DEF Rest

(* The process is asked to stop, runs its final flush and exits. *)
LEMMA ShutdownRest ==
  ASSUME OInv, Signal \/ StartFinalFlush \/ Exit
  PROVE  Rest'
<1> USE DEF Signal, StartFinalFlush, Exit, memory, files, procs, history
<1>1. Quiet
  BY DEF Quiet
<1>2. /\ UNCHANGED <<registry, index, dirty, gen, wr, acked>> /\ (Alive' => Alive)
      /\ \A q \in Procs : pc'[q] # pc[q] => pc'[q] = "next" /\ q \notin Workers
  BY ServerAssumption DEF OInv, IInv, TypeOK, Procs, Flushers, Alive, MainReturned
<1>3. SavesSettle' /\ TornOnlyWhileWriting'
  BY <1>1, <1>2, QuietSaves
<1>4. CleanSettled'
  BY <1>1, <1>2, QuietClean DEF Procs
<1>5. AckedApplied'
  BY <1>2, SameAcked DEF MainReturned
<1>6. FinalSettles'
  <2>1. CASE Signal
    BY <2>1, NotFinal
  <2>2. CASE StartFinalFlush
    <3>1. todo'[Main] = Registered
      BY <2>2 DEF OInv, IInv, TypeOK, Procs, Flushers
    <3> QED
      BY <1>2, <2>2, <3>1 DEF FinalSettles, Registered
  <2>3. CASE Exit
    <3>1. gen[Main] = 0 /\ todo[Main] = {} /\ phase = "final"
      BY <2>3 DEF MainReturned, OInv, HandsRegistered, Procs, Flushers
    <3>2. \A n \in Names : registry[n] # 0 => registry[n] \in Settled /\ registry[n] \in Gens
      BY <3>1 DEF OInv, FinalSettles, IInv, TypeOK
    <3> QED
      BY <1>1, <1>2, <2>3, <3>2, QuietSettles DEF OInv, FinalSettles
  <2> QED
    BY <2>1, <2>2, <2>3
<1> QED
  BY <1>3, <1>4, <1>5, <1>6 DEF Rest

(* Nobody works on a file; there may be torn ones. *)
LEMMA DeadRest ==
  ASSUME OInv, Crash \/ LoadFails
  PROVE  Rest'
<1>1. phase' \in {"crashed", "failed"}
  BY DEF Crash, LoadFails
<1>2. \A p \in Procs : pc'[p] = "idle" /\ fd'[p] = "none"
  <2>1. CASE Crash
    BY <2>1 DEF Crash
  <2>2. CASE LoadFails
    BY <2>2 DEF LoadFails, procs, OInv, IInv, Stopped, Alive, OpenFiles, TypeOK
  <2> QED
    BY <2>1, <2>2
<1> QED
  BY <1>1, <1>2, NotFinal DEF Rest, SavesSettle, CleanSettled, TornOnlyWhileWriting,
     AckedApplied, Alive

(* What is loaded is what the file holds. *)
LEMMA LoadRest ==
  ASSUME OInv, Load
  PROVE  Rest'
<1> USE ServerAssumption DEF Load, files, procs
<1>1. phase' = "running" /\ \A p \in Procs : pc'[p] = "idle" /\ fd'[p] = "none"
  BY DEF OInv, IInv, Stopped, Alive, OpenFiles, TypeOK
<1>2. ASSUME NEW n \in Names, registry'[n] # 0
      PROVE  registry'[n] \in Settled'
  <2> DEFINE g == Loaded(path[n]).gen
  <2>1. registry'[n] = g /\ path[n] # Absent /\ Readable(path[n]) /\ path[n] \in File
    BY <1>2 DEF OInv, IInv, TypeOK, Entry
  <2>2. Loaded(path[n]) \in Snapshot /\ owner[g] = n
    BY <2>1, LoadedType DEF OInv
  <2>3. \A m \in Names : path[m] # Absent /\ Loaded(path[m]).gen = g => m = n
    BY <2>2, LoadedType DEF OInv
  <2>4. g \in Gens /\ index'[g] = Loaded(path[n]).writes
    <3> DEFINE Stored(h) == UNION {Loaded(path[m]).writes :
                                     m \in {k \in {j \in Names : path[j] # Absent} :
                                              Loaded(path[k]).gen = h}}
    <3> HIDE DEF g
    <3>1. g = Loaded(path[n]).gen
      BY DEF g
    <3>2. g \in Gens
      BY <2>2, <3>1 DEF Snapshot
    <3>3. index' = [h \in Gens |-> Stored(h)]
      OBVIOUS
    <3>4. index'[g] = Stored(g)
      BY <3>2, <3>3
    <3>5. {k \in {j \in Names : path[j] # Absent} : Loaded(path[k]).gen = g} = {n}
      BY <2>1, <2>3, <3>1
    <3>6. Stored(g) = Loaded(path[n]).writes
      BY <3>5
    <3> QED
      BY <3>2, <3>4, <3>6
  <2>5. Current(g)' = Loaded(path[n])
    BY <2>2, <2>4 DEF Current, Snapshot
  <2>6. WillHold(path[n], OffsetsIn("path", n)', Loaded(path[n]))
    BY <2>1 DEF WillHold, Readable, Holds, Loaded, File, Size
  <2> QED
    BY <2>1, <2>2, <2>4, <2>5, <2>6 DEF Settled
<1>3. CleanSettled'
  BY <1>2 DEF CleanSettled
<1>4. TornOnlyWhileWriting'
  BY DEF TornOnlyWhileWriting
<1>5. SavesSettle' /\ FinalSettles'
  BY <1>1, NotFinal DEF SavesSettle
<1>6. AckedApplied'
  BY <1>1 DEF AckedApplied
<1> QED
  BY <1>3, <1>4, <1>5, <1>6 DEF Rest

(* Nothing changes. *)
LEMMA StutterRest ==
  ASSUME OInv, UNCHANGED vars
  PROVE  Rest'
<1>a. UNCHANGED <<phase, registry, owner, index, dirty, path, tmp, pc, gen, wr, todo, blk, fd, acked>>
  BY DEF vars, memory, files, procs, history
<1>1. Quiet
  BY <1>a DEF Quiet
<1>2. SavesSettle' /\ TornOnlyWhileWriting'
  BY <1>a, <1>1, QuietSaves DEF Alive
<1>3. CleanSettled'
  BY <1>a, <1>1, QuietClean DEF Alive
<1>4. AckedApplied'
  BY <1>a, SameAcked
<1>5. FinalSettles'
  BY <1>a, <1>1, QuietFinal
<1> QED
  BY <1>2, <1>3, <1>4, <1>5 DEF Rest

-----------------------------------------------------------------------------
(* The invariant. *)

(* There is nothing to save and nobody to do it. *)
LEMMA InitOInv == Init => OInv
<1> SUFFICES ASSUME Init PROVE OInv
  OBVIOUS
<1>1. IInv /\ HandsRegistered
  BY InitInv, InitHands
<1>2. SavesSettle /\ CleanSettled /\ TornOnlyWhileWriting
  BY DEF Init, SavesSettle, CleanSettled, TornOnlyWhileWriting
<1>3. AckedApplied /\ FinalSettles
  BY DEF Init, AckedApplied, FinalSettles
<1> QED
  BY <1>1, <1>2, <1>3 DEF OInv

(* Every step of a process preserves it. *)
LEMMA ContinueRest ==
  ASSUME NothingDropped, SavesSucceed, OInv, IInv', NEW p \in Procs, Continue(p)
  PROVE  Rest'
<1>1. ~ DropExists(p) /\ ~ DropUnlink(p)
  BY DEF DropExists, DropUnlink, OInv, HandsRegistered, DropPcs
<1> QED
  BY <1>1, ApplyWriteRest, ApplyNothingRest, MarkDirtyRest, FlushLockRest, OpenTmpRest,
     WriteBlockRest, RenameTmpRest, ClearDirtyRest, FlushFailsRest, PublishCreatedRest,
     NextCollectionRest, TickRest
     DEF Continue

(* And so does every other step. *)
LEMMA NextOInv ==
  ASSUME NothingDropped, SavesSucceed, OInv, [Next]_vars
  PROVE  OInv'
<1>1. IInv' /\ HandsRegistered'
  BY NextInv, NextHands DEF OInv
<1> SUFFICES Rest'
  BY <1>1 DEF OInv, Rest
<1>2. ASSUME NEW p \in Workers, NEW n \in Names, Request(p, n)
      PROVE  Rest'
  <2>1. ~ DropCollection(p, n)
    BY DEF NothingDropped, DropCollection
  <2> QED
    BY <1>2, <2>1, StartRequestRest, BeginCreateRest DEF Request
<1>3. ASSUME NEW p \in Procs, Continue(p)
      PROVE  Rest'
  BY <1>1, <1>3, ContinueRest
<1>4. CASE StartTick
  BY <1>4, TickRest
<1>5. CASE Lifecycle
  BY <1>5, ShutdownRest, DeadRest, LoadRest DEF Lifecycle
<1>6. CASE UNCHANGED vars
  BY <1>6, StutterRest
<1> QED
  BY <1>2, <1>3, <1>4, <1>5, <1>6 DEF Next

(* It says what the properties say. *)
LEMMA OInvImplies ==
  ASSUME OInv
  PROVE  DirtyCoversUnsaved /\ TornOnlyWhileWriting /\ CleanShutdownKeepsAcked
<1>1. \A n \in Names : registry[n] # 0 => owner[registry[n]] = n /\ registry[n] \in Gens
  BY DEF OInv, IInv, RegistryOwns, TypeOK
<1>2. \A n \in Names : registry[n] # 0 /\ registry[n] \in Settled => UpToDate(n) \/ StillWriting(n)
  BY <1>1, SettledFile DEF OInv, UpToDate
<1>3. DirtyCoversUnsaved
  BY <1>2 DEF OInv, CleanSettled, DirtyCoversUnsaved
<1>4. CleanShutdownKeepsAcked
  <2> SUFFICES ASSUME phase = "down", NEW n \in Names, registry[n] # 0
               PROVE  /\ Readable(path[n])
                      /\ Loaded(path[n]).gen = registry[n]
                      /\ acked[registry[n]] \subseteq Loaded(path[n]).writes
    BY DEF CleanShutdownKeepsAcked
  <2>1. ~ StillWriting(n)
    BY DEF StillWriting, OInv, IInv, OpenFiles, Stopped, Alive
  <2>2. UpToDate(n)
    BY <1>2, <2>1 DEF OInv, FinalSettles
  <2>3. acked[registry[n]] \subseteq index[registry[n]]
    BY <1>1 DEF OInv, AckedApplied
  <2> QED
    BY <2>2, <2>3 DEF UpToDate, Current
<1> QED
  BY <1>3, <1>4 DEF OInv

-----------------------------------------------------------------------------
(* The theorems. *)

(***************************************************************************)
(* Drops and failing saves are the only ways to get out of the invariant.  *)
(***************************************************************************)
THEOREM SavesInvariant ==
  ASSUME NothingDropped, SavesSucceed
  PROVE  Spec => []OInv
<1>1. OInv /\ [Next]_vars => OInv'
  BY NextOInv
<1> QED
  BY <1>1, InitOInv, PTL DEF Spec

(***************************************************************************)
(* The dirty flag never forgets a change (state.rs): where nothing is      *)
(* dropped and saves succeed, a collection whose flag is off and that no   *)
(* request is about to mark has its state in the file, or a save that      *)
(* completes the file is under way, whatever the saves and the requests    *)
(* that overlap, the restarts and what crashes left behind.                *)
(***************************************************************************)
THEOREM FlagCoversWrites ==
  ASSUME NothingDropped, SavesSucceed
  PROVE  Spec => []DirtyCoversUnsaved
<1>1. OInv => DirtyCoversUnsaved
  BY OInvImplies
<1> QED
  BY <1>1, SavesInvariant, PTL

(***************************************************************************)
(* Overlapping saves of one collection end with a good file: a running     *)
(* server has a snapshot that cannot be read only while a save writes it.  *)
(***************************************************************************)
THEOREM OverlappingSavesHeal ==
  ASSUME NothingDropped, SavesSucceed
  PROVE  Spec => []TornOnlyWhileWriting
<1>1. OInv => TornOnlyWhileWriting
  BY OInvImplies
<1> QED
  BY <1>1, SavesInvariant, PTL

(***************************************************************************)
(* main.rs: a clean shutdown never loses acknowledged writes.              *)
(***************************************************************************)
THEOREM ShutdownKeepsAcked ==
  ASSUME NothingDropped, SavesSucceed
  PROVE  Spec => []CleanShutdownKeepsAcked
<1>1. OInv => CleanShutdownKeepsAcked
  BY OInvImplies
<1> QED
  BY <1>1, SavesInvariant, PTL

-----------------------------------------------------------------------------
(***************************************************************************)
(* What clients were told of collections: a created one survives restarts  *)
(* where nothing is dropped, and a dropped one never returns where nothing *)
(* is written; with failing disks, crashes and shutdowns at every step.    *)
(***************************************************************************)

(* The inductive invariant behind created collections. *)

BlocksOfGen(g) == {Hole} \cup {b \in Snapshot : b.gen = g}

(* Files that are whole or torn, but of one incarnation only. *)
FilesOfGen(g) == Seq(BlocksOfGen(g))

(* Saves write nothing but blocks of their own collection. *)
SavesOwn ==
  \A p \in Procs :
    /\ pc[p] \in {"f_write", "f_rename"} =>
         tmp[NameOf(p)] = Absent \/ tmp[NameOf(p)] \in FilesOfGen(gen[p])
    /\ fd[p] = "path" \/ pc[p] = "f_clear" =>
         path[NameOf(p)] \in FilesOfGen(gen[p])

(* The file of a created collection is its own. *)
CreatedOnDisk ==
  \A g \in Gens : fate[g] = "created" =>
    owner[g] \in Names /\ path[owner[g]] \in FilesOfGen(g)

CInv == IInv /\ HandsRegistered /\ SavesOwn /\ CreatedOnDisk /\ CreatedSurvives

(* The parts of it that are proved here. *)
Created == SavesOwn /\ CreatedOnDisk /\ CreatedSurvives

-----------------------------------------------------------------------------
(* Created collections. *)

(* A file of one incarnation stays one when its collection is written to it. *)
LEMMA WriteOwn ==
  ASSUME NEW g \in Gens, NEW f \in FilesOfGen(g), NEW i \in 1 .. 2,
         NEW s \in Snapshot, s.gen = g
  PROVE  WriteAt(f, i, s) \in FilesOfGen(g)
<1>1. s \in BlocksOfGen(g) /\ Hole \in BlocksOfGen(g)
  BY DEF BlocksOfGen
<1> QED
  BY <1>1, WriteAtType DEF FilesOfGen

(* The steps that move no file, register nothing and promise nothing. *)
LEMMA CalmCreated ==
  ASSUME CInv, UNCHANGED <<path, tmp, fate>>, Alive' => Alive /\ registry' = registry,
         \A g \in Gens : owner[g] \in Names => owner'[g] = owner[g],
         \A q \in Procs : pc'[q] \in {"f_write", "f_rename", "f_clear"} =>
                            pc'[q] = pc[q] /\ gen'[q] = gen[q],
         \A q \in Procs : fd'[q] = "path" => fd[q] = "path" /\ gen'[q] = gen[q]
  PROVE  Created'
<1>1. \A q \in Procs : fd[q] = "path" \/ pc[q] \in {"f_write", "f_rename", "f_clear"} =>
        gen[q] \in Gens /\ owner[gen[q]] \in Names
  BY ServerAssumption DEF CInv, IInv, OpenFiles, HoldsArc, SavePcs
<1>2. SavesOwn'
  BY <1>1 DEF CInv, SavesOwn, NameOf
<1>3. CreatedOnDisk'
  BY DEF CInv, CreatedOnDisk
<1>4. CreatedSurvives'
  BY DEF CInv, CreatedOnDisk, CreatedSurvives
<1> QED
  BY <1>2, <1>3, <1>4 DEF Created

(* The new file is empty. *)
LEMMA OpenTmpCreated ==
  ASSUME CInv, NEW p \in Procs, OpenTmp(p)
  PROVE  Created'
<1> USE DEF OpenTmp, memory, files, procs, history
<1>a. gen[p] # 0 /\ NameOf(p) \in Names /\ pc[p] = "f_open"
  BY OwnerType, ServerAssumption DEF CInv, IInv, HoldsArc, SavePcs
<1>1. /\ tmp'[NameOf(p)] = << >> /\ \A n \in Names : n # NameOf(p) => tmp'[n] = tmp[n]
      /\ \A q \in Procs : q # p => pc'[q] = pc[q] /\ fd'[q] = fd[q]
      /\ pc'[p] = "f_write" /\ fd'[p] = "tmp"
  BY <1>a DEF CInv, IInv, TypeOK
<1>2. \A g : << >> \in FilesOfGen(g)
  BY DEF FilesOfGen
<1>3. \A q \in Procs : pc[q] \in SavePcs => NameOf(q) \in Names
  BY OwnerType, ServerAssumption DEF CInv, IInv, HoldsArc
<1>4. SavesOwn'
  <2> SUFFICES ASSUME NEW q \in Procs
               PROVE  /\ pc'[q] \in {"f_write", "f_rename"} =>
                           tmp'[NameOf(q)] = Absent \/ tmp'[NameOf(q)] \in FilesOfGen(gen[q])
                      /\ fd'[q] = "path" \/ pc'[q] = "f_clear" =>
                           path[NameOf(q)] \in FilesOfGen(gen[q])
    BY DEF SavesOwn, NameOf
  <2> QED
    BY <1>1, <1>2, <1>3 DEF CInv, SavesOwn, SavePcs
<1>5. CreatedOnDisk' /\ CreatedSurvives'
  BY DEF CInv, CreatedOnDisk, CreatedSurvives, Alive
<1> QED
  BY <1>4, <1>5 DEF Created

(* While somebody works on the files of a name, what was created under it is that. *)
LEMMA CreatedIsHeld ==
  ASSUME CInv, NEW p \in Procs, gen[p] # 0, NEW g \in Gens, fate[g] = "created",
         owner[g] = NameOf(p), pc[p] # "idle"
  PROVE  g = gen[p]
<1>1. Alive
  BY DEF CInv, IInv, Stopped
<1>2. registry[owner[g]] = g /\ owner[g] \in Names /\ g # 0
  BY <1>1, ServerAssumption DEF CInv, CreatedSurvives, CreatedOnDisk
<1> QED
  BY <1>2, SameArc DEF CInv

(* What others have in the file is of the same collection. *)
LEMMA WriteBlockCreated ==
  ASSUME CInv, NEW p \in Procs, WriteBlock(p)
  PROVE  Created'
<1> USE DEF WriteBlock, memory, files, procs, history
<1>a. gen[p] # 0 /\ gen[p] \in Gens /\ NameOf(p) \in Names /\ pc[p] = "f_write"
  BY OwnerType, ServerAssumption DEF CInv, IInv, HoldsArc, SavePcs
<1> DEFINE n == NameOf(p)
           s == Current(gen[p])
           i == blk[p] + 1
<1>b. s \in Snapshot /\ s.gen = gen[p] /\ i \in 1 .. 2
  BY <1>a DEF Current, Snapshot, CInv, IInv, TypeOK
<1>c. tmp[n] # Absent /\ tmp[n] \in FilesOfGen(gen[p]) => WriteAt(tmp[n], i, s) \in FilesOfGen(gen[p])
  BY <1>a, <1>b, WriteOwn
<1>d. fd[p] = "path" => WriteAt(path[n], i, s) \in FilesOfGen(gen[p])
  BY <1>a, <1>b, WriteOwn DEF CInv, SavesOwn
<1>e. fd[p] = "tmp" => tmp[n] # Absent
  BY DEF CInv, IInv, OpenFiles
<1>1. /\ \A m \in Names : tmp'[m] # tmp[m] => m = n
      /\ \A m \in Names : path'[m] # path[m] => m = n
      /\ tmp'[n] = tmp[n] \/ tmp'[n] \in FilesOfGen(gen[p])
      /\ path'[n] = path[n] \/ path'[n] \in FilesOfGen(gen[p])
  BY <1>a, <1>c, <1>d, <1>e DEF CInv, SavesOwn, IInv, TypeOK
<1>2. /\ \A q \in Procs : q # p => pc'[q] = pc[q] /\ fd'[q] = fd[q]
      /\ pc'[p] \in {"f_write", "f_rename"} /\ fd'[p] \in {fd[p], "none"}
  BY DEF CInv, IInv, TypeOK
<1>3. \A q \in Procs : pc[q] \in SavePcs =>
        /\ NameOf(q) \in Names
        /\ NameOf(q) = n => gen[q] = gen[p]
  BY <1>a, OwnerType, SameArc, ServerAssumption DEF CInv, IInv, HoldsArc
<1>4. SavesOwn'
  <2> SUFFICES ASSUME NEW q \in Procs
               PROVE  /\ pc'[q] \in {"f_write", "f_rename"} =>
                           tmp'[NameOf(q)] = Absent \/ tmp'[NameOf(q)] \in FilesOfGen(gen[q])
                      /\ fd'[q] = "path" \/ pc'[q] = "f_clear" =>
                           path'[NameOf(q)] \in FilesOfGen(gen[q])
    BY DEF SavesOwn, NameOf
  <2>1. fd[q] = "path" => pc[q] = "f_write"
    BY DEF CInv, IInv, OpenFiles
  <2>2. pc'[q] \in SavePcs \/ fd'[q] = "path" => pc[q] \in SavePcs
    BY <1>2, <2>1, <1>a DEF SavePcs
  <2> QED
    BY <1>a, <1>1, <1>2, <1>3, <2>1, <2>2 DEF CInv, SavesOwn, SavePcs
<1>5. CreatedOnDisk'
  <2>1. \A g \in Gens : fate[g] = "created" /\ owner[g] = n => g = gen[p]
    BY <1>a, CreatedIsHeld
  <2> QED
    BY <1>1, <2>1 DEF CInv, CreatedOnDisk
<1>6. CreatedSurvives'
  BY DEF CInv, CreatedSurvives, Alive
<1> QED
  BY <1>4, <1>5, <1>6 DEF Created

(* The file that gets the name is of the collection that is saved. *)
LEMMA RenameTmpCreated ==
  ASSUME CInv, NEW p \in Procs, RenameTmp(p)
  PROVE  Created'
<1> USE DEF RenameTmp, memory, files, procs, history
<1>a. gen[p] # 0 /\ gen[p] \in Gens /\ NameOf(p) \in Names /\ pc[p] = "f_rename"
  BY OwnerType, ServerAssumption DEF CInv, IInv, HoldsArc, SavePcs
<1> DEFINE n == NameOf(p)
<1>b. tmp[n] \in FilesOfGen(gen[p])
  BY <1>a DEF CInv, SavesOwn
<1>c. /\ \A m \in Names : m # n => tmp'[m] = tmp[m] /\ path'[m] = path[m]
      /\ tmp'[n] = Absent /\ path'[n] = tmp[n]
  BY <1>a DEF CInv, IInv, TypeOK
<1>1. /\ \A m \in Names : m # n => tmp'[m] = tmp[m] /\ path'[m] = path[m]
      /\ tmp'[n] = Absent /\ path'[n] \in FilesOfGen(gen[p])
  BY <1>b, <1>c
<1>2. /\ pc'[p] = "f_clear" /\ \A q \in Procs : q # p => pc'[q] = pc[q]
      /\ \A q \in Procs : fd'[q] = "path" => fd[q] = "path" \/ (NameOf(q) = n /\ fd[q] = "tmp")
  BY DEF CInv, IInv, TypeOK
<1>3. \A q \in Procs : pc[q] \in SavePcs =>
        /\ NameOf(q) \in Names
        /\ NameOf(q) = n => gen[q] = gen[p]
  BY <1>a, OwnerType, SameArc, ServerAssumption DEF CInv, IInv, HoldsArc
<1>4. SavesOwn'
  <2> SUFFICES ASSUME NEW q \in Procs
               PROVE  /\ pc'[q] \in {"f_write", "f_rename"} =>
                           tmp'[NameOf(q)] = Absent \/ tmp'[NameOf(q)] \in FilesOfGen(gen[q])
                      /\ fd'[q] = "path" \/ pc'[q] = "f_clear" =>
                           path'[NameOf(q)] \in FilesOfGen(gen[q])
    BY DEF SavesOwn, NameOf
  <2>1. fd'[q] = "path" => pc[q] = "f_write"
    BY <1>2 DEF CInv, IInv, OpenFiles
  <2>2. pc'[q] \in SavePcs \/ fd'[q] = "path" => pc[q] \in SavePcs
    BY <1>2, <2>1, <1>a DEF SavePcs
  <2> QED
    BY <1>a, <1>1, <1>2, <1>3, <2>1, <2>2 DEF CInv, SavesOwn, SavePcs
<1>5. CreatedOnDisk'
  <2>1. \A g \in Gens : fate[g] = "created" /\ owner[g] = n => g = gen[p]
    BY <1>a, CreatedIsHeld
  <2> QED
    BY <1>1, <2>1 DEF CInv, CreatedOnDisk
<1>6. CreatedSurvives'
  BY DEF CInv, CreatedSurvives, Alive
<1> QED
  BY <1>4, <1>5, <1>6 DEF Created

(* The collection is on disk when the client is told. *)
LEMMA PublishCreatedCreated ==
  ASSUME CInv, NEW p \in Procs, PublishCreated(p)
  PROVE  Created'
<1> USE DEF PublishCreated, Finish, memory, files, procs, history
<1>a. gen[p] # 0 /\ gen[p] \in Gens /\ NameOf(p) \in Names /\ p \in Workers
  BY OwnerType, ServerAssumption DEF CInv, IInv, HoldsArc, SavePcs, LockHeld
<1>1. /\ registry'[NameOf(p)] = gen[p]
      /\ \A n \in Names : n # NameOf(p) => registry'[n] = registry[n]
      /\ pc'[p] = "idle" /\ \A q \in Procs : q # p => pc'[q] = pc[q] /\ gen'[q] = gen[q]
      /\ \A g \in Gens : fate'[g] = "created" => g = gen[p] \/ fate[g] = "created"
  BY <1>a DEF CInv, IInv, TypeOK
<1>2. fd[p] # "path"
  BY DEF CInv, IInv, OpenFiles
<1>3. SavesOwn'
  <2> SUFFICES ASSUME NEW q \in Procs
               PROVE  /\ pc'[q] \in {"f_write", "f_rename"} =>
                           tmp[NameOf(q)'] = Absent \/ tmp[NameOf(q)'] \in FilesOfGen(gen'[q])
                      /\ fd[q] = "path" \/ pc'[q] = "f_clear" =>
                           path[NameOf(q)'] \in FilesOfGen(gen'[q])
    BY DEF SavesOwn
  <2> QED
    BY <1>1, <1>2 DEF CInv, SavesOwn, NameOf
<1>4. CreatedOnDisk'
  BY <1>a, <1>1 DEF CInv, CreatedOnDisk, SavesOwn, NameOf
<1>5. CreatedSurvives'
  <2>1. \A g \in Gens : fate[g] = "created" /\ owner[g] = NameOf(p) => g = gen[p]
    BY <1>a, CreatedIsHeld
  <2> QED
    BY <1>a, <1>1, <2>1 DEF CInv, CreatedSurvives, CreatedOnDisk, NameOf, Alive
<1> QED
  BY <1>3, <1>4, <1>5 DEF Created

(* A file of one incarnation that can be loaded yields that one. *)
LEMMA LoadCreated ==
  ASSUME CInv, Load
  PROVE  Created'
<1> USE DEF Load, files, procs
<1>1. \A p \in Procs : pc'[p] = "idle" /\ fd'[p] = "none"
  BY DEF CInv, IInv, Stopped, Alive, OpenFiles, TypeOK
<1>2. SavesOwn' /\ CreatedOnDisk'
  BY <1>1 DEF CInv, SavesOwn, CreatedOnDisk
<1>3. CreatedSurvives'
  <2> SUFFICES ASSUME NEW g \in Gens, fate[g] = "created"
               PROVE  registry'[owner[g]] = g
    BY DEF CreatedSurvives
  <2>1. PICK n \in Names : n = owner[g]
    BY DEF CInv, CreatedOnDisk
  <2>2. path[n] \in FilesOfGen(g)
    BY <2>1 DEF CInv, CreatedOnDisk
  <2>3. path[n] # Absent
    <3>1. BlocksOfGen(g) \subseteq Block
      BY DEF BlocksOfGen, Block
    <3>2. path[n] \in File
      BY <2>2, <3>1, SeqMonotone DEF File, FilesOfGen
    <3> QED
      BY <3>2, ServerAssumption
  <2>4. path[n] # << >> /\ path[n][1] # Hole
    BY <2>3 DEF Readable
  <2>5. path[n][1] \in BlocksOfGen(g)
    BY <2>2, <2>4 DEF FilesOfGen
  <2> QED
    BY <2>1, <2>3, <2>4, <2>5 DEF BlocksOfGen, Loaded
<1> QED
  BY <1>2, <1>3 DEF Created

(* Every other step is calm, or stops the process. *)
LEMMA NextCreated ==
  ASSUME NothingDropped, CInv, [Next]_vars
  PROVE  Created'
<1> USE DEF memory, files, procs, history
<1>a. \A q \in Procs : fd[q] # "none" => pc[q] = "f_write"
  BY DEF CInv, IInv, OpenFiles
<1>1. ASSUME NEW p \in Workers, NEW n \in Names, Request(p, n)
      PROVE  Created'
  <2>0. p \in Procs /\ fd[p] # "path"
    BY <1>1, <1>a DEF Procs, Request, StartWrite, StartSnapshot, Get, BeginCreate, DropCollection
  <2>1. CASE StartWrite(p, n) \/ StartSnapshot(p, n)
    BY <2>0, <2>1, CalmCreated DEF StartWrite, StartSnapshot, Get, CInv, IInv, TypeOK, Alive
  <2>2. CASE BeginCreate(p, n)
    <3>1. \A g \in Gens : owner[g] \in Names => owner'[g] = owner[g]
      BY <2>2 DEF BeginCreate, CInv, IInv, TypeOK, Unmade
    <3> QED
      BY <2>0, <2>2, <3>1, CalmCreated DEF BeginCreate, CInv, IInv, TypeOK, Alive
  <2>3. ~ DropCollection(p, n)
    BY DEF NothingDropped, DropCollection
  <2> QED
    BY <1>1, <2>1, <2>2, <2>3 DEF Request
<1>2. ASSUME NEW p \in Procs, Continue(p)
      PROVE  Created'
  <2>1. CASE ApplyWrite(p) \/ FlushLock(p)
    BY <2>1, CalmCreated DEF ApplyWrite, FlushLock, CInv, IInv, TypeOK, Alive
  <2>2. CASE ApplyNothing(p) \/ MarkDirty(p) \/ ClearDirty(p)
    <3>1. fd[p] # "path"
      BY <1>a, <2>2 DEF ApplyNothing, MarkDirty, ClearDirty
    <3> QED
      BY <2>2, <3>1, CalmCreated DEF ApplyNothing, MarkDirty, ClearDirty, Finish, CInv, IInv,
         TypeOK, Alive
  <2>3. CASE FlushFails(p)
    BY <2>3, CalmCreated DEF FlushFails, Finish, CInv, IInv, TypeOK, Alive
  <2>4. CASE NextCollection(p) \/ EndFlushAll(p)
    <3>1. fd[p] # "path"
      BY <1>a, <2>4 DEF NextCollection, EndFlushAll
    <3> QED
      BY <2>4, <3>1, CalmCreated DEF NextCollection, EndFlushAll, CInv, IInv, TypeOK, Alive
  <2>5. ~ DropExists(p) /\ ~ DropUnlink(p)
    BY DEF DropExists, DropUnlink, CInv, HandsRegistered, DropPcs
  <2> QED
    BY <1>2, <2>1, <2>2, <2>3, <2>4, <2>5, OpenTmpCreated, WriteBlockCreated,
       RenameTmpCreated, PublishCreatedCreated
       DEF Continue
<1>3. CASE StartTick
  BY <1>3, CalmCreated DEF StartTick, CInv, IInv, TypeOK, Alive
<1>4. CASE Lifecycle
  <2>1. CASE Signal \/ StartFinalFlush \/ Exit \/ LoadFails
    BY <2>1, CalmCreated DEF Signal, StartFinalFlush, Exit, LoadFails, MainReturned, CInv, IInv,
       TypeOK, Alive
  <2>2. CASE Crash
    BY <2>2, CalmCreated DEF Crash, Alive
  <2> QED
    BY <1>4, <2>1, <2>2, LoadCreated DEF Lifecycle
<1>5. CASE UNCHANGED vars
  <2>1. UNCHANGED <<phase, registry, owner, path, tmp, pc, gen, fd, fate>>
    BY <1>5 DEF vars
  <2> QED
    BY <2>1, CalmCreated DEF Alive
<1> QED
  BY <1>1, <1>2, <1>3, <1>4, <1>5 DEF Next

(***************************************************************************)
(* routes.rs, "Persist immediately so an empty collection survives a       *)
(* restart": where nothing is dropped, a collection whose creation was     *)
(* answered is registered whenever the server runs, whatever saves fail    *)
(* and wherever the process is killed or stopped.                          *)
(***************************************************************************)
THEOREM CreatedSurvivesRestarts ==
  ASSUME NothingDropped
  PROVE  Spec => []CreatedSurvives
<1>1. Init => CInv
  <2>1. Init => IInv /\ HandsRegistered
    BY InitInv, InitHands
  <2>2. Init => SavesOwn /\ CreatedOnDisk /\ CreatedSurvives
    BY DEF Init, SavesOwn, CreatedOnDisk, CreatedSurvives
  <2> QED
    BY <2>1, <2>2 DEF CInv
<1>2. CInv /\ [Next]_vars => CInv'
  BY NextInv, NextHands, NextCreated DEF CInv, Created
<1>3. CInv => CreatedSurvives
  BY DEF CInv
<1> QED
  BY <1>1, <1>2, <1>3, PTL DEF Spec

-----------------------------------------------------------------------------
(* The inductive invariant behind dropped collections. *)

(* What clients must not do: nothing is ever written, so nothing is saved again. *)
OnlyCreatesAndDrops == Ops \subseteq {"create", "drop"}

OtherBlocks(g) == {Hole} \cup {b \in Snapshot : b.gen # g}

(* There is no file f, or nothing of g in it. *)
HasNo(f, g) == f = Absent \/ f \in Seq(OtherBlocks(g))

(* The only saves are those of creates, which hold the registry's lock. *)
OnlyCreatesSave ==
  /\ \A g \in Gens : ~ dirty[g]
  /\ \A p \in Procs : /\ pc[p] \notin WritePcs \cup {"f_lock"}
                      /\ pc[p] \in SavePcs => regLock = p
                      /\ fd[p] \in {"none", "tmp"}

(* Collections that nobody saves, and of which no temporary file is left. *)
NotSaved ==
  {g \in Gens : /\ owner[g] \in Names /\ HasNo(tmp[owner[g]], g)
                /\ \A p \in Procs : pc[p] \in SavePcs => gen[p] # g}

(* The snapshot of a new collection is in one file at a time. *)
CreatesFresh ==
  \A p \in Procs :
    /\ pc[p] \in {"f_open", "f_write", "f_rename"} => HasNo(path[NameOf(p)], gen[p])
    /\ pc[p] = "f_clear" => HasNo(tmp[NameOf(p)], gen[p])

InOneFile == \A n \in Names, g \in Gens : HasNo(path[n], g) \/ HasNo(tmp[n], g)

(* Of a collection that was registered no save is under way, or left over. *)
HeldNotSaved ==
  /\ \A n \in Names : registry[n] # 0 => registry[n] \in NotSaved
  /\ \A p \in Procs : pc[p] \in DropPcs => gen[p] \in NotSaved /\ registry[NameOf(p)] # gen[p]

DroppedGone ==
  \A g \in Gens : fate[g] = "dropped" =>
    g \in NotSaved /\ registry[owner[g]] # g /\ HasNo(path[owner[g]], g)

(* The parts that are proved here. *)
Dropped == OnlyCreatesSave /\ CreatesFresh /\ InOneFile /\ HeldNotSaved /\ DroppedGone

DInv == IInv /\ Dropped

-----------------------------------------------------------------------------
(* Dropped collections. *)

(* Writing a block of one collection puts nothing of another into a file. *)
LEMMA HasNoWrite ==
  ASSUME NEW f, NEW g, HasNo(f, g), f # Absent, NEW i \in 1 .. 2, NEW s \in Snapshot, s.gen # g
  PROVE  HasNo(WriteAt(f, i, s), g)
<1>1. f \in Seq(OtherBlocks(g)) /\ s \in OtherBlocks(g) /\ Hole \in OtherBlocks(g)
  BY DEF HasNo, OtherBlocks
<1> QED
  BY <1>1, WriteAtType DEF HasNo

(* Loading a file with nothing of g yields another collection. *)
LEMMA HasNoLoaded ==
  ASSUME NEW f, NEW g, HasNo(f, g), Readable(f)
  PROVE  Loaded(f).gen # g
<1>1. f \in Seq(OtherBlocks(g)) /\ f # << >> /\ f[1] # Hole
  BY DEF HasNo, Readable
<1>2. f[1] \in OtherBlocks(g)
  BY <1>1
<1> QED
  BY <1>1, <1>2 DEF OtherBlocks, Loaded

(* The files of a name have nothing of a collection of another, or of none. *)
LEMMA HasNoForeign ==
  ASSUME IInv, NEW n \in Names, NEW g \in Gens, owner[g] # n
  PROVE  HasNo(path[n], g) /\ HasNo(tmp[n], g)
<1>1. BlocksOf(n) \subseteq OtherBlocks(g)
  BY DEF BlocksOf, OtherBlocks
<1> QED
  BY <1>1, SeqMonotone DEF IInv, FilesOwned, HasNo

(* The steps that leave files, registry and promises alone, and begin no save. *)
LEMMA CalmDropped ==
  ASSUME DInv, UNCHANGED <<registry, regLock, owner, dirty, path, tmp, gen, fd, fate>>,
         \A q \in Procs : pc'[q] # pc[q] => pc'[q] \in {"idle", "next"}
  PROVE  Dropped'
<1>a. \A q \in Procs : pc'[q] \in WritePcs \cup SavePcs \cup DropPcs \cup {"f_lock"} => pc'[q] = pc[q]
  BY DEF WritePcs, SavePcs, DropPcs
<1>b. \A g \in NotSaved : g \in NotSaved'
  BY <1>a DEF NotSaved
<1>1. OnlyCreatesSave' /\ InOneFile'
  BY <1>a DEF DInv, Dropped, OnlyCreatesSave, InOneFile
<1>2. CreatesFresh'
  BY <1>a DEF DInv, Dropped, CreatesFresh, SavePcs, NameOf
<1>3. HeldNotSaved' /\ DroppedGone'
  BY <1>a, <1>b DEF DInv, Dropped, HeldNotSaved, DroppedGone, NameOf
<1> QED
  BY <1>1, <1>2, <1>3 DEF Dropped

(* Nothing of an incarnation that is being made is anywhere. *)
LEMMA BeginCreateDropped ==
  ASSUME DInv, NEW p \in Workers, NEW n \in Names, BeginCreate(p, n)
  PROVE  Dropped'
<1> USE DEF BeginCreate, memory, files, procs, history
<1>a. nextGen \in Gens /\ owner[nextGen] \notin Names /\ p \in Procs
  BY ServerAssumption DEF DInv, IInv, TypeOK, Unmade, Procs
<1>b. /\ pc'[p] = "f_open" /\ gen'[p] = nextGen /\ owner'[nextGen] = n
      /\ \A q \in Procs : q # p => pc'[q] = pc[q] /\ gen'[q] = gen[q]
      /\ \A g \in Gens : g # nextGen => owner'[g] = owner[g]
  BY <1>a DEF DInv, IInv, TypeOK
<1>c. \A q \in Procs : pc[q] \notin SavePcs
  BY ServerAssumption DEF DInv, Dropped, OnlyCreatesSave
<1>d. \A g \in NotSaved : g \in NotSaved' /\ owner'[g] = owner[g] /\ g # nextGen
  BY <1>a, <1>b, <1>c DEF NotSaved
<1>1. OnlyCreatesSave'
  BY <1>b, <1>c DEF DInv, Dropped, OnlyCreatesSave, WritePcs, SavePcs
<1>2. CreatesFresh'
  <2>1. HasNo(path[n], nextGen)
    BY <1>a, HasNoForeign DEF DInv
  <2> QED
    BY <1>b, <1>c, <2>1 DEF CreatesFresh, NameOf, SavePcs
<1>3. InOneFile'
  BY DEF DInv, Dropped, InOneFile
<1>4. HeldNotSaved'
  BY <1>b, <1>d DEF DInv, Dropped, HeldNotSaved, NameOf, DropPcs
<1>5. DroppedGone'
  BY <1>b, <1>d DEF DInv, Dropped, DroppedGone
<1> QED
  BY <1>1, <1>2, <1>3, <1>4, <1>5 DEF Dropped

(* The temporary file of the name is empty again. *)
LEMMA OpenTmpDropped ==
  ASSUME DInv, NEW p \in Procs, OpenTmp(p)
  PROVE  Dropped'
<1> USE DEF OpenTmp, memory, files, procs, history
<1>a. NameOf(p) \in Names /\ pc[p] = "f_open" /\ pc'[p] = "f_write" /\ fd'[p] = "tmp"
  BY OwnerType, ServerAssumption DEF DInv, IInv, HoldsArc, SavePcs, TypeOK
<1>b. /\ \A q \in Procs : q # p => pc'[q] = pc[q] /\ fd'[q] = fd[q]
      /\ \A m \in Names : tmp'[m] = tmp[m] \/ tmp'[m] = << >>
  BY <1>a DEF DInv, IInv, TypeOK
<1>c. \A g : HasNo(<< >>, g)
  BY DEF HasNo
<1>d. \A g \in NotSaved : g \in NotSaved'
  BY <1>a, <1>b, <1>c DEF NotSaved, SavePcs
<1>e. \A q \in Procs : pc[q] \in SavePcs => q = p
  BY <1>a DEF DInv, Dropped, OnlyCreatesSave, SavePcs
<1>1. OnlyCreatesSave'
  BY <1>a, <1>b DEF DInv, Dropped, OnlyCreatesSave, WritePcs, SavePcs
<1>2. CreatesFresh'
  BY <1>a, <1>b, <1>e DEF DInv, Dropped, CreatesFresh, NameOf, SavePcs
<1>3. InOneFile'
  BY <1>b, <1>c DEF DInv, Dropped, InOneFile
<1>4. HeldNotSaved'
  BY <1>a, <1>b, <1>d DEF DInv, Dropped, HeldNotSaved, NameOf, DropPcs
<1>5. DroppedGone'
  BY <1>d DEF DInv, Dropped, DroppedGone
<1> QED
  BY <1>1, <1>2, <1>3, <1>4, <1>5 DEF Dropped

(* The temporary file gets blocks of the collection that is created only. *)
LEMMA WriteBlockDropped ==
  ASSUME DInv, NEW p \in Procs, WriteBlock(p)
  PROVE  Dropped'
<1> USE DEF WriteBlock, memory, files, procs, history
<1>a. gen[p] \in Gens /\ NameOf(p) \in Names /\ pc[p] = "f_write"
  BY OwnerType, ServerAssumption DEF DInv, IInv, HoldsArc, SavePcs
<1>b. fd[p] # "path"
  BY DEF DInv, Dropped, OnlyCreatesSave
<1>c. /\ pc'[p] \in {"f_write", "f_rename"} /\ fd'[p] \in {"none", "tmp"}
      /\ \A q \in Procs : q # p => pc'[q] = pc[q] /\ fd'[q] = fd[q]
  BY <1>b DEF DInv, IInv, TypeOK, Dropped, OnlyCreatesSave
<1>d. path' = path
  BY <1>b
<1>e. ASSUME NEW m \in Names, NEW g \in Gens, g # gen[p], HasNo(tmp[m], g)
      PROVE  HasNo(tmp'[m], g)
  <2>1. CASE fd[p] = "tmp" /\ m = NameOf(p)
    <3>1. Current(gen[p]) \in Snapshot /\ Current(gen[p]).gen # g /\ blk[p] + 1 \in 1 .. 2
      BY <1>a, <1>e DEF Current, Snapshot, DInv, IInv, TypeOK
    <3>2. tmp[m] # Absent
      BY <2>1 DEF DInv, IInv, OpenFiles
    <3>3. tmp'[m] = WriteAt(tmp[m], blk[p] + 1, Current(gen[p]))
      BY <1>a, <2>1 DEF DInv, IInv, TypeOK
    <3> QED
      BY <1>e, <3>1, <3>2, <3>3, HasNoWrite
  <2>2. CASE ~ (fd[p] = "tmp" /\ m = NameOf(p))
    BY <1>e, <1>a, <2>2 DEF DInv, IInv, TypeOK
  <2> QED
    BY <2>1, <2>2
<1>f. \A g \in NotSaved : g \in NotSaved'
  <2>1. \A g \in NotSaved : g # gen[p]
    BY <1>a DEF NotSaved, SavePcs
  <2> QED
    BY <1>a, <1>c, <1>e, <2>1 DEF NotSaved, SavePcs
<1>g. \A q \in Procs : pc[q] \in SavePcs => q = p
  BY <1>a DEF DInv, Dropped, OnlyCreatesSave, SavePcs
<1>h. HasNo(path[NameOf(p)], gen[p])
  BY <1>a DEF DInv, Dropped, CreatesFresh
<1>1. OnlyCreatesSave'
  BY <1>a, <1>c DEF DInv, Dropped, OnlyCreatesSave, WritePcs, SavePcs
<1>2. CreatesFresh'
  BY <1>a, <1>c, <1>d, <1>g, <1>h DEF CreatesFresh, NameOf, SavePcs
<1>3. InOneFile'
  <2>1. \A m \in Names : m # NameOf(p) => HasNo(path[m], gen[p])
    BY <1>a, HasNoForeign DEF DInv, NameOf
  <2> QED
    BY <1>a, <1>d, <1>e, <1>h, <2>1 DEF DInv, Dropped, InOneFile
<1>4. HeldNotSaved'
  BY <1>a, <1>c, <1>f DEF DInv, Dropped, HeldNotSaved, NameOf, DropPcs
<1>5. DroppedGone'
  BY <1>d, <1>f DEF DInv, Dropped, DroppedGone
<1> QED
  BY <1>1, <1>2, <1>3, <1>4, <1>5 DEF Dropped

(* The snapshot leaves the temporary file for the path. *)
LEMMA RenameTmpDropped ==
  ASSUME DInv, NEW p \in Procs, RenameTmp(p)
  PROVE  Dropped'
<1> USE DEF RenameTmp, memory, files, procs, history
<1>a. gen[p] \in Gens /\ NameOf(p) \in Names /\ pc[p] = "f_rename"
  BY OwnerType, ServerAssumption DEF DInv, IInv, HoldsArc, SavePcs
<1>b. \A q \in Procs : pc[q] \in SavePcs => q = p
  BY <1>a DEF DInv, Dropped, OnlyCreatesSave, SavePcs
<1>c. \A q \in Procs : fd[q] = "none"
  BY <1>a, <1>b DEF DInv, IInv, OpenFiles, Dropped, OnlyCreatesSave, SavePcs
<1>d. pc'[p] = "f_clear" /\ \A q \in Procs : fd'[q] = "none" /\ (q # p => pc'[q] = pc[q])
  BY <1>c DEF DInv, IInv, TypeOK
<1>e. /\ path'[NameOf(p)] = tmp[NameOf(p)] /\ tmp'[NameOf(p)] = Absent
      /\ \A m \in Names : m # NameOf(p) => path'[m] = path[m] /\ tmp'[m] = tmp[m]
  BY <1>a DEF DInv, IInv, TypeOK
<1>f. \A g : HasNo(Absent, g)
  BY DEF HasNo
<1>g. \A g \in NotSaved : g \in NotSaved'
  BY <1>a, <1>d, <1>e, <1>f DEF NotSaved, SavePcs
<1>1. OnlyCreatesSave'
  BY <1>a, <1>d DEF DInv, Dropped, OnlyCreatesSave, WritePcs, SavePcs
<1>2. CreatesFresh'
  BY <1>a, <1>b, <1>d, <1>e, <1>f DEF CreatesFresh, NameOf, SavePcs
<1>3. InOneFile'
  BY <1>e, <1>f DEF DInv, Dropped, InOneFile
<1>4. HeldNotSaved'
  BY <1>a, <1>d, <1>g DEF DInv, Dropped, HeldNotSaved, NameOf, DropPcs
<1>5. DroppedGone'
  <2>1. \A g \in NotSaved : owner[g] \in Names /\ HasNo(tmp[owner[g]], g)
    BY DEF NotSaved
  <2> QED
    BY <1>e, <1>g, <2>1 DEF DInv, Dropped, DroppedGone
<1> QED
  BY <1>1, <1>2, <1>3, <1>4, <1>5 DEF Dropped

(* The save that fails was the only one; what it wrote is only in its temporary file. *)
LEMMA FlushFailsDropped ==
  ASSUME DInv, NEW p \in Procs, FlushFails(p)
  PROVE  Dropped'
<1> USE DEF FlushFails, Finish, memory, files, procs, history
<1>a. pc[p] \in SavePcs
  BY DEF SavePcs
<1>b. \A q \in Procs : pc[q] \in SavePcs => q = p
  BY <1>a DEF DInv, Dropped, OnlyCreatesSave
<1>c. /\ pc'[p] \in {"idle", "next"} /\ fd'[p] = "none"
      /\ \A q \in Procs : q # p => pc'[q] = pc[q] /\ gen'[q] = gen[q] /\ fd'[q] = fd[q]
  BY DEF DInv, IInv, TypeOK
<1>d. \A q \in Procs : pc'[q] \notin SavePcs
  BY <1>b, <1>c DEF SavePcs
<1>e. \A g \in NotSaved : g \in NotSaved'
  BY <1>d DEF NotSaved
<1>1. OnlyCreatesSave'
  BY <1>c, <1>d DEF DInv, Dropped, OnlyCreatesSave, WritePcs
<1>2. CreatesFresh' /\ InOneFile'
  BY <1>d DEF DInv, Dropped, CreatesFresh, InOneFile, SavePcs
<1>3. HeldNotSaved' /\ DroppedGone'
  BY <1>c, <1>e DEF DInv, Dropped, HeldNotSaved, DroppedGone, NameOf, DropPcs
<1> QED
  BY <1>1, <1>2, <1>3 DEF Dropped

(* What is registered is in the path only, and was not dropped before. *)
LEMMA PublishCreatedDropped ==
  ASSUME DInv, NEW p \in Procs, PublishCreated(p)
  PROVE  Dropped'
<1> USE DEF PublishCreated, Finish, memory, files, procs, history
<1>a. gen[p] \in Gens /\ NameOf(p) \in Names /\ pc[p] \in SavePcs /\ owner[gen[p]] = NameOf(p)
  BY OwnerType, ServerAssumption DEF DInv, IInv, HoldsArc, SavePcs, NameOf
<1>b. \A q \in Procs : pc[q] \in SavePcs => q = p
  BY <1>a DEF DInv, Dropped, OnlyCreatesSave
<1>c. /\ pc'[p] \in {"idle", "next"}
      /\ \A q \in Procs : q # p => pc'[q] = pc[q] /\ gen'[q] = gen[q]
      /\ registry'[NameOf(p)] = gen[p]
      /\ \A n \in Names : n # NameOf(p) => registry'[n] = registry[n]
      /\ \A g \in Gens : fate'[g] = "dropped" => fate[g] = "dropped"
  BY <1>a DEF DInv, IInv, TypeOK
<1>d. \A q \in Procs : pc'[q] \notin SavePcs
  BY <1>b, <1>c DEF SavePcs
<1>e. \A g \in NotSaved : g \in NotSaved' /\ g # gen[p] /\ owner[g] \in Names
  BY <1>a, <1>d DEF NotSaved
<1>f. gen[p] \in NotSaved'
  BY <1>a, <1>d DEF NotSaved, DInv, Dropped, CreatesFresh
<1>1. OnlyCreatesSave'
  BY <1>c, <1>d DEF DInv, Dropped, OnlyCreatesSave, WritePcs
<1>2. CreatesFresh' /\ InOneFile'
  BY <1>d DEF DInv, Dropped, CreatesFresh, InOneFile, SavePcs
<1>3. HeldNotSaved'
  <2>1. \A q \in Procs : pc[q] \in DropPcs => NameOf(q) \in Names
    BY <1>e DEF DInv, Dropped, HeldNotSaved, NameOf
  <2> QED
    BY <1>c, <1>e, <1>f, <2>1 DEF DInv, Dropped, HeldNotSaved, NameOf, DropPcs
<1>4. DroppedGone'
  BY <1>c, <1>e DEF DInv, Dropped, DroppedGone
<1> QED
  BY <1>1, <1>2, <1>3, <1>4 DEF Dropped

(* The collection taken out of the registry is saved by nobody. *)
LEMMA DropCollectionDropped ==
  ASSUME DInv, NEW p \in Workers, NEW n \in Names, DropCollection(p, n)
  PROVE  Dropped'
<1> USE DEF DropCollection, memory, files, procs, history
<1>a. registry[n] \in Gens /\ registry[n] # 0 /\ owner[registry[n]] = n /\ p \in Procs
  BY DEF DInv, IInv, TypeOK, RegistryOwns, Procs
<1>c. /\ pc'[p] = "drop_exists" /\ gen'[p] = registry[n] /\ registry'[n] = 0
      /\ \A q \in Procs : q # p => pc'[q] = pc[q] /\ gen'[q] = gen[q]
      /\ \A m \in Names : registry'[m] # 0 => registry'[m] = registry[m]
      /\ \A g \in Gens : fate'[g] = "dropped" => fate[g] = "dropped"
  BY <1>a DEF DInv, IInv, TypeOK
<1>d. \A q \in Procs : pc'[q] \in SavePcs => q # p
  BY <1>c DEF SavePcs
<1>e. \A g \in NotSaved : g \in NotSaved' /\ owner[g] \in Names /\ g \in Gens
  BY <1>c, <1>d DEF NotSaved
<1>f. 0 \notin Gens
  BY ServerAssumption
<1>1. OnlyCreatesSave'
  BY <1>c, <1>d DEF DInv, Dropped, OnlyCreatesSave, WritePcs
<1>2. CreatesFresh' /\ InOneFile'
  BY <1>c, <1>d DEF DInv, Dropped, CreatesFresh, InOneFile, SavePcs, NameOf
<1>3. HeldNotSaved'
  BY <1>a, <1>c, <1>e, <1>f DEF DInv, Dropped, HeldNotSaved, NameOf
<1>4. DroppedGone'
  BY <1>c, <1>e, <1>f DEF DInv, Dropped, DroppedGone
<1> QED
  BY <1>1, <1>2, <1>3, <1>4 DEF Dropped

(* When the client is told, the file of the name is gone. *)
LEMMA DropFileDropped ==
  ASSUME DInv, NEW p \in Procs, DropExists(p) \/ DropUnlink(p)
  PROVE  Dropped'
<1> USE DEF DropExists, DropUnlink, Finish, memory, files, procs, history
<1>a. pc[p] \in DropPcs
  BY DEF DropPcs
<1>b. gen[p] \in NotSaved /\ gen[p] \in Gens /\ owner[gen[p]] \in Names /\ registry[owner[gen[p]]] # gen[p]
  BY <1>a DEF DInv, Dropped, HeldNotSaved, NotSaved, NameOf
<1>c. /\ pc'[p] \in {"idle", "next", "drop_unlink"}
      /\ pc'[p] = "drop_unlink" => gen'[p] = gen[p]
      /\ \A q \in Procs : q # p => pc'[q] = pc[q] /\ gen'[q] = gen[q]
  BY DEF DInv, IInv, TypeOK
<1>d. /\ UNCHANGED <<registry, regLock, owner, dirty, tmp>>
      /\ \A m \in Names : path'[m] = path[m] \/ path'[m] = Absent
      /\ \A g \in Gens : fate'[g] = "dropped" =>
           fate[g] = "dropped" \/ (g = gen[p] /\ path'[owner[gen[p]]] = Absent)
  BY <1>b DEF DInv, IInv, TypeOK, NameOf
<1>e. \A q \in Procs : fd'[q] = fd[q]
  BY DEF DInv, Dropped, OnlyCreatesSave, IInv, TypeOK
<1>f. \A g : HasNo(Absent, g)
  BY DEF HasNo
<1>g. \A g \in NotSaved : g \in NotSaved' /\ owner[g] \in Names
  BY <1>c, <1>d DEF NotSaved, SavePcs
<1>1. OnlyCreatesSave'
  BY <1>c, <1>d, <1>e DEF DInv, Dropped, OnlyCreatesSave, WritePcs, SavePcs
<1>2. CreatesFresh'
  <2>1. \A q \in Procs : pc'[q] \in SavePcs => q # p /\ NameOf(q) \in Names
    BY <1>c, OwnerType, ServerAssumption DEF SavePcs, DInv, IInv, HoldsArc
  <2> QED
    BY <1>c, <1>d, <1>f, <2>1 DEF DInv, Dropped, CreatesFresh, NameOf, SavePcs
<1>3. InOneFile'
  BY <1>d, <1>f DEF DInv, Dropped, InOneFile
<1>4. HeldNotSaved'
  BY <1>a, <1>c, <1>d, <1>g DEF DInv, Dropped, HeldNotSaved, NameOf, DropPcs
<1>5. DroppedGone'
  BY <1>b, <1>d, <1>f, <1>g DEF DInv, Dropped, DroppedGone
<1> QED
  BY <1>1, <1>2, <1>3, <1>4, <1>5 DEF Dropped

(* What is loaded is in the path, so not in a temporary file. *)
LEMMA LoadDropped ==
  ASSUME DInv, Crash \/ Load
  PROVE  Dropped'
<1> USE DEF Crash, Load, files, procs
<1>1. \A q \in Procs : pc'[q] = "idle" /\ fd'[q] = "none"
  BY DEF DInv, IInv, Stopped, Alive, OpenFiles, TypeOK
<1>2. \A g \in NotSaved : g \in NotSaved' /\ owner[g] \in Names
  BY <1>1 DEF NotSaved, SavePcs
<1>3. OnlyCreatesSave' /\ CreatesFresh' /\ InOneFile'
  BY <1>1 DEF DInv, Dropped, OnlyCreatesSave, CreatesFresh, InOneFile, WritePcs, SavePcs
<1>4. ASSUME NEW n \in Names, registry'[n] # 0
      PROVE  /\ path[n] # Absent /\ Readable(path[n])
             /\ registry'[n] = Loaded(path[n]).gen /\ registry'[n] \in Gens
             /\ owner[registry'[n]] = n
  <2>1. path[n] # Absent /\ Readable(path[n]) /\ registry'[n] = Loaded(path[n]).gen
    BY <1>4
  <2> QED
    BY <2>1, LoadedType DEF DInv, Snapshot
<1>5. HeldNotSaved'
  <2>1. ASSUME NEW n \in Names, registry'[n] # 0
        PROVE  registry'[n] \in NotSaved'
    <3>1. HasNo(tmp[n], registry'[n])
      BY <1>4, <2>1, HasNoLoaded DEF DInv, Dropped, InOneFile
    <3> QED
      BY <1>1, <1>4, <2>1, <3>1 DEF NotSaved, SavePcs
  <2> QED
    BY <1>1, <2>1 DEF HeldNotSaved, DropPcs
<1>6. DroppedGone'
  <2>1. \A g \in Gens : fate[g] = "dropped" => registry'[owner[g]] # g
    BY <1>2, <1>4, HasNoLoaded, ServerAssumption DEF DInv, Dropped, DroppedGone
  <2> QED
    BY <1>2, <2>1 DEF DInv, Dropped, DroppedGone, history
<1> QED
  BY <1>3, <1>5, <1>6 DEF Dropped

(* Nothing else happens where nothing is written. *)
LEMMA NextDropped ==
  ASSUME OnlyCreatesAndDrops, DInv, [Next]_vars
  PROVE  Dropped'
<1> USE DEF memory, files, procs, history
<1>1. ASSUME NEW p \in Workers, NEW n \in Names, Request(p, n)
      PROVE  Dropped'
  <2>1. ~ StartWrite(p, n) /\ ~ StartSnapshot(p, n)
    BY DEF OnlyCreatesAndDrops, StartWrite, StartSnapshot
  <2> QED
    BY <1>1, <2>1, BeginCreateDropped, DropCollectionDropped DEF Request
<1>2. ASSUME NEW p \in Procs, Continue(p)
      PROVE  Dropped'
  <2>1. ~ ApplyWrite(p) /\ ~ ApplyNothing(p) /\ ~ MarkDirty(p) /\ ~ FlushLock(p) /\ ~ ClearDirty(p)
    BY DEF DInv, Dropped, OnlyCreatesSave, ApplyWrite, ApplyNothing, MarkDirty, FlushLock,
       ClearDirty, WritePcs, SavePcs
  <2>2. CASE NextCollection(p)
    <3>1. UNCHANGED <<registry, regLock, owner, dirty, path, tmp, gen, fd, fate, pc>>
      BY <2>2 DEF NextCollection, DInv, Dropped, OnlyCreatesSave, IInv, TypeOK
    <3> QED
      BY <3>1, CalmDropped
  <2>3. CASE EndFlushAll(p)
    BY <2>3, CalmDropped DEF EndFlushAll, DInv, IInv, TypeOK
  <2> QED
    BY <1>2, <2>1, <2>2, <2>3, OpenTmpDropped, WriteBlockDropped, RenameTmpDropped,
       FlushFailsDropped, PublishCreatedDropped, DropFileDropped
       DEF Continue
<1>3. CASE StartTick
  BY <1>3, CalmDropped DEF StartTick, DInv, IInv, TypeOK
<1>4. CASE Lifecycle
  <2>1. CASE Signal \/ StartFinalFlush \/ Exit \/ LoadFails
    BY <2>1, CalmDropped DEF Signal, StartFinalFlush, Exit, LoadFails, DInv, IInv, TypeOK
  <2> QED
    BY <1>4, <2>1, LoadDropped DEF Lifecycle
<1>5. CASE UNCHANGED vars
  <2>1. UNCHANGED <<registry, regLock, owner, dirty, path, tmp, pc, gen, fd, fate>>
    BY <1>5 DEF vars
  <2> QED
    BY <2>1, CalmDropped
<1> QED
  BY <1>1, <1>2, <1>3, <1>4, <1>5 DEF Next

(***************************************************************************)
(* README.md, "drop (removes the snapshot)": where nothing is written, a   *)
(* collection whose drop was answered is never registered again, although  *)
(* creates and drops of one name overlap, saves fail and the process is    *)
(* killed or stopped anywhere.                                             *)
(***************************************************************************)
THEOREM DropIsFinal ==
  ASSUME OnlyCreatesAndDrops
  PROVE  Spec => []DroppedStaysDropped
<1>1. Init => DInv
  <2>1. Init => IInv
    BY InitInv
  <2>2. Init => OnlyCreatesSave /\ CreatesFresh /\ InOneFile
    BY DEF Init, OnlyCreatesSave, CreatesFresh, InOneFile, HasNo, WritePcs, SavePcs
  <2>3. Init => HeldNotSaved /\ DroppedGone
    BY DEF Init, HeldNotSaved, DroppedGone, DropPcs
  <2> QED
    BY <2>1, <2>2, <2>3 DEF DInv, Dropped
<1>2. DInv /\ [Next]_vars => DInv'
  BY NextInv, NextDropped DEF DInv
<1>3. DInv => DroppedStaysDropped
  BY DEF DInv, Dropped, DroppedGone, DroppedStaysDropped
<1> QED
  BY <1>1, <1>2, <1>3, PTL DEF Spec

-----------------------------------------------------------------------------
(***************************************************************************)
(* The server and its files implement the store of VexStore, for every     *)
(* value of the constants under which the saves of a name never overlap.   *)
(***************************************************************************)

(* Nothing is written to a collection before it is registered. *)
NewIsEmpty ==
  /\ \A g \in Gens : owner[g] \notin Names => index[g] = {}
  /\ regLock # NoProc => index[gen[regLock]] = {}

(* The create under way is past its rename. *)
Saved == regLock # NoProc /\ pc[regLock] = "f_clear"

(* A running server has no snapshot but those of registered collections, and
   of the one whose save is done but whose name is not registered yet. *)
NewOnDisk ==
  /\ Alive => \A n \in Names :
                registry[n] = 0 /\ path[n] # Absent => Saved /\ NameOf(regLock) = n
  /\ Saved => /\ Readable(path[NameOf(regLock)])
              /\ Loaded(path[NameOf(regLock)]) = Current(gen[regLock])

News == NewIsEmpty /\ NewOnDisk

RInv == WInv /\ HandsRegistered /\ News

-----------------------------------------------------------------------------
(* The invariant. *)

(* Who holds the registry's lock is saving a collection whose name is free. *)
LEMMA Creator ==
  ASSUME RInv, regLock # NoProc
  PROVE  /\ regLock \in Workers /\ regLock \in Procs /\ pc[regLock] \in SavePcs
         /\ gen[regLock] \in Gens /\ NameOf(regLock) \in Names
         /\ registry[NameOf(regLock)] = 0 /\ owner[gen[regLock]] = NameOf(regLock)
<1>1. regLock \in Workers /\ regLock \in Procs /\ pc[regLock] \in SavePcs
      /\ registry[NameOf(regLock)] = 0
  BY DEF RInv, WInv, IInv, LockHeld, Procs
<1> QED
  BY <1>1, OwnerType, ServerAssumption DEF RInv, WInv, IInv, HoldsArc, NameOf

(* Steps that change no index, no snapshot and not who creates what. *)
LEMMA CalmNews ==
  ASSUME RInv, UNCHANGED <<phase, registry, regLock, owner, index, path>>,
         regLock # NoProc => gen'[regLock] = gen[regLock],
         regLock # NoProc => (pc'[regLock] = "f_clear" <=> pc[regLock] = "f_clear")
  PROVE  News'
<1>1. NewIsEmpty'
  BY DEF RInv, News, NewIsEmpty
<1>2. Saved' <=> Saved
  BY DEF Saved
<1>3. regLock # NoProc => NameOf(regLock)' = NameOf(regLock) /\ Current(gen[regLock])' = Current(gen[regLock])
  BY DEF NameOf, Current
<1>4. NewOnDisk'
  BY <1>2, <1>3 DEF RInv, News, NewOnDisk, Alive, Saved
<1> QED
  BY <1>1, <1>4 DEF News

(* What is written to is registered. *)
LEMMA ApplyWriteNews ==
  ASSUME RInv, NEW p \in Procs, ApplyWrite(p)
  PROVE  /\ News'
         /\ gen[p] \in Gens /\ NameOf(p) \in Names /\ wr[p] \in Writes
         /\ registry[NameOf(p)] = gen[p] /\ Alive
<1> USE DEF ApplyWrite, memory, files, procs, history
<1>a. /\ gen[p] \in Gens /\ gen[p] # 0 /\ NameOf(p) \in Names /\ wr[p] \in Writes
      /\ pc[p] \notin SavePcs /\ pc[p] # "idle"
  BY OwnerType, ServerAssumption DEF RInv, WInv, IInv, HoldsArc, WritePcs, SavePcs
<1>b. regLock # p
  BY <1>a, Creator, ServerAssumption
<1>c. registry[NameOf(p)] = gen[p] /\ Alive
  BY <1>a, <1>b DEF RInv, HandsRegistered, WInv, IInv, Stopped
<1>d. regLock # NoProc => gen[regLock] # gen[p] /\ gen[regLock] \in Gens
  BY <1>a, <1>c, Creator, ServerAssumption DEF NameOf
<1>e. /\ \A g \in Gens : g # gen[p] => index'[g] = index[g]
      /\ \A q \in Procs : q # p => pc'[q] = pc[q]
  BY <1>a DEF RInv, WInv, IInv, TypeOK
<1>1. NewIsEmpty'
  BY <1>a, <1>d, <1>e DEF RInv, News, NewIsEmpty, NameOf
<1>2. Saved' <=> Saved
  BY <1>b, <1>e, Creator DEF Saved
<1>3. Saved => Current(gen[regLock])' = Current(gen[regLock])
  BY <1>d, <1>e DEF Saved, Current
<1>4. NewOnDisk'
  BY <1>2, <1>3 DEF RInv, News, NewOnDisk, Alive, Saved, NameOf
<1> QED
  BY <1>a, <1>c, <1>1, <1>4 DEF News

(* A new incarnation has no index and no file. *)
LEMMA BeginCreateNews ==
  ASSUME RInv, NEW p \in Workers, NEW n \in Names, BeginCreate(p, n)
  PROVE  News'
<1> USE DEF BeginCreate, memory, files, procs, history
<1>a. nextGen \in Gens /\ owner[nextGen] \notin Names /\ p \in Procs /\ p # NoProc
  BY ServerAssumption DEF RInv, WInv, IInv, TypeOK, Unmade, Procs
<1>b. /\ gen'[p] = nextGen /\ pc'[p] = "f_open" /\ regLock' = p
      /\ \A g \in Gens : owner'[g] \notin Names => owner[g] \notin Names
  BY <1>a DEF RInv, WInv, IInv, TypeOK
<1>1. NewIsEmpty'
  BY <1>a, <1>b DEF RInv, News, NewIsEmpty
<1>2. ~ Saved /\ ~ Saved'
  BY <1>b DEF Saved
<1>3. NewOnDisk'
  BY <1>2 DEF RInv, News, NewOnDisk, Alive
<1> QED
  BY <1>1, <1>3 DEF News

(* A create that fails before its rename leaves no snapshot. *)
LEMMA FlushFailsNews ==
  ASSUME RInv, NEW p \in Procs, FlushFails(p)
  PROVE  News'
<1> USE DEF FlushFails, Finish, memory, files, procs, history
<1>a. pc[p] # "f_clear"
  OBVIOUS
<1>b. \A q \in Procs : q # p => pc'[q] = pc[q] /\ gen'[q] = gen[q]
  BY DEF RInv, WInv, IInv, TypeOK
<1>1. CASE regLock # p
  BY <1>1, <1>b, Creator, CalmNews
<1>2. CASE regLock = p
  <2>1. NewIsEmpty'
    BY <1>2 DEF RInv, News, NewIsEmpty
  <2>2. ~ Saved /\ ~ Saved'
    BY <1>2, <1>a DEF Saved
  <2>3. NewOnDisk'
    BY <2>2 DEF RInv, News, NewOnDisk, Alive
  <2> QED
    BY <2>1, <2>3 DEF News
<1> QED
  BY <1>1, <1>2

(* The file that gets the name is the whole collection; the old one was
   there only if the collection is registered. *)
LEMMA RenameTmpNews ==
  ASSUME RInv, NEW p \in Procs, RenameTmp(p)
  PROVE  /\ News' /\ Alive /\ gen[p] \in Gens /\ NameOf(p) \in Names
         /\ Readable(path'[NameOf(p)]) /\ Loaded(path'[NameOf(p)]) = Current(gen[p])
         /\ \A m \in Names : m # NameOf(p) => path'[m] = path[m]
         /\ \/ registry[NameOf(p)] = gen[p]
            \/ /\ registry[NameOf(p)] = 0 /\ path[NameOf(p)] = Absent
               /\ index[gen[p]] = {}
<1> USE DEF RenameTmp, memory, files, procs, history
<1>a. /\ gen[p] \in Gens /\ gen[p] # 0 /\ NameOf(p) \in Names
      /\ pc[p] = "f_rename" /\ pc[p] \in SavePcs /\ Alive
  BY OwnerType, ServerAssumption DEF RInv, WInv, IInv, HoldsArc, SavePcs, Stopped
<1>b. /\ path'[NameOf(p)] = tmp[NameOf(p)] /\ tmp[NameOf(p)] \in File
      /\ \A m \in Names : m # NameOf(p) => path'[m] = path[m]
      /\ pc'[p] = "f_clear" /\ \A q \in Procs : q # p => pc'[q] = pc[q]
  BY <1>a DEF RInv, WInv, IInv, TypeOK, Entry
<1>c. Readable(path'[NameOf(p)]) /\ Loaded(path'[NameOf(p)]) = Current(gen[p])
  <2>1. Prefix(tmp[NameOf(p)], Current(gen[p]), Size(Current(gen[p])))
    BY <1>a DEF RInv, WInv, SaveProgress, Progress
  <2>2. Current(gen[p]) \in Snapshot /\ 0 \notin Gens
    BY <1>a, ServerAssumption DEF Current, Snapshot, RInv, WInv, IInv, TypeOK
  <2> QED
    BY <1>b, <2>1, <2>2, PrefixReadable
<1>d. path'[NameOf(p)] # Absent
  BY <1>c DEF Readable
<1>e. registry[NameOf(p)] = gen[p] \/ regLock = p
  BY <1>a DEF RInv, HandsRegistered
<1>f. p # NoProc
  BY ServerAssumption
<1>1. NewIsEmpty'
  BY DEF RInv, News, NewIsEmpty
<1>2. CASE regLock = p
  <2>1. registry[NameOf(p)] = 0 /\ index[gen[p]] = {} /\ ~ Saved
    BY <1>2, <1>a, <1>f, Creator DEF RInv, News, NewIsEmpty, Saved
  <2>2. \A m \in Names : registry[m] = 0 => path[m] = Absent
    BY <1>a, <2>1 DEF RInv, News, NewOnDisk
  <2>3. Saved' /\ NameOf(regLock)' = NameOf(p) /\ Current(gen[regLock])' = Current(gen[p])
    BY <1>2, <1>b, <1>f DEF Saved, NameOf, Current
  <2>4. NewOnDisk'
    BY <1>2, <1>b, <1>c, <2>2, <2>3 DEF NewOnDisk
  <2> QED
    BY <1>a, <1>b, <1>c, <1>1, <2>1, <2>2, <2>4 DEF News
<1>3. CASE regLock # p
  <2>1. registry[NameOf(p)] = gen[p]
    BY <1>e, <1>3
  <2>2. Saved' <=> Saved
    BY <1>3, <1>b, Creator DEF Saved
  <2>3. Saved => NameOf(regLock) \in Names /\ NameOf(regLock) # NameOf(p)
    BY <1>a, <2>1, Creator DEF Saved
  <2>4. NewOnDisk'
    BY <1>a, <1>b, <2>1, <2>2, <2>3 DEF RInv, News, NewOnDisk, Alive, NameOf, Current
  <2> QED
    BY <1>a, <1>b, <1>c, <1>1, <2>1, <2>4 DEF News
<1> QED
  BY <1>2, <1>3

(* The name is registered once its snapshot is there. *)
LEMMA PublishCreatedNews ==
  ASSUME RInv, NEW p \in Procs, PublishCreated(p)
  PROVE  /\ News' /\ Alive /\ gen[p] \in Gens /\ NameOf(p) \in Names
         /\ registry[NameOf(p)] = 0 /\ index[gen[p]] = {}
         /\ Readable(path[NameOf(p)]) /\ Loaded(path[NameOf(p)]) = Current(gen[p])
<1> USE DEF PublishCreated, Finish, memory, files, procs, history
<1>a. p # NoProc /\ Saved
  BY ServerAssumption DEF Saved
<1>b. /\ gen[p] \in Gens /\ gen[p] # 0 /\ NameOf(p) \in Names /\ Alive
      /\ registry[NameOf(p)] = 0 /\ index[gen[p]] = {}
  BY <1>a, Creator, ServerAssumption DEF RInv, WInv, IInv, Stopped, News, NewIsEmpty
<1>c. Readable(path[NameOf(p)]) /\ Loaded(path[NameOf(p)]) = Current(gen[p])
  BY <1>a DEF RInv, News, NewOnDisk
<1>1. NewIsEmpty'
  BY DEF RInv, News, NewIsEmpty
<1>2. \A m \in Names : registry'[m] = 0 => registry[m] = 0 /\ m # NameOf(p)
  BY <1>b DEF RInv, WInv, IInv, TypeOK
<1>3. NewOnDisk'
  BY <1>a, <1>b, <1>2 DEF RInv, News, NewOnDisk, Saved, Alive
<1> QED
  BY <1>b, <1>c, <1>1, <1>3 DEF News

(* A server that starts registers all that is on disk. *)
LEMMA RestartNews ==
  ASSUME RInv, Crash \/ Load
  PROVE  News'
<1>1. CASE Crash
  <2>1. NewIsEmpty' /\ ~ Saved' /\ ~ Alive'
    BY <1>1 DEF Crash, NewIsEmpty, Saved, Alive
  <2> QED
    BY <2>1 DEF News, NewOnDisk
<1>2. CASE Load
  <2> USE <1>2 DEF Load, files, procs
  <2>1. regLock = NoProc
    BY Creator DEF RInv, WInv, IInv, Stopped, Alive, SavePcs
  <2>2. \A n \in Names : path[n] # Absent =>
          /\ Loaded(path[n]).gen \in Gens /\ owner[Loaded(path[n]).gen] = n
          /\ registry'[n] = Loaded(path[n]).gen
    BY LoadedType DEF RInv, WInv, Snapshot
  <2>3. NewIsEmpty'
    <3>1. \A g \in Gens : owner[g] \notin Names => index'[g] = {}
      BY <2>2
    <3> QED
      BY <2>1, <3>1 DEF NewIsEmpty
  <2>4. NewOnDisk'
    BY <2>1, <2>2, ServerAssumption DEF NewOnDisk, Saved
  <2> QED
    BY <2>3, <2>4 DEF News
<1> QED
  BY <1>1, <1>2

(* Every step preserves the invariant. *)
LEMMA NextNews ==
  ASSUME SavesExclusive, RInv, [Next]_vars
  PROVE  RInv'
<1> USE DEF memory, files, procs, history
<1>a. WInv' /\ HandsRegistered'
  BY NextWhole, NextHands DEF RInv, WInv, SavesExclusive, NothingDropped
<1> SUFFICES News'
  BY <1>a DEF RInv
<1>b. regLock # NoProc => regLock \in Procs /\ pc[regLock] \in SavePcs
  BY Creator
<1>1. ASSUME NEW p \in Workers, NEW n \in Names, Request(p, n)
      PROVE  News'
  <2>1. ~ StartSnapshot(p, n) /\ ~ DropCollection(p, n)
    BY DEF SavesExclusive, StartSnapshot, DropCollection
  <2>2. CASE StartWrite(p, n)
    BY <2>2, CalmNews DEF StartWrite, Get
  <2> QED
    BY <1>1, <2>1, <2>2, BeginCreateNews DEF Request
<1>2. ASSUME NEW p \in Procs, Continue(p)
      PROVE  News'
  <2>1. CASE ApplyNothing(p) \/ MarkDirty(p) \/ ClearDirty(p)
    <3>1. regLock # p
      BY <1>b, <2>1, ServerAssumption DEF ApplyNothing, MarkDirty, ClearDirty, SavePcs
    <3> QED
      BY <1>b, <2>1, <3>1, CalmNews
         DEF ApplyNothing, MarkDirty, ClearDirty, Finish, RInv, WInv, IInv, TypeOK
  <2>2. CASE FlushLock(p) \/ OpenTmp(p)
    BY <1>b, <2>2, CalmNews DEF FlushLock, OpenTmp, RInv, WInv, IInv, TypeOK, SavePcs
  <2>3. CASE WriteBlock(p)
    <3>1. fd[p] # "path"
      BY DEF RInv, WInv, SaveProgress, Progress
    <3> QED
      BY <1>b, <2>3, <3>1, CalmNews DEF WriteBlock, RInv, WInv, IInv, TypeOK
  <2>4. CASE NextCollection(p) \/ EndFlushAll(p)
    <3>1. regLock # p
      BY <1>b, <2>4, ServerAssumption DEF NextCollection, EndFlushAll, SavePcs
    <3> QED
      BY <1>b, <2>4, <3>1, CalmNews DEF NextCollection, EndFlushAll, RInv, WInv, IInv, TypeOK
  <2>5. ~ DropExists(p) /\ ~ DropUnlink(p)
    BY DEF DropExists, DropUnlink, RInv, HandsRegistered, DropPcs
  <2> QED
    BY <1>2, <2>1, <2>2, <2>3, <2>4, <2>5, ApplyWriteNews, RenameTmpNews, FlushFailsNews,
       PublishCreatedNews
       DEF Continue
<1>3. CASE StartTick
  BY <1>3, <1>b, CalmNews DEF StartTick, RInv, WInv, IInv, TypeOK, SavePcs
<1>4. CASE Lifecycle
  <2>1. ~ Signal /\ ~ StartFinalFlush /\ ~ Exit /\ ~ LoadFails
    BY DEF SavesExclusive, RInv, WInv, OneSaver, NoTruncatedSnapshot, Signal, StartFinalFlush,
       Exit, MainReturned, LoadFails
  <2> QED
    BY <1>4, <2>1, RestartNews DEF Lifecycle
<1>5. CASE UNCHANGED vars
  <2>1. UNCHANGED <<phase, registry, regLock, owner, index, path, pc, gen>>
    BY <1>5 DEF vars
  <2> QED
    BY <2>1, CalmNews
<1> QED
  BY <1>1, <1>2, <1>3, <1>4, <1>5 DEF Next

(* Nothing is there. *)
LEMMA InitNews == Init => RInv
<1> SUFFICES ASSUME Init PROVE RInv
  OBVIOUS
<1>1. News
  BY DEF Init, News, NewIsEmpty, NewOnDisk, Saved
<1> QED
  BY <1>1, InitWhole, InitHands DEF RInv

-----------------------------------------------------------------------------
(* The refinement, step by step. *)

(* What changes neither the indexes nor the files is invisible. *)
LEMMA CalmStore ==
  ASSUME UNCHANGED <<registry, index, path>>, Alive' <=> Alive
  PROVE  UNCHANGED <<Live, OnDisk>>
  BY DEF Live, OnDisk, Current

(* Both functions change at one name at most. *)
LEMMA StoreAt ==
  ASSUME RInv, NEW n \in Names, NEW g \in Gens, registry[n] = g, Alive
  PROVE  Live[n] = Current(g) /\ Live[n] # Absent /\ Current(g) \in Snapshot
<1>1. Current(g) \in Snapshot
  BY DEF Current, Snapshot, RInv, WInv, IInv, TypeOK
<1> QED
  BY <1>1, ServerAssumption DEF Live

(* A mutation of a registered collection. *)
LEMMA ApplyWriteStore ==
  ASSUME RInv, NEW p \in Procs, ApplyWrite(p)
  PROVE  [Store!StoreNext]_<<Live, OnDisk>>
<1>1. PICK n \in Names : n = NameOf(p)
  BY ApplyWriteNews
<1>2. gen[p] \in Gens /\ gen[p] # 0 /\ wr[p] \in Writes /\ registry[n] = gen[p] /\ Alive
  <2>1. gen[p] \in Gens /\ wr[p] \in Writes /\ registry[n] = gen[p] /\ Alive
    BY <1>1, ApplyWriteNews
  <2> QED
    BY <2>1, ServerAssumption
<1> USE DEF ApplyWrite, memory, files, procs, history
<1>3. OnDisk' = OnDisk /\ (Alive' <=> Alive)
  BY DEF OnDisk, Alive
<1>4. /\ index'[gen[p]] = index[gen[p]] \cup {wr[p]}
      /\ \A g \in Gens : g # gen[p] => index'[g] = index[g]
  BY <1>2 DEF RInv, WInv, IInv, TypeOK
<1>5. \A m \in Names : m # n /\ registry[m] # 0 => registry[m] # gen[p] /\ registry[m] \in Gens
  BY <1>2, ServerAssumption DEF RInv, WInv, IInv, TypeOK, RegistryOwns
<1>6. \A m \in Names : m # n => Live'[m] = Live[m]
  BY <1>3, <1>4, <1>5 DEF Live, Current
<1>7. Live[n] = Current(gen[p]) /\ Live[n] # Absent
  BY <1>2, StoreAt
<1>8. Live'[n] = [gen |-> gen[p], writes |-> index[gen[p]] \cup {wr[p]}]
  BY <1>2, <1>3, <1>4 DEF Live, Current
<1>9. DOMAIN Live = Names /\ DOMAIN Live' = Names /\ Live = [m \in Names |-> Live[m]]
      /\ Live' = [m \in Names |-> Live'[m]]
  BY DEF Live
<1>10. CASE wr[p] \in index[gen[p]]
  <2>1. Live'[n] = Live[n]
    BY <1>7, <1>8, <1>10 DEF Current
  <2> QED
    BY <1>3, <1>6, <1>9, <2>1
<1>11. CASE wr[p] \notin index[gen[p]]
  <2>1. wr[p] \in Writes \ Live[n].writes
    BY <1>2, <1>7, <1>11 DEF Current
  <2>2. [Live[n] EXCEPT !.writes = @ \cup {wr[p]}] = Live'[n]
    BY <1>7, <1>8 DEF Current
  <2>3. Live' = [Live EXCEPT ![n].writes = @ \cup {wr[p]}]
    BY <1>6, <1>9, <2>2
  <2> QED
    BY <1>3, <1>7, <2>1, <2>3 DEF Store!StoreNext, Store!Mutate
<1> QED
  BY <1>10, <1>11

(* A save shows at its rename: a first one before the name is registered. *)
LEMMA RenameTmpStore ==
  ASSUME RInv, NEW p \in Procs, RenameTmp(p)
  PROVE  Store!StoreNext
<1>1. PICK n \in Names : n = NameOf(p)
  BY RenameTmpNews
<1>2. /\ Alive /\ gen[p] \in Gens /\ gen[p] # 0
      /\ Readable(path'[n]) /\ Loaded(path'[n]) = Current(gen[p])
      /\ \A m \in Names : m # n => path'[m] = path[m]
  BY <1>1, RenameTmpNews, ServerAssumption
<1>3. Live' = Live
  BY DEF RenameTmp, memory, Live, Alive, Current
<1>4. OnDisk' = [OnDisk EXCEPT ![n] = Current(gen[p])]
  BY <1>2 DEF OnDisk
<1>5. CASE registry[n] = gen[p]
  <2>1. Live[n] = Current(gen[p]) /\ Live[n] # Absent
    BY <1>2, <1>5, StoreAt
  <2> QED
    BY <1>3, <1>4, <2>1 DEF Store!StoreNext, Store!Persist
<1>6. CASE registry[n] = 0 /\ path[n] = Absent /\ index[gen[p]] = {}
  <2>1. Live[n] = Absent /\ OnDisk[n] = Absent
    BY <1>6 DEF Live, OnDisk, Readable
  <2>2. Current(gen[p]) = Store!Fresh(gen[p])
    BY <1>6 DEF Current, Store!Fresh
  <2> QED
    BY <1>2, <1>3, <1>4, <2>1, <2>2 DEF Store!StoreNext, Store!Prepare
<1> QED
  BY <1>1, <1>5, <1>6, RenameTmpNews

(* The collection that is on disk becomes visible. *)
LEMMA PublishCreatedStore ==
  ASSUME RInv, NEW p \in Procs, PublishCreated(p)
  PROVE  Store!StoreNext
<1>1. PICK n \in Names : n = NameOf(p)
  BY PublishCreatedNews
<1>2. /\ Alive /\ gen[p] \in Gens /\ gen[p] # 0 /\ registry[n] = 0 /\ index[gen[p]] = {}
      /\ Readable(path[n]) /\ Loaded(path[n]) = Current(gen[p])
  BY <1>1, PublishCreatedNews, ServerAssumption
<1>3. OnDisk' = OnDisk /\ OnDisk[n] = Current(gen[p])
  BY <1>2 DEF PublishCreated, files, OnDisk
<1>4. Live[n] = Absent
  BY <1>2 DEF Live
<1>5. /\ registry'[n] = gen[p] /\ \A m \in Names : m # n => registry'[m] = registry[m]
      /\ index' = index /\ (Alive' <=> Alive)
  BY <1>1, <1>2 DEF PublishCreated, Alive, RInv, WInv, IInv, TypeOK
<1>6. Live' = [Live EXCEPT ![n] = OnDisk[n]]
  BY <1>2, <1>3, <1>5 DEF Live, Current
<1>7. OnDisk[n] = Store!Fresh(gen[p])
  BY <1>2, <1>3 DEF Current, Store!Fresh
<1> QED
  BY <1>2, <1>3, <1>4, <1>6, <1>7 DEF Store!StoreNext, Store!Open

(* A restart yields the snapshots. *)
LEMMA LoadStore ==
  ASSUME RInv, Load
  PROVE  Store!StoreNext
<1> USE DEF Load, files, procs
<1>1. OnDisk' = OnDisk
  BY DEF OnDisk
<1>2. \A n \in Names : Live[n] = Absent
  BY DEF Live, Alive
<1>3. ASSUME NEW n \in Names, path[n] # Absent
      PROVE  Live'[n] = OnDisk[n]
  <2> DEFINE g == Loaded(path[n]).gen
  <2>1. Readable(path[n])
    BY <1>3
  <2>2. Loaded(path[n]) \in Snapshot /\ owner[g] = n
    BY <1>3, <2>1, LoadedType DEF RInv, WInv
  <2>3. \A m \in Names : path[m] # Absent /\ Loaded(path[m]).gen = g => m = n
    BY <2>2, LoadedType DEF RInv, WInv
  <2>4. g \in Gens /\ g # 0 /\ registry'[n] = g
    BY <1>3, <2>2, ServerAssumption DEF Snapshot
  <2>5. index'[g] = Loaded(path[n]).writes
    BY <1>3, <2>3, <2>4
  <2>6. Current(g)' = Loaded(path[n])
    BY <2>2, <2>5 DEF Current, Snapshot
  <2>7. Live'[n] = Current(g)'
    BY <2>4 DEF Live, Alive, Current
  <2> QED
    BY <2>1, <2>6, <2>7 DEF OnDisk
<1>4. ASSUME NEW n \in Names, path[n] = Absent
      PROVE  Live'[n] = OnDisk[n]
  BY <1>4 DEF Live, OnDisk, Readable
<1>5. Live' = OnDisk
  BY <1>3, <1>4 DEF Live, OnDisk
<1> QED
  BY <1>1, <1>2, <1>5 DEF Store!StoreNext, Store!Start

(* The other steps stop the server or are invisible. *)
LEMMA NextStore ==
  ASSUME SavesExclusive, RInv, [Next]_vars
  PROVE  [Store!StoreNext]_<<Live, OnDisk>>
<1> USE DEF memory, files, procs, history
<1>1. ASSUME NEW p \in Workers, NEW n \in Names, Request(p, n)
      PROVE  UNCHANGED <<Live, OnDisk>>
  <2>1. ~ StartSnapshot(p, n) /\ ~ DropCollection(p, n)
    BY DEF SavesExclusive, StartSnapshot, DropCollection
  <2> QED
    BY <1>1, <2>1, CalmStore DEF Request, StartWrite, BeginCreate, Alive
<1>2. ASSUME NEW p \in Procs, Continue(p)
      PROVE  [Store!StoreNext]_<<Live, OnDisk>>
  <2>1. CASE ApplyNothing(p) \/ MarkDirty(p) \/ FlushLock(p) \/ OpenTmp(p)
    BY <2>1, CalmStore DEF ApplyNothing, MarkDirty, FlushLock, OpenTmp, Alive
  <2>2. CASE WriteBlock(p)
    <3>1. fd[p] # "path"
      BY DEF RInv, WInv, SaveProgress, Progress
    <3> QED
      BY <2>2, <3>1, CalmStore DEF WriteBlock, Alive
  <2>3. CASE ClearDirty(p) \/ FlushFails(p) \/ NextCollection(p) \/ EndFlushAll(p)
    BY <2>3, CalmStore DEF ClearDirty, FlushFails, NextCollection, EndFlushAll, Alive
  <2>4. ~ DropExists(p) /\ ~ DropUnlink(p)
    BY DEF DropExists, DropUnlink, RInv, HandsRegistered, DropPcs
  <2> QED
    BY <1>2, <2>1, <2>2, <2>3, <2>4, ApplyWriteStore, RenameTmpStore, PublishCreatedStore
       DEF Continue
<1>3. CASE StartTick
  BY <1>3, CalmStore DEF StartTick, Alive
<1>4. CASE Lifecycle
  <2>1. ~ Signal /\ ~ StartFinalFlush /\ ~ Exit /\ ~ LoadFails
    BY DEF SavesExclusive, RInv, WInv, OneSaver, NoTruncatedSnapshot, Signal, StartFinalFlush,
       Exit, MainReturned, LoadFails
  <2>2. CASE Crash
    BY <2>2 DEF Crash, Live, OnDisk, Alive, Store!StoreNext, Store!Stop
  <2> QED
    BY <1>4, <2>1, <2>2, LoadStore DEF Lifecycle
<1>5. CASE UNCHANGED vars
  BY <1>5, CalmStore DEF vars, Alive
<1> QED
  BY <1>1, <1>2, <1>3, <1>4, <1>5 DEF Next

(***************************************************************************)
(* persist.rs, "so a crash mid-write never leaves a truncated snapshot":   *)
(* where clients only create and write and the process ends by being       *)
(* killed, the registry and the files are the store of VexStore.  Every    *)
(* snapshot is replaced by the whole of a newer state at one moment, a     *)
(* restart yields what was saved last, and a new collection is on disk     *)
(* before anyone can see it, whatever calls of a save fail.                *)
(***************************************************************************)
THEOREM SavesAreAtomic ==
  ASSUME SavesExclusive
  PROVE  Spec => ImplementsStore
<1>1. Init => Store!StoreInit
  BY DEF Init, Live, OnDisk, Readable, Store!StoreInit
<1>2. RInv /\ [Next]_vars => RInv' /\ [Store!StoreNext]_<<Live, OnDisk>>
  BY NextNews, NextStore
<1> QED
  BY <1>1, <1>2, InitNews, PTL DEF Spec, ImplementsStore, Store!StoreSpec

=============================================================================
