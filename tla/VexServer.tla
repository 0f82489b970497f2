----------------------------- MODULE VexServer -----------------------------
(***************************************************************************)
(* vex-server: the registry of collections, the request handlers that      *)
(* change it, the background and the shutdown flush, and the snapshot      *)
(* files (crates/vex-server/src/state.rs, routes.rs, main.rs and the save  *)
(* and load functions of crates/vex-core/src/persist.rs).                  *)
(*                                                                         *)
(* A process is a worker running one request, the background flush task,   *)
(* or main.  A step is a stretch of code between two points where another  *)
(* process can see a difference: taking or releasing a lock, storing the   *)
(* dirty flag, one file system call.  The handlers do not await between    *)
(* them, but they run on the threads of one runtime.                       *)
(*                                                                         *)
(* The read lock of an index is held by the processes inside save, see     *)
(* Saving.  The write lock is taken and released within one step.  The     *)
(* registry's write lock is the variable regLock, because create_collection*)
(* keeps it while it saves; its read lock is held within one step.         *)
(***************************************************************************)
EXTENDS SnapshotFs, FiniteSets

CONSTANTS
  Names,        \* collection names
  Workers,      \* runtime threads serving requests
  Background,   \* the flush task spawned by main
  Main,         \* the thread that runs main, and so the final flush
  NoProc,       \* no process
  NoName,       \* owner of an incarnation not made yet
  Ops,          \* the requests clients send
  MaxGens,      \* bound on the collections created
  MaxWrites,    \* bound on the mutating requests
  Oversize,     \* mutations whose payload is over put_payload's 16 MiB limit
  IoFaults,     \* may a file system call of a save fail?
  Crashes,      \* may the process be killed?
  Shutdowns     \* may the process be asked to stop?

Flushers == {Background, Main}

Procs == Workers \cup Flushers

AllOps == {"create", "drop", "upsert", "delete", "snapshot"}

ASSUME ServerAssumption ==
  /\ MaxGens \in Nat /\ MaxWrites \in Nat
  /\ Gens = 1 .. MaxGens /\ Writes = 1 .. MaxWrites
  /\ Ops \subseteq AllOps /\ Oversize \subseteq Writes
  /\ IoFaults \in BOOLEAN /\ Crashes \in BOOLEAN /\ Shutdowns \in BOOLEAN
  /\ Background # Main /\ Flushers \cap Workers = {} /\ NoProc \notin Procs
  /\ NoName \notin Names /\ Absent \notin File /\ Absent \notin Snapshot

VARIABLES
  phase,      \* where the server process is in its life
  registry,   \* AppState.collections: the incarnation a name stands for, or 0
  regLock,    \* the process that holds the registry's write lock across steps
  owner,      \* Collection.name
  index,      \* Collection.index: the mutations applied to it
  dirty,      \* Collection.dirty
  path,       \* <data_dir>/<name>.vex
  tmp,        \* <data_dir>/<name>.vex.tmp
  pc,         \* what each process does next
  gen,        \* the Arc<Collection> it holds
  wr,         \* the mutation its request asks for
  todo,       \* the Arcs that flush_all has still to visit
  blk,        \* the blocks its save has written
  fd,         \* the directory entry under which the file it has open is
  nextGen, nextWrite,
  acked,      \* mutations acknowledged to a client (and not lost by a crash)
  fate        \* what clients were told about each incarnation

memory == <<registry, regLock, owner, index, dirty>>
files == <<path, tmp>>
procs == <<pc, gen, wr, todo, blk, fd>>
history == <<nextGen, nextWrite, acked, fate>>
vars == <<phase, memory, files, procs, history>>

Phases == {"running", "draining", "final", "down", "crashed", "failed"}
SavePcs == {"f_open", "f_write", "f_rename", "f_clear"}
Pcs == {"idle", "lock_upsert", "lock_delete", "mark", "drop_exists",
        "drop_unlink", "next", "f_lock"} \cup SavePcs

(* Each variable is of its type: ids are of incarnations that exist, offsets
   stay inside a snapshot, files are sequences of blocks. *)
TypeOK ==
  /\ phase \in Phases
  /\ registry \in [Names -> Gens \cup {0}]
  /\ regLock \in Procs \cup {NoProc}
  /\ owner \in [Gens -> Names \cup {NoName}]
  /\ index \in [Gens -> SUBSET Writes]
  /\ dirty \in [Gens -> BOOLEAN]
  /\ path \in [Names -> Entry]
  /\ tmp \in [Names -> Entry]
  /\ pc \in [Procs -> Pcs]
  /\ gen \in [Procs -> Gens \cup {0}]
  /\ wr \in [Procs -> Writes \cup {0}]
  /\ todo \in [Procs -> SUBSET Gens]
  /\ blk \in [Procs -> 0 .. 1]
  /\ fd \in [Procs -> {"none", "tmp", "path", "gone"}]
  /\ nextGen \in 1 .. MaxGens + 1
  /\ nextWrite \in 1 .. MaxWrites + 1
  /\ acked \in [Gens -> SUBSET Writes]
  /\ fate \in [Gens -> {"none", "created", "dropping", "dropped"}]

Init ==
  /\ phase = "running"
  /\ registry = [n \in Names |-> 0]
  /\ regLock = NoProc
  /\ owner = [g \in Gens |-> NoName]
  /\ index = [g \in Gens |-> {}]
  /\ dirty = [g \in Gens |-> FALSE]
  /\ path = [n \in Names |-> Absent]
  /\ tmp = [n \in Names |-> Absent]
  /\ pc = [p \in Procs |-> "idle"]
  /\ gen = [p \in Procs |-> 0]
  /\ wr = [p \in Procs |-> 0]
  /\ todo = [p \in Procs |-> {}]
  /\ blk = [p \in Procs |-> 0]
  /\ fd = [p \in Procs |-> "none"]
  /\ nextGen = 1
  /\ nextWrite = 1
  /\ acked = [g \in Gens |-> {}]
  /\ fate = [g \in Gens |-> "none"]

-----------------------------------------------------------------------------
(* Views of the state. *)

Alive == phase \in {"running", "draining", "final"}

Registered == {registry[n] : n \in Names} \ {0}

(* What a save of g serialises. *)
Current(g) == [gen |-> g, writes |-> index[g]]

(* Processes that hold the read lock of g: they are inside save. *)
Saving(g) == {p \in Procs : gen[p] = g /\ pc[p] \in SavePcs}

(* The name whose files process p works on. *)
NameOf(p) == owner[gen[p]]

(* The process answers its request, or flush_all turns to its next collection. *)
Finish(p) ==
  /\ pc' = [pc EXCEPT ![p] = IF p \in Workers THEN "idle" ELSE "next"]
  /\ gen' = [gen EXCEPT ![p] = 0]

-----------------------------------------------------------------------------
(* Requests on the points of a collection. *)

(***************************************************************************)
(* AppState::get: the handler clones the Arc out of the registry and       *)
(* releases the registry lock; everything after works on the clone.        *)
(***************************************************************************)
Get(p, n) ==
  /\ phase = "running" /\ regLock = NoProc /\ pc[p] = "idle"
  /\ registry[n] # 0
  /\ gen' = [gen EXCEPT ![p] = registry[n]]

StartWrite(p, n) ==
  /\ Get(p, n)
  /\ nextWrite <= MaxWrites
  /\ \/ "upsert" \in Ops /\ pc' = [pc EXCEPT ![p] = "lock_upsert"]
     \/ /\ "delete" \in Ops /\ nextWrite \notin Oversize
        /\ pc' = [pc EXCEPT ![p] = "lock_delete"]
  /\ wr' = [wr EXCEPT ![p] = nextWrite]
  /\ nextWrite' = nextWrite + 1
  /\ UNCHANGED <<phase, memory, files, todo, blk, fd, nextGen, acked, fate>>

StartSnapshot(p, n) ==
  /\ "snapshot" \in Ops
  /\ Get(p, n)
  /\ pc' = [pc EXCEPT ![p] = "f_lock"]
  /\ UNCHANGED <<phase, memory, files, wr, todo, blk, fd, history>>

(* Mutant: the lock does not exclude the readers that serialise. *)
WriteLockIgnored(g) == TRUE

(* Mutant: flush lets go of the read lock before it clears the flag. *)
ReadLockDroppedEarly(g) == {p \in Saving(g) : pc[p] # "f_clear"} = {}

(* Mutant: the handler still has a read guard when it asks for the write lock. *)
WriteLockUpgraded(g) == {p \in Procs : gen[p] = g} = {}

(* The write lock of the index is free to take. *)
WriteLockFree(g) == Saving(g) = {}

(***************************************************************************)
(* The index is mutated under its write lock, which is released before the *)
(* dirty flag is stored.  A delete has something to delete only when       *)
(* points were stored.                                                     *)
(***************************************************************************)
ApplyWrite(p) ==
  /\ \/ pc[p] = "lock_upsert"
     \/ pc[p] = "lock_delete" /\ index[gen[p]] # {}
  /\ WriteLockFree(gen[p])
  /\ index' = [index EXCEPT ![gen[p]] = @ \cup {wr[p]}]
  /\ pc' = [pc EXCEPT ![p] = "mark"]
  /\ UNCHANGED <<phase, registry, regLock, owner, dirty, files,
                 gen, wr, todo, blk, fd, history>>

(* A batch with a bad point, or the delete of an id that is not there. *)
ApplyNothing(p) ==
  /\ pc[p] \in {"lock_upsert", "lock_delete"}
  /\ WriteLockFree(gen[p])
  /\ Finish(p)
  /\ wr' = [wr EXCEPT ![p] = 0]
  /\ UNCHANGED <<phase, memory, files, todo, blk, fd, history>>

(* Mutant: the handler forgets the flag. *)
MarkDirtyForgotten(p) ==
  /\ pc[p] = "mark"
  /\ acked' = [acked EXCEPT ![gen[p]] = @ \cup {wr[p]}]
  /\ wr' = [wr EXCEPT ![p] = 0]
  /\ Finish(p)
  /\ UNCHANGED <<phase, memory, files, todo, blk, fd, nextGen, nextWrite, fate>>

(* The flag is stored after the lock is released; then the response leaves. *)
MarkDirty(p) ==
  /\ pc[p] = "mark"
  /\ dirty' = [dirty EXCEPT ![gen[p]] = TRUE]
  /\ acked' = [acked EXCEPT ![gen[p]] = @ \cup {wr[p]}]
  /\ wr' = [wr EXCEPT ![p] = 0]
  /\ Finish(p)
  /\ UNCHANGED <<phase, registry, regLock, owner, index, files,
                 todo, blk, fd, nextGen, nextWrite, fate>>

-----------------------------------------------------------------------------
(* Collection::flush and AnyIndex::save. *)

(* The read lock.  No step holds the write lock, so it can be taken. *)
FlushLock(p) ==
  /\ pc[p] = "f_lock"
  /\ pc' = [pc EXCEPT ![p] = "f_open"]
  /\ UNCHANGED <<phase, memory, files, gen, wr, todo, blk, fd, history>>

(* Mutant: the snapshot is written in place. *)
OpenInPlace(p) ==
  /\ pc[p] = "f_open"
  /\ path' = [path EXCEPT ![NameOf(p)] = << >>]
  /\ fd' = [fd EXCEPT ![p] = "path"]
  /\ blk' = [blk EXCEPT ![p] = 0]
  /\ pc' = [pc EXCEPT ![p] = "f_write"]
  /\ UNCHANGED <<phase, memory, tmp, gen, wr, todo, history>>

(***************************************************************************)
(* File::create: makes the temporary file, or truncates the one another    *)
(* save of the same name has made.                                         *)
(***************************************************************************)
OpenTmp(p) ==
  /\ pc[p] = "f_open"
  /\ tmp' = [tmp EXCEPT ![NameOf(p)] = << >>]
  /\ fd' = [fd EXCEPT ![p] = "tmp"]
  /\ blk' = [blk EXCEPT ![p] = 0]
  /\ pc' = [pc EXCEPT ![p] = "f_write"]
  /\ UNCHANGED <<phase, memory, path, gen, wr, todo, history>>

(* put_payload refuses a payload over 16 MiB: no save of g gets to its end. *)
Unserialisable(g) == index[g] \cap Oversize # {}

(* Mutant: the rest of the buffer is not flushed before the file is closed. *)
WriteUnflushed(p) ==
  /\ pc[p] = "f_write"
  /\ ~ Unserialisable(gen[p])
  /\ tmp' = IF fd[p] = "tmp" THEN [tmp EXCEPT ![NameOf(p)] = WriteAt(@, 1, Current(gen[p]))]
            ELSE tmp
  /\ fd' = [fd EXCEPT ![p] = "none"]
  /\ pc' = [pc EXCEPT ![p] = "f_rename"]
  /\ UNCHANGED <<phase, memory, path, gen, wr, todo, blk, history>>

(***************************************************************************)
(* One write(2) of the BufWriter, into the open file wherever it is now.   *)
(* After the last one the file is closed.                                  *)
(***************************************************************************)
WriteBlock(p) ==
  LET n == NameOf(p)
      s == Current(gen[p])
      i == blk[p] + 1
      last == i = Size(s)
  IN /\ pc[p] = "f_write"
     /\ last => ~ Unserialisable(gen[p])
     /\ tmp' = IF fd[p] = "tmp" THEN [tmp EXCEPT ![n] = WriteAt(@, i, s)] ELSE tmp
     /\ path' = IF fd[p] = "path" THEN [path EXCEPT ![n] = WriteAt(@, i, s)] ELSE path
     /\ blk' = [blk EXCEPT ![p] = IF last THEN 0 ELSE i]
     /\ fd' = IF last THEN [fd EXCEPT ![p] = "none"] ELSE fd
     /\ pc' = IF last THEN [pc EXCEPT ![p] = "f_rename"] ELSE pc
     /\ UNCHANGED <<phase, memory, gen, wr, todo, history>>

(***************************************************************************)
(* rename(tmp, path) moves whatever the temporary name stands for.  A file *)
(* that others have open moves with its name; the one it replaces loses    *)
(* its name.                                                               *)
(***************************************************************************)
RenameTmp(p) ==
  LET n == NameOf(p) IN
  /\ pc[p] = "f_rename"
  /\ tmp[n] # Absent
  /\ path' = [path EXCEPT ![n] = tmp[n]]
  /\ tmp' = [tmp EXCEPT ![n] = Absent]
  /\ fd' = [q \in Procs |->
              IF fd[q] \in {"tmp", "path"} /\ NameOf(q) = n
              THEN IF fd[q] = "tmp" THEN "path" ELSE "gone"
              ELSE fd[q]]
  /\ pc' = [pc EXCEPT ![p] = "f_clear"]
  /\ UNCHANGED <<phase, memory, gen, wr, todo, blk, history>>

(* dirty.store(false) with the read lock still held, which is then released. *)
ClearDirty(p) ==
  /\ pc[p] = "f_clear" /\ regLock # p
  /\ dirty' = [dirty EXCEPT ![gen[p]] = FALSE]
  /\ Finish(p)
  /\ UNCHANGED <<phase, registry, regLock, owner, index, files,
                 wr, todo, blk, fd, history>>

(* Mutant: a failed save cleans up, but removes the snapshot itself. *)
FlushFailsErasing(p) ==
  /\ \/ pc[p] = "f_write" /\ Unserialisable(gen[p])
     \/ pc[p] = "f_rename" /\ tmp[NameOf(p)] = Absent
     \/ pc[p] \in {"f_open", "f_write", "f_rename"} /\ IoFaults
  /\ path' = [path EXCEPT ![NameOf(p)] = Absent]
  /\ fd' = [fd EXCEPT ![p] = "none"]
  /\ blk' = [blk EXCEPT ![p] = 0]
  /\ regLock' = IF regLock = p THEN NoProc ELSE regLock
  /\ Finish(p)
  /\ UNCHANGED <<phase, registry, owner, index, dirty, tmp, wr, todo, history>>

(* Mutant: flush clears the flag before it saves, and an error leaves it so. *)
FlushFailsForgetting(p) ==
  /\ \/ pc[p] = "f_write" /\ Unserialisable(gen[p])
     \/ pc[p] = "f_rename" /\ tmp[NameOf(p)] = Absent
     \/ pc[p] \in {"f_open", "f_write", "f_rename"} /\ IoFaults
  /\ dirty' = [dirty EXCEPT ![gen[p]] = FALSE]
  /\ fd' = [fd EXCEPT ![p] = "none"]
  /\ blk' = [blk EXCEPT ![p] = 0]
  /\ regLock' = IF regLock = p THEN NoProc ELSE regLock
  /\ Finish(p)
  /\ UNCHANGED <<phase, registry, owner, index, files, wr, todo, history>>

(* Mutant: flush_all gives up at the first error. *)
FlushFailsForAll(p) ==
  /\ \/ pc[p] = "f_write" /\ Unserialisable(gen[p])
     \/ pc[p] = "f_rename" /\ tmp[NameOf(p)] = Absent
     \/ pc[p] \in {"f_open", "f_write", "f_rename"} /\ IoFaults
  /\ todo' = [todo EXCEPT ![p] = {}]
  /\ fd' = [fd EXCEPT ![p] = "none"]
  /\ blk' = [blk EXCEPT ![p] = 0]
  /\ regLock' = IF regLock = p THEN NoProc ELSE regLock
  /\ Finish(p)
  /\ UNCHANGED <<phase, registry, owner, index, dirty, files, wr, history>>

(***************************************************************************)
(* A save returns an error: the serialisation is refused, the temporary    *)
(* file is gone, or a call fails.  Its file is closed, nothing is cleaned  *)
(* up, the dirty flag stays.  A create fails with it and lets go of the    *)
(* registry; flush_all logs the error and goes on.                         *)
(***************************************************************************)
FlushFails(p) ==
  /\ \/ pc[p] = "f_write" /\ Unserialisable(gen[p])
     \/ pc[p] = "f_rename" /\ tmp[NameOf(p)] = Absent
     \/ pc[p] \in {"f_open", "f_write", "f_rename"} /\ IoFaults
  /\ fd' = [fd EXCEPT ![p] = "none"]
  /\ blk' = [blk EXCEPT ![p] = 0]
  /\ regLock' = IF regLock = p THEN NoProc ELSE regLock
  /\ Finish(p)
  /\ UNCHANGED <<phase, registry, owner, index, dirty, files, wr, todo, history>>

-----------------------------------------------------------------------------
(* create_collection and drop_collection. *)

(* Mutant: nobody looks whether the name is taken. *)
BeginCreateUnchecked(p, n) ==
  /\ "create" \in Ops /\ phase = "running" /\ pc[p] = "idle"
  /\ nextGen <= MaxGens
  /\ regLock = NoProc
  /\ regLock' = p
  /\ owner' = [owner EXCEPT ![nextGen] = n]
  /\ gen' = [gen EXCEPT ![p] = nextGen]
  /\ nextGen' = nextGen + 1
  /\ pc' = [pc EXCEPT ![p] = "f_open"]
  /\ UNCHANGED <<phase, registry, index, dirty, files,
                 wr, todo, blk, fd, nextWrite, acked, fate>>

(* Mutant: the first flush is not forced, and a new collection is not dirty. *)
BeginCreateUnforced(p, n) ==
  /\ "create" \in Ops /\ phase = "running" /\ pc[p] = "idle"
  /\ nextGen <= MaxGens
  /\ regLock = NoProc /\ registry[n] = 0
  /\ regLock' = p
  /\ owner' = [owner EXCEPT ![nextGen] = n]
  /\ gen' = [gen EXCEPT ![p] = nextGen]
  /\ nextGen' = nextGen + 1
  /\ pc' = [pc EXCEPT ![p] = "f_clear"]
  /\ UNCHANGED <<phase, registry, index, dirty, files,
                 wr, todo, blk, fd, nextWrite, acked, fate>>

(***************************************************************************)
(* Under the registry's write lock: the name is free; a fresh collection   *)
(* is made and its (forced) flush begins.                                  *)
(***************************************************************************)
BeginCreate(p, n) ==
  /\ "create" \in Ops /\ phase = "running" /\ pc[p] = "idle"
  /\ nextGen <= MaxGens
  /\ regLock = NoProc /\ registry[n] = 0
  /\ regLock' = p
  /\ owner' = [owner EXCEPT ![nextGen] = n]
  /\ gen' = [gen EXCEPT ![p] = nextGen]
  /\ nextGen' = nextGen + 1
  /\ pc' = [pc EXCEPT ![p] = "f_open"]
  /\ UNCHANGED <<phase, registry, index, dirty, files,
                 wr, todo, blk, fd, nextWrite, acked, fate>>

(* The save is done: the collection is inserted, the registry released. *)
PublishCreated(p) ==
  /\ pc[p] = "f_clear" /\ regLock = p
  /\ registry' = [registry EXCEPT ![NameOf(p)] = gen[p]]
  /\ regLock' = NoProc
  /\ fate' = [fate EXCEPT ![gen[p]] = "created"]
  /\ Finish(p)
  /\ UNCHANGED <<phase, owner, index, dirty, files,
                 wr, todo, blk, fd, nextGen, nextWrite, acked>>

(* The name leaves the registry, whose lock is released before the file goes. *)
DropCollection(p, n) ==
  /\ "drop" \in Ops /\ phase = "running" /\ pc[p] = "idle"
  /\ regLock = NoProc /\ registry[n] # 0
  /\ registry' = [registry EXCEPT ![n] = 0]
  /\ fate' = [fate EXCEPT ![registry[n]] = "dropping"]
  /\ gen' = [gen EXCEPT ![p] = registry[n]]
  /\ pc' = [pc EXCEPT ![p] = "drop_exists"]
  /\ UNCHANGED <<phase, regLock, owner, index, dirty, files,
                 wr, todo, blk, fd, nextGen, nextWrite, acked>>

(* Mutant: the snapshot is left behind. *)
DropKeepsFile(p) ==
  /\ pc[p] = "drop_exists"
  /\ fate' = [fate EXCEPT ![gen[p]] = "dropped"]
  /\ Finish(p)
  /\ UNCHANGED <<phase, memory, files, wr, todo, blk, fd, nextGen, nextWrite, acked>>

(* path.exists(): without a file the drop is already done. *)
DropExists(p) ==
  /\ pc[p] = "drop_exists"
  /\ \/ /\ path[NameOf(p)] # Absent
        /\ pc' = [pc EXCEPT ![p] = "drop_unlink"]
        /\ UNCHANGED <<gen, fate>>
     \/ /\ path[NameOf(p)] = Absent
        /\ fate' = [fate EXCEPT ![gen[p]] = "dropped"]
        /\ Finish(p)
  /\ UNCHANGED <<phase, memory, files, wr, todo, blk, fd, nextGen, nextWrite, acked>>

(***************************************************************************)
(* remove_file.  When another drop of the name removed it first, the call  *)
(* fails and the client gets an error, not an acknowledgement.             *)
(***************************************************************************)
DropUnlink(p) ==
  LET n == NameOf(p) IN
  /\ pc[p] = "drop_unlink"
  /\ path' = [path EXCEPT ![n] = Absent]
  /\ fd' = [q \in Procs |->
              IF fd[q] = "path" /\ NameOf(q) = n THEN "gone" ELSE fd[q]]
  /\ fate' = IF path[n] # Absent THEN [fate EXCEPT ![gen[p]] = "dropped"] ELSE fate
  /\ Finish(p)
  /\ UNCHANGED <<phase, memory, tmp, wr, todo, blk, nextGen, nextWrite, acked>>

-----------------------------------------------------------------------------
(* AppState::flush_all, run by the background task and at the end of main. *)

(* main is past its last statement: the runtime polls no task again. *)
MainReturned == phase = "final" /\ pc[Main] = "idle"

(* Mutant: the runtime goes on polling the ticker after main. *)
StartTickForever ==
  /\ Alive /\ regLock = NoProc
  /\ pc[Background] = "idle"
  /\ todo' = [todo EXCEPT ![Background] = Registered]
  /\ pc' = [pc EXCEPT ![Background] = "next"]
  /\ UNCHANGED <<phase, memory, files, gen, wr, blk, fd, history>>

(* A tick of the interval: flush_all copies the registered Arcs. *)
StartTick ==
  /\ Alive /\ ~ MainReturned /\ regLock = NoProc
  /\ pc[Background] = "idle"
  /\ todo' = [todo EXCEPT ![Background] = Registered]
  /\ pc' = [pc EXCEPT ![Background] = "next"]
  /\ UNCHANGED <<phase, memory, files, gen, wr, blk, fd, history>>

(* The next Arc of the copied list; its dirty flag is read without a lock. *)
NextCollection(p) ==
  /\ pc[p] = "next"
  /\ \E g \in todo[p] :
       /\ todo' = [todo EXCEPT ![p] = @ \ {g}]
       /\ \/ /\ dirty[g]
             /\ gen' = [gen EXCEPT ![p] = g]
             /\ pc' = [pc EXCEPT ![p] = "f_lock"]
          \/ /\ ~ dirty[g]
             /\ UNCHANGED <<gen, pc>>
  /\ UNCHANGED <<phase, memory, files, wr, blk, fd, history>>

EndFlushAll(p) ==
  /\ pc[p] = "next" /\ todo[p] = {}
  /\ pc' = [pc EXCEPT ![p] = "idle"]
  /\ UNCHANGED <<phase, memory, files, gen, wr, todo, blk, fd, history>>

-----------------------------------------------------------------------------
(* The life of the server process. *)

(* SIGTERM or ctrl-c: axum accepts no more requests and finishes those it has. *)
Signal ==
  /\ Shutdowns /\ phase = "running"
  /\ phase' = "draining"
  /\ UNCHANGED <<memory, files, procs, history>>

(* Mutant: main does not wait for the requests that are being served. *)
FinalFlushUndrained ==
  /\ phase = "draining"
  /\ phase' = "final"
  /\ todo' = [todo EXCEPT ![Main] = Registered]
  /\ pc' = [pc EXCEPT ![Main] = "next"]
  /\ UNCHANGED <<memory, files, gen, wr, blk, fd, history>>

(* axum::serve returned: main runs flush_all. *)
StartFinalFlush ==
  /\ phase = "draining" /\ \A p \in Workers : pc[p] = "idle"
  /\ phase' = "final"
  /\ todo' = [todo EXCEPT ![Main] = Registered]
  /\ pc' = [pc EXCEPT ![Main] = "next"]
  /\ UNCHANGED <<memory, files, gen, wr, blk, fd, history>>

(* main returned; the runtime waits for the task it is polling. *)
Exit ==
  /\ MainReturned /\ pc[Background] = "idle"
  /\ phase' = "down"
  /\ UNCHANGED <<memory, files, procs, history>>

(* The process is killed: what is in memory is lost, the files stay. *)
Crash ==
  /\ Crashes /\ Alive
  /\ phase' = "crashed"
  /\ registry' = [n \in Names |-> 0]
  /\ regLock' = NoProc
  /\ index' = [g \in Gens |-> {}]
  /\ dirty' = [g \in Gens |-> FALSE]
  /\ pc' = [p \in Procs |-> "idle"]
  /\ gen' = [p \in Procs |-> 0]
  /\ wr' = [p \in Procs |-> 0]
  /\ todo' = [p \in Procs |-> {}]
  /\ blk' = [p \in Procs |-> 0]
  /\ fd' = [p \in Procs |-> "none"]
  /\ UNCHANGED <<owner, files, history>>

(***************************************************************************)
(* AppState::load: every snapshot in the directory becomes a collection    *)
(* that is not dirty; temporary files are not looked at.                   *)
(***************************************************************************)
Load ==
  /\ phase \in {"down", "crashed"}
  /\ \A n \in Names : path[n] # Absent => Readable(path[n])
  /\ LET Found == {n \in Names : path[n] # Absent}
         Stored(g) == UNION {Loaded(path[n]).writes :
                               n \in {k \in Found : Loaded(path[k]).gen = g}}
     IN /\ registry' = [n \in Names |-> IF n \in Found THEN Loaded(path[n]).gen ELSE 0]
        /\ index' = [g \in Gens |-> Stored(g)]
        /\ acked' = [g \in Gens |-> acked[g] \cap Stored(g)]
  /\ dirty' = [g \in Gens |-> FALSE]
  /\ phase' = "running"
  /\ UNCHANGED <<regLock, owner, files, procs, nextGen, nextWrite, fate>>

(* One snapshot that cannot be read and the server does not start, ever. *)
LoadFails ==
  /\ phase \in {"down", "crashed", "failed"}
  /\ \E n \in Names : path[n] # Absent /\ ~ Readable(path[n])
  /\ phase' = "failed"
  /\ UNCHANGED <<memory, files, procs, history>>

-----------------------------------------------------------------------------

(* The steps a process takes once its request or its flush has begun. *)
Continue(p) ==
  \/ ApplyWrite(p) \/ ApplyNothing(p) \/ MarkDirty(p)
  \/ FlushLock(p) \/ OpenTmp(p) \/ WriteBlock(p) \/ RenameTmp(p)
  \/ ClearDirty(p) \/ FlushFails(p)
  \/ PublishCreated(p) \/ DropExists(p) \/ DropUnlink(p)
  \/ NextCollection(p) \/ EndFlushAll(p)

Request(p, n) ==
  \/ StartWrite(p, n) \/ StartSnapshot(p, n)
  \/ BeginCreate(p, n) \/ DropCollection(p, n)

Lifecycle == Signal \/ StartFinalFlush \/ Exit \/ Crash \/ Load \/ LoadFails

Next ==
  \/ \E p \in Workers, n \in Names : Request(p, n)
  \/ \E p \in Procs : Continue(p)
  \/ StartTick
  \/ Lifecycle

Spec == Init /\ [][Next]_vars

(***************************************************************************)
(* The runtime schedules every thread that can take a step.  A request may *)
(* find the write lock taken over and over; the lock wakes a waiting       *)
(* writer before new readers, so it gets it in the end: strong fairness.   *)
(* The ticker ticks.  Nothing makes clients send, or the process crash.    *)
(***************************************************************************)
Fairness ==
  /\ \A p \in Workers : SF_vars(Continue(p))
  /\ \A p \in Flushers : WF_vars(Continue(p))
  /\ WF_vars(StartTick) /\ WF_vars(StartFinalFlush) /\ WF_vars(Exit)

FairSpec == Spec /\ Fairness

-----------------------------------------------------------------------------
(* What must hold. *)

(* The snapshot of name n is exactly the collection that is registered. *)
UpToDate(n) == Readable(path[n]) /\ Loaded(path[n]) = Current(registry[n])

(* A save whose file was renamed into place under its feet goes on writing it. *)
StillWriting(n) == \E p \in Procs : fd[p] = "path" /\ NameOf(p) = n

(***************************************************************************)
(* The dirty flag never forgets a change.  A collection that is not dirty, *)
(* and that no request is about to mark, has its snapshot in the file,     *)
(* although the flag is stored without the lock that guards the index and  *)
(* although several flushes of it may overlap: the last one to write the   *)
(* file completes it.                                                      *)
(***************************************************************************)
DirtyCoversUnsaved ==
  Alive => \A n \in Names :
    LET g == registry[n] IN
    /\ g # 0 /\ ~ dirty[g]
    /\ \A p \in Workers : ~ (pc[p] = "mark" /\ gen[p] = g)
    => UpToDate(n) \/ StillWriting(n)

(***************************************************************************)
(* While the disk does not fail, a running server has an unreadable        *)
(* snapshot only while some save is still writing it: overlapping saves of *)
(* one collection end with a good file whatever their order, also with the *)
(* temporary file of an earlier crash lying about.                         *)
(***************************************************************************)
TornOnlyWhileWriting ==
  Alive => \A n \in Names : path[n] = Absent \/ Readable(path[n]) \/ StillWriting(n)

(***************************************************************************)
(* main.rs:83, "a clean shutdown never loses acknowledged writes": once    *)
(* the process has exited, each collection's file has every acknowledged   *)
(* mutation, even if the background flush overlapped the final one.        *)
(***************************************************************************)
CleanShutdownKeepsAcked ==
  phase = "down" => \A n \in Names :
    registry[n] # 0 => /\ Readable(path[n])
                       /\ Loaded(path[n]).gen = registry[n]
                       /\ acked[registry[n]] \subseteq Loaded(path[n]).writes

(***************************************************************************)
(* At every moment, so wherever the process is killed, each snapshot file  *)
(* is whole: load accepts it.                                              *)
(***************************************************************************)
NoTruncatedSnapshot ==
  \A n \in Names : path[n] # Absent => Readable(path[n])

(***************************************************************************)
(* persist.rs:148, "a crash mid-write never leaves a truncated snapshot    *)
(* behind".                                                                *)
(***************************************************************************)
CrashLeavesWholeSnapshots == phase = "crashed" => NoTruncatedSnapshot

(***************************************************************************)
(* routes.rs:218, "Persist immediately so an empty collection survives a   *)
(* restart": a collection whose creation was answered, and that nobody     *)
(* dropped, is registered whenever the server runs, restarts included.     *)
(***************************************************************************)
CreatedSurvives ==
  Alive => \A g \in Gens : fate[g] = "created" => registry[owner[g]] = g

(***************************************************************************)
(* README.md:115, "drop (removes the snapshot)": a collection whose drop   *)
(* was answered is never registered again, restarts included.              *)
(***************************************************************************)
DroppedStaysDropped ==
  \A g \in Gens : fate[g] = "dropped" => registry[owner[g]] # g

(***************************************************************************)
(* While the server runs nothing takes the place of a registered           *)
(* collection: the check that a name is free and the insertion of the new  *)
(* collection are several steps apart, with a whole save between them.     *)
(***************************************************************************)
RegisteredNeverReplaced ==
  [][\A n \in Names : Alive /\ registry[n] # 0
                         => registry'[n] \in {registry[n], 0}]_vars

(* Every request is answered: nobody waits forever for a lock or for a save. *)
RequestsFinish == \A p \in Workers : pc[p] # "idle" ~> pc[p] = "idle"

(***************************************************************************)
(* state.rs:5, a background task flushes dirty collections: an acknowledged*)
(* mutation is in a good snapshot sooner or later.  A collection with a    *)
(* payload that cannot be saved never gets one, but does not keep the      *)
(* others from theirs: state.rs:133, "errors on individual collections are *)
(* logged, not fatal, so one bad disk write can't stop the others".        *)
(***************************************************************************)
WritesReachDisk ==
  \A g \in Gens, w \in Writes :
    w \in acked[g] ~> \/ Unserialisable(g)
                      \/ /\ owner[g] # NoName
                         /\ Readable(path[owner[g]])
                         /\ w \in Loaded(path[owner[g]]).writes

(* A signal ends the process: requests drain, the final flush gets done. *)
ShutdownEnds == phase = "draining" ~> phase = "down"

-----------------------------------------------------------------------------
(* The abstract store. *)

(* What clients find: the registered collections of a running server. *)
Live ==
  [n \in Names |-> IF Alive /\ registry[n] # 0 THEN Current(registry[n]) ELSE Absent]

(* The snapshot of a name is what loading its file would yield. *)
OnDisk == [n \in Names |-> IF Readable(path[n]) THEN Loaded(path[n]) ELSE Absent]

Store == INSTANCE VexStore WITH
  StoreNames <- Names, StoreGens <- Gens, StoreWrites <- Writes, Nothing <- Absent,
  live <- Live, disk <- OnDisk

(***************************************************************************)
(* The files behave as a store that changes atomically: each step of a     *)
(* save is invisible but the rename, a restart yields what was last saved, *)
(* and a snapshot is only ever replaced by the current state of the same   *)
(* collection.                                                             *)
(***************************************************************************)
ImplementsStore == Store!StoreSpec

=============================================================================
