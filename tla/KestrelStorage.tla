--------------------------- MODULE KestrelStorage ---------------------------
(***************************************************************************)
(* The transactional storage engine of src/src/storage.rs: one process     *)
(* that opens a database directory, serves commits and optimizes from      *)
(* several threads, and may stop at any point.                             *)
(*                                                                         *)
(* The directory holds kestrel.wal, a file of framed commits, and          *)
(* segment-<generation>-<nonce>.kst checkpoints.  In memory there is one   *)
(* published snapshot.  A thread inside Database::commit or                *)
(* Database::optimize is at one point of its call, kept in pc; the writer  *)
(* mutex serializes the part between taking and dropping the guard.  The   *)
(* wal mutex is only ever taken under the writer mutex and adds nothing.   *)
(* Database::open is a loop over the frames of the file, one step each.    *)
(*                                                                         *)
(* A snapshot is abstracted to the generation and the table it stands for; *)
(* KestrelSnapshot refines that table to segments and postings.  A frame   *)
(* keeps its length in units, so that a short write shifts what follows.   *)
(***************************************************************************)
EXTENDS Integers, Sequences

CONSTANTS
  Rows,          \* row identifiers (i64)
  Docs,          \* documents a transaction may store
  BadDoc,        \* a document with no field, or with more than 64
  Absent,        \* no document at a row; as an operation, Delete
  Workers,       \* threads that share the Database handle
  NoWorker,      \* the writer mutex is free
  MaxOps,        \* bound: operations in one transaction
  MaxFrames,     \* bound: frames in the log when a commit is called
  MaxGeneration, \* stands for u64::MAX, where checked_add fails
  PayloadSizes,  \* lengths in units that an encoded transaction may have
  MaxWalRecord,  \* MAX_WAL_RECORD_BYTES in the same units
  CrashKinds,    \* how the process may stop: "process", "power"
  MaxCrashes,    \* bound: crashes and restarts
  Faults,        \* the calls to the operating system that may fail
  JournaledDirectory  \* directory updates reach the disk when they are made

HeaderUnits == 2  \* the 16 bytes of magic, length and checksum

FaultKinds == {"append", "sync", "temp", "rename", "truncate",
               "truncateSync", "sweep"}

ASSUME DataAssumption ==
  /\ Absent \notin Docs
  /\ BadDoc \notin Docs \cup {Absent}
ASSUME WorkerAssumption == NoWorker \notin Workers
ASSUME BoundAssumption ==
  /\ MaxOps \in Nat /\ MaxFrames \in Nat /\ MaxGeneration \in Nat
  /\ MaxWalRecord \in Nat /\ MaxCrashes \in Nat
  /\ PayloadSizes \subseteq Nat \ {0}
ASSUME EnvironmentAssumption ==
  /\ CrashKinds \subseteq {"process", "power"}
  /\ Faults \subseteq FaultKinds
  /\ JournaledDirectory \in BOOLEAN

VARIABLES
  wal,         \* frames of kestrel.wal, as a read of the file returns them
  durable,     \* the frames of the file as the last completed sync left them
  checkpoints, \* the .kst files, as a listing of the directory returns them
  onDisk,      \* the .kst files whose directory entry is durable
  phase,       \* what the process is doing with the directory
  cursor,      \* the frame that Database::open looks at next
  snapshot,    \* the published snapshot
  writer,      \* the holder of the writer mutex
  pc,          \* where each thread is in its call
  operations,  \* the operations of each thread's transaction
  history,     \* ghost: history[g + 1] is the table of generation g
  crashes      \* counts crashes, for the bound

diskVars   == <<wal, durable, checkpoints, onDisk>>
openVars   == <<phase, cursor>>
threadVars == <<writer, pc, operations>>
vars == <<wal, durable, checkpoints, onDisk, phase, cursor, snapshot, writer,
          pc, operations, history, crashes>>

-----------------------------------------------------------------------------
(* Operations, transactions and tables.                                    *)

Operation == [row : Rows, doc : Docs \cup {BadDoc, Absent}]
Table     == [Rows -> Docs \cup {Absent}]
Empty     == [r \in Rows |-> Absent]

Touched(ops) == {ops[i].row : i \in DOMAIN ops}

LastOn(ops, r) ==
  CHOOSE i \in DOMAIN ops :
    ops[i].row = r /\ \A j \in DOMAIN ops : ops[j].row = r => j <= i

\* The last operation on a row wins; what is left is one document or
\* tombstone for each row, whose order no longer matters.
Canonicalize(ops) == [r \in Touched(ops) |-> ops[LastOn(ops, r)].doc]

\* Seeded fault: validation is skipped.
AcceptEverything(ops) == TRUE

Valid(ops) == \A i \in DOMAIN ops : ops[i].doc # BadDoc

\* Seeded fault: the rows that a transaction does not name are dropped.
ForgetOtherRows(table, tx) ==
  [r \in Rows |-> IF r \in DOMAIN tx THEN tx[r] ELSE Absent]

\* The table after a transaction: its rows replaced, the others kept.
Apply(table, tx) ==
  [r \in Rows |-> IF r \in DOMAIN tx THEN tx[r] ELSE table[r]]

-----------------------------------------------------------------------------
(* The write-ahead log.                                                    *)

\* Frame f as the file holds it: the first `have` of its `size` units, from
\* offset `start` on, and whether the payload still has its checksum.
Whole(f) == f.have = f.size /\ f.good
EndOf(f) == f.start + f.size

FileLength == IF wal = <<>> THEN 0
              ELSE wal[Len(wal)].start + wal[Len(wal)].have

\* previous_generation in read_wal when it reaches frame i.
PreviousGeneration(i) == IF i = 1 THEN 0 ELSE wal[i - 1].generation

\* Decodable: decode_commit accepts what the frame's payload encodes.
Decodable(f) == \A r \in DOMAIN f.tx : f.tx[r] # BadDoc

\* Seeded fault: a damaged last record is an error like any other.
NoTornTail(i) ==
  IF Whole(wal[i]) /\ Decodable(wal[i])
       /\ wal[i].generation > PreviousGeneration(i)
  THEN "commit" ELSE "corrupt"

\* What read_wal makes of frame i, whose predecessors it accepted: "torn"
\* ends the log there, "corrupt" makes open fail.  When a frame was cut
\* short and the file goes on, the bytes that follow are read as the rest
\* of this frame: as its magic and length, or as a payload that fails the
\* checksum.
Verdict(i) ==
  LET f         == wal[i]
      remaining == FileLength - f.start
  IN CASE remaining < HeaderUnits                -> "torn"
       [] remaining >= HeaderUnits
            /\ (\/ f.have < HeaderUnits
                \/ f.size - HeaderUnits > MaxWalRecord)
                                                 -> "corrupt"
       [] OTHER ->
            IF Whole(f)
            THEN IF Decodable(f) /\ f.generation > PreviousGeneration(i)
                 THEN "commit" ELSE "corrupt"
            ELSE IF EndOf(f) >= FileLength THEN "torn" ELSE "corrupt"

\* A frame that was being written when the process or the machine stopped.
Damaged(f) ==
  {[f EXCEPT !.have = h] : h \in 1..(f.size - 1)} \cup {[f EXCEPT !.good = FALSE]}

\* The file agrees with its last synced contents on so many frames; these are
\* durable.  Kept are the numbers of frames that power loss may leave.
Agreed == {n \in 0..Len(wal) :
             n <= Len(durable) /\ SubSeq(wal, 1, n) = SubSeq(durable, 1, n)}
Kept   == {n \in 0..Len(wal) : \A m \in Agreed : m <= n}

\* What kestrel.wal may hold after a crash.  The page cache survives the
\* process.  Without power, a truncation that was not synced may be undone,
\* and every frame that was not synced may be lost or damaged.
WalImages(kind) ==
  IF kind = "process" THEN {wal}
  ELSE {durable} \cup
       {SubSeq(wal, 1, n) : n \in Kept} \cup
       UNION {{Append(SubSeq(wal, 1, n), f) : f \in Damaged(wal[n + 1])} :
                n \in Kept \ {Len(wal)}}

\* What the directory may list after a crash: without power, an entry made
\* or removed since it was last written back may or may not be there.
DirectoryImages(kind) ==
  IF kind = "process" THEN {checkpoints}
  ELSE {(onDisk \cap checkpoints) \cup kept :
          kept \in SUBSET ((onDisk \cup checkpoints) \ (onDisk \cap checkpoints))}

WriteBack(entries) == IF JournaledDirectory THEN entries ELSE onDisk

-----------------------------------------------------------------------------
(* Transactions of the threads.                                            *)

InCommit   == {"append", "appending", "sync", "publish", "commitReturn"}
InOptimize == {"temp", "rename", "truncate", "truncateSync", "sweep"}
PcValues   == {"idle", "building", "commitLock", "optimizeLock"}
                \cup InCommit \cup InOptimize

Init ==
  /\ wal = <<>> /\ durable = <<>>
  /\ checkpoints = {} /\ onDisk = {}
  /\ phase = "closed" /\ cursor = 1
  /\ snapshot = [generation |-> 0, table |-> Empty]
  /\ writer = NoWorker
  /\ pc = [w \in Workers |-> "idle"]
  /\ operations = [w \in Workers |-> <<>>]
  /\ history = <<Empty>>
  /\ crashes = 0

\* Thread w goes from one point of its call to another.
Step(w, from, to) ==
  /\ phase = "ready"
  /\ pc[w] = from
  /\ pc' = [pc EXCEPT ![w] = to]

\* The call of thread w returns from point `from`; guards are dropped.
Return(w, from) ==
  /\ Step(w, from, "idle")
  /\ operations' = [operations EXCEPT ![w] = <<>>]

Unlock(w) == writer' = NoWorker

\* Database::begin.
Begin(w) ==
  /\ Step(w, "idle", "building")
  /\ UNCHANGED <<diskVars, openVars, snapshot, writer, operations, history, crashes>>

\* Transaction::upsert, upsert_text and delete.
Push(w) ==
  /\ Step(w, "building", "building")
  /\ Len(operations[w]) < MaxOps
  /\ \E op \in Operation :
       operations' = [operations EXCEPT ![w] = Append(@, op)]
  /\ UNCHANGED <<diskVars, openVars, snapshot, writer, history, crashes>>

\* Transaction::rollback, and the returns of commit before the writer mutex:
\* no operation, or a document that validation rejects.
Rollback(w) ==
  /\ Return(w, "building")
  /\ UNCHANGED <<diskVars, openVars, snapshot, writer, history, crashes>>

\* Transaction::commit up to the mutex: validate and prepare.
CommitCall(w) ==
  /\ Step(w, "building", "commitLock")
  /\ operations[w] # <<>>
  /\ Valid(operations[w])
  /\ Len(wal) < MaxFrames
  /\ UNCHANGED <<diskVars, openVars, snapshot, writer, operations, history, crashes>>

\* commit takes the writer mutex and reads the published snapshot.
LockCommit(w) ==
  /\ writer = NoWorker
  /\ snapshot.generation < MaxGeneration
  /\ Step(w, "commitLock", "append")
  /\ writer' = w
  /\ UNCHANGED <<diskVars, openVars, snapshot, operations, history, crashes>>

\* Seeded fault: the last generation is looked for one too late.
ExhaustedLater(w) ==
  /\ writer = NoWorker
  /\ snapshot.generation > MaxGeneration
  /\ Return(w, "commitLock")
  /\ UNCHANGED <<diskVars, openVars, snapshot, writer, history, crashes>>

\* checked_add fails and commit returns an error.
ExhaustedCommit(w) ==
  /\ writer = NoWorker
  /\ snapshot.generation = MaxGeneration
  /\ Return(w, "commitLock")
  /\ UNCHANGED <<diskVars, openVars, snapshot, writer, history, crashes>>

\* The frame that commit encodes for thread w, with `have` units written.
NewFrame(w, payload, have) ==
  [generation |-> snapshot.generation + 1,
   tx    |-> Canonicalize(operations[w]),
   start |-> FileLength,
   size  |-> HeaderUnits + payload,
   have  |-> have,
   good  |-> TRUE]

\* write_all has reached the file with a part of the frame.
AppendPart(w) ==
  /\ Step(w, "append", "appending")
  /\ \E payload \in PayloadSizes :
       \E have \in 1..(HeaderUnits + payload - 1) :
         wal' = Append(wal, NewFrame(w, payload, have))
  /\ UNCHANGED <<durable, checkpoints, onDisk, openVars, snapshot, writer,
                 operations, history, crashes>>

\* write_all is done.
AppendRest(w) ==
  /\ Step(w, "appending", "sync")
  /\ wal' = [wal EXCEPT ![Len(wal)].have = wal[Len(wal)].size]
  /\ UNCHANGED <<durable, checkpoints, onDisk, openVars, snapshot, writer,
                 operations, history, crashes>>

\* write_all fails, before or after part of the frame: commit returns the
\* error and leaves the file as it is.
AppendFails(w) ==
  /\ "append" \in Faults
  /\ Return(w, "append") \/ Return(w, "appending")
  /\ Unlock(w)
  /\ UNCHANGED <<diskVars, openVars, snapshot, history, crashes>>

\* Seeded fault: sync_data is left out.
ForgetSync(w) ==
  /\ Step(w, "sync", "publish")
  /\ UNCHANGED <<diskVars, openVars, snapshot, writer, operations, history, crashes>>

\* wal.sync_data().
SyncWal(w) ==
  /\ Step(w, "sync", "publish")
  /\ durable' = wal
  /\ UNCHANGED <<wal, checkpoints, onDisk, openVars, snapshot, writer,
                 operations, history, crashes>>

\* Seeded fault: the error path keeps the guard.
SyncFailsLocked(w) ==
  /\ "sync" \in Faults
  /\ Return(w, "sync")
  /\ UNCHANGED <<diskVars, openVars, snapshot, writer, history, crashes>>

\* sync_data fails: commit returns the error, the frame stays in the file.
SyncFails(w) ==
  /\ "sync" \in Faults
  /\ Return(w, "sync")
  /\ Unlock(w)
  /\ UNCHANGED <<diskVars, openVars, snapshot, history, crashes>>

\* The next snapshot replaces the published one.
Publish(w) ==
  LET next == Apply(snapshot.table, Canonicalize(operations[w]))
  IN /\ Step(w, "publish", "commitReturn")
     /\ snapshot' = [generation |-> snapshot.generation + 1, table |-> next]
     /\ history' = Append(history, next)
     /\ UNCHANGED <<diskVars, openVars, writer, operations, crashes>>

\* commit clears the query cache (see KestrelCache) and returns.
CommitReturn(w) ==
  /\ Return(w, "commitReturn")
  /\ Unlock(w)
  /\ UNCHANGED <<diskVars, openVars, snapshot, history, crashes>>

-----------------------------------------------------------------------------
(* Database::optimize.                                                     *)

OptimizeCall(w) ==
  /\ Step(w, "idle", "optimizeLock")
  /\ UNCHANGED <<diskVars, openVars, snapshot, writer, operations, history, crashes>>

LockOptimize(w) ==
  /\ writer = NoWorker
  /\ Step(w, "optimizeLock", "temp")
  /\ writer' = w
  /\ UNCHANGED <<diskVars, openVars, snapshot, operations, history, crashes>>

\* write_framed_file: the .tmp file is complete and synced.  No listing of
\* checkpoints counts a .tmp file, so nothing else of it is kept.
WriteTemp(w) ==
  /\ Step(w, "temp", "rename")
  /\ UNCHANGED <<diskVars, openVars, snapshot, writer, operations, history, crashes>>

\* Seeded fault: the log is emptied before the checkpoint has its name.
TruncateBeforeRename(w) ==
  /\ Step(w, "rename", "truncate")
  /\ wal' = <<>>
  /\ UNCHANGED <<durable, checkpoints, onDisk, openVars, snapshot, writer, operations,
                 history, crashes>>

\* fs::rename gives the checkpoint of the compacted snapshot its name.
Rename(w) ==
  /\ Step(w, "rename", "truncate")
  /\ checkpoints' = checkpoints \cup {snapshot}
  /\ onDisk' = WriteBack(checkpoints')
  /\ UNCHANGED <<wal, durable, openVars, snapshot, writer, operations, history,
                 crashes>>

\* wal.set_len(0).
Truncate(w) ==
  /\ Step(w, "truncate", "truncateSync")
  /\ wal' = <<>>
  /\ UNCHANGED <<durable, checkpoints, onDisk, openVars, snapshot, writer, operations,
                 history, crashes>>

\* wal.sync_all(), then the compacted snapshot replaces the published one,
\* with the same generation and table, and the query cache is cleared.
SwapCompacted(w) ==
  /\ Step(w, "truncateSync", "sweep")
  /\ durable' = wal
  /\ UNCHANGED <<wal, checkpoints, onDisk, openVars, snapshot, writer,
                 operations, history, crashes>>

\* remove_old_checkpoints removes one file other than the new one.
Sweep(w) ==
  /\ Step(w, "sweep", "sweep")
  /\ \E c \in checkpoints \ {snapshot} :
       /\ checkpoints' = checkpoints \ {c}
       /\ onDisk' = WriteBack(checkpoints')
  /\ UNCHANGED <<wal, durable, openVars, snapshot, writer, operations, history,
                 crashes>>

OptimizeReturn(w) ==
  /\ checkpoints \subseteq {snapshot}
  /\ Return(w, "sweep")
  /\ Unlock(w)
  /\ UNCHANGED <<diskVars, openVars, snapshot, history, crashes>>

\* A call of optimize to the operating system fails: the guard is dropped
\* and the error returned, with what was done before left in place.
OptimizeFails(w) ==
  /\ \E call \in Faults \cap InOptimize : Return(w, call)
  /\ Unlock(w)
  /\ UNCHANGED <<diskVars, openVars, snapshot, history, crashes>>

-----------------------------------------------------------------------------
(* Database::open.                                                         *)

\* load_latest_checkpoint: one of the newest, in whatever order the
\* directory lists them; the default snapshot when there is none.
LoadCheckpoint ==
  /\ phase = "closed"
  /\ phase' = "scan" /\ cursor' = 1
  /\ IF checkpoints = {}
     THEN snapshot' = [generation |-> 0, table |-> Empty]
     ELSE \E c \in checkpoints :
            /\ \A d \in checkpoints : d.generation <= c.generation
            /\ snapshot' = c
  /\ UNCHANGED <<diskVars, threadVars, history, crashes>>

\* read_wal accepts a frame.
ScanFrame ==
  /\ phase = "scan"
  /\ cursor <= Len(wal)
  /\ Verdict(cursor) = "commit"
  /\ cursor' = cursor + 1
  /\ UNCHANGED <<diskVars, phase, snapshot, threadVars, history, crashes>>

\* Seeded fault: only the end of the file ends the scan.
ScanToTheEnd ==
  /\ phase = "scan"
  /\ cursor > Len(wal)
  /\ wal' = SubSeq(wal, 1, cursor - 1)
  /\ phase' = "replay" /\ cursor' = 1
  /\ UNCHANGED <<durable, checkpoints, onDisk, snapshot, threadVars, history,
                 crashes>>

\* read_wal ends, and open cuts a torn tail off the file.
ScanEnds ==
  /\ phase = "scan"
  /\ cursor <= Len(wal) => Verdict(cursor) = "torn"
  /\ wal' = SubSeq(wal, 1, cursor - 1)
  /\ phase' = "replay" /\ cursor' = 1
  /\ UNCHANGED <<durable, checkpoints, onDisk, snapshot, threadVars, history,
                 crashes>>

\* read_wal fails, and open with it.
ScanFails ==
  /\ phase = "scan"
  /\ cursor <= Len(wal)
  /\ Verdict(cursor) = "corrupt"
  /\ phase' = "corrupt"
  /\ UNCHANGED <<diskVars, cursor, snapshot, threadVars, history, crashes>>

\* The snapshot after the commit of frame f.
Replayed(f) ==
  [generation |-> f.generation, table |-> Apply(snapshot.table, f.tx)]

\* Seeded fault: the commit right behind the snapshot is skipped.
ReplayOneTooLate ==
  /\ phase = "replay"
  /\ cursor <= Len(wal)
  /\ snapshot' = IF wal[cursor].generation > snapshot.generation + 1
                 THEN Replayed(wal[cursor]) ELSE snapshot
  /\ cursor' = cursor + 1
  /\ UNCHANGED <<diskVars, phase, threadVars, history, crashes>>

\* open applies a commit that is newer than the snapshot.
ReplayFrame ==
  /\ phase = "replay"
  /\ cursor <= Len(wal)
  /\ snapshot' = IF wal[cursor].generation > snapshot.generation
                 THEN Replayed(wal[cursor]) ELSE snapshot
  /\ cursor' = cursor + 1
  /\ UNCHANGED <<diskVars, phase, threadVars, history, crashes>>

\* open returns the database.  A commit that was in the log and that nobody
\* published before the crash is published now.
Serve ==
  /\ phase = "replay"
  /\ cursor > Len(wal)
  /\ phase' = "ready" /\ cursor' = 1
  /\ history' = IF snapshot.generation = Len(history)
                THEN Append(history, snapshot.table) ELSE history
  /\ UNCHANGED <<diskVars, snapshot, threadVars, crashes>>

\* The process stops, with calls under way or not; so does dropping the
\* handle, which has nothing to flush.  What it had written stays.
Crash(kind) ==
  /\ crashes < MaxCrashes
  /\ crashes' = crashes + 1
  /\ \E image \in WalImages(kind) :
       /\ wal' = image
       /\ durable' = IF kind = "power" THEN image ELSE durable
  /\ \E image \in DirectoryImages(kind) :
       /\ checkpoints' = image
       /\ onDisk' = IF kind = "power" THEN image ELSE onDisk
  /\ phase' = "closed" /\ cursor' = 1
  /\ snapshot' = [generation |-> 0, table |-> Empty]
  /\ writer' = NoWorker
  /\ pc' = [w \in Workers |-> "idle"]
  /\ operations' = [w \in Workers |-> <<>>]
  /\ UNCHANGED history

-----------------------------------------------------------------------------
Open == LoadCheckpoint \/ ScanFrame \/ ScanEnds \/ ScanFails \/ ReplayFrame \/ Serve

CommitSteps(w) ==
  \/ LockCommit(w) \/ ExhaustedCommit(w)
  \/ AppendPart(w) \/ AppendRest(w) \/ AppendFails(w)
  \/ SyncWal(w) \/ SyncFails(w) \/ Publish(w) \/ CommitReturn(w)

OptimizeSteps(w) ==
  \/ LockOptimize(w) \/ WriteTemp(w) \/ Rename(w) \/ Truncate(w)
  \/ SwapCompacted(w) \/ Sweep(w) \/ OptimizeReturn(w) \/ OptimizeFails(w)

Calls(w) ==
  Begin(w) \/ Push(w) \/ Rollback(w) \/ CommitCall(w) \/ OptimizeCall(w)

Next ==
  \/ Open
  \/ \E w \in Workers : Calls(w) \/ CommitSteps(w) \/ OptimizeSteps(w)
  \/ \E kind \in CrashKinds : Crash(kind)

Spec == Init /\ [][Next]_vars

\* Open runs to its end on one thread; a thread that holds the mutex is
\* scheduled until it returns; a thread that waits gets a mutex that stays
\* free.  std::sync::Mutex queues nobody, so no stronger fairness is assumed,
\* and no thread has to make a call.
FairSpec ==
  /\ Spec
  /\ WF_vars(Open)
  /\ \A w \in Workers : WF_vars(CommitSteps(w)) /\ WF_vars(OptimizeSteps(w))

-----------------------------------------------------------------------------
(* Properties.                                                             *)

Changes == UNION {[S -> Docs \cup {BadDoc, Absent}] : S \in SUBSET Rows}

Frame == [generation : Nat, tx : Changes, start : Nat, size : Nat, have : Nat,
          good : BOOLEAN]

Snapshot == [generation : Nat, table : Table]

\* The type invariant.
TypeOK ==
  /\ wal \in Seq(Frame) /\ durable \in Seq(Frame)
  /\ checkpoints \in SUBSET Snapshot /\ onDisk \in SUBSET Snapshot
  /\ phase \in {"closed", "scan", "replay", "ready", "corrupt"}
  /\ cursor \in Nat
  /\ snapshot \in Snapshot
  /\ writer \in Workers \cup {NoWorker}
  /\ pc \in [Workers -> PcValues]
  /\ operations \in [Workers -> Seq(Operation)]
  /\ history \in Seq(Table) /\ history # <<>>
  /\ crashes \in Nat

Newest == Len(history) - 1

\* A directory with these contents restores generation `newest`: from its
\* newest checkpoint on, the log has every later one.
Restores(log, listing, newest) ==
  \E c \in listing \cup {[generation |-> 0, table |-> Empty]} :
    /\ \A d \in listing : d.generation <= c.generation
    /\ \A g \in (c.generation + 1)..newest :
         \E i \in DOMAIN log : Whole(log[i]) /\ log[i].generation = g

\* At every moment, whatever a crash would leave in the directory is still a
\* source of truth for all that was published: optimize rotates the log "only
\* after the rename so a crash always leaves at least one source of truth",
\* and commit syncs the frame before it publishes.
SourceOfTruth ==
  \A kind \in CrashKinds :
    \A log \in WalImages(kind) :
      \A listing \in DirectoryImages(kind) : Restores(log, listing, Newest)

\* Whatever crashes came before, an open database serves exactly the newest
\* generation that was ever published, with the table it had then: recovery
\* loses no acknowledged commit, applies none twice, and invents none.
NothingPublishedIsLost ==
  phase = "ready" =>
    snapshot = [generation |-> Newest, table |-> history[Len(history)]]

\* The directory this process wrote can always be opened again: read_wal
\* tells the torn tail of an interrupted commit from corruption.
AlwaysOpens == phase # "corrupt"

\* Every thread that holds the writer mutex drops it, on each error path too.
LockIsReleased == writer # NoWorker ~> writer = NoWorker

\* A thread that asks for the mutex waits for a holder, never for nothing.
WaitersAdvance ==
  \A w \in Workers :
    pc[w] \in {"commitLock", "optimizeLock"} ~>
      \/ writer # NoWorker
      \/ pc[w] \notin {"commitLock", "optimizeLock"}

\* Database::open always ends: with a database or with an error.
OpenEnds == phase = "closed" ~> phase \in {"ready", "corrupt"}

=============================================================================
