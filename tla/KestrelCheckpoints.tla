-------------------------- MODULE KestrelCheckpoints --------------------------
(***************************************************************************)
(* The checkpoint files of src/src/storage.rs, one by one: how optimize    *)
(* writes, names and sweeps them, and how load_latest_checkpoint reads     *)
(* them, in whatever order the directory lists them, when some may have    *)
(* become unreadable.                                                      *)
(*                                                                         *)
(* KestrelStorage knows only which checkpoints a listing holds.  Here a    *)
(* checkpoint is a file with a name, segment-<generation>-<nonce>, an      *)
(* extension and a format, and KestrelStorage's checkpoints are what the   *)
(* readable files stand for.  Steps that touch no such file are            *)
(* KestrelStorage's own.                                                   *)
(*                                                                         *)
(* A damaged file is one that read_checkpoint rejects: by its length, its  *)
(* checksum, or what it decodes to (see KestrelCodec, KestrelSnapshot).    *)
(***************************************************************************)
EXTENDS Integers, Sequences, FiniteSets

CONSTANTS
  Rows, Docs, BadDoc, Absent, Workers, NoWorker, MaxOps, MaxFrames,
  MaxGeneration, PayloadSizes, MaxWalRecord, CrashKinds, MaxCrashes,
  Faults,              \* as in KestrelStorage
  MaxNonce,            \* stands for u64::MAX, behind which nonces start again
  LegacyTransactions,  \* what checkpoints of the first format may hold
  NoSnapshot,          \* None, before load_latest_checkpoint has read a file
  MaxFiles,            \* bound: files when an optimize creates one more
  MaxDamages           \* bound: files that become unreadable

ASSUME NonceAssumption == MaxNonce \in Nat \ {0}
ASSUME FilesAssumption == MaxFiles \in Nat /\ MaxDamages \in Nat

VARIABLES
  wal, durable, phase, cursor, snapshot, writer, pc, operations, history,
  crashes,  \* as in KestrelStorage
  files,    \* the files named segment-*
  nonce,    \* checkpoint_nonce
  stamp,    \* the nonce that the running optimize has taken, or 0
  unread,   \* candidates that load_latest_checkpoint has not read
  best,     \* the newest snapshot it has read
  failed,   \* it has met a file that it could not read
  damages   \* counts damaged files, for the bound

engineVars == <<wal, durable, phase, cursor, snapshot, writer, pc, operations,
                history, crashes>>
loadVars == <<unread, best, failed>>
vars == <<engineVars, files, nonce, stamp, loadVars, damages>>

-----------------------------------------------------------------------------
(* The files, and what KestrelStorage sees of them.                        *)

Nonces == 1..MaxNonce

Named(extension) == {f \in files : f.extension = extension}

Ground == [r \in Rows |-> Absent]

\* read_checkpoint of a readable file.  The first format is one transaction,
\* which is applied to the default snapshot; the others are a snapshot.
ReadCheckpoint(f) ==
  [generation |-> f.generation,
   table |-> IF f.format = "legacy"
             THEN [r \in Rows |-> IF r \in DOMAIN f.content THEN f.content[r]
                                  ELSE Absent]
             ELSE f.content]

Readable == {ReadCheckpoint(f) : f \in {g \in Named("kst") : g.whole}}

Engine == INSTANCE StorageRefinement WITH
  checkpoints <- Readable,
  onDisk <- Readable,
  JournaledDirectory <- TRUE

\* What KestrelStorage assumes of its constants.
ASSUME EngineAssumption ==
  /\ Absent \notin Docs /\ BadDoc \notin Docs \cup {Absent}
  /\ NoWorker \notin Workers
  /\ MaxOps \in Nat /\ MaxFrames \in Nat /\ MaxGeneration \in Nat
  /\ MaxWalRecord \in Nat /\ MaxCrashes \in Nat
  /\ PayloadSizes \subseteq Nat \ {0}
  /\ CrashKinds \subseteq {"process", "power"}
  /\ Faults \subseteq Engine!FaultKinds

ASSUME NoSnapshotAssumption == NoSnapshot \notin Engine!Snapshot

\* What a checkpoint of the first format decodes to was validated, and is the
\* first generation, of which u64 has more than one.
ASSUME LegacyAssumption ==
  /\ \A tx \in LegacyTransactions :
       \E S \in SUBSET Rows : tx \in [S -> Docs \cup {Absent}]
  /\ LegacyTransactions # {} => MaxGeneration > 0

\* A directory that an older version of the crate left.
Legacy(tx) ==
  [generation |-> 1, stamp |-> 0, extension |-> "kst", format |-> "legacy",
   content |-> tx, whole |-> TRUE]

Init ==
  /\ files \in {{}} \cup {{Legacy(tx)} : tx \in LegacyTransactions}
  /\ history = <<Ground>> \o
               [i \in 1..(IF files = {} THEN 0 ELSE 1) |->
                  (CHOOSE c \in Readable : TRUE).table]
  /\ wal = <<>> /\ durable = <<>>
  /\ phase = "closed" /\ cursor = 1
  /\ snapshot = [generation |-> 0, table |-> Ground]
  /\ writer = NoWorker
  /\ pc = [w \in Workers |-> "idle"]
  /\ operations = [w \in Workers |-> <<>>]
  /\ crashes = 0
  /\ nonce = 1 /\ stamp = 0
  /\ unread = {} /\ best = NoSnapshot /\ failed = FALSE
  /\ damages = 0

-----------------------------------------------------------------------------
(* Database::optimize.                                                     *)

\* The files that carry the name of the running optimize.
Own(extension) ==
  {f \in Named(extension) :
     f.generation = snapshot.generation /\ f.stamp = stamp}

\* fetch_add, which wraps.
TakeNonce == nonce' = (nonce % MaxNonce) + 1

\* Seeded fault: the file is created without create_new.
NeverTaken == FALSE

\* create_new would meet a file of that name.
Taken ==
  \E f \in Named("tmp") : f.generation = snapshot.generation /\ f.stamp = nonce

\* write_framed_file creates the .tmp file and writes it.
CreateTemp(w) ==
  /\ phase = "ready" /\ pc[w] = "temp" /\ stamp = 0
  /\ ~Taken
  /\ Cardinality(files) < MaxFiles
  /\ stamp' = nonce
  /\ TakeNonce
  /\ files' = files \cup
       {[generation |-> snapshot.generation, stamp |-> nonce,
         extension |-> "tmp", format |-> "native",
         content |-> snapshot.table, whole |-> FALSE]}
  /\ UNCHANGED <<engineVars, loadVars, damages>>

\* create_new meets a file that an interrupted optimize left, with the same
\* generation and nonce, and optimize returns the error.
TempExists(w) ==
  /\ stamp = 0
  /\ Taken
  /\ Engine!Return(w, "temp")
  /\ Engine!Unlock(w)
  /\ TakeNonce
  /\ UNCHANGED <<wal, durable, phase, cursor, snapshot, history, crashes, files,
                 stamp, loadVars, damages>>

\* write_all and sync_all are done.
WriteTemp(w) ==
  /\ stamp # 0
  /\ Engine!Step(w, "temp", "rename")
  /\ files' = (files \ Own("tmp")) \cup {[f EXCEPT !.whole = TRUE] : f \in Own("tmp")}
  /\ UNCHANGED <<wal, durable, phase, cursor, snapshot, writer, operations, history,
                 crashes, nonce, stamp, loadVars, damages>>

\* fs::rename replaces a checkpoint that has the name already.
Rename(w) ==
  /\ Engine!Step(w, "rename", "truncate")
  /\ files' = (files \ (Own("tmp") \cup Own("kst"))) \cup
              {[f EXCEPT !.extension = "kst"] : f \in Own("tmp")}
  /\ UNCHANGED <<wal, durable, phase, cursor, snapshot, writer, operations, history,
                 crashes, nonce, stamp, loadVars, damages>>

\* Seeded fault: the new checkpoint is removed with the others.
SweepAll == Named("kst")

\* What remove_old_checkpoints removes: every other checkpoint, readable or not.
Swept == Named("kst") \ Own("kst")

Sweep(w) ==
  /\ Engine!Step(w, "sweep", "sweep")
  /\ \E f \in Swept : files' = files \ {f}
  /\ UNCHANGED <<wal, durable, phase, cursor, snapshot, writer, operations, history,
                 crashes, nonce, stamp, loadVars, damages>>

OptimizeReturn(w) ==
  /\ Swept = {}
  /\ Engine!Return(w, "sweep")
  /\ Engine!Unlock(w)
  /\ stamp' = 0
  /\ UNCHANGED <<wal, durable, phase, cursor, snapshot, history, crashes, files,
                 nonce, loadVars, damages>>

\* A call to the operating system fails; the .tmp file, or what there is of
\* it, stays.  A nonce is taken before the file is created, but behind
\* encode_snapshot, which may fail too.
OptimizeFails(w) ==
  /\ \/ UNCHANGED nonce
     \/ stamp = 0 /\ pc[w] = "temp" /\ TakeNonce
  /\ stamp' = 0
  /\ UNCHANGED <<files, loadVars, damages>>
  /\ Engine!OptimizeFails(w)

-----------------------------------------------------------------------------
(* Database::open: load_latest_checkpoint.                                 *)

Loading == unread # {} \/ best # NoSnapshot \/ failed

\* Seeded fault: the candidate read last wins.
ReadCandidateLastWins ==
  /\ phase = "closed"
  /\ \E f \in IF Loading THEN unread ELSE Named("kst") :
       /\ unread' = (IF Loading THEN unread ELSE Named("kst")) \ {f}
       /\ best' = IF f.whole THEN ReadCheckpoint(f) ELSE best
       /\ failed' = (failed \/ ~f.whole)
  /\ UNCHANGED <<engineVars, files, nonce, stamp, damages>>

\* The directory is listed and the first candidate read, or the next one.
ReadCandidate ==
  /\ phase = "closed"
  /\ \E f \in IF Loading THEN unread ELSE Named("kst") :
       /\ unread' = (IF Loading THEN unread ELSE Named("kst")) \ {f}
       /\ IF f.whole
          THEN /\ best' = IF best = NoSnapshot \/ f.generation > best.generation
                          THEN ReadCheckpoint(f) ELSE best
               /\ UNCHANGED failed
          ELSE /\ failed' = TRUE
               /\ UNCHANGED best
  /\ UNCHANGED <<engineVars, files, nonce, stamp, damages>>

NothingUnread == IF Loading THEN unread = {} ELSE Named("kst") = {}

\* The newest snapshot, or the default one where there is no candidate.
LoadEnds ==
  /\ phase = "closed"
  /\ NothingUnread
  /\ best = NoSnapshot => ~failed
  /\ snapshot' = IF best = NoSnapshot THEN [generation |-> 0, table |-> Ground]
                 ELSE best
  /\ phase' = "scan" /\ cursor' = 1
  /\ best' = NoSnapshot /\ failed' = FALSE
  /\ UNCHANGED <<wal, durable, writer, pc, operations, history, crashes, files,
                 nonce, stamp, unread, damages>>

\* Candidates, and none of them readable: open fails.
LoadFails ==
  /\ phase = "closed"
  /\ NothingUnread
  /\ best = NoSnapshot /\ failed
  /\ phase' = "corrupt"
  /\ failed' = FALSE
  /\ UNCHANGED <<wal, durable, cursor, snapshot, writer, pc, operations, history,
                 crashes, files, nonce, stamp, unread, best, damages>>

\* open returns, with a nonce from the clock, which may stand still or go
\* back.  What is served is from now on the newest generation; a generation
\* that damage had hidden and a log brings back has no table of its own.
Serve ==
  /\ phase = "replay"
  /\ cursor > Len(wal)
  /\ phase' = "ready" /\ cursor' = 1
  /\ nonce' \in Nonces
  /\ history' = [g \in 1..(snapshot.generation + 1) |->
                   IF g \in DOMAIN history /\ g <= snapshot.generation
                   THEN history[g] ELSE snapshot.table]
  /\ UNCHANGED <<wal, durable, snapshot, writer, pc, operations, crashes, files,
                 stamp, loadVars, damages>>

-----------------------------------------------------------------------------
(* What happens to the files from outside.                                 *)

\* A checkpoint becomes unreadable.  Only open reads them, so that it is
\* enough to let this happen while the database is closed.
Damage ==
  /\ phase = "closed" /\ ~Loading
  /\ damages < MaxDamages
  /\ damages' = damages + 1
  /\ \E f \in Named("kst") :
       /\ f.whole
       /\ files' = (files \ {f}) \cup {[f EXCEPT !.whole = FALSE]}
  /\ UNCHANGED <<engineVars, nonce, stamp, loadVars>>

\* The process stops; a .tmp file that was not synced may vanish.
Crash(kind) ==
  /\ files' \in {files, Named("kst") \cup {f \in Named("tmp") : f.whole}}
  /\ stamp' = 0
  /\ unread' = {} /\ best' = NoSnapshot /\ failed' = FALSE
  /\ UNCHANGED <<nonce, damages>>
  /\ Engine!Crash(kind)

\* Steps that touch no checkpoint file.
EngineStep ==
  /\ UNCHANGED <<files, nonce, stamp, loadVars, damages>>
  /\ \/ Engine!ScanFrame \/ Engine!ScanEnds \/ Engine!ScanFails
     \/ Engine!ReplayFrame
     \/ \E w \in Workers :
          \/ Engine!Calls(w) \/ Engine!CommitSteps(w)
          \/ Engine!LockOptimize(w) \/ Engine!Truncate(w) \/ Engine!SwapCompacted(w)

OptimizeSteps(w) ==
  \/ CreateTemp(w) \/ TempExists(w) \/ WriteTemp(w) \/ Rename(w)
  \/ Sweep(w) \/ OptimizeReturn(w) \/ OptimizeFails(w)

Open == ReadCandidate \/ LoadEnds \/ LoadFails \/ Serve

Next ==
  \/ EngineStep
  \/ Open
  \/ \E w \in Workers : OptimizeSteps(w)
  \/ Damage
  \/ \E kind \in CrashKinds : Crash(kind)

Spec == Init /\ [][Next]_vars

-----------------------------------------------------------------------------
(* Properties.                                                             *)

FileNames == [generation : 0..MaxGeneration, stamp : 0..MaxNonce,
              extension : {"tmp", "kst"}]

NameOf(f) == [generation |-> f.generation, stamp |-> f.stamp,
              extension |-> f.extension]

\* The type invariant; no two files have one name.
TypeOK ==
  /\ \A f \in files :
       /\ NameOf(f) \in FileNames
       /\ f.whole \in BOOLEAN
       /\ f.format = "native" => f.content \in Engine!Table
       /\ \A g \in files : NameOf(f) = NameOf(g) => f = g
  /\ nonce \in Nonces
  /\ stamp \in 0..MaxNonce
  /\ unread \subseteq Named("kst")
  /\ best \in Engine!Snapshot \cup {NoSnapshot}
  /\ failed \in BOOLEAN
  /\ damages \in 0..MaxDamages

\* In whatever order the directory lists its files, open starts from the
\* newest one that is readable, and it never takes a directory whose files
\* are all unreadable for an empty one: the test
\* database_rejects_a_directory_with_only_a_corrupt_checkpoint has a document
\* that says "do not silently lose this".
LoadsNewestReadable ==
  phase = "scan" =>
    \/ Named("kst") = {} /\ snapshot = [generation |-> 0, table |-> Ground]
    \/ snapshot \in Readable /\ \A c \in Readable : c.generation <= snapshot.generation

\* Damage to a checkpoint costs nothing as long as an older readable one and
\* the log together still hold every published generation.
CoveredDamageIsHarmless ==
  /\ phase = "replay"
  /\ cursor > Len(wal)
  /\ Engine!Restores(wal, Readable, Engine!Newest)
  => /\ snapshot.generation >= Engine!Newest
     /\ snapshot.generation = Engine!Newest => snapshot.table = history[Len(history)]

\* As long as no file was damaged, the files do what KestrelStorage says of
\* its checkpoints, whatever .tmp files were left and whichever names repeat:
\* each step is one of its steps, the reading of all candidates being its
\* LoadCheckpoint, or changes nothing it knows of.
ImplementsEngine ==
  [][damages' = 0 => Engine!Next \/ UNCHANGED Engine!vars]_vars

\* The same for the abstract store: a transaction that names several rows,
\* some of them twice, is carried out whole across optimize and recovery.
ImplementsStoreSteps ==
  [][damages' = 0 => Engine!Store!Next \/ UNCHANGED Engine!Store!storeVars]_vars

=============================================================================
