------------------------ MODULE KestrelCheckpointsProofs ------------------------
(***************************************************************************)
(* Type correctness of KestrelCheckpoints, what load_latest_checkpoint     *)
(* returns, that checkpoint files implement KestrelStorage and the         *)
(* abstract store, and that damage to a checkpoint costs nothing that an   *)
(* older one and the log still hold.  The theorems of KestrelStorageProofs *)
(* are used as Storage!..., with what the readable files stand for as      *)
(* checkpoints.                                                            *)
(***************************************************************************)
EXTENDS KestrelCheckpoints, SequenceTheorems, TLAPS

Storage == INSTANCE KestrelStorageProofs WITH
  checkpoints <- Readable,
  onDisk <- Readable,
  JournaledDirectory <- TRUE

-----------------------------------------------------------------------------
(* The inductive invariant.                                                *)

File ==
  [generation : 0..MaxGeneration, stamp : 0..MaxNonce,
   extension : {"tmp", "kst"}, format : {"native", "legacy"},
   content : Engine!Table \cup LegacyTransactions, whole : BOOLEAN]

\* Files have the form that their format demands, and names of their own.
Filed ==
  \A f \in files :
    /\ f \in File
    /\ f.format = "native" => f.content \in Engine!Table /\ f.stamp # 0
    /\ f.format = "legacy" =>
         f.content \in LegacyTransactions /\ f.stamp = 0 /\ f.extension = "kst"
    /\ \A g \in files : NameOf(f) = NameOf(g) => f = g

\* A file with this extension that has the name of the running optimize, and
\* holds what it compacted.
Compacted(extension) ==
  \E f \in Own(extension) : f.whole /\ f.content = snapshot.table

\* A nonce is taken for as long as an optimize runs, and no longer.
Stamped ==
  /\ nonce \in Nonces /\ stamp \in 0..MaxNonce
  /\ stamp # 0 => \E w \in Workers : pc[w] \in Engine!InOptimize
  /\ \A w \in Workers :
       /\ pc[w] \in Engine!InOptimize \ {"temp"} => stamp # 0
       /\ pc[w] = "temp" /\ stamp # 0 =>
            \E f \in Own("tmp") : f.content = snapshot.table
       /\ pc[w] = "rename" => Compacted("tmp")
       /\ pc[w] \in {"truncate", "truncateSync", "sweep"} => Compacted("kst")

\* What load_latest_checkpoint knows of the candidates it has read.
Loaded ==
  /\ unread \subseteq Named("kst")
  /\ best \in Engine!Snapshot \cup {NoSnapshot}
  /\ failed \in BOOLEAN
  /\ Loading => phase = "closed"
  /\ Loading =>
       /\ failed <=> \E f \in Named("kst") \ unread : ~f.whole
       /\ best = NoSnapshot => \A f \in Named("kst") \ unread : ~f.whole
       /\ best # NoSnapshot => best \in Readable
       /\ best # NoSnapshot =>
            \A f \in Named("kst") \ unread : f.whole => f.generation <= best.generation

\* What KestrelStorage knows of its types, mutex and generations.
Sound == Storage!TypeInv /\ Storage!Exclusive /\ Storage!Bounded

FInv ==
  /\ Sound
  /\ Filed /\ Stamped /\ Loaded /\ LoadsNewestReadable
  /\ damages \in 0..MaxDamages

\* As long as no file was damaged, and in a benign environment.
Undamaged ==
  damages = 0 => Storage!RInv /\ \A f \in Named("kst") : f.whole

-----------------------------------------------------------------------------
(* Names.                                                                  *)

\* Engine!... and Storage!... are the same definitions.
LEMMA SameEngine ==
  /\ Engine!Next <=> Storage!Next
  /\ UNCHANGED Engine!vars <=> UNCHANGED Storage!vars
BY DEF Engine!HeaderUnits, Storage!HeaderUnits, Engine!diskVars,
       Storage!diskVars, Engine!openVars, Storage!openVars, Engine!threadVars,
       Storage!threadVars, Engine!vars, Storage!vars, Engine!Operation,
       Storage!Operation, Engine!Table, Storage!Table, Engine!Empty,
       Storage!Empty, Engine!Touched, Storage!Touched, Engine!LastOn,
       Storage!LastOn, Engine!Canonicalize, Storage!Canonicalize,
       Engine!Valid, Storage!Valid, Engine!Apply, Storage!Apply, Engine!Whole,
       Storage!Whole, Engine!EndOf, Storage!EndOf, Engine!FileLength,
       Storage!FileLength, Engine!PreviousGeneration,
       Storage!PreviousGeneration, Engine!Decodable, Storage!Decodable,
       Engine!Verdict, Storage!Verdict, Engine!Damaged, Storage!Damaged,
       Engine!Agreed, Storage!Agreed, Engine!Kept, Storage!Kept,
       Engine!WalImages, Storage!WalImages, Engine!DirectoryImages,
       Storage!DirectoryImages, Engine!WriteBack, Storage!WriteBack,
       Engine!InOptimize, Storage!InOptimize, Engine!Step, Storage!Step,
       Engine!Return, Storage!Return, Engine!Unlock, Storage!Unlock,
       Engine!Begin, Storage!Begin, Engine!Push, Storage!Push,
       Engine!Rollback, Storage!Rollback, Engine!CommitCall,
       Storage!CommitCall, Engine!LockCommit, Storage!LockCommit,
       Engine!ExhaustedCommit, Storage!ExhaustedCommit, Engine!NewFrame,
       Storage!NewFrame, Engine!AppendPart, Storage!AppendPart,
       Engine!AppendRest, Storage!AppendRest, Engine!AppendFails,
       Storage!AppendFails, Engine!SyncWal, Storage!SyncWal, Engine!SyncFails,
       Storage!SyncFails, Engine!Publish, Storage!Publish,
       Engine!CommitReturn, Storage!CommitReturn, Engine!OptimizeCall,
       Storage!OptimizeCall, Engine!LockOptimize, Storage!LockOptimize,
       Engine!WriteTemp, Storage!WriteTemp, Engine!Rename, Storage!Rename,
       Engine!Truncate, Storage!Truncate, Engine!SwapCompacted,
       Storage!SwapCompacted, Engine!Sweep, Storage!Sweep,
       Engine!OptimizeReturn, Storage!OptimizeReturn, Engine!OptimizeFails,
       Storage!OptimizeFails, Engine!LoadCheckpoint, Storage!LoadCheckpoint,
       Engine!ScanFrame, Storage!ScanFrame, Engine!ScanEnds, Storage!ScanEnds,
       Engine!ScanFails, Storage!ScanFails, Engine!Replayed, Storage!Replayed,
       Engine!ReplayFrame, Storage!ReplayFrame, Engine!Serve, Storage!Serve,
       Engine!Crash, Storage!Crash, Engine!Open, Storage!Open,
       Engine!CommitSteps, Storage!CommitSteps, Engine!OptimizeSteps,
       Storage!OptimizeSteps, Engine!Calls, Storage!Calls, Engine!Next,
       Storage!Next

\* Both instances have one set of tables and of snapshots.
LEMMA SameTables ==
  /\ Engine!Table = Storage!Table /\ Engine!Snapshot = Storage!Snapshot
  /\ Engine!Empty = Storage!Empty /\ Ground = Storage!Empty
  /\ Engine!Newest = Storage!Newest
  /\ Engine!InOptimize = Storage!InOptimize
BY DEF Engine!Table, Storage!Table, Engine!Snapshot, Storage!Snapshot, Ground,
       Engine!Empty, Storage!Empty, Engine!Newest, Storage!Newest,
       Engine!InOptimize, Storage!InOptimize

\* What the theorems of Storage assume.
LEMMA Assumptions ==
  /\ Absent \notin Docs /\ BadDoc \notin Docs \cup {Absent}
  /\ NoWorker \notin Workers
  /\ MaxOps \in Nat /\ MaxFrames \in Nat /\ MaxGeneration \in Nat
  /\ MaxWalRecord \in Nat /\ MaxCrashes \in Nat
  /\ PayloadSizes \subseteq Nat \ {0}
  /\ CrashKinds \subseteq {"process", "power"}
  /\ Faults \subseteq Storage!FaultKinds
BY EngineAssumption DEF Engine!FaultKinds, Storage!FaultKinds

\* The types of the engine's variables.
LEMMA Types ==
  ASSUME Storage!TypeInv
  PROVE  /\ pc \in [Workers -> Storage!PcValues]
         /\ phase \in {"closed", "scan", "replay", "ready", "corrupt"}
         /\ snapshot \in Engine!Snapshot /\ snapshot.generation \in Nat
         /\ snapshot.table \in Engine!Table
         /\ snapshot = [generation |-> snapshot.generation, table |-> snapshot.table]
BY SameTables DEF Storage!TypeInv, Storage!TypeOK, Storage!Snapshot, Engine!Snapshot

-----------------------------------------------------------------------------
(* Files.                                                                  *)

\* A readable checkpoint is a snapshot of a generation that u64 has.
LEMMA ReadType ==
  ASSUME NEW f \in File,
         f.format = "native" => f.content \in Engine!Table,
         f.format = "legacy" => f.content \in LegacyTransactions
  PROVE  /\ ReadCheckpoint(f) \in Engine!Snapshot
         /\ ReadCheckpoint(f).generation = f.generation
         /\ f.generation \in Nat /\ f.generation <= MaxGeneration
<1>1. /\ f.generation \in Nat /\ f.generation <= MaxGeneration
      /\ f.format \in {"native", "legacy"}
  BY Assumptions DEF File
<1>2. CASE f.format = "native"
  BY <1>1, <1>2 DEF ReadCheckpoint, Engine!Snapshot
<1>3. CASE f.format = "legacy"
  <2>1. PICK S \in SUBSET Rows : f.content \in [S -> Docs \cup {Absent}]
    BY <1>3, LegacyAssumption
  <2>2. [r \in Rows |-> IF r \in DOMAIN f.content THEN f.content[r] ELSE Absent]
          \in Engine!Table
    BY <2>1 DEF Engine!Table
  <2> QED BY <1>1, <1>3, <2>2 DEF ReadCheckpoint, Engine!Snapshot
<1> QED BY <1>1, <1>2, <1>3

\* What read_checkpoint returns is a snapshot with a generation that fits.
LEMMA ReadableType ==
  Filed => /\ Readable \in SUBSET Engine!Snapshot
           /\ \A c \in Readable : c.generation <= MaxGeneration
BY ReadType DEF Filed, Readable, Named

\* Two files with one name are one file.
LEMMA OwnIsOne ==
  ASSUME Filed, NEW extension, NEW f \in Own(extension), NEW g \in Own(extension)
  PROVE  f = g
BY DEF Filed, Own, Named, NameOf

\* The checkpoint that an optimize writes reads as the published snapshot.
LEMMA OwnIsSnapshot ==
  ASSUME Storage!TypeInv, Filed, stamp # 0, NEW extension, NEW f \in Own(extension),
         f.content = snapshot.table
  PROVE  f.format = "native" /\ ReadCheckpoint(f) = snapshot
<1>1. f \in files /\ f.generation = snapshot.generation /\ f.stamp = stamp
  BY DEF Own, Named
<1>2. f.format = "native"
  BY <1>1 DEF Filed, File
<1> QED BY <1>1, <1>2, Types DEF ReadCheckpoint

-----------------------------------------------------------------------------
(* Steps of KestrelStorage.                                                *)

\* What can be read depends on the files named .kst alone.
LEMMA ListingStays ==
  ASSUME Named("kst")' = Named("kst")
  PROVE  Readable' = Readable
BY DEF Readable, ReadCheckpoint

\* The steps that touch no checkpoint.
LEMMA EngineStepMaps ==
  ASSUME EngineStep
  PROVE  Engine!Next /\ Readable' = Readable /\ phase # "closed"
<1>1. Readable' = Readable
  BY ListingStays DEF EngineStep, Named
<1>2. CASE Engine!ScanFrame \/ Engine!ScanEnds \/ Engine!ScanFails \/ Engine!ReplayFrame
  BY <1>1, <1>2 DEF Engine!Next, Engine!Open, Engine!ScanFrame, Engine!ScanEnds,
                    Engine!ScanFails, Engine!ReplayFrame
<1>3. ASSUME NEW w \in Workers, Engine!Calls(w) PROVE Engine!Next /\ phase # "closed"
  BY <1>3 DEF Engine!Next, Engine!Calls, Engine!Begin, Engine!Push, Engine!Rollback,
              Engine!CommitCall, Engine!OptimizeCall, Engine!Return, Engine!Step
<1>4. ASSUME NEW w \in Workers, Engine!CommitSteps(w)
      PROVE  Engine!Next /\ phase # "closed"
  BY <1>4 DEF Engine!Next, Engine!CommitSteps, Engine!LockCommit,
              Engine!ExhaustedCommit, Engine!AppendPart, Engine!AppendRest,
              Engine!AppendFails, Engine!SyncWal, Engine!SyncFails, Engine!Publish,
              Engine!CommitReturn, Engine!Return, Engine!Step
<1>5. ASSUME NEW w \in Workers,
             Engine!LockOptimize(w) \/ Engine!Truncate(w) \/ Engine!SwapCompacted(w)
      PROVE  Engine!Next /\ phase # "closed"
  BY <1>5 DEF Engine!Next, Engine!OptimizeSteps, Engine!LockOptimize,
              Engine!Truncate, Engine!SwapCompacted, Engine!Step
<1> QED BY <1>1, <1>2, <1>3, <1>4, <1>5 DEF EngineStep

\* A .tmp file is no checkpoint.
LEMMA CreateTempMaps ==
  ASSUME NEW w \in Workers, CreateTemp(w)
  PROVE  UNCHANGED engineVars /\ Named("kst")' = Named("kst") /\ Readable' = Readable
<1>1. Named("kst")' = Named("kst")
  BY DEF CreateTemp, Named
<1> QED BY <1>1, ListingStays DEF CreateTemp

\* write_checkpoint_data fills the temporary file, which open does not read.
LEMMA WriteTempMaps ==
  ASSUME Filed, NEW w \in Workers, WriteTemp(w)
  PROVE  Engine!Next /\ Named("kst")' = Named("kst") /\ Readable' = Readable
<1>1. /\ \A f \in Own("tmp") : f.extension = "tmp"
      /\ \A f \in Own("tmp") : [f EXCEPT !.whole = TRUE].extension = "tmp"
  BY DEF Own, Named, Filed, File
<1>2. Named("kst")' = Named("kst")
  BY <1>1 DEF WriteTemp, Named
<1>3. Readable' = Readable
  BY <1>2, ListingStays
<1>4. Engine!WriteTemp(w)
  BY <1>3 DEF WriteTemp, Engine!WriteTemp, Engine!diskVars, Engine!openVars
<1> QED BY <1>2, <1>3, <1>4 DEF Engine!Next, Engine!OptimizeSteps

\* The sweep removes a checkpoint, or a file that nothing is known of.
LEMMA SweepMaps ==
  ASSUME FInv, NEW w \in Workers, Sweep(w)
  PROVE  Engine!Next \/ UNCHANGED Engine!vars
<1>1. /\ Storage!TypeInv /\ Filed /\ pc[w] = "sweep"
      /\ UNCHANGED <<wal, durable, phase, cursor, snapshot, writer, operations, history,
                     crashes>>
      /\ Engine!Step(w, "sweep", "sweep")
  BY DEF FInv, Sound, Sweep, Engine!Step
<1>2. pc' = pc
  BY <1>1, Types DEF Engine!Step
<1>3. PICK f \in Swept : files' = files \ {f}
  BY DEF Sweep
<1>4. PICK own \in Own("kst") : own.whole /\ own.content = snapshot.table
  BY <1>1 DEF FInv, Sound, Stamped, Compacted
<1>5. stamp # 0
  BY <1>1 DEF FInv, Sound, Stamped, Engine!InOptimize
<1>6. ReadCheckpoint(own) = snapshot /\ own # f /\ own \in Named("kst")
  BY <1>1, <1>3, <1>4, <1>5, OwnIsSnapshot DEF Swept, Own
<1>7. Named("kst")' = Named("kst") \ {f}
  BY <1>3 DEF Named
<1>8. Readable' = {ReadCheckpoint(g) : g \in {h \in Named("kst") : h # f /\ h.whole}}
  BY <1>7 DEF Readable, ReadCheckpoint
<1>9. CASE Readable' = Readable
  BY <1>1, <1>2, <1>9 DEF Engine!vars
<1>10. CASE Readable' # Readable
  <2>1. f \in Named("kst") /\ f.whole /\ Readable' = Readable \ {ReadCheckpoint(f)}
    BY <1>8, <1>10, <1>3 DEF Readable, Swept
  <2>2. ReadCheckpoint(f) \in Readable \ {snapshot}
    BY <1>4, <1>6, <1>8, <2>1 DEF Readable
  <2>3. Engine!Sweep(w)
    BY <1>1, <2>1, <2>2 DEF Engine!Sweep, Engine!WriteBack, Engine!openVars
  <2> QED BY <2>3 DEF Engine!Next, Engine!OptimizeSteps
<1> QED BY <1>9, <1>10

\* optimize returns with its own checkpoint as the only one, which is what the
\* engine keeps.
LEMMA OptimizeReturnMaps ==
  ASSUME FInv, NEW w \in Workers, OptimizeReturn(w)
  PROVE  Engine!Next
<1>1. /\ Storage!TypeInv /\ Filed /\ pc[w] = "sweep" /\ files' = files
  BY DEF FInv, Sound, OptimizeReturn, Engine!Return, Engine!Step
<1>2. PICK own \in Own("kst") : own.whole /\ own.content = snapshot.table
  BY <1>1 DEF FInv, Sound, Stamped, Compacted
<1>3. stamp # 0
  BY <1>1 DEF FInv, Sound, Stamped, Engine!InOptimize
<1>4. ReadCheckpoint(own) = snapshot
  BY <1>1, <1>2, <1>3, OwnIsSnapshot
<1>5. \A f \in Named("kst") : f = own
  BY <1>1, <1>2, OwnIsOne DEF OptimizeReturn, Swept
<1>6. Readable \subseteq {snapshot}
  BY <1>4, <1>5 DEF Readable
<1>7. Readable' = Readable
  BY <1>1, ListingStays DEF Named
<1>8. Engine!OptimizeReturn(w)
  BY <1>6, <1>7 DEF OptimizeReturn, Engine!OptimizeReturn, Engine!diskVars,
                    Engine!openVars
<1> QED BY <1>8 DEF Engine!Next, Engine!OptimizeSteps

\* A failed optimize is the engine's.
LEMMA OptimizeFailsMaps ==
  ASSUME NEW w \in Workers, OptimizeFails(w)
  PROVE  Engine!Next
BY DEF OptimizeFails, Engine!Next, Engine!OptimizeSteps

\* A crash is the engine's, and loses at most temporary files.
LEMMA CrashMaps ==
  ASSUME NEW kind \in CrashKinds, Crash(kind)
  PROVE  Engine!Next /\ Named("kst")' = Named("kst") /\ files' \subseteq files
<1>1. Engine!Next
  BY DEF Crash, Engine!Next
<1> QED BY <1>1 DEF Crash, Named

-----------------------------------------------------------------------------
(* Loading.                                                                *)

\* In whatever order the candidates were read, what is loaded is one of the
\* newest that are readable, or the default snapshot where there is none.
LEMMA LoadEndsMaps ==
  ASSUME FInv, LoadEnds
  PROVE  /\ Engine!LoadCheckpoint /\ Readable' = Readable
         /\ LoadsNewestReadable'
         /\ snapshot' \in Engine!Snapshot /\ snapshot'.generation <= MaxGeneration
<1>1. /\ Filed /\ Loaded /\ files' = files /\ Readable' = Readable
      /\ phase' = "scan" /\ phase = "closed"
  BY ListingStays DEF FInv, Sound, LoadEnds, Named
<1>2. /\ Readable \in SUBSET Engine!Snapshot
      /\ \A c \in Readable : c.generation <= MaxGeneration
  BY <1>1, ReadableType
<1>3. CASE best = NoSnapshot
  <2>1. Named("kst") = {}
    BY <1>3 DEF LoadEnds, NothingUnread, Loading
  <2>2. Readable = {} /\ snapshot' = [generation |-> 0, table |-> Ground]
    BY <1>3, <2>1 DEF LoadEnds, Readable
  <2>3. Named("kst")' = {}
    BY <1>1, <2>1 DEF Named
  <2>4. LoadsNewestReadable'
    BY <2>2, <2>3 DEF LoadsNewestReadable, Ground
  <2>5. snapshot' \in Engine!Snapshot /\ snapshot'.generation <= MaxGeneration
    BY <2>2, Assumptions DEF Engine!Snapshot, Engine!Table, Ground
  <2>6. Engine!LoadCheckpoint
    BY <1>1, <2>2 DEF LoadEnds, Engine!LoadCheckpoint, Engine!Empty, Ground,
                      Engine!diskVars, Engine!threadVars
  <2> QED BY <1>1, <2>4, <2>5, <2>6
<1>4. CASE best # NoSnapshot
  <2>1. Loading /\ unread = {} /\ snapshot' = best
    BY <1>4 DEF LoadEnds, NothingUnread, Loading
  <2>2. /\ best \in Readable
        /\ \A f \in Named("kst") : f.whole => f.generation <= best.generation
    BY <1>1, <1>4, <2>1 DEF Loaded
  <2>3. ASSUME NEW c \in Readable PROVE c.generation <= best.generation
    <3>1. PICK f \in Named("kst") : f.whole /\ c = ReadCheckpoint(f)
      BY DEF Readable
    <3>2. c.generation = f.generation
      BY <3>1 DEF ReadCheckpoint
    <3> QED BY <2>2, <3>1, <3>2
  <2>4. LoadsNewestReadable'
    BY <1>1, <2>1, <2>2, <2>3 DEF LoadsNewestReadable
  <2>5. Engine!LoadCheckpoint
    BY <1>1, <2>1, <2>2, <2>3 DEF LoadEnds, Engine!LoadCheckpoint,
                                  Engine!diskVars, Engine!threadVars
  <2> QED BY <1>1, <1>2, <2>1, <2>2, <2>4, <2>5
<1> QED BY <1>3, <1>4

\* Reading a candidate keeps what is known of those that were read.
LEMMA ReadCandidateLoads ==
  ASSUME FInv, ReadCandidate
  PROVE  Loaded'
<1>1. /\ Filed /\ Loaded /\ phase = "closed"
      /\ UNCHANGED <<engineVars, files>>
  BY DEF FInv, Sound, ReadCandidate
<1> DEFINE Candidates == IF Loading THEN unread ELSE Named("kst")
           Before     == Named("kst") \ Candidates
<1>2. PICK f \in Candidates :
        /\ unread' = Candidates \ {f}
        /\ IF f.whole
           THEN /\ best' = IF best = NoSnapshot \/ f.generation > best.generation
                           THEN ReadCheckpoint(f) ELSE best
                /\ failed' = failed
           ELSE failed' = TRUE /\ best' = best
  BY DEF ReadCandidate
<1>3. /\ Candidates \subseteq Named("kst") /\ f \in Named("kst")
      /\ Named("kst")' = Named("kst") /\ Readable' = Readable
      /\ Named("kst") \ unread' = Before \cup {f}
  BY <1>1, <1>2, ListingStays DEF Loaded, Named
\* Before the first candidate nothing was read.
<1>4. /\ failed \in BOOLEAN /\ best \in Engine!Snapshot \cup {NoSnapshot}
      /\ failed <=> \E g \in Before : ~g.whole
      /\ best = NoSnapshot => \A g \in Before : ~g.whole
      /\ best # NoSnapshot => best \in Readable
      /\ best # NoSnapshot => \A g \in Before : g.whole => g.generation <= best.generation
  <2>1. CASE Loading
    BY <1>1, <2>1 DEF Loaded
  <2>2. CASE ~Loading
    BY <1>1, <2>2 DEF Loaded, Loading
  <2> QED BY <2>1, <2>2
<1>5. /\ Readable \in SUBSET Engine!Snapshot
      /\ \A g \in Named("kst") : g.generation \in Nat
      /\ ReadCheckpoint(f).generation = f.generation
  <2>1. \A g \in Named("kst") : g.generation \in Nat
    BY <1>1, Assumptions DEF Filed, File, Named
  <2> QED BY <1>1, <2>1, ReadableType DEF ReadCheckpoint
<1> HIDE DEF Candidates, Before
<1>6. CASE f.whole
  <2>1. ReadCheckpoint(f) \in Readable /\ ReadCheckpoint(f) # NoSnapshot
    <3>1. ReadCheckpoint(f) \in Readable
      BY <1>3, <1>6 DEF Readable
    <3> QED BY <3>1, <1>5, NoSnapshotAssumption
  <2>2. best' \in Readable /\ best' # NoSnapshot /\ failed' = failed
    BY <1>2, <1>4, <1>6, <2>1
  <2>3. \A g \in Before \cup {f} : g.whole => g.generation <= best'.generation
    <3>1. CASE best = NoSnapshot
      BY <1>2, <1>3, <1>4, <1>5, <1>6, <3>1
    <3>2. CASE best # NoSnapshot
      <4>1. /\ best.generation \in Nat /\ f.generation \in Nat
            /\ best' = IF f.generation > best.generation
                       THEN ReadCheckpoint(f) ELSE best
        BY <1>2, <1>3, <1>4, <1>5, <1>6, <3>2 DEF Engine!Snapshot
      <4>2. \A g \in Before : g.generation \in Nat
        BY <1>5 DEF Before
      <4> QED BY <1>4, <1>5, <3>2, <4>1, <4>2
    <3> QED BY <3>1, <3>2
  <2>4. failed' <=> \E g \in Before \cup {f} : ~g.whole
    BY <1>4, <1>6, <2>2
  <2> QED BY <1>1, <1>2, <1>3, <1>4, <1>5, <2>2, <2>3, <2>4 DEF Loaded, engineVars
<1>7. CASE ~f.whole
  <2>1. failed' = TRUE /\ best' = best
    BY <1>2, <1>7
  <2> QED BY <1>1, <1>2, <1>3, <1>4, <1>5, <1>7, <2>1 DEF Loaded, engineVars
<1> QED BY <1>6, <1>7

-----------------------------------------------------------------------------
(* The invariant.                                                          *)

\* A file with another state, or with another extension.
LEMMA FileWith ==
  ASSUME NEW f \in File, NEW whole \in BOOLEAN, NEW extension \in {"tmp", "kst"}
  PROVE  /\ [f EXCEPT !.whole = whole] \in File
         /\ NameOf([f EXCEPT !.whole = whole]) = NameOf(f)
         /\ [f EXCEPT !.whole = whole].format = f.format
         /\ [f EXCEPT !.whole = whole].content = f.content
         /\ [f EXCEPT !.whole = whole].stamp = f.stamp
         /\ [f EXCEPT !.whole = whole].extension = f.extension
         /\ [f EXCEPT !.whole = whole].whole = whole
         /\ [f EXCEPT !.extension = extension] \in File
         /\ [f EXCEPT !.extension = extension].format = f.format
         /\ [f EXCEPT !.extension = extension].content = f.content
         /\ [f EXCEPT !.extension = extension].generation = f.generation
         /\ [f EXCEPT !.extension = extension].stamp = f.stamp
         /\ [f EXCEPT !.extension = extension].whole = f.whole
         /\ [f EXCEPT !.extension = extension].extension = extension
BY DEF File, NameOf

\* Every step writes files of the right form, with names of their own.
LEMMA FiledStep ==
  ASSUME FInv, [Next]_vars
  PROVE  Filed'
<1>1. /\ Storage!TypeInv /\ Storage!Bounded /\ Filed /\ Stamped
      /\ nonce \in Nonces /\ stamp \in 0..MaxNonce /\ MaxNonce \in Nat \ {0}
      /\ snapshot.table \in Engine!Table
      /\ snapshot.generation \in 0..MaxGeneration
  BY Types, Assumptions, NonceAssumption DEF FInv, Sound, Stamped, Storage!Bounded
\* A step that adds no file and changes none.
<1>2. ASSUME files' \subseteq files PROVE Filed'
  BY <1>1, <1>2 DEF Filed, NameOf
<1>3. ASSUME NEW w \in Workers, CreateTemp(w) PROVE Filed'
  <2> DEFINE new == [generation |-> snapshot.generation, stamp |-> nonce,
                     extension |-> "tmp", format |-> "native",
                     content |-> snapshot.table, whole |-> FALSE]
  <2>1. files' = files \cup {new}
    BY <1>3 DEF CreateTemp
  <2>2. new \in File /\ nonce # 0
    BY <1>1 DEF File, Nonces
  <2>3. \A g \in files : NameOf(g) # NameOf(new)
    BY <1>1, <1>3 DEF CreateTemp, Taken, Named, NameOf, Filed, File
  <2>4. /\ new.format = "native" /\ new.content \in Engine!Table /\ new.stamp = nonce
    BY <1>1
  <2> HIDE DEF new
  <2> QED BY <1>1, <2>1, <2>2, <2>3, <2>4 DEF Filed, NameOf
<1>4. ASSUME NEW w \in Workers, WriteTemp(w) PROVE Filed'
  <2> DEFINE Written(f) == [f EXCEPT !.whole = TRUE]
  <2>1. files' = (files \ Own("tmp")) \cup {Written(f) : f \in Own("tmp")}
    BY <1>4 DEF WriteTemp
  <2>2. ASSUME NEW f \in Own("tmp")
        PROVE  /\ Written(f) \in File /\ NameOf(Written(f)) = NameOf(f)
               /\ Written(f).format = f.format /\ Written(f).content = f.content
               /\ Written(f).stamp = f.stamp /\ Written(f).extension = f.extension
               /\ f \in files
    <3>1. f \in files /\ f \in File
      BY <1>1 DEF Filed, Own, Named
    <3> QED BY <3>1, FileWith
  <2>3. \A f, g \in Own("tmp") : f = g
    BY <1>1, OwnIsOne
  <2> HIDE DEF Written
  <2>4. \A f \in Own("tmp") : \A g \in files \ Own("tmp") : NameOf(f) # NameOf(g)
    BY <1>1, <2>2 DEF Filed
  <2> QED BY <1>1, <2>1, <2>2, <2>3, <2>4 DEF Filed
<1>5. ASSUME NEW w \in Workers, Rename(w) PROVE Filed'
  <2> DEFINE Renamed(f) == [f EXCEPT !.extension = "kst"]
  <2>1. files' = (files \ (Own("tmp") \cup Own("kst"))) \cup {Renamed(f) : f \in Own("tmp")}
    BY <1>5 DEF Rename
  <2>2. ASSUME NEW f \in Own("tmp")
        PROVE  /\ Renamed(f) \in File
               /\ NameOf(Renamed(f)) = [generation |-> snapshot.generation,
                                        stamp |-> stamp, extension |-> "kst"]
               /\ Renamed(f).format = f.format /\ Renamed(f).content = f.content
               /\ Renamed(f).stamp = f.stamp /\ Renamed(f).extension = "kst"
               /\ f \in files
    <3>1. /\ f \in files /\ f \in File
          /\ f.generation = snapshot.generation /\ f.stamp = stamp
      BY <1>1 DEF Filed, Own, Named
    <3> QED BY <3>1, FileWith DEF NameOf
  <2>3. \A f, g \in Own("tmp") : f = g
    BY <1>1, OwnIsOne
  <2>4. \A g \in files \ Own("kst") :
          NameOf(g) # [generation |-> snapshot.generation,
                       stamp |-> stamp, extension |-> "kst"]
    BY <1>1 DEF Filed, File, Own, Named, NameOf
  <2> HIDE DEF Renamed
  <2> QED BY <1>1, <2>1, <2>2, <2>3, <2>4 DEF Filed
<1>6. CASE Damage
  <2>1. PICK f \in Named("kst") :
          files' = (files \ {f}) \cup {[f EXCEPT !.whole = FALSE]}
    BY <1>6 DEF Damage
  <2> DEFINE hurt == [f EXCEPT !.whole = FALSE]
  <2>2. /\ hurt \in File /\ NameOf(hurt) = NameOf(f) /\ f \in files
        /\ hurt.format = f.format /\ hurt.content = f.content
        /\ hurt.stamp = f.stamp /\ hurt.extension = f.extension
    BY <1>1, <2>1, FileWith DEF Filed, Named
  <2>3. files' = (files \ {f}) \cup {hurt}
    BY <2>1
  <2>4. \A g \in files \ {f} : NameOf(g) # NameOf(hurt)
    BY <1>1, <2>2 DEF Filed
  <2> HIDE DEF hurt
  <2> QED BY <1>1, <2>2, <2>3, <2>4 DEF Filed
<1>7. ASSUME NEW w \in Workers,
             TempExists(w) \/ Sweep(w) \/ OptimizeReturn(w) \/ OptimizeFails(w)
      PROVE  Filed'
  BY <1>2, <1>7 DEF TempExists, Sweep, OptimizeReturn, OptimizeFails
<1>8. CASE EngineStep \/ Open \/ UNCHANGED vars
  BY <1>2, <1>8 DEF EngineStep, Open, ReadCandidate, LoadEnds, LoadFails, Serve, vars
<1>9. ASSUME NEW kind \in CrashKinds, Crash(kind) PROVE Filed'
  BY <1>2, <1>9, CrashMaps
<1> QED BY <1>3, <1>4, <1>5, <1>6, <1>7, <1>8, <1>9 DEF Next, OptimizeSteps

\* A step of KestrelStorage keeps it.
LEMMA EngineSound ==
  ASSUME Sound, Engine!Next \/ UNCHANGED Engine!vars
  PROVE  Sound'
<1>1. [Storage!Next]_(Storage!vars)
  BY SameEngine
<1>2. Storage!TypeInv'
  BY <1>1, Assumptions, Storage!TypeStep DEF Sound
<1>3. Storage!Exclusive'
  BY <1>1, Assumptions, Storage!ExclusiveAlways DEF Sound
<1>4. Storage!Bounded'
  BY <1>1, Assumptions, Storage!BoundedStep DEF Sound
<1> QED BY <1>2, <1>3, <1>4 DEF Sound

\* A call of optimize that fails at a .tmp file of the same name returns.
LEMMA TempExistsSound ==
  ASSUME Sound, NEW w \in Workers, TempExists(w)
  PROVE  Sound'
<1>1. /\ UNCHANGED <<wal, durable, phase, cursor, snapshot, history, crashes, files>>
      /\ Readable' = Readable /\ writer' = NoWorker
      /\ Storage!Return(w, "temp") /\ Storage!Step(w, "temp", "idle")
  BY ListingStays DEF TempExists, Engine!Return, Storage!Return, Engine!Step,
                      Storage!Step, Engine!Unlock, Named
<1>2. Storage!TypeInv'
  BY <1>1, Assumptions, Storage!ReturnType
     DEF Sound, Storage!Unlock, Storage!diskVars, Storage!openVars
<1>3. Storage!Exclusive'
  BY <1>1, Assumptions, Storage!ExclusiveStep
     DEF Sound, Storage!Locked, Storage!InCommit, Storage!InOptimize
<1>4. \A v \in Workers : pc'[v] = pc[v] \/ pc'[v] = "idle"
  BY <1>1, Types DEF Sound, Storage!Step
<1>5. Storage!Bounded'
  BY <1>1, <1>4 DEF Sound, Storage!Bounded
<1> QED BY <1>2, <1>3, <1>5 DEF Sound

\* A checkpoint that replaces one of its name is one like any other.
LEMMA RenameSound ==
  ASSUME Sound, Filed', NEW w \in Workers, Rename(w)
  PROVE  Sound'
<1>1. /\ UNCHANGED <<wal, durable, phase, cursor, snapshot, writer, operations, history,
                     crashes>>
      /\ Storage!Step(w, "rename", "truncate") /\ phase = "ready"
  BY DEF Rename, Engine!Step, Storage!Step
<1>2. /\ Readable' \in SUBSET Storage!Snapshot
      /\ \A c \in Readable' : c.generation <= MaxGeneration
  <2>1. (Filed => /\ Readable \in SUBSET Engine!Snapshot
                  /\ \A c \in Readable : c.generation <= MaxGeneration)'
    BY ReadableType, PTL
  <2>2. Engine!Snapshot' = Storage!Snapshot
    BY SameTables DEF Engine!Snapshot, Engine!Table
  <2> QED BY <2>1, <2>2
<1>3. /\ pc' = [pc EXCEPT ![w] = "truncate"] /\ pc \in [Workers -> Storage!PcValues]
      /\ "truncate" \in Storage!PcValues
  BY <1>1, Types DEF Sound, Storage!Step, Storage!PcValues, Storage!InOptimize
<1>4. \A v \in Workers : pc'[v] = pc[v] \/ pc'[v] = "truncate"
  BY <1>3
<1>5. Storage!TypeInv'
  <2>1. pc' \in [Workers -> Storage!PcValues]
    BY <1>3
  <2>2. Storage!TypeOK'
    BY <1>1, <1>2, <2>1 DEF Sound, Storage!TypeInv, Storage!TypeOK
  <2>3. Storage!Validated'
    BY <1>1, <1>4 DEF Sound, Storage!TypeInv, Storage!Validated
  <2>4. Storage!InFile'
    BY <1>1 DEF Sound, Storage!TypeInv, Storage!InFile
  <2>5. Storage!Clean(wal)' /\ Storage!Clean(durable)'
    BY <1>1 DEF Sound, Storage!TypeInv, Storage!Clean
  <2> QED BY <2>2, <2>3, <2>4, <2>5 DEF Storage!TypeInv
<1>6. Storage!Exclusive'
  BY <1>1, Assumptions, Storage!ExclusiveStep
     DEF Sound, Storage!Locked, Storage!InCommit, Storage!InOptimize
<1>7. Storage!Bounded'
  BY <1>1, <1>2, <1>4 DEF Sound, Storage!Bounded
<1> QED BY <1>5, <1>6, <1>7 DEF Sound

\* A file that becomes unreadable, or a directory of such files, is nothing
\* that recovery trusts.
LEMMA DamageSound ==
  ASSUME Sound, Filed', Damage \/ LoadFails
  PROVE  Sound'
<1>1. /\ UNCHANGED <<wal, durable, cursor, snapshot, writer, pc, operations, history,
                     crashes>>
      /\ phase = "closed" /\ phase' \in {"closed", "corrupt"}
  BY DEF Damage, LoadFails, engineVars
<1>2. /\ Readable' \in SUBSET Storage!Snapshot
      /\ \A c \in Readable' : c.generation <= MaxGeneration
  <2>1. (Filed => /\ Readable \in SUBSET Engine!Snapshot
                  /\ \A c \in Readable : c.generation <= MaxGeneration)'
    BY ReadableType, PTL
  <2>2. Engine!Snapshot' = Storage!Snapshot
    BY SameTables DEF Engine!Snapshot, Engine!Table
  <2> QED BY <2>1, <2>2
<1>3. Storage!TypeInv'
  BY <1>1, <1>2 DEF Sound, Storage!TypeInv, Storage!TypeOK, Storage!Validated,
                    Storage!InFile, Storage!Clean
<1>4. Storage!Exclusive'
  BY <1>1 DEF Sound, Storage!Exclusive
<1>5. Storage!Bounded'
  BY <1>1, <1>2 DEF Sound, Storage!Bounded
<1> QED BY <1>3, <1>4, <1>5 DEF Sound

\* The history that an open database starts with is one of tables.
LEMMA ServeSound ==
  ASSUME Sound, Serve
  PROVE  Sound'
<1>1. /\ UNCHANGED <<wal, durable, snapshot, writer, pc, operations, crashes, files>>
      /\ Readable' = Readable /\ phase = "replay" /\ phase' = "ready" /\ cursor' = 1
  BY ListingStays DEF Serve, Named
<1>2. /\ history' \in Seq(Storage!Table) /\ history' # <<>>
  <2> DEFINE n == snapshot.generation + 1
  <2>1. n \in Nat \ {0} /\ snapshot.table \in Storage!Table
    BY Types, SameTables DEF Sound
  <2>2. \A g \in DOMAIN history : history[g] \in Storage!Table
    BY DEF Sound, Storage!TypeInv, Storage!TypeOK
  <2>3. history' \in [1..n -> Storage!Table]
    BY <2>1, <2>2 DEF Serve
  <2>4. history' \in Seq(Storage!Table)
    BY <2>1, <2>3
  <2>5. 1 \in DOMAIN history'
    BY <2>1, <2>3
  <2> QED BY <2>4, <2>5
<1>3. Storage!TypeInv'
  BY <1>1, <1>2 DEF Sound, Storage!TypeInv, Storage!TypeOK, Storage!Validated,
                    Storage!InFile, Storage!Clean
<1>4. Storage!Exclusive'
  BY <1>1 DEF Sound, Storage!Exclusive
<1>5. Storage!Bounded'
  BY <1>1 DEF Sound, Storage!Bounded
<1> QED BY <1>3, <1>4, <1>5 DEF Sound

\* The engine's part of the invariant is kept.
LEMMA SoundStep ==
  ASSUME FInv, [Next]_vars
  PROVE  Sound'
<1>1. Sound /\ Filed /\ Filed'
  BY FiledStep DEF FInv, Sound
<1>2. ASSUME NEW w \in Workers, OptimizeSteps(w) PROVE Sound'
  <2>1. CASE CreateTemp(w)
    BY <1>1, <2>1, CreateTempMaps, EngineSound DEF engineVars, Engine!vars
  <2>2. CASE WriteTemp(w) \/ OptimizeFails(w)
    BY <1>1, <2>2, WriteTempMaps, OptimizeFailsMaps, EngineSound
  <2>3. CASE Sweep(w) \/ OptimizeReturn(w)
    BY <1>1, <2>3, SweepMaps, OptimizeReturnMaps, EngineSound
  <2>4. CASE TempExists(w)
    BY <1>1, <2>4, TempExistsSound
  <2>5. CASE Rename(w)
    BY <1>1, <2>5, RenameSound
  <2> QED BY <1>2, <2>1, <2>2, <2>3, <2>4, <2>5 DEF OptimizeSteps
<1>3. CASE EngineStep
  BY <1>1, <1>3, EngineStepMaps, EngineSound
<1>4. CASE ReadCandidate \/ UNCHANGED vars
  <2>1. UNCHANGED engineVars /\ Readable' = Readable
    BY <1>4, ListingStays DEF ReadCandidate, vars, Named
  <2> QED BY <1>1, <2>1, EngineSound DEF engineVars, Engine!vars
<1>5. CASE LoadEnds
  BY <1>1, <1>5, LoadEndsMaps, EngineSound DEF Engine!Next, Engine!Open
<1>6. CASE LoadFails \/ Damage
  BY <1>1, <1>6, DamageSound
<1>7. CASE Serve
  BY <1>1, <1>7, ServeSound
<1>8. ASSUME NEW kind \in CrashKinds, Crash(kind) PROVE Sound'
  BY <1>1, <1>8, CrashMaps, EngineSound
<1> QED BY <1>2, <1>3, <1>4, <1>5, <1>6, <1>7, <1>8 DEF Next, Open

-----------------------------------------------------------------------------
(* The running optimize.                                                   *)

\* At most one thread is in the locked part of optimize, and none while
\* another one is in that of commit, or while the database is not open.
LEMMA OneOptimize ==
  ASSUME Sound
  PROVE  /\ \A u, v \in Workers :
              /\ pc[u] \in Engine!InOptimize
              /\ pc[v] \in Engine!InOptimize \cup Engine!InCommit
              => u = v
         /\ phase # "ready" => \A v \in Workers : pc[v] \notin Engine!InOptimize
         /\ writer = NoWorker => \A v \in Workers : pc[v] \notin Engine!InOptimize
         /\ \A v \in Workers :
              pc[v] \in Engine!InCommit =>
                \A u \in Workers : pc[u] \notin Engine!InOptimize
BY Assumptions
   DEF Sound, Storage!Exclusive, Storage!Locked, Engine!InOptimize, Storage!InOptimize,
       Engine!InCommit, Storage!InCommit

\* A step that leaves the running optimize where it is.
LEMMA StampedQuiet ==
  ASSUME FInv, UNCHANGED <<files, stamp>>, nonce' \in Nonces,
         \A v \in Workers :
           pc[v] \in Engine!InOptimize \/ pc'[v] \in Engine!InOptimize => pc'[v] = pc[v],
         (\E v \in Workers : pc[v] \in Engine!InOptimize) => snapshot' = snapshot
  PROVE  Stamped'
<1>1. Stamped
  BY DEF FInv
<1>2. CASE \A v \in Workers : pc[v] \notin Engine!InOptimize
  <2>1. \A v \in Workers : pc'[v] \notin Engine!InOptimize
    BY <1>2
  <2>2. stamp = 0 /\ stamp' = 0
    BY <1>1, <1>2 DEF Stamped
  <2> QED BY <1>1, <2>1, <2>2 DEF Stamped, Engine!InOptimize
<1>3. CASE \E v \in Workers : pc[v] \in Engine!InOptimize
  <2>1. snapshot' = snapshot
    BY <1>3
  <2>2. \A v \in Workers :
          pc'[v] = pc[v] \/ (pc'[v] \notin Engine!InOptimize /\ pc[v] \notin Engine!InOptimize)
    OBVIOUS
  <2>3. /\ Own("tmp")' = Own("tmp") /\ Own("kst")' = Own("kst")
        /\ Compacted("tmp")' = Compacted("tmp") /\ Compacted("kst")' = Compacted("kst")
    BY <2>1 DEF Own, Named, Compacted
  <2>4. /\ stamp' \in 0..MaxNonce /\ nonce' \in Nonces
        /\ stamp' # 0 => \E v \in Workers : pc'[v] \in Engine!InOptimize
    BY <1>1, <2>2 DEF Stamped
  <2>5. ASSUME NEW v \in Workers
        PROVE  /\ pc'[v] \in Engine!InOptimize \ {"temp"} => stamp' # 0
               /\ pc'[v] = "temp" /\ stamp' # 0 =>
                    \E f \in Own("tmp")' : f.content = snapshot'.table
               /\ pc'[v] = "rename" => Compacted("tmp")'
               /\ pc'[v] \in {"truncate", "truncateSync", "sweep"} => Compacted("kst")'
    BY <1>1, <2>1, <2>2, <2>3 DEF Stamped, Engine!InOptimize
  <2> QED BY <2>4, <2>5 DEF Stamped
<1> QED BY <1>2, <1>3

\* The optimize of thread w gets from one point to the next.
LEMMA StampedMoves ==
  ASSUME FInv, NEW w \in Workers, NEW from \in Engine!InOptimize,
         NEW to \in Engine!InOptimize, Engine!Step(w, from, to),
         nonce' \in Nonces, stamp' \in Nonces,
         to = "temp" => \E f \in Own("tmp")' : f.content = snapshot'.table,
         to = "rename" => Compacted("tmp")',
         to \in {"truncate", "truncateSync", "sweep"} => Compacted("kst")'
  PROVE  Stamped'
<1>1. pc \in [Workers -> Storage!PcValues] /\ pc[w] = from /\ pc' = [pc EXCEPT ![w] = to]
  BY Types DEF FInv, Sound, Engine!Step
<1>2. \A v \in Workers : v # w => pc'[v] \notin Engine!InOptimize
  BY <1>1, OneOptimize DEF FInv
<1>3. pc'[w] = to
  BY <1>1
<1>4. stamp' # 0 /\ stamp' \in 0..MaxNonce
  BY NonceAssumption DEF Nonces
<1> QED BY <1>2, <1>3, <1>4 DEF Stamped, Engine!InOptimize

\* The optimize returns, and its nonce is not used again.
LEMMA StampedReturns ==
  ASSUME FInv, NEW w \in Workers, NEW from \in Engine!InOptimize,
         Engine!Return(w, from), nonce' \in Nonces, stamp' = 0
  PROVE  Stamped'
<1>1. pc \in [Workers -> Storage!PcValues] /\ pc[w] = from /\ pc' = [pc EXCEPT ![w] = "idle"]
  BY Types DEF FInv, Sound, Engine!Return, Engine!Step
<1>2. \A v \in Workers : pc'[v] \notin Engine!InOptimize
  <2>1. \A v \in Workers : v # w => pc'[v] \notin Engine!InOptimize
    BY <1>1, OneOptimize DEF FInv
  <2>2. pc'[w] \notin Engine!InOptimize
    BY <1>1 DEF Engine!InOptimize
  <2> QED BY <2>1, <2>2
<1>3. 0 \in 0..MaxNonce
  BY NonceAssumption
<1> QED BY <1>2, <1>3 DEF Stamped, Engine!InOptimize

\* The steps that touch no checkpoint keep the stamp of a running optimize.
LEMMA StampedEngine ==
  ASSUME FInv, EngineStep
  PROVE  Stamped'
<1>1. /\ UNCHANGED <<files, stamp, nonce>> /\ nonce' \in Nonces /\ Sound /\ Stamped
      /\ pc \in [Workers -> Storage!PcValues]
  BY Types DEF EngineStep, FInv, Sound, Stamped
\* A thread that is outside the locked part of optimize, and stays there.
<1>2. ASSUME NEW w \in Workers, NEW from, NEW to, Engine!Step(w, from, to),
             from \notin Engine!InOptimize, to \notin Engine!InOptimize,
             snapshot' = snapshot \/ from \in Engine!InCommit
      PROVE  Stamped'
  <2>1. /\ pc[w] = from
        /\ \A v \in Workers : pc'[v] = IF v = w THEN to ELSE pc[v]
    BY <1>1, <1>2 DEF Engine!Step
  <2>2. (\E v \in Workers : pc[v] \in Engine!InOptimize) => snapshot' = snapshot
    BY <1>1, <1>2, <2>1, OneOptimize
  <2>3. \A v \in Workers :
           pc[v] \in Engine!InOptimize \/ pc'[v] \in Engine!InOptimize => pc'[v] = pc[v]
    BY <1>2, <2>1
  <2> QED BY <1>1, <2>2, <2>3, StampedQuiet
<1>3. CASE Engine!ScanFrame \/ Engine!ScanEnds \/ Engine!ScanFails \/ Engine!ReplayFrame
  <2>1. phase # "ready" /\ pc' = pc
    BY <1>3 DEF Engine!ScanFrame, Engine!ScanEnds, Engine!ScanFails,
                Engine!ReplayFrame, Engine!threadVars
  <2> QED BY <1>1, <2>1, OneOptimize, StampedQuiet
<1>4. ASSUME NEW w \in Workers, Engine!Calls(w) PROVE Stamped'
  BY <1>2, <1>4 DEF Engine!Calls, Engine!Begin, Engine!Push, Engine!Rollback,
     Engine!CommitCall, Engine!OptimizeCall, Engine!Return, Engine!InOptimize
<1>5. ASSUME NEW w \in Workers, Engine!CommitSteps(w) PROVE Stamped'
  <2>1. CASE Engine!Publish(w)
    <3>1. Engine!Step(w, "publish", "commitReturn")
      BY <2>1 DEF Engine!Publish
    <3> QED BY <1>2, <3>1 DEF Engine!InOptimize, Engine!InCommit
  <2>2. CASE ~Engine!Publish(w)
    BY <1>2, <1>5, <2>2
       DEF Engine!CommitSteps, Engine!LockCommit, Engine!ExhaustedCommit,
           Engine!AppendPart, Engine!AppendRest, Engine!AppendFails, Engine!SyncWal,
           Engine!SyncFails, Engine!CommitReturn, Engine!Return, Engine!InOptimize
  <2> QED BY <2>1, <2>2
<1>6. ASSUME NEW w \in Workers, Engine!LockOptimize(w) PROVE Stamped'
  <2>1. /\ writer = NoWorker /\ snapshot' = snapshot
        /\ pc' = [pc EXCEPT ![w] = "temp"]
    BY <1>6 DEF Engine!LockOptimize, Engine!Step
  <2>2. \A v \in Workers : pc[v] \notin Engine!InOptimize
    BY <1>1, <2>1, OneOptimize
  <2>3. stamp = 0
    BY <1>1, <2>2 DEF Stamped
  <2>4. \A v \in Workers : pc'[v] \in Engine!InOptimize => pc'[v] = "temp"
    BY <1>1, <2>1, <2>2
  <2> QED BY <1>1, <2>3, <2>4 DEF Stamped, Engine!InOptimize
<1>7. ASSUME NEW w \in Workers, Engine!Truncate(w) \/ Engine!SwapCompacted(w)
      PROVE  Stamped'
  <2>1. /\ pc[w] \in {"truncate", "truncateSync"} /\ snapshot' = snapshot
        /\ \/ Engine!Step(w, "truncate", "truncateSync")
           \/ Engine!Step(w, "truncateSync", "sweep")
    BY <1>7 DEF Engine!Truncate, Engine!SwapCompacted, Engine!Step
  <2>2. stamp' \in Nonces /\ Compacted("kst")
    BY <1>1, <2>1 DEF Stamped, Engine!InOptimize, Nonces
  <2>3. Compacted("kst")'
    BY <1>1, <2>1, <2>2 DEF Compacted, Own, Named
  <2> QED BY <1>1, <2>1, <2>2, <2>3, StampedMoves DEF Engine!InOptimize
<1> QED BY <1>3, <1>4, <1>5, <1>6, <1>7 DEF EngineStep

\* So do the steps of optimize that touch one.
LEMMA StampedOptimize ==
  ASSUME FInv, NEW w \in Workers, OptimizeSteps(w)
  PROVE  Stamped'
<1>1. /\ Sound /\ Storage!TypeInv /\ Filed /\ Stamped /\ nonce \in Nonces
      /\ pc \in [Workers -> Storage!PcValues] /\ MaxNonce \in Nat \ {0}
  BY Types, NonceAssumption DEF FInv, Sound, Stamped
<1>2. TakeNonce => nonce' \in Nonces
  BY <1>1 DEF TakeNonce, Nonces
<1>3. CASE CreateTemp(w)
  <2>1. /\ phase = "ready" /\ pc[w] = "temp" /\ pc' = pc /\ snapshot' = snapshot
        /\ stamp' = nonce /\ nonce' \in Nonces
    BY <1>2, <1>3 DEF CreateTemp, engineVars
  <2>2. [generation |-> snapshot.generation, stamp |-> nonce,
         extension |-> "tmp", format |-> "native",
         content |-> snapshot.table, whole |-> FALSE] \in Own("tmp")'
    BY <1>3, <2>1 DEF CreateTemp, Own, Named
  <2>3. \E f \in Own("tmp")' : f.content = snapshot'.table
    BY <2>1, <2>2
  <2>4. Engine!Step(w, "temp", "temp")
    BY <1>1, <2>1 DEF Engine!Step
  <2> QED BY <1>1, <2>1, <2>3, <2>4, StampedMoves DEF Engine!InOptimize
<1>4. CASE TempExists(w)
  BY <1>2, <1>4, StampedReturns DEF TempExists, Engine!InOptimize
<1>5. CASE WriteTemp(w)
  <2>1. /\ pc[w] = "temp" /\ stamp # 0 /\ stamp' = stamp /\ nonce' = nonce
        /\ snapshot' = snapshot /\ Engine!Step(w, "temp", "rename")
        /\ files' = (files \ Own("tmp")) \cup {[f EXCEPT !.whole = TRUE] : f \in Own("tmp")}
    BY <1>5 DEF WriteTemp, Engine!Step
  <2>2. PICK f \in Own("tmp") : f.content = snapshot.table
    BY <1>1, <2>1 DEF Stamped
  <2>3. f \in File /\ f.generation = snapshot.generation /\ f.stamp = stamp
        /\ f.extension = "tmp"
    BY <1>1 DEF Filed, Own, Named
  <2> DEFINE written == [f EXCEPT !.whole = TRUE]
  <2>4. /\ written.whole /\ written.content = snapshot.table
        /\ written.generation = snapshot.generation /\ written.stamp = stamp
        /\ written.extension = "tmp" /\ written \in files'
    BY <2>1, <2>2, <2>3 DEF File
  <2> HIDE DEF written
  <2>5. Compacted("tmp")'
    BY <2>1, <2>4 DEF Compacted, Own, Named
  <2>6. stamp \in Nonces
    BY <1>1, <2>1 DEF Stamped, Nonces
  <2> QED BY <1>1, <2>1, <2>5, <2>6, StampedMoves DEF Engine!InOptimize
<1>6. CASE Rename(w)
  <2>1. /\ pc[w] = "rename" /\ stamp' = stamp /\ nonce' = nonce
        /\ snapshot' = snapshot /\ Engine!Step(w, "rename", "truncate")
        /\ files' = (files \ (Own("tmp") \cup Own("kst"))) \cup
                    {[f EXCEPT !.extension = "kst"] : f \in Own("tmp")}
    BY <1>6 DEF Rename, Engine!Step
  <2>2. PICK f \in Own("tmp") : f.whole /\ f.content = snapshot.table
    BY <1>1, <2>1 DEF Stamped, Compacted
  <2>3. f \in File /\ f.generation = snapshot.generation /\ f.stamp = stamp
    BY <1>1 DEF Filed, Own, Named
  <2> DEFINE renamed == [f EXCEPT !.extension = "kst"]
  <2>4. /\ renamed.whole /\ renamed.content = snapshot.table
        /\ renamed.generation = snapshot.generation /\ renamed.stamp = stamp
        /\ renamed.extension = "kst" /\ renamed \in files'
    <3>1. renamed \in files'
      BY <2>1, <2>2
    <3> QED BY <2>2, <2>3, <3>1 DEF File
  <2> HIDE DEF renamed
  <2>5. Compacted("kst")'
    BY <2>1, <2>4 DEF Compacted, Own, Named
  <2>6. stamp \in Nonces
    BY <1>1, <2>1 DEF Stamped, Nonces, Engine!InOptimize
  <2> QED BY <1>1, <2>1, <2>5, <2>6, StampedMoves DEF Engine!InOptimize
<1>7. CASE Sweep(w)
  <2>1. /\ pc[w] = "sweep" /\ stamp' = stamp /\ nonce' = nonce
        /\ snapshot' = snapshot /\ Engine!Step(w, "sweep", "sweep")
        /\ \E f \in Swept : files' = files \ {f}
    BY <1>7 DEF Sweep, Engine!Step
  <2>2. Own("kst")' = Own("kst")
    BY <2>1 DEF Swept, Own, Named
  <2>3. Compacted("kst")'
    BY <1>1, <2>1, <2>2 DEF Stamped, Compacted
  <2>4. stamp \in Nonces
    BY <1>1, <2>1 DEF Stamped, Nonces, Engine!InOptimize
  <2> QED BY <1>1, <2>1, <2>3, <2>4, StampedMoves DEF Engine!InOptimize
<1>8. CASE OptimizeReturn(w) \/ OptimizeFails(w)
  <2>1. stamp' = 0 /\ nonce' \in Nonces
    BY <1>1, <1>2, <1>8 DEF OptimizeReturn, OptimizeFails
  <2>2. PICK from \in Engine!InOptimize : Engine!Return(w, from)
    BY <1>8 DEF OptimizeReturn, OptimizeFails, Engine!OptimizeFails, Engine!InOptimize
  <2> QED BY <1>1, <2>1, <2>2, StampedReturns
<1> QED BY <1>3, <1>4, <1>5, <1>6, <1>7, <1>8 DEF OptimizeSteps

\* The stamp and the files of a running optimize stay in step.
LEMMA StampedStep ==
  ASSUME FInv, [Next]_vars
  PROVE  Stamped'
<1>1. Sound /\ Stamped /\ nonce \in Nonces /\ MaxNonce \in Nat \ {0}
  BY NonceAssumption DEF FInv, Stamped
\* Nothing runs, and nothing starts to.
<1>2. ASSUME phase # "ready", pc' = pc, stamp' = stamp, nonce' \in Nonces
      PROVE  Stamped'
  <2>1. \A v \in Workers : pc'[v] \notin Engine!InOptimize
    BY <1>1, <1>2, OneOptimize
  <2>2. stamp' = 0
    BY <1>1, <1>2, <2>1 DEF Stamped
  <2> QED BY <1>1, <1>2, <2>1, <2>2 DEF Stamped, Engine!InOptimize
<1>3. CASE Open \/ Damage
  BY <1>1, <1>2, <1>3
     DEF Open, ReadCandidate, LoadEnds, LoadFails, Serve, Damage, engineVars
<1>4. ASSUME NEW kind \in CrashKinds, Crash(kind) PROVE Stamped'
  <2>1. /\ stamp' = 0 /\ nonce' = nonce
        /\ \A v \in Workers : pc'[v] = "idle"
    BY <1>4 DEF Crash, Engine!Crash
  <2> QED BY <1>1, <2>1 DEF Stamped, Engine!InOptimize
<1>5. CASE UNCHANGED vars
  BY <1>1, <1>5, StampedQuiet DEF vars, engineVars
<1> QED BY <1>3, <1>4, <1>5, StampedEngine, StampedOptimize DEF Next

-----------------------------------------------------------------------------
(* The two theorems that hold in every environment.                        *)

\* Where optimize is, and what a crash leaves.
LEMMA Phases ==
  /\ \A w \in Workers : OptimizeSteps(w) =>
       phase = "ready" /\ phase' = phase /\ UNCHANGED loadVars
  /\ EngineStep /\ phase' = "scan" =>
       phase = "scan" /\ snapshot' = snapshot
<1>1. ASSUME NEW w \in Workers, OptimizeSteps(w)
      PROVE  phase = "ready" /\ phase' = phase /\ UNCHANGED loadVars
  BY <1>1 DEF OptimizeSteps, CreateTemp, TempExists, WriteTemp, Rename, Sweep,
              OptimizeReturn, OptimizeFails, engineVars, Engine!OptimizeFails,
              Engine!Return, Engine!Step, Engine!openVars
<1>2. ASSUME EngineStep, phase' = "scan"
      PROVE  phase = "scan" /\ snapshot' = snapshot
  <2>1. CASE Engine!ScanFrame \/ Engine!ScanEnds \/ Engine!ScanFails \/ Engine!ReplayFrame
    BY <1>2, <2>1 DEF Engine!ScanFrame, Engine!ScanEnds, Engine!ScanFails,
                      Engine!ReplayFrame
  <2>2. ASSUME NEW w \in Workers, Engine!Calls(w) PROVE phase' # "scan"
    BY <2>2 DEF Engine!Calls, Engine!Begin, Engine!Push, Engine!Rollback,
         Engine!CommitCall, Engine!OptimizeCall, Engine!Return, Engine!Step,
         Engine!openVars
  <2>3. ASSUME NEW w \in Workers, Engine!CommitSteps(w) PROVE phase' # "scan"
    BY <2>3 DEF Engine!CommitSteps, Engine!LockCommit, Engine!ExhaustedCommit,
         Engine!AppendPart, Engine!AppendRest, Engine!AppendFails, Engine!SyncWal,
         Engine!SyncFails, Engine!Publish, Engine!CommitReturn, Engine!Return,
         Engine!Step, Engine!openVars
  <2>4. ASSUME NEW w \in Workers,
               Engine!LockOptimize(w) \/ Engine!Truncate(w) \/ Engine!SwapCompacted(w)
        PROVE  phase' # "scan"
    BY <2>4 DEF Engine!LockOptimize, Engine!Truncate, Engine!SwapCompacted,
         Engine!Step, Engine!openVars
  <2> QED BY <1>2, <2>1, <2>2, <2>3, <2>4 DEF EngineStep
<1> QED BY <1>1, <1>2

\* While load_snapshot reads, its best is the best of what it has read.
LEMMA LoadedStep ==
  ASSUME FInv, [Next]_vars
  PROVE  Loaded'
<1>1. Loaded
  BY DEF FInv
\* What has been read is forgotten, or was never there.
<1>2. ASSUME unread' = {}, best' = NoSnapshot, failed' = FALSE PROVE Loaded'
  BY <1>2 DEF Loaded, Loading
<1>3. ASSUME ~Loading, UNCHANGED loadVars PROVE Loaded'
  BY <1>1, <1>2, <1>3 DEF Loading, Loaded, loadVars
<1>4. phase # "closed" => ~Loading
  BY <1>1 DEF Loaded
<1>5. CASE EngineStep
  BY <1>3, <1>4, <1>5, EngineStepMaps DEF EngineStep
<1>6. ASSUME NEW w \in Workers, OptimizeSteps(w) PROVE Loaded'
  BY <1>3, <1>4, <1>6, Phases
<1>7. CASE Serve \/ Damage
  BY <1>3, <1>4, <1>7 DEF Serve, Damage
<1>8. CASE ReadCandidate
  BY <1>8, ReadCandidateLoads
<1>9. CASE LoadEnds \/ LoadFails
  <2>1. unread = {}
    BY <1>9 DEF LoadEnds, LoadFails, NothingUnread, Loading
  <2> QED BY <1>2, <1>9, <2>1 DEF LoadEnds, LoadFails
<1>10. ASSUME NEW kind \in CrashKinds, Crash(kind) PROVE Loaded'
  BY <1>2, <1>10 DEF Crash
<1>11. CASE UNCHANGED vars
  <2>1. /\ UNCHANGED <<unread, best, failed, phase, files>>
        /\ Readable' = Readable /\ Named("kst")' = Named("kst")
    BY <1>11, ListingStays DEF vars, engineVars, loadVars, Named
  <2>2. Engine!Snapshot' = Engine!Snapshot
    BY DEF Engine!Snapshot, Engine!Table
  <2> QED BY <1>1, <2>1, <2>2 DEF Loaded, Loading
<1> QED BY <1>5, <1>6, <1>7, <1>8, <1>9, <1>10, <1>11 DEF Next, Open

\* open goes on with the newest checkpoint that can be read.
LEMMA NewestStep ==
  ASSUME FInv, [Next]_vars
  PROVE  LoadsNewestReadable'
<1>1. LoadsNewestReadable
  BY DEF FInv
<1>2. ASSUME phase' # "scan" PROVE LoadsNewestReadable'
  BY <1>2 DEF LoadsNewestReadable
<1>3. ASSUME phase = "scan", UNCHANGED <<files, snapshot>> PROVE LoadsNewestReadable'
  <2>1. Readable' = Readable /\ Named("kst")' = Named("kst")
    BY <1>3, ListingStays DEF Named
  <2>2. Ground' = Ground
    BY DEF Ground
  <2> QED BY <1>1, <1>3, <2>1, <2>2 DEF LoadsNewestReadable
<1>4. CASE EngineStep
  BY <1>2, <1>3, <1>4, Phases DEF EngineStep
<1>5. ASSUME NEW w \in Workers, OptimizeSteps(w) PROVE LoadsNewestReadable'
  BY <1>2, <1>5, Phases
<1>6. CASE LoadEnds
  BY <1>6, LoadEndsMaps
<1>7. CASE ReadCandidate \/ LoadFails \/ Serve \/ Damage
  BY <1>2, <1>7 DEF ReadCandidate, LoadFails, Serve, Damage, engineVars
<1>8. ASSUME NEW kind \in CrashKinds, Crash(kind) PROVE LoadsNewestReadable'
  BY <1>2, <1>8 DEF Crash, Engine!Crash
<1>9. CASE UNCHANGED vars
  <2>1. UNCHANGED <<files, snapshot, phase>>
    BY <1>9 DEF vars, engineVars
  <2> QED BY <1>2, <1>3, <2>1
<1> QED BY <1>4, <1>5, <1>6, <1>7, <1>8, <1>9 DEF Next, Open

\* The inductive step.
LEMMA FInvStep == FInv /\ [Next]_vars => FInv'
<1> SUFFICES ASSUME FInv, [Next]_vars PROVE FInv'
  OBVIOUS
<1>1. damages' \in 0..MaxDamages
  <2>1. damages \in 0..MaxDamages /\ MaxDamages \in Nat
    BY FilesAssumption DEF FInv
  <2>2. damages' = damages \/ (damages < MaxDamages /\ damages' = damages + 1)
    BY DEF Next, vars, EngineStep, Open, ReadCandidate, LoadEnds, LoadFails, Serve,
           OptimizeSteps, CreateTemp, TempExists, WriteTemp, Rename, Sweep,
           OptimizeReturn, OptimizeFails, Damage, Crash
  <2> QED BY <2>1, <2>2
<1> QED BY <1>1, SoundStep, FiledStep, StampedStep, LoadedStep, NewestStep DEF FInv

\* A directory is empty, or holds one checkpoint of the first format, which
\* was published as the first generation.
LEMMA InitFiles ==
  ASSUME Init
  PROVE  /\ history \in Seq(Storage!Table) /\ history[1] = Ground
         /\ \/ files = {} /\ Readable = {} /\ Len(history) = 1
            \/ \E f \in files :
                 /\ files = {f} /\ f \in File /\ Named("kst") = {f} /\ f.whole
                 /\ f.format = "legacy" /\ f.stamp = 0 /\ f.extension = "kst"
                 /\ f.content \in LegacyTransactions
                 /\ Readable = {ReadCheckpoint(f)} /\ Len(history) = 2
                 /\ ReadCheckpoint(f) = [generation |-> 1, table |-> history[2]]
<1>1. Ground \in Storage!Table
  BY DEF Ground, Storage!Table
<1>2. <<Ground>> \in Seq(Storage!Table) /\ Len(<<Ground>>) = 1 /\ <<Ground>>[1] = Ground
  BY <1>1
<1>3. CASE files = {}
  <2>1. Readable = {}
    BY <1>3 DEF Readable, Named
  <2> DEFINE rest == [i \in 1..0 |-> (CHOOSE c \in Readable : TRUE).table]
  <2>2. rest \in Seq(Storage!Table) /\ Len(rest) = 0
    OBVIOUS
  <2>3. history = <<Ground>> \o rest
    BY <1>3 DEF Init
  <2> HIDE DEF rest
  <2>4. /\ history \in Seq(Storage!Table) /\ Len(history) = 1 /\ history[1] = Ground
    BY <1>2, <2>2, <2>3, ConcatProperties
  <2> QED BY <1>3, <2>1, <2>4
<1>4. ASSUME NEW tx \in LegacyTransactions, files = {Legacy(tx)}
      PROVE  /\ history \in Seq(Storage!Table) /\ history[1] = Ground
             /\ \E f \in files :
                 /\ files = {f} /\ f \in File /\ Named("kst") = {f} /\ f.whole
                 /\ f.format = "legacy" /\ f.stamp = 0 /\ f.extension = "kst"
                 /\ f.content \in LegacyTransactions
                 /\ Readable = {ReadCheckpoint(f)} /\ Len(history) = 2
                 /\ ReadCheckpoint(f) = [generation |-> 1, table |-> history[2]]
  <2> DEFINE f == Legacy(tx)
  <2>1. /\ f \in File /\ f.whole /\ f.format = "legacy" /\ f.stamp = 0
        /\ f.extension = "kst" /\ f.generation = 1 /\ f.content \in LegacyTransactions
    BY Assumptions, LegacyAssumption, NonceAssumption DEF Legacy, File
  <2>2. files = {f}
    BY <1>4
  <2> HIDE DEF f
  <2>3. Named("kst") = {f} /\ Readable = {ReadCheckpoint(f)}
    BY <2>1, <2>2 DEF Named, Readable
  <2>4. ReadCheckpoint(f) \in Engine!Snapshot /\ ReadCheckpoint(f).generation = 1
    BY <2>1, ReadType
  <2>5. ReadCheckpoint(f) = [generation |-> 1, table |-> ReadCheckpoint(f).table]
        /\ ReadCheckpoint(f).table \in Storage!Table
    BY <2>4, SameTables DEF Engine!Snapshot
  <2> DEFINE chosen == CHOOSE c \in Readable : TRUE
             rest   == [i \in 1..1 |-> chosen.table]
  <2>6. chosen = ReadCheckpoint(f)
    BY <2>3
  <2>7. rest \in Seq(Storage!Table) /\ Len(rest) = 1 /\ rest[1] = ReadCheckpoint(f).table
    <3> DEFINE table == ReadCheckpoint(f).table
    <3>1. rest = [i \in 1..1 |-> table]
      <4> HIDE DEF chosen
      <4> QED BY <2>6
    <3>2. table \in Storage!Table
      BY <2>5
    <3> HIDE DEF table
    <3>3. [i \in 1..1 |-> table] \in Seq(Storage!Table)
          /\ Len([i \in 1..1 |-> table]) = 1 /\ [i \in 1..1 |-> table][1] = table
      BY <3>2
    <3> QED BY <3>1, <3>3 DEF table
  <2>8. history = <<Ground>> \o rest
    BY <2>2 DEF Init
  <2> HIDE DEF rest
  <2>9. /\ history \in Seq(Storage!Table) /\ Len(history) = 2 /\ history[1] = Ground
        /\ history[2] = ReadCheckpoint(f).table
    BY <1>2, <2>7, <2>8, ConcatProperties
  <2> QED BY <2>1, <2>2, <2>3, <2>5, <2>9
<1> QED BY <1>3, <1>4 DEF Init

\* A directory to open for the first time has all of it.
LEMMA InitFInv == Init => FInv
<1> SUFFICES ASSUME Init PROVE FInv
  OBVIOUS
<1>1. /\ wal = <<>> /\ durable = <<>> /\ phase = "closed" /\ cursor = 1
      /\ snapshot = [generation |-> 0, table |-> Ground] /\ writer = NoWorker
      /\ pc = [w \in Workers |-> "idle"]
      /\ operations = [w \in Workers |-> <<>>] /\ crashes = 0
      /\ nonce = 1 /\ stamp = 0
      /\ unread = {} /\ best = NoSnapshot /\ failed = FALSE /\ damages = 0
  BY DEF Init
<1>2. history \in Seq(Storage!Table) /\ history # <<>>
  <2>1. history \in Seq(Storage!Table) /\ Len(history) # 0
    BY InitFiles
  <2> QED BY <2>1
<1>3. Filed
  BY InitFiles DEF Filed
<1>4. /\ Readable \in SUBSET Storage!Snapshot
      /\ \A c \in Readable : c.generation <= MaxGeneration
  BY <1>3, ReadableType, SameTables
<1>5. Storage!TypeInv
  <2>1. snapshot \in Storage!Snapshot
    BY <1>1 DEF Storage!Snapshot, Storage!Table, Ground
  <2>2. pc \in [Workers -> Storage!PcValues]
    BY <1>1 DEF Storage!PcValues
  <2> QED BY <1>1, <1>2, <1>4, <2>1, <2>2
          DEF Storage!TypeInv, Storage!TypeOK, Storage!Validated, Storage!InFile,
              Storage!Clean
<1>6. Storage!Exclusive /\ Storage!Bounded
  BY <1>1, <1>4, Assumptions
     DEF Storage!Exclusive, Storage!Bounded, Storage!Locked, Storage!InCommit,
         Storage!InOptimize
<1>7. Stamped
  BY <1>1, NonceAssumption DEF Stamped, Nonces, Engine!InOptimize
<1>8. Loaded
  BY <1>1 DEF Loaded, Loading
<1>9. LoadsNewestReadable /\ damages \in 0..MaxDamages
  <2>1. phase # "scan" /\ 0 \in 0..MaxDamages
    BY <1>1, FilesAssumption
  <2> QED BY <1>1, <2>1 DEF LoadsNewestReadable
<1> QED BY <1>3, <1>5, <1>6, <1>7, <1>8, <1>9 DEF FInv, Sound

\* Names, nonces and candidates have their types at all times, under every
\* fault, crash and damage: no two files get one name.
THEOREM FilesTypeCorrect == Spec => []TypeOK
<1>1. FInv => TypeOK
  <2> SUFFICES ASSUME FInv PROVE TypeOK
    OBVIOUS
  <2>1. \A f \in files : NameOf(f) \in FileNames /\ f.whole \in BOOLEAN
    BY DEF FInv, Filed, File, NameOf, FileNames
  <2> QED BY <2>1 DEF FInv, Filed, Stamped, Loaded, TypeOK
<1>2. FInv /\ [Next]_vars => FInv'
  BY FInvStep
<1> QED BY <1>1, <1>2, InitFInv, PTL DEF Spec

\* Under every fault, crash and damage, and in whatever order the directory
\* lists its files, open starts from one of the newest readable checkpoints,
\* and from the default snapshot only where there is no checkpoint at all.
THEOREM OpenLoadsNewest == Spec => []LoadsNewestReadable
<1>1. FInv => LoadsNewestReadable
  BY DEF FInv
<1>2. FInv /\ [Next]_vars => FInv'
  BY FInvStep
<1> QED BY <1>1, <1>2, InitFInv, PTL DEF Spec

-----------------------------------------------------------------------------
(* The refinement.                                                         *)

\* The running optimize renames its file to a checkpoint that reads as the
\* published snapshot.  A file that is replaced, because a nonce came twice,
\* was published as the same generation, and with the same table.
LEMMA RenameMaps ==
  ASSUME FInv, Storage!IInv, NEW w \in Workers, Rename(w)
  PROVE  Engine!Next /\ \A f \in Named("kst")' : f \in Named("kst") \/ f.whole
<1>1. /\ Sound /\ Storage!TypeInv /\ Filed /\ pc[w] = "rename" /\ phase = "ready"
      /\ Engine!Step(w, "rename", "truncate") /\ Stamped
      /\ UNCHANGED <<wal, durable, phase, cursor, snapshot, writer, operations, history,
                     crashes>>
      /\ files' = (files \ (Own("tmp") \cup Own("kst"))) \cup
                  {[f EXCEPT !.extension = "kst"] : f \in Own("tmp")}
  BY DEF FInv, Sound, Rename, Engine!Step
<1>2. stamp # 0 /\ Compacted("tmp")
  BY <1>1 DEF Stamped, Engine!InOptimize
<1>3. PICK own \in Own("tmp") : own.whole /\ own.content = snapshot.table
  BY <1>2 DEF Compacted
<1>4. /\ own \in File /\ own.format = "native" /\ own.generation = snapshot.generation
      /\ ReadCheckpoint(own) = snapshot
  <2>1. own \in File /\ own.generation = snapshot.generation
    BY <1>1 DEF Filed, Own, Named
  <2> QED BY <1>1, <1>2, <1>3, <2>1, OwnIsSnapshot
<1> DEFINE renamed == [own EXCEPT !.extension = "kst"]
<1>5. /\ renamed.whole /\ renamed.extension = "kst"
      /\ renamed.format = own.format /\ renamed.content = own.content
      /\ renamed.generation = own.generation
  BY <1>3, <1>4 DEF File
<1>6. Own("tmp") = {own}
  BY <1>1, <1>3, OwnIsOne
<1>7. files' = (files \ ({own} \cup Own("kst"))) \cup {renamed}
  BY <1>1, <1>6
<1> HIDE DEF renamed
<1>8. ReadCheckpoint(renamed) = snapshot
  BY <1>4, <1>5 DEF ReadCheckpoint
<1>9. Named("kst")' = (Named("kst") \ Own("kst")) \cup {renamed}
  <2>1. own.extension = "tmp"
    BY <1>3 DEF Own, Named
  <2> QED BY <1>5, <1>7, <2>1 DEF Named
<1>10. ASSUME NEW g \in Own("kst"), g.whole PROVE ReadCheckpoint(g) = snapshot
  <2>1. ReadCheckpoint(g) \in Readable /\ g.generation = snapshot.generation
    BY <1>10 DEF Readable, Own
  <2>2. ReadCheckpoint(g) \in Engine!Snapshot
    BY <1>1, <2>1, ReadableType
  <2>3. /\ snapshot.generation = Storage!Newest
        /\ snapshot.table = history[Len(history)]
    BY <1>1 DEF Storage!IInv, Storage!Serving
  <2>4. ReadCheckpoint(g).generation = Storage!Newest
    BY <2>1, <2>3 DEF ReadCheckpoint
  <2>5. Storage!Newest + 1 = Len(history)
    BY <1>1, Assumptions, Storage!History DEF Storage!TypeInv
  <2>6. ReadCheckpoint(g).table = history[ReadCheckpoint(g).generation + 1]
    BY <2>1 DEF Storage!IInv, Storage!Checkpointed
  <2>7. ReadCheckpoint(g).table = snapshot.table
    BY <2>3, <2>4, <2>5, <2>6
  <2> QED BY <1>1, <2>2, <2>3, <2>4, <2>7, Types DEF Engine!Snapshot
<1>11. Readable' = Readable \cup {snapshot}
  <2>1. Readable' = {ReadCheckpoint(g) : g \in {h \in Named("kst")' : h.whole}}
    BY DEF Readable, ReadCheckpoint
  <2>2. Own("kst") \subseteq Named("kst")
    BY DEF Own
  <2>3. ASSUME NEW c \in Readable' PROVE c \in Readable \cup {snapshot}
    BY <1>8, <1>9, <2>1, <2>3 DEF Readable
  <2>4. ASSUME NEW c \in Readable PROVE c \in Readable' \cup {snapshot}
    <3>1. PICK g \in Named("kst") : g.whole /\ c = ReadCheckpoint(g)
      BY <2>4 DEF Readable
    <3> QED BY <1>9, <1>10, <2>1, <3>1
  <2>5. snapshot \in Readable'
    BY <1>5, <1>8, <1>9, <2>1
  <2> QED BY <2>3, <2>4, <2>5
<1>12. Engine!Rename(w)
  BY <1>1, <1>11 DEF Engine!Rename, Engine!WriteBack, Engine!openVars
<1> QED BY <1>5, <1>9, <1>12 DEF Engine!Next, Engine!OptimizeSteps

\* What is served is what was published last, or one generation more.
LEMMA ServeMaps ==
  ASSUME Sound, Storage!IInv, Serve
  PROVE  Engine!Next
<1>1. /\ UNCHANGED <<wal, durable, snapshot, writer, pc, operations, crashes, files>>
      /\ Readable' = Readable /\ phase = "replay" /\ cursor > Len(wal)
      /\ phase' = "ready" /\ cursor' = 1
      /\ history' = [g \in 1..(snapshot.generation + 1) |->
                       IF g \in DOMAIN history /\ g <= snapshot.generation
                       THEN history[g] ELSE snapshot.table]
  BY ListingStays DEF Serve, Named
<1>2. /\ snapshot.generation \in {Storage!Newest, Storage!Newest + 1}
      /\ snapshot.generation = Storage!Newest => snapshot.table = history[Len(history)]
  BY <1>1, Assumptions, Storage!Recovered
<1>3. /\ Len(history) \in Nat \ {0} /\ DOMAIN history = 1..Len(history)
      /\ Storage!Newest \in Nat /\ Storage!Newest + 1 = Len(history)
      /\ history \in Seq(Storage!Table) /\ snapshot.table \in Storage!Table
  BY Assumptions, Storage!History, Types, SameTables
     DEF Sound, Storage!TypeInv, Storage!TypeOK
<1>4. /\ Len(history) \in Nat /\ Storage!Newest \in Nat
      /\ Storage!Newest + 1 = Len(history)
  BY <1>3
<1>5. history' = IF snapshot.generation = Len(history)
                 THEN Append(history, snapshot.table) ELSE history
  <2>1. CASE snapshot.generation = Storage!Newest
    <3>1. snapshot.generation + 1 = Len(history) /\ snapshot.generation # Len(history)
      BY <1>4, <2>1
    <3>2. \A g \in 1..Len(history) : g <= snapshot.generation \/ g = Len(history)
      BY <1>4, <2>1
    <3>3. history' = [g \in 1..Len(history) |-> history[g]]
      BY <1>1, <1>2, <1>3, <2>1, <3>1, <3>2
    <3>4. history = [g \in 1..Len(history) |-> history[g]]
      BY <1>3
    <3> QED BY <3>1, <3>3, <3>4
  <2>2. CASE snapshot.generation = Storage!Newest + 1
    <3>1. snapshot.generation = Len(history)
      BY <1>3, <2>2
    <3> DEFINE next == Append(history, snapshot.table)
    <3>2. /\ next \in Seq(Storage!Table) /\ Len(next) = Len(history) + 1
          /\ \A g \in 1..Len(history) : next[g] = history[g]
          /\ next[Len(history) + 1] = snapshot.table
      BY <1>3, AppendProperties
    <3> HIDE DEF next
    <3>3. next = [g \in 1..(Len(history) + 1) |-> next[g]]
      BY <1>3, <3>2
    <3>4. \A g \in 1..(Len(history) + 1) :
            next[g] = IF g \in DOMAIN history /\ g <= snapshot.generation
                      THEN history[g] ELSE snapshot.table
      <4>1. \A g \in 1..(Len(history) + 1) :
              \/ g \in 1..Len(history) /\ g <= Len(history)
              \/ g = Len(history) + 1 /\ g \notin 1..Len(history)
        BY <1>3
      <4> QED BY <1>3, <3>1, <3>2, <4>1
    <3>5. history' = next
      BY <1>1, <3>1, <3>3, <3>4
    <3> QED BY <3>1, <3>5 DEF next
  <2> QED BY <1>2, <2>1, <2>2
<1>6. Engine!Serve
  BY <1>1, <1>5 DEF Engine!Serve, Engine!diskVars, Engine!threadVars
<1> QED BY <1>6 DEF Engine!Next, Engine!Open

\* Where the files of KestrelCheckpoints are those of KestrelStorage: the
\* environment is benign, and an optimize that meets a .tmp file of its name
\* may fail as it may at any other call that writes that file.
Alike == Storage!Benign /\ "temp" \in Faults

\* As long as no file is damaged, every step is one of KestrelStorage, and
\* every checkpoint stays readable.
LEMMA StepMaps ==
  ASSUME Alike, FInv, Undamaged, [Next]_vars, damages' = 0
  PROVE  /\ damages = 0
         /\ Engine!Next \/ UNCHANGED Engine!vars
         /\ \A f \in Named("kst")' : f.whole
<1>1. damages = 0 /\ ~Damage
  <2>1. damages \in Nat
    BY FilesAssumption DEF FInv
  <2>2. ~Damage
    BY <2>1 DEF Damage
  <2>3. damages' = damages
    BY <2>2 DEF Next, vars, EngineStep, Open, ReadCandidate, LoadEnds, LoadFails, Serve,
           OptimizeSteps, CreateTemp, TempExists, WriteTemp, Rename, Sweep,
           OptimizeReturn, OptimizeFails, Crash
  <2> QED BY <2>2, <2>3
<1>2. /\ Storage!IInv /\ Sound /\ Filed /\ Loaded
      /\ \A f \in Named("kst") : f.whole
  BY <1>1 DEF Undamaged, Storage!RInv, FInv
<1>3. ASSUME files' = files PROVE \A f \in Named("kst")' : f.whole
  BY <1>2, <1>3 DEF Named
<1>4. ASSUME NEW w \in Workers, OptimizeSteps(w)
      PROVE  /\ Engine!Next \/ UNCHANGED Engine!vars
             /\ \A f \in Named("kst")' : f.whole
  <2>1. CASE CreateTemp(w)
    BY <1>2, <2>1, CreateTempMaps DEF engineVars, Engine!vars
  <2>2. CASE TempExists(w)
    <3>1. Readable' = Readable
      BY <2>2, ListingStays DEF TempExists, Named
    <3>2. Engine!OptimizeFails(w)
      BY <2>2, <3>1 DEF TempExists, Alike, Engine!OptimizeFails, Engine!InOptimize,
                        Engine!diskVars, Engine!openVars
    <3> QED BY <1>3, <2>2, <3>2 DEF TempExists, Engine!Next, Engine!OptimizeSteps
  <2>3. CASE WriteTemp(w)
    BY <1>2, <2>3, WriteTempMaps
  <2>4. CASE Rename(w)
    BY <1>2, <2>4, RenameMaps
  <2>5. CASE Sweep(w)
    <3>1. \A f \in Named("kst")' : f.whole
      BY <1>2, <2>5 DEF Sweep, Named
    <3> QED BY <2>5, <3>1, SweepMaps
  <2>6. CASE OptimizeReturn(w)
    BY <1>3, <2>6, OptimizeReturnMaps DEF OptimizeReturn
  <2>7. CASE OptimizeFails(w)
    BY <1>3, <2>7, OptimizeFailsMaps DEF OptimizeFails
  <2> QED BY <1>4, <2>1, <2>2, <2>3, <2>4, <2>5, <2>6, <2>7 DEF OptimizeSteps
<1>5. CASE EngineStep
  BY <1>3, <1>5, EngineStepMaps DEF EngineStep
<1>6. CASE ReadCandidate \/ UNCHANGED vars
  <2>1. UNCHANGED engineVars /\ Readable' = Readable /\ files' = files
    BY <1>6, ListingStays DEF ReadCandidate, vars, Named
  <2>2. UNCHANGED Engine!vars
    BY <2>1 DEF engineVars, Engine!vars
  <2>3. \A f \in Named("kst")' : f.whole
    BY <1>3, <2>1
  <2> QED BY <1>1, <2>2, <2>3
<1>7. CASE LoadEnds
  BY <1>3, <1>7, LoadEndsMaps DEF LoadEnds, Engine!Next, Engine!Open
<1>8. ~LoadFails
  BY <1>2 DEF LoadFails, Loaded, Loading
<1>9. CASE Serve
  BY <1>2, <1>3, <1>9, ServeMaps DEF Serve
<1>10. ASSUME NEW kind \in CrashKinds, Crash(kind)
      PROVE  Engine!Next /\ \A f \in Named("kst")' : f.whole
  BY <1>2, <1>10, CrashMaps
<1> QED BY <1>1, <1>4, <1>5, <1>6, <1>7, <1>8, <1>9, <1>10 DEF Next, Open

\* The invariant of the storage engine holds as long as no file is damaged.
LEMMA UndamagedStep ==
  ASSUME Alike, FInv, Undamaged, [Next]_vars
  PROVE  /\ Undamaged'
         /\ damages' = 0 => [Storage!Store!Next]_(Storage!Store!storeVars)
<1> SUFFICES ASSUME damages' = 0
             PROVE  /\ Storage!RInv' /\ \A f \in Named("kst")' : f.whole
                    /\ [Storage!Store!Next]_(Storage!Store!storeVars)
  BY DEF Undamaged
<1>1. /\ damages = 0 /\ \A f \in Named("kst")' : f.whole
      /\ Engine!Next \/ UNCHANGED Engine!vars
  BY StepMaps
<1>2. [Storage!Next]_(Storage!vars) /\ Storage!RInv
  BY <1>1, SameEngine DEF Undamaged
<1>3. Storage!RInv' /\ [Storage!Store!Next]_(Storage!Store!storeVars)
  BY <1>2, Assumptions, Storage!StepImplements DEF Alike
<1> QED BY <1>1, <1>3

\* Both instances promise the same transactional store.
LEMMA SameStore ==
  /\ Engine!Store!Next <=> Storage!Store!Next
  /\ UNCHANGED Engine!Store!storeVars <=> UNCHANGED Storage!Store!storeVars
BY DEF Engine!Asked, Storage!Asked, Engine!InFlight, Storage!InFlight,
       Engine!Draft, Storage!Draft, Engine!Unpublished, Storage!Unpublished,
       Engine!Leftover, Storage!Leftover, Engine!Visible, Storage!Visible,
       Engine!VisibleGeneration, Storage!VisibleGeneration,
       Engine!Canonicalize, Storage!Canonicalize, Engine!Touched,
       Storage!Touched, Engine!LastOn, Storage!LastOn, Engine!Whole,
       Storage!Whole, Engine!Newest, Storage!Newest, Engine!Store!Nothing,
       Storage!Store!Nothing, Engine!Store!Put, Storage!Store!Put,
       Engine!Store!Changed, Storage!Store!Changed, Engine!Store!Write,
       Storage!Store!Write, Engine!Store!Request, Storage!Store!Request,
       Engine!Store!Forget, Storage!Store!Forget, Engine!Store!CarryOut,
       Storage!Store!CarryOut, Engine!Store!Commit, Storage!Store!Commit,
       Engine!Store!Close, Storage!Store!Close, Engine!Store!Reopen,
       Storage!Store!Reopen, Engine!Store!Next, Storage!Store!Next,
       Engine!Store!storeVars, Storage!Store!storeVars

\* A new directory, or one that an older version left, restores what it published.
LEMMA InitUndamaged == Init => Undamaged
<1> SUFFICES ASSUME Init PROVE Undamaged
  OBVIOUS
<1>1. /\ FInv /\ Storage!TypeInv /\ Storage!Exclusive
      /\ wal = <<>> /\ durable = <<>> /\ phase = "closed" /\ damages = 0
  BY InitFInv DEF Init, FInv, Sound
<1>2. DOMAIN wal = {} /\ DOMAIN durable = {}
  BY <1>1
<1>3. \A f \in Named("kst") : f.whole
  BY InitFiles DEF Named
<1>4. \/ Readable = {} /\ Storage!Newest = 0
      \/ Storage!Newest = 1 /\ Readable = {[generation |-> 1, table |-> history[2]]}
  BY InitFiles DEF Storage!Newest
<1>5. Storage!Checkpointed
  <2>1. history[1] = Storage!Empty
    BY InitFiles, SameTables
  <2>2. ASSUME NEW c \in Readable
        PROVE  c.generation <= Storage!Newest /\ c.table = history[c.generation + 1]
    <3>1. c = [generation |-> 1, table |-> history[2]] /\ Storage!Newest = 1
      BY <1>4
    <3> QED BY <3>1
  <2> QED BY <2>1, <2>2 DEF Storage!Checkpointed
<1>6. Storage!Restores(wal, Readable, Storage!Newest)
  <2>1. \A n \in Nat : (n + 1)..n = {}
    OBVIOUS
  <2>2. CASE Readable = {} /\ Storage!Newest = 0
    <3>1. [generation |-> 0, table |-> Storage!Empty].generation = 0
      OBVIOUS
    <3> QED BY <2>1, <2>2, <3>1 DEF Storage!Restores
  <2>3. CASE Storage!Newest = 1 /\ Readable = {[generation |-> 1, table |-> history[2]]}
    BY <2>1, <2>3 DEF Storage!Restores
  <2> QED BY <1>4, <2>2, <2>3
<1>7. Storage!Chained(wal, history)
  BY <1>1, <1>2 DEF Storage!Chained
<1>8. Storage!Logged
  BY <1>1, <1>2, <1>6, <1>7 DEF Storage!Logged
<1>9. Storage!Serving /\ Storage!Recovering
  BY <1>1 DEF Storage!Serving, Storage!Recovering
<1>10. Storage!Covered
  BY <1>2 DEF Storage!Covered, Storage!Unpublished
<1> QED BY <1>1, <1>3, <1>5, <1>8, <1>9, <1>10 DEF Undamaged, Storage!RInv, Storage!IInv

\* As long as no file is damaged, files with names, nonces and .tmp leftovers,
\* read one by one, do what KestrelStorage says of its set of checkpoints.
THEOREM FilesImplementEngine == ASSUME Alike PROVE Spec => ImplementsEngine
<1>1. Init => FInv /\ Undamaged
  BY InitFInv, InitUndamaged
<1>2. FInv /\ Undamaged /\ [Next]_vars => FInv' /\ Undamaged'
  BY FInvStep, UndamagedStep
<1>3. FInv /\ Undamaged /\ [Next]_vars =>
        [damages' = 0 => Engine!Next \/ UNCHANGED Engine!vars]_vars
  BY StepMaps
<1> QED BY <1>1, <1>2, <1>3, PTL DEF Spec, ImplementsEngine

\* And with it they carry out every transaction whole, once and in order.
THEOREM FilesImplementStore == ASSUME Alike PROVE Spec => ImplementsStoreSteps
<1>1. Init => FInv /\ Undamaged
  BY InitFInv, InitUndamaged
<1>2. FInv /\ Undamaged /\ [Next]_vars => FInv' /\ Undamaged'
  BY FInvStep, UndamagedStep
<1>3. FInv /\ Undamaged /\ [Next]_vars =>
        [damages' = 0 => Engine!Store!Next \/ UNCHANGED Engine!Store!storeVars]_vars
  BY UndamagedStep, SameStore
<1> QED BY <1>1, <1>2, <1>3, PTL DEF Spec, ImplementsStoreSteps

-----------------------------------------------------------------------------
(* Damage.  Once damage has hidden the newest checkpoint, what is served   *)
(* may have skipped generations, and history is no longer what the log     *)
(* replays.  What stays true is said of any two snapshots at once: where   *)
(* the log has every generation between them, it leads from one table to   *)
(* the other.                                                              *)

Log == Seq(Storage!Frame)

\* A whole frame of generation g.
Carries(log, i, g) ==
  i \in DOMAIN log /\ Storage!Whole(log[i]) /\ log[i].generation = g

Covers(log, from, to) ==
  \A g \in (from + 1)..to : \E i \in DOMAIN log : Carries(log, i, g)

\* The table of generation g is what the log makes of the one before.
Follows(log, tables, g) ==
  \E i \in DOMAIN log :
    Carries(log, i, g) /\ tables[g] = Storage!Apply(tables[g - 1], log[i].tx)

\* Tables of the generations from c to d, each of which follows.
Leads(log, c, d) ==
  \E tables \in [c.generation..d.generation -> Storage!Table] :
    /\ tables[c.generation] = c.table /\ tables[d.generation] = d.table
    /\ \A g \in (c.generation + 1)..d.generation : Follows(log, tables, g)

Linked(log, c, d) ==
  /\ c.generation <= d.generation
  /\ Covers(log, c.generation, d.generation)
  => Leads(log, c, d)

\* Generations rise, and only the last frame may be damaged.
Rising(log) ==
  \A i, j \in DOMAIN log :
    i < j => Storage!Whole(log[i]) /\ log[i].generation < log[j].generation

\* Where recovery may start from.
Default == [generation |-> 0, table |-> Ground]
Base    == Readable \cup {Default}

\* What was published last.
Current == [generation |-> Storage!Newest, table |-> history[Len(history)]]

\* The logs that a crash may leave.
Logs == {wal} \cup {log \in {durable} : "power" \in CrashKinds}

Timeline ==
  \A log \in Logs :
    /\ Rising(log)
    /\ \A c \in Base, d \in Base \cup {Current} : Linked(log, c, d)

\* The open database, and the frame that a commit has appended.
Served ==
  phase = "ready" =>
    /\ snapshot = Current
    /\ \A c \in Readable : c.generation <= Storage!Newest
    /\ (\A w \in Workers : pc[w] \notin Storage!Writing) => Storage!Settled
    /\ \A w \in Workers :
         /\ pc[w] \in Storage!Writing =>
              /\ wal # <<>>
              /\ wal[Len(wal)].generation = Storage!Newest + 1
              /\ wal[Len(wal)].tx = Storage!Canonicalize(operations[w])
              /\ wal[Len(wal)].good
         /\ pc[w] \in {"sync", "publish"} => Storage!Whole(wal[Len(wal)])
         /\ pc[w] = "publish" => durable = wal

\* The snapshot that recovery has reached: every base that is covered so far
\* leads to it, and it leads to what was published last where the newest base
\* and the log cover that.
Reached ==
  /\ \A c \in Readable : c.generation <= snapshot.generation
  /\ \A log \in Logs, c \in Base : Linked(log, c, snapshot)
  /\ \A c \in Base :
       /\ \A d \in Readable : d.generation <= c.generation
       /\ Covers(wal, c.generation, Storage!Newest)
       /\ snapshot.generation <= Storage!Newest
       => Leads(wal, snapshot, Current)

Recovering ==
  /\ phase # "ready" /\ "power" \in CrashKinds =>
       \A i \in DOMAIN wal : i \in DOMAIN durable /\ durable[i] = wal[i]
  /\ phase \in {"scan", "replay"} => Reached
  /\ phase = "scan" => \A i \in 1..(cursor - 1) : Storage!Whole(wal[i])
  /\ phase = "replay" =>
       /\ \A i \in DOMAIN wal : Storage!Whole(wal[i])
       /\ \A i \in 1..(cursor - 1) : wal[i].generation <= snapshot.generation

DInv == FInv /\ Timeline /\ Served /\ Recovering

-----------------------------------------------------------------------------
(* Logs that lead from one snapshot to another.                            *)

\* Frame numbers and generations.
LEMMA LogTypes ==
  ASSUME NEW log \in Log
  PROVE  /\ Len(log) \in Nat /\ DOMAIN log = 1..Len(log)
         /\ log = <<>> <=> Len(log) = 0
         /\ \A i \in DOMAIN log :
              log[i] \in Storage!Frame /\ log[i].generation \in Nat
              /\ log[i].tx \in Storage!Changes
<1>1. /\ Len(log) \in Nat /\ DOMAIN log = 1..Len(log)
      /\ log = <<>> <=> Len(log) = 0
  BY EmptySeq, LenProperties DEF Log
<1>2. \A i \in DOMAIN log : log[i] \in Storage!Frame
  BY <1>1, ElementOfSeq DEF Log
<1> QED BY <1>1, <1>2 DEF Storage!Frame

\* In a rising log a generation has one frame.
LEMMA OneFrame ==
  ASSUME NEW log \in Log, Rising(log), NEW g, NEW i, NEW j,
         Carries(log, i, g), Carries(log, j, g)
  PROVE  i = j
<1>1. i \in Nat /\ j \in Nat /\ log[i].generation = g /\ log[j].generation = g
      /\ g \in Nat /\ i \in DOMAIN log /\ j \in DOMAIN log
  BY LogTypes DEF Carries
<1>2. ~(i < j) /\ ~(j < i)
  BY <1>1 DEF Rising
<1> QED BY <1>1, <1>2

\* The whole frames of one log, up to a generation, are frames of another.
Within(part, log, to) ==
  \A i \in DOMAIN part :
    Storage!Whole(part[i]) /\ part[i].generation <= to =>
      \E j \in DOMAIN log : log[j] = part[i]

\* A log that lost frames covers less, and leads the same way where it covers.
LEMMA LeadsWithin ==
  ASSUME NEW log \in Log, Rising(log), NEW part, NEW c \in Storage!Snapshot, NEW d \in Storage!Snapshot,
         Within(part, log, d.generation), Leads(log, c, d), Covers(part, c.generation, d.generation)
  PROVE  Leads(part, c, d)
<1>1. PICK tables \in [c.generation..d.generation -> Storage!Table] :
        /\ tables[c.generation] = c.table /\ tables[d.generation] = d.table
        /\ \A g \in (c.generation + 1)..d.generation : Follows(log, tables, g)
  BY DEF Leads
<1>2. ASSUME NEW g \in (c.generation + 1)..d.generation
      PROVE  Follows(part, tables, g)
  <2>1. PICK i \in DOMAIN part : Carries(part, i, g)
    BY DEF Covers
  <2>2. PICK j \in DOMAIN log : log[j] = part[i]
    BY <2>1 DEF Within, Carries
  <2>3. Carries(log, j, g)
    BY <2>1, <2>2 DEF Carries
  <2>4. PICK k \in DOMAIN log :
          Carries(log, k, g) /\ tables[g] = Storage!Apply(tables[g - 1], log[k].tx)
    BY <1>1 DEF Follows
  <2>5. k = j
    BY <2>3, <2>4, OneFrame
  <2> QED BY <2>1, <2>2, <2>4, <2>5 DEF Follows
<1> QED BY <1>1, <1>2 DEF Leads

\* Losing frames covers nothing new.
LEMMA CoversWithin ==
  ASSUME NEW log, NEW part, NEW a, NEW b, Within(part, log, b), Covers(part, a, b)
  PROVE  Covers(log, a, b)
<1> SUFFICES ASSUME NEW g \in (a + 1)..b
             PROVE  \E j \in DOMAIN log : Carries(log, j, g)
  BY DEF Covers
<1>1. PICK i \in DOMAIN part : Carries(part, i, g)
  BY DEF Covers
<1> QED BY <1>1 DEF Within, Carries

\* So losing frames leaves snapshots linked.
LEMMA LinkedWithin ==
  ASSUME NEW log \in Log, Rising(log), NEW part, NEW c \in Storage!Snapshot, NEW d \in Storage!Snapshot,
         Within(part, log, d.generation), Linked(log, c, d)
  PROVE  Linked(part, c, d)
BY LeadsWithin, CoversWithin DEF Linked

\* Snapshots of one generation that are linked have one table.
LEMMA LinkedSame ==
  ASSUME NEW log, NEW c \in Storage!Snapshot, NEW d \in Storage!Snapshot,
         c.generation = d.generation
  PROVE  /\ Linked(log, c, d) <=> c = d
         /\ Leads(log, c, d) <=> c = d
<1>1. /\ c.generation \in Nat /\ c.table \in Storage!Table
      /\ c = [generation |-> c.generation, table |-> c.table]
      /\ d = [generation |-> d.generation, table |-> d.table]
  BY DEF Storage!Snapshot
<1>2. (c.generation + 1)..d.generation = {}
  BY <1>1
<1>3. Covers(log, c.generation, d.generation)
  BY <1>2 DEF Covers
<1>4. ASSUME Leads(log, c, d) PROVE c = d
  BY <1>1, <1>4 DEF Leads
<1>5. ASSUME c = d PROVE Leads(log, c, d)
  <2> DEFINE tables == [g \in c.generation..d.generation |-> c.table]
  <2>1. /\ tables \in [c.generation..d.generation -> Storage!Table]
        /\ tables[c.generation] = c.table /\ tables[d.generation] = d.table
    BY <1>1, <1>5
  <2> QED BY <1>2, <2>1 DEF Leads
<1> QED BY <1>1, <1>3, <1>4, <1>5 DEF Linked

\* In a rising log, the first frame beyond a snapshot is the next generation,
\* if the log covers any.
LEMMA NextFrame ==
  ASSUME NEW log \in Log, Rising(log), NEW s \in Nat, NEW k \in DOMAIN log,
         log[k].generation > s, \A i \in 1..(k - 1) : log[i].generation <= s,
         NEW i \in DOMAIN log, Carries(log, i, s + 1)
  PROVE  i = k /\ log[k].generation = s + 1
<1>1. /\ i \in Nat /\ k \in Nat /\ i >= 1 /\ log[i].generation = s + 1
      /\ log[k].generation \in Nat
  BY LogTypes DEF Carries
<1>2. ~(i < k)
  <2>1. i < k => i \in 1..(k - 1)
    BY <1>1
  <2> QED BY <1>1, <2>1
<1>3. ~(k < i)
  BY <1>1 DEF Rising
<1> QED BY <1>1, <1>2, <1>3

\* Replaying that frame, or publishing it, links what was linked before.
LEMMA LinkedNext ==
  ASSUME NEW log \in Log, Rising(log), Storage!Clean(log),
         NEW s \in Storage!Snapshot, NEW k \in DOMAIN log,
         log[k].generation > s.generation,
         \A i \in 1..(k - 1) : log[i].generation <= s.generation,
         NEW c \in Storage!Snapshot, c.generation <= s.generation, Linked(log, c, s)
  PROVE  Linked(log, c, [generation |-> log[k].generation,
                         table |-> Storage!Apply(s.table, log[k].tx)])
<1> DEFINE next == [generation |-> log[k].generation,
                    table |-> Storage!Apply(s.table, log[k].tx)]
<1>1. /\ c.generation \in Nat /\ s.generation \in Nat /\ s.table \in Storage!Table
      /\ log[k].generation \in Nat /\ log[k].tx \in Storage!Changes
  BY LogTypes DEF Storage!Snapshot
<1>2. next.table \in Storage!Table
  <2>1. \A r \in DOMAIN log[k].tx : log[k].tx[r] # BadDoc
    BY DEF Storage!Clean, Storage!Decodable
  <2> QED BY <1>1, <2>1, Assumptions, Storage!ApplyType
<1>3. next.generation = log[k].generation
      /\ next.table = Storage!Apply(s.table, log[k].tx)
  OBVIOUS
<1> HIDE DEF next
<1> SUFFICES ASSUME Covers(log, c.generation, next.generation)
             PROVE  Leads(log, c, next)
  BY <1>3 DEF Linked, next
<1>4. \A g \in (c.generation + 1)..s.generation : g \in (c.generation + 1)..next.generation
  BY <1>1, <1>3
<1>5. Covers(log, c.generation, s.generation)
  BY <1>4 DEF Covers
<1>6. s.generation + 1 \in (c.generation + 1)..next.generation
  BY <1>1, <1>3
<1>7. PICK i \in DOMAIN log : Carries(log, i, s.generation + 1)
  BY <1>6 DEF Covers
<1>8. i = k /\ next.generation = s.generation + 1
  BY <1>1, <1>3, <1>7, NextFrame
<1>9. PICK old \in [c.generation..s.generation -> Storage!Table] :
        /\ old[c.generation] = c.table /\ old[s.generation] = s.table
        /\ \A g \in (c.generation + 1)..s.generation : Follows(log, old, g)
  BY <1>5 DEF Linked, Leads
<1> DEFINE tables == [g \in c.generation..next.generation |->
                        IF g = next.generation THEN next.table ELSE old[g]]
<1>10. /\ \A g \in c.generation..next.generation :
            tables[g] = IF g = next.generation THEN next.table ELSE old[g]
       /\ tables \in [c.generation..next.generation -> Storage!Table]
  <2>1. \A g \in c.generation..next.generation :
          g # next.generation => g \in c.generation..s.generation
    BY <1>1, <1>8
  <2> QED BY <1>2, <1>9, <2>1
<1> HIDE DEF tables
<1>11. /\ tables[c.generation] = c.table /\ tables[next.generation] = next.table
       /\ tables[s.generation] = s.table
  BY <1>1, <1>8, <1>9, <1>10
<1>12. ASSUME NEW g \in (c.generation + 1)..next.generation
       PROVE  Follows(log, tables, g)
  <2>1. CASE g = next.generation
    <3>1. g - 1 = s.generation
      BY <1>1, <1>8, <2>1
    <3>2. Carries(log, k, g)
      BY <1>7, <1>8, <2>1
    <3>3. tables[g] = Storage!Apply(tables[g - 1], log[k].tx)
      BY <1>3, <1>11, <2>1, <3>1
    <3> QED BY <3>2, <3>3 DEF Follows
  <2>2. CASE g # next.generation
    <3>1. g \in (c.generation + 1)..s.generation
      BY <1>1, <1>8, <2>2
    <3>2. Follows(log, old, g)
      BY <1>9, <3>1
    <3>3. tables[g] = old[g] /\ tables[g - 1] = old[g - 1]
      BY <1>1, <1>8, <1>10, <2>2, <3>1
    <3> QED BY <3>2, <3>3 DEF Follows
  <2> QED BY <2>1, <2>2
<1> QED BY <1>10, <1>11, <1>12 DEF Leads

\* Where a snapshot leads on, it does so by way of that frame.
LEMMA LeadsNext ==
  ASSUME NEW log \in Log, Rising(log),
         NEW s \in Storage!Snapshot, NEW k \in DOMAIN log,
         log[k].generation > s.generation,
         \A i \in 1..(k - 1) : log[i].generation <= s.generation,
         NEW d \in Storage!Snapshot, log[k].generation <= d.generation, Leads(log, s, d)
  PROVE  Leads(log, [generation |-> log[k].generation,
                     table |-> Storage!Apply(s.table, log[k].tx)], d)
<1> DEFINE next == [generation |-> log[k].generation,
                    table |-> Storage!Apply(s.table, log[k].tx)]
<1>1. /\ d.generation \in Nat /\ s.generation \in Nat /\ log[k].generation \in Nat
  BY LogTypes DEF Storage!Snapshot
<1>2. next.generation = log[k].generation
      /\ next.table = Storage!Apply(s.table, log[k].tx)
  OBVIOUS
<1>3. PICK old \in [s.generation..d.generation -> Storage!Table] :
        /\ old[s.generation] = s.table /\ old[d.generation] = d.table
        /\ \A g \in (s.generation + 1)..d.generation : Follows(log, old, g)
  BY DEF Leads
<1>4. s.generation + 1 \in (s.generation + 1)..d.generation
  BY <1>1
<1>13. PICK first : first = s.generation + 1
  OBVIOUS
<1>14. Follows(log, old, first)
  BY <1>3, <1>4, <1>13
<1>15. PICK i \in DOMAIN log :
        Carries(log, i, first) /\ old[first] = Storage!Apply(old[first - 1], log[i].tx)
  BY <1>14 DEF Follows
<1>5. /\ Carries(log, i, s.generation + 1)
      /\ old[s.generation + 1] = Storage!Apply(old[s.generation], log[i].tx)
  <2>1. first - 1 = s.generation
    BY <1>1, <1>13
  <2>2. Carries(log, i, s.generation + 1)
    BY <1>13, <1>15
  <2>3. old[first] = Storage!Apply(old[s.generation], log[i].tx)
    BY <1>15, <2>1
  <2> QED BY <1>13, <2>2, <2>3
<1>6. i = k /\ log[k].generation = s.generation + 1
  BY <1>1, <1>5, NextFrame
<1>7. old[s.generation + 1] = Storage!Apply(s.table, log[k].tx)
  BY <1>3, <1>5, <1>6
<1> DEFINE tables == [g \in (s.generation + 1)..d.generation |-> old[g]]
<1>8. /\ tables \in [(s.generation + 1)..d.generation -> Storage!Table]
      /\ \A g \in (s.generation + 1)..d.generation : tables[g] = old[g]
  <2>1. \A g \in (s.generation + 1)..d.generation : g \in s.generation..d.generation
    BY <1>1
  <2> QED BY <1>3, <2>1
<1> HIDE DEF tables
<1>9. tables[s.generation + 1] = next.table /\ tables[d.generation] = d.table
  <2>1. d.generation \in (s.generation + 1)..d.generation
    BY <1>1, <1>4
  <2> QED BY <1>2, <1>3, <1>4, <1>7, <1>8, <2>1
<1>10. ASSUME NEW g \in (s.generation + 1 + 1)..d.generation
       PROVE  Follows(log, tables, g)
  <2>1. g \in (s.generation + 1)..d.generation /\ g - 1 \in (s.generation + 1)..d.generation
    BY <1>1
  <2>2. Follows(log, old, g)
    BY <1>3, <2>1
  <2>3. tables[g] = old[g] /\ tables[g - 1] = old[g - 1]
    BY <1>8, <2>1
  <2> QED BY <2>2, <2>3 DEF Follows
<1>11. next.generation = s.generation + 1
  BY <1>2, <1>6
<1> HIDE DEF next
<1>12. Leads(log, next, d)
  BY <1>8, <1>9, <1>10, <1>11 DEF Leads
<1> QED BY <1>12 DEF next

-----------------------------------------------------------------------------
(* What the invariant says of the state.                                   *)

\* The types of everything that is linked.
LEMMA Links ==
  FInv => /\ wal \in Log /\ durable \in Log
          /\ Storage!Clean(wal) /\ Storage!Clean(durable)
          /\ Base \in SUBSET Storage!Snapshot
          /\ Current \in Storage!Snapshot /\ Current.generation = Storage!Newest
          /\ Current.table = history[Len(history)]
          /\ snapshot \in Storage!Snapshot
          /\ Storage!Newest \in Nat /\ Len(history) = Storage!Newest + 1
          /\ history \in Seq(Storage!Table)
<1> SUFFICES ASSUME FInv
             PROVE  /\ wal \in Log /\ durable \in Log
                    /\ Storage!Clean(wal) /\ Storage!Clean(durable)
                    /\ Base \in SUBSET Storage!Snapshot
                    /\ Current \in Storage!Snapshot /\ Current.generation = Storage!Newest
                    /\ Current.table = history[Len(history)]
                    /\ snapshot \in Storage!Snapshot
                    /\ Storage!Newest \in Nat /\ Len(history) = Storage!Newest + 1
                    /\ history \in Seq(Storage!Table)
  OBVIOUS
<1>1. /\ Storage!TypeOK /\ Storage!Clean(wal) /\ Storage!Clean(durable) /\ Filed
  BY DEF FInv, Sound, Storage!TypeInv
<1>2. /\ wal \in Log /\ durable \in Log /\ snapshot \in Storage!Snapshot
      /\ history \in Seq(Storage!Table)
  BY <1>1 DEF Storage!TypeOK, Log
<1>3. Readable \in SUBSET Storage!Snapshot
  BY <1>1, ReadableType, SameTables
<1>4. Default \in Storage!Snapshot
  BY DEF Default, Ground, Storage!Snapshot, Storage!Table
<1>5. /\ Storage!Newest \in Nat /\ Len(history) \in Nat \ {0}
      /\ Storage!Newest + 1 = Len(history)
      /\ \A i \in 1..Len(history) : history[i] \in Storage!Table
  BY <1>1, Assumptions, Storage!History
<1>6. Current \in Storage!Snapshot /\ Current.generation = Storage!Newest
      /\ Current.table = history[Len(history)]
  BY <1>5 DEF Current, Storage!Snapshot
<1> QED BY <1>1, <1>2, <1>3, <1>4, <1>5, <1>6 DEF Base

\* No other thread is in the locked part of commit or optimize.
LEMMA Alone ==
  ASSUME FInv, NEW w \in Workers, pc[w] \in Storage!Locked
  PROVE  \A v \in Workers : v # w => pc[v] \notin Storage!Locked
BY DEF FInv, Sound, Storage!Exclusive

\* Nothing happens to the log, to what is published and to the checkpoints
\* but that some may go, and no thread begins or ends to write.
LEMMA QuietDamage ==
  ASSUME DInv, FInv', UNCHANGED <<wal, durable, history, snapshot, cursor>>,
         Readable' \subseteq Readable,
         phase \in {"scan", "replay"} => Readable' = Readable,
         phase' = phase \/ (phase = "closed" /\ phase' = "corrupt"),
         \A v \in Workers :
           pc[v] \in Storage!Writing \/ pc'[v] \in Storage!Writing =>
             pc'[v] = pc[v] /\ operations'[v] = operations[v]
  PROVE  DInv'
<1>1. Storage!Newest' = Storage!Newest /\ Current' = Current
  BY DEF Storage!Newest, Current
<1>2. Logs' = Logs
  BY DEF Logs
<1>3. Default' = Default /\ Base' \subseteq Base
  BY DEF Default, Ground, Base
<1>4. Timeline'
  BY <1>1, <1>2, <1>3 DEF DInv, Timeline
<1>5. Storage!Settled' = Storage!Settled
  BY <1>1 DEF Storage!Settled
<1>6. Served'
  <2> SUFFICES ASSUME phase' = "ready" PROVE Served'
    BY DEF Served
  <2>1. phase = "ready"
    OBVIOUS
  <2>2. /\ snapshot' = Current' /\ \A c \in Readable' : c.generation <= Storage!Newest'
    BY <1>1, <2>1 DEF DInv, Served
  <2>3. \A v \in Workers : pc'[v] \in Storage!Writing <=> pc[v] \in Storage!Writing
    OBVIOUS
  <2>4. (\A v \in Workers : pc'[v] \notin Storage!Writing) => Storage!Settled'
    BY <1>5, <2>1, <2>3 DEF DInv, Served
  <2>5. ASSUME NEW v \in Workers, pc'[v] \in Storage!Writing
        PROVE  /\ wal' # <<>>
               /\ wal'[Len(wal')].generation = Storage!Newest' + 1
               /\ wal'[Len(wal')].tx = Storage!Canonicalize(operations'[v])
               /\ wal'[Len(wal')].good
               /\ pc'[v] \in {"sync", "publish"} => Storage!Whole(wal'[Len(wal')])
               /\ pc'[v] = "publish" => durable' = wal'
    BY <1>1, <2>1, <2>5 DEF DInv, Served
  <2>6. {"sync", "publish"} \subseteq Storage!Writing
    BY DEF Storage!Writing
  <2> QED BY <2>2, <2>4, <2>5, <2>6 DEF Served
<1>7. Recovering'
  <2>1. phase' \in {"scan", "replay"} => Base' = Base
    BY <1>3 DEF Base
  <2>2. phase' \in {"scan", "replay"} => Reached'
    BY <1>1, <1>2, <2>1 DEF DInv, Recovering, Reached
  <2> QED BY <2>2 DEF DInv, Recovering
<1> QED BY <1>4, <1>6, <1>7 DEF DInv

\* A thread moves between points of its call that are not part of a write.
LEMMA ThreadDamage ==
  ASSUME DInv, FInv', UNCHANGED <<wal, durable, history, snapshot, cursor, phase>>,
         Readable' \subseteq Readable,
         NEW w \in Workers, NEW from, NEW to, Engine!Step(w, from, to),
         from \notin Storage!Writing, to \notin Storage!Writing,
         \A v \in Workers : v # w => operations'[v] = operations[v]
  PROVE  DInv'
<1>1. pc \in [Workers -> Storage!PcValues]
  BY Types DEF DInv, FInv, Sound
<1>2. phase = "ready" /\ pc[w] = from
      /\ \A v \in Workers : pc'[v] = IF v = w THEN to ELSE pc[v]
  BY <1>1 DEF Engine!Step
<1> QED BY <1>2, QuietDamage

-----------------------------------------------------------------------------
(* Steps of commit.                                                        *)

\* commit writes part of a frame, which no recovery takes for a commit.
LEMMA AppendPartDamage ==
  ASSUME DInv, FInv', NEW w \in Workers, Storage!AppendPart(w),
         UNCHANGED files
  PROVE  DInv'
<1>1. /\ UNCHANGED <<durable, phase, snapshot, operations, history, cursor>>
      /\ phase = "ready" /\ pc[w] = "append" /\ Storage!Step(w, "append", "appending")
  BY DEF Storage!AppendPart, Storage!Step, Storage!openVars
<1>2. Readable' = Readable /\ Base' = Base /\ Current' = Current
      /\ Storage!Newest' = Storage!Newest
  BY <1>1, ListingStays DEF Named, Base, Default, Ground, Current, Storage!Newest
<1>3. PICK payload \in PayloadSizes :
        \E have \in 1..(Storage!HeaderUnits + payload - 1) :
          wal' = Append(wal, Storage!NewFrame(w, payload, have))
  BY DEF Storage!AppendPart
<1>4. PICK have \in 1..(Storage!HeaderUnits + payload - 1) :
          wal' = Append(wal, Storage!NewFrame(w, payload, have))
  BY <1>3
<1> DEFINE f == Storage!NewFrame(w, payload, have)
<1>5. payload \in Nat /\ have # Storage!HeaderUnits + payload
  BY Assumptions DEF Storage!HeaderUnits
<1>6. /\ f.generation = snapshot.generation + 1
      /\ f.tx = Storage!Canonicalize(operations[w]) /\ f.good /\ ~Storage!Whole(f)
  BY <1>5 DEF Storage!NewFrame, Storage!Whole
<1>7. wal' = Append(wal, f)
  BY <1>4
<1> HIDE DEF f
<1>8. wal \in Log /\ wal' \in Log /\ snapshot = Current
      /\ Current.generation = Storage!Newest /\ Storage!Newest \in Nat
      /\ Base \in SUBSET Storage!Snapshot /\ Current \in Storage!Snapshot
      /\ durable \in Log
  <2>1. (FInv => wal \in Log)'
    BY Links, PTL
  <2> QED BY <1>1, <2>1, Links DEF DInv, Served, Log
<1>9. /\ DOMAIN wal = 1..Len(wal) /\ Len(wal) \in Nat
      /\ DOMAIN wal' = 1..(Len(wal) + 1) /\ Len(wal') = Len(wal) + 1
      /\ \A i \in DOMAIN wal : wal'[i] = wal[i]
      /\ wal'[Len(wal) + 1] = f
  BY <1>7, <1>8, LogTypes
<1>10. Storage!Settled
  <2>1. \A v \in Workers : pc[v] \notin Storage!Writing
    <3>1. "append" \in Storage!Locked /\ "append" \notin Storage!Writing
          /\ Storage!Writing \subseteq Storage!Locked
      BY DEF Storage!Locked, Storage!InCommit, Storage!Writing
    <3> QED BY <1>1, <3>1, Alone DEF DInv
  <2> QED BY <1>1, <2>1 DEF DInv, Served
<1>11. Rising(wal')
  <2> SUFFICES ASSUME NEW i \in DOMAIN wal', NEW j \in DOMAIN wal', i < j
               PROVE  Storage!Whole(wal'[i]) /\ wal'[i].generation < wal'[j].generation
    BY DEF Rising
  <2>1. i \in DOMAIN wal
    BY <1>9
  <2>2. CASE j \in DOMAIN wal
    BY <1>9, <2>1, <2>2 DEF DInv, Timeline, Rising, Logs
  <2>3. CASE j \notin DOMAIN wal
    <3>1. j = Len(wal) + 1 /\ wal'[j].generation = Storage!Newest + 1
      BY <1>6, <1>8, <1>9, <2>3
    <3>2. Storage!Whole(wal[i]) /\ wal[i].generation <= Storage!Newest
          /\ wal[i].generation \in Nat
      BY <1>8, <1>10, <2>1, LogTypes DEF Storage!Settled
    <3> QED BY <1>8, <1>9, <2>1, <3>1, <3>2
  <2> QED BY <2>2, <2>3
<1>12. \A to : Within(wal', wal, to)
  BY <1>6, <1>9 DEF Within
<1>13. Timeline'
  <2> SUFFICES ASSUME NEW log \in Logs'
               PROVE  /\ Rising(log)
                      /\ \A c \in Base, d \in Base \cup {Current} : Linked(log, c, d)
    BY <1>2 DEF Timeline
  <2>1. CASE log = wal'
    BY <1>8, <1>11, <1>12, <2>1, LinkedWithin DEF DInv, Timeline, Logs
  <2>2. CASE log = durable /\ "power" \in CrashKinds
    BY <2>2 DEF DInv, Timeline, Logs
  <2> QED BY <1>1, <2>1, <2>2 DEF Logs
<1>14. \A v \in Workers : pc'[v] = IF v = w THEN "appending" ELSE pc[v]
  BY <1>1, Types DEF DInv, FInv, Sound, Storage!Step
<1>15. \A v \in Workers : v # w => pc'[v] \notin Storage!Writing
  <2>1. "append" \in Storage!Locked /\ Storage!Writing \subseteq Storage!Locked
    BY DEF Storage!Locked, Storage!InCommit, Storage!Writing
  <2> QED BY <1>1, <1>14, <2>1, Alone DEF DInv
<1>16. Served'
  <2>1. /\ snapshot' = Current' /\ \A c \in Readable' : c.generation <= Storage!Newest'
    BY <1>1, <1>2 DEF DInv, Served
  <2>2. pc'[w] = "appending" /\ pc'[w] \in Storage!Writing
    BY <1>14 DEF Storage!Writing
  <2>3. /\ wal' # <<>>
        /\ wal'[Len(wal')].generation = Storage!Newest' + 1
        /\ wal'[Len(wal')].tx = Storage!Canonicalize(operations'[w])
        /\ wal'[Len(wal')].good
    BY <1>1, <1>2, <1>6, <1>8, <1>9
  <2>4. \A v \in Workers : pc'[v] \in {"sync", "publish"} => pc'[v] \in Storage!Writing
    BY DEF Storage!Writing
  <2> QED BY <1>15, <2>1, <2>2, <2>3, <2>4 DEF Served
<1>17. Recovering'
  BY <1>1 DEF Recovering
<1> QED BY <1>13, <1>16, <1>17 DEF DInv

\* The frame is whole; its generation is beyond everything that is linked.
LEMMA AppendRestDamage ==
  ASSUME DInv, FInv', NEW w \in Workers, Storage!AppendRest(w),
         UNCHANGED files
  PROVE  DInv'
<1>1. /\ UNCHANGED <<durable, phase, snapshot, operations, history, cursor>>
      /\ phase = "ready" /\ pc[w] = "appending" /\ Storage!Step(w, "appending", "sync")
      /\ wal' = [wal EXCEPT ![Len(wal)].have = wal[Len(wal)].size]
  BY DEF Storage!AppendRest, Storage!Step, Storage!openVars
<1>2. Readable' = Readable /\ Base' = Base /\ Current' = Current
      /\ Storage!Newest' = Storage!Newest
  BY <1>1, ListingStays DEF Named, Base, Default, Ground, Current, Storage!Newest
<1>3. wal \in Log /\ wal' \in Log /\ snapshot = Current
      /\ Current.generation = Storage!Newest /\ Storage!Newest \in Nat
      /\ Base \in SUBSET Storage!Snapshot /\ Current \in Storage!Snapshot
      /\ durable \in Log
      /\ \A c \in Base : c.generation <= Storage!Newest
  <2>1. /\ wal \in Log /\ snapshot = Current
        /\ Current.generation = Storage!Newest /\ Storage!Newest \in Nat
        /\ Base \in SUBSET Storage!Snapshot /\ Current \in Storage!Snapshot
        /\ durable \in Log
    BY <1>1, Links DEF DInv, Served
  <2>2. wal' \in Log
    <3>1. (FInv => wal \in Log)'
      BY Links, PTL
    <3> QED BY <3>1 DEF Log
  <2>3. \A c \in Base : c.generation <= Storage!Newest
    BY <1>1, <2>1 DEF DInv, Served, Base, Default
  <2> QED BY <2>1, <2>2, <2>3
<1> DEFINE n == Len(wal)
<1>4. /\ wal # <<>> /\ wal[n].generation = Storage!Newest + 1
      /\ wal[n].tx = Storage!Canonicalize(operations[w]) /\ wal[n].good
  BY <1>1 DEF DInv, Served, Storage!Writing
<1>5. n \in DOMAIN wal /\ DOMAIN wal = 1..n /\ n \in Nat
      /\ wal[n] \in Storage!Frame
  BY <1>3, <1>4, LogTypes
<1>6. /\ DOMAIN wal' = 1..n /\ Len(wal') = n
      /\ \A i \in DOMAIN wal : i # n => wal'[i] = wal[i]
      /\ wal'[n] = [wal[n] EXCEPT !.have = wal[n].size]
  BY <1>1, <1>3, <1>5, LogTypes
<1> HIDE DEF n
<1>7. /\ wal'[n].generation = wal[n].generation /\ wal'[n].tx = wal[n].tx
      /\ Storage!Whole(wal'[n]) /\ wal'[n].good
  BY <1>4, <1>5, <1>6 DEF Storage!Frame, Storage!Whole
<1>8. Rising(wal) /\ \A i \in DOMAIN wal : wal'[i].generation = wal[i].generation
  BY <1>6, <1>7 DEF DInv, Timeline, Logs
<1>9. Rising(wal')
  <2>1. \A i, j \in DOMAIN wal : i < j => i # n
    BY <1>5
  <2> QED BY <1>5, <1>6, <1>8, <2>1 DEF Rising
<1>10. ASSUME NEW to \in Nat, to <= Storage!Newest PROVE Within(wal', wal, to)
  <2> SUFFICES ASSUME NEW i \in DOMAIN wal', wal'[i].generation <= to
               PROVE  \E j \in DOMAIN wal : wal[j] = wal'[i]
    BY DEF Within
  <2>1. i # n
    BY <1>3, <1>4, <1>7, <1>10
  <2> QED BY <1>5, <1>6, <2>1
<1>11. Timeline'
  <2> SUFFICES ASSUME NEW log \in Logs'
               PROVE  /\ Rising(log)
                      /\ \A c \in Base, d \in Base \cup {Current} : Linked(log, c, d)
    BY <1>2 DEF Timeline
  <2>1. CASE log = wal'
    <3>1. ASSUME NEW c \in Base, NEW d \in Base \cup {Current} PROVE Linked(wal', c, d)
      <4>1. c \in Storage!Snapshot /\ d \in Storage!Snapshot
            /\ d.generation \in Nat /\ d.generation <= Storage!Newest
        BY <1>3 DEF Storage!Snapshot
      <4>2. Linked(wal, c, d)
        BY DEF DInv, Timeline, Logs
      <4> QED BY <1>3, <1>8, <1>10, <4>1, <4>2, LinkedWithin
    <3> QED BY <1>9, <2>1, <3>1
  <2>2. CASE log = durable /\ "power" \in CrashKinds
    BY <2>2 DEF DInv, Timeline, Logs
  <2> QED BY <1>1, <2>1, <2>2 DEF Logs
<1>12. \A v \in Workers : pc'[v] = IF v = w THEN "sync" ELSE pc[v]
  BY <1>1, Types DEF DInv, FInv, Sound, Storage!Step
<1>13. \A v \in Workers : v # w => pc'[v] \notin Storage!Writing
  <2>1. "appending" \in Storage!Locked /\ Storage!Writing \subseteq Storage!Locked
    BY DEF Storage!Locked, Storage!InCommit, Storage!Writing
  <2> QED BY <1>1, <1>12, <2>1, Alone DEF DInv
<1>14. Served'
  <2>1. /\ snapshot' = Current' /\ \A c \in Readable' : c.generation <= Storage!Newest'
    BY <1>1, <1>2 DEF DInv, Served
  <2>2. pc'[w] = "sync" /\ pc'[w] \in Storage!Writing
    BY <1>12 DEF Storage!Writing
  <2>3. /\ wal' # <<>>
        /\ wal'[Len(wal')].generation = Storage!Newest' + 1
        /\ wal'[Len(wal')].tx = Storage!Canonicalize(operations'[w])
        /\ wal'[Len(wal')].good /\ Storage!Whole(wal'[Len(wal')])
    <3>1. Len(wal') # 0
      BY <1>5, <1>6
    <3> QED BY <1>1, <1>2, <1>3, <1>4, <1>6, <1>7, <3>1, LogTypes
  <2>4. \A v \in Workers : pc'[v] \in {"sync", "publish"} => pc'[v] \in Storage!Writing
    BY DEF Storage!Writing
  <2> QED BY <1>13, <2>1, <2>2, <2>3, <2>4 DEF Served
<1>15. Recovering'
  BY <1>1 DEF Recovering
<1> QED BY <1>11, <1>14, <1>15 DEF DInv

\* What is synced is what the file holds.
LEMMA SyncDamage ==
  ASSUME DInv, FInv', NEW w \in Workers,
         Storage!SyncWal(w) \/ Storage!SwapCompacted(w), UNCHANGED files
  PROVE  DInv'
<1>1. /\ UNCHANGED <<wal, phase, snapshot, operations, history, cursor>>
      /\ phase = "ready" /\ durable' = wal
      /\ \/ Storage!Step(w, "sync", "publish")
         \/ Storage!Step(w, "truncateSync", "sweep")
  BY DEF Storage!SyncWal, Storage!SwapCompacted, Storage!Step, Storage!openVars
<1>2. Readable' = Readable /\ Base' = Base /\ Current' = Current
      /\ Storage!Newest' = Storage!Newest
  BY <1>1, ListingStays DEF Named, Base, Default, Ground, Current, Storage!Newest
<1>3. Timeline'
  <2>1. \A log \in Logs' : log \in Logs
    BY <1>1 DEF Logs
  <2> QED BY <1>2, <2>1 DEF DInv, Timeline
<1>4. \A v \in Workers : v # w => pc'[v] = pc[v]
  BY <1>1, Types DEF DInv, FInv, Sound, Storage!Step
<1>5. \/ pc[w] = "sync" /\ pc'[w] = "publish"
      \/ pc[w] = "truncateSync" /\ pc'[w] = "sweep"
  BY <1>1, Types DEF DInv, FInv, Sound, Storage!Step
<1>6. Served'
  <2>1. /\ snapshot' = Current' /\ \A c \in Readable' : c.generation <= Storage!Newest'
    BY <1>1, <1>2 DEF DInv, Served
  <2>2. \A v \in Workers : pc'[v] \in Storage!Writing <=> pc[v] \in Storage!Writing
    BY <1>4, <1>5 DEF Storage!Writing
  <2>3. (\A v \in Workers : pc'[v] \notin Storage!Writing) => Storage!Settled'
    BY <1>1, <1>2, <2>2 DEF DInv, Served, Storage!Settled
  <2>4. \A v \in Workers :
         /\ pc'[v] \in Storage!Writing =>
              /\ wal' # <<>>
              /\ wal'[Len(wal')].generation = Storage!Newest' + 1
              /\ wal'[Len(wal')].tx = Storage!Canonicalize(operations'[v])
              /\ wal'[Len(wal')].good
         /\ pc'[v] \in {"sync", "publish"} => pc[v] \in {"sync", "publish"}
    BY <1>1, <1>2, <1>4, <1>5, <2>2 DEF DInv, Served
  <2>5. \A v \in Workers : pc'[v] \in {"sync", "publish"} => Storage!Whole(wal'[Len(wal')])
    BY <1>1, <2>4 DEF DInv, Served
  <2> QED BY <1>1, <2>1, <2>3, <2>4, <2>5 DEF Served
<1>7. Recovering'
  BY <1>1 DEF Recovering
<1> QED BY <1>3, <1>6, <1>7 DEF DInv

\* commit publishes the generation of its frame, to which the log leads from
\* wherever it leads to the generation before.
LEMMA PublishDamage ==
  ASSUME DInv, FInv', NEW w \in Workers, Storage!Publish(w), UNCHANGED files
  PROVE  DInv'
<1> DEFINE next == Storage!Apply(snapshot.table, Storage!Canonicalize(operations[w]))
<1>1. /\ UNCHANGED <<wal, durable, phase, operations, cursor>>
      /\ phase = "ready" /\ pc[w] = "publish"
      /\ Storage!Step(w, "publish", "commitReturn")
      /\ snapshot' = [generation |-> snapshot.generation + 1, table |-> next]
      /\ history' = Append(history, next)
  BY DEF Storage!Publish, Storage!Step, Storage!openVars, Storage!diskVars
<1> HIDE DEF next
<1>2. /\ wal \in Log /\ durable \in Log /\ snapshot = Current
      /\ Current.generation = Storage!Newest /\ Storage!Newest \in Nat
      /\ Current.table = history[Len(history)] /\ Len(history) = Storage!Newest + 1
      /\ Base \in SUBSET Storage!Snapshot /\ Current \in Storage!Snapshot
      /\ Storage!Clean(wal) /\ history \in Seq(Storage!Table)
      /\ \A c \in Base : c.generation <= Storage!Newest
  <2>1. \A c \in Base : c.generation <= Storage!Newest
    BY <1>1, Links DEF DInv, Served, Base, Default
  <2> QED BY <1>1, <2>1, Links DEF DInv, Served
<1> DEFINE n == Len(wal)
<1>3. /\ wal # <<>> /\ wal[n].generation = Storage!Newest + 1
      /\ wal[n].tx = Storage!Canonicalize(operations[w])
      /\ Storage!Whole(wal[n]) /\ durable = wal
  BY <1>1 DEF DInv, Served, Storage!Writing
<1>4. n \in DOMAIN wal /\ DOMAIN wal = 1..n /\ n \in Nat
  BY <1>2, <1>3, LogTypes
<1> HIDE DEF n
<1>5. Rising(wal) /\ \A c \in Base, d \in Base \cup {Current} : Linked(wal, c, d)
  BY DEF DInv, Timeline, Logs
<1>6. /\ Len(history') = Len(history) + 1 /\ history'[Len(history) + 1] = next
      /\ Storage!Newest' = Storage!Newest + 1
  <2>1. next \in Storage!Table
    <3>1. (FInv => snapshot \in Storage!Snapshot)'
      BY Links, PTL
    <3> QED BY <1>1, <3>1 DEF Storage!Snapshot, Storage!Table
  <2>2. Len(history') = Len(history) + 1 /\ history'[Len(history) + 1] = next
    BY <1>1, <1>2, <2>1, AppendProperties
  <2> QED BY <1>2, <2>2 DEF Storage!Newest
<1>7. /\ Current' = [generation |-> wal[n].generation,
                     table |-> Storage!Apply(Current.table, wal[n].tx)]
      /\ snapshot' = Current'
  BY <1>1, <1>2, <1>3, <1>6 DEF Current, next
<1>8. Readable' = Readable /\ Base' = Base
  BY ListingStays DEF Named, Base, Default, Ground
<1>9. \A i \in 1..(n - 1) : wal[i].generation <= Current.generation
  <2> SUFFICES ASSUME NEW i \in 1..(n - 1)
               PROVE  wal[i].generation <= Current.generation
    OBVIOUS
  <2>1. i \in DOMAIN wal /\ i < n
    BY <1>4
  <2>2. wal[i].generation < wal[n].generation /\ wal[i].generation \in Nat
    BY <1>2, <1>4, <1>5, <2>1, LogTypes DEF Rising
  <2> QED BY <1>2, <1>3, <2>2
<1>10. \A c \in Base : Linked(wal, c, Current')
  <2> SUFFICES ASSUME NEW c \in Base PROVE Linked(wal, c, Current')
    OBVIOUS
  <2>1. wal[n].generation > Current.generation
    BY <1>2, <1>3
  <2> QED BY <1>2, <1>4, <1>5, <1>7, <1>9, <2>1, LinkedNext
<1>11. Timeline'
  <2>1. \A log \in Logs' : log = wal
    BY <1>1, <1>3 DEF Logs
  <2> QED BY <1>5, <1>8, <1>10, <2>1 DEF Timeline
<1>12. \A v \in Workers : pc'[v] \notin Storage!Writing
  <2>1. \A v \in Workers : pc'[v] = IF v = w THEN "commitReturn" ELSE pc[v]
    BY <1>1, Types DEF DInv, FInv, Sound, Storage!Step
  <2>2. "publish" \in Storage!Locked /\ Storage!Writing \subseteq Storage!Locked
        /\ "commitReturn" \notin Storage!Writing
    BY DEF Storage!Locked, Storage!InCommit, Storage!Writing
  <2> QED BY <1>1, <2>1, <2>2, Alone DEF DInv
<1>13. Storage!Settled'
  <2> SUFFICES ASSUME NEW i \in DOMAIN wal
               PROVE  Storage!Whole(wal[i]) /\ wal[i].generation <= Storage!Newest'
    BY <1>1 DEF Storage!Settled
  <2>1. CASE i = n
    BY <1>2, <1>3, <1>6, <2>1
  <2>2. CASE i # n
    <3>1. i < n /\ i \in 1..(n - 1)
      BY <1>4, <2>2
    <3>2. Storage!Whole(wal[i]) /\ wal[i].generation <= Current.generation
      BY <1>4, <1>5, <1>9, <3>1 DEF Rising
    <3>3. wal[i].generation \in Nat
      BY <1>2, LogTypes
    <3> QED BY <1>2, <1>6, <3>2, <3>3
  <2> QED BY <2>1, <2>2
<1>14. Served'
  <2>1. \A c \in Readable' : c.generation <= Storage!Newest'
    <3>1. \A c \in Readable : c.generation \in Nat /\ c.generation <= Storage!Newest
      BY <1>2 DEF Base, Storage!Snapshot
    <3> QED BY <1>2, <1>6, <1>8, <3>1
  <2>2. {"sync", "publish"} \subseteq Storage!Writing
    BY DEF Storage!Writing
  <2> QED BY <1>7, <1>12, <1>13, <2>1, <2>2 DEF Served
<1>15. Recovering'
  BY <1>1 DEF Recovering
<1> QED BY <1>11, <1>14, <1>15 DEF DInv

-----------------------------------------------------------------------------
(* Steps of optimize.                                                      *)

\* An empty log covers nothing.
LEMMA TruncateDamage ==
  ASSUME DInv, FInv', NEW w \in Workers, Storage!Truncate(w), UNCHANGED files
  PROVE  DInv'
<1>1. /\ UNCHANGED <<durable, phase, snapshot, operations, history, cursor>>
      /\ phase = "ready" /\ pc[w] = "truncate" /\ wal' = <<>>
      /\ Storage!Step(w, "truncate", "truncateSync")
  BY DEF Storage!Truncate, Storage!Step, Storage!openVars
<1>2. Readable' = Readable /\ Base' = Base /\ Current' = Current
      /\ Storage!Newest' = Storage!Newest
  BY <1>1, ListingStays DEF Named, Base, Default, Ground, Current, Storage!Newest
<1>3. DOMAIN wal' = {}
  BY <1>1
<1>4. Rising(wal') /\ \A to : Within(wal', wal, to)
  BY <1>3 DEF Rising, Within
<1>5. Timeline'
  <2> SUFFICES ASSUME NEW log \in Logs'
               PROVE  /\ Rising(log)
                      /\ \A c \in Base, d \in Base \cup {Current} : Linked(log, c, d)
    BY <1>2 DEF Timeline
  <2>1. CASE log = wal'
    BY <1>4, <2>1, Links, LinkedWithin DEF DInv, Timeline, Logs
  <2>2. CASE log = durable /\ "power" \in CrashKinds
    BY <2>2 DEF DInv, Timeline, Logs
  <2> QED BY <1>1, <2>1, <2>2 DEF Logs
<1>6. \A v \in Workers : pc'[v] \notin Storage!Writing
  <2>1. \A v \in Workers : pc'[v] = IF v = w THEN "truncateSync" ELSE pc[v]
    BY <1>1, Types DEF DInv, FInv, Sound, Storage!Step
  <2>2. "truncate" \in Storage!Locked /\ Storage!Writing \subseteq Storage!Locked
        /\ "truncateSync" \notin Storage!Writing
    BY DEF Storage!Locked, Storage!InCommit, Storage!InOptimize, Storage!Writing
  <2> QED BY <1>1, <2>1, <2>2, Alone DEF DInv
<1>7. Served'
  <2>1. Storage!Settled'
    BY <1>3 DEF Storage!Settled
  <2>2. {"sync", "publish"} \subseteq Storage!Writing
    BY DEF Storage!Writing
  <2> QED BY <1>1, <1>2, <1>6, <2>1, <2>2 DEF DInv, Served
<1>8. Recovering'
  BY <1>1 DEF Recovering
<1> QED BY <1>5, <1>7, <1>8 DEF DInv

\* The file that is renamed reads as the published snapshot, and so it is
\* linked as that is.
LEMMA RenameDamage ==
  ASSUME DInv, FInv', NEW w \in Workers, Rename(w)
  PROVE  DInv'
<1>1. /\ UNCHANGED <<wal, durable, phase, snapshot, operations, history, cursor>>
      /\ phase = "ready" /\ pc[w] = "rename" /\ Storage!Step(w, "rename", "truncate")
      /\ files' = (files \ (Own("tmp") \cup Own("kst"))) \cup
                  {[f EXCEPT !.extension = "kst"] : f \in Own("tmp")}
  BY DEF Rename, Engine!Step, Storage!Step
<1>2. /\ wal \in Log /\ durable \in Log /\ snapshot = Current
      /\ Current.generation = Storage!Newest /\ Storage!Newest \in Nat
      /\ Base \in SUBSET Storage!Snapshot /\ Current \in Storage!Snapshot
      /\ \A c \in Base : c.generation <= Storage!Newest
  <2>1. \A c \in Base : c.generation <= Storage!Newest
    BY <1>1, Links DEF DInv, Served, Base, Default
  <2> QED BY <1>1, <2>1, Links DEF DInv, Served
<1>3. Current' = Current /\ Storage!Newest' = Storage!Newest
  BY <1>1 DEF Current, Storage!Newest
<1>4. Readable' \subseteq Readable \cup {Current}
  <2>1. Storage!TypeInv /\ Filed /\ Stamped
    BY DEF DInv, FInv, Sound
  <2>2. stamp # 0 /\ Compacted("tmp")
    BY <1>1, <2>1 DEF Stamped, Engine!InOptimize
  <2>3. PICK own \in Own("tmp") : own.whole /\ own.content = snapshot.table
    BY <2>2 DEF Compacted
  <2>4. own.format = "native" /\ ReadCheckpoint(own) = snapshot /\ own \in File
    BY <2>1, <2>2, <2>3, OwnIsSnapshot DEF Filed, Own, Named
  <2>5. Own("tmp") = {own}
    BY <2>1, <2>3, OwnIsOne
  <2> DEFINE renamed == [own EXCEPT !.extension = "kst"]
  <2>6. /\ renamed.format = own.format /\ renamed.content = own.content
        /\ renamed.generation = own.generation
    BY <2>4 DEF File
  <2>7. files' \subseteq files \cup {renamed}
    BY <1>1, <2>5
  <2> HIDE DEF renamed
  <2>8. ReadCheckpoint(renamed) = snapshot
    BY <2>4, <2>6 DEF ReadCheckpoint
  <2>9. Readable' = {ReadCheckpoint(f) : f \in {g \in Named("kst")' : g.whole}}
    BY DEF Readable, ReadCheckpoint
  <2>10. \A f \in Named("kst")' : f = renamed \/ f \in Named("kst")
    BY <2>7 DEF Named
  <2>11. \A f \in Named("kst") : f.whole => ReadCheckpoint(f) \in Readable
    BY DEF Readable
  <2> QED BY <1>2, <2>8, <2>9, <2>10, <2>11
<1>5. Base' \subseteq Base \cup {Current}
  BY <1>4 DEF Base, Default, Ground
<1>6. Timeline'
  <2> SUFFICES ASSUME NEW log \in Logs, NEW c \in Base \cup {Current},
                      NEW d \in Base \cup {Current}
               PROVE  Rising(log) /\ Linked(log, c, d)
    <3>1. Logs' = Logs
      BY <1>1 DEF Logs
    <3> QED BY <1>3, <1>5, <3>1 DEF Timeline
  <2>1. Rising(log) /\ (c \in Base => Linked(log, c, d))
        /\ (d \in Base => Linked(log, d, Current))
    BY DEF DInv, Timeline
  <2>2. CASE c = Current
    <3>1. d.generation <= c.generation /\ d \in Storage!Snapshot
          /\ c \in Storage!Snapshot /\ d.generation \in Nat /\ c.generation \in Nat
      BY <1>2, <2>2 DEF Storage!Snapshot
    <3>2. CASE d.generation = c.generation
      <4>1. d = c
        BY <2>1, <2>2, <3>1, <3>2, LinkedSame
      <4> QED BY <2>1, <3>1, <4>1, LinkedSame
    <3>3. CASE d.generation # c.generation
      BY <2>1, <3>1, <3>3 DEF Linked
    <3> QED BY <3>2, <3>3
  <2> QED BY <2>1, <2>2
<1>7. \A v \in Workers : pc'[v] = IF v = w THEN "truncate" ELSE pc[v]
  BY <1>1, Types DEF DInv, FInv, Sound, Storage!Step
<1>8. Served'
  <2>1. \A c \in Readable' : c.generation <= Storage!Newest'
    BY <1>2, <1>3, <1>4 DEF Base
  <2>2. \A v \in Workers :
          /\ pc'[v] \in Storage!Writing <=> pc[v] \in Storage!Writing
          /\ pc'[v] \in Storage!Writing => pc'[v] = pc[v]
    BY <1>1, <1>7 DEF Storage!Writing
  <2>3. Storage!Settled' <=> Storage!Settled
    BY <1>1, <1>3 DEF Storage!Settled
  <2>4. {"sync", "publish"} \subseteq Storage!Writing
    BY DEF Storage!Writing
  <2>5. (\A v \in Workers : pc'[v] \notin Storage!Writing) => Storage!Settled'
    BY <1>1, <2>2, <2>3 DEF DInv, Served
  <2>6. ASSUME NEW v \in Workers, pc'[v] \in Storage!Writing
        PROVE  /\ wal' # <<>>
               /\ wal'[Len(wal')].generation = Storage!Newest' + 1
               /\ wal'[Len(wal')].tx = Storage!Canonicalize(operations'[v])
               /\ wal'[Len(wal')].good
               /\ pc'[v] \in {"sync", "publish"} => Storage!Whole(wal'[Len(wal')])
               /\ pc'[v] = "publish" => durable' = wal'
    BY <1>1, <1>3, <2>2, <2>6 DEF DInv, Served
  <2> QED BY <1>1, <1>2, <1>3, <2>1, <2>4, <2>5, <2>6 DEF Served
<1>9. Recovering'
  BY <1>1 DEF Recovering
<1> QED BY <1>6, <1>8, <1>9 DEF DInv

-----------------------------------------------------------------------------
(* Steps of open.                                                          *)

\* Recovery starts from a base that no other is newer than.
LEMMA LoadDamage ==
  ASSUME DInv, FInv', LoadEnds
  PROVE  DInv'
<1>1. /\ UNCHANGED <<wal, durable, operations, pc, history, files>>
      /\ phase = "closed" /\ phase' = "scan" /\ cursor' = 1
  BY DEF LoadEnds
<1>2. Readable' = Readable /\ Base' = Base /\ Current' = Current /\ Logs' = Logs
      /\ Storage!Newest' = Storage!Newest
  BY <1>1, ListingStays DEF Named, Base, Default, Ground, Current, Storage!Newest, Logs
<1>3. Timeline'
  BY <1>2 DEF DInv, Timeline
<1>4. /\ snapshot' \in Base
      /\ \A c \in Base : c.generation <= snapshot'.generation
  <2>1. LoadsNewestReadable'
    BY DEF FInv
  <2>2. Ground' = Ground /\ Named("kst")' = Named("kst")
    BY <1>1 DEF Ground, Named
  <2>3. \/ Named("kst") = {} /\ snapshot' = Default
        \/ snapshot' \in Readable /\ \A c \in Readable : c.generation <= snapshot'.generation
    BY <1>1, <1>2, <2>1, <2>2 DEF LoadsNewestReadable, Default
  <2>4. Named("kst") = {} => Readable = {}
    BY DEF Readable
  <2>5. snapshot' \in Base
    BY <2>3 DEF Base
  <2>6. snapshot'.generation \in Nat /\ Default.generation = 0
    BY <2>5, Links DEF DInv, Default, Storage!Snapshot
  <2> QED BY <2>3, <2>4, <2>5, <2>6 DEF Base
<1>5. Reached'
  <2>1. ASSUME NEW c \in Base, \A d \in Readable : d.generation <= c.generation,
               Covers(wal, c.generation, Storage!Newest),
               snapshot'.generation <= Storage!Newest
        PROVE  Leads(wal, snapshot', Current)
    <3>1. c.generation = snapshot'.generation
      <4>1. c.generation \in Nat /\ snapshot'.generation \in Nat
        BY <1>4, Links DEF DInv, Storage!Snapshot
      <4>2. snapshot'.generation <= c.generation
        BY <1>4, <2>1, <4>1 DEF Base, Default
      <4> QED BY <1>4, <4>1, <4>2
    <3>2. Linked(wal, snapshot', Current) /\ Current.generation = Storage!Newest
      BY <1>4, Links DEF DInv, Timeline, Logs
    <3> QED BY <2>1, <3>1, <3>2 DEF Linked
  <2>2. \A c \in Readable : c.generation <= snapshot'.generation
    BY <1>4 DEF Base
  <2>3. \A log \in Logs, c \in Base : Linked(log, c, snapshot')
    BY <1>4 DEF DInv, Timeline
  <2> QED BY <1>1, <1>2, <2>1, <2>2, <2>3 DEF Reached
<1>6. Served'
  BY <1>1 DEF Served
<1>7. Recovering'
  BY <1>1, <1>5 DEF DInv, Recovering
<1> QED BY <1>3, <1>6, <1>7 DEF DInv

\* read_wal accepts a whole frame.
LEMMA ScanFrameDamage ==
  ASSUME DInv, FInv', Storage!ScanFrame, UNCHANGED files
  PROVE  DInv'
<1>1. /\ UNCHANGED <<wal, durable, phase, snapshot, operations, pc, history>>
      /\ phase = "scan" /\ cursor' = cursor + 1 /\ Storage!Verdict(cursor) = "commit"
  BY DEF Storage!ScanFrame, Storage!diskVars, Storage!threadVars
<1>2. Readable' = Readable /\ Base' = Base /\ Current' = Current /\ Logs' = Logs
      /\ Storage!Newest' = Storage!Newest
  BY <1>1, ListingStays DEF Named, Base, Default, Ground, Current, Storage!Newest, Logs
<1>3. Timeline' /\ Served'
  BY <1>1, <1>2 DEF DInv, Timeline, Served
<1>4. Reached'
  BY <1>1, <1>2 DEF DInv, Recovering, Reached
<1>5. Storage!Whole(wal[cursor])
  BY <1>1 DEF Storage!Verdict
<1>6. \A i \in 1..(cursor' - 1) : i = cursor \/ i \in 1..(cursor - 1)
  <2>1. cursor \in Nat
    BY DEF DInv, FInv, Sound, Storage!TypeInv, Storage!TypeOK
  <2> QED BY <1>1, <2>1
<1>7. Recovering'
  BY <1>1, <1>4, <1>5, <1>6 DEF DInv, Recovering
<1> QED BY <1>3, <1>7 DEF DInv

\* What is cut off the file was not accepted.
LEMMA ScanEndsDamage ==
  ASSUME DInv, FInv', Storage!ScanEnds, UNCHANGED files
  PROVE  DInv'
<1>1. /\ UNCHANGED <<durable, snapshot, operations, pc, history>>
      /\ phase = "scan" /\ phase' = "replay" /\ cursor' = 1
      /\ wal' = SubSeq(wal, 1, cursor - 1)
  BY DEF Storage!ScanEnds, Storage!threadVars
<1>2. Readable' = Readable /\ Base' = Base /\ Current' = Current
      /\ Storage!Newest' = Storage!Newest
  BY <1>1, ListingStays DEF Named, Base, Default, Ground, Current, Storage!Newest
<1>3. /\ wal \in Log /\ Base \in SUBSET Storage!Snapshot
      /\ Current \in Storage!Snapshot /\ snapshot \in Storage!Snapshot
      /\ Current.generation = Storage!Newest
  BY Links DEF DInv
<1> DEFINE n == cursor - 1
<1>4. n \in 0..Len(wal) /\ DOMAIN wal = 1..Len(wal) /\ Len(wal) \in Nat
  BY <1>3, LogTypes DEF DInv, FInv, Sound, Storage!TypeInv, Storage!InFile
<1>5. /\ DOMAIN wal' = 1..n /\ wal' \in Log
      /\ \A i \in 1..n : wal'[i] = wal[i] /\ i \in DOMAIN wal
  <2>1. /\ wal' \in Seq(Storage!Frame) /\ Len(wal') = n
        /\ \A i \in 1..n : wal'[i] = wal[i]
    BY <1>1, <1>3, <1>4, Assumptions, Storage!Prefix DEF Log
  <2> QED BY <1>4, <2>1, LenProperties DEF Log
<1>6. \A i \in 1..n : Storage!Whole(wal[i])
  BY <1>1 DEF DInv, Recovering
<1> HIDE DEF n
<1>7. Rising(wal') /\ \A to : Within(wal', wal, to)
  BY <1>4, <1>5 DEF DInv, Timeline, Logs, Rising, Within
<1>8. Rising(wal) /\ \A log \in Logs' : log = wal' \/ log \in Logs
  BY <1>1 DEF DInv, Timeline, Logs
<1>9. Timeline'
  <2> SUFFICES ASSUME NEW log \in Logs'
               PROVE  /\ Rising(log)
                      /\ \A c \in Base, d \in Base \cup {Current} : Linked(log, c, d)
    BY <1>2 DEF Timeline
  <2>1. CASE log = wal'
    BY <1>3, <1>7, <1>8, <2>1, LinkedWithin DEF DInv, Timeline, Logs
  <2>2. CASE log \in Logs
    BY <2>2 DEF DInv, Timeline
  <2> QED BY <1>8, <2>1, <2>2
<1>10. Reached
  BY <1>1 DEF DInv, Recovering
<1>11. Reached'
  <2>1. \A c \in Readable : c.generation <= snapshot.generation
    BY <1>10 DEF Reached
  <2>2. ASSUME NEW log \in Logs', NEW c \in Base PROVE Linked(log, c, snapshot)
    <3>1. CASE log = wal'
      BY <1>3, <1>7, <1>8, <1>10, <3>1, LinkedWithin DEF Reached, Logs
    <3> QED BY <1>8, <1>10, <3>1 DEF Reached
  <2>3. ASSUME NEW c \in Base, \A d \in Readable : d.generation <= c.generation,
               Covers(wal', c.generation, Storage!Newest),
               snapshot.generation <= Storage!Newest
        PROVE  Leads(wal', snapshot, Current)
    <3>1. Covers(wal, c.generation, Storage!Newest)
      BY <1>7, <2>3, CoversWithin
    <3>2. Leads(wal, snapshot, Current)
      BY <1>10, <2>3, <3>1 DEF Reached
    <3>3. c.generation <= snapshot.generation
      BY <1>3, <2>1 DEF Base, Default, Storage!Snapshot
    <3>4. Covers(wal', snapshot.generation, Storage!Newest)
      <4>1. c.generation \in Nat /\ snapshot.generation \in Nat
            /\ Storage!Newest \in Nat
        BY <1>3 DEF Storage!Snapshot
      <4>2. \A g \in (snapshot.generation + 1)..Storage!Newest :
              g \in (c.generation + 1)..Storage!Newest
        BY <3>3, <4>1
      <4> QED BY <2>3, <4>2 DEF Covers
    <3> QED BY <1>3, <1>7, <1>8, <3>2, <3>4, LeadsWithin
  <2> QED BY <1>1, <1>2, <2>1, <2>2, <2>3 DEF Reached
<1>12. Served'
  BY <1>1 DEF Served
<1>13. Recovering'
  <2>1. "power" \in CrashKinds =>
          \A i \in DOMAIN wal' : i \in DOMAIN durable' /\ durable'[i] = wal'[i]
    BY <1>1, <1>5 DEF DInv, Recovering
  <2>2. \A i \in DOMAIN wal' : Storage!Whole(wal'[i])
    BY <1>5, <1>6
  <2>3. 1..(1 - 1) = {}
    OBVIOUS
  <2> QED BY <1>1, <1>11, <2>1, <2>2, <2>3 DEF Recovering
<1> QED BY <1>9, <1>12, <1>13 DEF DInv

\* The commit behind the snapshot is applied: what led to the snapshot leads
\* to the next one, and what it led to is still led to.
LEMMA ReplayDamage ==
  ASSUME DInv, FInv', Storage!ReplayFrame, UNCHANGED files
  PROVE  DInv'
<1>1. /\ UNCHANGED <<wal, durable, phase, operations, pc, history>>
      /\ phase = "replay" /\ cursor <= Len(wal) /\ cursor' = cursor + 1
      /\ snapshot' = IF wal[cursor].generation > snapshot.generation
                     THEN [generation |-> wal[cursor].generation,
                           table |-> Storage!Apply(snapshot.table, wal[cursor].tx)]
                     ELSE snapshot
  BY DEF Storage!ReplayFrame, Storage!Replayed, Storage!diskVars, Storage!threadVars
<1>2. Readable' = Readable /\ Base' = Base /\ Current' = Current /\ Logs' = Logs
      /\ Storage!Newest' = Storage!Newest
  BY <1>1, ListingStays DEF Named, Base, Default, Ground, Current, Storage!Newest, Logs
<1>3. Timeline' /\ Served'
  BY <1>1, <1>2 DEF DInv, Timeline, Served
<1>4. /\ wal \in Log /\ durable \in Log /\ Base \in SUBSET Storage!Snapshot
      /\ Storage!Clean(wal) /\ Storage!Clean(durable)
      /\ Current \in Storage!Snapshot /\ snapshot \in Storage!Snapshot
      /\ Current.generation = Storage!Newest /\ Storage!Newest \in Nat
  BY Links DEF DInv
<1>5. cursor \in DOMAIN wal /\ cursor \in Nat
      /\ wal[cursor].generation \in Nat /\ snapshot.generation \in Nat
      /\ DOMAIN wal = 1..Len(wal) /\ Len(wal) \in Nat
  BY <1>1, <1>4, LogTypes
     DEF DInv, FInv, Sound, Storage!TypeInv, Storage!InFile, Storage!Snapshot
<1>6. /\ Reached /\ \A i \in 1..(cursor - 1) : wal[i].generation <= snapshot.generation
      /\ \A i \in DOMAIN wal : Storage!Whole(wal[i])
      /\ "power" \in CrashKinds =>
           \A i \in DOMAIN wal : i \in DOMAIN durable /\ durable[i] = wal[i]
  BY <1>1 DEF DInv, Recovering
<1>7. snapshot'.generation \in Nat /\ snapshot.generation <= snapshot'.generation
      /\ wal[cursor].generation <= snapshot'.generation
  BY <1>1, <1>5
<1>8. Reached'
  <2>1. CASE wal[cursor].generation <= snapshot.generation
    <3>1. snapshot' = snapshot
      BY <1>1, <1>5, <2>1
    <3> QED BY <1>1, <1>2, <1>6, <3>1 DEF Reached
  <2>2. CASE wal[cursor].generation > snapshot.generation
    <3> DEFINE next == [generation |-> wal[cursor].generation,
                        table |-> Storage!Apply(snapshot.table, wal[cursor].tx)]
    <3>1. snapshot' = next
      BY <1>1, <2>2
    <3>2. \A c \in Base : c.generation <= snapshot.generation /\ c.generation \in Nat
      BY <1>4, <1>5, <1>6 DEF Reached, Base, Default, Storage!Snapshot
    <3>3. ASSUME NEW log \in Logs, NEW c \in Base PROVE Linked(log, c, next)
      <4>1. /\ log \in Log /\ Storage!Clean(log) /\ Rising(log)
            /\ cursor \in DOMAIN log /\ log[cursor] = wal[cursor]
            /\ \A i \in 1..(cursor - 1) : log[i] = wal[i]
        <5>1. \A i \in 1..(cursor - 1) : i \in DOMAIN wal
          BY <1>5
        <5> QED BY <1>4, <1>5, <1>6, <5>1 DEF DInv, Timeline, Logs
      <4>2. \A i \in 1..(cursor - 1) : log[i].generation <= snapshot.generation
        BY <1>6, <4>1
      <4>3. Linked(log, c, snapshot) /\ c.generation <= snapshot.generation
        BY <1>6, <3>2 DEF Reached
      <4> QED BY <1>4, <2>2, <4>1, <4>2, <4>3, LinkedNext
    <3>4. ASSUME NEW c \in Base, \A d \in Readable : d.generation <= c.generation,
                 Covers(wal, c.generation, Storage!Newest),
                 next.generation <= Storage!Newest
          PROVE  Leads(wal, next, Current)
      <4>1. snapshot.generation <= Storage!Newest
            /\ wal[cursor].generation <= Current.generation
        BY <1>4, <1>5, <2>2, <3>4
      <4>2. Leads(wal, snapshot, Current) /\ Rising(wal)
        BY <1>6, <3>4, <4>1 DEF Reached, DInv, Timeline, Logs
      <4> QED BY <1>4, <1>5, <1>6, <2>2, <4>1, <4>2, LeadsNext
    <3>5. \A c \in Readable : c.generation <= next.generation
      BY <1>5, <2>2, <3>2 DEF Base
    <3> HIDE DEF next
    <3> QED BY <1>1, <1>2, <3>1, <3>3, <3>4, <3>5 DEF Reached
  <2> QED BY <1>5, <2>1, <2>2
<1>9. \A i \in 1..(cursor' - 1) : wal[i].generation <= snapshot'.generation
  <2> SUFFICES ASSUME NEW i \in 1..(cursor' - 1)
               PROVE  wal[i].generation <= snapshot'.generation
    OBVIOUS
  <2>1. CASE i = cursor
    BY <1>7, <2>1
  <2>2. CASE i # cursor
    <3>1. i \in 1..(cursor - 1) /\ i \in DOMAIN wal
      BY <1>1, <1>5, <2>2
    <3> QED BY <1>4, <1>5, <1>6, <1>7, <3>1, LogTypes
  <2> QED BY <2>1, <2>2
<1>10. Recovering'
  BY <1>1, <1>6, <1>8, <1>9 DEF DInv, Recovering
<1> QED BY <1>3, <1>10 DEF DInv

\* What recovery has reached is what is published from now on.
LEMMA ServeDamage ==
  ASSUME DInv, FInv', Serve
  PROVE  DInv'
<1>1. /\ UNCHANGED <<wal, durable, snapshot, operations, pc, files>>
      /\ phase = "replay" /\ phase' = "ready" /\ cursor > Len(wal) /\ cursor' = 1
      /\ history' = [g \in 1..(snapshot.generation + 1) |->
                       IF g \in DOMAIN history /\ g <= snapshot.generation
                       THEN history[g] ELSE snapshot.table]
  BY DEF Serve
<1>2. Readable' = Readable /\ Base' = Base /\ Logs' = Logs
  BY <1>1, ListingStays DEF Named, Base, Default, Ground, Logs
<1>3. /\ wal \in Log /\ snapshot \in Storage!Snapshot
      /\ snapshot.generation \in Nat
      /\ snapshot = [generation |-> snapshot.generation, table |-> snapshot.table]
  BY Links DEF DInv, Storage!Snapshot
<1>4. /\ Storage!Newest' = snapshot.generation /\ Current' = snapshot
  <2> DEFINE n == snapshot.generation + 1
  <2>1. n \in 1..n /\ ~(n <= snapshot.generation) /\ n - 1 = snapshot.generation
    BY <1>3
  <2>2. history'[n] = snapshot.table
    BY <1>1, <2>1
  <2>3. Len(history') = n
    <3>1. (FInv => history \in Seq(Storage!Table))'
      BY Links, PTL
    <3>2. DOMAIN history' = 1..n
      BY <1>1
    <3>3. Len(history') \in Nat /\ DOMAIN history' = 1..Len(history')
      <4>1. history' \in Seq(Storage!Table)
        BY <3>1 DEF Storage!Table
      <4> QED BY <4>1, LenProperties
    <3> QED BY <1>3, <3>2, <3>3
  <2>4. Storage!Newest' = Len(history') - 1
        /\ Current' = [generation |-> Storage!Newest', table |-> history'[Len(history')]]
    BY DEF Storage!Newest, Current
  <2> HIDE DEF n
  <2> QED BY <1>3, <2>1, <2>2, <2>3, <2>4
<1>5. /\ Reached /\ \A i \in 1..(cursor - 1) : wal[i].generation <= snapshot.generation
      /\ \A i \in DOMAIN wal : Storage!Whole(wal[i])
  BY <1>1 DEF DInv, Recovering
<1>6. Timeline'
  BY <1>2, <1>4, <1>5 DEF DInv, Timeline, Reached
<1>7. Storage!Settled'
  <2>1. \A i \in DOMAIN wal : i \in 1..(cursor - 1)
    <3>1. cursor \in Nat /\ Len(wal) \in Nat /\ DOMAIN wal = 1..Len(wal)
      BY <1>3, LogTypes DEF DInv, FInv, Sound, Storage!TypeInv, Storage!TypeOK
    <3> QED BY <1>1, <3>1
  <2> QED BY <1>1, <1>4, <1>5, <2>1 DEF Storage!Settled
<1>8. Served'
  <2>1. \A v \in Workers : pc'[v] = "idle"
    BY <1>1 DEF DInv, FInv, Sound, Storage!Exclusive
  <2>2. "idle" \notin Storage!Writing /\ {"sync", "publish"} \subseteq Storage!Writing
    BY DEF Storage!Writing
  <2>3. \A c \in Readable' : c.generation <= Storage!Newest'
    BY <1>2, <1>4, <1>5 DEF Reached
  <2> QED BY <1>1, <1>4, <1>7, <2>1, <2>2, <2>3 DEF Served
<1>9. Recovering'
  BY <1>1 DEF Recovering
<1> QED BY <1>6, <1>8, <1>9 DEF DInv

-----------------------------------------------------------------------------
(* Crashes.                                                                *)

\* A crash leaves a rising log whose whole frames were in the file or in what
\* was synced of it.
LEMMA CrashedLog ==
  ASSUME Storage!TypeInv, Rising(wal), Rising(durable),
         NEW image \in Storage!WalImages("power")
  PROVE  /\ Rising(image)
         /\ image = durable \/ \A to : Within(image, wal, to)
<1>1. /\ wal \in Seq(Storage!Frame) /\ wal \in Log
      /\ DOMAIN wal = 1..Len(wal) /\ Len(wal) \in Nat
  <2>1. wal \in Seq(Storage!Frame) /\ wal \in Log
    BY DEF Storage!TypeInv, Storage!TypeOK, Log
  <2> QED BY <2>1, LogTypes
<1>2. ASSUME NEW n \in 0..Len(wal)
      PROVE  /\ SubSeq(wal, 1, n) \in Seq(Storage!Frame)
             /\ Len(SubSeq(wal, 1, n)) = n /\ DOMAIN SubSeq(wal, 1, n) = 1..n
             /\ \A i \in 1..n : SubSeq(wal, 1, n)[i] = wal[i] /\ i \in DOMAIN wal
  <2>1. /\ SubSeq(wal, 1, n) \in Seq(Storage!Frame)
        /\ Len(SubSeq(wal, 1, n)) = n
        /\ \A i \in 1..n : SubSeq(wal, 1, n)[i] = wal[i]
    BY <1>1, Assumptions, Storage!Prefix
  <2>2. DOMAIN SubSeq(wal, 1, n) = 1..n
    BY <2>1, LenProperties
  <2> QED BY <1>1, <2>1, <2>2
<1>3. ASSUME NEW n \in 0..Len(wal), image = SubSeq(wal, 1, n)
      PROVE  Rising(image) /\ \A to : Within(image, wal, to)
  BY <1>2, <1>3 DEF Rising, Within
<1>4. ASSUME NEW n \in 0..Len(wal), n # Len(wal),
             NEW f \in Storage!Damaged(wal[n + 1]),
             image = Append(SubSeq(wal, 1, n), f)
      PROVE  Rising(image) /\ \A to : Within(image, wal, to)
  <2>1. n + 1 \in DOMAIN wal /\ wal[n + 1] \in Storage!Frame /\ n \in Nat
    <3>1. ASSUME NEW m \in Nat, NEW k \in 0..m, k # m
          PROVE  k + 1 \in 1..m /\ k \in Nat
      BY <3>1
    <3>2. Len(wal) \in Nat
      BY <1>1
    <3>3. n + 1 \in 1..Len(wal) /\ n \in Nat
      BY <3>1, <3>2, <1>4
    <3> QED BY <1>1, <3>3, LogTypes
  <2>2. /\ f \in Storage!Frame /\ f.generation = wal[n + 1].generation
        /\ ~Storage!Whole(f)
    BY <2>1, Assumptions, Storage!DamagedType
  <2> DEFINE log == SubSeq(wal, 1, n)
  <2>3. /\ log \in Seq(Storage!Frame) /\ Len(log) = n
        /\ \A i \in 1..n : log[i] = wal[i] /\ i \in DOMAIN wal
    BY <1>2
  <2>4. image = Append(log, f)
    BY <1>4
  <2> HIDE DEF log
  <2>5. /\ image \in Seq(Storage!Frame) /\ Len(image) = n + 1
        /\ \A i \in 1..n : image[i] = log[i]
        /\ image[n + 1] = f
    BY <2>2, <2>3, <2>4, AppendProperties
  <2>6. DOMAIN image = 1..(n + 1) /\ \A i \in DOMAIN image : i = n + 1 \/ i \in 1..n
    BY <2>1, <2>5, LenProperties
  <2>7. Rising(image)
    <3> SUFFICES ASSUME NEW i \in DOMAIN image, NEW j \in DOMAIN image, i < j
                 PROVE  /\ Storage!Whole(image[i])
                        /\ image[i].generation < image[j].generation
      BY DEF Rising
    <3>1. i \in 1..n /\ (j = n + 1 \/ j \in 1..n)
      BY <2>1, <2>6
    <3>2. /\ image[i] = wal[i] /\ image[j].generation = wal[j].generation
          /\ i \in DOMAIN wal /\ j \in DOMAIN wal
      BY <2>1, <2>2, <2>3, <2>5, <3>1
    <3> QED BY <3>2 DEF Rising
  <2>8. ASSUME NEW to PROVE Within(image, wal, to)
    BY <2>2, <2>3, <2>5, <2>6 DEF Within
  <2> QED BY <2>7, <2>8
<1>5. \/ image = durable
      \/ \E n \in 0..Len(wal) : image = SubSeq(wal, 1, n)
      \/ \E n \in 0..Len(wal) : n # Len(wal) /\
           \E f \in Storage!Damaged(wal[n + 1]) : image = Append(SubSeq(wal, 1, n), f)
  BY DEF Storage!WalImages, Storage!Kept
<1> QED BY <1>3, <1>4, <1>5

\* Nothing that is linked depends on what a crash may take.
LEMMA CrashDamage ==
  ASSUME Storage!Benign, DInv, FInv', NEW kind \in CrashKinds, Storage!Crash(kind),
         Named("kst")' = Named("kst")
  PROVE  DInv'
<1>1. /\ phase' = "closed" /\ UNCHANGED history
      /\ wal' \in Storage!WalImages(kind)
      /\ durable' = IF kind = "power" THEN wal' ELSE durable
  BY DEF Storage!Crash
<1>2. Readable' = Readable /\ Base' = Base /\ Current' = Current
  BY <1>1, ListingStays DEF Base, Default, Ground, Current, Storage!Newest
<1>3. /\ wal \in Log /\ durable \in Log /\ Base \in SUBSET Storage!Snapshot
      /\ Current \in Storage!Snapshot
  BY Links DEF DInv
<1>4. kind \in {"process", "power"}
  BY Assumptions
<1>5. CASE kind = "process"
  <2>1. wal' = wal /\ "power" \notin CrashKinds
    BY <1>1, <1>5 DEF Storage!WalImages, Storage!Benign
  <2>2. \A log \in Logs' : log \in Logs
    BY <2>1 DEF Logs
  <2> QED BY <1>1, <1>2, <2>1, <2>2 DEF DInv, Timeline, Served, Recovering
<1>6. CASE kind = "power"
  <2>1. Logs = {wal, durable} /\ durable' = wal' /\ \A log \in Logs' : log = wal'
    BY <1>1, <1>6 DEF Logs
  <2>2. Rising(wal) /\ Rising(durable) /\ Storage!TypeInv
    BY <2>1 DEF DInv, Timeline, FInv, Sound
  <2>3. /\ Rising(wal')
        /\ wal' = durable \/ \A to : Within(wal', wal, to)
    BY <1>1, <1>6, <2>2, CrashedLog
  <2>4. ASSUME NEW c \in Base, NEW d \in Base \cup {Current} PROVE Linked(wal', c, d)
    <3>1. Linked(wal, c, d) /\ Linked(durable, c, d)
      BY <2>1 DEF DInv, Timeline
    <3> QED BY <1>3, <2>2, <2>3, <3>1, LinkedWithin
  <2>5. Timeline'
    BY <1>2, <2>1, <2>3, <2>4 DEF Timeline
  <2>6. Served' /\ Recovering'
    BY <1>1, <2>1 DEF Served, Recovering
  <2> QED BY <2>5, <2>6 DEF DInv
<1> QED BY <1>4, <1>5, <1>6

-----------------------------------------------------------------------------
(* Every step.                                                             *)

\* A directory to open for the first time has no log, and one table for each
\* generation.
LEMMA InitDamage == Init => DInv
<1> SUFFICES ASSUME Init PROVE DInv
  OBVIOUS
<1>1. FInv /\ wal = <<>> /\ durable = <<>> /\ phase = "closed"
  BY InitFInv DEF Init
<1>2. DOMAIN wal = {} /\ \A log \in Logs : log = wal
  BY <1>1 DEF Logs
<1>3. /\ Base \in SUBSET Storage!Snapshot /\ Current \in Storage!Snapshot
  BY <1>1, Links
<1>4. \A c \in Base, d \in Base \cup {Current} : c.generation = d.generation => c = d
  <2>1. CASE Readable = {} /\ Len(history) = 1
    <3>1. Base = {Default} /\ Current = Default
      <4>1. history[1] = Ground
        BY InitFiles
      <4> QED BY <2>1, <4>1 DEF Base, Default, Current, Storage!Newest
    <3> QED BY <3>1
  <2>2. CASE Len(history) = 2 /\ Readable = {[generation |-> 1, table |-> history[2]]}
    <3>1. Current = [generation |-> 1, table |-> history[2]]
      BY <2>2 DEF Current, Storage!Newest
    <3>2. Base = {Default, Current} /\ Default.generation = 0 /\ Current.generation = 1
      BY <2>2, <3>1 DEF Base, Default
    <3> QED BY <3>2
  <2> QED BY <2>1, <2>2, InitFiles
<1>5. Rising(wal)
  BY <1>2 DEF Rising
<1>6. ASSUME NEW c \in Base, NEW d \in Base \cup {Current} PROVE Linked(wal, c, d)
  <2>1. c \in Storage!Snapshot /\ d \in Storage!Snapshot
        /\ c.generation \in Nat /\ d.generation \in Nat
    BY <1>3 DEF Storage!Snapshot
  <2>2. CASE c.generation = d.generation
    BY <1>4, <2>1, <2>2, LinkedSame
  <2>3. CASE c.generation < d.generation
    <3>1. c.generation + 1 \in (c.generation + 1)..d.generation
      BY <2>1, <2>3
    <3>2. ~Covers(wal, c.generation, d.generation)
      BY <1>2, <3>1 DEF Covers
    <3> QED BY <3>2 DEF Linked
  <2>4. CASE ~(c.generation <= d.generation)
    BY <2>4 DEF Linked
  <2> QED BY <2>1, <2>2, <2>3, <2>4
<1>7. Timeline
  BY <1>2, <1>5, <1>6 DEF Timeline
<1>8. Served /\ Recovering
  BY <1>1, <1>2 DEF Served, Recovering
<1> QED BY <1>1, <1>7, <1>8 DEF DInv

\* The names of both instances mean the same steps.
LEMMA SameSteps ==
  ASSUME NEW w \in Workers
  PROVE  /\ Engine!AppendPart(w) <=> Storage!AppendPart(w)
         /\ Engine!AppendRest(w) <=> Storage!AppendRest(w)
         /\ Engine!SyncWal(w) <=> Storage!SyncWal(w)
         /\ Engine!Publish(w) <=> Storage!Publish(w)
         /\ Engine!Truncate(w) <=> Storage!Truncate(w)
         /\ Engine!SwapCompacted(w) <=> Storage!SwapCompacted(w)
BY DEF Engine!AppendPart, Storage!AppendPart, Engine!AppendRest, Storage!AppendRest,
       Engine!SyncWal, Storage!SyncWal, Engine!Publish, Storage!Publish,
       Engine!Truncate, Storage!Truncate, Engine!SwapCompacted, Storage!SwapCompacted,
       Engine!Step, Storage!Step, Engine!NewFrame, Storage!NewFrame,
       Engine!FileLength, Storage!FileLength, Engine!HeaderUnits, Storage!HeaderUnits,
       Engine!Canonicalize, Storage!Canonicalize, Engine!Touched, Storage!Touched,
       Engine!LastOn, Storage!LastOn, Engine!Apply, Storage!Apply,
       Engine!openVars, Storage!openVars, Engine!diskVars, Storage!diskVars

\* Recovery and crashes are the same steps in the module with the proofs.
LEMMA SameRecovery ==
  /\ Engine!ScanFrame <=> Storage!ScanFrame
  /\ Engine!ScanEnds <=> Storage!ScanEnds
  /\ Engine!ReplayFrame <=> Storage!ReplayFrame
  /\ \A kind : Engine!Crash(kind) <=> Storage!Crash(kind)
BY DEF Engine!ScanFrame, Storage!ScanFrame, Engine!ScanEnds, Storage!ScanEnds,
       Engine!ReplayFrame, Storage!ReplayFrame, Engine!Replayed, Storage!Replayed,
       Engine!Verdict, Storage!Verdict, Engine!FileLength, Storage!FileLength,
       Engine!HeaderUnits, Storage!HeaderUnits, Engine!Whole, Storage!Whole,
       Engine!EndOf, Storage!EndOf, Engine!Decodable, Storage!Decodable,
       Engine!PreviousGeneration, Storage!PreviousGeneration, Engine!Apply,
       Storage!Apply, Engine!diskVars, Storage!diskVars, Engine!threadVars,
       Storage!threadVars, Engine!Crash, Storage!Crash, Engine!WalImages,
       Storage!WalImages, Engine!DirectoryImages, Storage!DirectoryImages,
       Engine!Kept, Storage!Kept, Engine!Agreed, Storage!Agreed, Engine!Damaged,
       Storage!Damaged, Engine!Empty, Storage!Empty

\* The steps of the engine that touch no checkpoint.
LEMMA EngineDamage ==
  ASSUME Storage!Benign, DInv, FInv', EngineStep
  PROVE  DInv'
<1>1. UNCHANGED files /\ Readable' = Readable
  BY EngineStepMaps DEF EngineStep
<1>2. CASE Engine!ScanFrame \/ Engine!ScanEnds \/ Engine!ReplayFrame
  BY <1>1, <1>2, SameRecovery, ScanFrameDamage, ScanEndsDamage, ReplayDamage
<1>3. CASE Engine!ScanFails
  <2>1. /\ UNCHANGED <<wal, durable, history, snapshot, cursor, pc, operations>>
        /\ phase = "scan" /\ phase' = "corrupt"
    BY <1>3 DEF Engine!ScanFails, Engine!diskVars, Engine!threadVars
  <2>2. Base' = Base /\ Current' = Current /\ Logs' = Logs
    BY <1>1, <2>1 DEF Base, Default, Ground, Current, Storage!Newest, Logs
  <2>3. Timeline' /\ Served' /\ Recovering'
    BY <2>1, <2>2 DEF DInv, Timeline, Served, Recovering
  <2> QED BY <2>3 DEF DInv
<1>4. ASSUME NEW w \in Workers, Engine!Calls(w) \/ Engine!LockOptimize(w)
      PROVE  DInv'
  <2>1. operations \in [Workers -> Seq(Storage!Operation)]
    BY DEF DInv, FInv, Sound, Storage!TypeInv, Storage!TypeOK
  <2>2. /\ UNCHANGED <<wal, durable, history, snapshot, cursor, phase>>
        /\ \A v \in Workers : v # w => operations'[v] = operations[v]
    BY <1>4, <2>1 DEF Engine!Calls, Engine!Begin, Engine!Push, Engine!Rollback,
       Engine!CommitCall, Engine!OptimizeCall, Engine!LockOptimize, Engine!Return,
       Engine!Step, Engine!diskVars, Engine!openVars
  <2>3. \E from, to \in {"idle", "building", "commitLock", "optimizeLock", "temp"} :
          Engine!Step(w, from, to)
    BY <1>4 DEF Engine!Calls, Engine!Begin, Engine!Push, Engine!Rollback,
       Engine!CommitCall, Engine!OptimizeCall, Engine!LockOptimize, Engine!Return
  <2>4. {"idle", "building", "commitLock", "optimizeLock", "temp"}
          \cap Storage!Writing = {}
    BY DEF Storage!Writing
  <2> QED BY <1>1, <2>2, <2>3, <2>4, ThreadDamage
<1>5. ASSUME NEW w \in Workers,
             Engine!LockCommit(w) \/ Engine!ExhaustedCommit(w) \/ Engine!CommitReturn(w)
      PROVE  DInv'
  <2>1. operations \in [Workers -> Seq(Storage!Operation)]
    BY DEF DInv, FInv, Sound, Storage!TypeInv, Storage!TypeOK
  <2>2. /\ UNCHANGED <<wal, durable, history, snapshot, cursor, phase>>
        /\ \A v \in Workers : v # w => operations'[v] = operations[v]
    BY <1>5, <2>1 DEF Engine!LockCommit, Engine!ExhaustedCommit, Engine!CommitReturn,
       Engine!Return, Engine!Step, Engine!diskVars, Engine!openVars
  <2>3. \E from, to \in {"idle", "commitLock", "append", "commitReturn"} :
          Engine!Step(w, from, to)
    BY <1>5 DEF Engine!LockCommit, Engine!ExhaustedCommit, Engine!CommitReturn,
       Engine!Return
  <2>4. {"idle", "commitLock", "append", "commitReturn"} \cap Storage!Writing = {}
    BY DEF Storage!Writing
  <2> QED BY <1>1, <2>2, <2>3, <2>4, ThreadDamage
<1>6. ASSUME NEW w \in Workers,
             Engine!AppendPart(w) \/ Engine!AppendRest(w) \/ Engine!SyncWal(w) \/
             Engine!Publish(w) \/ Engine!Truncate(w) \/ Engine!SwapCompacted(w)
      PROVE  DInv'
  BY <1>1, <1>6, SameSteps, AppendPartDamage, AppendRestDamage, SyncDamage,
     PublishDamage, TruncateDamage
<1>7. ASSUME NEW w \in Workers PROVE ~Engine!AppendFails(w) /\ ~Engine!SyncFails(w)
  BY DEF Engine!AppendFails, Engine!SyncFails, Storage!Benign
<1> QED BY <1>2, <1>3, <1>4, <1>5, <1>6, <1>7 DEF EngineStep, Engine!CommitSteps

\* The steps of optimize that touch a checkpoint or a temporary file.
LEMMA OptimizeDamage ==
  ASSUME DInv, FInv', NEW w \in Workers, OptimizeSteps(w)
  PROVE  DInv'
<1>1. operations \in [Workers -> Seq(Storage!Operation)] /\ Filed
  BY DEF DInv, FInv, Sound, Storage!TypeInv, Storage!TypeOK
<1>2. CASE Rename(w)
  BY <1>2, RenameDamage
<1>3. CASE CreateTemp(w)
  <2>1. UNCHANGED engineVars /\ Readable' = Readable
    BY <1>3, CreateTempMaps
  <2> QED BY <2>1, QuietDamage DEF engineVars
<1>4. CASE TempExists(w) \/ WriteTemp(w) \/ Sweep(w) \/ OptimizeReturn(w) \/ OptimizeFails(w)
  <2>1. /\ UNCHANGED <<wal, durable, history, snapshot, cursor, phase>>
        /\ \A v \in Workers : v # w => operations'[v] = operations[v]
    BY <1>1, <1>4 DEF TempExists, WriteTemp, Sweep, OptimizeReturn, OptimizeFails,
       Engine!OptimizeFails, Engine!Return, Engine!Step, Engine!diskVars,
       Engine!openVars
  <2>2. \E from, to \in Engine!InOptimize \cup {"idle"} : Engine!Step(w, from, to)
    BY <1>4 DEF TempExists, WriteTemp, Sweep, OptimizeReturn, OptimizeFails,
       Engine!OptimizeFails, Engine!Return, Engine!InOptimize
  <2>3. (Engine!InOptimize \cup {"idle"}) \cap Storage!Writing = {}
    BY DEF Engine!InOptimize, Storage!Writing
  <2>4. Readable' \subseteq Readable
    <3>1. CASE WriteTemp(w)
      BY <1>1, <3>1, WriteTempMaps
    <3>2. CASE ~WriteTemp(w)
      <4>1. files' \subseteq files
        BY <1>4, <3>2 DEF TempExists, Sweep, OptimizeReturn, OptimizeFails
      <4> QED BY <4>1 DEF Readable, ReadCheckpoint, Named
    <3> QED BY <3>1, <3>2
  <2> QED BY <2>1, <2>2, <2>3, <2>4, ThreadDamage
<1> QED BY <1>2, <1>3, <1>4 DEF OptimizeSteps

\* Every step of the system keeps the invariant.
LEMMA DamageStep ==
  ASSUME Storage!Benign, DInv, [Next]_vars
  PROVE  DInv'
<1>1. FInv'
  BY FInvStep DEF DInv
<1>2. ASSUME NEW w \in Workers, OptimizeSteps(w) PROVE DInv'
  BY <1>1, <1>2, OptimizeDamage
<1>3. CASE EngineStep
  BY <1>1, <1>3, EngineDamage
<1>4. CASE LoadEnds \/ Serve
  BY <1>1, <1>4, LoadDamage, ServeDamage
<1>5. CASE ReadCandidate \/ LoadFails \/ UNCHANGED vars
  <2>1. /\ UNCHANGED <<wal, durable, history, snapshot, cursor, pc, operations, files>>
        /\ phase' = phase \/ (phase = "closed" /\ phase' = "corrupt")
    BY <1>5 DEF ReadCandidate, LoadFails, vars, engineVars
  <2>2. Readable' = Readable
    BY <2>1, ListingStays DEF Named
  <2> QED BY <1>1, <2>1, <2>2, QuietDamage
<1>6. CASE Damage
  <2>1. /\ UNCHANGED <<wal, durable, history, snapshot, cursor, pc, operations, phase>>
        /\ phase = "closed"
    BY <1>6 DEF Damage, engineVars
  <2>2. PICK f \in Named("kst") :
          files' = (files \ {f}) \cup {[f EXCEPT !.whole = FALSE]}
    BY <1>6 DEF Damage
  <2>3. f \in File
    BY DEF DInv, FInv, Filed, Named
  <2>4. ~[f EXCEPT !.whole = FALSE].whole
    BY <2>3 DEF File
  <2>5. Readable' = {ReadCheckpoint(g) : g \in {h \in Named("kst")' : h.whole}}
    BY DEF Readable, ReadCheckpoint
  <2>6. \A g \in Named("kst")' : g.whole => g \in Named("kst")
    BY <2>2, <2>4 DEF Named
  <2>7. Readable' \subseteq Readable
    BY <2>5, <2>6 DEF Readable
  <2> QED BY <1>1, <2>1, <2>7, QuietDamage
<1>7. ASSUME NEW kind \in CrashKinds, Crash(kind) PROVE DInv'
  BY <1>1, <1>7, CrashMaps, SameRecovery, CrashDamage DEF Crash
<1> QED BY <1>2, <1>3, <1>4, <1>5, <1>6, <1>7 DEF Next, Open

\* What is replayed meets what was published, or goes beyond it.
LEMMA CoveredIsReached == DInv => CoveredDamageIsHarmless
<1> SUFFICES ASSUME DInv, phase = "replay", cursor > Len(wal),
                    Engine!Restores(wal, Readable, Engine!Newest)
             PROVE  /\ snapshot.generation >= Engine!Newest
                    /\ snapshot.generation = Engine!Newest =>
                         snapshot.table = history[Len(history)]
  BY DEF CoveredDamageIsHarmless
<1>1. /\ wal \in Log /\ Base \in SUBSET Storage!Snapshot
      /\ Current \in Storage!Snapshot /\ snapshot \in Storage!Snapshot
      /\ Current.generation = Storage!Newest /\ Storage!Newest \in Nat
      /\ Current.table = history[Len(history)] /\ snapshot.generation \in Nat
      /\ Engine!Newest = Storage!Newest
  BY Links, SameTables DEF DInv, Storage!Snapshot
<1>2. /\ Reached /\ \A i \in 1..(cursor - 1) : wal[i].generation <= snapshot.generation
  BY DEF DInv, Recovering
<1>3. PICK c \in Base :
        /\ \A d \in Readable : d.generation <= c.generation
        /\ Covers(wal, c.generation, Storage!Newest)
  BY <1>1 DEF Engine!Restores, Base, Default, Ground, Engine!Empty, Covers, Carries,
              Engine!Whole, Storage!Whole
<1>4. c.generation \in Nat /\ c.generation <= snapshot.generation
  BY <1>1, <1>2 DEF Reached, Base, Default, Storage!Snapshot
<1>5. \A i \in DOMAIN wal : wal[i].generation <= snapshot.generation
  <2>1. cursor \in Nat /\ Len(wal) \in Nat /\ DOMAIN wal = 1..Len(wal)
    BY <1>1, LogTypes DEF DInv, FInv, Sound, Storage!TypeInv, Storage!TypeOK
  <2> QED BY <1>2, <2>1
<1>6. snapshot.generation >= Storage!Newest
  <2> SUFFICES ASSUME snapshot.generation < Storage!Newest PROVE FALSE
    BY <1>1
  <2>1. snapshot.generation + 1 \in (c.generation + 1)..Storage!Newest
    BY <1>1, <1>4
  <2>2. PICK i \in DOMAIN wal : Carries(wal, i, snapshot.generation + 1)
    BY <1>3, <2>1 DEF Covers
  <2> QED BY <1>1, <1>5, <2>2 DEF Carries
<1>7. ASSUME snapshot.generation = Storage!Newest
      PROVE  snapshot.table = history[Len(history)]
  <2>1. Leads(wal, snapshot, Current)
    BY <1>1, <1>2, <1>3, <1>7 DEF Reached
  <2>2. snapshot = Current
    BY <1>1, <1>7, <2>1, LinkedSame
  <2> QED BY <1>1, <2>2
<1> QED BY <1>1, <1>6, <1>7

\* In a benign environment, and whatever is damaged, swept or left over: where
\* the newest readable checkpoint and the log cover every published
\* generation, recovery reaches the newest one, and its table.
THEOREM DamageIsHarmless ==
  ASSUME Storage!Benign PROVE Spec => []CoveredDamageIsHarmless
<1>1. DInv /\ [Next]_vars => DInv'
  BY DamageStep
<1> QED BY <1>1, InitDamage, CoveredIsReached, PTL DEF Spec

=============================================================================
