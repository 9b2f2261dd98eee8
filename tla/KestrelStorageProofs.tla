------------------------- MODULE KestrelStorageProofs -------------------------
(***************************************************************************)
(* What holds of KestrelStorage for every number of threads, rows,         *)
(* operations, generations and crashes.                                    *)
(*                                                                         *)
(*   1. Its operators, and type correctness.                               *)
(*   2. It neither loses nor corrupts what it published, as long as the    *)
(*      environment is Benign.  The README says what happens when it is    *)
(*      not.                                                               *)
(*   3. Then it implements TransactionalStore.                             *)
(***************************************************************************)
EXTENDS StorageRefinement, SequenceTheorems, WellFoundedInduction, TLAPS

-----------------------------------------------------------------------------
(* The operators of the model.                                             *)

\* A set of positions in a sequence that is not empty has a greatest one.
LEMMA Greatest ==
  ASSUME NEW n \in Nat, NEW S \in SUBSET (1..n), S # {}
  PROVE  \E i \in S : \A j \in S : j <= i
<1> DEFINE T == {n - i : i \in S}
<1>1. T \subseteq Nat /\ T # {}
  <2>1. ASSUME NEW i \in S PROVE n - i \in Nat
    <3>1. i \in 1..n
      OBVIOUS
    <3> QED BY <3>1
  <2> QED BY <2>1
<1>2. PICK x \in T : \A y \in T : ~(<<y, x>> \in OpToRel(<, Nat))
  BY <1>1, NatLessThanWellFounded, WFMin
<1>3. PICK i \in S : x = n - i
  OBVIOUS
<1>4. ASSUME NEW j \in S PROVE j <= i
  <2>1. ~(<<n - j, x>> \in OpToRel(<, Nat))
    BY <1>2
  <2>2. ~(n - j < x)
    BY <2>1, <1>1, <1>2 DEF OpToRel
  <2> QED BY <2>2, <1>3
<1> QED BY <1>4

\* The last operation on a row exists, and is an operation on that row.
LEMMA LastOnType ==
  ASSUME NEW ops \in Seq(Operation), NEW r \in Touched(ops)
  PROVE  LastOn(ops, r) \in DOMAIN ops /\ ops[LastOn(ops, r)].row = r
<1> DEFINE S == {i \in DOMAIN ops : ops[i].row = r}
<1>1. S \in SUBSET (1..Len(ops)) /\ S # {}
  BY DEF Touched
<1>2. Len(ops) \in Nat
  OBVIOUS
<1>3. PICK i \in S : \A j \in S : j <= i
  <2> HIDE DEF S
  <2> QED BY <1>1, <1>2, Greatest
<1>4. /\ i \in DOMAIN ops /\ ops[i].row = r
      /\ \A j \in DOMAIN ops : ops[j].row = r => j <= i
  BY <1>3
<1> QED BY <1>4 DEF LastOn

\* What canonicalize leaves of a transaction: rows, with what happens to them.
LEMMA CanonicalizeType ==
  ASSUME NEW ops \in Seq(Operation)
  PROVE  /\ Canonicalize(ops) \in Changes
         /\ Valid(ops) =>
              \A r \in DOMAIN Canonicalize(ops) : Canonicalize(ops)[r] # BadDoc
<1>1. Touched(ops) \in SUBSET Rows
  <2>1. ASSUME NEW i \in DOMAIN ops PROVE ops[i].row \in Rows
    <3>1. ops[i] \in Operation
      BY ElementOfSeq, LenProperties
    <3> QED BY <3>1 DEF Operation
  <2> QED BY <2>1 DEF Touched
<1>2. ASSUME NEW r \in Touched(ops)
      PROVE  /\ ops[LastOn(ops, r)].doc \in Docs \cup {BadDoc, Absent}
             /\ Valid(ops) => ops[LastOn(ops, r)].doc # BadDoc
  <2>1. LastOn(ops, r) \in DOMAIN ops
    BY LastOnType
  <2>2. ops[LastOn(ops, r)] \in Operation
    BY <2>1, ElementOfSeq, LenProperties
  <2> QED BY <2>1, <2>2 DEF Operation, Valid
<1>3. Canonicalize(ops) \in [Touched(ops) -> Docs \cup {BadDoc, Absent}]
  BY <1>2 DEF Canonicalize
<1> QED BY <1>1, <1>2, <1>3 DEF Changes, Canonicalize

\* A transaction leaves every row with a document or none.
LEMMA ApplyType ==
  ASSUME NEW tx \in Changes, \A r \in DOMAIN tx : tx[r] # BadDoc,
         NEW table \in Table
  PROVE  Apply(table, tx) \in Table
<1>1. PICK S \in SUBSET Rows : tx \in [S -> Docs \cup {BadDoc, Absent}]
  BY DEF Changes
<1> QED BY <1>1 DEF Apply, Table

\* The first frames of a log.
LEMMA Prefix ==
  ASSUME NEW S, NEW log \in Seq(S), NEW n \in 0..Len(log)
  PROVE  /\ SubSeq(log, 1, n) \in Seq(S)
         /\ Len(SubSeq(log, 1, n)) = n
         /\ \A i \in 1..n : SubSeq(log, 1, n)[i] = log[i]
<1>1. Len(log) \in Nat /\ \A i \in 1..n : log[i] \in S
  BY ElementOfSeq, LenProperties
<1>2. n \in Int /\ 1 \in Int
  BY <1>1
<1> QED BY <1>1, <1>2, SubSeqProperties

-----------------------------------------------------------------------------
(* Type correctness.  TypeOK is not inductive: that only documents enter   *)
(* the tables rests on the validation before the mutex, and on it having   *)
(* been done for every frame that recovery may find.                       *)

\* What a thread appends and publishes was validated.
Validated ==
  \A w \in Workers :
    pc[w] \in {"commitLock", "append", "appending", "sync", "publish"} =>
      Valid(operations[w])

Clean(log) == \A i \in DOMAIN log : Decodable(log[i])

InFile == cursor \in 1..(Len(wal) + 1) /\ (phase \in {"closed", "ready"} => cursor = 1)

TypeInv == TypeOK /\ Validated /\ Clean(wal) /\ Clean(durable) /\ InFile

\* The frame that commit appends is a frame, and one that decodes.
LEMMA NewFrameType ==
  ASSUME TypeOK, NEW w \in Workers, NEW payload \in PayloadSizes, NEW have \in Nat
  PROVE  /\ NewFrame(w, payload, have) \in Frame
         /\ Valid(operations[w]) => Decodable(NewFrame(w, payload, have))
<1>1. operations[w] \in Seq(Operation)
  BY DEF TypeOK
<1>2. /\ Canonicalize(operations[w]) \in Changes
      /\ Valid(operations[w]) =>
           \A r \in DOMAIN Canonicalize(operations[w]) :
             Canonicalize(operations[w])[r] # BadDoc
  BY <1>1, CanonicalizeType
<1>3. FileLength \in Nat
  <2>1. CASE wal = <<>>
    BY <2>1 DEF FileLength
  <2>2. CASE wal # <<>>
    <3>1. wal[Len(wal)] \in Frame
      BY <2>2, ElementOfSeq, LenProperties, EmptySeq DEF TypeOK
    <3> QED BY <2>2, <3>1 DEF FileLength, Frame
  <2> QED BY <2>1, <2>2
<1>4. HeaderUnits + payload \in Nat
  BY BoundAssumption DEF HeaderUnits
<1>5. snapshot.generation + 1 \in Nat
  BY DEF TypeOK, Snapshot
<1> QED BY <1>2, <1>3, <1>4, <1>5 DEF NewFrame, Frame, Decodable

\* A damaged frame is a frame with the same contents.
LEMMA DamagedType ==
  ASSUME NEW f \in Frame, NEW g \in Damaged(f)
  PROVE  /\ g \in Frame
         /\ g.generation = f.generation /\ g.tx = f.tx
         /\ g.start = f.start /\ g.size = f.size
         /\ f.size >= 1 /\ f.have \in 1..f.size => g.have \in 1..g.size
         /\ ~Whole(g)
<1>1. CASE g = [f EXCEPT !.good = FALSE]
  BY <1>1 DEF Frame, Whole
<1>2. ASSUME NEW h \in 1..(f.size - 1), g = [f EXCEPT !.have = h]
      PROVE  /\ g \in Frame
             /\ g.generation = f.generation /\ g.tx = f.tx
             /\ g.start = f.start /\ g.size = f.size
             /\ g.have = h
  BY <1>2 DEF Frame
<1>3. \A h \in 1..(f.size - 1) : h \in Nat /\ h # f.size /\ h \in 1..f.size
  BY DEF Frame
<1> QED BY <1>1, <1>2, <1>3 DEF Damaged, Whole

\* Whatever a crash leaves of the log is a log.
LEMMA ImageType ==
  ASSUME TypeInv, NEW kind \in CrashKinds, NEW image \in WalImages(kind)
  PROVE  image \in Seq(Frame) /\ Clean(image)
<1> USE DEF TypeInv, TypeOK
<1>1. CASE image = wal \/ image = durable
  BY <1>1
<1>2. ASSUME NEW n \in 0..Len(wal)
      PROVE  /\ SubSeq(wal, 1, n) \in Seq(Frame)
             /\ Len(SubSeq(wal, 1, n)) = n
             /\ Clean(SubSeq(wal, 1, n))
  <2>1. /\ SubSeq(wal, 1, n) \in Seq(Frame) /\ Len(SubSeq(wal, 1, n)) = n
        /\ \A i \in 1..n : SubSeq(wal, 1, n)[i] = wal[i]
    BY Prefix
  <2>2. DOMAIN SubSeq(wal, 1, n) = 1..n /\ 1..n \subseteq DOMAIN wal
    BY <2>1, LenProperties
  <2> QED BY <2>1, <2>2 DEF Clean
<1>3. ASSUME NEW n \in 0..Len(wal), n # Len(wal), NEW f \in Damaged(wal[n + 1]),
             image = Append(SubSeq(wal, 1, n), f)
      PROVE  image \in Seq(Frame) /\ Clean(image)
  <2> DEFINE log == SubSeq(wal, 1, n)
  <2>1. log \in Seq(Frame) /\ Len(log) = n /\ Clean(log)
    BY <1>2
  <2>2. n + 1 \in DOMAIN wal /\ wal[n + 1] \in Frame
    BY <1>3, ElementOfSeq, LenProperties
  <2>3. f \in Frame /\ Decodable(f)
    BY <2>2, DamagedType DEF Clean, Decodable
  <2> HIDE DEF log
  <2>4. /\ Append(log, f) \in Seq(Frame) /\ Len(Append(log, f)) = n + 1
        /\ \A i \in 1..n : Append(log, f)[i] = log[i]
        /\ Append(log, f)[n + 1] = f
    BY <2>1, <2>3, AppendProperties
  <2>5. ASSUME NEW i \in DOMAIN Append(log, f) PROVE Decodable(Append(log, f)[i])
    <3>1. i \in 1..(n + 1)
      BY <2>4, LenProperties
    <3>2. DOMAIN log = 1..n
      BY <2>1, LenProperties
    <3>3. CASE i = n + 1
      BY <3>3, <2>3, <2>4
    <3>4. CASE i \in 1..n
      BY <3>4, <3>2, <2>1, <2>4 DEF Clean
    <3> QED BY <3>1, <3>3, <3>4
  <2>6. image = Append(log, f)
    BY <1>3 DEF log
  <2> QED BY <2>4, <2>5, <2>6 DEF Clean
<1>4. \/ image = wal \/ image = durable
      \/ \E n \in 0..Len(wal) : image = SubSeq(wal, 1, n)
      \/ \E n \in 0..Len(wal) : n # Len(wal) /\
           \E f \in Damaged(wal[n + 1]) : image = Append(SubSeq(wal, 1, n), f)
  BY DEF WalImages, Kept
<1> QED BY <1>1, <1>2, <1>3, <1>4

\* Publishing adds a table to the ghost history.
LEMMA HistoryGrows ==
  ASSUME TypeOK, NEW next \in Table
  PROVE  Append(history, next) \in Seq(Table) /\ Append(history, next) # <<>>
BY AppendProperties DEF TypeOK

\* Appending a frame to the log.
LEMMA AppendClean ==
  ASSUME NEW log \in Seq(Frame), Clean(log), NEW f \in Frame, Decodable(f)
  PROVE  Append(log, f) \in Seq(Frame) /\ Clean(Append(log, f))
<1>1. /\ Append(log, f) \in Seq(Frame) /\ Len(Append(log, f)) = Len(log) + 1
      /\ \A i \in 1..Len(log) : Append(log, f)[i] = log[i]
      /\ Append(log, f)[Len(log) + 1] = f
  BY AppendProperties
<1>2. Len(log) \in Nat /\ DOMAIN log = 1..Len(log)
  BY LenProperties
<1>3. DOMAIN Append(log, f) = 1..(Len(log) + 1)
  BY <1>1, LenProperties
<1> QED BY <1>1, <1>2, <1>3 DEF Clean

\* A call that returns leaves the rest as it is.
LEMMA ReturnType ==
  ASSUME TypeInv, NEW w \in Workers, NEW from, Return(w, from),
         UNCHANGED <<diskVars, openVars, snapshot, history, crashes>>,
         UNCHANGED writer \/ Unlock(w)
  PROVE  TypeInv'
<1>1. /\ pc' = [pc EXCEPT ![w] = "idle"]
      /\ operations' = [operations EXCEPT ![w] = <<>>]
  BY DEF Return, Step
<1>2. pc' \in [Workers -> PcValues] /\ operations' \in [Workers -> Seq(Operation)]
  BY <1>1 DEF TypeInv, TypeOK, PcValues
<1>3. Validated'
  <2>1. ASSUME NEW v \in Workers, v # w
        PROVE  pc'[v] = pc[v] /\ operations'[v] = operations[v]
    BY <1>1, <2>1 DEF TypeInv, TypeOK
  <2>2. pc'[w] = "idle"
    BY <1>1 DEF TypeInv, TypeOK
  <2> QED BY <2>1, <2>2 DEF TypeInv, Validated
<1>4. TypeOK'
  BY <1>2 DEF TypeInv, TypeOK, Unlock, diskVars, openVars
<1>5. Clean(wal)' /\ Clean(durable)' /\ InFile'
  BY DEF TypeInv, diskVars, openVars, Clean, InFile
<1> QED BY <1>3, <1>4, <1>5 DEF TypeInv

\* Every step keeps the types, and keeps rejected documents out of the log.
LEMMA TypeStep ==
  TypeInv /\ [Next]_vars => TypeInv'
<1> SUFFICES ASSUME TypeInv, [Next]_vars PROVE TypeInv'
  OBVIOUS
<1> USE DEF TypeInv, TypeOK, InFile
<1>1. ASSUME NEW w \in Workers, Calls(w) PROVE TypeInv'
  <2> USE DEF Step, Validated, PcValues, InCommit, InOptimize, diskVars, openVars
  <2>1. CASE Begin(w) \/ OptimizeCall(w)
    BY <2>1 DEF Begin, OptimizeCall
  <2>2. CASE Push(w)
    <3>1. PICK op \in Operation :
            operations' = [operations EXCEPT ![w] = Append(operations[w], op)]
      BY <2>2 DEF Push
    <3>2. Append(operations[w], op) \in Seq(Operation)
      BY AppendProperties
    <3> QED BY <2>2, <3>1, <3>2 DEF Push
  <2>3. CASE Rollback(w)
    BY <2>3, ReturnType DEF Rollback
  <2>4. CASE CommitCall(w)
    BY <2>4 DEF CommitCall
  <2> QED BY <1>1, <2>1, <2>2, <2>3, <2>4 DEF Calls
<1>2. ASSUME NEW w \in Workers, CommitSteps(w) PROVE TypeInv'
  <2> USE DEF Step, Validated, PcValues, InCommit, InOptimize, diskVars, openVars
  <2>1. CASE LockCommit(w)
    BY <2>1 DEF LockCommit
  <2>2. CASE ExhaustedCommit(w) \/ CommitReturn(w) \/ AppendFails(w) \/ SyncFails(w)
    BY <2>2, ReturnType DEF ExhaustedCommit, CommitReturn, AppendFails, SyncFails
  <2>4. CASE AppendPart(w)
    <3>1. PICK payload \in PayloadSizes :
            \E have \in 1..(HeaderUnits + payload - 1) :
              wal' = Append(wal, NewFrame(w, payload, have))
      BY <2>4 DEF AppendPart
    <3>2. PICK have \in 1..(HeaderUnits + payload - 1) :
            wal' = Append(wal, NewFrame(w, payload, have))
      BY <3>1
    <3>3. Valid(operations[w])
      BY <2>4 DEF AppendPart
    <3>4. have \in Nat
      BY BoundAssumption DEF HeaderUnits
    <3>5. NewFrame(w, payload, have) \in Frame /\ Decodable(NewFrame(w, payload, have))
      BY <3>3, <3>4, NewFrameType
    <3>6. wal' \in Seq(Frame) /\ Clean(wal)'
      BY <3>2, <3>5, AppendClean DEF Clean
    <3> QED BY <2>4, <3>6 DEF AppendPart
  <2>5. CASE AppendRest(w)
    <3>1. wal' = [wal EXCEPT ![Len(wal)].have = wal[Len(wal)].size]
      BY <2>5 DEF AppendRest
    <3>2. DOMAIN wal = 1..Len(wal) /\ Len(wal) \in Nat
      BY LenProperties
    <3>3. \A i \in 1..Len(wal) : wal[i] \in Frame
      BY ElementOfSeq
    <3>4. wal' \in [1..Len(wal) -> Frame]
      BY <3>1, <3>2, <3>3 DEF Frame
    <3>5. wal' \in Seq(Frame)
      <4>1. wal' \in UNION {[1..n -> Frame] : n \in Nat}
        BY <3>2, <3>4
      <4> QED BY <4>1, SeqDef
    <3>8. Len(wal') = Len(wal)
      BY <3>2, <3>4, <3>5, LenProperties
    <3>6. \A i \in DOMAIN wal : wal'[i].tx = wal[i].tx
      BY <3>1, <3>2, <3>3 DEF Frame
    <3>7. Clean(wal)'
      BY <3>1, <3>6 DEF Clean, Decodable
    <3> QED BY <2>5, <3>5, <3>7, <3>8, LenProperties DEF AppendRest
  <2>6. CASE SyncWal(w)
    BY <2>6 DEF SyncWal, Clean
  <2>7. CASE Publish(w)
    <3>1. Valid(operations[w]) /\ operations[w] \in Seq(Operation)
      BY <2>7 DEF Publish
    <3>2. Apply(snapshot.table, Canonicalize(operations[w])) \in Table
      BY <3>1, CanonicalizeType, ApplyType DEF Snapshot
    <3>3. PICK next \in Table :
            /\ snapshot' = [generation |-> snapshot.generation + 1, table |-> next]
            /\ history' = Append(history, next)
      BY <2>7, <3>2 DEF Publish
    <3>4. snapshot' \in Snapshot
      BY <3>3 DEF Snapshot
    <3>5. history' \in Seq(Table) /\ history' # <<>>
      BY <3>3, HistoryGrows
    <3> QED BY <2>7, <3>4, <3>5 DEF Publish
  <2> QED BY <1>2, <2>1, <2>2, <2>4, <2>5, <2>6, <2>7 DEF CommitSteps
<1>3. ASSUME NEW w \in Workers, OptimizeSteps(w) PROVE TypeInv'
  <2> USE DEF Step, Validated, PcValues, InCommit, InOptimize, diskVars, openVars
  <2>1. CASE LockOptimize(w) \/ WriteTemp(w)
    BY <2>1 DEF LockOptimize, WriteTemp
  <2>2. CASE Rename(w)
    BY <2>2 DEF Rename, WriteBack
  <2>3. CASE Truncate(w)
    BY <2>3, EmptySeq DEF Truncate, Clean
  <2>4. CASE SwapCompacted(w)
    BY <2>4 DEF SwapCompacted, Clean
  <2>5. CASE Sweep(w)
    BY <2>5 DEF Sweep, WriteBack
  <2>6. CASE OptimizeReturn(w) \/ OptimizeFails(w)
    BY <2>6, ReturnType DEF OptimizeReturn, OptimizeFails
  <2> QED BY <1>3, <2>1, <2>2, <2>3, <2>4, <2>5, <2>6 DEF OptimizeSteps
<1>4. ASSUME Open PROVE TypeInv'
  <2> USE DEF Validated, diskVars, openVars, threadVars
  <2>1. CASE LoadCheckpoint
    <3>1. [generation |-> 0, table |-> Empty] \in Snapshot
      BY DEF Snapshot, Empty, Table
    <3> QED BY <2>1, <3>1 DEF LoadCheckpoint
  <2>2. CASE ScanFrame \/ ScanFails
    BY <2>2, LenProperties DEF ScanFrame, ScanFails
  <2>3. CASE ScanEnds
    <3>1. wal' = SubSeq(wal, 1, cursor - 1)
      BY <2>3 DEF ScanEnds
    <3>2. wal' \in Seq(Frame) /\ Clean(wal)'
      <4>1. cursor - 1 \in 0..Len(wal) /\ Len(wal) \in Nat
        BY LenProperties
      <4>2. /\ wal' \in Seq(Frame) /\ Len(wal') = cursor - 1
            /\ \A i \in 1..(cursor - 1) : wal'[i] = wal[i]
        BY <4>1, <3>1, Prefix
      <4>3. DOMAIN wal' = 1..(cursor - 1) /\ DOMAIN wal = 1..Len(wal)
        BY <4>2, LenProperties
      <4> QED BY <4>1, <4>2, <4>3 DEF Clean
    <3> QED BY <2>3, <3>2 DEF ScanEnds
  <2>4. CASE ReplayFrame
    <3>1. wal[cursor] \in Frame /\ Decodable(wal[cursor])
      BY <2>4, ElementOfSeq, LenProperties DEF ReplayFrame, Clean
    <3>2. Apply(snapshot.table, wal[cursor].tx) \in Table
      BY <3>1, ApplyType DEF Frame, Snapshot, Decodable
    <3>3. Replayed(wal[cursor]) \in Snapshot
      BY <3>1, <3>2 DEF Replayed, Snapshot, Frame
    <3> QED BY <2>4, <3>1, <3>3, LenProperties DEF ReplayFrame
  <2>5. CASE Serve
    <3>1. history' \in Seq(Table) /\ history' # <<>>
      BY <2>5, HistoryGrows DEF Serve, Snapshot
    <3> QED BY <2>5, <3>1 DEF Serve
  <2> QED BY <1>4, <2>1, <2>2, <2>3, <2>4, <2>5 DEF Open
<1>5. ASSUME NEW kind \in CrashKinds, Crash(kind) PROVE TypeInv'
  <2>1. PICK image \in WalImages(kind) :
          wal' = image /\ durable' = IF kind = "power" THEN image ELSE durable
    BY <1>5 DEF Crash
  <2>2. image \in Seq(Frame) /\ Clean(image)
    BY ImageType
  <2>3. PICK listing \in DirectoryImages(kind) :
          checkpoints' = listing /\ onDisk' = IF kind = "power" THEN listing ELSE onDisk
    BY <1>5 DEF Crash
  <2>4. listing \in SUBSET Snapshot
    BY DEF DirectoryImages
  <2>5. [generation |-> 0, table |-> Empty] \in Snapshot
    BY DEF Snapshot, Empty, Table
  <2>6. <<>> \in Seq(Operation)
    BY EmptySeq
  <2> QED BY <1>5, <2>1, <2>2, <2>3, <2>4, <2>5, <2>6
          DEF Crash, Clean, Validated, PcValues
<1>6. CASE UNCHANGED vars
  BY <1>6 DEF vars, Validated, Clean, InFile
<1> QED BY <1>1, <1>2, <1>3, <1>4, <1>5, <1>6 DEF Next

\* The types hold when the process starts.
LEMMA InitType == Init => TypeInv
<1>1. Empty \in Table
  BY DEF Empty, Table
<1>2. <<Empty>> \in Seq(Table) /\ <<Empty>> # <<>>
  BY <1>1
<1> QED BY <1>1, <1>2, EmptySeq
        DEF Init, TypeInv, TypeOK, Validated, Clean, InFile, Snapshot, PcValues

\* Every variable keeps its type, whatever fails and however the process
\* stops; no document that validation rejects enters a table or the log.
THEOREM TypeCorrect == Spec => []TypeOK
<1>1. TypeInv => TypeOK
  BY DEF TypeInv
<1> QED BY <1>1, InitType, TypeStep, PTL DEF Spec

-----------------------------------------------------------------------------
(* Durability.                                                             *)

\* Writes and syncs of the log succeed, no transaction exceeds the limit that
\* recovery enforces, a rename is durable when it returns, and the process
\* is either killed or loses power, but never the one after the other.
Benign ==
  /\ Faults \cap {"append", "sync"} = {}
  /\ PayloadSizes \subseteq 1..MaxWalRecord
  /\ JournaledDirectory
  /\ ~({"process", "power"} \subseteq CrashKinds)

-----------------------------------------------------------------------------
(* The inductive invariant.                                                *)

Locked  == InCommit \cup InOptimize
Writing == {"appending", "sync", "publish"}

\* One thread at a time is between taking and dropping the writer mutex, and
\* no call is under way unless the database is open.
Exclusive ==
  /\ \A w \in Workers : pc[w] \in Locked => writer = w
  /\ phase # "ready" => \A w \in Workers : pc[w] = "idle"

\* A log that recovery understands, when h is the history: consecutive
\* generations up to the newest one or the one after it, each frame behind
\* the previous ones and all but the last one whole.  A frame of a published
\* generation is whole, and the difference from the generation before.
Chained(log, h) ==
  /\ \A i \in DOMAIN log :
       /\ log[i].size > HeaderUnits
       /\ log[i].size - HeaderUnits <= MaxWalRecord
       /\ log[i].have \in 1..log[i].size
       /\ log[i].generation >= 1
       /\ log[i].generation < Len(h) =>
            /\ Whole(log[i])
            /\ h[log[i].generation + 1] = Apply(h[log[i].generation], log[i].tx)
  /\ \A i, j \in DOMAIN log : i < j =>
       /\ Whole(log[i])
       /\ log[j].generation = log[i].generation + (j - i)
       /\ EndOf(log[i]) <= log[j].start
  /\ log # <<>> => log[Len(log)].generation \in {Len(h) - 1, Len(h)}

\* Checkpoints hold what was published.
Checkpointed ==
  /\ history[1] = Empty
  /\ onDisk = checkpoints
  /\ \A c \in checkpoints :
       c.generation <= Newest /\ c.table = history[c.generation + 1]

\* The log and, where power may fail, what is left of it without power.
Logged ==
  /\ Chained(wal, history)
  /\ Restores(wal, checkpoints, Newest)
  /\ "power" \in CrashKinds =>
       /\ Chained(durable, history)
       /\ Restores(durable, checkpoints, Newest)
       /\ \A i \in DOMAIN wal :
            phase # "ready" \/ wal[i].generation <= Newest =>
              i \in DOMAIN durable /\ durable[i] = wal[i]

\* Every frame of the log is whole and published.
Settled ==
  \A i \in DOMAIN wal : Whole(wal[i]) /\ wal[i].generation <= Newest

\* The open database, and what its log holds beyond the newest generation at
\* each point of a commit or optimize.
Serving ==
  phase = "ready" =>
    /\ snapshot = [generation |-> Newest, table |-> history[Len(history)]]
    /\ (\A w \in Workers : pc[w] \notin Writing) => Settled
    /\ \A w \in Workers :
         /\ pc[w] \in Writing =>
              /\ wal # <<>>
              /\ wal[Len(wal)].generation = Newest + 1
              /\ wal[Len(wal)].tx = Canonicalize(operations[w])
              /\ wal[Len(wal)].good
         /\ pc[w] \in {"sync", "publish"} => Whole(wal[Len(wal)])
         /\ pc[w] = "publish" => durable = wal
         /\ pc[w] \in {"truncate", "truncateSync", "sweep"} => snapshot \in checkpoints
         /\ pc[w] \in {"truncateSync", "sweep"} => wal = <<>>

\* The snapshot that recovery has reached.
Recovering ==
  /\ phase # "corrupt"
  /\ phase \in {"scan", "replay"} =>
       \A c \in checkpoints : c.generation <= snapshot.generation
  /\ phase = "scan" =>
       /\ snapshot \in checkpoints \cup {[generation |-> 0, table |-> Empty]}
       /\ \A i \in 1..(cursor - 1) : Whole(wal[i])
  /\ phase = "replay" =>
       /\ \A i \in DOMAIN wal : Whole(wal[i])
       /\ \A i \in 1..(cursor - 1) : wal[i].generation <= snapshot.generation
       /\ cursor <= Len(wal) => wal[cursor].generation <= snapshot.generation + 1
       /\ snapshot.generation <= Newest + 1
       /\ snapshot.generation <= Newest =>
            snapshot.table = history[snapshot.generation + 1]
       /\ snapshot.generation > Newest =>
            /\ wal # <<>>
            /\ wal[Len(wal)].generation = Newest + 1
            /\ snapshot.table = Apply(history[Len(history)], wal[Len(wal)].tx)

IInv ==
  /\ TypeInv
  /\ Exclusive /\ Checkpointed /\ Logged /\ Serving /\ Recovering

-----------------------------------------------------------------------------
(* Facts about logs.                                                       *)

\* The frames of a log have the types that TypeOK gives them.
LEMMA Frames ==
  ASSUME NEW log \in Seq(Frame)
  PROVE  /\ Len(log) \in Nat /\ DOMAIN log = 1..Len(log)
         /\ log = <<>> <=> Len(log) = 0
         /\ \A i \in DOMAIN log :
              /\ log[i] \in Frame
              /\ log[i].generation \in Nat /\ log[i].start \in Nat
              /\ log[i].size \in Nat /\ log[i].have \in Nat
<1>1. Len(log) \in Nat /\ DOMAIN log = 1..Len(log)
  BY LenProperties
<1>2. log = <<>> <=> Len(log) = 0
  BY EmptySeq
<1>3. ASSUME NEW i \in DOMAIN log PROVE log[i] \in Frame
  BY <1>1, ElementOfSeq
<1> QED BY <1>1, <1>2, <1>3 DEF Frame

\* The history is never empty, and Newest is its last generation.
LEMMA History ==
  ASSUME TypeOK
  PROVE  /\ Len(history) \in Nat \ {0} /\ Newest \in Nat
         /\ DOMAIN history = 1..Len(history) /\ Newest + 1 = Len(history)
         /\ \A i \in 1..Len(history) : history[i] \in Table
<1>1. history \in Seq(Table) /\ history # <<>>
  BY DEF TypeOK
<1>2. Len(history) \in Nat \ {0}
  BY <1>1, EmptySeq
<1>3. /\ DOMAIN history = 1..Len(history)
      /\ \A i \in 1..Len(history) : history[i] \in Table
  BY <1>1, ElementOfSeq, LenProperties
<1> QED BY <1>2, <1>3 DEF Newest

\* Only the last frame can be beyond the newest generation.
LEMMA ChainBound ==
  ASSUME NEW log \in Seq(Frame), NEW h, Len(h) \in Nat \ {0}, Chained(log, h)
  PROVE  \A i \in DOMAIN log :
           /\ log[i].generation <= Len(h)
           /\ log[i].generation = Len(h) => i = Len(log)
           /\ i < Len(log) => log[i].generation = log[Len(log)].generation - (Len(log) - i)
<1> SUFFICES ASSUME NEW i \in DOMAIN log
             PROVE  /\ log[i].generation <= Len(h)
                    /\ log[i].generation = Len(h) => i = Len(log)
                    /\ i < Len(log) =>
                         log[i].generation = log[Len(log)].generation - (Len(log) - i)
  OBVIOUS
<1>1. /\ Len(log) \in Nat /\ DOMAIN log = 1..Len(log) /\ log # <<>>
      /\ log[i].generation \in Nat /\ log[Len(log)].generation \in Nat
  BY Frames
<1>2. log[Len(log)].generation \in {Len(h) - 1, Len(h)}
  BY <1>1 DEF Chained
<1>3. CASE i = Len(log)
  BY <1>1, <1>2, <1>3
<1>4. CASE i < Len(log)
  <2>1. Len(log) \in DOMAIN log
    BY <1>1
  <2>2. log[Len(log)].generation = log[i].generation + (Len(log) - i)
    BY <1>4, <2>1 DEF Chained
  <2> QED BY <1>1, <1>2, <1>4, <2>2
<1> QED BY <1>1, <1>3, <1>4

\* A log stays chained when its last frame is published, or it has none.
LEMMA ChainGrows ==
  ASSUME NEW log \in Seq(Frame), NEW h \in Seq(Table), h # <<>>, Chained(log, h),
         NEW next \in Table,
         log # <<>> => /\ log[Len(log)].generation = Len(h)
                       /\ Whole(log[Len(log)])
                       /\ next = Apply(h[Len(h)], log[Len(log)].tx)
  PROVE  Chained(log, Append(h, next))
<1> DEFINE g == Append(h, next)
<1>1. /\ Len(g) = Len(h) + 1 /\ Len(h) \in Nat \ {0}
      /\ \A i \in 1..Len(h) : g[i] = h[i]
      /\ g[Len(h) + 1] = next
  BY AppendProperties, EmptySeq
<1>2. /\ Len(log) \in Nat /\ DOMAIN log = 1..Len(log)
      /\ \A i \in DOMAIN log : log[i].generation \in Nat
  BY Frames
<1> HIDE DEF g
<1>3. ASSUME NEW i \in DOMAIN log
      PROVE  /\ log[i].size > HeaderUnits
             /\ log[i].size - HeaderUnits <= MaxWalRecord
             /\ log[i].have \in 1..log[i].size
             /\ log[i].generation >= 1
             /\ log[i].generation < Len(g) =>
                  /\ Whole(log[i])
                  /\ g[log[i].generation + 1] =
                       Apply(g[log[i].generation], log[i].tx)
  <2>1. /\ log[i].size > HeaderUnits
        /\ log[i].size - HeaderUnits <= MaxWalRecord
        /\ log[i].have \in 1..log[i].size
        /\ log[i].generation >= 1
    BY DEF Chained
  <2>2. CASE log[i].generation = Len(h)
    <3>1. i = Len(log) /\ log # <<>>
      BY <2>2, <1>1, <1>2, ChainBound, Frames
    <3>2. g[Len(h) + 1] = Apply(g[Len(h)], log[i].tx)
      BY <3>1, <1>1
    <3> QED BY <2>1, <2>2, <3>1, <3>2
  <2>3. CASE log[i].generation # Len(h)
    <3>1. log[i].generation < Len(h)
      BY <2>3, <1>1, <1>2, ChainBound
    <3>2. /\ Whole(log[i])
          /\ h[log[i].generation + 1] = Apply(h[log[i].generation], log[i].tx)
      BY <3>1 DEF Chained
    <3>3. /\ g[log[i].generation + 1] = h[log[i].generation + 1]
          /\ g[log[i].generation] = h[log[i].generation]
      <4>1. log[i].generation \in 1..Len(h) /\ log[i].generation + 1 \in 1..Len(h)
        BY <3>1, <2>1, <1>1, <1>2
      <4> QED BY <4>1, <1>1
    <3> QED BY <2>1, <3>2, <3>3
  <2> QED BY <2>2, <2>3
<1>4. log # <<>> => log[Len(log)].generation \in {Len(g) - 1, Len(g)}
  BY <1>1
<1>5. \A i, j \in DOMAIN log : i < j =>
        /\ Whole(log[i])
        /\ log[j].generation = log[i].generation + (j - i)
        /\ EndOf(log[i]) <= log[j].start
  BY DEF Chained
<1>6. Chained(log, g)
  BY <1>3, <1>4, <1>5 DEF Chained
<1> QED BY <1>6 DEF g

\* A checkpoint of the newest generation is all that is needed.
LEMMA NewestRestores ==
  ASSUME NEW listing \in SUBSET Snapshot, NEW s \in listing, NEW log,
         \A c \in listing : c.generation <= s.generation
  PROVE  Restores(log, listing, s.generation)
<1>1. s.generation \in Nat
  BY DEF Snapshot
<1>2. \A g \in (s.generation + 1)..s.generation :
        \E i \in DOMAIN log : Whole(log[i]) /\ log[i].generation = g
  BY <1>1
<1> QED BY <1>2 DEF Restores

\* Restoring looks at the whole frames of published generations only.
LEMMA RestoresSame ==
  ASSUME NEW listing, NEW newest, NEW log, NEW other, Restores(log, listing, newest),
         \A i \in DOMAIN log : Whole(log[i]) /\ log[i].generation <= newest =>
           \E j \in DOMAIN other :
             Whole(other[j]) /\ other[j].generation = log[i].generation
  PROVE  Restores(other, listing, newest)
<1>1. PICK c \in listing \cup {[generation |-> 0, table |-> Empty]} :
        /\ \A d \in listing : d.generation <= c.generation
        /\ \A g \in (c.generation + 1)..newest :
             \E i \in DOMAIN log : Whole(log[i]) /\ log[i].generation = g
  BY DEF Restores
<1>2. ASSUME NEW g \in (c.generation + 1)..newest
      PROVE  \E j \in DOMAIN other : Whole(other[j]) /\ other[j].generation = g
  <2>1. PICK i \in DOMAIN log : Whole(log[i]) /\ log[i].generation = g
    BY <1>1
  <2>2. g <= newest
    OBVIOUS
  <2> QED BY <2>1, <2>2
<1> QED BY <1>1, <1>2 DEF Restores

\* With one more generation, its frame is needed too.
LEMMA RestoresNext ==
  ASSUME NEW listing \in SUBSET Snapshot, NEW newest \in Nat, NEW log,
         Restores(log, listing, newest),
         NEW i \in DOMAIN log, Whole(log[i]), log[i].generation = newest + 1
  PROVE  Restores(log, listing, newest + 1)
<1>1. PICK c \in listing \cup {[generation |-> 0, table |-> Empty]} :
        /\ \A d \in listing : d.generation <= c.generation
        /\ \A g \in (c.generation + 1)..newest :
             \E j \in DOMAIN log : Whole(log[j]) /\ log[j].generation = g
  BY DEF Restores
<1>2. c.generation \in Nat
  BY DEF Snapshot
<1>3. ASSUME NEW g \in (c.generation + 1)..(newest + 1)
      PROVE  \E j \in DOMAIN log : Whole(log[j]) /\ log[j].generation = g
  <2>1. CASE g = newest + 1
    BY <2>1
  <2>2. CASE g # newest + 1
    BY <1>1, <1>2, <2>2
  <2> QED BY <2>1, <2>2
<1> QED BY <1>1, <1>3 DEF Restores

-----------------------------------------------------------------------------
(* The writer mutex.                                                       *)

\* A thread takes the mutex when it is free, and only its holder steps on.
LEMMA ExclusiveStep ==
  ASSUME TypeInv, Exclusive, phase' = phase,
         NEW w \in Workers, NEW from, NEW to, Step(w, from, to),
         \/ writer' = writer /\ (from \in Locked \/ to \notin Locked)
         \/ writer' = NoWorker /\ from \in Locked /\ to \notin Locked
         \/ writer' = w /\ writer = NoWorker
  PROVE  /\ Exclusive'
         /\ from \in Locked \/ to \in Locked =>
              \A v \in Workers \ {w} : pc[v] \notin Locked
         /\ \A v \in Workers \ {w} : pc'[v] = pc[v]
         /\ pc'[w] = to
<1>1. /\ \A v \in Workers \ {w} : pc'[v] = pc[v]
      /\ pc'[w] = to /\ pc[w] = from /\ phase = "ready"
  BY DEF Step, TypeInv, TypeOK
<1>2. \A v \in Workers : pc[v] \in Locked => writer = v
  BY DEF Exclusive
<1>3. NoWorker \notin Workers
  BY WorkerAssumption
<1>4. from \in Locked \/ to \in Locked =>
        \A v \in Workers \ {w} : pc[v] \notin Locked
  BY <1>1, <1>2, <1>3
<1>5. ASSUME NEW v \in Workers, pc'[v] \in Locked PROVE writer' = v
  BY <1>1, <1>2, <1>3, <1>4, <1>5
<1> QED BY <1>1, <1>4, <1>5 DEF Exclusive

\* Every step keeps the mutex exclusive, whatever fails.
LEMMA ExclusiveAlways ==
  TypeInv /\ Exclusive /\ [Next]_vars => Exclusive'
<1> SUFFICES ASSUME TypeInv, Exclusive, [Next]_vars
             PROVE  Exclusive'
  OBVIOUS
<1> USE DEF Locked, InCommit, InOptimize, openVars, diskVars
<1>1. ASSUME NEW w \in Workers, Calls(w) PROVE Exclusive'
  BY <1>1, ExclusiveStep
     DEF Calls, Begin, Push, Rollback, CommitCall, OptimizeCall, Return
<1>2. ASSUME NEW w \in Workers, CommitSteps(w) PROVE Exclusive'
  <2>1. CASE LockCommit(w) \/ ExhaustedCommit(w) \/ CommitReturn(w)
    BY <2>1, ExclusiveStep
       DEF LockCommit, ExhaustedCommit, CommitReturn, Return, Unlock
  <2>2. CASE AppendPart(w) \/ AppendRest(w) \/ SyncWal(w) \/ Publish(w)
    BY <2>2, ExclusiveStep DEF AppendPart, AppendRest, SyncWal, Publish
  <2>3. CASE AppendFails(w) \/ SyncFails(w)
    BY <2>3, ExclusiveStep DEF AppendFails, SyncFails, Return, Unlock
  <2> QED BY <1>2, <2>1, <2>2, <2>3 DEF CommitSteps
<1>3. ASSUME NEW w \in Workers, OptimizeSteps(w) PROVE Exclusive'
  <2>1. CASE LockOptimize(w) \/ WriteTemp(w) \/ Rename(w) \/ Truncate(w)
               \/ SwapCompacted(w) \/ Sweep(w)
    BY <2>1, ExclusiveStep
       DEF LockOptimize, WriteTemp, Rename, Truncate, SwapCompacted, Sweep
  <2>2. CASE OptimizeReturn(w) \/ OptimizeFails(w)
    BY <2>2, ExclusiveStep DEF OptimizeReturn, OptimizeFails, Return, Unlock
  <2> QED BY <1>3, <2>1, <2>2 DEF OptimizeSteps
<1>4. CASE Open
  BY <1>4 DEF Open, LoadCheckpoint, ScanFrame, ScanEnds, ScanFails, ReplayFrame,
              Serve, threadVars, Exclusive
<1>5. ASSUME NEW kind \in CrashKinds, Crash(kind) PROVE Exclusive'
  BY <1>5 DEF Crash, Exclusive
<1>6. CASE UNCHANGED vars
  BY <1>6 DEF vars, Exclusive
<1> QED BY <1>1, <1>2, <1>3, <1>4, <1>5, <1>6 DEF Next

-----------------------------------------------------------------------------
(* Generations.                                                            *)

\* No generation is beyond the last one, so that adding one never overflows.
Bounded ==
  /\ snapshot.generation <= MaxGeneration
  /\ \A c \in checkpoints \cup onDisk : c.generation <= MaxGeneration
  /\ \A i \in DOMAIN wal : wal[i].generation <= MaxGeneration
  /\ \A i \in DOMAIN durable : durable[i].generation <= MaxGeneration
  /\ \A w \in Workers :
       pc[w] \in {"append", "appending", "sync", "publish"} =>
         snapshot.generation < MaxGeneration

\* A crash leaves no generation that was not in the log or in the durable log.
LEMMA GenerationsOfImage ==
  ASSUME TypeInv, NEW last,
         \A i \in DOMAIN wal : wal[i].generation <= last,
         \A i \in DOMAIN durable : durable[i].generation <= last,
         NEW kind \in CrashKinds, NEW image \in WalImages(kind)
  PROVE  \A i \in DOMAIN image : image[i].generation <= last
<1>1. wal \in Seq(Frame)
  BY DEF TypeInv, TypeOK
<1>2. ASSUME NEW n \in 0..Len(wal)
      PROVE  /\ SubSeq(wal, 1, n) \in Seq(Frame)
             /\ Len(SubSeq(wal, 1, n)) = n
             /\ \A i \in 1..n : SubSeq(wal, 1, n)[i].generation <= last
  <2>1. 1..n \subseteq DOMAIN wal
    BY <1>1, Frames
  <2> QED BY <1>1, <2>1, Prefix
<1>3. ASSUME NEW n \in 0..Len(wal), n # Len(wal), NEW f \in Damaged(wal[n + 1]),
             image = Append(SubSeq(wal, 1, n), f)
      PROVE  \A i \in DOMAIN image : image[i].generation <= last
  <2>1. n + 1 \in DOMAIN wal /\ wal[n + 1] \in Frame
    BY <1>1, <1>3, Frames
  <2>2. f \in Frame /\ f.generation <= last
    BY <2>1, DamagedType
  <2> DEFINE log == SubSeq(wal, 1, n)
  <2>3. /\ log \in Seq(Frame) /\ Len(log) = n
        /\ \A i \in 1..n : log[i].generation <= last
    BY <1>2
  <2> HIDE DEF log
  <2>4. /\ Append(log, f) \in Seq(Frame) /\ Len(Append(log, f)) = n + 1
        /\ \A i \in 1..n : Append(log, f)[i] = log[i]
        /\ Append(log, f)[n + 1] = f
    BY <2>2, <2>3, AppendProperties
  <2>5. image = Append(log, f)
    BY <1>3 DEF log
  <2>6. ASSUME NEW i \in DOMAIN image PROVE i = n + 1 \/ i \in 1..n
    <3>1. i \in 1..(n + 1) /\ n \in Nat
      BY <2>4, <2>5, <1>1, LenProperties
    <3> QED BY <3>1
  <2> QED BY <2>2, <2>3, <2>4, <2>5, <2>6
<1>4. \/ image = wal \/ image = durable
      \/ \E n \in 0..Len(wal) : image = SubSeq(wal, 1, n)
      \/ \E n \in 0..Len(wal) : n # Len(wal) /\
           \E f \in Damaged(wal[n + 1]) : image = Append(SubSeq(wal, 1, n), f)
  BY DEF WalImages, Kept
<1>5. ASSUME NEW n \in 0..Len(wal), image = SubSeq(wal, 1, n)
      PROVE  \A i \in DOMAIN image : image[i].generation <= last
  BY <1>2, <1>5, LenProperties
<1> QED BY <1>3, <1>4, <1>5

\* Every step keeps generations bounded: commit looks for the last one under
\* the mutex, and nobody else publishes until it is done.
LEMMA BoundedStep ==
  TypeInv /\ Exclusive /\ Bounded /\ [Next]_vars => Bounded'
<1> SUFFICES ASSUME TypeInv, Exclusive, Bounded, [Next]_vars
             PROVE  Bounded'
  OBVIOUS
<1> DEFINE Working == {"append", "appending", "sync", "publish"}
<1>1. /\ MaxGeneration \in Nat /\ snapshot.generation \in Nat
      /\ wal \in Seq(Frame) /\ durable \in Seq(Frame)
      /\ Len(wal) \in Nat /\ DOMAIN wal = 1..Len(wal)
      /\ pc \in [Workers -> PcValues]
      /\ \A i \in DOMAIN wal : wal[i].generation \in Nat
  BY BoundAssumption, Frames DEF TypeInv, TypeOK, Snapshot
<1>2. TypeInv' /\ Exclusive'
  BY TypeStep, ExclusiveAlways
\* A step that leaves files and snapshot alone, and takes no thread to work.
<1>3. ASSUME UNCHANGED <<wal, checkpoints, onDisk, snapshot>>, durable' \in {wal, durable},
             \A w \in Workers : pc'[w] \in Working => pc[w] \in Working
      PROVE  Bounded'
  BY <1>3 DEF Bounded
<1>4. ASSUME NEW w \in Workers, NEW from, NEW to, Step(w, from, to),
             to \in Working => from \in Working
      PROVE  \A v \in Workers : pc'[v] \in Working => pc[v] \in Working
  BY <1>1, <1>4 DEF Step
<1>5. ASSUME NEW w \in Workers, Calls(w) PROVE Bounded'
  BY <1>3, <1>4, <1>5
     DEF Calls, Begin, Push, Rollback, CommitCall, OptimizeCall, Return, diskVars
<1>6. ASSUME NEW w \in Workers, CommitSteps(w) PROVE Bounded'
  <2>1. CASE LockCommit(w)
    BY <1>1, <2>1 DEF LockCommit, Step, diskVars, Bounded
  <2>2. CASE ExhaustedCommit(w) \/ CommitReturn(w) \/ AppendFails(w) \/ SyncFails(w)
             \/ SyncWal(w)
    BY <1>3, <1>4, <2>2 DEF ExhaustedCommit, CommitReturn, AppendFails, SyncFails,
                            SyncWal, Return, diskVars
  <2>3. CASE AppendPart(w)
    <3>1. /\ UNCHANGED <<durable, checkpoints, onDisk, snapshot>>
          /\ Step(w, "append", "appending")
          /\ \E payload \in PayloadSizes :
               \E have \in 1..(HeaderUnits + payload - 1) :
                 wal' = Append(wal, NewFrame(w, payload, have))
      BY <2>3 DEF AppendPart
    <3>2. \A v \in Workers : pc'[v] \in Working => pc[v] \in Working
      BY <3>1, <1>4
    <3>3. PICK payload \in PayloadSizes, have \in Nat :
            wal' = Append(wal, NewFrame(w, payload, have))
      <4>1. PICK payload \in PayloadSizes :
              \E have \in 1..(HeaderUnits + payload - 1) :
                wal' = Append(wal, NewFrame(w, payload, have))
        BY <3>1
      <4> QED BY <4>1
    <3>4. /\ NewFrame(w, payload, have) \in Frame
          /\ NewFrame(w, payload, have).generation = snapshot.generation + 1
      BY NewFrameType DEF TypeInv, NewFrame
    <3>5. snapshot.generation + 1 <= MaxGeneration
      BY <1>1, <3>1 DEF Step, Bounded
    <3>6. /\ Len(wal') = Len(wal) + 1 /\ wal' \in Seq(Frame)
          /\ \A i \in 1..Len(wal) : wal'[i] = wal[i]
          /\ wal'[Len(wal) + 1] = NewFrame(w, payload, have)
      BY <1>1, <3>3, <3>4, AppendProperties
    <3>7. \A i \in DOMAIN wal' : i = Len(wal) + 1 \/ i \in 1..Len(wal)
      <4>1. DOMAIN wal' = 1..(Len(wal) + 1)
        BY <3>6, LenProperties
      <4> QED BY <1>1, <4>1
    <3> QED BY <1>1, <3>1, <3>2, <3>4, <3>5, <3>6, <3>7 DEF Bounded
  <2>4. CASE AppendRest(w)
    <3>1. /\ UNCHANGED <<durable, checkpoints, onDisk, snapshot>>
          /\ Step(w, "appending", "sync")
          /\ DOMAIN wal' = DOMAIN wal
          /\ \A i \in DOMAIN wal : wal'[i].generation = wal[i].generation
      <4>1. \A i \in DOMAIN wal : wal[i] \in Frame
        BY <1>1, Frames
      <4> QED BY <1>1, <2>4, <4>1 DEF AppendRest, Frame
    <3> QED BY <1>4, <3>1 DEF Bounded
  <2>5. CASE Publish(w)
    <3>1. /\ UNCHANGED <<wal, durable, checkpoints, onDisk>>
          /\ Step(w, "publish", "commitReturn") /\ pc[w] = "publish"
          /\ snapshot'.generation = snapshot.generation + 1
          /\ writer' = writer /\ phase' = phase
      BY <2>5 DEF Publish, Step, diskVars, openVars
    <3>2. \A v \in Workers \ {w} : pc'[v] \notin Working
      BY <3>1, ExclusiveStep DEF Locked, InCommit
    <3>3. pc'[w] \notin Working
      BY <1>1, <3>1 DEF Step
    <3>4. snapshot.generation < MaxGeneration
      BY <3>1 DEF Bounded
    <3> QED BY <1>1, <3>1, <3>2, <3>3, <3>4 DEF Bounded
  <2> QED BY <1>6, <2>1, <2>2, <2>3, <2>4, <2>5 DEF CommitSteps
<1>7. ASSUME NEW w \in Workers, OptimizeSteps(w) PROVE Bounded'
  <2>1. CASE LockOptimize(w) \/ WriteTemp(w) \/ SwapCompacted(w) \/ OptimizeReturn(w)
             \/ OptimizeFails(w)
    BY <1>3, <1>4, <2>1 DEF LockOptimize, WriteTemp, SwapCompacted, OptimizeReturn,
                            OptimizeFails, Return, diskVars
  <2>2. CASE Rename(w) \/ Sweep(w)
    BY <1>4, <2>2 DEF Rename, Sweep, WriteBack, Bounded
  <2>3. CASE Truncate(w)
    BY <1>4, <2>3 DEF Truncate, Bounded
  <2> QED BY <1>7, <2>1, <2>2, <2>3 DEF OptimizeSteps
<1>8. CASE Open
  <2>1. \A w \in Workers : pc'[w] \notin Working /\ pc' = pc
    BY <1>8 DEF Open, LoadCheckpoint, ScanFrame, ScanEnds, ScanFails, ReplayFrame,
                Serve, threadVars, Exclusive
  <2>2. CASE LoadCheckpoint
    BY <1>1, <2>1, <2>2 DEF LoadCheckpoint, diskVars, Bounded
  <2>3. CASE ScanEnds
    <3>1. \A i \in DOMAIN wal' : i \in DOMAIN wal /\ wal'[i] = wal[i]
      <4>1. cursor - 1 \in 0..Len(wal)
        BY <1>1 DEF TypeInv, InFile
      <4>2. wal' = SubSeq(wal, 1, cursor - 1)
        BY <2>3 DEF ScanEnds
      <4> QED BY <1>1, <4>1, <4>2, Prefix, LenProperties
    <3> QED BY <2>1, <2>3, <3>1 DEF ScanEnds, Bounded
  <2>4. CASE ScanFrame \/ ScanFails \/ Serve
    BY <1>3, <2>1, <2>4 DEF ScanFrame, ScanFails, Serve, diskVars
  <2>5. CASE ReplayFrame
    <3>1. cursor \in DOMAIN wal
      BY <1>1, <2>5 DEF ReplayFrame, TypeInv, InFile
    <3> QED BY <2>1, <2>5, <3>1 DEF ReplayFrame, Replayed, diskVars, Bounded
  <2> QED BY <1>8, <2>2, <2>3, <2>4, <2>5 DEF Open
<1>9. ASSUME NEW kind \in CrashKinds, Crash(kind) PROVE Bounded'
  <2>1. PICK image \in WalImages(kind) :
          wal' = image /\ durable' = IF kind = "power" THEN image ELSE durable
    BY <1>9 DEF Crash
  <2>2. \A i \in DOMAIN image : image[i].generation <= MaxGeneration
    BY GenerationsOfImage DEF Bounded
  <2>3. (checkpoints \cup onDisk)' \subseteq checkpoints \cup onDisk
    BY <1>9 DEF Crash, DirectoryImages
  <2>4. snapshot'.generation = 0 /\ \A w \in Workers : pc'[w] = "idle"
    BY <1>9 DEF Crash
  <2>5. \A i \in DOMAIN durable' : durable'[i].generation <= MaxGeneration
    BY <2>1, <2>2 DEF Bounded
  <2> QED BY <1>1, <2>1, <2>2, <2>3, <2>4, <2>5 DEF Bounded
<1>10. CASE UNCHANGED vars
  BY <1>3, <1>10 DEF vars
<1> QED BY <1>5, <1>6, <1>7, <1>8, <1>9, <1>10 DEF Next

\* Steps of calls that touch neither the directory nor the snapshot.
LEMMA QuietStep ==
  ASSUME IInv, TypeInv',
         UNCHANGED <<diskVars, openVars, snapshot, history>>,
         NEW w \in Workers, NEW from \in PcValues \ Writing,
         NEW to \in PcValues \ (Writing \cup {"truncate", "truncateSync", "sweep"}),
         Step(w, from, to),
         \/ writer' = writer /\ (from \in Locked \/ to \notin Locked)
         \/ writer' = NoWorker /\ from \in Locked /\ to \notin Locked
         \/ writer' = w /\ writer = NoWorker,
         \A v \in Workers \ {w} : operations'[v] = operations[v]
  PROVE  IInv'
<1>1. /\ UNCHANGED <<wal, durable, checkpoints, onDisk, phase, cursor, snapshot, history>>
      /\ phase = "ready" /\ pc[w] = from
  BY DEF diskVars, openVars, Step
<1>2. /\ Exclusive'
      /\ \A v \in Workers \ {w} : pc'[v] = pc[v]
      /\ pc'[w] = to
  BY <1>1, ExclusiveStep DEF IInv
<1>3. Checkpointed'
  BY <1>1 DEF IInv, Checkpointed, Newest
<1>4. Logged'
  BY <1>1 DEF IInv, Logged, Newest
<1>5. Recovering'
  BY <1>1 DEF IInv, Recovering
<1>6. Serving'
  <2>1. (\A v \in Workers : pc'[v] \notin Writing) => Settled'
    BY <1>1, <1>2 DEF IInv, Serving, Settled, Newest
  <2>2. ASSUME NEW v \in Workers \ {w}
        PROVE  pc'[v] = pc[v] /\ operations'[v] = operations[v]
    BY <1>2
  <2>3. to \notin Writing /\ to \notin {"sync", "publish", "truncate", "truncateSync", "sweep"}
    BY DEF Writing
  <2> QED BY <1>1, <1>2, <2>1, <2>2, <2>3 DEF IInv, Serving, Newest
<1> QED BY <1>2, <1>3, <1>4, <1>5, <1>6 DEF IInv

\* Building a transaction, and calling commit or optimize, keeps the
\* invariant: none of it touches the directory or the snapshot.
LEMMA CallStep ==
  ASSUME IInv, TypeInv', NEW w \in Workers, Calls(w)
  PROVE  IInv'
<1> USE DEF Locked, Writing, InCommit, InOptimize, PcValues
<1>1. TypeOK
  BY DEF IInv, TypeInv
<1>2. CASE Begin(w)
  BY <1>2, QuietStep DEF Begin
<1>3. CASE Push(w)
  <2>1. \A v \in Workers \ {w} : operations'[v] = operations[v]
    BY <1>1, <1>3 DEF Push, TypeOK
  <2> QED BY <1>3, <2>1, QuietStep DEF Push
<1>4. CASE Rollback(w)
  <2>1. \A v \in Workers \ {w} : operations'[v] = operations[v]
    BY <1>1, <1>4 DEF Rollback, Return, TypeOK
  <2> QED BY <1>4, <2>1, QuietStep DEF Rollback, Return
<1>5. CASE CommitCall(w)
  BY <1>5, QuietStep DEF CommitCall
<1>6. CASE OptimizeCall(w)
  BY <1>6, QuietStep DEF OptimizeCall
<1> QED BY <1>2, <1>3, <1>4, <1>5, <1>6 DEF Calls

\* Steps of commit and optimize that only take or drop the mutex.
LEMMA LockStep ==
  ASSUME IInv, TypeInv', NEW w \in Workers,
         \/ LockCommit(w) \/ ExhaustedCommit(w) \/ CommitReturn(w)
         \/ LockOptimize(w) \/ WriteTemp(w) \/ OptimizeReturn(w) \/ OptimizeFails(w)
  PROVE  IInv'
<1> USE DEF Locked, Writing, InCommit, InOptimize, PcValues
<1>1. TypeOK
  BY DEF IInv, TypeInv
<1>2. CASE LockCommit(w)
  BY <1>2, QuietStep DEF LockCommit
<1>3. ASSUME NEW from, Return(w, from)
      PROVE  \A v \in Workers \ {w} : operations'[v] = operations[v]
  BY <1>1, <1>3 DEF Return, TypeOK
<1>4. CASE ExhaustedCommit(w)
  BY <1>3, <1>4, QuietStep DEF ExhaustedCommit, Return
<1>5. CASE CommitReturn(w)
  BY <1>3, <1>5, QuietStep DEF CommitReturn, Return, Unlock
<1>6. CASE LockOptimize(w)
  BY <1>6, QuietStep DEF LockOptimize
<1>7. CASE WriteTemp(w)
  BY <1>7, QuietStep DEF WriteTemp
<1>8. CASE OptimizeReturn(w)
  BY <1>3, <1>8, QuietStep DEF OptimizeReturn, Return, Unlock
<1>9. CASE OptimizeFails(w)
  <2>1. PICK call \in Faults \cap InOptimize : Return(w, call)
    BY <1>9 DEF OptimizeFails
  <2>2. \A v \in Workers \ {w} : operations'[v] = operations[v]
    BY <1>3, <2>1
  <2> QED BY <1>9, <2>1, <2>2, QuietStep DEF OptimizeFails, Return, Unlock
<1> QED BY <1>2, <1>4, <1>5, <1>6, <1>7, <1>8, <1>9

-----------------------------------------------------------------------------
(* Steps of commit.                                                        *)

\* While its holder is not writing, the log ends with the newest generation.
LEMMA SettledLog ==
  ASSUME IInv, Settled
  PROVE  /\ wal # <<>> => wal[Len(wal)].generation = Newest
         /\ FileLength \in Nat
         /\ \A i \in DOMAIN wal : EndOf(wal[i]) <= FileLength
         /\ \A i \in DOMAIN wal : wal[i].generation = Newest - (Len(wal) - i)
<1>1. /\ wal \in Seq(Frame) /\ Chained(wal, history) /\ TypeOK
  BY DEF IInv, TypeInv, TypeOK, Logged
<1>2. /\ Len(wal) \in Nat /\ DOMAIN wal = 1..Len(wal)
      /\ wal = <<>> <=> Len(wal) = 0
      /\ \A i \in DOMAIN wal :
           /\ wal[i].generation \in Nat /\ wal[i].start \in Nat
           /\ wal[i].size \in Nat /\ wal[i].have \in Nat
  BY <1>1, Frames
<1>3. Newest \in Nat /\ Newest + 1 = Len(history) /\ Len(history) \in Nat
  BY <1>1, History
<1>4. wal # <<>> => wal[Len(wal)].generation = Newest
  <2>1. wal # <<>> => wal[Len(wal)].generation \in {Newest, Newest + 1}
    BY <1>1, <1>2, <1>3 DEF Chained
  <2>2. wal # <<>> => wal[Len(wal)].generation <= Newest
    BY <1>2 DEF Settled
  <2> QED BY <2>1, <2>2, <1>3
<1>5. FileLength \in Nat
  BY <1>2 DEF FileLength
<1>6. ASSUME NEW i \in DOMAIN wal
      PROVE  /\ EndOf(wal[i]) <= FileLength
             /\ wal[i].generation = Newest - (Len(wal) - i)
  <2>1. /\ wal # <<>> /\ Len(wal) \in DOMAIN wal
        /\ FileLength = wal[Len(wal)].start + wal[Len(wal)].have
    BY <1>2 DEF FileLength
  <2>2. CASE i = Len(wal)
    <3>1. wal[i].have = wal[i].size
      BY DEF Settled, Whole
    <3> QED BY <1>2, <1>3, <1>4, <2>1, <2>2, <3>1 DEF EndOf
  <2>3. CASE i # Len(wal)
    <3>1. i < Len(wal)
      BY <1>2, <2>3
    <3>2. /\ EndOf(wal[i]) <= wal[Len(wal)].start
          /\ wal[Len(wal)].generation = wal[i].generation + (Len(wal) - i)
      BY <1>1, <2>1, <3>1 DEF Chained
    <3>3. /\ wal[i].start \in Nat /\ wal[i].size \in Nat /\ wal[i].generation \in Nat
          /\ wal[Len(wal)].start \in Nat /\ wal[Len(wal)].have \in Nat
          /\ Len(wal) \in Nat /\ i \in Nat
      BY <1>2, <2>1
    <3>4. EndOf(wal[i]) <= FileLength
      <4>1. \A a, b, c, d \in Nat : a + b <= c => a + b <= c + d
        OBVIOUS
      <4>2. wal[i].start + wal[i].size <= wal[Len(wal)].start
        BY <3>2 DEF EndOf
      <4>3. wal[i].start + wal[i].size <=
              wal[Len(wal)].start + wal[Len(wal)].have
        BY <3>3, <4>1, <4>2
      <4> QED BY <2>1, <4>3 DEF EndOf
    <3>5. wal[Len(wal)].generation = Newest
      BY <1>4, <2>1
    <3>6. wal[i].generation = Newest - (Len(wal) - i)
      <4>1. \A a, b, n \in Nat, d \in Int : a = b + d /\ a = n => b = n - d
        OBVIOUS
      <4>2. Len(wal) - i \in Int
        BY <3>3
      <4>3. wal[Len(wal)].generation = wal[i].generation + (Len(wal) - i)
        BY <3>2
      <4> QED BY <1>3, <3>3, <3>5, <4>1, <4>2, <4>3
    <3> QED BY <3>4, <3>6
  <2> QED BY <2>2, <2>3
<1> QED BY <1>4, <1>5, <1>6

\* commit writes part of a frame: the log was settled, and the new frame is
\* the only one that is neither whole nor published.
LEMMA AppendPartStep ==
  ASSUME Benign, IInv, TypeInv', NEW w \in Workers, AppendPart(w)
  PROVE  IInv'
<1>1. /\ UNCHANGED <<durable, checkpoints, onDisk, phase, cursor, snapshot, writer,
                     operations, history>>
      /\ phase = "ready" /\ pc[w] = "append" /\ Step(w, "append", "appending")
  BY DEF AppendPart, openVars, Step
<1>0. PICK payload \in PayloadSizes :
        \E have \in 1..(HeaderUnits + payload - 1) :
          wal' = Append(wal, NewFrame(w, payload, have))
  BY DEF AppendPart
<1>2. PICK have \in 1..(HeaderUnits + payload - 1) :
        wal' = Append(wal, NewFrame(w, payload, have))
  BY <1>0
<1> DEFINE f == NewFrame(w, payload, have)
<1>3. /\ Exclusive'
      /\ \A v \in Workers \ {w} : pc'[v] = pc[v] /\ pc[v] \notin Locked
      /\ pc'[w] = "appending"
  BY <1>1, ExclusiveStep DEF IInv, Locked, InCommit
<1>4. /\ TypeOK /\ wal \in Seq(Frame) /\ Chained(wal, history)
      /\ Newest \in Nat /\ Newest + 1 = Len(history)
  BY History DEF IInv, TypeInv, TypeOK, Logged
<1>5. Settled
  <2>1. \A v \in Workers : pc[v] \notin Writing
    BY <1>1, <1>3 DEF Writing, Locked, InCommit
  <2> QED BY <1>1, <2>1 DEF IInv, Serving
<1>6. /\ f \in Frame
      /\ f.generation = Newest + 1 /\ f.start = FileLength
      /\ f.size = HeaderUnits + payload /\ f.have = have /\ f.good
      /\ f.tx = Canonicalize(operations[w])
      /\ have \in 1..f.size /\ have # f.size
      /\ f.size > HeaderUnits /\ f.size - HeaderUnits <= MaxWalRecord
  <2>1. payload \in Nat \ {0} /\ payload <= MaxWalRecord /\ MaxWalRecord \in Nat
    BY BoundAssumption DEF Benign
  <2>2. /\ have \in Nat /\ have \in 1..(HeaderUnits + payload)
        /\ have # HeaderUnits + payload
    BY <2>1 DEF HeaderUnits
  <2>3. snapshot.generation = Newest
    BY <1>1 DEF IInv, Serving
  <2>4. f \in Frame
    BY <1>4, <2>2, NewFrameType
  <2>5. /\ f.generation = snapshot.generation + 1 /\ f.start = FileLength
        /\ f.size = HeaderUnits + payload /\ f.have = have
        /\ f.tx = Canonicalize(operations[w])
    BY DEF NewFrame
  <2>6. f.good
    BY DEF NewFrame
  <2>7. f.size = HeaderUnits + payload
    BY <2>5
  <2>8. have \in 1..f.size /\ have # f.size
    BY <2>2, <2>7
  <2>9. f.size > HeaderUnits /\ f.size - HeaderUnits <= MaxWalRecord
    BY <2>1, <2>7 DEF HeaderUnits
  <2> QED BY <2>3, <2>4, <2>5, <2>6, <2>8, <2>9
<1> HIDE DEF f
<1>7. /\ Len(wal') = Len(wal) + 1 /\ DOMAIN wal' = 1..(Len(wal) + 1)
      /\ Len(wal) \in Nat /\ DOMAIN wal = 1..Len(wal)
      /\ wal' \in Seq(Frame)
      /\ \A i \in DOMAIN wal : wal'[i] = wal[i]
      /\ wal'[Len(wal) + 1] = f
  <2>1. wal' = Append(wal, f)
    BY <1>2 DEF f
  <2>2. /\ wal' \in Seq(Frame) /\ Len(wal') = Len(wal) + 1
        /\ \A i \in 1..Len(wal) : wal'[i] = wal[i]
        /\ wal'[Len(wal) + 1] = f
    BY <1>4, <1>6, <2>1, AppendProperties
  <2> QED BY <1>4, <2>2, LenProperties
<1>8. Chained(wal, history)'
  <2>1. ASSUME NEW i \in DOMAIN wal'
        PROVE  /\ wal'[i].size > HeaderUnits
               /\ wal'[i].size - HeaderUnits <= MaxWalRecord
               /\ wal'[i].have \in 1..wal'[i].size
               /\ wal'[i].generation >= 1
               /\ wal'[i].generation < Len(history) =>
                    /\ Whole(wal'[i])
                    /\ history[wal'[i].generation + 1] =
                         Apply(history[wal'[i].generation], wal'[i].tx)
    <3>1. CASE i \in DOMAIN wal
      BY <1>4, <1>7, <3>1 DEF Chained
    <3>2. CASE i = Len(wal) + 1
      BY <1>4, <1>6, <1>7, <3>2
    <3> QED BY <1>7, <3>1, <3>2
  <2>2. ASSUME NEW i \in DOMAIN wal', NEW j \in DOMAIN wal', i < j
        PROVE  /\ Whole(wal'[i])
               /\ wal'[j].generation = wal'[i].generation + (j - i)
               /\ EndOf(wal'[i]) <= wal'[j].start
    <3>1. i \in DOMAIN wal
      BY <1>7, <2>2
    <3>2. CASE j \in DOMAIN wal
      BY <1>4, <1>7, <2>2, <3>1, <3>2 DEF Chained
    <3>3. CASE j = Len(wal) + 1
      <4>1. /\ Whole(wal[i]) /\ EndOf(wal[i]) <= FileLength
            /\ wal[i].generation = Newest - (Len(wal) - i)
        BY <1>5, <3>1, SettledLog DEF Settled
      <4> QED BY <1>4, <1>6, <1>7, <3>1, <3>3, <4>1
    <3> QED BY <1>7, <3>2, <3>3
  <2>3. wal'[Len(wal')].generation \in {Len(history) - 1, Len(history)}
    BY <1>4, <1>6, <1>7
  <2> QED BY <1>1, <2>1, <2>2, <2>3 DEF Chained
<1>9. Restores(wal, checkpoints, Newest)'
  <2>1. Restores(wal, checkpoints, Newest)
    BY DEF IInv, Logged
  <2>2. Restores(wal', checkpoints, Newest)
    <3>1. \A i \in DOMAIN wal : i \in DOMAIN wal' /\ wal'[i] = wal[i]
      BY <1>7
    <3> QED BY <2>1, <3>1, RestoresSame
  <2> QED BY <1>1, <2>2 DEF Newest
<1>10. Logged'
  <2>1. ASSUME "power" \in CrashKinds,
               NEW i \in DOMAIN wal', wal'[i].generation <= Newest
        PROVE  i \in DOMAIN durable /\ durable[i] = wal'[i]
    <3>1. i \in DOMAIN wal
      BY <1>4, <1>6, <1>7, <2>1
    <3> QED BY <1>7, <2>1, <3>1 DEF IInv, Logged
  <2>2. "power" \in CrashKinds =>
          Chained(durable, history) /\ Restores(durable, checkpoints, Newest)
    BY DEF IInv, Logged
  <2> QED BY <1>1, <1>8, <1>9, <2>1, <2>2 DEF Logged, Newest
<1>11. Serving'
  <2>1. /\ wal' # <<>> /\ wal'[Len(wal')].generation = Newest' + 1
        /\ wal'[Len(wal')].tx = Canonicalize(operations'[w])
        /\ wal'[Len(wal')].good
    BY <1>1, <1>6, <1>7, Frames DEF Newest
  <2>2. ASSUME NEW v \in Workers, pc'[v] \in Locked PROVE v = w
    BY <1>3, <2>2
  <2>3. pc'[w] \in Writing
    BY <1>3 DEF Writing
  <2>4. /\ Writing \subseteq Locked
        /\ {"sync", "publish", "truncate", "truncateSync", "sweep"} \subseteq Locked
        /\ pc'[w] \notin {"sync", "publish", "truncate", "truncateSync", "sweep"}
    BY <1>3 DEF Writing, Locked, InCommit, InOptimize
  <2>5. snapshot' = [generation |-> Newest', table |-> history'[Len(history')]]
    BY <1>1 DEF IInv, Serving, Newest
  <2> QED BY <2>1, <2>2, <2>3, <2>4, <2>5 DEF Serving
<1>12. Checkpointed' /\ Recovering'
  BY <1>1 DEF IInv, Checkpointed, Recovering, Newest
<1> QED BY <1>3, <1>10, <1>11, <1>12 DEF IInv

\* commit completes its frame, which nobody has published yet.
LEMMA AppendRestStep ==
  ASSUME IInv, TypeInv', NEW w \in Workers, AppendRest(w)
  PROVE  IInv'
<1>1. /\ UNCHANGED <<durable, checkpoints, onDisk, phase, cursor, snapshot, writer,
                     operations, history>>
      /\ phase = "ready" /\ pc[w] = "appending" /\ Step(w, "appending", "sync")
      /\ wal' = [wal EXCEPT ![Len(wal)].have = wal[Len(wal)].size]
  BY DEF AppendRest, openVars, Step
<1>2. /\ Exclusive'
      /\ \A v \in Workers \ {w} : pc'[v] = pc[v] /\ pc[v] \notin Locked
      /\ pc'[w] = "sync"
  BY <1>1, ExclusiveStep DEF IInv, Locked, InCommit
<1>3. /\ TypeOK /\ wal \in Seq(Frame) /\ wal' \in Seq(Frame) /\ Chained(wal, history)
      /\ Newest \in Nat /\ Newest + 1 = Len(history)
  BY History DEF IInv, TypeInv, TypeOK, Logged
<1>4. /\ wal # <<>>
      /\ wal[Len(wal)].generation = Newest + 1
      /\ wal[Len(wal)].tx = Canonicalize(operations[w])
      /\ wal[Len(wal)].good
  BY <1>1 DEF IInv, Serving, Writing
<1>5. /\ Len(wal) \in Nat /\ DOMAIN wal = 1..Len(wal) /\ Len(wal) # 0
      /\ \A i \in DOMAIN wal : wal[i] \in Frame
  BY <1>3, <1>4, Frames
<1>6. /\ DOMAIN wal' = DOMAIN wal /\ Len(wal') = Len(wal)
      /\ \A i \in DOMAIN wal : i # Len(wal) => wal'[i] = wal[i]
      /\ wal'[Len(wal)] = [wal[Len(wal)] EXCEPT !.have = wal[Len(wal)].size]
  <2>1. /\ DOMAIN wal' = DOMAIN wal
        /\ \A i \in DOMAIN wal : i # Len(wal) => wal'[i] = wal[i]
        /\ wal'[Len(wal)] = [wal[Len(wal)] EXCEPT !.have = wal[Len(wal)].size]
    BY <1>1, <1>5
  <2>2. Len(wal') = Len(wal)
    BY <1>3, <1>5, <2>1, LenProperties
  <2> QED BY <2>1, <2>2
<1>7. LET f == wal[Len(wal)]
          g == wal'[Len(wal)]
      IN /\ g.generation = f.generation /\ g.tx = f.tx /\ g.good = f.good
         /\ g.start = f.start /\ g.size = f.size /\ g.have = f.size /\ Whole(g)
  <2>1. wal[Len(wal)] \in Frame
    BY <1>5
  <2> QED BY <1>4, <1>6, <2>1 DEF Frame, Whole
<1>8. \A i \in DOMAIN wal :
        /\ wal'[i].generation = wal[i].generation
        /\ wal'[i].start = wal[i].start /\ wal'[i].size = wal[i].size
        /\ Whole(wal[i]) => Whole(wal'[i])
  BY <1>6, <1>7
<1>9. \A i \in DOMAIN wal : wal[i].generation <= Newest => wal'[i] = wal[i]
  BY <1>3, <1>4, <1>6
<1>10. Chained(wal, history)'
  <2>1. ASSUME NEW i \in DOMAIN wal'
        PROVE  /\ wal'[i].size > HeaderUnits
               /\ wal'[i].size - HeaderUnits <= MaxWalRecord
               /\ wal'[i].have \in 1..wal'[i].size
               /\ wal'[i].generation >= 1
               /\ wal'[i].generation < Len(history) =>
                    /\ Whole(wal'[i])
                    /\ history[wal'[i].generation + 1] =
                         Apply(history[wal'[i].generation], wal'[i].tx)
    <3>1. CASE i # Len(wal)
      BY <1>3, <1>6, <3>1 DEF Chained
    <3>2. CASE i = Len(wal)
      <4>1. /\ wal[i].size > HeaderUnits /\ wal[i].size - HeaderUnits <= MaxWalRecord
            /\ wal[i].have \in 1..wal[i].size
            /\ wal[i].generation >= 1
        BY <1>3, <1>6 DEF Chained
      <4>2. wal'[i].have \in 1..wal'[i].size
        <5>1. wal[i].have \in Nat /\ wal[i].size \in Nat
          BY <1>5, <1>6 DEF Frame
        <5> QED BY <1>7, <3>2, <4>1, <5>1
      <4>3. ~(wal'[i].generation < Len(history))
        BY <1>3, <1>4, <1>7, <3>2
      <4> QED BY <1>7, <3>2, <4>1, <4>2, <4>3
    <3> QED BY <3>1, <3>2
  <2>2. ASSUME NEW i \in DOMAIN wal', NEW j \in DOMAIN wal', i < j
        PROVE  /\ Whole(wal'[i])
               /\ wal'[j].generation = wal'[i].generation + (j - i)
               /\ EndOf(wal'[i]) <= wal'[j].start
    <3>1. /\ Whole(wal[i])
          /\ wal[j].generation = wal[i].generation + (j - i)
          /\ EndOf(wal[i]) <= wal[j].start
      BY <1>3, <1>6, <2>2 DEF Chained
    <3>2. i \in DOMAIN wal /\ j \in DOMAIN wal
      BY <1>6
    <3>3. /\ Whole(wal'[i])
          /\ wal'[j].generation = wal[j].generation
          /\ wal'[i].generation = wal[i].generation
      BY <1>8, <3>1, <3>2
    <3>4. wal'[j].start = wal[j].start /\ EndOf(wal'[i]) = EndOf(wal[i])
      BY <1>8, <3>2 DEF EndOf
    <3>5. wal'[j].generation = wal'[i].generation + (j - i)
      BY <3>1, <3>3
    <3>6. EndOf(wal'[i]) <= wal'[j].start
      BY <3>1, <3>4
    <3> QED BY <3>3, <3>5, <3>6
  <2>3. wal'[Len(wal')].generation \in {Len(history) - 1, Len(history)}
    BY <1>3, <1>4, <1>6, <1>7
  <2>4. Chained(wal', history)
    BY <2>1, <2>2, <2>3 DEF Chained
  <2>5. history' = history
    BY <1>1
  <2> QED BY <2>4, <2>5 DEF Chained
<1>11. Logged'
  <2>1. Restores(wal', checkpoints, Newest)
    <3>1. Restores(wal, checkpoints, Newest)
      BY DEF IInv, Logged
    <3> QED BY <1>6, <1>8, <3>1, RestoresSame
  <2>2. "power" \in CrashKinds =>
          /\ Chained(durable, history) /\ Restores(durable, checkpoints, Newest)
          /\ \A i \in DOMAIN wal : wal[i].generation <= Newest =>
               i \in DOMAIN durable /\ durable[i] = wal[i]
    BY DEF IInv, Logged
  <2>3. "power" \in CrashKinds =>
          \A i \in DOMAIN wal' : wal'[i].generation <= Newest =>
               i \in DOMAIN durable /\ durable[i] = wal'[i]
    BY <1>6, <1>8, <1>9, <2>2
  <2> QED BY <1>1, <1>10, <2>1, <2>2, <2>3 DEF Logged, Newest
<1>12. Serving'
  <2>1. /\ wal' # <<>> /\ wal'[Len(wal')].generation = Newest' + 1
        /\ wal'[Len(wal')].tx = Canonicalize(operations'[w])
        /\ wal'[Len(wal')].good /\ Whole(wal'[Len(wal')])
    BY <1>1, <1>3, <1>4, <1>5, <1>6, <1>7, Frames DEF Newest
  <2>2. ASSUME NEW v \in Workers, pc'[v] \in Locked PROVE v = w
    BY <1>2, <2>2
  <2>3. pc'[w] \in Writing
    BY <1>2 DEF Writing
  <2>4. /\ Writing \subseteq Locked
        /\ {"sync", "publish", "truncate", "truncateSync", "sweep"} \subseteq Locked
        /\ pc'[w] \notin {"publish", "truncate", "truncateSync", "sweep"}
    BY <1>2 DEF Writing, Locked, InCommit, InOptimize
  <2>5. snapshot' = [generation |-> Newest', table |-> history'[Len(history')]]
    BY <1>1 DEF IInv, Serving, Newest
  <2> QED BY <2>1, <2>2, <2>3, <2>4, <2>5 DEF Serving
<1>13. Checkpointed' /\ Recovering'
  BY <1>1 DEF IInv, Checkpointed, Recovering, Newest
<1> QED BY <1>2, <1>11, <1>12, <1>13 DEF IInv

\* sync_data makes the log durable with the frame that is to be published.
LEMMA SyncWalStep ==
  ASSUME IInv, TypeInv', NEW w \in Workers, SyncWal(w)
  PROVE  IInv'
<1>1. /\ UNCHANGED <<wal, checkpoints, onDisk, phase, cursor, snapshot, writer,
                     operations, history>>
      /\ phase = "ready" /\ pc[w] = "sync" /\ Step(w, "sync", "publish")
      /\ durable' = wal
  BY DEF SyncWal, openVars, Step
<1>2. /\ Exclusive'
      /\ \A v \in Workers \ {w} : pc'[v] = pc[v] /\ pc[v] \notin Locked
      /\ pc'[w] = "publish"
  BY <1>1, ExclusiveStep DEF IInv, Locked, InCommit
<1>3. Logged'
  BY <1>1 DEF IInv, Logged, Newest
<1>4. Serving'
  <2>1. ASSUME NEW v \in Workers, pc'[v] \in Locked PROVE v = w
    BY <1>2, <2>1
  <2>2. pc[w] \in Writing /\ pc'[w] \in Writing
    BY <1>1, <1>2 DEF Writing
  <2>3. /\ Writing \subseteq Locked
        /\ {"sync", "publish", "truncate", "truncateSync", "sweep"} \subseteq Locked
        /\ pc'[w] \notin {"truncate", "truncateSync", "sweep"}
    BY <1>2 DEF Writing, Locked, InCommit, InOptimize
  <2>4. /\ snapshot' = [generation |-> Newest', table |-> history'[Len(history')]]
        /\ wal' # <<>> /\ wal'[Len(wal')].generation = Newest' + 1
        /\ wal'[Len(wal')].tx = Canonicalize(operations'[w])
        /\ wal'[Len(wal')].good /\ Whole(wal'[Len(wal')]) /\ durable' = wal'
    BY <1>1, <2>2 DEF IInv, Serving, Newest
  <2> QED BY <2>1, <2>2, <2>3, <2>4 DEF Serving
<1>5. Checkpointed' /\ Recovering'
  BY <1>1 DEF IInv, Checkpointed, Recovering, Newest
<1> QED BY <1>2, <1>3, <1>4, <1>5 DEF IInv

\* commit publishes a generation whose frame is whole and durable, and whose
\* table is the one that replaying the frame gives.
LEMMA PublishStep ==
  ASSUME IInv, TypeInv', NEW w \in Workers, Publish(w)
  PROVE  IInv'
<1> DEFINE next == Apply(snapshot.table, Canonicalize(operations[w]))
<1>1. /\ UNCHANGED <<wal, durable, checkpoints, onDisk, phase, cursor, writer, operations>>
      /\ phase = "ready" /\ pc[w] = "publish" /\ Step(w, "publish", "commitReturn")
      /\ snapshot' = [generation |-> snapshot.generation + 1, table |-> next]
      /\ history' = Append(history, next)
  BY DEF Publish, diskVars, openVars, Step
<1>2. /\ Exclusive'
      /\ \A v \in Workers \ {w} : pc'[v] = pc[v] /\ pc[v] \notin Locked
      /\ pc'[w] = "commitReturn"
  BY <1>1, ExclusiveStep DEF IInv, Locked, InCommit
<1>3. /\ TypeOK /\ wal \in Seq(Frame) /\ Chained(wal, history)
      /\ history \in Seq(Table) /\ history # <<>>
      /\ checkpoints \in SUBSET Snapshot
      /\ Newest \in Nat /\ Newest + 1 = Len(history)
      /\ Restores(wal, checkpoints, Newest)
  BY History DEF IInv, TypeInv, TypeOK, Logged
<1>4. /\ snapshot = [generation |-> Newest, table |-> history[Len(history)]]
      /\ wal # <<>> /\ wal[Len(wal)].generation = Newest + 1
      /\ wal[Len(wal)].tx = Canonicalize(operations[w])
      /\ Whole(wal[Len(wal)]) /\ durable = wal
  BY <1>1 DEF IInv, Serving, Writing
<1>5. /\ Len(wal) \in DOMAIN wal
      /\ \A i \in DOMAIN wal : wal[i].generation \in Nat
  BY <1>3, <1>4, Frames
<1>6. next \in Table
  <2>1. Valid(operations[w]) /\ operations[w] \in Seq(Operation)
    BY <1>1, <1>3 DEF IInv, TypeInv, Validated, TypeOK
  <2> QED BY <1>3, <2>1, CanonicalizeType, ApplyType DEF TypeOK, Snapshot
<1>7. next = Apply(history[Len(history)], wal[Len(wal)].tx)
  BY <1>4
<1> HIDE DEF next
<1>8. /\ Len(history') = Len(history) + 1 /\ Newest' = Newest + 1
      /\ history'[Len(history')] = next
      /\ \A i \in 1..Len(history) : history'[i] = history[i]
  BY <1>1, <1>3, <1>6, AppendProperties DEF Newest
<1>9. Chained(wal, history')
  <2>1. wal[Len(wal)].generation = Len(history)
    BY <1>3, <1>4
  <2>2. Chained(wal, Append(history, next))
    BY <1>3, <1>4, <1>6, <1>7, <2>1, ChainGrows
  <2> QED BY <1>1, <2>2
<1>10. Restores(wal, checkpoints, Newest + 1)
  BY <1>3, <1>4, <1>5, RestoresNext
<1>11. Logged'
  BY <1>1, <1>4, <1>8, <1>9, <1>10, Frames DEF Logged
<1>12. Settled'
  <2>1. ASSUME NEW i \in DOMAIN wal
        PROVE  Whole(wal[i]) /\ wal[i].generation <= Newest + 1
    <3>1. wal[i].generation <= Newest + 1
      BY <1>3, ChainBound, History
    <3>2. CASE wal[i].generation = Len(history)
      BY <1>3, <1>4, <3>1, <3>2, ChainBound, History
    <3>3. CASE wal[i].generation # Len(history)
      <4>1. wal[i].generation < Len(history)
        BY <1>3, <1>5, <3>1, <3>3
      <4> QED BY <1>3, <3>1, <4>1 DEF Chained
    <3> QED BY <3>2, <3>3
  <2> QED BY <1>1, <1>8, <2>1 DEF Settled
<1>13. Serving'
  <2>1. ASSUME NEW v \in Workers
        PROVE  pc'[v] \notin Writing \cup {"truncate", "truncateSync", "sweep"}
    BY <1>2 DEF Writing, Locked, InCommit, InOptimize
  <2>2. snapshot' = [generation |-> Newest', table |-> history'[Len(history')]]
    BY <1>1, <1>4, <1>8
  <2>3. {"sync", "publish"} \subseteq Writing
    BY DEF Writing
  <2> QED BY <1>12, <2>1, <2>2, <2>3 DEF Serving
<1>14. Checkpointed'
  <2>1. ASSUME NEW c \in checkpoints
        PROVE  c.generation <= Newest' /\ c.table = history'[c.generation + 1]
    <3>1. c.generation <= Newest /\ c.table = history[c.generation + 1]
      BY DEF IInv, Checkpointed
    <3>2. c.generation \in Nat
      BY <1>3 DEF Snapshot
    <3>3. c.generation + 1 \in 1..Len(history)
      BY <1>3, <3>1, <3>2
    <3> QED BY <1>3, <1>8, <3>1, <3>2, <3>3
  <2>2. history'[1] = Empty
    <3>1. history[1] = Empty /\ 1 \in 1..Len(history)
      BY <1>3 DEF IInv, Checkpointed
    <3> QED BY <1>8, <3>1
  <2> QED BY <1>1, <2>1, <2>2 DEF IInv, Checkpointed
<1>15. Recovering'
  BY <1>1 DEF Recovering
<1> QED BY <1>2, <1>11, <1>13, <1>14, <1>15 DEF IInv

-----------------------------------------------------------------------------
(* Steps of optimize.                                                      *)

\* While a thread is inside optimize, the log is settled and the snapshot is
\* the newest generation.
LEMMA Optimizing ==
  ASSUME IInv, TypeInv', phase = "ready", UNCHANGED <<phase, writer>>,
         NEW w \in Workers, NEW from \in InOptimize, NEW to \in InOptimize,
         Step(w, from, to)
  PROVE  /\ Exclusive' /\ Settled
         /\ snapshot = [generation |-> Newest, table |-> history[Len(history)]]
         /\ \A v \in Workers : pc'[v] \notin Writing
         /\ \A v \in Workers :
              pc'[v] \in {"truncate", "truncateSync", "sweep"} => v = w
         /\ pc'[w] = to
<1>1. /\ Exclusive'
      /\ \A v \in Workers \ {w} : pc'[v] = pc[v] /\ pc[v] \notin Locked
      /\ pc'[w] = to /\ pc[w] = from
  BY ExclusiveStep DEF IInv, Locked, Step
<1>2. /\ \A v \in Workers : pc'[v] \notin Writing /\ pc[v] \notin Writing
      /\ \A v \in Workers : pc'[v] \in {"truncate", "truncateSync", "sweep"} => v = w
  BY <1>1 DEF Locked, Writing, InCommit, InOptimize
<1> QED BY <1>1, <1>2 DEF IInv, Serving

\* The renamed checkpoint is the newest generation, with the table that was
\* published.
LEMMA RenameStep ==
  ASSUME Benign, IInv, TypeInv', NEW w \in Workers, Rename(w)
  PROVE  IInv'
<1>1. /\ UNCHANGED <<wal, durable, phase, cursor, snapshot, writer, operations, history>>
      /\ phase = "ready" /\ Step(w, "rename", "truncate")
      /\ checkpoints' = checkpoints \cup {snapshot} /\ onDisk' = checkpoints'
  BY DEF Rename, openVars, Step, WriteBack, Benign
<1>2. /\ Exclusive' /\ Settled
      /\ snapshot = [generation |-> Newest, table |-> history[Len(history)]]
      /\ \A v \in Workers : pc'[v] \notin Writing
      /\ \A v \in Workers : pc'[v] \in {"truncate", "truncateSync", "sweep"} => v = w
      /\ pc'[w] = "truncate"
  BY <1>1, Optimizing DEF InOptimize
<1>3. Newest \in Nat /\ Newest + 1 = Len(history)
  BY History DEF IInv, TypeInv
<1>4. checkpoints' \in SUBSET Snapshot /\ snapshot \in checkpoints'
  BY <1>1 DEF TypeInv, TypeOK
<1>5. \A c \in checkpoints' : c.generation <= Newest /\ c.table = history[c.generation + 1]
  BY <1>1, <1>2, <1>3 DEF IInv, Checkpointed
<1>6. \A log : Restores(log, checkpoints', Newest)
  BY <1>2, <1>4, <1>5, NewestRestores
<1>7. Checkpointed'
  BY <1>1, <1>5 DEF IInv, Checkpointed, Newest
<1>8. Logged'
  BY <1>1, <1>6 DEF IInv, Logged, Newest
<1>9. Serving'
  BY <1>1, <1>2, <1>4 DEF Serving, Settled, Newest, Writing
<1>10. Recovering'
  BY <1>1 DEF Recovering
<1> QED BY <1>2, <1>7, <1>8, <1>9, <1>10 DEF IInv

\* optimize may empty the log: the newest checkpoint has everything in it.
LEMMA TruncateStep ==
  ASSUME IInv, TypeInv', NEW w \in Workers, Truncate(w)
  PROVE  IInv'
<1>1. /\ UNCHANGED <<durable, checkpoints, onDisk, phase, cursor, snapshot, writer,
                     operations, history>>
      /\ phase = "ready" /\ Step(w, "truncate", "truncateSync") /\ pc[w] = "truncate"
      /\ wal' = <<>>
  BY DEF Truncate, openVars, Step
<1>2. /\ Exclusive' /\ Settled
      /\ snapshot = [generation |-> Newest, table |-> history[Len(history)]]
      /\ \A v \in Workers : pc'[v] \notin Writing
      /\ \A v \in Workers : pc'[v] \in {"truncate", "truncateSync", "sweep"} => v = w
      /\ pc'[w] = "truncateSync"
  BY <1>1, Optimizing DEF InOptimize
<1>3. /\ snapshot \in checkpoints /\ checkpoints \in SUBSET Snapshot
      /\ \A c \in checkpoints : c.generation <= Newest
  BY <1>1 DEF IInv, Serving, Checkpointed, TypeInv, TypeOK
<1>4. \A log : Restores(log, checkpoints, Newest)
  BY <1>2, <1>3, NewestRestores
<1>5. DOMAIN wal' = {} /\ Chained(wal', history)
  BY <1>1 DEF Chained
<1>6. Logged'
  BY <1>1, <1>4, <1>5 DEF IInv, Logged, Newest
<1>7. Serving'
  BY <1>1, <1>2, <1>3, <1>5 DEF Serving, Settled, Newest, Writing
<1>8. Checkpointed' /\ Recovering'
  BY <1>1 DEF IInv, Checkpointed, Recovering, Newest
<1> QED BY <1>2, <1>6, <1>7, <1>8 DEF IInv

\* The sync of the emptied log loses nothing, for the same reason.
LEMMA SwapStep ==
  ASSUME IInv, TypeInv', NEW w \in Workers, SwapCompacted(w)
  PROVE  IInv'
<1>1. /\ UNCHANGED <<wal, checkpoints, onDisk, phase, cursor, snapshot, writer,
                     operations, history>>
      /\ phase = "ready" /\ Step(w, "truncateSync", "sweep") /\ pc[w] = "truncateSync"
      /\ durable' = wal
  BY DEF SwapCompacted, openVars, Step
<1>2. /\ Exclusive' /\ Settled
      /\ snapshot = [generation |-> Newest, table |-> history[Len(history)]]
      /\ \A v \in Workers : pc'[v] \notin Writing
      /\ \A v \in Workers : pc'[v] \in {"truncate", "truncateSync", "sweep"} => v = w
      /\ pc'[w] = "sweep"
  BY <1>1, Optimizing DEF InOptimize
<1>3. snapshot \in checkpoints /\ wal = <<>>
  BY <1>1 DEF IInv, Serving
<1>4. Logged'
  BY <1>1 DEF IInv, Logged, Newest
<1>5. Serving'
  BY <1>1, <1>2, <1>3 DEF Serving, Settled, Newest, Writing
<1>6. Checkpointed' /\ Recovering'
  BY <1>1 DEF IInv, Checkpointed, Recovering, Newest
<1> QED BY <1>2, <1>4, <1>5, <1>6 DEF IInv

\* remove_old_checkpoints keeps the checkpoint that the empty log relies on.
LEMMA SweepStep ==
  ASSUME Benign, IInv, TypeInv', NEW w \in Workers, Sweep(w)
  PROVE  IInv'
<1>1. /\ UNCHANGED <<wal, durable, phase, cursor, snapshot, writer, operations, history>>
      /\ phase = "ready" /\ Step(w, "sweep", "sweep") /\ pc[w] = "sweep"
      /\ checkpoints' \subseteq checkpoints /\ onDisk' = checkpoints'
      /\ snapshot \in checkpoints => snapshot \in checkpoints'
  BY DEF Sweep, openVars, Step, WriteBack, Benign
<1>2. /\ Exclusive' /\ Settled
      /\ snapshot = [generation |-> Newest, table |-> history[Len(history)]]
      /\ \A v \in Workers : pc'[v] \notin Writing
      /\ \A v \in Workers : pc'[v] \in {"truncate", "truncateSync", "sweep"} => v = w
      /\ pc'[w] = "sweep"
  BY <1>1, Optimizing DEF InOptimize
<1>3. /\ snapshot \in checkpoints' /\ wal = <<>> /\ checkpoints' \in SUBSET Snapshot
      /\ \A c \in checkpoints' :
           c.generation <= Newest /\ c.table = history[c.generation + 1]
  BY <1>1 DEF IInv, Serving, Checkpointed, TypeInv, TypeOK
<1>4. \A log : Restores(log, checkpoints', Newest)
  BY <1>2, <1>3, NewestRestores
<1>5. Logged'
  BY <1>1, <1>4 DEF IInv, Logged, Newest
<1>6. Serving'
  BY <1>1, <1>2, <1>3 DEF Serving, Settled, Newest, Writing
<1>7. Checkpointed' /\ Recovering'
  BY <1>1, <1>3 DEF IInv, Checkpointed, Recovering, Newest
<1> QED BY <1>2, <1>5, <1>6, <1>7 DEF IInv

-----------------------------------------------------------------------------
(* Steps of open.                                                          *)

\* In a chained log, a frame is a commit if it is whole and the torn tail
\* otherwise; recovery meets no corruption.
LEMMA VerdictOfChain ==
  ASSUME IInv, NEW i \in DOMAIN wal
  PROVE  /\ Whole(wal[i]) => Verdict(i) = "commit"
         /\ ~Whole(wal[i]) => /\ Verdict(i) = "torn"
                              /\ i = Len(wal) /\ wal[i].generation = Newest + 1
<1>1. /\ wal \in Seq(Frame) /\ Chained(wal, history) /\ TypeOK /\ Decodable(wal[i])
  BY DEF IInv, TypeInv, TypeOK, Logged, Clean
<1>2. /\ Len(wal) \in Nat /\ DOMAIN wal = 1..Len(wal) /\ wal # <<>>
      /\ \A j \in DOMAIN wal :
           /\ wal[j].generation \in Nat /\ wal[j].start \in Nat
           /\ wal[j].size \in Nat /\ wal[j].have \in Nat
  BY <1>1, Frames
<1>3. /\ wal[i].size > HeaderUnits /\ wal[i].size - HeaderUnits <= MaxWalRecord
      /\ wal[i].have \in 1..wal[i].size /\ wal[i].generation >= 1
  BY <1>1 DEF Chained
<1>4. /\ FileLength = wal[Len(wal)].start + wal[Len(wal)].have
      /\ wal[Len(wal)].have >= 1 /\ wal[Len(wal)].have <= wal[Len(wal)].size
  <2>1. Len(wal) \in DOMAIN wal
    BY <1>2, Frames, <1>1
  <2>2. wal[Len(wal)].have \in 1..wal[Len(wal)].size
    BY <1>1, <2>1 DEF Chained
  <2> QED BY <1>2, <2>2 DEF FileLength
<1>5. CASE Whole(wal[i])
  <2>1. wal[i].have = wal[i].size /\ EndOf(wal[i]) = wal[i].start + wal[i].size
    BY <1>5 DEF Whole, EndOf
  <2>2. EndOf(wal[i]) <= FileLength
    <3>1. CASE i = Len(wal)
      BY <1>2, <1>4, <2>1, <3>1
    <3>2. CASE i # Len(wal)
      <4>1. i < Len(wal) /\ Len(wal) \in DOMAIN wal
        BY <1>2, <3>2
      <4>2. EndOf(wal[i]) <= wal[Len(wal)].start
        BY <1>1, <4>1 DEF Chained
      <4> QED BY <1>2, <1>4, <2>1, <4>1, <4>2
    <3> QED BY <3>1, <3>2
  <2>3. wal[i].generation > PreviousGeneration(i)
    <3>1. CASE i = 1
      BY <1>2, <1>3, <3>1 DEF PreviousGeneration
    <3>2. CASE i # 1
      <4>1. i - 1 \in DOMAIN wal /\ i - 1 < i
        BY <1>2, <3>2
      <4>2. wal[i].generation = wal[i - 1].generation + (i - (i - 1))
        BY <1>1, <4>1 DEF Chained
      <4> QED BY <1>2, <3>2, <4>1, <4>2 DEF PreviousGeneration
    <3> QED BY <3>1, <3>2
  <2>4. /\ FileLength - wal[i].start >= HeaderUnits
        /\ ~(FileLength - wal[i].start < HeaderUnits)
        /\ ~(wal[i].have < HeaderUnits)
        /\ ~(wal[i].size - HeaderUnits > MaxWalRecord)
    BY <1>2, <1>3, <1>4, <2>1, <2>2, BoundAssumption DEF HeaderUnits
  <2> QED BY <1>1, <1>5, <2>3, <2>4 DEF Verdict
<1>6. CASE ~Whole(wal[i])
  <2>1. i = Len(wal)
    <3>1. CASE i < Len(wal)
      <4>1. Len(wal) \in DOMAIN wal
        BY <1>2, <3>1
      <4> QED BY <1>1, <1>6, <3>1, <4>1 DEF Chained
    <3> QED BY <1>2, <3>1
  <2>2. wal[i].generation = Newest + 1
    <3>1. ~(wal[i].generation < Len(history))
      BY <1>1, <1>6 DEF Chained
    <3> QED BY <1>1, <1>2, <2>1, <3>1, ChainBound, History
  <2>3. FileLength - wal[i].start = wal[i].have /\ EndOf(wal[i]) >= FileLength
    BY <1>2, <1>4, <2>1 DEF EndOf
  <2>4. ~(wal[i].size - HeaderUnits > MaxWalRecord)
    BY <1>2, <1>3, BoundAssumption DEF HeaderUnits
  <2>5. wal[i].have < HeaderUnits <=> ~(wal[i].have >= HeaderUnits)
    BY <1>2 DEF HeaderUnits
  <2>6. Verdict(i) = "torn"
    BY <1>6, <2>3, <2>4, <2>5 DEF Verdict
  <2> QED BY <1>6, <2>1, <2>2, <2>6
<1> QED BY <1>5, <1>6

\* open starts from a checkpoint that no other is newer than.
LEMMA LoadStep ==
  ASSUME IInv, TypeInv', LoadCheckpoint
  PROVE  IInv'
<1>1. /\ UNCHANGED <<wal, durable, checkpoints, onDisk, writer, pc, operations, history>>
      /\ phase = "closed" /\ phase' = "scan" /\ cursor' = 1
  BY DEF LoadCheckpoint, diskVars, threadVars
<1>2. /\ snapshot' \in checkpoints \cup {[generation |-> 0, table |-> Empty]}
      /\ \A c \in checkpoints : c.generation <= snapshot'.generation
  BY DEF LoadCheckpoint
<1>3. Exclusive' /\ Checkpointed' /\ Serving'
  BY <1>1 DEF IInv, Exclusive, Checkpointed, Serving, Newest
<1>4. Logged'
  BY <1>1 DEF IInv, Logged, Newest
<1>5. Recovering'
  BY <1>1, <1>2 DEF Recovering
<1> QED BY <1>3, <1>4, <1>5 DEF IInv

\* read_wal accepts a frame only if it is whole.
LEMMA ScanFrameStep ==
  ASSUME IInv, TypeInv', ScanFrame
  PROVE  IInv'
<1>1. /\ UNCHANGED <<wal, durable, checkpoints, onDisk, writer, pc, operations,
                     history, phase, snapshot>>
      /\ phase = "scan" /\ cursor <= Len(wal) /\ cursor' = cursor + 1
      /\ Verdict(cursor) = "commit"
  BY DEF ScanFrame, diskVars, threadVars
<1>2. Exclusive' /\ Checkpointed' /\ Serving'
  BY <1>1 DEF IInv, Exclusive, Checkpointed, Serving, Newest
<1>3. Logged'
  BY <1>1 DEF IInv, Logged, Newest
<1>4. cursor \in Nat /\ cursor \in DOMAIN wal
  BY <1>1, Frames DEF IInv, TypeInv, TypeOK, InFile
<1>5. Whole(wal[cursor])
  BY <1>1, <1>4, VerdictOfChain
<1>6. \A i \in 1..(cursor' - 1) : Whole(wal[i])
  BY <1>1, <1>4, <1>5 DEF IInv, Recovering
<1>7. Recovering'
  BY <1>1, <1>6 DEF IInv, Recovering
<1> QED BY <1>2, <1>3, <1>7 DEF IInv

\* Recovery ends the scan at the end of the file or at the torn tail, and
\* what it cuts off was never published.
LEMMA ScanEndsStep ==
  ASSUME IInv, TypeInv', ScanEnds
  PROVE  IInv'
<1>1. /\ UNCHANGED <<durable, checkpoints, onDisk, writer, pc, operations, history, snapshot>>
      /\ phase = "scan" /\ phase' = "replay" /\ cursor' = 1
      /\ cursor <= Len(wal) => Verdict(cursor) = "torn"
      /\ wal' = SubSeq(wal, 1, cursor - 1)
  BY DEF ScanEnds, threadVars
<1>2. /\ TypeOK /\ wal \in Seq(Frame) /\ wal' \in Seq(Frame) /\ Chained(wal, history)
      /\ Newest \in Nat /\ Newest + 1 = Len(history)
      /\ checkpoints \in SUBSET Snapshot /\ snapshot \in Snapshot
      /\ cursor \in 1..(Len(wal) + 1)
      /\ \A i \in 1..(cursor - 1) : Whole(wal[i])
  BY <1>1, History DEF IInv, TypeInv, TypeOK, Logged, InFile, Recovering
<1>3. /\ Len(wal) \in Nat /\ DOMAIN wal = 1..Len(wal)
      /\ \A i \in DOMAIN wal : wal[i].generation \in Nat
  BY <1>2, Frames
<1>4. /\ Len(wal') = cursor - 1 /\ DOMAIN wal' = 1..(cursor - 1)
      /\ cursor - 1 \in 0..Len(wal)
      /\ \A i \in DOMAIN wal' : i \in DOMAIN wal /\ wal'[i] = wal[i]
  <2>1. cursor - 1 \in 0..Len(wal)
    BY <1>2, <1>3
  <2>2. Len(wal') = cursor - 1 /\ \A i \in 1..(cursor - 1) : wal'[i] = wal[i]
    BY <1>1, <1>2, <2>1, Prefix
  <2> QED BY <1>2, <1>3, <2>1, <2>2, LenProperties
<1>5. cursor <= Len(wal) =>
        /\ ~Whole(wal[cursor]) /\ cursor = Len(wal) /\ cursor \in DOMAIN wal
        /\ wal[cursor].generation = Newest + 1
  <2>1. cursor <= Len(wal) => cursor \in DOMAIN wal
    BY <1>2, <1>3
  <2> QED BY <1>1, <2>1, VerdictOfChain
<1>6. Chained(wal', history)
  <2>1. \A i \in DOMAIN wal' :
          /\ wal'[i].size > HeaderUnits
          /\ wal'[i].size - HeaderUnits <= MaxWalRecord
          /\ wal'[i].have \in 1..wal'[i].size
          /\ wal'[i].generation >= 1
          /\ wal'[i].generation < Len(history) =>
               /\ Whole(wal'[i])
               /\ history[wal'[i].generation + 1] =
                    Apply(history[wal'[i].generation], wal'[i].tx)
    BY <1>2, <1>4 DEF Chained
  <2>2. \A i, j \in DOMAIN wal' : i < j =>
          /\ Whole(wal'[i])
          /\ wal'[j].generation = wal'[i].generation + (j - i)
          /\ EndOf(wal'[i]) <= wal'[j].start
    BY <1>2, <1>4 DEF Chained
  <2>3. wal' # <<>> => wal'[Len(wal')].generation \in {Len(history) - 1, Len(history)}
    <3> SUFFICES ASSUME wal' # <<>>
                 PROVE  wal'[Len(wal')].generation \in {Len(history) - 1, Len(history)}
      OBVIOUS
    <3>0. /\ Len(wal') \in Nat \ {0} /\ Len(wal') \in DOMAIN wal'
          /\ Len(wal') \in DOMAIN wal /\ wal'[Len(wal')] = wal[Len(wal')]
      <4>1. Len(wal') \in Nat /\ Len(wal') # 0
        BY <1>2, EmptySeq, LenProperties
      <4>2. Len(wal') \in DOMAIN wal'
        BY <1>2, <4>1, LenProperties
      <4> QED BY <1>4, <4>1, <4>2
    <3>1. CASE cursor = Len(wal) + 1
      <4>1. Len(wal') = Len(wal)
        BY <1>3, <1>4, <3>1
      <4>2. wal # <<>>
        BY <3>0, <4>1, EmptySeq
      <4>3. wal[Len(wal)].generation \in {Len(history) - 1, Len(history)}
        BY <1>2, <4>2 DEF Chained
      <4>4. wal'[Len(wal')] = wal[Len(wal)]
        BY <3>0, <4>1
      <4> QED BY <4>3, <4>4
    <3>2. CASE cursor <= Len(wal)
      <4>1. /\ Len(wal) = Len(wal') + 1 /\ Len(wal') < Len(wal)
            /\ Len(wal) - Len(wal') = 1
        BY <1>3, <1>4, <1>5, <3>2
      <4>2. wal[Len(wal')].generation =
              wal[Len(wal)].generation - (Len(wal) - Len(wal'))
        <5>1. Len(history) \in Nat \ {0}
          BY <1>2, History
        <5> QED BY <1>2, <3>0, <4>1, <5>1, ChainBound
      <4>3. wal[Len(wal)].generation = Newest + 1
        BY <1>5, <3>2
      <4>4. wal[Len(wal')].generation = Newest
        BY <1>2, <4>1, <4>2, <4>3
      <4>5. wal'[Len(wal')].generation = Newest
        BY <3>0, <4>4
      <4>6. Newest = Len(history) - 1
        BY DEF Newest
      <4> QED BY <4>5, <4>6
    <3>3. cursor = Len(wal) + 1 \/ cursor <= Len(wal)
      BY <1>2, <1>3
    <3> QED BY <3>1, <3>2, <3>3
  <2> QED BY <2>1, <2>2, <2>3 DEF Chained
<1>7. Restores(wal', checkpoints, Newest)
  <2>1. Restores(wal, checkpoints, Newest)
    BY DEF IInv, Logged
  <2>2. ASSUME NEW i \in DOMAIN wal, Whole(wal[i]) /\ wal[i].generation <= Newest
        PROVE  \E j \in DOMAIN wal' :
                 Whole(wal'[j]) /\ wal'[j].generation = wal[i].generation
    <3>1. i \in DOMAIN wal'
      BY <1>2, <1>3, <1>4, <1>5, <2>2
    <3> QED BY <1>4, <2>2, <3>1
  <2> QED BY <2>1, <2>2, RestoresSame
<1>8. Logged'
  <2>1. "power" \in CrashKinds =>
          \A i \in DOMAIN wal' : i \in DOMAIN durable /\ durable[i] = wal'[i]
    BY <1>1, <1>4 DEF IInv, Logged
  <2>2. "power" \in CrashKinds =>
          Chained(durable, history) /\ Restores(durable, checkpoints, Newest)
    BY DEF IInv, Logged
  <2> QED BY <1>1, <1>6, <1>7, <2>1, <2>2 DEF Logged, Newest
<1>9. /\ \A c \in checkpoints : c.generation <= snapshot.generation
      /\ snapshot \in checkpoints \cup {[generation |-> 0, table |-> Empty]}
      /\ snapshot.generation \in Nat
  BY <1>1, <1>2 DEF IInv, Recovering, Snapshot
<1>10. /\ snapshot.generation <= Newest
       /\ snapshot.table = history[snapshot.generation + 1]
  <2>1. CASE snapshot \in checkpoints
    BY <2>1 DEF IInv, Checkpointed
  <2>2. CASE snapshot = [generation |-> 0, table |-> Empty]
    BY <1>2, <2>2 DEF IInv, Checkpointed
  <2> QED BY <1>9, <2>1, <2>2
<1>11. wal' # <<>> => wal'[1].generation <= snapshot.generation + 1
  <2> SUFFICES ASSUME wal' # <<>> PROVE wal'[1].generation <= snapshot.generation + 1
    OBVIOUS
  <2>1. 1 \in DOMAIN wal' /\ 1 \in DOMAIN wal /\ wal'[1] = wal[1]
    BY <1>2, <1>3, <1>4, Frames
  <2>2. CASE snapshot.generation = Newest
    <3>1. wal[1].generation <= Len(history)
      BY <1>2, <2>1, ChainBound, History
    <3> QED BY <1>2, <2>1, <2>2, <3>1
  <2>3. CASE snapshot.generation # Newest
    <3>1. snapshot.generation + 1 <= Newest
      BY <1>2, <1>9, <1>10, <2>3
    <3>2. PICK c \in checkpoints \cup {[generation |-> 0, table |-> Empty]} :
            /\ \A d \in checkpoints : d.generation <= c.generation
            /\ \A g \in (c.generation + 1)..Newest :
                 \E i \in DOMAIN wal' : Whole(wal'[i]) /\ wal'[i].generation = g
      BY <1>7 DEF Restores
    <3>3. c.generation = snapshot.generation
      <4>1. c.generation \in Nat
        BY <1>2 DEF Snapshot
      <4>2. c.generation <= snapshot.generation
        BY <1>9
      <4>3. snapshot.generation <= c.generation
        BY <1>9, <3>2, <4>1
      <4> QED BY <1>9, <4>1, <4>2, <4>3
    <3>4. PICK i \in DOMAIN wal' : wal'[i].generation = snapshot.generation + 1
      <4>1. snapshot.generation + 1 \in (c.generation + 1)..Newest
        BY <1>2, <1>9, <3>1, <3>3
      <4> QED BY <3>2, <4>1
    <3>5. i = 1 \/ (1 < i /\ i \in Int)
      BY <1>2, <1>3, <1>4
    <3>6. 1 < i => wal'[i].generation = wal'[1].generation + (i - 1)
      BY <1>6, <2>1 DEF Chained
    <3> QED BY <1>3, <1>9, <2>1, <3>4, <3>5, <3>6
  <2> QED BY <2>2, <2>3
<1>12. Recovering'
  <2>1. \A i \in DOMAIN wal' : Whole(wal'[i])
    BY <1>2, <1>4
  <2>2. 1 <= Len(wal') => wal'[1].generation <= snapshot.generation + 1
    BY <1>2, <1>11, Frames
  <2>3. ~(snapshot.generation > Newest)
    BY <1>2, <1>9, <1>10
  <2>4. snapshot.generation <= Newest + 1
    BY <1>2, <1>9, <1>10
  <2>5. \A i \in 1..(cursor' - 1) : wal'[i].generation <= snapshot.generation
    BY <1>1
  <2>6. cursor' <= Len(wal') => wal'[cursor'].generation <= snapshot.generation + 1
    BY <1>1, <2>2
  <2>7. Newest' = Newest
    BY <1>1 DEF Newest
  <2> QED BY <1>1, <1>9, <1>10, <2>1, <2>3, <2>4, <2>5, <2>6, <2>7 DEF Recovering
<1>13. Exclusive' /\ Checkpointed' /\ Serving'
  BY <1>1 DEF IInv, Exclusive, Checkpointed, Serving, Newest
<1> QED BY <1>8, <1>12, <1>13 DEF IInv

\* After each replayed frame, the snapshot is the table of its generation.
LEMMA ReplayStep ==
  ASSUME IInv, TypeInv', ReplayFrame
  PROVE  IInv'
<1>1. /\ UNCHANGED <<wal, durable, checkpoints, onDisk, writer, pc, operations,
                     history, phase>>
      /\ phase = "replay" /\ cursor <= Len(wal) /\ cursor' = cursor + 1
      /\ snapshot' = IF wal[cursor].generation > snapshot.generation
                     THEN Replayed(wal[cursor]) ELSE snapshot
  BY DEF ReplayFrame, diskVars, threadVars
<1>2. /\ TypeOK /\ wal \in Seq(Frame) /\ Chained(wal, history)
      /\ Newest \in Nat /\ Newest + 1 = Len(history)
      /\ snapshot.generation \in Nat
      /\ checkpoints \in SUBSET Snapshot
  BY History DEF IInv, TypeInv, TypeOK, Logged, Snapshot
<1>3. /\ Len(wal) \in Nat /\ DOMAIN wal = 1..Len(wal) /\ cursor \in DOMAIN wal
      /\ \A i \in DOMAIN wal : wal[i].generation \in Nat
  BY <1>1, <1>2, Frames DEF IInv, TypeInv, InFile
<1>4. /\ \A i \in DOMAIN wal : Whole(wal[i])
      /\ \A i \in 1..(cursor - 1) : wal[i].generation <= snapshot.generation
      /\ wal[cursor].generation <= snapshot.generation + 1
      /\ snapshot.generation <= Newest + 1
      /\ snapshot.generation <= Newest =>
           snapshot.table = history[snapshot.generation + 1]
      /\ snapshot.generation > Newest =>
           /\ wal # <<>>
           /\ wal[Len(wal)].generation = Newest + 1
           /\ snapshot.table = Apply(history[Len(history)], wal[Len(wal)].tx)
      /\ \A c \in checkpoints : c.generation <= snapshot.generation
  BY <1>1 DEF IInv, Recovering
<1>5. cursor + 1 <= Len(wal) => wal[cursor + 1].generation = wal[cursor].generation + 1
  <2> SUFFICES ASSUME cursor + 1 <= Len(wal)
               PROVE  wal[cursor + 1].generation = wal[cursor].generation + 1
    OBVIOUS
  <2>1. cursor + 1 \in DOMAIN wal /\ cursor < cursor + 1 /\ (cursor + 1) - cursor = 1
    BY <1>3
  <2>2. wal[cursor + 1].generation = wal[cursor].generation + ((cursor + 1) - cursor)
    BY <1>2, <1>3, <2>1 DEF Chained
  <2> QED BY <2>1, <2>2
<1>6. CASE wal[cursor].generation <= snapshot.generation
  <2>1. snapshot' = snapshot
    BY <1>1, <1>2, <1>3, <1>6
  <2>2. \A i \in 1..(cursor' - 1) : wal[i].generation <= snapshot.generation
    BY <1>1, <1>3, <1>4, <1>6
  <2>3. cursor' <= Len(wal) => wal[cursor'].generation <= snapshot.generation + 1
    BY <1>1, <1>2, <1>3, <1>5, <1>6
  <2>4. Recovering'
    BY <1>1, <1>4, <2>1, <2>2, <2>3 DEF Recovering, Newest
  <2> QED BY <1>1, <2>1, <2>4
          DEF IInv, Exclusive, Checkpointed, Logged, Serving, Newest
<1>7. CASE wal[cursor].generation > snapshot.generation
  <2>1. /\ wal[cursor].generation = snapshot.generation + 1
        /\ wal[cursor].generation <= Newest + 1
    <3>1. wal[cursor].generation <= Len(history)
      BY <1>2, <1>3, ChainBound, History
    <3> QED BY <1>2, <1>3, <1>4, <1>7, <3>1
  <2>2. /\ snapshot'.generation = snapshot.generation + 1
        /\ snapshot'.table = Apply(snapshot.table, wal[cursor].tx)
    BY <1>1, <1>7, <2>1 DEF Replayed
  <2>3. /\ snapshot.generation <= Newest
        /\ snapshot.table = history[snapshot.generation + 1]
    BY <1>2, <1>4, <2>1
  <2>4. snapshot'.generation <= Newest =>
          snapshot'.table = history[snapshot'.generation + 1]
    <3> SUFFICES ASSUME snapshot'.generation <= Newest
                 PROVE  snapshot'.table = history[snapshot'.generation + 1]
      OBVIOUS
    <3>1. wal[cursor].generation < Len(history)
      BY <1>2, <1>3, <2>1, <2>2
    <3>2. history[wal[cursor].generation + 1] =
            Apply(history[wal[cursor].generation], wal[cursor].tx)
      BY <1>2, <1>3, <3>1 DEF Chained
    <3> QED BY <2>1, <2>2, <2>3, <3>2
  <2>5. snapshot'.generation > Newest =>
          /\ wal # <<>>
          /\ wal[Len(wal)].generation = Newest + 1
          /\ snapshot'.table = Apply(history[Len(history)], wal[Len(wal)].tx)
    <3> SUFFICES ASSUME snapshot'.generation > Newest
                 PROVE  /\ wal # <<>>
                        /\ wal[Len(wal)].generation = Newest + 1
                        /\ snapshot'.table = Apply(history[Len(history)], wal[Len(wal)].tx)
      OBVIOUS
    <3>1. wal[cursor].generation = Len(history) /\ snapshot.generation = Newest
      BY <1>2, <2>1, <2>2, <2>3
    <3>2. cursor = Len(wal)
      BY <1>2, <1>3, <3>1, ChainBound, History
    <3> QED BY <1>2, <1>3, <2>2, <2>3, <3>1, <3>2, Frames
  <2>6. \A i \in 1..(cursor' - 1) : wal[i].generation <= snapshot'.generation
    <3>1. \A i \in 1..(cursor - 1) : wal[i].generation <= snapshot'.generation
      <4>1. ASSUME NEW i \in 1..(cursor - 1)
            PROVE  wal[i].generation <= snapshot'.generation
        <5>1. wal[i].generation <= snapshot.generation /\ i \in DOMAIN wal
          BY <1>3, <1>4
        <5>2. wal[i].generation \in Nat /\ snapshot.generation \in Nat
          BY <1>2, <1>3, <5>1
        <5> QED BY <2>2, <5>1, <5>2
      <4> QED BY <4>1
    <3>2. wal[cursor].generation <= snapshot'.generation
      BY <1>2, <2>1, <2>2
    <3>3. ASSUME NEW i \in 1..(cursor' - 1) PROVE i \in 1..(cursor - 1) \/ i = cursor
      BY <1>1, <1>3
    <3> QED BY <3>1, <3>2, <3>3
  <2>7. cursor' <= Len(wal) => wal[cursor'].generation <= snapshot'.generation + 1
    BY <1>1, <1>2, <1>3, <1>5, <2>1, <2>2
  <2>8. snapshot'.generation <= Newest + 1
    BY <2>1, <2>2
  <2>9. \A c \in checkpoints : c.generation <= snapshot'.generation
    BY <1>2, <1>4, <2>2 DEF Snapshot
  <2>10. Recovering'
    BY <1>1, <1>4, <2>4, <2>5, <2>6, <2>7, <2>8, <2>9 DEF Recovering, Newest
  <2> QED BY <1>1, <2>10
          DEF IInv, Exclusive, Checkpointed, Logged, Serving, Newest
<1> QED BY <1>2, <1>3, <1>6, <1>7

\* When the log is replayed, all that was published is restored.
LEMMA Recovered ==
  ASSUME IInv, phase = "replay", cursor > Len(wal)
  PROVE  /\ snapshot.generation \in {Newest, Newest + 1}
         /\ snapshot.generation = Newest => snapshot.table = history[Len(history)]
<1>1. /\ TypeOK /\ wal \in Seq(Frame) /\ Restores(wal, checkpoints, Newest)
      /\ Newest \in Nat /\ Newest + 1 = Len(history)
      /\ snapshot.generation \in Nat /\ checkpoints \in SUBSET Snapshot
  BY History DEF IInv, TypeInv, TypeOK, Logged, Snapshot
<1>2. Len(wal) \in Nat /\ DOMAIN wal = 1..Len(wal)
  BY <1>1, Frames
<1>3. \A i \in DOMAIN wal : wal[i].generation <= snapshot.generation
  BY <1>2 DEF IInv, TypeInv, InFile, Recovering
<1>4. /\ \A c \in checkpoints : c.generation <= snapshot.generation
      /\ snapshot.generation <= Newest + 1
      /\ snapshot.generation <= Newest =>
           snapshot.table = history[snapshot.generation + 1]
  BY DEF IInv, Recovering
<1>5. snapshot.generation >= Newest
  <2> SUFFICES ASSUME snapshot.generation < Newest PROVE FALSE
    BY <1>1
  <2>1. PICK c \in checkpoints \cup {[generation |-> 0, table |-> Empty]} :
          \A g \in (c.generation + 1)..Newest :
            \E i \in DOMAIN wal : Whole(wal[i]) /\ wal[i].generation = g
    BY <1>1 DEF Restores
  <2>2. c.generation \in Nat /\ c.generation <= snapshot.generation
    BY <1>1, <1>4 DEF Snapshot
  <2>3. Newest \in (c.generation + 1)..Newest
    BY <1>1, <2>2
  <2>4. PICK i \in DOMAIN wal : wal[i].generation = Newest
    BY <2>1, <2>3
  <2> QED BY <1>1, <1>3, <2>4
<1> QED BY <1>1, <1>4, <1>5

\* The database opens with the newest generation, or with one that was in the
\* log and that nobody had published.
LEMMA ServeStep ==
  ASSUME IInv, TypeInv', Serve
  PROVE  IInv'
<1>1. /\ UNCHANGED <<wal, durable, checkpoints, onDisk, writer, pc, operations, snapshot>>
      /\ phase = "replay" /\ cursor > Len(wal) /\ phase' = "ready"
      /\ history' = IF snapshot.generation = Len(history)
                    THEN Append(history, snapshot.table) ELSE history
  BY DEF Serve, diskVars, threadVars
<1>2. /\ TypeOK /\ wal \in Seq(Frame) /\ durable \in Seq(Frame)
      /\ history \in Seq(Table) /\ history # <<>>
      /\ Chained(wal, history) /\ Restores(wal, checkpoints, Newest)
      /\ Newest \in Nat /\ Newest + 1 = Len(history) /\ Len(history) \in Nat \ {0}
      /\ snapshot \in Snapshot /\ snapshot.generation \in Nat
      /\ snapshot = [generation |-> snapshot.generation, table |-> snapshot.table]
      /\ snapshot.table \in Table
      /\ checkpoints \in SUBSET Snapshot
  BY History DEF IInv, TypeInv, TypeOK, Logged, Snapshot
<1>3. /\ Len(wal) \in Nat /\ DOMAIN wal = 1..Len(wal)
      /\ \A i \in DOMAIN wal : wal[i].generation \in Nat
  BY <1>2, Frames
<1>4. \A i \in DOMAIN wal : Whole(wal[i]) /\ wal[i].generation <= snapshot.generation
  BY <1>1, <1>3 DEF IInv, TypeInv, InFile, Recovering
<1>5. /\ \A c \in checkpoints : c.generation <= snapshot.generation
      /\ snapshot.generation <= Newest + 1
      /\ snapshot.generation <= Newest =>
           snapshot.table = history[snapshot.generation + 1]
      /\ snapshot.generation > Newest =>
           /\ wal # <<>>
           /\ wal[Len(wal)].generation = Newest + 1
           /\ snapshot.table = Apply(history[Len(history)], wal[Len(wal)].tx)
  BY <1>1 DEF IInv, Recovering
\* Nothing older can be served.
<1>6. snapshot.generation >= Newest
  BY <1>1, <1>2, Recovered
<1>7. Recovering'
  BY <1>1 DEF Recovering
<1>8. Exclusive'
  BY <1>1 DEF IInv, Exclusive
<1>9. \A w \in Workers : pc'[w] = "idle"
  BY <1>1 DEF IInv, Exclusive
<1>10. CASE snapshot.generation = Newest
  <2>1. history' = history /\ Newest' = Newest
    <3>1. snapshot.generation # Len(history)
      BY <1>2, <1>10
    <3>2. history' = history
      BY <1>1, <3>1
    <3> QED BY <3>2 DEF Newest
  <2>2. Checkpointed'
    BY <1>1, <2>1 DEF IInv, Checkpointed
  <2>3. Logged'
    <3>1. "power" \in CrashKinds =>
            \A i \in DOMAIN wal : i \in DOMAIN durable /\ durable[i] = wal[i]
      BY <1>1 DEF IInv, Logged
    <3> QED BY <1>1, <2>1, <3>1 DEF IInv, Logged
  <2>4. Settled'
    BY <1>1, <1>4, <1>10, <2>1 DEF Settled
  <2>5. snapshot = [generation |-> Newest, table |-> history[Len(history)]]
    BY <1>2, <1>5, <1>10
  <2>6. Serving'
    BY <1>1, <1>9, <2>1, <2>4, <2>5 DEF Serving, Writing
  <2> QED BY <1>7, <1>8, <2>2, <2>3, <2>6 DEF IInv
<1>11. CASE snapshot.generation = Newest + 1
  <2>1. /\ history' = Append(history, snapshot.table)
        /\ Len(history') = Len(history) + 1
        /\ \A i \in 1..Len(history) : history'[i] = history[i]
        /\ history'[Len(history')] = snapshot.table
    BY <1>1, <1>2, <1>11, AppendProperties
  <2>2. Newest' = Newest + 1
    BY <1>2, <2>1 DEF Newest
  <2>3. Checkpointed'
    <3>1. history'[1] = Empty
      BY <1>2, <2>1 DEF IInv, Checkpointed
    <3>2. ASSUME NEW c \in checkpoints
          PROVE  c.generation <= Newest' /\ c.table = history'[c.generation + 1]
      <4>1. c.generation \in Nat /\ c.generation <= Newest
            /\ c.table = history[c.generation + 1]
        BY <1>2 DEF IInv, Checkpointed, Snapshot
      <4>2. c.generation + 1 \in 1..Len(history)
        BY <1>2, <4>1
      <4> QED BY <1>2, <2>1, <2>2, <4>1, <4>2
    <3> QED BY <1>1, <3>1, <3>2 DEF IInv, Checkpointed
  <2>4. /\ wal # <<>> /\ wal[Len(wal)].generation = Len(history)
        /\ Len(wal) \in DOMAIN wal /\ Whole(wal[Len(wal)])
        /\ snapshot.table = Apply(history[Len(history)], wal[Len(wal)].tx)
    <3>1. snapshot.generation > Newest
      BY <1>2, <1>11
    <3>2. wal # <<>> /\ wal[Len(wal)].generation = Newest + 1
          /\ snapshot.table = Apply(history[Len(history)], wal[Len(wal)].tx)
      BY <1>5, <3>1
    <3>3. Len(wal) # 0
      BY <1>2, <3>2, EmptySeq
    <3>4. Len(wal) \in DOMAIN wal
      BY <1>3, <3>3
    <3> QED BY <1>2, <1>4, <3>2, <3>4
  <2>5. Chained(wal, history')
    BY <1>2, <2>1, <2>4, ChainGrows
  <2>6. Restores(wal, checkpoints, Newest + 1)
    <3>1. wal[Len(wal)].generation = Newest + 1
      BY <1>2, <2>4
    <3> QED BY <1>2, <2>4, <3>1, RestoresNext
  <2>7. Logged'
    <3>1. "power" \in CrashKinds =>
            \A i \in DOMAIN wal : i \in DOMAIN durable /\ durable[i] = wal[i]
      BY <1>1 DEF IInv, Logged
    <3>2. ASSUME "power" \in CrashKinds
          PROVE  Chained(durable, history') /\ Restores(durable, checkpoints, Newest + 1)
      <4>1. Chained(durable, history) /\ Restores(durable, checkpoints, Newest)
        BY <3>2 DEF IInv, Logged
      <4>2. /\ Len(wal) \in DOMAIN durable /\ durable[Len(wal)] = wal[Len(wal)]
            /\ durable # <<>>
            /\ Len(durable) \in Nat /\ DOMAIN durable = 1..Len(durable)
        BY <1>2, <2>4, <3>1, <3>2, Frames
      <4>3. Len(durable) = Len(wal)
        <5>1. durable[Len(wal)].generation = Len(history)
          BY <2>4, <4>2
        <5> QED BY <1>2, <4>1, <4>2, <5>1, ChainBound
      <4>4. Chained(durable, history')
        BY <1>2, <2>1, <2>4, <4>1, <4>2, <4>3, ChainGrows
      <4>5. Restores(durable, checkpoints, Newest + 1)
        <5>1. durable[Len(wal)].generation = Newest + 1 /\ Whole(durable[Len(wal)])
          BY <1>2, <2>4, <4>2
        <5> QED BY <1>2, <4>1, <4>2, <5>1, RestoresNext
      <4> QED BY <4>4, <4>5
    <3> QED BY <1>1, <2>2, <2>5, <2>6, <3>1, <3>2 DEF Logged
  <2>8. Settled'
    BY <1>1, <1>4, <1>11, <2>2 DEF Settled
  <2>9. snapshot = [generation |-> Newest', table |-> history'[Len(history')]]
    BY <1>2, <1>11, <2>1, <2>2
  <2>10. Serving'
    BY <1>1, <1>9, <2>8, <2>9 DEF Serving, Writing
  <2> QED BY <1>7, <1>8, <2>3, <2>7, <2>10 DEF IInv
<1> QED BY <1>2, <1>5, <1>6, <1>10, <1>11


-----------------------------------------------------------------------------
(* Crashes.                                                                *)

\* Arithmetic of positions.
LEMMA Positions ==
  /\ \A m, n \in Nat : m <= n => m = n \/ m < n
  /\ \A m \in Nat : \A n \in 0..m : n # m => n + 1 \in 1..m /\ n \in Nat /\ ~(n + 1 <= n)
  /\ \A m \in Nat : \A n \in 0..m : \A i \in 1..m : i <= n => i \in 1..n /\ i <= n + 1
  /\ \A n \in Nat : \A i \in 1..(n + 1) : i = n + 1 \/ i \in 1..n
OBVIOUS

\* A log that lost or damaged at most a frame that was not published is
\* chained, and restores what the whole log restores.
LEMMA DamagedChain ==
  ASSUME IInv, NEW image \in Seq(Frame), Len(image) <= Len(wal),
         \A i \in 1..Len(wal) : wal[i].generation <= Newest =>
           i <= Len(image) /\ image[i] = wal[i],
         \A i \in 1..Len(image) :
           /\ image[i].generation = wal[i].generation
           /\ image[i].start = wal[i].start /\ image[i].size = wal[i].size
           /\ image[i].have \in 1..image[i].size
           /\ i < Len(wal) => image[i] = wal[i]
  PROVE  Chained(image, history) /\ Restores(image, checkpoints, Newest)
<1>1. /\ TypeOK /\ wal \in Seq(Frame) /\ Chained(wal, history)
      /\ Newest \in Nat /\ Newest + 1 = Len(history) /\ Len(history) \in Nat \ {0}
      /\ Restores(wal, checkpoints, Newest)
  BY History DEF IInv, TypeInv, TypeOK, Logged
<1>2. /\ Len(wal) \in Nat /\ DOMAIN wal = 1..Len(wal)
      /\ \A i \in DOMAIN wal : wal[i].generation \in Nat
  BY <1>1, Frames
<1>3. Len(image) \in Nat /\ DOMAIN image = 1..Len(image)
  BY Frames
<1>4. DOMAIN image \subseteq DOMAIN wal
  BY <1>2, <1>3
<1>5. ASSUME NEW i \in DOMAIN image
      PROVE  /\ image[i].size > HeaderUnits
             /\ image[i].size - HeaderUnits <= MaxWalRecord
             /\ image[i].have \in 1..image[i].size
             /\ image[i].generation >= 1
             /\ image[i].generation < Len(history) =>
                  /\ Whole(image[i])
                  /\ history[image[i].generation + 1] =
                       Apply(history[image[i].generation], image[i].tx)
  <2>1. /\ wal[i].size > HeaderUnits
        /\ wal[i].size - HeaderUnits <= MaxWalRecord
        /\ wal[i].generation >= 1
        /\ wal[i].generation < Len(history) =>
             /\ Whole(wal[i])
             /\ history[wal[i].generation + 1] =
                  Apply(history[wal[i].generation], wal[i].tx)
    BY <1>1, <1>4 DEF Chained
  <2>2. /\ image[i].generation = wal[i].generation /\ image[i].size = wal[i].size
        /\ image[i].have \in 1..image[i].size
    BY <1>3
  <2>3. wal[i].generation < Len(history) => image[i] = wal[i]
    BY <1>1, <1>2, <1>4
  <2> QED BY <2>1, <2>2, <2>3
<1>6. ASSUME NEW i \in DOMAIN image, NEW j \in DOMAIN image, i < j
      PROVE  /\ Whole(image[i])
             /\ image[j].generation = image[i].generation + (j - i)
             /\ EndOf(image[i]) <= image[j].start
  <2>1. i < Len(wal)
    BY <1>2, <1>3, <1>4, <1>6
  <2>2. image[i] = wal[i]
    BY <1>3, <2>1
  <2>3. image[j].generation = wal[j].generation /\ image[j].start = wal[j].start
    BY <1>3
  <2>4. /\ Whole(wal[i]) /\ wal[j].generation = wal[i].generation + (j - i)
        /\ EndOf(wal[i]) <= wal[j].start
    BY <1>1, <1>4, <1>6 DEF Chained
  <2> QED BY <2>2, <2>3, <2>4
<1>7. ASSUME image # <<>>
      PROVE  image[Len(image)].generation \in {Len(history) - 1, Len(history)}
  <2>1. Len(image) \in DOMAIN image /\ Len(image) \in DOMAIN wal
    <3>1. Len(image) # 0
      BY <1>7, EmptySeq
    <3> QED BY <1>3, <1>4, <3>1
  <2>2. image[Len(image)].generation = wal[Len(image)].generation
    BY <1>3, <2>1
  <2>3. wal[Len(image)].generation <= Len(history)
    BY <1>1, <2>1, ChainBound
  <2>4. wal[Len(image)].generation >= Len(history) - 1
    <3>1. CASE Len(image) = Len(wal)
      <4>1. wal # <<>>
        BY <1>1, <1>2, <2>1, EmptySeq
      <4>2. wal[Len(wal)].generation \in {Len(history) - 1, Len(history)}
        BY <1>1, <4>1 DEF Chained
      <4> QED BY <1>1, <3>1, <4>2
    <3>2. CASE Len(image) < Len(wal)
      <4>1. /\ Len(image) + 1 \in DOMAIN wal /\ ~(Len(image) + 1 <= Len(image))
            /\ Len(image) < Len(image) + 1 /\ (Len(image) + 1) - Len(image) = 1
        BY <1>2, <1>3, <3>2
      <4>2. ~(wal[Len(image) + 1].generation <= Newest)
        BY <1>2, <4>1
      <4>3. wal[Len(image) + 1].generation =
              wal[Len(image)].generation + ((Len(image) + 1) - Len(image))
        BY <1>1, <2>1, <4>1 DEF Chained
      <4>4. wal[Len(image)].generation \in Nat /\ wal[Len(image) + 1].generation \in Nat
        BY <1>2, <2>1, <4>1
      <4> QED BY <1>1, <4>1, <4>2, <4>3, <4>4
    <3>3. Len(image) = Len(wal) \/ Len(image) < Len(wal)
      BY <1>2, <1>3, Positions
    <3> QED BY <3>1, <3>2, <3>3
  <2>5. wal[Len(image)].generation \in Nat
    BY <1>2, <2>1
  <2>6. \/ wal[Len(image)].generation = Len(history) - 1
        \/ wal[Len(image)].generation = Len(history)
    BY <1>1, <2>3, <2>4, <2>5
  <2> QED BY <2>2, <2>6
<1>8. ASSUME NEW i \in DOMAIN wal, Whole(wal[i]), wal[i].generation <= Newest
      PROVE  \E j \in DOMAIN image :
               Whole(image[j]) /\ image[j].generation = wal[i].generation
  <2>1. i <= Len(image) /\ image[i] = wal[i]
    BY <1>2, <1>8
  <2>2. i \in DOMAIN image
    BY <1>2, <1>3, <2>1
  <2> QED BY <1>8, <2>1, <2>2
<1>9. Restores(image, checkpoints, Newest)
  BY <1>1, <1>8, RestoresSame
<1> QED BY <1>5, <1>6, <1>7, <1>9 DEF Chained

\* Without power, the published frames of the log are among those that the
\* last sync left; at most the frame being committed is not.
LEMMA KeptFrames ==
  ASSUME IInv, "power" \in CrashKinds, NEW n \in Kept
  PROVE  /\ n \in 0..Len(wal)
         /\ \A i \in 1..Len(wal) : wal[i].generation <= Newest => i <= n
<1>1. /\ TypeOK /\ wal \in Seq(Frame) /\ durable \in Seq(Frame)
      /\ Chained(wal, history) /\ Newest \in Nat
  BY History DEF IInv, TypeInv, TypeOK, Logged
<1>2. /\ Len(wal) \in Nat /\ DOMAIN wal = 1..Len(wal)
      /\ \A i \in DOMAIN wal : wal[i].generation \in Nat
      /\ Len(durable) \in Nat /\ DOMAIN durable = 1..Len(durable)
  BY <1>1, Frames
<1>3. ASSUME NEW i \in 1..Len(wal), wal[i].generation <= Newest PROVE i <= n
  <2>1. ASSUME NEW j \in 1..i PROVE j \in DOMAIN durable /\ durable[j] = wal[j]
    <3>1. j \in DOMAIN wal /\ i \in DOMAIN wal /\ (j < i \/ j = i)
      BY <1>2
    <3>2. j < i => wal[i].generation = wal[j].generation + (i - j)
      BY <1>1, <3>1 DEF Chained
    <3>3. wal[j].generation <= Newest
      BY <1>1, <1>2, <1>3, <3>1, <3>2
    <3> QED BY <3>1, <3>3 DEF IInv, Logged
  <2>2. i \in 0..Len(wal) /\ i <= Len(durable) /\ i \in 0..Len(durable)
    <3>1. i \in 1..i
      BY <1>2
    <3>2. i \in DOMAIN durable
      BY <2>1, <3>1
    <3> QED BY <1>2, <3>2
  <2>3. SubSeq(wal, 1, i) = SubSeq(durable, 1, i)
    <3>1. /\ SubSeq(wal, 1, i) \in Seq(Frame) /\ Len(SubSeq(wal, 1, i)) = i
          /\ \A j \in 1..i : SubSeq(wal, 1, i)[j] = wal[j]
      BY <1>1, <2>2, Prefix
    <3>2. /\ SubSeq(durable, 1, i) \in Seq(Frame) /\ Len(SubSeq(durable, 1, i)) = i
          /\ \A j \in 1..i : SubSeq(durable, 1, i)[j] = durable[j]
      BY <1>1, <2>2, Prefix
    <3>3. \A j \in 1..i : SubSeq(wal, 1, i)[j] = SubSeq(durable, 1, i)[j]
      BY <2>1, <3>1, <3>2
    <3> QED BY <3>1, <3>2, <3>3, SeqEqual
  <2> QED BY <2>2, <2>3 DEF Agreed, Kept
<1> QED BY <1>3 DEF Kept

\* Whatever a crash leaves of the log is chained and restores what was
\* published.
LEMMA CrashImage ==
  ASSUME IInv, NEW kind \in CrashKinds, NEW image \in WalImages(kind)
  PROVE  /\ image \in Seq(Frame)
         /\ Chained(image, history) /\ Restores(image, checkpoints, Newest)
<1>1. TypeInv /\ image \in Seq(Frame) /\ wal \in Seq(Frame)
  BY ImageType DEF IInv, TypeInv, TypeOK
<1>2. /\ Len(wal) \in Nat /\ DOMAIN wal = 1..Len(wal)
      /\ \A i \in 1..Len(wal) :
           /\ wal[i] \in Frame /\ wal[i].generation \in Nat
           /\ wal[i].size >= 1 /\ wal[i].have \in 1..wal[i].size
  <2>1. Len(wal) \in Nat /\ DOMAIN wal = 1..Len(wal)
        /\ \A i \in DOMAIN wal : wal[i] \in Frame /\ wal[i].generation \in Nat
                                  /\ wal[i].size \in Nat
    BY <1>1, Frames
  <2>2. \A i \in DOMAIN wal : wal[i].have \in 1..wal[i].size
    BY DEF IInv, Logged, Chained
  <2> QED BY <2>1, <2>2
<1>3. CASE image = wal
  BY <1>1, <1>3 DEF IInv, Logged
<1>4. CASE kind = "power" /\ image = durable
  BY <1>1, <1>4 DEF IInv, Logged
<1>5. ASSUME kind = "power", NEW n \in Kept, image = SubSeq(wal, 1, n)
      PROVE  Chained(image, history) /\ Restores(image, checkpoints, Newest)
  <2>1. n \in 0..Len(wal) /\ \A i \in 1..Len(wal) : wal[i].generation <= Newest => i <= n
    BY <1>5, KeptFrames
  <2>2. Len(image) = n /\ \A i \in 1..n : image[i] = wal[i]
    BY <1>1, <1>5, <2>1, Prefix
  <2>3. Len(image) <= Len(wal)
    BY <1>2, <2>1, <2>2
  <2>4. \A i \in 1..Len(wal) : wal[i].generation <= Newest =>
          i <= Len(image) /\ image[i] = wal[i]
    BY <1>2, <2>1, <2>2
  <2>5. \A i \in 1..Len(image) : i \in 1..Len(wal) /\ image[i] = wal[i]
    BY <1>2, <2>1, <2>2
  <2>6. \A i \in 1..Len(image) :
          /\ image[i].generation = wal[i].generation
          /\ image[i].start = wal[i].start /\ image[i].size = wal[i].size
          /\ image[i].have \in 1..image[i].size
          /\ i < Len(wal) => image[i] = wal[i]
    BY <1>2, <2>5
  <2> QED BY <1>1, <2>3, <2>4, <2>6, DamagedChain
<1>6. ASSUME kind = "power", NEW n \in Kept \ {Len(wal)}, NEW f \in Damaged(wal[n + 1]),
             image = Append(SubSeq(wal, 1, n), f)
      PROVE  Chained(image, history) /\ Restores(image, checkpoints, Newest)
  <2>1. n \in 0..Len(wal) /\ \A i \in 1..Len(wal) : wal[i].generation <= Newest => i <= n
    BY <1>6, KeptFrames
  <2>2. n + 1 \in 1..Len(wal) /\ n \in Nat /\ ~(n + 1 <= n)
    <3>1. n # Len(wal) /\ n \in 0..Len(wal)
      BY <2>1
    <3> QED BY <1>2, <3>1, Positions
  <2>3. n + 1 = Len(wal)
    <3>1. ~(wal[n + 1].generation <= Newest)
      BY <2>1, <2>2
    <3>2. /\ Chained(wal, history) /\ Newest + 1 = Len(history) /\ Newest \in Nat
          /\ Len(history) \in Nat \ {0}
      BY History DEF IInv, Logged, TypeInv
    <3>3. wal[n + 1].generation <= Len(history) /\ wal[n + 1].generation \in Nat
      BY <1>1, <1>2, <2>2, <3>2, ChainBound
    <3>4. wal[n + 1].generation = Len(history)
      BY <3>1, <3>2, <3>3
    <3> QED BY <1>1, <1>2, <2>2, <3>2, <3>4, ChainBound
  <2>4. /\ f \in Frame /\ f.generation = wal[n + 1].generation
        /\ f.start = wal[n + 1].start /\ f.size = wal[n + 1].size
        /\ f.have \in 1..f.size
    BY <1>2, <1>6, <2>2, DamagedType
  <2>5. /\ SubSeq(wal, 1, n) \in Seq(Frame) /\ Len(SubSeq(wal, 1, n)) = n
        /\ \A i \in 1..n : SubSeq(wal, 1, n)[i] = wal[i]
    BY <1>1, <2>1, Prefix
  <2>6. /\ Len(image) = n + 1 /\ image[n + 1] = f
        /\ \A i \in 1..n : image[i] = wal[i]
    BY <1>6, <2>4, <2>5, AppendProperties
  <2>7. \A i \in 1..Len(wal) : wal[i].generation <= Newest =>
          i <= Len(image) /\ image[i] = wal[i]
    <3> SUFFICES ASSUME NEW i \in 1..Len(wal), wal[i].generation <= Newest
                 PROVE  i <= Len(image) /\ image[i] = wal[i]
      OBVIOUS
    <3>1. i <= n
      BY <2>1
    <3>2. i \in 1..n /\ i <= n + 1
      BY <1>2, <2>1, <3>1, Positions
    <3> QED BY <2>6, <3>2
  <2>8. ASSUME NEW i \in 1..Len(image)
        PROVE  /\ image[i].generation = wal[i].generation
               /\ image[i].start = wal[i].start /\ image[i].size = wal[i].size
               /\ image[i].have \in 1..image[i].size
               /\ i < Len(wal) => image[i] = wal[i]
    <3>1. CASE i = n + 1
      BY <2>2, <2>3, <2>4, <2>6, <3>1
    <3>2. CASE i \in 1..n
      <4>1. image[i] = wal[i] /\ i \in 1..Len(wal)
        BY <2>2, <2>3, <2>6, <3>2
      <4> QED BY <1>2, <4>1
    <3>3. i = n + 1 \/ i \in 1..n
      BY <2>2, <2>6, Positions
    <3> QED BY <3>1, <3>2, <3>3
  <2>9. Len(image) <= Len(wal)
    <3>1. Len(image) = Len(wal)
      BY <2>3, <2>6
    <3> QED BY <1>2, <3>1
  <2> QED BY <1>1, <2>7, <2>8, <2>9, DamagedChain
<1>7. kind \in {"process", "power"}
  BY EnvironmentAssumption
<1>8. CASE kind = "process"
  BY <1>1, <1>3, <1>8 DEF WalImages
<1>9. CASE kind = "power"
  <2>1. \/ image = durable
        \/ \E n \in Kept : image = SubSeq(wal, 1, n)
        \/ \E n \in Kept \ {Len(wal)} : \E f \in Damaged(wal[n + 1]) :
             image = Append(SubSeq(wal, 1, n), f)
    BY <1>9 DEF WalImages
  <2> QED BY <1>1, <1>4, <1>5, <1>6, <1>9, <2>1
<1> QED BY <1>7, <1>8, <1>9

\* A listing of the directory survives as it is.
LEMMA CrashListing ==
  ASSUME IInv, NEW kind \in CrashKinds, NEW listing \in DirectoryImages(kind)
  PROVE  listing = checkpoints
<1>1. onDisk = checkpoints
  BY DEF IInv, Checkpointed
<1> QED BY <1>1 DEF DirectoryImages

\* A crash at any moment keeps the invariant: what it may damage was never
\* published.
LEMMA CrashStep ==
  ASSUME Benign, IInv, TypeInv', NEW kind \in CrashKinds, Crash(kind)
  PROVE  IInv'
<1>1. PICK image \in WalImages(kind) :
        wal' = image /\ durable' = IF kind = "power" THEN image ELSE durable
  BY DEF Crash
<1>2. /\ phase' = "closed" /\ history' = history
      /\ \A w \in Workers : pc'[w] = "idle"
  BY DEF Crash
<1>3. checkpoints' = checkpoints /\ onDisk' = checkpoints'
  <2>1. PICK listing \in DirectoryImages(kind) :
          checkpoints' = listing /\ onDisk' = IF kind = "power" THEN listing ELSE onDisk
    BY DEF Crash
  <2>2. listing = checkpoints
    BY CrashListing
  <2> QED BY <2>1, <2>2 DEF IInv, Checkpointed
<1>4. Chained(wal', history) /\ Restores(wal', checkpoints, Newest)
  BY <1>1, CrashImage
<1>5. "power" \in CrashKinds => durable' = wal'
  <2>1. kind \in {"process", "power"}
    BY EnvironmentAssumption
  <2>2. "power" \in CrashKinds => kind = "power"
    BY <2>1 DEF Benign
  <2> QED BY <1>1, <2>2
<1>6. Newest' = Newest
  BY <1>2 DEF Newest
<1>7. Logged'
  BY <1>2, <1>3, <1>4, <1>5, <1>6 DEF Logged
<1>8. Exclusive'
  BY <1>2 DEF Exclusive, Locked, InCommit, InOptimize
<1>9. Checkpointed'
  BY <1>2, <1>3, <1>6 DEF IInv, Checkpointed
<1>10. Serving' /\ Recovering'
  BY <1>2 DEF Serving, Recovering
<1> QED BY <1>7, <1>8, <1>9, <1>10 DEF IInv


-----------------------------------------------------------------------------
(* The invariant holds.                                                    *)

\* A new directory has nothing to restore.
LEMMA InitInv ==
  ASSUME Init
  PROVE  IInv
<1>1. /\ wal = <<>> /\ durable = <<>> /\ checkpoints = {} /\ onDisk = {}
      /\ phase = "closed" /\ history = <<Empty>> /\ cursor = 1
      /\ \A w \in Workers : pc[w] = "idle"
  BY DEF Init
<1>2. TypeInv
  BY InitType
<1>3. Len(history) = 1 /\ history[1] = Empty /\ Newest = 0
  BY <1>1 DEF Newest
<1>4. Chained(wal, history)
  BY <1>1 DEF Chained
<1>5. Restores(wal, checkpoints, Newest)
  <2>1. \A g \in 1..0 : \E i \in DOMAIN wal : Whole(wal[i]) /\ wal[i].generation = g
    OBVIOUS
  <2>2. [generation |-> 0, table |-> Empty].generation + 1 = 1
    OBVIOUS
  <2> QED BY <1>1, <1>3, <2>1, <2>2 DEF Restores
<1>6. Logged
  BY <1>1, <1>4, <1>5 DEF Logged
<1>7. Checkpointed
  BY <1>1, <1>3 DEF Checkpointed
<1>8. Exclusive
  BY <1>1 DEF Exclusive, Locked, InCommit, InOptimize
<1>9. Serving /\ Recovering
  BY <1>1 DEF Serving, Recovering
<1> QED BY <1>2, <1>6, <1>7, <1>8, <1>9 DEF IInv

\* Every step keeps the invariant.
LEMMA InvStep ==
  Benign /\ IInv /\ [Next]_vars => IInv'
<1> SUFFICES ASSUME Benign, IInv, [Next]_vars
             PROVE  IInv'
  OBVIOUS
<1>1. TypeInv'
  BY TypeStep DEF IInv
<1>2. ASSUME NEW w \in Workers, Calls(w) PROVE IInv'
  BY <1>1, <1>2, CallStep
<1>3. ASSUME NEW w \in Workers, CommitSteps(w) PROVE IInv'
  <2>1. ~AppendFails(w) /\ ~SyncFails(w)
    BY DEF Benign, AppendFails, SyncFails
  <2>2. CASE LockCommit(w) \/ ExhaustedCommit(w) \/ CommitReturn(w)
    BY <1>1, <2>2, LockStep
  <2>3. CASE AppendPart(w)
    BY <1>1, <2>3, AppendPartStep
  <2>4. CASE AppendRest(w)
    BY <1>1, <2>4, AppendRestStep
  <2>5. CASE SyncWal(w)
    BY <1>1, <2>5, SyncWalStep
  <2>6. CASE Publish(w)
    BY <1>1, <2>6, PublishStep
  <2> QED BY <1>3, <2>1, <2>2, <2>3, <2>4, <2>5, <2>6 DEF CommitSteps
<1>4. ASSUME NEW w \in Workers, OptimizeSteps(w) PROVE IInv'
  <2>1. CASE LockOptimize(w) \/ WriteTemp(w) \/ OptimizeReturn(w) \/ OptimizeFails(w)
    BY <1>1, <2>1, LockStep
  <2>2. CASE Rename(w)
    BY <1>1, <2>2, RenameStep
  <2>3. CASE Truncate(w)
    BY <1>1, <2>3, TruncateStep
  <2>4. CASE SwapCompacted(w)
    BY <1>1, <2>4, SwapStep
  <2>5. CASE Sweep(w)
    BY <1>1, <2>5, SweepStep
  <2> QED BY <1>4, <2>1, <2>2, <2>3, <2>4, <2>5 DEF OptimizeSteps
<1>5. CASE Open
  <2>1. ~ScanFails
    <3> SUFFICES ASSUME ScanFails PROVE FALSE
      OBVIOUS
    <3>1. cursor \in DOMAIN wal /\ Verdict(cursor) = "corrupt"
      BY Frames DEF ScanFails, IInv, TypeInv, TypeOK, InFile
    <3> QED BY <3>1, VerdictOfChain
  <2>2. CASE LoadCheckpoint
    BY <1>1, <2>2, LoadStep
  <2>3. CASE ScanFrame
    BY <1>1, <2>3, ScanFrameStep
  <2>4. CASE ScanEnds
    BY <1>1, <2>4, ScanEndsStep
  <2>5. CASE ReplayFrame
    BY <1>1, <2>5, ReplayStep
  <2>6. CASE Serve
    BY <1>1, <2>6, ServeStep
  <2> QED BY <1>5, <2>1, <2>2, <2>3, <2>4, <2>5, <2>6 DEF Open
<1>6. ASSUME NEW kind \in CrashKinds, Crash(kind) PROVE IInv'
  BY <1>1, <1>6, CrashStep
<1>7. CASE UNCHANGED vars
  BY <1>1, <1>7 DEF vars, IInv, Exclusive, Checkpointed, Logged, Serving, Settled,
                    Recovering, Newest
<1> QED BY <1>2, <1>3, <1>4, <1>5, <1>6, <1>7 DEF Next

\* The invariant that relates the log, the durable log, the checkpoints and
\* the published snapshot at each point of commit, optimize and open holds at
\* all times.
THEOREM Inductive == ASSUME Benign PROVE Spec => []IInv
<1>1. Init => IInv
  BY InitInv
<1>2. IInv /\ [Next]_vars => IInv'
  BY InvStep
<1> QED BY <1>1, <1>2, PTL DEF Spec

\* At every moment, whatever a crash would leave in the directory restores
\* all that Database::commit has published: the order of append, sync and
\* publish in commit, and of rename, truncation and sweep in optimize.
THEOREM Durability == ASSUME Benign PROVE Spec => []SourceOfTruth
<1>1. IInv => SourceOfTruth
  <2> SUFFICES ASSUME IInv, NEW kind \in CrashKinds, NEW log \in WalImages(kind),
                      NEW listing \in DirectoryImages(kind)
               PROVE  Restores(log, listing, Newest)
    BY DEF SourceOfTruth
  <2> QED BY CrashImage, CrashListing
<1> QED BY <1>1, Inductive, PTL

\* Database::open, after any number of crashes at any moment, serves exactly
\* the newest generation that was ever published.
THEOREM Recovery == ASSUME Benign PROVE Spec => []NothingPublishedIsLost
<1>1. IInv => NothingPublishedIsLost
  BY DEF IInv, Serving, NothingPublishedIsLost
<1> QED BY <1>1, Inductive, PTL

\* read_wal never takes what a crash left for corruption.
THEOREM Openable == ASSUME Benign PROVE Spec => []AlwaysOpens
<1>1. IInv => AlwaysOpens
  BY DEF IInv, Recovering, AlwaysOpens
<1> QED BY <1>1, Inductive, PTL

-----------------------------------------------------------------------------
(* The refinement.                                                         *)

\* Where power may fail, the last sync left no whole frame of an unpublished
\* generation behind that recovery has cut off the log: what a crash brings
\* back was asked for by a call that was under way, or by nobody.
Covered ==
  "power" \in CrashKinds =>
    \A i \in Unpublished(durable) : i \in DOMAIN wal /\ wal[i] = durable[i]

RInv == IInv /\ Covered

-----------------------------------------------------------------------------
(* Drafts.                                                                 *)

\* The last operation on a row is the only one that no other follows.
LEMMA LastOnIs ==
  ASSUME NEW ops \in Seq(Operation), NEW r, NEW i \in DOMAIN ops,
         ops[i].row = r, \A j \in DOMAIN ops : ops[j].row = r => j <= i
  PROVE  LastOn(ops, r) = i
<1>1. DOMAIN ops = 1..Len(ops) /\ Len(ops) \in Nat
  BY LenProperties
<1>2. \E k \in DOMAIN ops : ops[k].row = r /\ \A j \in DOMAIN ops : ops[j].row = r => j <= k
  OBVIOUS
<1>3. /\ LastOn(ops, r) \in DOMAIN ops /\ ops[LastOn(ops, r)].row = r
      /\ \A j \in DOMAIN ops : ops[j].row = r => j <= LastOn(ops, r)
  BY <1>2 DEF LastOn
<1>4. i <= LastOn(ops, r) /\ LastOn(ops, r) <= i
  BY <1>3
<1> QED BY <1>1, <1>3, <1>4

\* A row that is named has a last operation.
LEMMA LastOnLast ==
  ASSUME NEW ops \in Seq(Operation), NEW r \in Touched(ops)
  PROVE  /\ LastOn(ops, r) \in DOMAIN ops /\ ops[LastOn(ops, r)].row = r
         /\ \A j \in DOMAIN ops : ops[j].row = r => j <= LastOn(ops, r)
<1> DEFINE S == {i \in DOMAIN ops : ops[i].row = r}
<1>1. S \in SUBSET (1..Len(ops)) /\ S # {} /\ Len(ops) \in Nat
  BY LenProperties DEF Touched
<1>2. PICK i \in S : \A j \in S : j <= i
  <2> HIDE DEF S
  <2> QED BY <1>1, Greatest
<1>3. /\ i \in DOMAIN ops /\ ops[i].row = r
      /\ \A j \in DOMAIN ops : ops[j].row = r => j <= i
  BY <1>2
<1> QED BY <1>3, LastOnIs

\* Transaction::push and canonicalize_operations: one more operation takes
\* the place of what the transaction did to its row before.
LEMMA PushIsPut ==
  ASSUME NEW ops \in Seq(Operation), NEW op \in Operation
  PROVE  Canonicalize(Append(ops, op)) = Store!Put(Canonicalize(ops), op.row, op.doc)
<1> DEFINE more == Append(ops, op)
<1>1. /\ more \in Seq(Operation) /\ Len(more) = Len(ops) + 1
      /\ \A i \in 1..Len(ops) : more[i] = ops[i]
      /\ more[Len(ops) + 1] = op
  BY AppendProperties
<1>2. /\ Len(ops) \in Nat /\ DOMAIN ops = 1..Len(ops)
      /\ DOMAIN more = 1..(Len(ops) + 1)
  BY <1>1, LenProperties
<1>3. \A i \in DOMAIN more : i \in DOMAIN ops \/ i = Len(ops) + 1
  BY <1>2
<1>4. DOMAIN ops \subseteq DOMAIN more /\ Len(ops) + 1 \in DOMAIN more
  BY <1>2
<1> HIDE DEF more
<1>5. Touched(more) = Touched(ops) \cup {op.row}
  BY <1>1, <1>2, <1>3, <1>4 DEF Touched
<1>6. LastOn(more, op.row) = Len(ops) + 1
  <2>1. \A j \in DOMAIN more : j <= Len(ops) + 1
    BY <1>2
  <2> QED BY <1>1, <1>4, <2>1, LastOnIs
<1>7. ASSUME NEW r \in Touched(ops), r # op.row
      PROVE  LastOn(more, r) = LastOn(ops, r) /\ LastOn(ops, r) \in DOMAIN ops
  <2>1. /\ LastOn(ops, r) \in DOMAIN ops /\ ops[LastOn(ops, r)].row = r
        /\ \A j \in DOMAIN ops : ops[j].row = r => j <= LastOn(ops, r)
    BY LastOnLast
  <2>2. /\ LastOn(ops, r) \in DOMAIN more /\ more[LastOn(ops, r)].row = r
        /\ \A j \in DOMAIN more : more[j].row = r => j <= LastOn(ops, r)
    BY <1>1, <1>2, <1>3, <1>4, <1>7, <2>1
  <2> QED BY <1>1, <2>1, <2>2, LastOnIs
<1>8. ASSUME NEW r \in Touched(more)
      PROVE  more[LastOn(more, r)].doc =
               IF r = op.row THEN op.doc ELSE Canonicalize(ops)[r]
  <2>1. CASE r = op.row
    BY <1>1, <1>6, <2>1
  <2>2. CASE r # op.row
    <3>1. r \in Touched(ops)
      BY <1>5, <2>2
    <3>2. LastOn(more, r) = LastOn(ops, r) /\ LastOn(ops, r) \in 1..Len(ops)
      BY <1>2, <1>7, <2>2, <3>1
    <3> QED BY <1>1, <2>2, <3>1, <3>2 DEF Canonicalize
  <2> QED BY <2>1, <2>2
<1>9. DOMAIN Canonicalize(ops) = Touched(ops)
  BY DEF Canonicalize
<1> QED BY <1>5, <1>8, <1>9 DEF Canonicalize, Store!Put, more

\* A transaction without operations changes no row.
LEMMA NothingPushed == Canonicalize(<<>>) = [r \in {} |-> Absent]
<1>1. Touched(<<>>) = {}
  BY DEF Touched
<1> QED BY <1>1 DEF Canonicalize

-----------------------------------------------------------------------------
(* The durable log.                                                        *)

\* The frames of the logs, with their types.
LEMMA Logs ==
  ASSUME IInv
  PROVE  /\ TypeOK /\ wal \in Seq(Frame) /\ durable \in Seq(Frame)
         /\ Len(wal) \in Nat /\ DOMAIN wal = 1..Len(wal)
         /\ \A i \in DOMAIN wal :
              /\ wal[i] \in Frame /\ wal[i].generation \in Nat
              /\ wal[i].size \in Nat /\ wal[i].have \in Nat
         /\ Len(durable) \in Nat /\ DOMAIN durable = 1..Len(durable)
         /\ \A i \in DOMAIN durable : durable[i].generation \in Nat
         /\ Newest \in Nat /\ Newest + 1 = Len(history)
<1>1. TypeOK /\ wal \in Seq(Frame) /\ durable \in Seq(Frame)
  BY DEF IInv, TypeInv, TypeOK
<1>2. Newest \in Nat /\ Newest + 1 = Len(history)
  BY <1>1, History
<1> QED BY <1>1, <1>2, Frames

\* An unpublished frame is the last one of the log, and the generation that
\* would be next.
LEMMA UnpublishedIsLast ==
  ASSUME IInv, NEW i \in DOMAIN wal, wal[i].generation > Newest
  PROVE  i = Len(wal) /\ wal[i].generation = Newest + 1 /\ wal # <<>>
<1>1. /\ wal \in Seq(Frame) /\ Chained(wal, history)
      /\ Newest \in Nat /\ Newest + 1 = Len(history) /\ Len(history) \in Nat \ {0}
      /\ wal[i].generation \in Nat /\ wal # <<>>
  BY Logs, Frames DEF IInv, Logged
<1>2. wal[i].generation <= Len(history) /\ (wal[i].generation = Len(history) => i = Len(wal))
  BY <1>1, ChainBound
<1> QED BY <1>1, <1>2

\* What a crash leaves of a log has no whole unpublished frame but those that
\* the log had.
LEMMA ImageCovered ==
  ASSUME RInv, NEW kind \in CrashKinds, NEW image \in WalImages(kind),
         NEW i \in Unpublished(image)
  PROVE  i \in Unpublished(wal) /\ wal[i] = image[i]
<1>1. /\ IInv /\ wal \in Seq(Frame) /\ image \in Seq(Frame)
      /\ Len(wal) \in Nat /\ DOMAIN wal = 1..Len(wal)
      /\ \A j \in DOMAIN wal : wal[j] \in Frame
      /\ i \in DOMAIN image /\ Whole(image[i]) /\ image[i].generation > Newest
  BY Logs, CrashImage DEF RInv, Unpublished
<1>2. CASE image = wal
  BY <1>2 DEF Unpublished
<1>3. CASE kind = "power" /\ image = durable
  BY <1>1, <1>3 DEF RInv, Covered, Unpublished
<1>4. ASSUME NEW n \in 0..Len(wal), image = SubSeq(wal, 1, n)
      PROVE  i \in DOMAIN wal /\ wal[i] = image[i]
  <2>1. Len(image) = n /\ \A j \in 1..n : image[j] = wal[j]
    BY <1>1, <1>4, Prefix
  <2>2. DOMAIN image = 1..n /\ 1..n \subseteq DOMAIN wal
    BY <1>1, <2>1, LenProperties
  <2> QED BY <1>1, <2>1, <2>2
<1>5. ASSUME NEW n \in 0..Len(wal), n # Len(wal), NEW f \in Damaged(wal[n + 1]),
             image = Append(SubSeq(wal, 1, n), f)
      PROVE  i \in DOMAIN wal /\ wal[i] = image[i]
  <2>1. /\ SubSeq(wal, 1, n) \in Seq(Frame) /\ Len(SubSeq(wal, 1, n)) = n
        /\ \A j \in 1..n : SubSeq(wal, 1, n)[j] = wal[j]
    BY <1>1, Prefix
  <2>2. n + 1 \in DOMAIN wal /\ n \in Nat
    BY <1>1, <1>5, Positions
  <2>3. f \in Frame /\ ~Whole(f)
    BY <1>1, <1>5, <2>2, DamagedType
  <2>4. /\ Len(image) = n + 1 /\ image[n + 1] = f
        /\ \A j \in 1..n : image[j] = wal[j]
    BY <1>5, <2>1, <2>3, AppendProperties
  <2>5. i \in 1..(n + 1) /\ i # n + 1
    BY <1>1, <2>3, <2>4, LenProperties
  <2>6. i \in 1..n /\ 1..n \subseteq DOMAIN wal
    BY <1>1, <2>2, <2>5
  <2> QED BY <2>4, <2>6
<1>6. kind \in {"process", "power"}
  BY EnvironmentAssumption
<1>7. \/ image = wal \/ (kind = "power" /\ image = durable)
      \/ \E n \in 0..Len(wal) : image = SubSeq(wal, 1, n)
      \/ \E n \in 0..Len(wal) : n # Len(wal) /\
           \E f \in Damaged(wal[n + 1]) : image = Append(SubSeq(wal, 1, n), f)
  BY <1>6 DEF WalImages, Kept
<1>8. i \in DOMAIN wal /\ wal[i] = image[i]
  BY <1>2, <1>3, <1>4, <1>5, <1>7 DEF Unpublished
<1> QED BY <1>1, <1>8 DEF Unpublished

\* Recovery cuts no whole frame off the log.
LEMMA CutIsTorn ==
  ASSUME IInv, ScanEnds
  PROVE  /\ \A i \in DOMAIN wal' : i \in DOMAIN wal /\ wal'[i] = wal[i]
         /\ \A i \in DOMAIN wal : Whole(wal[i]) => i \in DOMAIN wal'
<1>1. /\ phase = "scan" /\ wal' = SubSeq(wal, 1, cursor - 1)
      /\ cursor <= Len(wal) => Verdict(cursor) = "torn"
  BY DEF ScanEnds
<1>2. /\ wal \in Seq(Frame) /\ Len(wal) \in Nat /\ DOMAIN wal = 1..Len(wal)
      /\ cursor \in 1..(Len(wal) + 1)
  BY Logs DEF IInv, TypeInv, InFile
<1>3. cursor - 1 \in 0..Len(wal)
  BY <1>2
<1>4. /\ wal' \in Seq(Frame) /\ Len(wal') = cursor - 1
      /\ \A i \in 1..(cursor - 1) : wal'[i] = wal[i]
  BY <1>1, <1>2, <1>3, Prefix
<1>5. DOMAIN wal' = 1..(cursor - 1)
  BY <1>4, LenProperties
<1>6. cursor <= Len(wal) => cursor = Len(wal) /\ ~Whole(wal[cursor])
  <2>1. cursor <= Len(wal) => cursor \in DOMAIN wal
    BY <1>2
  <2> QED BY <1>1, <2>1, VerdictOfChain
<1>7. \A i \in DOMAIN wal : i < cursor => i \in DOMAIN wal'
  BY <1>2, <1>5
<1>8. ASSUME NEW i \in DOMAIN wal, Whole(wal[i])
      PROVE  i < cursor
  <2>1. CASE cursor <= Len(wal)
    BY <1>2, <1>6, <1>8, <2>1
  <2>2. CASE ~(cursor <= Len(wal))
    BY <1>2, <2>2
  <2> QED BY <2>1, <2>2
<1> QED BY <1>2, <1>3, <1>4, <1>5, <1>7, <1>8

\* Every step keeps the durable log covered.
LEMMA CoveredStep ==
  ASSUME Benign, RInv, IInv', [Next]_vars
  PROVE  Covered'
<1> SUFFICES ASSUME "power" \in CrashKinds, NEW i \in Unpublished(durable)'
             PROVE  i \in DOMAIN wal' /\ wal'[i] = durable'[i]
  BY DEF Covered
<1>1. /\ IInv /\ TypeOK /\ wal \in Seq(Frame)
      /\ Len(wal) \in Nat /\ DOMAIN wal = 1..Len(wal)
      /\ \A j \in DOMAIN wal : wal[j] \in Frame /\ wal[j].size \in Nat
      /\ \A j \in DOMAIN durable : durable[j].generation \in Nat
      /\ Newest \in Nat /\ Newest' \in Nat
  <2>1. TypeOK'
    BY DEF IInv, TypeInv
  <2>2. TypeOK' => Newest' \in Nat
    BY EmptySeq DEF TypeOK, Newest
  <2> QED BY <2>1, <2>2, Logs DEF RInv
<1>2. i \in DOMAIN durable' /\ Whole(durable'[i]) /\ durable'[i].generation > Newest'
  BY DEF Unpublished, Whole
<1>3. ASSUME durable' = durable, Newest <= Newest'
      PROVE  i \in Unpublished(durable) /\ i \in DOMAIN wal /\ wal[i] = durable[i]
  <2>1. durable[i].generation > Newest
    BY <1>1, <1>2, <1>3
  <2>2. i \in Unpublished(durable)
    BY <1>2, <1>3, <2>1 DEF Unpublished
  <2> QED BY <2>2 DEF RInv, Covered
<1>4. CASE UNCHANGED <<wal, durable, history>>
  <2>1. Newest' = Newest
    BY <1>4 DEF Newest
  <2> QED BY <1>1, <1>3, <1>4, <2>1
<1>5. CASE durable' = wal'
  BY <1>2, <1>5
<1>6. ASSUME NEW w \in Workers, AppendPart(w)
      PROVE  i \in DOMAIN wal' /\ wal'[i] = durable'[i]
  <2> PICK payload \in PayloadSizes :
        \E have \in 1..(HeaderUnits + payload - 1) :
          wal' = Append(wal, NewFrame(w, payload, have))
    BY <1>6 DEF AppendPart
  <2>1. PICK have \in 1..(HeaderUnits + payload - 1) :
          wal' = Append(wal, NewFrame(w, payload, have))
    OBVIOUS
  <2>2. have \in Nat
    BY BoundAssumption DEF HeaderUnits
  <2>3. NewFrame(w, payload, have) \in Frame
    BY <1>1, <2>2, NewFrameType
  <2>4. \A j \in DOMAIN wal : wal'[j] = wal[j] /\ j \in DOMAIN wal'
    <3>1. /\ Append(wal, NewFrame(w, payload, have)) \in Seq(Frame)
          /\ Len(Append(wal, NewFrame(w, payload, have))) = Len(wal) + 1
          /\ \A j \in 1..Len(wal) : Append(wal, NewFrame(w, payload, have))[j] = wal[j]
      BY <1>1, <2>3, AppendProperties
    <3>2. DOMAIN wal' = 1..(Len(wal) + 1)
      BY <2>1, <3>1, LenProperties
    <3> QED BY <1>1, <2>1, <3>1, <3>2
  <2>5. durable' = durable /\ Newest' = Newest
    BY <1>6 DEF AppendPart, Newest
  <2> QED BY <1>1, <1>3, <2>4, <2>5
<1>7. ASSUME NEW w \in Workers, AppendRest(w)
      PROVE  i \in DOMAIN wal' /\ wal'[i] = durable'[i]
  <2>1. durable' = durable /\ Newest' = Newest
        /\ wal' = [wal EXCEPT ![Len(wal)].have = wal[Len(wal)].size]
    BY <1>7 DEF AppendRest, Newest
  <2>2. i \in DOMAIN wal /\ wal[i] = durable[i] /\ Whole(wal[i])
    BY <1>1, <1>2, <1>3, <2>1
  <2>3. wal[i] \in Frame
    BY <1>1, <2>2
  <2>4. [wal[i] EXCEPT !.have = wal[i].size] = wal[i]
    BY <2>2, <2>3 DEF Whole, Frame
  <2> QED BY <2>1, <2>2, <2>4
<1>8. ASSUME NEW w \in Workers, Truncate(w)
      PROVE  i \in DOMAIN wal' /\ wal'[i] = durable'[i]
  <2>1. /\ phase = "ready" /\ pc[w] = "truncate" /\ durable' = durable /\ Newest' = Newest
    BY <1>8 DEF Truncate, Step, Newest
  <2>2. Settled
    <3>1. ASSUME NEW v \in Workers PROVE pc[v] \notin Writing
      <4>1. pc[w] \in Locked /\ pc[w] \notin Writing /\ Writing \subseteq Locked
        BY <2>1 DEF Locked, InOptimize, InCommit, Writing
      <4> QED BY <4>1 DEF RInv, IInv, Exclusive
    <3> QED BY <2>1, <3>1 DEF RInv, IInv, Serving
  <2>3. i \in DOMAIN wal /\ wal[i].generation > Newest /\ wal[i].generation \in Nat
    BY <1>1, <1>2, <1>3, <2>1, Logs
  <2> QED BY <1>1, <2>2, <2>3 DEF Settled
<1>9. CASE ScanEnds
  <2>1. durable' = durable /\ Newest' = Newest
    BY <1>9 DEF ScanEnds, Newest
  <2>2. i \in DOMAIN wal /\ wal[i] = durable[i] /\ Whole(wal[i])
    BY <1>1, <1>2, <1>3, <2>1
  <2> QED BY <1>1, <1>9, <2>1, <2>2, CutIsTorn
<1>10. ASSUME UNCHANGED <<wal, durable>>,
              \/ history' = history
              \/ \E next \in Table : history' = Append(history, next)
       PROVE  i \in DOMAIN wal' /\ wal'[i] = durable'[i]
  <2>1. ASSUME NEW next \in Table, history' = Append(history, next)
        PROVE  Newest' = Newest + 1
    <3>1. history \in Seq(Table)
      BY <1>1 DEF TypeOK
    <3>2. Len(history') = Len(history) + 1
      BY <2>1, <3>1, AppendProperties
    <3> QED BY <1>1, <3>2, Logs DEF Newest
  <2>2. history' = history => Newest' = Newest
    BY DEF Newest
  <2>3. Newest <= Newest'
    BY <1>1, <1>10, <2>1, <2>2
  <2> QED BY <1>3, <1>10, <2>3
<1>11. ASSUME NEW w \in Workers, Publish(w)
       PROVE  i \in DOMAIN wal' /\ wal'[i] = durable'[i]
  <2>1. UNCHANGED <<wal, durable>>
    BY <1>11 DEF Publish, diskVars
  <2>2. snapshot'.table \in Table /\ history' = Append(history, snapshot'.table)
    <3>1. TypeOK'
      BY DEF IInv, TypeInv
    <3>2. snapshot' \in Snapshot
      BY <3>1 DEF TypeOK
    <3> QED BY <1>11, <3>2 DEF Publish, Snapshot
  <2> QED BY <1>10, <2>1, <2>2
<1>12. CASE Serve
  <2>1. UNCHANGED <<wal, durable>>
    BY <1>12 DEF Serve, diskVars
  <2>2. snapshot.table \in Table
    BY <1>1 DEF TypeOK, Snapshot
  <2> QED BY <1>10, <1>12, <2>1, <2>2 DEF Serve
<1>13. ASSUME NEW kind \in CrashKinds, Crash(kind)
       PROVE  durable' = wal'
  <2>1. kind \in {"process", "power"}
    BY EnvironmentAssumption
  <2>2. kind = "power"
    BY <2>1 DEF Benign
  <2> QED BY <1>13, <2>2 DEF Crash
<1>14. ASSUME NEW w \in Workers, Calls(w)
       PROVE  UNCHANGED <<wal, durable, history>>
  BY <1>14 DEF Calls, Begin, Push, Rollback, CommitCall, OptimizeCall, diskVars
<1>15. ASSUME NEW w \in Workers, CommitSteps(w)
       PROVE  i \in DOMAIN wal' /\ wal'[i] = durable'[i]
  <2>1. CASE \/ LockCommit(w) \/ ExhaustedCommit(w) \/ AppendFails(w)
             \/ SyncFails(w) \/ CommitReturn(w)
    <3>1. UNCHANGED <<wal, durable, history>>
      BY <2>1 DEF LockCommit, ExhaustedCommit, AppendFails, SyncFails, CommitReturn, diskVars
    <3> QED BY <1>4, <3>1
  <2>2. CASE SyncWal(w)
    BY <1>5, <2>2 DEF SyncWal
  <2> QED BY <1>6, <1>7, <1>11, <1>15, <2>1, <2>2 DEF CommitSteps
<1>16. ASSUME NEW w \in Workers, OptimizeSteps(w)
       PROVE  i \in DOMAIN wal' /\ wal'[i] = durable'[i]
  <2>1. CASE \/ LockOptimize(w) \/ WriteTemp(w) \/ Rename(w) \/ Sweep(w)
             \/ OptimizeReturn(w) \/ OptimizeFails(w)
    <3>1. UNCHANGED <<wal, durable, history>>
      BY <2>1 DEF LockOptimize, WriteTemp, Rename, Sweep, OptimizeReturn, OptimizeFails,
                  diskVars
    <3> QED BY <1>4, <3>1
  <2>2. CASE SwapCompacted(w)
    BY <1>5, <2>2 DEF SwapCompacted
  <2> QED BY <1>8, <1>16, <2>1, <2>2 DEF OptimizeSteps
<1>17. CASE LoadCheckpoint \/ ScanFrame \/ ScanFails \/ ReplayFrame
  <2>1. UNCHANGED <<wal, durable, history>>
    BY <1>17 DEF LoadCheckpoint, ScanFrame, ScanFails, ReplayFrame, diskVars
  <2> QED BY <1>4, <2>1
<1>18. CASE UNCHANGED vars
  BY <1>4, <1>18 DEF vars
<1> QED BY <1>5, <1>9, <1>12, <1>13, <1>14, <1>4, <1>15, <1>16, <1>17, <1>18
        DEF Next, Open

-----------------------------------------------------------------------------
(* Steps.                                                                  *)

\* In every phase the newest published table is the one that is visible, so
\* a step that publishes nothing changes nothing that a reader may see.
LEMMA VisibleStays ==
  ASSUME IInv, IInv', history' = history
  PROVE  UNCHANGED <<Visible, VisibleGeneration>>
<1>1. Visible = history[Len(history)] /\ VisibleGeneration = Newest
  BY DEF Visible, VisibleGeneration, IInv, Serving
<1>2. Visible' = history'[Len(history')] /\ VisibleGeneration' = Newest'
  BY DEF Visible, VisibleGeneration, IInv, Serving
<1> QED BY <1>1, <1>2 DEF Newest

\* A thread goes on without asking for anything or taking it back.
LEMMA QuietThread ==
  ASSUME IInv, IInv', NEW w \in Workers, NEW from, NEW to, Step(w, from, to),
         UNCHANGED <<phase, operations, history>>,
         from \in Asked <=> to \in Asked,
         from # "commitReturn", to # "commitReturn"
  PROVE  UNCHANGED Store!storeVars
<1>1. pc \in [Workers -> PcValues] /\ phase = "ready" /\ pc[w] = from
      /\ pc' = [pc EXCEPT ![w] = to]
  BY DEF IInv, TypeInv, TypeOK, Step
<1>2. \A v \in Workers : /\ pc'[v] \in Asked <=> pc[v] \in Asked
                         /\ pc'[v] = "commitReturn" <=> pc[v] = "commitReturn"
  BY <1>1
<1>3. InFlight' = InFlight
  BY <1>2 DEF InFlight
<1>4. Draft' = Draft
  BY <1>2 DEF Draft
<1>5. Leftover' = Leftover
  BY <1>1 DEF Leftover
<1> QED BY <1>1, <1>3, <1>4, <1>5, VisibleStays DEF Store!storeVars

\* A call returns: what the thread had put together is forgotten, if it was
\* not published.
LEMMA ReturnForgets ==
  ASSUME IInv, IInv', NEW w \in Workers, NEW from, Return(w, from),
         UNCHANGED <<phase, history>>
  PROVE  Store!Forget(w)
<1>1. /\ pc \in [Workers -> PcValues] /\ operations \in [Workers -> Seq(Operation)]
      /\ phase = "ready"
      /\ pc' = [pc EXCEPT ![w] = "idle"]
      /\ operations' = [operations EXCEPT ![w] = <<>>]
  BY DEF IInv, TypeInv, TypeOK, Return, Step
<1>2. /\ pc'[w] = "idle" /\ operations'[w] = <<>>
      /\ \A v \in Workers \ {w} : pc'[v] = pc[v] /\ operations'[v] = operations[v]
  BY <1>1
<1>3. InFlight' = InFlight \ {w}
  BY <1>2 DEF InFlight, Asked
<1>4. Draft' = [Draft EXCEPT ![w] = Store!Nothing]
  BY <1>2, NothingPushed DEF Draft, Store!Nothing
<1>5. Leftover' = Leftover
  BY <1>1 DEF Leftover
<1> QED BY <1>1, <1>3, <1>4, <1>5, VisibleStays DEF Store!Forget

\* Transaction::upsert and delete write to the draft.
LEMMA PushWrites ==
  ASSUME IInv, IInv', NEW w \in Workers, Push(w)
  PROVE  Store!Write(w)
<1>1. /\ pc \in [Workers -> PcValues] /\ operations \in [Workers -> Seq(Operation)]
      /\ phase = "ready" /\ phase' = phase /\ history' = history
      /\ pc[w] = "building" /\ pc' = [pc EXCEPT ![w] = "building"]
  BY DEF IInv, TypeInv, TypeOK, Push, Step, openVars
<1>2. PICK op \in Operation : operations' = [operations EXCEPT ![w] = Append(@, op)]
  BY DEF Push
<1>3. pc' = pc
  BY <1>1
<1>4. /\ operations'[w] = Append(operations[w], op)
      /\ \A v \in Workers \ {w} : operations'[v] = operations[v]
      /\ operations[w] \in Seq(Operation)
  BY <1>1, <1>2
<1>5. op.row \in Rows /\ op.doc \in Docs \cup {BadDoc, Absent}
  BY DEF Operation
<1>6. Draft' = [Draft EXCEPT ![w] = Store!Put(@, op.row, op.doc)]
  <2>1. Canonicalize(operations'[w]) = Store!Put(Canonicalize(operations[w]), op.row, op.doc)
    BY <1>4, PushIsPut
  <2> QED BY <1>1, <1>3, <1>4, <2>1 DEF Draft
<1>7. w \notin InFlight /\ InFlight' = InFlight /\ Leftover' = Leftover
  BY <1>1, <1>3 DEF InFlight, Asked, Leftover
<1> QED BY <1>1, <1>5, <1>6, <1>7, VisibleStays DEF Store!Write

\* Transaction::commit asks for a draft that is not empty and was validated.
LEMMA CommitRequests ==
  ASSUME IInv, IInv', NEW w \in Workers, CommitCall(w)
  PROVE  Store!Request(w)
<1>1. /\ pc \in [Workers -> PcValues] /\ operations \in [Workers -> Seq(Operation)]
      /\ phase = "ready" /\ phase' = phase /\ history' = history
      /\ operations' = operations /\ operations[w] # <<>> /\ Valid(operations[w])
      /\ pc[w] = "building" /\ pc' = [pc EXCEPT ![w] = "commitLock"]
  BY DEF IInv, TypeInv, TypeOK, CommitCall, Step, openVars
<1>2. pc'[w] = "commitLock" /\ \A v \in Workers \ {w} : pc'[v] = pc[v]
  BY <1>1
<1>3. InFlight' = InFlight \cup {w} /\ w \notin InFlight
  BY <1>1, <1>2 DEF InFlight, Asked
<1>4. Draft' = Draft /\ Draft[w] = Canonicalize(operations[w])
  BY <1>1, <1>2 DEF Draft
<1>5. Draft[w] # Store!Nothing
  <2>1. operations[w] \in Seq(Operation)
    BY <1>1
  <2>2. 1 \in DOMAIN operations[w]
    BY <1>1, <2>1, EmptySeq, LenProperties
  <2>3. operations[w][1].row \in DOMAIN Draft[w]
    BY <1>4, <2>2 DEF Canonicalize, Touched
  <2>4. DOMAIN Store!Nothing = {}
    BY DEF Store!Nothing
  <2> QED BY <2>3, <2>4
<1>6. \A r \in DOMAIN Draft[w] : Draft[w][r] # BadDoc
  BY <1>1, <1>4, CanonicalizeType
<1>7. Leftover' = Leftover
  BY <1>1 DEF Leftover
<1> QED BY <1>1, <1>3, <1>4, <1>5, <1>6, <1>7, VisibleStays DEF Store!Request

\* Publishing carries the draft out.
LEMMA PublishCommits ==
  ASSUME IInv, IInv', NEW w \in Workers, Publish(w)
  PROVE  Store!Commit(w)
<1>1. /\ pc \in [Workers -> PcValues]
      /\ phase = "ready" /\ phase' = phase /\ operations' = operations
      /\ pc[w] = "publish" /\ pc' = [pc EXCEPT ![w] = "commitReturn"]
      /\ snapshot' = [generation |-> snapshot.generation + 1,
                      table |-> Apply(snapshot.table, Canonicalize(operations[w]))]
  BY DEF IInv, TypeInv, TypeOK, Publish, Step, openVars
<1>2. pc'[w] = "commitReturn" /\ \A v \in Workers \ {w} : pc'[v] = pc[v]
  BY <1>1
<1>3. InFlight' = InFlight \ {w} /\ w \in InFlight
  BY <1>1, <1>2 DEF InFlight, Asked
<1>4. /\ Draft[w] = Canonicalize(operations[w])
      /\ Draft' = [Draft EXCEPT ![w] = Store!Nothing]
  BY <1>1, <1>2 DEF Draft, Store!Nothing
<1>5. Store!CarryOut(Draft[w])
  BY <1>1, <1>4 DEF Store!CarryOut, Store!Changed, Apply, Visible, VisibleGeneration
<1>6. Leftover' = Leftover
  BY <1>1 DEF Leftover
<1> QED BY <1>1, <1>3, <1>4, <1>5, <1>6 DEF Store!Commit

\* Recovery reads, cuts a torn tail and replays without anything to see.
LEMMA OpeningStays ==
  ASSUME IInv, IInv', LoadCheckpoint \/ ScanFrame \/ ScanEnds \/ ReplayFrame
  PROVE  UNCHANGED Store!storeVars
<1>1. /\ phase # "ready" /\ phase' # "ready"
      /\ UNCHANGED <<pc, operations, history>>
  BY DEF LoadCheckpoint, ScanFrame, ScanEnds, ReplayFrame, threadVars
<1>2. InFlight' = InFlight /\ Draft' = Draft /\ Newest' = Newest
  BY <1>1 DEF InFlight, Draft, Newest
<1>3. {wal'[i].tx : i \in Unpublished(wal)'} = {wal[i].tx : i \in Unpublished(wal)}
  <2>1. CASE wal' = wal
    BY <1>2, <2>1 DEF Unpublished
  <2>2. CASE ScanEnds
    <3>1. /\ \A i \in DOMAIN wal' : i \in DOMAIN wal /\ wal'[i] = wal[i]
          /\ \A i \in DOMAIN wal : Whole(wal[i]) => i \in DOMAIN wal'
      BY <2>2, CutIsTorn
    <3>2. Unpublished(wal)' = {i \in DOMAIN wal' : Whole(wal'[i]) /\ wal'[i].generation > Newest}
      BY <1>2 DEF Unpublished, Whole
    <3>3. Unpublished(wal)' = Unpublished(wal)
      BY <3>1, <3>2 DEF Unpublished
    <3>4. \A i \in Unpublished(wal) : wal'[i] = wal[i]
      BY <3>1, <3>2, <3>3
    <3> QED BY <3>3, <3>4
  <2> QED BY <2>1, <2>2 DEF LoadCheckpoint, ScanFrame, ReplayFrame, diskVars
<1>4. Leftover' = Leftover
  BY <1>1, <1>3 DEF Leftover
<1> QED BY <1>1, <1>2, <1>4, VisibleStays DEF Store!storeVars

\* Database::open returns, with what the log held beyond the newest
\* generation carried out.
LEMMA ServeReopens ==
  ASSUME IInv, IInv', Serve
  PROVE  Store!Reopen
<1>1. /\ phase = "replay" /\ cursor > Len(wal) /\ phase' = "ready"
      /\ UNCHANGED <<pc, operations, wal, snapshot>>
      /\ history' = IF snapshot.generation = Len(history)
                    THEN Append(history, snapshot.table) ELSE history
  BY DEF Serve, diskVars, threadVars
<1>2. InFlight' = InFlight /\ Draft' = Draft /\ Leftover' = {}
  BY <1>1 DEF InFlight, Draft, Leftover
<1>3. Visible = history[Len(history)] /\ VisibleGeneration = Newest
  BY <1>1 DEF Visible, VisibleGeneration
<1>4. Visible' = snapshot.table /\ VisibleGeneration' = snapshot.generation
  BY <1>1 DEF Visible, VisibleGeneration
<1>5. CASE snapshot.generation = Len(history)
  <2>1. /\ Newest \in Nat /\ Newest + 1 = Len(history)
        /\ Len(wal) \in Nat /\ DOMAIN wal = 1..Len(wal) /\ wal \in Seq(Frame)
    BY Logs
  <2>2. /\ wal # <<>> /\ wal[Len(wal)].generation = Newest + 1
        /\ snapshot.table = Apply(history[Len(history)], wal[Len(wal)].tx)
        /\ \A i \in DOMAIN wal : Whole(wal[i])
    BY <1>1, <1>5, <2>1 DEF IInv, Recovering
  <2>3. Len(wal) \in DOMAIN wal
    BY <2>1, <2>2, EmptySeq
  <2>4. Len(wal) \in Unpublished(wal)
    BY <2>1, <2>2, <2>3 DEF Unpublished
  <2>5. wal[Len(wal)].tx \in Leftover
    BY <1>1, <2>4 DEF Leftover
  <2>6. Store!CarryOut(wal[Len(wal)].tx)
    BY <1>3, <1>4, <1>5, <2>1, <2>2 DEF Store!CarryOut, Store!Changed, Apply
  <2> QED BY <1>1, <1>2, <2>5, <2>6 DEF Store!Reopen
<1>6. CASE snapshot.generation # Len(history)
  <2>1. history' = history
    BY <1>1, <1>6
  <2> QED BY <1>1, <1>2, <2>1, VisibleStays DEF Store!Reopen
<1> QED BY <1>5, <1>6

\* A crash closes the store, and leaves over what was asked for as far as a
\* whole frame of it is in what the crash leaves of the log.
LEMMA CrashCloses ==
  ASSUME RInv, IInv', NEW kind \in CrashKinds, Crash(kind)
  PROVE  Store!Close
<1>1. /\ phase' = "closed" /\ history' = history /\ wal' \in WalImages(kind)
      /\ pc' = [w \in Workers |-> "idle"]
      /\ operations' = [w \in Workers |-> <<>>]
  BY DEF Crash
<1>2. IInv
  BY DEF RInv
<1>3. Draft' = [w \in Workers |-> Store!Nothing] /\ InFlight' = {}
  BY <1>1, NothingPushed DEF Draft, InFlight, Asked, Store!Nothing
<1>4. ASSUME NEW i \in Unpublished(wal')
      PROVE  wal'[i].tx \in Leftover \cup {Draft[w] : w \in InFlight}
  <2>1. i \in Unpublished(wal) /\ wal[i] = wal'[i]
    BY <1>1, <1>4, ImageCovered
  <2>2. CASE phase # "ready"
    BY <2>1, <2>2 DEF Leftover
  <2>3. CASE phase = "ready"
    <3>1. i \in DOMAIN wal /\ wal[i].generation > Newest
      BY <2>1 DEF Unpublished
    <3>2. i = Len(wal)
      BY <1>2, <3>1, UnpublishedIsLast
    <3>3. ~Settled
      BY <1>2, <3>1, Logs DEF Settled
    <3>4. PICK w \in Workers : pc[w] \in Writing
      BY <1>2, <2>3, <3>3 DEF IInv, Serving
    <3>5. wal[Len(wal)].tx = Canonicalize(operations[w])
      BY <1>2, <2>3, <3>4 DEF IInv, Serving
    <3>6. w \in InFlight /\ Draft[w] = Canonicalize(operations[w])
      BY <3>4 DEF InFlight, Asked, Writing, Draft
    <3> QED BY <2>1, <3>2, <3>5, <3>6
  <2> QED BY <2>2, <2>3
<1>5. Leftover' = {wal'[i].tx : i \in Unpublished(wal')}
  <2>1. Unpublished(wal)' = Unpublished(wal')
    BY <1>1 DEF Unpublished, Newest, Whole
  <2> QED BY <1>1, <2>1 DEF Leftover
<1>6. Leftover' \in SUBSET (Leftover \cup {Draft[w] : w \in InFlight})
  BY <1>4, <1>5
<1> QED BY <1>1, <1>2, <1>3, <1>6, VisibleStays DEF Store!Close

-----------------------------------------------------------------------------
(* The refinement.                                                         *)

\* A new directory is an empty store.
LEMMA InitImplements == Init => RInv /\ Store!Init
<1> SUFFICES ASSUME Init PROVE RInv /\ Store!Init
  OBVIOUS
<1>1. /\ wal = <<>> /\ durable = <<>> /\ phase = "closed" /\ history = <<Empty>>
      /\ pc = [w \in Workers |-> "idle"]
      /\ operations = [w \in Workers |-> <<>>]
  BY DEF Init
<1>2. DOMAIN wal = {} /\ DOMAIN durable = {}
  BY <1>1
<1>3. RInv
  BY <1>2, InitInv DEF RInv, Covered, Unpublished
<1>4. Visible = Empty /\ VisibleGeneration = 0
  BY <1>1 DEF Visible, VisibleGeneration, Newest
<1>5. Draft = [w \in Workers |-> Store!Nothing] /\ InFlight = {}
  BY <1>1, NothingPushed DEF Draft, InFlight, Asked, Store!Nothing
<1>6. Leftover = {}
  BY <1>1, <1>2 DEF Leftover, Unpublished
<1> QED BY <1>1, <1>3, <1>4, <1>5, <1>6 DEF Store!Init, Empty

\* Every step of the engine is a step of the store, or changes nothing there.
LEMMA StepImplements ==
  Benign /\ RInv /\ [Next]_vars => RInv' /\ [Store!Next]_(Store!storeVars)
<1> SUFFICES ASSUME Benign, RInv, [Next]_vars
             PROVE  RInv' /\ [Store!Next]_(Store!storeVars)
  OBVIOUS
<1>1. IInv /\ IInv' /\ RInv'
  BY InvStep, CoveredStep DEF RInv
<1>2. ASSUME NEW w \in Workers, Calls(w)
      PROVE  [Store!Next]_(Store!storeVars)
  <2>1. CASE Begin(w)
    BY <1>1, <2>1, QuietThread DEF Begin, openVars, Asked
  <2>2. CASE Push(w)
    BY <1>1, <2>2, PushWrites DEF Store!Next
  <2>3. CASE Rollback(w)
    BY <1>1, <2>3, ReturnForgets DEF Rollback, openVars, Store!Next
  <2>4. CASE CommitCall(w)
    BY <1>1, <2>4, CommitRequests DEF Store!Next
  <2>5. CASE OptimizeCall(w)
    BY <1>1, <2>5, QuietThread DEF OptimizeCall, openVars, Asked
  <2> QED BY <1>2, <2>1, <2>2, <2>3, <2>4, <2>5 DEF Calls
<1>3. ASSUME NEW w \in Workers, CommitSteps(w)
      PROVE  [Store!Next]_(Store!storeVars)
  <2>1. ~AppendFails(w) /\ ~SyncFails(w)
    BY DEF Benign, AppendFails, SyncFails
  <2>2. CASE LockCommit(w)
    BY <1>1, <2>2, QuietThread DEF LockCommit, openVars, Asked
  <2>3. CASE ExhaustedCommit(w)
    BY <1>1, <2>3, ReturnForgets DEF ExhaustedCommit, openVars, Store!Next
  <2>4. CASE AppendPart(w)
    BY <1>1, <2>4, QuietThread DEF AppendPart, openVars, Asked
  <2>5. CASE AppendRest(w)
    BY <1>1, <2>5, QuietThread DEF AppendRest, openVars, Asked
  <2>6. CASE SyncWal(w)
    BY <1>1, <2>6, QuietThread DEF SyncWal, openVars, Asked
  <2>7. CASE Publish(w)
    BY <1>1, <2>7, PublishCommits DEF Store!Next
  <2>8. CASE CommitReturn(w)
    BY <1>1, <2>8, ReturnForgets DEF CommitReturn, openVars, Store!Next
  <2> QED BY <1>3, <2>1, <2>2, <2>3, <2>4, <2>5, <2>6, <2>7, <2>8 DEF CommitSteps
<1>4. ASSUME NEW w \in Workers, OptimizeSteps(w)
      PROVE  [Store!Next]_(Store!storeVars)
  <2>1. CASE LockOptimize(w)
    BY <1>1, <2>1, QuietThread DEF LockOptimize, openVars, Asked
  <2>2. CASE WriteTemp(w)
    BY <1>1, <2>2, QuietThread DEF WriteTemp, openVars, Asked
  <2>3. CASE Rename(w)
    BY <1>1, <2>3, QuietThread DEF Rename, openVars, Asked
  <2>4. CASE Truncate(w)
    BY <1>1, <2>4, QuietThread DEF Truncate, openVars, Asked
  <2>5. CASE SwapCompacted(w)
    BY <1>1, <2>5, QuietThread DEF SwapCompacted, openVars, Asked
  <2>6. CASE Sweep(w)
    BY <1>1, <2>6, QuietThread DEF Sweep, openVars, Asked
  <2>7. CASE OptimizeReturn(w) \/ OptimizeFails(w)
    <3>1. \E from : Return(w, from)
      BY <2>7 DEF OptimizeReturn, OptimizeFails
    <3>2. UNCHANGED <<phase, history>>
      BY <2>7 DEF OptimizeReturn, OptimizeFails, openVars
    <3>3. Store!Forget(w)
      BY <1>1, <3>1, <3>2, ReturnForgets
    <3> QED BY <3>3 DEF Store!Next
  <2> QED BY <1>4, <2>1, <2>2, <2>3, <2>4, <2>5, <2>6, <2>7 DEF OptimizeSteps
<1>5. CASE Open
  <2>1. ~ScanFails
    BY <1>1 DEF ScanFails, IInv, Recovering
  <2>2. CASE Serve
    BY <1>1, <2>2, ServeReopens DEF Store!Next
  <2> QED BY <1>1, <1>5, <2>1, <2>2, OpeningStays DEF Open
<1>6. ASSUME NEW kind \in CrashKinds, Crash(kind)
      PROVE  [Store!Next]_(Store!storeVars)
  BY <1>1, <1>6, CrashCloses DEF Store!Next
<1>7. CASE UNCHANGED vars
  <2>1. InFlight' = InFlight /\ Draft' = Draft
    BY <1>7 DEF vars, InFlight, Draft
  <2>2. Unpublished(wal)' = Unpublished(wal)
    BY <1>7 DEF vars, Unpublished, Newest
  <2>3. Leftover' = Leftover
    BY <1>7, <2>2 DEF vars, Leftover
  <2> QED BY <1>1, <1>7, <2>1, <2>3, VisibleStays DEF vars, Store!storeVars
<1> QED BY <1>1, <1>2, <1>3, <1>4, <1>5, <1>6, <1>7 DEF Next

\* Transactions are atomic, durable, ordered and carried out at most once:
\* every behaviour of the storage engine, with its crashes at any moment and
\* every step of Database::open, is a behaviour of the abstract store.
THEOREM Implements == ASSUME Benign PROVE Spec => ImplementsStore
<1>1. Init => RInv /\ Store!Init
  BY InitImplements
<1>2. RInv /\ [Next]_vars => RInv' /\ [Store!Next]_(Store!storeVars)
  BY StepImplements
<1> QED BY <1>1, <1>2, PTL DEF Spec, ImplementsStore, Store!Spec

===============================================================================
