-------------------------- MODULE HookQueueProofs ---------------------------
(***************************************************************************)
(* Proofs about HookQueue for every number of runs, events, failures and   *)
(* every size limit and retention: the types, in every deployment, and     *)
(* the inductive invariant Durability in every serial one, from which      *)
(* NoLoss and MarkSound follow.                                            *)
(***************************************************************************)
EXTENDS HookQueueInd, SequenceTheorems, TLAPS

(***************************************************************************)
(* Sequences of records.                                                   *)
(***************************************************************************)

\* A file that may be missing is read as a sequence of records.
LEMMA BytesType ==
  ASSUME NEW f \in Seq(Nat) \cup {NoFile}
  PROVE  Bytes(f) \in Seq(Nat)
BY EmptySeq DEF Bytes

\* Any stretch of a sequence of records is one, too.
LEMMA SubSeqType ==
  ASSUME NEW S, NEW s \in Seq(S), NEW m \in Nat \ {0}, NEW n \in Nat, n <= Len(s)
  PROVE  SubSeq(s, m, n) \in Seq(S)
<1>1. \A i \in m .. n : s[i] \in S
  BY ElementOfSeq, LenProperties
<1>. QED
  BY <1>1, SubSeqProperties

\* The watermark is cut to the length of the queue.
LEMMA LesserBounds ==
  ASSUME NEW m \in Nat, NEW n \in Nat
  PROVE  Lesser(m, n) \in 0 .. n /\ Lesser(m, n) <= m
BY DEF Lesser

\* Stripping the archived prefix leaves a sequence of records.
LEMMA StripArchivedType ==
  ASSUME NEW s \in Seq(Nat), NEW t \in Seq(Nat)
  PROVE  StripArchived(s, t) \in Seq(Nat)
BY SubSeqType, LenProperties DEF StripArchived, StartsWith

\* The last archive is a sequence of records, the empty one if there is none.
LEMMA LastArchiveType ==
  ASSUME archives \in Seq(Seq(Nat))
  PROVE  LastArchive \in Seq(Nat)
<1>1. CASE archives = <<>>
  BY <1>1, EmptySeq DEF LastArchive
<1>2. CASE archives # <<>>
  <2>1. Len(archives) \in 1 .. Len(archives)
    BY <1>2, EmptySeq, LenProperties
  <2>. QED
    BY <1>2, <2>1, ElementOfSeq DEF LastArchive
<1>. QED
  BY <1>1, <1>2

\* Pruning leaves a sequence of archives.
LEMMA NewestType ==
  ASSUME NEW S, NEW s \in Seq(S), NEW n \in Nat
  PROVE  Newest(s, n) \in Seq(S)
<1>. DEFINE first == Len(s) - Lesser(n, Len(s)) + 1
<1>1. Len(s) \in Nat
  BY LenProperties
<1>2. first \in Nat \ {0}
  <2>1. Lesser(n, Len(s)) \in 0 .. Len(s)
    BY <1>1, LesserBounds
  <2>. QED
    BY <1>1, <2>1
<1>3. SubSeq(s, first, Len(s)) \in Seq(S)
  BY <1>1, <1>2, SubSeqType
<1>. QED
  BY <1>3 DEF Newest

----------------------------------------------------------------------------
(***************************************************************************)
(* Type correctness and mutual exclusion.                                  *)
(***************************************************************************)

\* The initial state has the type.
LEMMA TypeInit == Init => TypeOK
BY HookQueueAssumption, EmptySeq
DEF Init, TypeOK, NoRotation, RotStates, NewReader, ReaderStates, Labels,
    Locked, RecoverLabels, RotateLabels, IngestLabels

\* A process that moves from an unlocked label to an unlocked one leaves the
\* lock as it is.
LEMMA StepUnlocked ==
  ASSUME TypeOK, NEW p \in Procs, NEW l \in Labels \ Locked, pc[p] \notin Locked,
         Goto(p, l), lock' = lock
  PROVE  /\ pc' \in [Procs -> Labels]
         /\ lock' \in Procs \cup {NoProc}
         /\ \A q \in Procs : pc'[q] \in Locked <=> lock' = q
BY DEF TypeOK, Goto

\* The lock holder goes on under the lock.
LEMMA StepLocked ==
  ASSUME TypeOK, NEW p \in Procs, NEW l \in Labels \cap Locked, pc[p] \in Locked,
         Goto(p, l), lock' = lock
  PROVE  /\ pc' \in [Procs -> Labels]
         /\ lock' \in Procs \cup {NoProc}
         /\ \A q \in Procs : pc'[q] \in Locked <=> lock' = q
BY DEF TypeOK, Goto

\* A process takes the free lock.
LEMMA StepAcquire ==
  ASSUME TypeOK, NEW p \in Procs, NEW l \in Labels \cap Locked, lock = NoProc,
         Goto(p, l), lock' = p
  PROVE  /\ pc' \in [Procs -> Labels]
         /\ lock' \in Procs \cup {NoProc}
         /\ \A q \in Procs : pc'[q] \in Locked <=> lock' = q
BY HookQueueAssumption DEF TypeOK, Goto

\* The lock holder gives the lock back.
LEMMA StepRelease ==
  ASSUME TypeOK, NEW p \in Procs, NEW l \in Labels \ Locked, pc[p] \in Locked,
         Goto(p, l), lock' = NoProc
  PROVE  /\ pc' \in [Procs -> Labels]
         /\ lock' \in Procs \cup {NoProc}
         /\ \A q \in Procs : pc'[q] \in Locked <=> lock' = q
BY HookQueueAssumption DEF TypeOK, Goto

\* The labels of each kind.
LEMMA LabelKinds ==
  /\ {"idle", "open", "read", "record", "recover", "rotate", "prune"}
       \subseteq Labels \ Locked
  /\ {"restoreMark", "dropRest", "merge", "mergeWrite", "dropMerged",
      "clearState", "prepare", "zeroMark", "archive", "markArchived",
      "restore", "clear"} \subseteq Labels \cap Locked
BY DEF Labels, Locked, RecoverLabels, RotateLabels, IngestLabels

\* A run leaves recovery at a label outside the locked sections.
LEMMA AfterRecoveryKind ==
  ASSUME NEW p
  PROVE  AfterRecovery(p) \in Labels \ Locked /\ Entry(p) \in Labels \ Locked
BY LabelKinds DEF AfterRecovery, Entry

\* What a reader holds when the file under it is renamed.
LEMMA DetachedType ==
  ASSUME TypeOK
  PROVE  Detached \in [Ingesters -> ReaderStates]
<1>1. Bytes(queue) \in Seq(Nat)
  BY BytesType DEF TypeOK
<1>. QED
  BY <1>1 DEF Detached, TypeOK, ReaderStates

\* A fresh read loop has its type.
LEMMA NewReaderType == NewReader \in ReaderStates
BY DEF NewReader, ReaderStates

\* Replacing the read loop of one run keeps the type.
LEMMA ReaderUpdateType ==
  ASSUME NEW r \in ReaderStates, NEW n \in Nat, NEW b \in BOOLEAN, NEW d \in Nat
  PROVE  [r EXCEPT !.pos = n, !.bad = b, !.done = d] \in ReaderStates
BY DEF ReaderStates

\* Every step of recovery preserves the types.
LEMMA TypeRecover ==
  ASSUME TypeOK, NEW p \in Procs, Recover(p)
  PROVE  TypeOK'
<1>. USE DEF TypeOK, At, files, db
<1>1. CASE LockRecovery(p)
  <2>1. CASE lock' = lock /\ Goto(p, AfterRecovery(p))
    BY <1>1, <2>1, StepUnlocked, LabelKinds, AfterRecoveryKind
    DEF LockRecovery
  <2>2. CASE lock = NoProc /\ lock' = p
             /\ Goto(p, IF rot.phase = "prepared" THEN "restoreMark" ELSE "merge")
    BY <1>1, <2>2, StepAcquire, LabelKinds DEF LockRecovery
  <2>. QED
    BY <1>1, <2>1, <2>2 DEF LockRecovery
<1>2. CASE RestoreMark(p)
  BY <1>2, StepLocked, LabelKinds DEF RestoreMark, RotStates
<1>3. CASE DropRest(p)
  BY <1>3, StepLocked, LabelKinds DEF DropRest
<1>4. CASE MergeTruncate(p)
  <2>1. merged' \in Seq(Nat)
    BY <1>4, StripArchivedType, LastArchiveType, ConcatProperties
    DEF MergeTruncate
  <2>2. queue' \in Seq(Nat)
    BY <1>4, EmptySeq DEF MergeTruncate
  <2>. QED
    BY <1>4, <2>1, <2>2, StepLocked, LabelKinds DEF MergeTruncate
<1>5. CASE MergeWrite(p)
  BY <1>5, StepLocked, LabelKinds DEF MergeWrite
<1>6. CASE DropMerged(p)
  BY <1>6, StepLocked, LabelKinds DEF DropMerged
<1>7. CASE MoveRest(p)
  BY <1>7, StepLocked, LabelKinds DEF MoveRest
<1>8. CASE NothingToMerge(p)
  BY <1>8, StepLocked, LabelKinds DEF NothingToMerge
<1>9. CASE ClearState(p)
  <2>1. rot' \in RotStates
    BY <1>9 DEF ClearState, RotStates, NoRotation
  <2>. QED
    BY <1>9, <2>1, StepRelease, LabelKinds, AfterRecoveryKind DEF ClearState
<1>. QED
  BY <1>1, <1>2, <1>3, <1>4, <1>5, <1>6, <1>7, <1>8, <1>9 DEF Recover

\* Every step of an ingest run preserves the types.
LEMMA TypeIngest ==
  ASSUME TypeOK, NEW i \in Ingesters, IngestStart(i) \/ Ingest(i)
  PROVE  TypeOK'
<1>. USE DEF TypeOK, At, files, db, Procs
<1>1. CASE IngestStart(i)
  BY <1>1, StepUnlocked, LabelKinds, AfterRecoveryKind DEF IngestStart
<1>2. CASE Recover(i)
  BY <1>2, TypeRecover
<1>3. CASE IngestOpen(i)
  BY <1>3, StepUnlocked, LabelKinds, NewReaderType DEF IngestOpen
<1>4. CASE IngestLine(i)
  <2>. DEFINE line == reader[i].pos + 1
              e == FileOf(i)[line]
              bad == reader[i].bad \/ e \in Malformed
  <2>1. FileOf(i) \in Seq(Nat)
    BY BytesType DEF FileOf, ReaderStates
  <2>2. line \in Nat /\ line \in 1 .. Len(FileOf(i))
    <3>1. reader[i].pos \in Nat
      BY DEF ReaderStates
    <3>2. reader[i].pos < Len(FileOf(i))
      BY <1>4 DEF IngestLine
    <3>. QED
      BY <2>1, <3>1, <3>2, LenProperties
  <2>3. e \in Nat
    BY <2>1, <2>2, ElementOfSeq
  <2>4. stored' \subseteq Nat \X Nat /\ quarantined' \subseteq Nat \X Nat
    BY SMTT(30), <1>4, <2>2, <2>3 DEF IngestLine
  <2>5. reader' \in [Ingesters -> ReaderStates]
    <3>. DEFINE r == reader[i]
                next == [r EXCEPT !.pos = line, !.bad = bad,
                                  !.done = IF bad THEN r.done ELSE line]
    <3>1. r \in ReaderStates
      OBVIOUS
    <3>2. bad \in BOOLEAN /\ (IF bad THEN r.done ELSE line) \in Nat
      BY <2>2, <3>1 DEF ReaderStates
    <3>3. next \in ReaderStates
      BY <2>2, <3>1, <3>2, ReaderUpdateType
    <3>4. reader' = [reader EXCEPT ![i] = next]
      BY <1>4 DEF IngestLine
    <3>. QED
      BY <3>3, <3>4
  <2>. QED
    BY <1>4, <2>4, <2>5 DEF IngestLine
<1>5. CASE IngestEof(i)
  BY <1>5, StepUnlocked, LabelKinds DEF IngestEof
<1>6. CASE IngestRecord(i)
  <2>1. mark' \in Nat
    BY <1>6 DEF IngestRecord, ReaderStates
  <2>. QED
    BY <1>6, <2>1, StepUnlocked, LabelKinds, NewReaderType DEF IngestRecord
<1>. QED
  BY <1>1, <1>2, <1>3, <1>4, <1>5, <1>6 DEF Ingest

\* Every step of a maintenance run preserves the types.
LEMMA TypeRotate ==
  ASSUME TypeOK, NEW r \in Rotators, RotateStart(r) \/ Rotate(r)
  PROVE  TypeOK'
<1>. USE DEF TypeOK, At, files, db, Procs
<1>1. CASE RotateStart(r)
  BY <1>1, StepUnlocked, LabelKinds, AfterRecoveryKind DEF RotateStart
<1>2. CASE Recover(r)
  BY <1>2, TypeRecover
<1>3. CASE RotateSkip(r)
  BY <1>3, StepUnlocked, LabelKinds DEF RotateSkip
<1>4. CASE RotateCut(r)
  <2>1. queue \in Seq(Nat)
    BY <1>4, HookQueueAssumption, EmptySeq DEF RotateCut, Bytes
  <2>2. cut' \in Nat /\ cut' <= Len(queue)
    BY <1>4, <2>1, LesserBounds, LenProperties DEF RotateCut
  <2>3. rest' \in Seq(Nat)
    BY SMTT(30), <1>4, <2>1, <2>2, SubSeqType, LenProperties DEF RotateCut
  <2>. QED
    BY <1>4, <2>2, <2>3, StepAcquire, LabelKinds DEF RotateCut
<1>5. CASE RotatePrepare(r)
  <2>1. rot' \in RotStates
    BY <1>5 DEF RotatePrepare, RotStates
  <2>. QED
    BY <1>5, <2>1, StepLocked, LabelKinds DEF RotatePrepare
<1>6. CASE RotateZeroMark(r)
  BY <1>6, StepLocked, LabelKinds DEF RotateZeroMark
<1>7. CASE RotateArchive(r)
  <2>1. Bytes(queue) \in Seq(Nat)
    BY BytesType
  <2>2. archives' \in Seq(Seq(Nat))
    <3>1. CASE archives' = Append(archives, Bytes(queue))
      BY <2>1, <3>1, AppendProperties
    <3>2. CASE /\ archives # <<>>
               /\ archives' = [archives EXCEPT ![Len(archives)] = Bytes(queue)]
      <4>1. Len(archives) \in 1 .. Len(archives)
        BY <3>2, EmptySeq, LenProperties
      <4>. QED
        BY <2>1, <3>2, <4>1, ExceptSeq
    <3>. QED
      BY <1>7, <3>1, <3>2 DEF RotateArchive
  <2>3. reader' \in [Ingesters -> ReaderStates]
    BY <1>7, DetachedType DEF RotateArchive
  <2>. QED
    BY <1>7, <2>2, <2>3, StepLocked, LabelKinds DEF RotateArchive
<1>8. CASE RotateMarkArchived(r)
  <2>1. rot' \in RotStates
    BY <1>8 DEF RotateMarkArchived, RotStates
  <2>. QED
    BY <1>8, <2>1, StepLocked, LabelKinds DEF RotateMarkArchived
<1>9. CASE RotateRestore(r)
  BY <1>9, DetachedType, StepLocked, LabelKinds DEF RotateRestore
<1>10. CASE RotateClear(r)
  <2>1. rot' \in RotStates
    BY <1>10 DEF RotateClear, RotStates, NoRotation
  <2>. QED
    BY <1>10, <2>1, StepRelease, LabelKinds DEF RotateClear
<1>11. CASE RotatePrune(r)
  <2>1. archives' \in Seq(Seq(Nat))
    BY <1>11, NewestType, HookQueueAssumption DEF RotatePrune
  <2>. QED
    BY <1>11, <2>1, StepUnlocked, LabelKinds DEF RotatePrune
<1>. QED
  BY <1>1, <1>2, <1>3, <1>4, <1>5, <1>6, <1>7, <1>8, <1>9, <1>10, <1>11
  DEF Rotate

\* So does a failure: the lock of a process that dies is free again.
LEMMA TypeFail ==
  ASSUME TypeOK, NEW p \in Procs, Fail(p)
  PROVE  TypeOK'
<1>. USE DEF TypeOK, Fail, files, db
<1>1. reader' \in [Ingesters -> ReaderStates]
  BY NewReaderType
<1>2. fails' \in 0 .. MaxFails
  BY HookQueueAssumption
<1>3. CASE lock = p
  BY <1>1, <1>2, <1>3, StepRelease, LabelKinds
<1>4. CASE lock # p
  BY <1>1, <1>2, <1>4, StepUnlocked, LabelKinds
<1>. QED
  BY <1>3, <1>4

\* Every step keeps the type and the link between lock and labels.
LEMMA TypeNext == TypeOK /\ [Next]_vars => TypeOK'
<1>. SUFFICES ASSUME TypeOK, [Next]_vars PROVE TypeOK'
  OBVIOUS
<1>1. CASE Capture
  <2>1. captured' \in 0 .. MaxEvents
    BY <1>1, HookQueueAssumption DEF Capture, TypeOK
  <2>2. queue' \in Seq(Nat)
    <3>1. Bytes(queue) \in Seq(Nat) /\ captured + 1 \in Nat
      BY BytesType DEF TypeOK
    <3>. QED
      BY <1>1, <3>1, AppendProperties DEF Capture
  <2>. QED
    BY <1>1, <2>1, <2>2 DEF Capture, TypeOK, files, db
<1>2. CASE TouchQueue
  BY <1>2, EmptySeq DEF TouchQueue, TypeOK, files, db
<1>3. ASSUME NEW i \in Ingesters, IngestStart(i) \/ Ingest(i)
      PROVE  TypeOK'
  BY <1>3, TypeIngest
<1>4. ASSUME NEW r \in Rotators, RotateStart(r) \/ Rotate(r)
      PROVE  TypeOK'
  BY <1>4, TypeRotate
<1>5. ASSUME NEW p \in Procs, Fail(p)
      PROVE  TypeOK'
  BY <1>5, TypeFail
<1>6. CASE UNCHANGED vars
  BY <1>6 DEF TypeOK, vars
<1>. QED
  BY <1>1, <1>2, <1>3, <1>4, <1>5, <1>6 DEF Next

\* The variables keep their types, and exactly the lock holder is inside a
\* locked section: of all the runs and rotations at most one at a time
\* touches the files of a rotation, and a run that dies leaves no lock.
THEOREM TypeCorrect == Spec => []TypeOK
BY TypeInit, TypeNext, PTL DEF Spec

----------------------------------------------------------------------------
(***************************************************************************)
(* The records of a sequence.                                              *)
(***************************************************************************)

\* A missing or empty file has no records.
LEMMA NoRecords ==
  /\ Records(<<>>) = {}
  /\ Bytes(NoFile) = <<>>
  /\ Len(<<>>) = 0
<1>1. Len(<<>>) = 0
  BY EmptySeq
<1>. QED
  BY <1>1 DEF Records, Bytes

\* A file that exists is not the missing file, and is its own content.
LEMMA BytesOfFile ==
  ASSUME NEW f \in Seq(Nat)
  PROVE  f # NoFile /\ Bytes(f) = f
BY HookQueueAssumption DEF Bytes

\* Appending one record adds it to the records.
LEMMA RecordsOfAppend ==
  ASSUME NEW s \in Seq(Nat), NEW e \in Nat
  PROVE  Records(Append(s, e)) = Records(s) \cup {e}
<1>1. /\ Len(s) \in Nat
      /\ Len(Append(s, e)) = Len(s) + 1
      /\ \A k \in 1 .. Len(s) : Append(s, e)[k] = s[k]
      /\ Append(s, e)[Len(s) + 1] = e
  BY LenProperties, AppendProperties
<1>2. \A k : k \in 1 .. Len(Append(s, e)) <=> k \in 1 .. Len(s) \/ k = Len(s) + 1
  BY <1>1
<1>. QED
  BY <1>1, <1>2 DEF Records

\* The records of two files written one after the other.
LEMMA RecordsOfConcat ==
  ASSUME NEW s \in Seq(Nat), NEW t \in Seq(Nat)
  PROVE  Records(s \o t) = Records(s) \cup Records(t)
<1>. DEFINE u == s \o t
<1>1. /\ Len(s) \in Nat /\ Len(t) \in Nat
      /\ Len(u) = Len(s) + Len(t)
      /\ \A k \in 1 .. Len(s) + Len(t) :
           u[k] = IF k <= Len(s) THEN s[k] ELSE t[k - Len(s)]
  BY LenProperties, ConcatProperties
<1>. HIDE DEF u
<1>2. ASSUME NEW k \in 1 .. Len(s)
      PROVE  k \in 1 .. Len(u) /\ u[k] = s[k]
  BY <1>1
<1>3. ASSUME NEW k \in 1 .. Len(t)
      PROVE  Len(s) + k \in 1 .. Len(u) /\ u[Len(s) + k] = t[k]
  <2>. DEFINE j == Len(s) + k
  <2>1. j \in 1 .. Len(s) + Len(t) /\ ~(j <= Len(s)) /\ j - Len(s) = k
    BY <1>1
  <2>. HIDE DEF j
  <2>2. j \in 1 .. Len(u) /\ u[j] = t[k]
    BY <1>1, <2>1
  <2>. QED
    BY <2>2 DEF j
<1>4. ASSUME NEW k \in 1 .. Len(u)
      PROVE  \/ \E j \in 1 .. Len(s) : u[k] = s[j]
             \/ \E j \in 1 .. Len(t) : u[k] = t[j]
  <2>1. CASE k <= Len(s)
    BY <1>1, <2>1
  <2>2. CASE ~(k <= Len(s))
    <3>1. k - Len(s) \in 1 .. Len(t) /\ u[k] = t[k - Len(s)]
      BY <1>1, <2>2
    <3>. QED
      BY <3>1
  <2>. QED
    BY <2>1, <2>2
<1>5. Records(u) \subseteq Records(s) \cup Records(t)
  BY <1>4 DEF Records
<1>6. Records(s) \subseteq Records(u)
  BY <1>2 DEF Records
<1>7. Records(t) \subseteq Records(u)
  BY <1>3 DEF Records
<1>8. Records(u) = Records(s) \cup Records(t)
  BY <1>5, <1>6, <1>7
<1>. QED
  BY <1>8 DEF u

\* Cutting a sequence: its records are those before the cut and the tail's.
LEMMA RecordsOfCut ==
  ASSUME NEW s \in Seq(Nat), NEW c \in Nat, c <= Len(s)
  PROVE  /\ SubSeq(s, c + 1, Len(s)) \in Seq(Nat)
         /\ \A k \in 1 .. Len(s) :
              k <= c \/ s[k] \in Records(SubSeq(s, c + 1, Len(s)))
<1>. DEFINE t == SubSeq(s, c + 1, Len(s))
<1>1. Len(s) \in Nat
  BY LenProperties
<1>2. \A k \in c + 1 .. Len(s) : s[k] \in Nat
  BY <1>1, ElementOfSeq
<1>3. /\ t \in Seq(Nat)
      /\ Len(t) = IF c + 1 <= Len(s) THEN Len(s) - (c + 1) + 1 ELSE 0
      /\ \A k \in 1 .. Len(s) - (c + 1) + 1 : t[k] = s[c + 1 + k - 1]
  BY <1>1, <1>2, SubSeqProperties
<1>. HIDE DEF t
<1>4. ASSUME NEW k \in 1 .. Len(s), ~(k <= c)
      PROVE  s[k] \in Records(t)
  <2>1. k - c \in 1 .. Len(t) /\ t[k - c] = s[k]
    BY <1>1, <1>3, <1>4
  <2>. QED
    BY <2>1 DEF Records
<1>5. t \in Seq(Nat) /\ \A k \in 1 .. Len(s) : k <= c \/ s[k] \in Records(t)
  BY <1>3, <1>4
<1>. QED
  BY <1>5 DEF t

\* Cutting a sequence adds no record.
LEMMA RecordsOfTail ==
  ASSUME NEW s \in Seq(Nat), NEW c \in Nat, c <= Len(s)
  PROVE  Records(SubSeq(s, c + 1, Len(s))) \subseteq Records(s)
<1>. DEFINE t == SubSeq(s, c + 1, Len(s))
<1>1. Len(s) \in Nat /\ \A k \in c + 1 .. Len(s) : s[k] \in Nat
  BY LenProperties, ElementOfSeq
<1>2. /\ t \in Seq(Nat)
      /\ Len(t) = IF c + 1 <= Len(s) THEN Len(s) - (c + 1) + 1 ELSE 0
      /\ \A k \in 1 .. Len(s) - (c + 1) + 1 : t[k] = s[c + 1 + k - 1]
  BY <1>1, SubSeqProperties
<1>. HIDE DEF t
<1>3. ASSUME NEW k \in 1 .. Len(t)
      PROVE  c + k \in 1 .. Len(s) /\ t[k] = s[c + k]
  <2>1. Len(t) = Len(s) - c
    BY <1>1, <1>2
  <2>2. c + k \in 1 .. Len(s) /\ c + 1 + k - 1 = c + k
    BY <1>1, <2>1
  <2>. QED
    BY <1>1, <1>2, <2>1, <2>2
<1>4. Records(t) \subseteq Records(s)
  BY <1>3 DEF Records
<1>. QED
  BY <1>4 DEF t

\* What recovery strips from a queue is in the archive.
LEMMA RecordsOfStrip ==
  ASSUME NEW s \in Seq(Nat), NEW a \in Seq(Nat)
  PROVE  Records(s) \subseteq Records(a) \cup Records(StripArchived(s, a))
<1>1. CASE a # <<>> /\ StartsWith(s, a)
  <2>1. Len(a) \in Nat /\ Len(a) <= Len(s) /\ SubSeq(s, 1, Len(a)) = a
    BY <1>1, LenProperties DEF StartsWith
  <2>2. StripArchived(s, a) = SubSeq(s, Len(a) + 1, Len(s))
    BY <1>1 DEF StripArchived
  <2>3. \A k \in 1 .. Len(s) : k <= Len(a) \/ s[k] \in Records(StripArchived(s, a))
    BY <2>1, <2>2, RecordsOfCut
  <2>4. ASSUME NEW k \in 1 .. Len(s), k <= Len(a)
        PROVE  s[k] \in Records(a)
    <3>1. Len(s) \in Nat /\ \A j \in 1 .. Len(a) : s[j] \in Nat
      BY <2>1, LenProperties, ElementOfSeq
    <3>2. \A j \in 1 .. Len(a) - 1 + 1 : SubSeq(s, 1, Len(a))[j] = s[1 + j - 1]
      BY <2>1, <3>1, SubSeqProperties
    <3>3. k \in 1 .. Len(a) /\ a[k] = s[k]
      BY <2>1, <2>4, <3>2
    <3>. QED
      BY <3>3 DEF Records
  <2>. QED
    BY <2>3, <2>4 DEF Records
<1>2. CASE ~(a # <<>> /\ StartsWith(s, a))
  BY <1>2 DEF StripArchived
<1>. QED
  BY <1>1, <1>2

\* Stripping adds no record.
LEMMA StripAddsNothing ==
  ASSUME NEW s \in Seq(Nat), NEW a \in Seq(Nat)
  PROVE  Records(StripArchived(s, a)) \subseteq Records(s)
BY RecordsOfTail, LenProperties DEF StripArchived, StartsWith

----------------------------------------------------------------------------
(***************************************************************************)
(* The last archive.                                                       *)
(***************************************************************************)

\* A rotation puts the queue at the end of the archives, under a new name or
\* over the last one.
LEMMA LastIsQueue ==
  ASSUME TypeOK, NEW r \in Rotators, RotateArchive(r)
  PROVE  LastArchive' = Bytes(queue)
<1>1. Bytes(queue) \in Seq(Nat) /\ archives \in Seq(Seq(Nat))
  BY BytesType DEF TypeOK
<1>2. CASE archives' = Append(archives, Bytes(queue))
  <2>1. /\ Len(archives) \in Nat /\ archives' # <<>>
        /\ Len(archives') = Len(archives) + 1
        /\ archives'[Len(archives) + 1] = Bytes(queue)
    BY <1>1, <1>2, AppendProperties, LenProperties
  <2>. QED
    BY <2>1 DEF LastArchive
<1>3. CASE /\ archives # <<>>
           /\ archives' = [archives EXCEPT ![Len(archives)] = Bytes(queue)]
  <2>1. Len(archives) \in 1 .. Len(archives)
    BY <1>1, <1>3, EmptySeq, LenProperties
  <2>2. /\ archives' \in Seq(Seq(Nat))
        /\ Len(archives') = Len(archives)
        /\ archives'[Len(archives)] = Bytes(queue)
    BY <1>1, <1>3, <2>1, ExceptSeq
  <2>3. archives' # <<>>
    BY <2>1, <2>2, EmptySeq
  <2>. QED
    BY <2>2, <2>3 DEF LastArchive
<1>. QED
  BY <1>2, <1>3 DEF RotateArchive

\* Pruning keeps the last archive or removes them all.
LEMMA LastOfPruned ==
  ASSUME TypeOK, archives' = Newest(archives, Retention)
  PROVE  LastArchive' = LastArchive \/ LastArchive' = <<>>
<1>. DEFINE n == Lesser(Retention, Len(archives))
            first == Len(archives) - n + 1
<1>1. archives \in Seq(Seq(Nat)) /\ Len(archives) \in Nat
  BY LenProperties DEF TypeOK
<1>2. n \in 0 .. Len(archives)
  BY <1>1, LesserBounds, HookQueueAssumption
<1>3. archives' = SubSeq(archives, first, Len(archives))
  BY DEF Newest
<1>. HIDE DEF n
<1>4. first \in 1 .. Len(archives) + 1
  BY <1>1, <1>2
<1>5. \A k \in first .. Len(archives) : archives[k] \in Seq(Nat)
  BY <1>1, <1>4, ElementOfSeq
<1>6. /\ archives' \in Seq(Seq(Nat))
      /\ Len(archives') = IF first <= Len(archives)
                          THEN Len(archives) - first + 1 ELSE 0
      /\ \A k \in 1 .. Len(archives) - first + 1 :
           archives'[k] = archives[first + k - 1]
  BY SMTT(30), <1>1, <1>3, <1>4, <1>5, SubSeqProperties
<1>7. CASE archives' = <<>>
  BY <1>7 DEF LastArchive
<1>8. CASE archives' # <<>>
  <2>1. Len(archives') \in Nat \ {0}
    BY <1>6, <1>8, EmptySeq
  <2>2. Len(archives') = n /\ n \in 1 .. Len(archives)
    BY <1>1, <1>2, <1>6, <2>1
  <2>3. archives'[n] = archives[Len(archives)]
    BY <1>1, <1>2, <1>6, <2>2
  <2>4. archives # <<>>
    BY <1>1, <2>2, EmptySeq
  <2>. QED
    BY <1>8, <2>2, <2>3, <2>4 DEF LastArchive
<1>. QED
  BY <1>7, <1>8

----------------------------------------------------------------------------
(***************************************************************************)
(* The lock holder is the only process inside a locked section.            *)
(***************************************************************************)

Outside == {"idle", "open", "read", "record", "recover", "rotate", "prune"}

\* The labels outside the locked sections.
LEMMA OutsideIsUnlocked == Labels \ Locked = Outside
BY DEF Labels, Locked, RecoverLabels, RotateLabels, IngestLabels, Outside

\* A step of the lock holder.
LEMMA HolderStep ==
  ASSUME TypeOK, NEW p \in Procs, pc[p] \in Labels \cap Locked, NEW l, Goto(p, l)
  PROVE  /\ lock = p
         /\ pc'[p] = l
         /\ \A q \in Procs : q # p => pc[q] \in Outside /\ pc'[q] = pc[q]
BY OutsideIsUnlocked DEF TypeOK, Goto

\* A step while the lock is free.
LEMMA FreeStep ==
  ASSUME TypeOK, lock = NoProc
  PROVE  \A q \in Procs : pc[q] \in Outside
BY OutsideIsUnlocked, HookQueueAssumption DEF TypeOK

\* A step that captures nothing keeps NoLoss if it drops only stored events.
LEMMA NoLossKept ==
  ASSUME NoLoss, captured' = captured, StoredEvents \subseteq StoredEvents',
         Recoverable \subseteq StoredEvents' \cup Recoverable'
  PROVE  NoLoss'
BY DEF NoLoss, Capturable

\* A watermark of zero covers nothing.
LEMMA NothingProcessed ==
  ASSUME TypeOK', mark' = 0
  PROVE  Processed(mark)'
<1>1. Bytes(queue') \in Seq(Nat)
  BY BytesType DEF TypeOK
<1>. QED
  BY <1>1, LenProperties DEF Processed

\* A process that goes on, or gives up, keeps the kinds of runs apart.
LEMMA ApartKept ==
  ASSUME TypeOK, Apart, NEW p \in Procs, NEW l, Goto(p, l),
         pc[p] # "idle" \/ l = "idle"
  PROVE  Apart'
BY DEF TypeOK, Apart, Goto, Procs
----------------------------------------------------------------------------
(***************************************************************************)
(* Recovery.                                                               *)
(***************************************************************************)

\* Restoring the watermark is sound: a prepared rotation cut at a sound one.
LEMMA DurableRestoreMark ==
  ASSUME Serial, Durability, NEW p \in Procs, RestoreMark(p), TypeOK'
  PROVE  Durability'
<1>. USE DEF Durability
<1>1. pc[p] = "restoreMark" /\ rot.phase = "prepared"
  BY DEF RestoreMark, At, PhaseOfLabel
<1>2. /\ lock = p
      /\ pc'[p] = "dropRest"
      /\ \A q \in Procs : q # p => pc[q] \in Outside /\ pc'[q] = pc[q]
  BY <1>1, HolderStep, LabelKinds DEF RestoreMark, At
<1>3. StoredEvents' = StoredEvents
  BY DEF RestoreMark, StoredEvents, db
<1>4. Apart'
  BY <1>1, ApartKept DEF RestoreMark, At
<1>5. ReadersSound'
  <2>1. \A i \in Ingesters : pc'[i] \notin {"open", "read", "record"}
    BY <1>1, <1>2 DEF ReadersSound, Procs
  <2>. QED
    BY <2>1 DEF ReadersSound
<1>6. PhaseOfLabel'
  BY <1>1, <1>2 DEF PhaseOfLabel, RestoreMark, Outside, files
<1>7. MarksSound'
  <2>1. Processed(rot.prev)
    BY <1>1, <1>2 DEF MarksSound, Someone, Outside
  <2>2. Processed(mark)' /\ Processed(rot.prev)' /\ rot'.phase = "prepared"
    BY <1>1, <1>3, <2>1 DEF RestoreMark, Processed
  <2>. QED
    BY <2>2 DEF MarksSound
<1>8. TailOfRotation'
  BY <1>1, <1>2, <1>3 DEF TailOfRotation, Outside, RestoreMark, files
<1>9. ArchiveCovered'
  BY <1>1, <1>2, <1>3 DEF ArchiveCovered, LastArchive, Someone, Outside, RestoreMark, files
<1>10. NoLoss'
  <2>1. Recoverable \subseteq Recoverable'
    BY <1>1, <1>2 DEF Recoverable, Outside, RestoreMark, files
  <2>. QED
    BY <1>3, <2>1, NoLossKept DEF RestoreMark
<1>. QED
  BY <1>4, <1>5, <1>6, <1>7, <1>8, <1>9, <1>10

\* The tail of a prepared rotation goes, the queue still holds its records.
LEMMA DurableDropRest ==
  ASSUME Serial, Durability, NEW p \in Procs, DropRest(p), TypeOK'
  PROVE  Durability'
<1>. USE DEF Durability
<1>1. pc[p] = "dropRest" /\ rot.phase = "prepared"
  BY DEF DropRest, At, PhaseOfLabel
<1>2. /\ lock = p
      /\ pc'[p] = "clearState"
      /\ \A q \in Procs : q # p => pc[q] \in Outside /\ pc'[q] = pc[q]
  BY <1>1, HolderStep, LabelKinds DEF DropRest, At
<1>3. StoredEvents' = StoredEvents
  BY DEF DropRest, StoredEvents, db
<1>4. Apart'
  BY <1>1, ApartKept DEF DropRest, At
<1>5. ReadersSound'
  <2>1. \A i \in Ingesters : pc'[i] \notin {"open", "read", "record"}
    BY <1>1, <1>2 DEF ReadersSound, Procs
  <2>. QED
    BY <2>1 DEF ReadersSound
<1>6. PhaseOfLabel'
  BY <1>1, <1>2 DEF PhaseOfLabel, DropRest, Outside, files
<1>7. MarksSound'
  BY <1>1, <1>2, <1>3 DEF MarksSound, Processed, Someone, Outside, DropRest, files
<1>8. TailOfRotation'
  BY <1>1, <1>2, <1>3 DEF TailOfRotation, Outside, DropRest, files
<1>9. ArchiveCovered'
  BY <1>1, <1>2, <1>3 DEF ArchiveCovered, LastArchive, Someone, Outside, DropRest, files
<1>10. NoLoss'
  <2>1. Recoverable \subseteq Recoverable'
    BY <1>1, <1>2 DEF Recoverable, Outside, DropRest, files
  <2>. QED
    BY <1>3, <2>1, NoLossKept DEF DropRest
<1>. QED
  BY <1>4, <1>5, <1>6, <1>7, <1>8, <1>9, <1>10

\* What the truncated queue held is in the merge or, stripped, in the last archive.
LEMMA DurableMergeTruncate ==
  ASSUME Serial, Durability, NEW p \in Procs, MergeTruncate(p), TypeOK'
  PROVE  Durability'
<1>. USE DEF Durability
<1>1. pc[p] = "merge" /\ rot.phase = "archived"
  BY DEF MergeTruncate, At, PhaseOfLabel
<1>2. /\ lock = p
      /\ pc'[p] = "mergeWrite"
      /\ \A q \in Procs : q # p => pc[q] \in Outside /\ pc'[q] = pc[q]
  BY <1>1, HolderStep, LabelKinds DEF MergeTruncate, At
<1>3. StoredEvents' = StoredEvents
  BY DEF MergeTruncate, StoredEvents, db
<1>4. Apart'
  BY <1>1, ApartKept DEF MergeTruncate, At
<1>5. ReadersSound'
  <2>1. \A i \in Ingesters : pc'[i] \notin {"open", "read", "record"}
    BY <1>1, <1>2 DEF ReadersSound, Procs
  <2>. QED
    BY <2>1 DEF ReadersSound
<1>6. PhaseOfLabel'
  BY <1>1, <1>2 DEF PhaseOfLabel, MergeTruncate, Outside, files
<1>7. MarksSound'
  <2>1. mark' = 0 /\ rot'.phase = "archived"
    BY <1>1 DEF MarksSound, MergeTruncate
  <2>. QED
    BY <2>1, NothingProcessed DEF MarksSound
<1>8. TailOfRotation'
  <2>1. queue' = <<>> /\ rest' = rest /\ rest # NoFile /\ Bytes(queue') = <<>>
    BY NoRecords, EmptySeq, BytesOfFile DEF MergeTruncate
  <2>2. rest \in Seq(Nat) /\ queue \in Seq(Nat) /\ LastArchive \in Seq(Nat)
    BY LastArchiveType DEF MergeTruncate, TypeOK
  <2>3. Records(rest) \subseteq Records(merged')
    BY <2>2, StripArchivedType, RecordsOfConcat DEF MergeTruncate
  <2>. QED
    BY <1>2, <2>1, <2>3 DEF TailOfRotation, Outside
<1>9. ArchiveCovered'
  BY <1>1, <1>2, <1>3 DEF ArchiveCovered, LastArchive, Someone, Outside, MergeTruncate, files
<1>10. NoLoss'
  <2>1. /\ rest \in Seq(Nat) /\ queue \in Seq(Nat)
        /\ LastArchive \in Seq(Nat)
    BY LastArchiveType DEF MergeTruncate, TypeOK
  <2>2. Records(queue) \subseteq
          Records(LastArchive) \cup Records(StripArchived(queue, LastArchive))
    BY <2>1, RecordsOfStrip
  <2>3. Records(merged') =
          Records(rest) \cup Records(StripArchived(queue, LastArchive))
    BY <2>1, StripArchivedType, RecordsOfConcat DEF MergeTruncate
  <2>4. Records(LastArchive) \subseteq StoredEvents \cup Records(rest)
    BY <1>1, <2>1, BytesOfFile DEF ArchiveCovered
  <2>5. Recoverable \subseteq Records(queue) \cup Records(rest)
    BY <1>1, <1>2, <2>1, BytesOfFile DEF Recoverable, Outside
  <2>6. Records(merged') \subseteq Recoverable'
    BY <1>2 DEF Recoverable
  <2>7. Recoverable \subseteq StoredEvents' \cup Recoverable'
    BY <1>3, <2>2, <2>3, <2>4, <2>5, <2>6
  <2>. QED
    BY <1>3, <2>7, NoLossKept DEF MergeTruncate
<1>. QED
  BY <1>4, <1>5, <1>6, <1>7, <1>8, <1>9, <1>10

\* The merge puts the tail and the new appends into the queue.
LEMMA DurableMergeWrite ==
  ASSUME Serial, Durability, NEW p \in Procs, MergeWrite(p), TypeOK'
  PROVE  Durability'
<1>. USE DEF Durability
<1>1. pc[p] = "mergeWrite" /\ rot.phase = "archived"
  BY DEF MergeWrite, At, PhaseOfLabel
<1>2. /\ lock = p
      /\ pc'[p] = "dropMerged"
      /\ \A q \in Procs : q # p => pc[q] \in Outside /\ pc'[q] = pc[q]
  BY <1>1, HolderStep, LabelKinds DEF MergeWrite, At
<1>3. StoredEvents' = StoredEvents
  BY DEF MergeWrite, StoredEvents, db
<1>4. Apart'
  BY <1>1, ApartKept DEF MergeWrite, At
<1>5. ReadersSound'
  <2>1. \A i \in Ingesters : pc'[i] \notin {"open", "read", "record"}
    BY <1>1, <1>2 DEF ReadersSound, Procs
  <2>. QED
    BY <2>1 DEF ReadersSound
<1>6. PhaseOfLabel'
  BY <1>1, <1>2 DEF PhaseOfLabel, MergeWrite, Outside, files
<1>7. MarksSound'
  <2>1. mark' = 0 /\ rot'.phase = "archived"
    BY <1>1 DEF MarksSound, MergeWrite
  <2>. QED
    BY <2>1, NothingProcessed DEF MarksSound
<1>8. TailOfRotation'
  <2>1. Records(Bytes(rest')) \subseteq Records(Bytes(queue'))
    BY <1>1, BytesOfFile DEF TailOfRotation, MergeWrite, TypeOK
  <2>. QED
    BY <1>2, <2>1 DEF TailOfRotation, Outside
<1>9. ArchiveCovered'
  BY <1>1, <1>2, <1>3 DEF ArchiveCovered, LastArchive, Someone, Outside, MergeWrite, files
<1>10. NoLoss'
  <2>1. Recoverable \subseteq Records(Bytes(rest)) \cup Records(merged)
    BY <1>1, <1>2, NoRecords DEF Recoverable, TailOfRotation, Outside
  <2>2. Bytes(queue') = merged
    BY BytesOfFile DEF MergeWrite, TypeOK
  <2>3. Records(Bytes(rest)) \cup Records(merged) \subseteq Recoverable'
    BY <1>1, <2>2 DEF Recoverable, MergeWrite
  <2>. QED
    BY <1>3, <2>1, <2>3, NoLossKept DEF MergeWrite
<1>. QED
  BY <1>4, <1>5, <1>6, <1>7, <1>8, <1>9, <1>10

\* The tail goes once the queue holds its records.
LEMMA DurableDropMerged ==
  ASSUME Serial, Durability, NEW p \in Procs, DropMerged(p), TypeOK'
  PROVE  Durability'
<1>. USE DEF Durability
<1>1. pc[p] = "dropMerged" /\ rot.phase = "archived"
  BY DEF DropMerged, At, PhaseOfLabel
<1>2. /\ lock = p
      /\ pc'[p] = "clearState"
      /\ \A q \in Procs : q # p => pc[q] \in Outside /\ pc'[q] = pc[q]
  BY <1>1, HolderStep, LabelKinds DEF DropMerged, At
<1>3. StoredEvents' = StoredEvents
  BY DEF DropMerged, StoredEvents, db
<1>4. Apart'
  BY <1>1, ApartKept DEF DropMerged, At
<1>5. ReadersSound'
  <2>1. \A i \in Ingesters : pc'[i] \notin {"open", "read", "record"}
    BY <1>1, <1>2 DEF ReadersSound, Procs
  <2>. QED
    BY <2>1 DEF ReadersSound
<1>6. PhaseOfLabel'
  BY <1>1, <1>2 DEF PhaseOfLabel, DropMerged, Outside, files
<1>7. MarksSound'
  <2>1. mark' = 0 /\ rot'.phase = "archived"
    BY <1>1 DEF MarksSound, DropMerged
  <2>. QED
    BY <2>1, NothingProcessed DEF MarksSound
<1>8. TailOfRotation'
  BY <1>1, <1>2, <1>3 DEF TailOfRotation, Outside, DropMerged, files
<1>9. ArchiveCovered'
  BY <1>1, <1>2, <1>3 DEF ArchiveCovered, LastArchive, Someone, Outside, DropMerged, files
<1>10. NoLoss'
  <2>1. Recoverable \subseteq Records(Bytes(queue))
    BY <1>1, <1>2 DEF Recoverable, TailOfRotation, Outside
  <2>2. Records(Bytes(queue)) \subseteq Recoverable'
    BY DEF Recoverable, DropMerged
  <2>. QED
    BY <1>3, <2>1, <2>2, NoLossKept DEF DropMerged
<1>. QED
  BY <1>4, <1>5, <1>6, <1>7, <1>8, <1>9, <1>10

\* The tail becomes the queue.
LEMMA DurableMoveRest ==
  ASSUME Serial, Durability, NEW p \in Procs, MoveRest(p), TypeOK'
  PROVE  Durability'
<1>. USE DEF Durability
<1>1. pc[p] = "merge" /\ rot.phase = "archived"
  BY DEF MoveRest, At, PhaseOfLabel
<1>2. /\ lock = p
      /\ pc'[p] = "clearState"
      /\ \A q \in Procs : q # p => pc[q] \in Outside /\ pc'[q] = pc[q]
  BY <1>1, HolderStep, LabelKinds DEF MoveRest, At
<1>3. StoredEvents' = StoredEvents
  BY DEF MoveRest, StoredEvents, db
<1>4. Apart'
  BY <1>1, ApartKept DEF MoveRest, At
<1>5. ReadersSound'
  <2>1. \A i \in Ingesters : pc'[i] \notin {"open", "read", "record"}
    BY <1>1, <1>2 DEF ReadersSound, Procs
  <2>. QED
    BY <2>1 DEF ReadersSound
<1>6. PhaseOfLabel'
  BY <1>1, <1>2 DEF PhaseOfLabel, MoveRest, Outside, files
<1>7. MarksSound'
  <2>1. mark' = 0 /\ rot'.phase = "archived"
    BY <1>1 DEF MarksSound, MoveRest
  <2>. QED
    BY <2>1, NothingProcessed DEF MarksSound
<1>8. TailOfRotation'
  BY <1>1, <1>2, <1>3 DEF TailOfRotation, Outside, MoveRest, files
<1>9. ArchiveCovered'
  BY <1>1, <1>2, <1>3 DEF ArchiveCovered, LastArchive, Someone, Outside, MoveRest, files
<1>10. NoLoss'
  <2>1. rest \in Seq(Nat) /\ Bytes(queue) = <<>>
    BY NoRecords DEF MoveRest, TypeOK
  <2>2. Recoverable \subseteq Records(rest)
    BY <1>1, <1>2, <2>1, NoRecords, BytesOfFile DEF Recoverable, Outside
  <2>3. Bytes(queue') = rest
    BY <2>1, BytesOfFile DEF MoveRest
  <2>4. Records(rest) \subseteq Recoverable'
    BY <2>3 DEF Recoverable
  <2>. QED
    BY <1>3, <2>2, <2>4, NoLossKept DEF MoveRest
<1>. QED
  BY <1>4, <1>5, <1>6, <1>7, <1>8, <1>9, <1>10

\* An archived rotation without a tail has nothing to merge.
LEMMA DurableNothingToMerge ==
  ASSUME Serial, Durability, NEW p \in Procs, NothingToMerge(p), TypeOK'
  PROVE  Durability'
<1>. USE DEF Durability
<1>1. pc[p] = "merge" /\ rot.phase = "archived"
  BY DEF NothingToMerge, At, PhaseOfLabel
<1>2. /\ lock = p
      /\ pc'[p] = "clearState"
      /\ \A q \in Procs : q # p => pc[q] \in Outside /\ pc'[q] = pc[q]
  BY <1>1, HolderStep, LabelKinds DEF NothingToMerge, At
<1>3. StoredEvents' = StoredEvents
  BY DEF NothingToMerge, StoredEvents, db
<1>4. Apart'
  BY <1>1, ApartKept DEF NothingToMerge, At
<1>5. ReadersSound'
  <2>1. \A i \in Ingesters : pc'[i] \notin {"open", "read", "record"}
    BY <1>1, <1>2 DEF ReadersSound, Procs
  <2>. QED
    BY <2>1 DEF ReadersSound
<1>6. PhaseOfLabel'
  BY <1>1, <1>2 DEF PhaseOfLabel, NothingToMerge, Outside, files
<1>7. MarksSound'
  <2>1. mark' = 0 /\ rot'.phase = "archived"
    BY <1>1 DEF MarksSound, NothingToMerge, files
  <2>. QED
    BY <2>1, NothingProcessed DEF MarksSound
<1>8. TailOfRotation'
  BY <1>1, <1>2, <1>3 DEF TailOfRotation, Outside, NothingToMerge, files
<1>9. ArchiveCovered'
  BY <1>1, <1>2, <1>3 DEF ArchiveCovered, LastArchive, Someone, Outside, NothingToMerge, files
<1>10. NoLoss'
  <2>1. Recoverable \subseteq Recoverable'
    BY <1>1, <1>2 DEF Recoverable, Outside, NothingToMerge, files
  <2>. QED
    BY <1>3, <2>1, NoLossKept DEF NothingToMerge
<1>. QED
  BY <1>4, <1>5, <1>6, <1>7, <1>8, <1>9, <1>10

\* Clearing the state ends a recovery that has put the tail back.
LEMMA DurableClearState ==
  ASSUME Serial, Durability, NEW p \in Procs, ClearState(p), TypeOK'
  PROVE  Durability'
<1>. USE DEF Durability
<1>1. pc[p] = "clearState" /\ rot.phase # "none"
  BY DEF ClearState, At, PhaseOfLabel
<1>2. /\ lock = p
      /\ pc'[p] = AfterRecovery(p)
      /\ \A q \in Procs : q # p => pc[q] \in Outside /\ pc'[q] = pc[q]
  BY <1>1, HolderStep, LabelKinds DEF ClearState, At
<1>3. StoredEvents' = StoredEvents
  BY DEF ClearState, StoredEvents, db
<1>4. Apart'
  BY <1>1, ApartKept DEF ClearState, At
<1>5. ReadersSound'
  <2>1. rot'.phase = "none"
    BY DEF ClearState, NoRotation
  <2>2. ASSUME NEW i \in Ingesters, pc'[i] \in {"read", "record"}
        PROVE  FALSE
    <3>1. CASE i = p
      BY <1>2, <2>2, <3>1 DEF AfterRecovery, Procs
    <3>2. CASE i # p
      BY <1>1, <1>2, <2>2, <3>2 DEF ReadersSound, Procs
    <3>. QED
      BY <3>1, <3>2
  <2>. QED
    BY <2>1, <2>2 DEF ReadersSound
<1>6. PhaseOfLabel'
  <2>1. pc'[p] \in {"open", "rotate"}
    BY <1>2 DEF AfterRecovery
  <2>. QED
    BY <1>2, <2>1 DEF PhaseOfLabel, Outside
<1>7. MarksSound'
  <2>1. Processed(mark)'
    BY <1>3 DEF MarksSound, Processed, ClearState
  <2>2. rot'.phase = "none"
    BY DEF ClearState, NoRotation
  <2>. QED
    BY <2>1, <2>2 DEF MarksSound
<1>8. TailOfRotation'
  <2>1. pc'[p] \in {"open", "rotate"}
    BY <1>2 DEF AfterRecovery
  <2>. QED
    BY <1>2, <2>1 DEF TailOfRotation, Outside
<1>9. ArchiveCovered'
  <2>1. pc'[p] # "markArchived" /\ rot'.phase = "none"
    BY <1>2 DEF AfterRecovery, ClearState, NoRotation
  <2>. QED
    BY <1>2, <2>1 DEF ArchiveCovered, Someone, Outside
<1>10. NoLoss'
  <2>1. Recoverable \subseteq Records(Bytes(queue))
    BY <1>1, <1>2, NoRecords DEF Recoverable, TailOfRotation, Outside
  <2>2. Records(Bytes(queue)) \subseteq Recoverable'
    BY DEF Recoverable, ClearState
  <2>. QED
    BY <1>3, <2>1, <2>2, NoLossKept DEF ClearState
<1>. QED
  BY <1>4, <1>5, <1>6, <1>7, <1>8, <1>9, <1>10

\* Taking the lock for recovery.
LEMMA DurableLockRecovery ==
  ASSUME Serial, Durability, NEW p \in Procs, LockRecovery(p), TypeOK'
  PROVE  Durability'
<1>. USE DEF Durability
<1>1. pc[p] = "recover" /\ lock = NoProc
  BY DEF LockRecovery
<1>2. /\ \A q \in Procs : pc[q] \in Outside
      /\ \A q \in Procs : q # p => pc'[q] = pc[q]
      /\ \/ pc'[p] \in {"open", "rotate"} /\ rot.phase = "none"
         \/ pc'[p] = "restoreMark" /\ rot.phase = "prepared"
         \/ pc'[p] = "merge" /\ rot.phase = "archived"
  BY <1>1, FreeStep
  DEF LockRecovery, Goto, AfterRecovery, TypeOK, RotStates
<1>3. /\ UNCHANGED <<captured, queue, rest, mark, rot, archives, stored, cut,
                    merged, reader>>
      /\ StoredEvents' = StoredEvents
  BY DEF LockRecovery, files, db, StoredEvents
<1>4. Apart'
  BY <1>1, ApartKept DEF LockRecovery
<1>5. ReadersSound'
  <2>1. ASSUME NEW i \in Ingesters, pc'[i] \in {"open", "read", "record"}
        PROVE  rot.phase = "none" /\ (pc'[i] \in {"read", "record"} => pc'[i] = pc[i])
    BY <1>2, <2>1 DEF ReadersSound, Procs
  <2>. QED
    BY <1>3, <2>1 DEF ReadersSound, Processed
<1>6. PhaseOfLabel'
  BY <1>2, <1>3 DEF PhaseOfLabel, Outside
<1>7. MarksSound'
  <2>1. ~Someone("markArchived")
    BY <1>2 DEF Someone, Outside
  <2>. QED
    BY <1>3, <2>1 DEF MarksSound, Processed
<1>8. TailOfRotation'
  BY <1>2, <1>3 DEF TailOfRotation, Outside
<1>9. ArchiveCovered'
  <2>1. ~Someone("markArchived")'
    BY <1>2 DEF Someone, Outside
  <2>. QED
    BY <1>3, <2>1 DEF ArchiveCovered, LastArchive
<1>10. NoLoss'
  <2>1. ~Someone("markArchived") /\ ~Someone("mergeWrite")
    BY <1>2 DEF Someone, Outside
  <2>2. Recoverable \subseteq Recoverable'
    BY <1>3, <2>1 DEF Recoverable, Someone
  <2>. QED
    BY <1>3, <2>2, NoLossKept
<1>. QED
  BY <1>4, <1>5, <1>6, <1>7, <1>8, <1>9, <1>10

\* Every step of recovery keeps the invariant.
LEMMA DurableRecover ==
  ASSUME Serial, Durability, NEW p \in Procs, Recover(p), TypeOK'
  PROVE  Durability'
BY DurableLockRecovery, DurableRestoreMark, DurableDropRest,
   DurableMergeTruncate, DurableMergeWrite, DurableDropMerged,
   DurableMoveRest, DurableNothingToMerge, DurableClearState
DEF Recover

----------------------------------------------------------------------------
(***************************************************************************)
(* Ingest runs.                                                            *)
(***************************************************************************)

\* Steps that only move one process between labels outside the locked
\* sections leave what concerns the files and the lock holder as it is.
LEMMA OutsideStep ==
  ASSUME Durability, NEW p \in Procs, pc[p] \in Outside, NEW l \in Outside,
         Goto(p, l),
         UNCHANGED <<captured, queue, rest, mark, rot, stored, cut, merged>>
  PROVE  /\ \A q \in Procs : q # p => pc'[q] = pc[q]
         /\ pc'[p] = l
         /\ StoredEvents' = StoredEvents
         /\ PhaseOfLabel' /\ MarksSound' /\ TailOfRotation' /\ NoLoss'
         /\ \A m \in {"markArchived", "mergeWrite"} : Someone(m)' <=> Someone(m)
<1>. USE DEF Durability
<1>1. pc'[p] = l /\ \A q \in Procs : q # p => pc'[q] = pc[q]
  BY DEF Goto, TypeOK
<1>2. StoredEvents' = StoredEvents
  BY DEF StoredEvents
<1>3. \A m \in {"markArchived", "mergeWrite"} : Someone(m)' <=> Someone(m)
  BY <1>1 DEF Someone, Outside
<1>4. PhaseOfLabel'
  BY <1>1 DEF PhaseOfLabel, Outside
<1>5. MarksSound'
  BY <1>2, <1>3 DEF MarksSound, Processed
<1>6. TailOfRotation'
  BY <1>1, <1>2 DEF TailOfRotation, Processed, Outside
<1>7. NoLoss'
  <2>1. Recoverable' = Recoverable
    BY <1>3 DEF Recoverable, Someone
  <2>. QED
    BY <1>2, <2>1, NoLossKept
<1>. QED
  BY <1>1, <1>2, <1>3, <1>4, <1>5, <1>6, <1>7

\* What recovery will do depends on the run's kind.
LEMMA EntryOutside ==
  ASSUME NEW p
  PROVE  Entry(p) \in Outside /\ AfterRecovery(p) \in Outside
BY DEF Entry, AfterRecovery, Outside

\* An ingest run starts while no maintenance run is active.
LEMMA DurableIngestStart ==
  ASSUME Serial, Durability, NEW i \in Ingesters, IngestStart(i), TypeOK'
  PROVE  Durability'
<1>. USE DEF Durability
<1>1. /\ pc[i] = "idle"
      /\ \A r \in Rotators : pc[r] = "idle"
      /\ UNCHANGED <<captured, queue, rest, mark, rot, archives, stored, cut,
                    merged, reader>>
  BY DEF IngestStart, Serial, files, db
<1>2. /\ PhaseOfLabel' /\ MarksSound' /\ TailOfRotation' /\ NoLoss'
      /\ \A m \in {"markArchived", "mergeWrite"} : Someone(m)' <=> Someone(m)
      /\ pc'[i] = Entry(i)
      /\ \A q \in Procs : q # i => pc'[q] = pc[q]
      /\ StoredEvents' = StoredEvents
  BY <1>1, EntryOutside, OutsideStep DEF IngestStart, Outside, Procs
<1>3. Apart'
  BY <1>1, <1>2, HookQueueAssumption DEF Apart, Procs
<1>4. ReadersSound'
  <2>1. pc'[i] \in {"open", "recover"} /\ (pc'[i] = "open" => rot.phase = "none")
    BY <1>2 DEF Entry, AfterRecovery
  <2>. QED
    BY <1>1, <1>2, <2>1 DEF ReadersSound, Processed, Procs
<1>5. ArchiveCovered'
  BY <1>1, <1>2 DEF ArchiveCovered, LastArchive
<1>. QED
  BY <1>2, <1>3, <1>4, <1>5

\* The reader starts with nothing processed.
LEMMA DurableIngestOpen ==
  ASSUME Serial, Durability, NEW i \in Ingesters, IngestOpen(i), TypeOK'
  PROVE  Durability'
<1>. USE DEF Durability
<1>1. /\ pc[i] = "open"
      /\ UNCHANGED <<captured, queue, rest, mark, rot, archives, stored, cut,
                    merged>>
  BY DEF IngestOpen, At, files, db
<1>2. /\ PhaseOfLabel' /\ MarksSound' /\ TailOfRotation' /\ NoLoss'
      /\ \A m \in {"markArchived", "mergeWrite"} : Someone(m)' <=> Someone(m)
      /\ pc'[i] \in {"read", "record"}
      /\ \A q \in Procs : q # i => pc'[q] = pc[q]
      /\ StoredEvents' = StoredEvents
  BY <1>1, OutsideStep DEF IngestOpen, At, Outside, Procs
<1>3. Apart'
  BY <1>1, ApartKept DEF IngestOpen, At, Procs
<1>4. ReadersSound'
  <2>1. reader'[i] = NewReader /\ \A j \in Ingesters : j # i => reader'[j] = reader[j]
    BY DEF IngestOpen, TypeOK
  <2>2. Len(Bytes(queue)) \in Nat
    BY BytesType, LenProperties DEF TypeOK
  <2>3. Processed(0)
    BY <2>2 DEF Processed
  <2>. QED
    BY <1>1, <1>2, <2>1, <2>2, <2>3 DEF ReadersSound, Processed, NewReader, Procs
<1>5. ArchiveCovered'
  BY <1>1, <1>2 DEF ArchiveCovered, LastArchive
<1>. QED
  BY <1>2, <1>3, <1>4, <1>5

\* The end of the file changes no file.
LEMMA DurableIngestEof ==
  ASSUME Serial, Durability, NEW i \in Ingesters, IngestEof(i), TypeOK'
  PROVE  Durability'
<1>. USE DEF Durability
<1>1. /\ pc[i] = "read"
      /\ UNCHANGED <<captured, queue, rest, mark, rot, archives, stored, cut,
                    merged, reader>>
  BY DEF IngestEof, At, files, db
<1>2. /\ PhaseOfLabel' /\ MarksSound' /\ TailOfRotation' /\ NoLoss'
      /\ \A m \in {"markArchived", "mergeWrite"} : Someone(m)' <=> Someone(m)
      /\ pc'[i] = "record"
      /\ \A q \in Procs : q # i => pc'[q] = pc[q]
      /\ StoredEvents' = StoredEvents
  BY <1>1, OutsideStep DEF IngestEof, At, Outside, Procs
<1>3. Apart'
  BY <1>1, ApartKept DEF IngestEof, At, Procs
<1>4. ReadersSound'
  BY <1>1, <1>2 DEF ReadersSound, Processed, Procs
<1>5. ArchiveCovered'
  BY <1>1, <1>2 DEF ArchiveCovered, LastArchive
<1>. QED
  BY <1>2, <1>3, <1>4, <1>5

\* What a run counts as processed is in the store.
LEMMA DurableIngestLine ==
  ASSUME Serial, Durability, NEW i \in Ingesters, IngestLine(i), TypeOK'
  PROVE  Durability'
<1>. USE DEF Durability
<1>. DEFINE line == reader[i].pos + 1
            e == FileOf(i)[line]
            bad == reader[i].bad \/ e \in Malformed
<1>1. /\ pc[i] = "read"
      /\ UNCHANGED <<captured, queue, rest, mark, rot, archives, cut, merged, pc>>
  BY DEF IngestLine, files
<1>2. StoredEvents \subseteq StoredEvents'
  BY DEF IngestLine, StoredEvents
<1>3. Apart'
  BY <1>1 DEF Apart
<1>4. ReadersSound'
  <2>1. /\ reader[i] \in ReaderStates
        /\ FileOf(i) = Bytes(queue)
        /\ reader[i].pos < Len(FileOf(i))
    BY <1>1 DEF ReadersSound, FileOf, IngestLine, TypeOK
  <2>2. Len(Bytes(queue)) \in Nat /\ reader[i].pos \in Nat /\ reader[i].done \in Nat
    BY <2>1, BytesType, LenProperties DEF TypeOK, ReaderStates
  <2>3. line \in Nat /\ line <= Len(Bytes(queue))
    BY <2>1, <2>2
  <2>4. /\ \A j \in Ingesters : j # i => reader'[j] = reader[j]
        /\ reader'[i].pos = line
        /\ reader'[i].bad = bad
        /\ reader'[i].done = IF bad THEN reader[i].done ELSE line
        /\ reader'[i].snap = NoFile
    <3>. DEFINE next == [reader[i] EXCEPT !.pos = line, !.bad = bad,
                           !.done = IF bad THEN reader[i].done ELSE line]
    <3>1. reader' = [reader EXCEPT ![i] = next]
      BY DEF IngestLine
    <3>2. reader'[i] = next /\ \A j \in Ingesters : j # i => reader'[j] = reader[j]
      BY <3>1 DEF TypeOK
    <3>3. /\ next.pos = line
          /\ next.bad = bad
          /\ next.done = IF bad THEN reader[i].done ELSE line
          /\ next.snap = reader[i].snap
      BY <2>1 DEF ReaderStates
    <3>4. reader[i].snap = NoFile
      BY <1>1 DEF ReadersSound
    <3>. QED
      BY <3>2, <3>3, <3>4
  <2>5. \A n \in Nat : Processed(n) => Processed(n)'
    BY <1>1, <1>2 DEF Processed
  <2>6. Processed(reader[i].done)' /\ reader'[i].done <= line
    <3>1. CASE bad
      <4>1. reader'[i].done = reader[i].done
        BY <2>4, <3>1
      <4>2. Processed(reader[i].done) /\ reader[i].done <= reader[i].pos
        BY <1>1 DEF ReadersSound
      <4>3. \A k \in 1 .. reader[i].done : Bytes(queue)[k] \in StoredEvents'
        BY <1>2, <4>2 DEF Processed
      <4>4. reader[i].done <= Len(Bytes(queue)) /\ reader[i].done <= line
        BY <2>2, <4>2 DEF Processed
      <4>. HIDE DEF line
      <4>. QED
        BY <1>1, <4>1, <4>3, <4>4 DEF Processed
    <3>2. CASE ~bad
      <4>1. reader'[i].done = line /\ e \notin Malformed /\ e = Bytes(queue)[line]
        BY <2>1, <2>4, <3>2
      <4>2. Processed(reader[i].pos)
        BY <1>1, <3>2 DEF ReadersSound
      <4>3. e \in StoredEvents'
        <5>1. <<line, e>> \in stored'
          BY <4>1 DEF IngestLine
        <5>2. <<line, e>>[2] = e
          OBVIOUS
        <5>. QED
          BY <5>1, <5>2 DEF StoredEvents
      <4>4. \A k \in 1 .. line : Bytes(queue)[k] \in StoredEvents'
        BY <1>2, <2>2, <4>1, <4>2, <4>3 DEF Processed
      <4>. HIDE DEF line
      <4>. QED
        BY <1>1, <2>3, <4>1, <4>4 DEF Processed
    <3>. QED
      BY <3>1, <3>2
  <2>7. ~bad => reader'[i].done = line
    BY <2>4
  <2>8. ASSUME NEW j \in Ingesters, pc'[j] \in {"read", "record"}, j # i
        PROVE  /\ reader'[j] = reader[j]
               /\ Processed(reader[j].done)'
    <3>1. reader'[j] = reader[j] /\ reader[j].done \in Nat
      BY <2>4, <2>8 DEF TypeOK, ReaderStates
    <3>2. Processed(reader[j].done)
      BY <1>1, <2>8 DEF ReadersSound
    <3>. QED
      BY <1>1, <1>2, <3>1, <3>2 DEF Processed
  <2>. HIDE DEF line, e, bad
  <2>9. ASSUME NEW j \in Ingesters, pc'[j] \in {"read", "record"}
        PROVE  /\ reader'[j].snap = NoFile
               /\ reader'[j].done <= reader'[j].pos
               /\ ~reader'[j].bad => reader'[j].done = reader'[j].pos
               /\ reader'[j].pos <= Len(Bytes(queue'))
               /\ Processed(reader[j].done)'
    <3>1. CASE j = i
      BY <1>1, <2>3, <2>4, <2>6, <2>7, <3>1
    <3>2. CASE j # i
      BY <1>1, <2>8, <2>9, <3>2 DEF ReadersSound
    <3>. QED
      BY <3>1, <3>2
  <2>. QED
    BY <1>1, <2>9 DEF ReadersSound, Processed
<1>5. PhaseOfLabel'
  BY <1>1 DEF PhaseOfLabel
<1>6. MarksSound'
  BY <1>1, <1>2 DEF MarksSound, Processed, Someone
<1>7. TailOfRotation'
  BY <1>1, <1>2 DEF TailOfRotation, Processed
<1>8. ArchiveCovered'
  BY <1>1, <1>2 DEF ArchiveCovered, LastArchive, Someone
<1>9. NoLoss'
  <2>1. Recoverable' = Recoverable
    BY <1>1 DEF Recoverable
  <2>. QED
    BY <1>1, <1>2, <2>1, NoLossKept
<1>. QED
  BY <1>3, <1>4, <1>5, <1>6, <1>7, <1>8, <1>9

\* No rotation is under way at the end of a run, so that its watermark is
\* that of the queue it has read.
LEMMA DurableIngestRecord ==
  ASSUME Serial, Durability, NEW i \in Ingesters, IngestRecord(i), TypeOK'
  PROVE  Durability'
<1>. USE DEF Durability
<1>1. /\ pc[i] = "record" /\ rot.phase = "none"
      /\ UNCHANGED <<captured, queue, rest, rot, archives, stored, cut, merged>>
  BY DEF IngestRecord, At, ReadersSound, files, db
<1>2. /\ pc'[i] = "idle"
      /\ \A q \in Procs : q # i => pc'[q] = pc[q]
      /\ \A q \in Procs : pc[q] \notin {"archive", "markArchived"}
  BY <1>1 DEF IngestRecord, At, Goto, TypeOK, Procs, PhaseOfLabel
<1>3. StoredEvents' = StoredEvents
  BY <1>1 DEF StoredEvents
<1>4. Apart'
  BY <1>1, ApartKept DEF IngestRecord, At, Procs
<1>5. ReadersSound'
  <2>1. \A j \in Ingesters : j # i => reader'[j] = reader[j]
    BY DEF IngestRecord, TypeOK
  <2>. QED
    BY <1>1, <1>2, <1>3, <2>1 DEF ReadersSound, Processed, Procs
<1>6. PhaseOfLabel'
  BY <1>1, <1>2 DEF PhaseOfLabel
<1>7. MarksSound'
  <2>1. Processed(mark)'
    BY <1>1, <1>3 DEF IngestRecord, ReadersSound, MarksSound, Processed
  <2>. QED
    BY <1>1, <2>1 DEF MarksSound
<1>8. TailOfRotation'
  BY <1>1, <1>2, <1>3 DEF TailOfRotation, Processed
<1>9. ArchiveCovered'
  BY <1>1, <1>2, <1>3 DEF ArchiveCovered, LastArchive, Someone
<1>10. NoLoss'
  <2>1. Recoverable \subseteq Recoverable'
    BY <1>1, <1>2 DEF Recoverable, Procs
  <2>. QED
    BY <1>1, <1>3, <2>1, NoLossKept
<1>. QED
  BY <1>4, <1>5, <1>6, <1>7, <1>8, <1>9, <1>10

\* Every step of an ingest run keeps the invariant.
LEMMA DurableIngest ==
  ASSUME Serial, Durability, NEW i \in Ingesters, IngestStart(i) \/ Ingest(i),
         TypeOK'
  PROVE  Durability'
BY DurableIngestStart, DurableRecover, DurableIngestOpen, DurableIngestLine,
   DurableIngestEof, DurableIngestRecord
DEF Ingest, Procs

----------------------------------------------------------------------------
(***************************************************************************)
(* Rotation.                                                               *)
(***************************************************************************)

\* While a maintenance run is at work no run reads the queue.
LEMMA RotatorStep ==
  ASSUME Durability, NEW r \in Rotators, pc[r] # "idle", NEW l, Goto(r, l)
  PROVE  Apart' /\ ReadersSound'
<1>. USE DEF Durability
<1>1. \A i \in Ingesters : pc'[i] = "idle"
  BY HookQueueAssumption DEF Apart, Goto, TypeOK, Procs
<1>. QED
  BY <1>1 DEF Apart, ReadersSound

\* A maintenance run starts while no ingest run is active.
LEMMA DurableRotateStart ==
  ASSUME Serial, Durability, NEW r \in Rotators, RotateStart(r), TypeOK'
  PROVE  Durability'
<1>. USE DEF Durability
<1>1. /\ pc[r] = "idle"
      /\ \A i \in Ingesters : pc[i] = "idle"
      /\ UNCHANGED <<captured, queue, rest, mark, rot, archives, stored, cut,
                    merged, reader>>
  BY DEF RotateStart, Serial, files, db
<1>2. /\ PhaseOfLabel' /\ MarksSound' /\ TailOfRotation' /\ NoLoss'
      /\ \A m \in {"markArchived", "mergeWrite"} : Someone(m)' <=> Someone(m)
      /\ \A q \in Procs : q # r => pc'[q] = pc[q]
      /\ StoredEvents' = StoredEvents
  BY <1>1, EntryOutside, OutsideStep DEF RotateStart, Outside, Procs
<1>3. \A i \in Ingesters : pc'[i] = "idle"
  BY <1>1, <1>2, HookQueueAssumption DEF Procs
<1>4. Apart' /\ ReadersSound'
  BY <1>3 DEF Apart, ReadersSound
<1>5. ArchiveCovered'
  BY <1>1, <1>2 DEF ArchiveCovered, LastArchive
<1>. QED
  BY <1>2, <1>4, <1>5

\* A rotation with nothing to do changes no file.
LEMMA DurableRotateSkip ==
  ASSUME Serial, Durability, NEW r \in Rotators, RotateSkip(r), TypeOK'
  PROVE  Durability'
<1>. USE DEF Durability
<1>1. /\ pc[r] = "rotate"
      /\ UNCHANGED <<captured, queue, rest, mark, rot, archives, stored, cut,
                    merged>>
  BY DEF RotateSkip, At, files, db
<1>2. /\ PhaseOfLabel' /\ MarksSound' /\ TailOfRotation' /\ NoLoss'
      /\ \A m \in {"markArchived", "mergeWrite"} : Someone(m)' <=> Someone(m)
      /\ StoredEvents' = StoredEvents
  BY <1>1, OutsideStep DEF RotateSkip, At, Outside, Procs
<1>3. Apart' /\ ReadersSound'
  BY <1>1, RotatorStep DEF RotateSkip, At
<1>4. ArchiveCovered'
  BY <1>1, <1>2 DEF ArchiveCovered, LastArchive
<1>. QED
  BY <1>2, <1>3, <1>4

\* Pruning keeps the last archive or leaves none.
LEMMA DurableRotatePrune ==
  ASSUME Serial, Durability, NEW r \in Rotators, RotatePrune(r), TypeOK'
  PROVE  Durability'
<1>. USE DEF Durability
<1>1. /\ pc[r] = "prune"
      /\ UNCHANGED <<captured, queue, rest, mark, rot, stored, cut, merged>>
  BY DEF RotatePrune, At, db
<1>2. /\ PhaseOfLabel' /\ MarksSound' /\ TailOfRotation' /\ NoLoss'
      /\ \A m \in {"markArchived", "mergeWrite"} : Someone(m)' <=> Someone(m)
      /\ StoredEvents' = StoredEvents
  BY <1>1, OutsideStep DEF RotatePrune, At, Outside, Procs
<1>3. Apart' /\ ReadersSound'
  BY <1>1, RotatorStep DEF RotatePrune, At
<1>4. LastArchive' = LastArchive \/ LastArchive' = <<>>
  BY LastOfPruned DEF RotatePrune
<1>5. ArchiveCovered'
  BY <1>1, <1>2, <1>4, NoRecords DEF ArchiveCovered
<1>. QED
  BY <1>2, <1>3, <1>5

\* The tail keeps every line that is not covered by the watermark.
LEMMA DurableRotateCut ==
  ASSUME Serial, Durability, NEW r \in Rotators, RotateCut(r), TypeOK'
  PROVE  Durability'
<1>. USE DEF Durability
<1>1. /\ pc[r] = "rotate" /\ lock = NoProc /\ mark > 0
      /\ UNCHANGED <<captured, queue, mark, rot, archives, stored, merged>>
  BY DEF RotateCut, At, db
<1>2. /\ pc'[r] = "prepare"
      /\ \A q \in Procs : pc[q] \in Outside
      /\ \A q \in Procs : q # r => pc'[q] = pc[q]
  BY <1>1, FreeStep DEF RotateCut, At, Goto, TypeOK, Procs
<1>3. StoredEvents' = StoredEvents
  BY <1>1 DEF StoredEvents
<1>4. rot.phase # "archived"
  BY <1>1 DEF MarksSound
<1>5. Apart' /\ ReadersSound'
  BY <1>1, RotatorStep DEF RotateCut, At
<1>6. PhaseOfLabel'
  BY <1>1, <1>2, <1>4 DEF PhaseOfLabel, Outside
<1>7. MarksSound'
  BY <1>1, <1>2, <1>3 DEF MarksSound, Processed, Someone, Outside
<1>8. TailOfRotation'
  <2>1. queue \in Seq(Nat)
    BY HookQueueAssumption, EmptySeq DEF RotateCut, Bytes, TypeOK
  <2>2. queue # NoFile /\ Bytes(queue) = queue /\ Len(queue) \in Nat
    BY <2>1, BytesOfFile, LenProperties
  <2>3. cut' = Lesser(mark, Len(queue)) /\ rest' = SubSeq(queue, cut' + 1, Len(queue))
    BY DEF RotateCut
  <2>4. cut' \in Nat /\ cut' <= Len(queue) /\ cut' <= mark
    BY <2>2, <2>3, LesserBounds DEF TypeOK
  <2>5. \A k \in 1 .. cut' : queue[k] \in StoredEvents
    BY <2>2, <2>4 DEF MarksSound, Processed, TypeOK
  <2>6. rest' \in Seq(Nat)
        /\ \A k \in 1 .. Len(queue) : k <= cut' \/ queue[k] \in Records(rest')
    BY <2>1, <2>3, <2>4, RecordsOfCut
  <2>7. Records(queue) \subseteq StoredEvents \cup Records(rest')
    BY <2>2, <2>4, <2>5, <2>6 DEF Records
  <2>8. Processed(cut)'
    BY <1>1, <1>3, <2>2, <2>4, <2>5 DEF Processed
  <2>9. rest' # NoFile
    BY <2>6, BytesOfFile
  <2>10. Records(rest') \subseteq Records(queue)
    BY <2>1, <2>3, <2>4, RecordsOfTail
  <2>. QED
    BY <1>1, <1>2, <1>3, <2>2, <2>7, <2>8, <2>9, <2>10
    DEF TailOfRotation, Outside
<1>9. ArchiveCovered'
  BY <1>1, <1>2, <1>4 DEF ArchiveCovered, Someone, Outside
<1>10. NoLoss'
  <2>1. Recoverable \subseteq Recoverable'
    BY <1>1, <1>2, <1>4 DEF Recoverable, Outside
  <2>. QED
    BY <1>1, <1>3, <2>1, NoLossKept
<1>. QED
  BY <1>5, <1>6, <1>7, <1>8, <1>9, <1>10

\* The prepared phase restores the watermark the rotation cut at.
LEMMA DurableRotatePrepare ==
  ASSUME Serial, Durability, NEW r \in Rotators, RotatePrepare(r), TypeOK'
  PROVE  Durability'
<1>. USE DEF Durability
<1>1. pc[r] = "prepare" /\ rot.phase # "archived"
  BY DEF RotatePrepare, At, PhaseOfLabel, Procs
<1>2. /\ lock = r
      /\ pc'[r] = "zeroMark"
      /\ \A q \in Procs : q # r => pc[q] \in Outside /\ pc'[q] = pc[q]
  BY <1>1, HolderStep, LabelKinds DEF RotatePrepare, At, Procs
<1>3. StoredEvents' = StoredEvents
  BY DEF RotatePrepare, StoredEvents, db
<1>4. Apart' /\ ReadersSound'
  BY <1>1, RotatorStep DEF RotatePrepare, At
<1>6. PhaseOfLabel'
  BY <1>1, <1>2 DEF PhaseOfLabel, RotatePrepare, Outside, files
<1>7. MarksSound'
  <2>1. Processed(mark)' /\ Processed(rot.prev)' /\ rot'.phase = "prepared"
    BY <1>1, <1>3 DEF RotatePrepare, Processed, MarksSound, TailOfRotation, Procs
  <2>. QED
    BY <2>1 DEF MarksSound
<1>8. TailOfRotation'
  BY <1>1, <1>2, <1>3 DEF TailOfRotation, Processed, Outside, RotatePrepare, files
<1>9. ArchiveCovered'
  <2>1. rot'.phase = "prepared" /\ ~Someone("markArchived")'
    BY <1>1, <1>2 DEF RotatePrepare, Someone, Outside
  <2>. QED
    BY <2>1 DEF ArchiveCovered
<1>10. NoLoss'
  <2>1. Recoverable \subseteq Recoverable'
    BY <1>1, <1>2 DEF Recoverable, Outside, RotatePrepare, files
  <2>. QED
    BY <1>3, <2>1, NoLossKept DEF RotatePrepare
<1>. QED
  BY <1>4, <1>6, <1>7, <1>8, <1>9, <1>10

\* A watermark of zero is sound.
LEMMA DurableRotateZeroMark ==
  ASSUME Serial, Durability, NEW r \in Rotators, RotateZeroMark(r), TypeOK'
  PROVE  Durability'
<1>. USE DEF Durability
<1>1. pc[r] = "zeroMark" /\ rot.phase = "prepared"
  BY DEF RotateZeroMark, At, PhaseOfLabel, Procs
<1>2. /\ lock = r
      /\ pc'[r] = "archive"
      /\ \A q \in Procs : q # r => pc[q] \in Outside /\ pc'[q] = pc[q]
  BY <1>1, HolderStep, LabelKinds DEF RotateZeroMark, At, Procs
<1>3. StoredEvents' = StoredEvents
  BY DEF RotateZeroMark, StoredEvents, db
<1>4. Apart' /\ ReadersSound'
  BY <1>1, RotatorStep DEF RotateZeroMark, At
<1>6. PhaseOfLabel'
  BY <1>1, <1>2 DEF PhaseOfLabel, RotateZeroMark, Outside, files
<1>7. MarksSound'
  <2>1. Processed(mark)'
    BY NothingProcessed DEF RotateZeroMark
  <2>2. Processed(rot.prev)' /\ rot'.phase = "prepared"
    BY <1>1, <1>2, <1>3 DEF RotateZeroMark, Processed, MarksSound, Someone, Outside
  <2>. QED
    BY <2>1, <2>2 DEF MarksSound
<1>8. TailOfRotation'
  BY <1>1, <1>2, <1>3 DEF TailOfRotation, Processed, Outside, RotateZeroMark, files
<1>9. ArchiveCovered'
  <2>1. rot'.phase = "prepared" /\ ~Someone("markArchived")'
    BY <1>1, <1>2 DEF RotateZeroMark, Someone, Outside
  <2>. QED
    BY <2>1 DEF ArchiveCovered
<1>10. NoLoss'
  <2>1. Recoverable \subseteq Recoverable'
    BY <1>1, <1>2 DEF Recoverable, Outside, RotateZeroMark, files
  <2>. QED
    BY <1>3, <2>1, NoLossKept DEF RotateZeroMark
<1>. QED
  BY <1>4, <1>6, <1>7, <1>8, <1>9, <1>10

\* The archived queue is stored or in the tail.
LEMMA DurableRotateArchive ==
  ASSUME Serial, Durability, NEW r \in Rotators, RotateArchive(r), TypeOK'
  PROVE  Durability'
<1>. USE DEF Durability
<1>1. pc[r] = "archive" /\ rot.phase = "prepared"
  BY DEF RotateArchive, At, PhaseOfLabel, Procs
<1>2. /\ lock = r
      /\ pc'[r] = "markArchived"
      /\ \A q \in Procs : q # r => pc[q] \in Outside /\ pc'[q] = pc[q]
  BY <1>1, HolderStep, LabelKinds DEF RotateArchive, At, Procs
<1>3. StoredEvents' = StoredEvents
  BY DEF RotateArchive, StoredEvents, db
<1>4. Apart' /\ ReadersSound'
  BY <1>1, RotatorStep DEF RotateArchive, At
<1>6. PhaseOfLabel'
  BY <1>1, <1>2 DEF PhaseOfLabel, RotateArchive, Outside, files
<1>7. MarksSound'
  <2>1. mark' = 0 /\ Someone("markArchived")' /\ rot'.phase = "prepared"
    BY <1>1, <1>2 DEF RotateArchive, TailOfRotation, Someone, Procs
  <2>. QED
    BY <2>1, NothingProcessed DEF MarksSound
<1>8. TailOfRotation'
  <2>1. queue' = NoFile /\ rest' = rest /\ rest # NoFile /\ mark' = 0
    BY <1>1 DEF RotateArchive, TailOfRotation, Procs
  <2>. QED
    BY <1>2, <2>1, NoRecords DEF TailOfRotation, Outside
<1>9. ArchiveCovered'
  <2>1. /\ queue # NoFile /\ rest' = rest /\ Bytes(queue) = queue
        /\ Records(queue) \subseteq StoredEvents \cup Records(rest)
        /\ rest # NoFile /\ Bytes(rest) = rest
    BY <1>1 DEF RotateArchive, TailOfRotation, Procs, Bytes
  <2>2. LastArchive' = queue
    BY <2>1, LastIsQueue
  <2>. QED
    BY <1>3, <2>1, <2>2 DEF ArchiveCovered
<1>10. NoLoss'
  <2>1. /\ queue # NoFile /\ rest' = rest /\ Bytes(queue) = queue
        /\ Records(queue) \subseteq StoredEvents \cup Records(rest)
        /\ rest # NoFile /\ Bytes(rest) = rest
    BY <1>1 DEF RotateArchive, TailOfRotation, Procs, Bytes
  <2>2. Recoverable \subseteq Records(queue)
    BY <1>1, <1>2, <2>1 DEF Recoverable, Outside
  <2>3. Records(rest) \subseteq Recoverable'
    BY <1>2, <2>1 DEF Recoverable, Procs
  <2>4. Recoverable \subseteq StoredEvents' \cup Recoverable'
    BY <1>3, <2>1, <2>2, <2>3
  <2>. QED
    BY <1>3, <2>4, NoLossKept DEF RotateArchive
<1>. QED
  BY <1>4, <1>6, <1>7, <1>8, <1>9, <1>10

\* From here recovery merges the tail instead of deleting it.
LEMMA DurableRotateMarkArchived ==
  ASSUME Serial, Durability, NEW r \in Rotators, RotateMarkArchived(r), TypeOK'
  PROVE  Durability'
<1>. USE DEF Durability
<1>1. pc[r] = "markArchived" /\ rot.phase = "prepared"
  BY DEF RotateMarkArchived, At, PhaseOfLabel, Procs
<1>2. /\ lock = r
      /\ pc'[r] = "restore"
      /\ \A q \in Procs : q # r => pc[q] \in Outside /\ pc'[q] = pc[q]
  BY <1>1, HolderStep, LabelKinds DEF RotateMarkArchived, At, Procs
<1>3. StoredEvents' = StoredEvents
  BY DEF RotateMarkArchived, StoredEvents, db
<1>4. Apart' /\ ReadersSound'
  BY <1>1, RotatorStep DEF RotateMarkArchived, At
<1>6. PhaseOfLabel'
  BY <1>2 DEF PhaseOfLabel, RotateMarkArchived, Outside
<1>7. MarksSound'
  <2>1. mark' = 0 /\ rot'.phase = "archived"
    BY <1>1 DEF RotateMarkArchived, TailOfRotation, Procs
  <2>. QED
    BY <2>1, NothingProcessed DEF MarksSound
<1>8. TailOfRotation'
  BY <1>1, <1>2 DEF TailOfRotation, Outside, RotateMarkArchived, Procs
<1>9. ArchiveCovered'
  BY <1>1, <1>3 DEF ArchiveCovered, LastArchive, Someone, RotateMarkArchived, Procs
<1>10. NoLoss'
  <2>1. Recoverable \subseteq Recoverable'
    BY <1>1, <1>2 DEF Recoverable, Outside, RotateMarkArchived
  <2>. QED
    BY <1>3, <2>1, NoLossKept DEF RotateMarkArchived
<1>. QED
  BY <1>4, <1>6, <1>7, <1>8, <1>9, <1>10

\* The tail becomes the queue.
LEMMA DurableRotateRestore ==
  ASSUME Serial, Durability, NEW r \in Rotators, RotateRestore(r), TypeOK'
  PROVE  Durability'
<1>. USE DEF Durability
<1>1. pc[r] = "restore" /\ rot.phase = "archived"
  BY DEF RotateRestore, At, PhaseOfLabel, Procs
<1>2. /\ lock = r
      /\ pc'[r] = "clear"
      /\ \A q \in Procs : q # r => pc[q] \in Outside /\ pc'[q] = pc[q]
  BY <1>1, HolderStep, LabelKinds DEF RotateRestore, At, Procs
<1>3. StoredEvents' = StoredEvents
  BY DEF RotateRestore, StoredEvents, db
<1>4. Apart' /\ ReadersSound'
  BY <1>1, RotatorStep DEF RotateRestore, At
<1>6. PhaseOfLabel'
  BY <1>1, <1>2 DEF PhaseOfLabel, RotateRestore, Outside, files
<1>7. MarksSound'
  <2>1. mark' = 0 /\ rot'.phase = "archived"
    BY <1>1 DEF RotateRestore, MarksSound
  <2>. QED
    BY <2>1, NothingProcessed DEF MarksSound
<1>8. TailOfRotation'
  BY <1>2 DEF TailOfRotation, Outside, RotateRestore
<1>9. ArchiveCovered'
  BY <1>2 DEF ArchiveCovered, Someone, Outside, RotateRestore
<1>10. NoLoss'
  <2>1. Bytes(queue) = <<>> /\ Bytes(queue') = Bytes(rest)
    BY <1>1 DEF TailOfRotation, RotateRestore, Procs
  <2>2. Recoverable \subseteq Records(Bytes(rest))
    BY <1>1, <1>2, <2>1, NoRecords DEF Recoverable, Outside
  <2>3. Records(Bytes(rest)) \subseteq Recoverable'
    BY <2>1 DEF Recoverable
  <2>. QED
    BY <1>3, <2>2, <2>3, NoLossKept DEF RotateRestore
<1>. QED
  BY <1>4, <1>6, <1>7, <1>8, <1>9, <1>10

\* The rotation ends with the tail in place.
LEMMA DurableRotateClear ==
  ASSUME Serial, Durability, NEW r \in Rotators, RotateClear(r), TypeOK'
  PROVE  Durability'
<1>. USE DEF Durability
<1>1. pc[r] = "clear" /\ rot.phase = "archived"
  BY DEF RotateClear, At, PhaseOfLabel, Procs
<1>2. /\ lock = r
      /\ pc'[r] = "prune"
      /\ \A q \in Procs : q # r => pc[q] \in Outside /\ pc'[q] = pc[q]
  BY <1>1, HolderStep, LabelKinds DEF RotateClear, At, Procs
<1>3. StoredEvents' = StoredEvents
  BY DEF RotateClear, StoredEvents, db
<1>4. Apart' /\ ReadersSound'
  BY <1>1, RotatorStep DEF RotateClear, At
<1>6. PhaseOfLabel'
  BY <1>2 DEF PhaseOfLabel, RotateClear, Outside
<1>7. MarksSound'
  <2>1. Processed(mark)'
    BY <1>3 DEF MarksSound, Processed, RotateClear
  <2>2. rot'.phase = "none"
    BY DEF RotateClear, NoRotation
  <2>. QED
    BY <2>1, <2>2 DEF MarksSound
<1>8. TailOfRotation'
  BY <1>2 DEF TailOfRotation, Outside, RotateClear
<1>9. ArchiveCovered'
  <2>1. rot'.phase = "none" /\ ~Someone("markArchived")'
    BY <1>2 DEF RotateClear, NoRotation, Someone, Outside
  <2>. QED
    BY <2>1 DEF ArchiveCovered
<1>10. NoLoss'
  <2>1. Recoverable \subseteq Records(Bytes(queue))
    BY <1>1, <1>2, NoRecords DEF Recoverable, TailOfRotation, Outside, Procs
  <2>2. Records(Bytes(queue)) \subseteq Recoverable'
    BY DEF Recoverable, RotateClear
  <2>. QED
    BY <1>3, <2>1, <2>2, NoLossKept DEF RotateClear
<1>. QED
  BY <1>4, <1>6, <1>7, <1>8, <1>9, <1>10

\* Every step of a rotation keeps the invariant.
LEMMA DurableRotate ==
  ASSUME Serial, Durability, NEW r \in Rotators, RotateStart(r) \/ Rotate(r),
         TypeOK'
  PROVE  Durability'
BY DurableRotateStart, DurableRecover, DurableRotateSkip, DurableRotateCut,
   DurableRotatePrepare, DurableRotateZeroMark, DurableRotateArchive,
   DurableRotateMarkArchived, DurableRotateRestore, DurableRotateClear,
   DurableRotatePrune
DEF Rotate, Procs

----------------------------------------------------------------------------
(***************************************************************************)
(* Hooks and failures.                                                     *)
(***************************************************************************)

\* A captured event is in the queue; what was processed stays in place.
LEMMA DurableCapture ==
  ASSUME Serial, Durability, Capture, TypeOK'
  PROVE  Durability'
<1>. USE DEF Durability
<1>1. /\ \A q \in Procs : pc[q] \in Outside
      /\ UNCHANGED <<rest, mark, rot, archives, stored, cut, merged, pc, reader>>
      /\ captured' = captured + 1
  BY FreeStep DEF Capture, db
<1>2. StoredEvents' = StoredEvents
  BY <1>1 DEF StoredEvents
<1>3. /\ Bytes(queue) \in Seq(Nat) /\ captured \in Nat
      /\ queue' \in Seq(Nat)
      /\ queue' = Append(Bytes(queue), captured + 1)
      /\ Bytes(queue') = queue'
  <2>1. Bytes(queue) \in Seq(Nat) /\ captured \in Nat
    BY BytesType, HookQueueAssumption DEF TypeOK
  <2>2. queue' = Append(Bytes(queue), captured + 1) /\ queue' \in Seq(Nat)
    BY <2>1, AppendProperties DEF Capture
  <2>. QED
    BY <2>1, <2>2, BytesOfFile
<1>4. /\ Len(Bytes(queue)) \in Nat
      /\ Len(Bytes(queue')) = Len(Bytes(queue)) + 1
      /\ \A k \in 1 .. Len(Bytes(queue)) : Bytes(queue')[k] = Bytes(queue)[k]
  BY <1>3, AppendProperties, LenProperties
<1>5. \A n \in Nat : Processed(n) => Processed(n)'
  <2>. SUFFICES ASSUME NEW n \in Nat, Processed(n)
                PROVE  Processed(n)'
    OBVIOUS
  <2>1. n <= Len(Bytes(queue)) /\ \A k \in 1 .. n : Bytes(queue)[k] \in StoredEvents
    BY DEF Processed
  <2>. HIDE DEF Durability
  <2>. QED
    BY <1>2, <1>4, <2>1 DEF Processed
<1>6. Apart'
  BY <1>1 DEF Apart
<1>7. ReadersSound'
  <2>1. ASSUME NEW i \in Ingesters, pc[i] \in {"read", "record"}
        PROVE  Processed(reader[i].done)' /\ reader[i].pos <= Len(Bytes(queue'))
    <3>1. reader[i] \in ReaderStates
      BY DEF TypeOK
    <3>2. reader[i].done \in Nat /\ reader[i].pos \in Nat
      BY <3>1 DEF ReaderStates
    <3>3. Processed(reader[i].done) /\ reader[i].pos <= Len(Bytes(queue))
      BY <2>1 DEF ReadersSound
    <3>4. Processed(reader[i].done)'
      BY <1>1, <1>5, <3>2, <3>3 DEF Processed
    <3>. QED
      BY <1>4, <3>2, <3>3, <3>4
  <2>. QED
    BY <1>1, <2>1 DEF ReadersSound
<1>8. PhaseOfLabel'
  BY <1>1 DEF PhaseOfLabel
<1>9. MarksSound'
  <2>1. Processed(mark)'
    BY <1>1, <1>5 DEF MarksSound, Processed, TypeOK
  <2>2. rot.phase = "prepared" => Processed(rot.prev)'
    <3>1. ~Someone("markArchived")
      BY <1>1 DEF Someone, Outside
    <3>2. rot.prev \in Nat
      BY DEF TypeOK, RotStates
    <3>. QED
      BY <1>1, <1>5, <3>1, <3>2 DEF MarksSound, Processed
  <2>. QED
    BY <1>1, <2>1, <2>2 DEF MarksSound
<1>10. TailOfRotation'
  BY <1>1 DEF TailOfRotation, Outside
<1>11. ArchiveCovered'
  BY <1>1, <1>2 DEF ArchiveCovered, LastArchive, Someone
<1>12. NoLoss'
  <2>1. Records(Bytes(queue')) = Records(Bytes(queue)) \cup {captured + 1}
    <3>1. captured + 1 \in Nat
      BY <1>3
    <3>2. Records(Append(Bytes(queue), captured + 1))
            = Records(Bytes(queue)) \cup {captured + 1}
      BY <1>3, <3>1, RecordsOfAppend
    <3>. QED
      BY <1>3, <3>2
  <2>2. Recoverable \cup {captured + 1} \subseteq Recoverable'
    BY <1>1, <2>1 DEF Recoverable
  <2>3. \A e \in Capturable' : e \in Capturable \/ e = captured + 1
    BY <1>1, <1>3 DEF Capturable
  <2>. QED
    BY <1>2, <2>2, <2>3 DEF NoLoss
<1>. QED
  BY <1>6, <1>7, <1>8, <1>9, <1>10, <1>11, <1>12

\* Creating an empty queue is invisible to every reader of its bytes.
LEMMA DurableTouchQueue ==
  ASSUME Serial, Durability, TouchQueue, TypeOK'
  PROVE  Durability'
<1>. USE DEF Durability
<1>1. /\ UNCHANGED <<captured, rest, mark, rot, archives, stored, cut, merged, pc,
                    reader>>
      /\ queue = NoFile
      /\ Bytes(queue') = <<>> /\ Bytes(queue) = <<>>
  BY NoRecords, EmptySeq, BytesOfFile DEF TouchQueue, db
<1>2. StoredEvents' = StoredEvents
  BY <1>1 DEF StoredEvents
<1>3. Apart'
  BY <1>1 DEF Apart
<1>4. ReadersSound'
  BY <1>1, <1>2 DEF ReadersSound, Processed
<1>5. PhaseOfLabel'
  BY <1>1 DEF PhaseOfLabel
<1>6. MarksSound'
  BY <1>1, <1>2 DEF MarksSound, Processed, Someone
<1>7. TailOfRotation'
  BY <1>1, <1>2 DEF TailOfRotation
<1>8. ArchiveCovered'
  BY <1>1, <1>2 DEF ArchiveCovered, LastArchive, Someone
<1>9. NoLoss'
  <2>1. Recoverable' = Recoverable
    BY <1>1 DEF Recoverable
  <2>. QED
    BY <1>1, <1>2, <2>1, NoLossKept
<1>. QED
  BY <1>3, <1>4, <1>5, <1>6, <1>7, <1>8, <1>9

\* A run may die anywhere but between the archiving and its mark, and between
\* the truncation of a merge and its write.
LEMMA DurableFail ==
  ASSUME Serial, Durability, NEW p \in Procs, Fail(p), TypeOK'
  PROVE  Durability'
<1>. USE DEF Durability
<1>1. /\ UNCHANGED <<captured, queue, rest, mark, rot, archives, stored, cut,
                    merged>>
      /\ pc[p] \notin {"markArchived", "mergeWrite"}
  BY DEF Fail, Serial, files, db
<1>2. /\ pc'[p] = "idle"
      /\ \A q \in Procs : q # p => pc'[q] = pc[q]
  BY DEF Fail, Goto, TypeOK
<1>3. StoredEvents' = StoredEvents
  BY <1>1 DEF StoredEvents
<1>4. \A m \in {"markArchived", "mergeWrite"} : Someone(m)' <=> Someone(m)
  BY <1>1, <1>2 DEF Someone
<1>5. Apart'
  BY ApartKept DEF Fail
<1>6. ReadersSound'
  <2>1. \A i \in Ingesters : i # p => reader'[i] = reader[i]
    BY DEF Fail, TypeOK
  <2>. QED
    BY <1>1, <1>2, <1>3, <2>1 DEF ReadersSound, Processed, Procs
<1>7. PhaseOfLabel'
  BY <1>1, <1>2 DEF PhaseOfLabel
<1>8. MarksSound'
  BY <1>1, <1>3, <1>4 DEF MarksSound, Processed
<1>9. TailOfRotation'
  BY <1>1, <1>2, <1>3 DEF TailOfRotation, Processed
<1>10. ArchiveCovered'
  BY <1>1, <1>3, <1>4 DEF ArchiveCovered, LastArchive
<1>11. NoLoss'
  <2>1. Recoverable' = Recoverable
    BY <1>1, <1>4 DEF Recoverable, Someone
  <2>. QED
    BY <1>1, <1>3, <2>1, NoLossKept
<1>. QED
  BY <1>5, <1>6, <1>7, <1>8, <1>9, <1>10, <1>11

----------------------------------------------------------------------------
(***************************************************************************)
(* The theorems.                                                           *)
(***************************************************************************)

\* The initial state has the invariant.
LEMMA DurableInit == Init => Durability
<1>. SUFFICES ASSUME Init PROVE Durability
  OBVIOUS
<1>1. TypeOK
  BY TypeInit
<1>2. \A q \in Procs : pc[q] = "idle"
  BY DEF Init
<1>3. Apart /\ ReadersSound /\ PhaseOfLabel /\ TailOfRotation
  BY <1>2 DEF Apart, ReadersSound, PhaseOfLabel, TailOfRotation, Procs
<1>4. MarksSound
  BY NoRecords DEF Init, MarksSound, Processed, NoRotation
<1>5. ArchiveCovered
  BY <1>2 DEF Init, ArchiveCovered, Someone, NoRotation
<1>6. NoLoss
  BY DEF Init, NoLoss, Capturable
<1>. QED
  BY <1>1, <1>3, <1>4, <1>5, <1>6 DEF Durability

\* Every step keeps the invariant.
LEMMA DurableNext ==
  ASSUME Serial
  PROVE  Durability /\ [Next]_vars => Durability'
<1>. SUFFICES ASSUME Durability, [Next]_vars PROVE Durability'
  OBVIOUS
<1>1. TypeOK'
  BY TypeNext DEF Durability
<1>2. CASE Capture
  BY <1>1, <1>2, DurableCapture
<1>3. CASE TouchQueue
  BY <1>1, <1>3, DurableTouchQueue
<1>4. ASSUME NEW i \in Ingesters, IngestStart(i) \/ Ingest(i)
      PROVE  Durability'
  BY <1>1, <1>4, DurableIngest
<1>5. ASSUME NEW r \in Rotators, RotateStart(r) \/ Rotate(r)
      PROVE  Durability'
  BY <1>1, <1>5, DurableRotate
<1>6. ASSUME NEW p \in Procs, Fail(p)
      PROVE  Durability'
  BY <1>1, <1>6, DurableFail
<1>7. CASE UNCHANGED vars
  BY <1>7
  DEF vars, Durability, TypeOK, Apart, ReadersSound, PhaseOfLabel, MarksSound,
      TailOfRotation, ArchiveCovered, NoLoss, Processed, Someone, StoredEvents,
      Recoverable, LastArchive, Capturable
<1>. QED
  BY <1>2, <1>3, <1>4, <1>5, <1>6, <1>7 DEF Next

\* What a watermark covers is stored: the two forms of the statement.
LEMMA MarkSoundFollows == Durability => MarkSound
<1>. SUFFICES ASSUME Durability PROVE MarkSound
  OBVIOUS
<1>1. Bytes(queue) \in Seq(Nat) /\ Len(Bytes(queue)) \in Nat
  BY BytesType, LenProperties DEF Durability, TypeOK
<1>2. ASSUME NEW m \in Nat, NEW k \in 1 .. Lesser(m, Len(Bytes(queue)))
      PROVE  k \in 1 .. m /\ k \in 1 .. Len(Bytes(queue)) /\ queue[k] = Bytes(queue)[k]
  <2>1. k \in 1 .. m /\ k \in 1 .. Len(Bytes(queue))
    <3>1. /\ Lesser(m, Len(Bytes(queue))) \in 0 .. Len(Bytes(queue))
          /\ Lesser(m, Len(Bytes(queue))) <= m
      BY <1>1, LesserBounds
    <3>. QED
      BY <1>1, <3>1
  <2>2. queue # NoFile
    BY <2>1, NoRecords
  <2>. QED
    BY <2>1, <2>2 DEF Bytes
<1>3. mark \in Nat /\ rot.prev \in Nat
  BY DEF Durability, TypeOK, RotStates
<1>4. \A k \in 1 .. Lesser(mark, Len(Bytes(queue))) : queue[k] \in StoredEvents
  BY <1>2, <1>3 DEF Durability, MarksSound, Processed
<1>5. ASSUME rot.phase = "prepared", NEW k \in 1 .. Lesser(rot.prev, Len(Bytes(queue)))
      PROVE  queue[k] \in StoredEvents
  <2>1. CASE Someone("markArchived")
    <3>1. Bytes(queue) = <<>>
      BY <2>1 DEF Someone, Durability, TailOfRotation
    <3>. QED
      BY <1>2, <1>3, <3>1, NoRecords
  <2>2. CASE ~Someone("markArchived")
    BY <1>2, <1>3, <1>5, <2>2 DEF Durability, MarksSound, Processed
  <2>. QED
    BY <2>1, <2>2
<1>. QED
  BY <1>4, <1>5 DEF MarkSound

\* In every serial deployment the invariant holds.
THEOREM AlwaysDurable == Serial => (Spec => []Durability)
<1>. SUFFICES ASSUME Serial PROVE Spec => []Durability
  OBVIOUS
<1>1. Durability /\ [Next]_vars => Durability'
  BY DurableNext
<1>. QED
  BY <1>1, DurableInit, PTL DEF Spec

\* No captured event is lost, however many runs, rotations and failures there
\* are, and whatever the limits of the queue and its archives.
THEOREM NothingLost == Serial => (Spec => []NoLoss)
<1>1. Durability => NoLoss
  BY DEF Durability
<1>. QED
  BY <1>1, AlwaysDurable, PTL

\* No watermark, and none that recovery may restore, covers an event that is
\* not in the store.
THEOREM WatermarkSound == Serial => (Spec => []MarkSound)
BY MarkSoundFollows, AlwaysDurable, PTL
=============================================================================
