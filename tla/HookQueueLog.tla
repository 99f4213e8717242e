---------------------------- MODULE HookQueueLog ----------------------------
(***************************************************************************)
(* What the hook queue is to its users, whatever its deployment does.      *)
(*   1. In a serial deployment it implements the abstract log: a step      *)
(*      accepts an event, delivers one that is kept, or discards events    *)
(*      that are delivered; most steps do nothing the log can see.         *)
(*   2. The archives make up for what overlapping runs lose.               *)
(*   3. The queue keeps the order of capture.                              *)
(*   4. No event becomes evidence twice.                                   *)
(***************************************************************************)
EXTENDS HookQueueProofs

----------------------------------------------------------------------------
(***************************************************************************)
(* The refinement of the abstract log.                                     *)
(***************************************************************************)

\* A step the log does not see.
Unseen ==
  UNCHANGED captured /\ Recoverable' = Recoverable /\ StoredEvents' = StoredEvents

\* An unseen step leaves the variables of the log unchanged.
LEMMA UnseenStutters == Unseen => UNCHANGED Log!logVars
BY DEF Unseen, Log!logVars

\* What is recoverable depends on the queue, the tail and the merge, on the
\* phase on disk and on whether a process is about to mark or to write.
LEMMA RecoverableKept ==
  ASSUME UNCHANGED <<captured, queue, rest, merged, stored>>,
         rot'.phase = "archived" <=> rot.phase = "archived",
         \A m \in {"markArchived", "mergeWrite"} : Someone(m)' <=> Someone(m)
  PROVE  Unseen
BY DEF Unseen, Recoverable, StoredEvents, Someone

\* A process outside the locked sections that stays outside changes neither
\* answer to the question who is about to mark or to write.
LEMMA StaysOutside ==
  ASSUME TypeOK, NEW p \in Procs, NEW l, Goto(p, l),
         pc[p] \notin {"markArchived", "mergeWrite"},
         l \notin {"markArchived", "mergeWrite"}
  PROVE  \A m \in {"markArchived", "mergeWrite"} : Someone(m)' <=> Someone(m)
<1>1. pc'[p] = l /\ \A q \in Procs : q # p => pc'[q] = pc[q]
  BY DEF Goto, TypeOK
<1>. QED
  BY <1>1 DEF Someone

\* The lock holder is the only process that marks or writes.
LEMMA OnlyHolder ==
  ASSUME TypeOK, NEW p \in Procs, pc[p] \in Labels \cap Locked, NEW l, Goto(p, l)
  PROVE  \A m \in {"markArchived", "mergeWrite"} :
           /\ Someone(m) <=> pc[p] = m
           /\ Someone(m)' <=> l = m
<1>1. /\ pc'[p] = l
      /\ \A q \in Procs : q # p => pc[q] \in Outside /\ pc'[q] = pc[q]
  BY HolderStep
<1>. QED
  BY <1>1 DEF Someone, Outside

----------------------------------------------------------------------------
(***************************************************************************)
(* Recovery.                                                               *)
(***************************************************************************)

\* Of the steps of recovery the log sees at most the truncation of a merge,
\* which gives up what the last archive holds and the store has.
LEMMA RecoverImplements ==
  ASSUME Durability, NEW p \in Procs, Recover(p)
  PROVE  [Log!LogNext]_(Log!logVars)
<1>. USE DEF Durability
<1>1. CASE LockRecovery(p)
  <2>1. PICK l \in {"open", "rotate", "restoreMark", "merge"} : Goto(p, l)
    BY <1>1 DEF LockRecovery, AfterRecovery
  <2>2. \A m \in {"markArchived", "mergeWrite"} : Someone(m)' <=> Someone(m)
    BY <1>1, <2>1, StaysOutside DEF LockRecovery
  <2>. QED
    BY <1>1, <2>2, RecoverableKept, UnseenStutters DEF LockRecovery, files, db
<1>2. CASE RestoreMark(p)
  <2>1. \A m \in {"markArchived", "mergeWrite"} : Someone(m)' <=> Someone(m)
    BY <1>2, StaysOutside DEF RestoreMark, At
  <2>. QED
    BY <1>2, <2>1, RecoverableKept, UnseenStutters DEF RestoreMark, db
<1>3. CASE DropRest(p)
  <2>1. pc[p] = "dropRest" /\ rot.phase = "prepared" /\ Goto(p, "clearState")
    BY <1>3 DEF DropRest, At, PhaseOfLabel
  <2>2. \A m \in {"markArchived", "mergeWrite"} : ~Someone(m) /\ ~Someone(m)'
    BY <2>1, OnlyHolder, LabelKinds
  <2>3. Unseen
    BY <1>3, <2>1, <2>2
    DEF Unseen, Recoverable, StoredEvents, Someone, DropRest, db
  <2>. QED
    BY <2>3, UnseenStutters
<1>4. CASE MergeTruncate(p)
  <2>1. pc[p] = "merge" /\ rot.phase = "archived" /\ Goto(p, "mergeWrite")
    BY <1>4 DEF MergeTruncate, At, PhaseOfLabel
  <2>2. /\ ~Someone("markArchived") /\ ~Someone("mergeWrite")
        /\ Someone("mergeWrite")'
    BY <2>1, OnlyHolder, LabelKinds
  <2>3. /\ queue \in Seq(Nat) /\ rest \in Seq(Nat) /\ LastArchive \in Seq(Nat)
        /\ Bytes(queue) = queue /\ Bytes(rest) = rest /\ rest # NoFile
    BY <1>4, BytesOfFile, LastArchiveType DEF MergeTruncate, TypeOK
  <2>4. Bytes(queue') = <<>>
    BY <1>4, EmptySeq, BytesOfFile DEF MergeTruncate
  <2>. DEFINE new == StripArchived(queue, LastArchive)
  <2>5. Records(merged') = Records(rest) \cup Records(new)
    BY <1>4, <2>3, StripArchivedType, RecordsOfConcat DEF MergeTruncate
  <2>6. /\ Records(new) \subseteq Records(queue)
        /\ Records(queue) \subseteq Records(LastArchive) \cup Records(new)
    BY <2>3, RecordsOfStrip, StripAddsNothing
  <2>. HIDE DEF new
  <2>7. Records(LastArchive) \subseteq StoredEvents \cup Records(rest)
    BY <2>1, <2>3 DEF ArchiveCovered
  <2>8. Recoverable = Records(queue) \cup Records(rest)
    BY <2>1, <2>2, <2>3 DEF Recoverable, Someone
  <2>9. UNCHANGED <<captured, rest, rot>> /\ StoredEvents' = StoredEvents
    BY <1>4 DEF MergeTruncate, db, StoredEvents
  <2>10. Recoverable' = Records(rest) \cup Records(new)
    BY <2>1, <2>2, <2>3, <2>4, <2>5, <2>9, NoRecords DEF Recoverable, Someone
  <2>11. /\ Recoverable' \subseteq Recoverable
         /\ Recoverable \ Recoverable' \subseteq StoredEvents
    BY <2>6, <2>7, <2>8, <2>10
  <2>. QED
    BY <2>9, <2>11 DEF Log!LogNext, Log!Discard
<1>5. CASE MergeWrite(p)
  <2>1. pc[p] = "mergeWrite" /\ rot.phase = "archived" /\ Goto(p, "dropMerged")
    BY <1>5 DEF MergeWrite, At, PhaseOfLabel
  <2>2. /\ ~Someone("markArchived") /\ Someone("mergeWrite")
        /\ ~Someone("mergeWrite")'
    BY <2>1, OnlyHolder, LabelKinds
  <2>3. Bytes(queue) = <<>> /\ Bytes(queue') = merged
    BY <1>5, <2>1, BytesOfFile DEF MergeWrite, TailOfRotation, TypeOK
  <2>4. UNCHANGED <<captured, rest, rot>> /\ StoredEvents' = StoredEvents
    BY <1>5 DEF MergeWrite, db, StoredEvents
  <2>5. Recoverable = Records(Bytes(rest)) \cup Records(merged)
    BY <2>1, <2>2, <2>3, NoRecords DEF Recoverable, Someone
  <2>6. Recoverable' = Records(merged) \cup Records(Bytes(rest))
    BY <2>1, <2>2, <2>3, <2>4 DEF Recoverable, Someone
  <2>. QED
    BY <2>4, <2>5, <2>6, UnseenStutters DEF Unseen
<1>6. CASE DropMerged(p)
  <2>1. pc[p] = "dropMerged" /\ rot.phase = "archived" /\ Goto(p, "clearState")
    BY <1>6 DEF DropMerged, At, PhaseOfLabel
  <2>2. \A m \in {"markArchived", "mergeWrite"} : ~Someone(m) /\ ~Someone(m)'
    BY <2>1, OnlyHolder, LabelKinds
  <2>3. UNCHANGED <<captured, queue, rot>> /\ StoredEvents' = StoredEvents /\ rest' = NoFile
    BY <1>6 DEF DropMerged, db, StoredEvents
  <2>4. Records(Bytes(rest)) \subseteq Records(Bytes(queue))
    BY <2>1 DEF TailOfRotation
  <2>5. Recoverable = Records(Bytes(queue))
    BY <2>1, <2>2, <2>4 DEF Recoverable, Someone
  <2>6. Recoverable' = Records(Bytes(queue))
    BY <2>1, <2>2, <2>3, NoRecords DEF Recoverable, Someone
  <2>. QED
    BY <2>3, <2>5, <2>6, UnseenStutters DEF Unseen
<1>7. CASE MoveRest(p)
  <2>1. pc[p] = "merge" /\ rot.phase = "archived" /\ Goto(p, "clearState")
    BY <1>7 DEF MoveRest, At, PhaseOfLabel
  <2>2. \A m \in {"markArchived", "mergeWrite"} : ~Someone(m) /\ ~Someone(m)'
    BY <2>1, OnlyHolder, LabelKinds
  <2>3. UNCHANGED <<captured, rot>> /\ StoredEvents' = StoredEvents
    BY <1>7 DEF MoveRest, db, StoredEvents
  <2>4. queue = NoFile /\ queue' = rest /\ rest' = NoFile
    BY <1>7 DEF MoveRest
  <2>5. Recoverable = Records(Bytes(rest))
    BY <2>1, <2>2, <2>4, NoRecords DEF Recoverable, Someone
  <2>6. Recoverable' = Records(Bytes(rest))
    BY <2>1, <2>2, <2>3, <2>4, NoRecords DEF Recoverable, Someone
  <2>. QED
    BY <2>3, <2>5, <2>6, UnseenStutters DEF Unseen
<1>8. CASE NothingToMerge(p)
  <2>1. \A m \in {"markArchived", "mergeWrite"} : Someone(m)' <=> Someone(m)
    BY <1>8, StaysOutside DEF NothingToMerge, At
  <2>. QED
    BY <1>8, <2>1, RecoverableKept, UnseenStutters DEF NothingToMerge, files, db
<1>9. CASE ClearState(p)
  <2>1. pc[p] = "clearState" /\ Goto(p, AfterRecovery(p))
    BY <1>9 DEF ClearState, At
  <2>2. AfterRecovery(p) \in {"open", "rotate"}
    BY DEF AfterRecovery
  <2>3. \A m \in {"markArchived", "mergeWrite"} : ~Someone(m) /\ ~Someone(m)'
    BY <2>1, <2>2, OnlyHolder, LabelKinds
  <2>4. /\ UNCHANGED <<captured, queue, rest>> /\ StoredEvents' = StoredEvents
        /\ rot'.phase = "none"
    BY <1>9 DEF ClearState, db, StoredEvents, NoRotation
  <2>5. rot.phase = "archived" => rest = NoFile
    BY <2>1 DEF TailOfRotation
  <2>6. Recoverable = Records(Bytes(queue)) /\ Recoverable' = Records(Bytes(queue))
    BY <2>3, <2>4, <2>5, NoRecords DEF Recoverable, Someone
  <2>. QED
    BY <2>4, <2>6, UnseenStutters DEF Unseen
<1>. QED
  BY <1>1, <1>2, <1>3, <1>4, <1>5, <1>6, <1>7, <1>8, <1>9 DEF Recover

----------------------------------------------------------------------------
(***************************************************************************)
(* Ingest runs and hooks.                                                  *)
(***************************************************************************)

\* An ingest run delivers an event the queue holds, or does nothing the log
\* can see: quarantining a line and leaving a watermark are invisible.
LEMMA IngestImplements ==
  ASSUME Durability, NEW i \in Ingesters, IngestStart(i) \/ Ingest(i)
  PROVE  [Log!LogNext]_(Log!logVars)
<1>. USE DEF Durability
<1>0. i \in Procs
  BY DEF Procs
<1>1. CASE IngestStart(i)
  <2>1. \A m \in {"markArchived", "mergeWrite"} : Someone(m)' <=> Someone(m)
    BY <1>0, <1>1, StaysOutside DEF IngestStart, Entry, AfterRecovery
  <2>. QED
    BY <1>1, <2>1, RecoverableKept, UnseenStutters DEF IngestStart, files, db
<1>2. CASE Recover(i)
  BY <1>0, <1>2, RecoverImplements
<1>3. CASE IngestOpen(i)
  <2>1. \A m \in {"markArchived", "mergeWrite"} : Someone(m)' <=> Someone(m)
    BY <1>0, <1>3, StaysOutside DEF IngestOpen, At
  <2>. QED
    BY <1>3, <2>1, RecoverableKept, UnseenStutters DEF IngestOpen, files, db
<1>4. CASE IngestLine(i)
  <2>. DEFINE line == reader[i].pos + 1
              e    == FileOf(i)[line]
  <2>1. /\ pc[i] = "read" /\ reader[i].pos < Len(FileOf(i))
        /\ UNCHANGED <<captured, queue, rest, merged, rot, pc>>
        /\ e \in Malformed => stored' = stored
        /\ e \notin Malformed => stored' = stored \cup {<<line, e>>}
    BY <1>4 DEF IngestLine, files
  <2>2. FileOf(i) = Bytes(queue)
    BY <2>1 DEF ReadersSound, FileOf
  <2>3. line \in 1 .. Len(Bytes(queue))
    <3>1. reader[i].pos \in Nat
      BY DEF TypeOK, ReaderStates
    <3>2. Len(Bytes(queue)) \in Nat
      BY BytesType, LenProperties DEF TypeOK
    <3>. QED
      BY <2>1, <2>2, <3>1, <3>2
  <2>4. e \in Recoverable
    BY <2>2, <2>3 DEF Recoverable, Records
  <2>5. UNCHANGED captured /\ Recoverable' = Recoverable
    BY <2>1 DEF Recoverable
  <2>. HIDE DEF e, line
  <2>6. CASE e \in Malformed
    <3>1. StoredEvents' = StoredEvents
      BY <2>1, <2>6 DEF StoredEvents
    <3>. QED
      BY <2>5, <3>1, UnseenStutters DEF Unseen
  <2>7. CASE e \notin Malformed
    <3>. DEFINE row == <<line, e>>
    <3>1. stored' = stored \cup {row} /\ row[2] = e
      BY <2>1, <2>7
    <3>. HIDE DEF row
    <3>2. StoredEvents' = StoredEvents \cup {e}
      BY <3>1 DEF StoredEvents
    <3>. QED
      BY <2>4, <2>5, <3>2 DEF Log!LogNext, Log!Deliver
  <2>. QED
    BY <2>6, <2>7
<1>5. CASE IngestEof(i)
  <2>1. \A m \in {"markArchived", "mergeWrite"} : Someone(m)' <=> Someone(m)
    BY <1>0, <1>5, StaysOutside DEF IngestEof, At
  <2>. QED
    BY <1>5, <2>1, RecoverableKept, UnseenStutters DEF IngestEof, files, db
<1>6. CASE IngestRecord(i)
  <2>1. \A m \in {"markArchived", "mergeWrite"} : Someone(m)' <=> Someone(m)
    BY <1>0, <1>6, StaysOutside DEF IngestRecord, At
  <2>. QED
    BY <1>6, <2>1, RecoverableKept, UnseenStutters DEF IngestRecord, db
<1>. QED
  BY <1>1, <1>2, <1>3, <1>4, <1>5, <1>6 DEF Ingest

\* A hook hands over the next event, which is kept in the queue.
LEMMA CaptureImplements ==
  ASSUME Durability, Capture
  PROVE  Log!LogNext
<1>1. /\ captured < MaxEvents
      /\ captured' = captured + 1
      /\ queue' = Append(Bytes(queue), captured + 1)
      /\ UNCHANGED <<rest, rot, merged, stored, pc>>
  BY DEF Capture, db
<1>2. Bytes(queue) \in Seq(Nat) /\ captured + 1 \in Nat
  BY BytesType DEF Durability, TypeOK
<1>3. Bytes(queue') = Append(Bytes(queue), captured + 1)
  BY <1>1, <1>2, AppendProperties, BytesOfFile
<1>4. Records(Bytes(queue')) = Records(Bytes(queue)) \cup {captured'}
  BY <1>1, <1>2, <1>3, RecordsOfAppend
<1>5. Recoverable' = Recoverable \cup {captured'}
  BY <1>1, <1>4 DEF Recoverable
<1>6. StoredEvents' = StoredEvents
  BY <1>1 DEF StoredEvents
<1>. QED
  BY <1>1, <1>5, <1>6 DEF Log!LogNext, Log!Accept

\* The log does not see an empty queue file appear.
LEMMA TouchImplements ==
  ASSUME Durability, TouchQueue
  PROVE  Unseen
<1>1. Bytes(queue) = <<>> /\ Bytes(queue') = <<>>
  BY NoRecords, EmptySeq, BytesOfFile DEF TouchQueue
<1>. QED
  BY <1>1 DEF TouchQueue, Unseen, Recoverable, StoredEvents, db

----------------------------------------------------------------------------
(***************************************************************************)
(* Rotation and failures.                                                  *)
(***************************************************************************)

\* Of the steps of a rotation the log sees at most the one that archives the
\* queue, which discards delivered events: what is not delivered is in the
\* tail, and the tail holds nothing that was not in the queue.
LEMMA RotateImplements ==
  ASSUME Durability, NEW r \in Rotators, RotateStart(r) \/ Rotate(r)
  PROVE  [Log!LogNext]_(Log!logVars)
<1>. USE DEF Durability
<1>0. r \in Procs
  BY DEF Procs
<1>1. CASE RotateStart(r)
  <2>1. \A m \in {"markArchived", "mergeWrite"} : Someone(m)' <=> Someone(m)
    BY <1>0, <1>1, StaysOutside DEF RotateStart, Entry, AfterRecovery
  <2>. QED
    BY <1>1, <2>1, RecoverableKept, UnseenStutters DEF RotateStart, files, db
<1>2. CASE Recover(r)
  BY <1>0, <1>2, RecoverImplements
<1>3. CASE RotateSkip(r)
  <2>1. \A m \in {"markArchived", "mergeWrite"} : Someone(m)' <=> Someone(m)
    BY <1>0, <1>3, StaysOutside DEF RotateSkip, At
  <2>. QED
    BY <1>3, <2>1, RecoverableKept, UnseenStutters DEF RotateSkip, files, db
<1>4. CASE RotateCut(r)
  <2>1. /\ UNCHANGED <<captured, queue, rot, merged, stored>>
        /\ pc[r] = "rotate" /\ Goto(r, "prepare") /\ lock = NoProc /\ mark > 0
    BY <1>4 DEF RotateCut, At, db
  <2>2. rot.phase # "archived"
    BY <2>1 DEF MarksSound
  <2>3. \A m \in {"markArchived", "mergeWrite"} : ~Someone(m) /\ ~Someone(m)'
    <3>1. \A q \in Procs : pc[q] \in Outside
      BY <2>1, FreeStep
    <3>2. pc'[r] = "prepare" /\ \A q \in Procs : q # r => pc'[q] = pc[q]
      BY <1>0, <2>1 DEF Goto, TypeOK
    <3>. QED
      BY <3>1, <3>2 DEF Someone, Outside
  <2>. QED
    BY <2>1, <2>2, <2>3, UnseenStutters DEF Unseen, Recoverable, StoredEvents, Someone
<1>5. CASE RotatePrepare(r)
  <2>1. /\ UNCHANGED <<captured, queue, rest, merged, stored>>
        /\ rot'.phase = "prepared" /\ pc[r] = "prepare" /\ Goto(r, "zeroMark")
    BY <1>5 DEF RotatePrepare, At, db
  <2>2. rot.phase # "archived"
    BY <1>0, <2>1 DEF PhaseOfLabel
  <2>3. \A m \in {"markArchived", "mergeWrite"} : Someone(m)' <=> Someone(m)
    BY <1>0, <2>1, StaysOutside
  <2>. QED
    BY <2>1, <2>2, <2>3, RecoverableKept, UnseenStutters
<1>6. CASE RotateZeroMark(r)
  <2>1. \A m \in {"markArchived", "mergeWrite"} : Someone(m)' <=> Someone(m)
    BY <1>0, <1>6, StaysOutside DEF RotateZeroMark, At
  <2>. QED
    BY <1>6, <2>1, RecoverableKept, UnseenStutters DEF RotateZeroMark, db
<1>7. CASE RotateArchive(r)
  <2>1. /\ UNCHANGED <<captured, rest, rot, merged, stored>> /\ queue' = NoFile
        /\ pc[r] = "archive" /\ Goto(r, "markArchived")
    BY <1>7 DEF RotateArchive, At, db
  <2>2. /\ ~Someone("markArchived") /\ ~Someone("mergeWrite")
        /\ Someone("markArchived")' /\ ~Someone("mergeWrite")'
    BY <1>0, <2>1, OnlyHolder, LabelKinds
  <2>3. /\ rot.phase = "prepared" /\ queue # NoFile /\ rest # NoFile
        /\ Records(queue) \subseteq StoredEvents \cup Records(rest)
        /\ Records(rest) \subseteq Records(queue)
    BY <1>0, <2>1 DEF PhaseOfLabel, TailOfRotation
  <2>4. Recoverable = Records(queue)
    BY <2>2, <2>3 DEF Recoverable, Someone, Bytes
  <2>5. Recoverable' = Records(rest)
    BY <2>1, <2>2, <2>3, NoRecords DEF Recoverable, Someone, Bytes
  <2>6. StoredEvents' = StoredEvents
    BY <2>1 DEF StoredEvents
  <2>. QED
    BY <2>1, <2>3, <2>4, <2>5, <2>6 DEF Log!LogNext, Log!Discard
<1>8. CASE RotateMarkArchived(r)
  <2>1. /\ UNCHANGED <<captured, queue, rest, merged>> /\ StoredEvents' = StoredEvents
        /\ rot'.phase = "archived" /\ pc[r] = "markArchived" /\ Goto(r, "restore")
    BY <1>8 DEF RotateMarkArchived, At, db, StoredEvents
  <2>2. /\ Someone("markArchived")
        /\ ~Someone("mergeWrite") /\ ~Someone("mergeWrite")'
    BY <1>0, <2>1, OnlyHolder, LabelKinds
  <2>. QED
    BY <2>1, <2>2, UnseenStutters DEF Unseen, Recoverable, Someone
<1>9. CASE RotateRestore(r)
  <2>1. /\ UNCHANGED <<captured, rot, merged>> /\ StoredEvents' = StoredEvents
        /\ queue' = rest /\ rest' = NoFile
        /\ pc[r] = "restore" /\ Goto(r, "clear")
    BY <1>9 DEF RotateRestore, At, db, StoredEvents
  <2>2. \A m \in {"markArchived", "mergeWrite"} : ~Someone(m) /\ ~Someone(m)'
    BY <1>0, <2>1, OnlyHolder, LabelKinds
  <2>3. rot.phase = "archived" /\ Bytes(queue) = <<>>
    BY <1>0, <2>1 DEF PhaseOfLabel, TailOfRotation
  <2>4. Recoverable = Records(Bytes(rest))
    BY <2>2, <2>3, NoRecords DEF Recoverable, Someone
  <2>5. Recoverable' = Records(Bytes(rest))
    BY <2>1, <2>2, <2>3, NoRecords DEF Recoverable, Someone
  <2>. QED
    BY <2>1, <2>4, <2>5, UnseenStutters DEF Unseen
<1>10. CASE RotateClear(r)
  <2>1. /\ UNCHANGED <<captured, queue, rest, merged>> /\ StoredEvents' = StoredEvents
        /\ rot'.phase = "none" /\ pc[r] = "clear" /\ Goto(r, "prune")
    BY <1>10 DEF RotateClear, At, db, StoredEvents, NoRotation
  <2>2. \A m \in {"markArchived", "mergeWrite"} : ~Someone(m) /\ ~Someone(m)'
    BY <1>0, <2>1, OnlyHolder, LabelKinds
  <2>3. rest = NoFile
    BY <1>0, <2>1 DEF TailOfRotation
  <2>4. Recoverable = Records(Bytes(queue)) /\ Recoverable' = Records(Bytes(queue))
    BY <2>1, <2>2, <2>3, NoRecords DEF Recoverable, Someone
  <2>. QED
    BY <2>1, <2>4, UnseenStutters DEF Unseen
<1>11. CASE RotatePrune(r)
  <2>1. \A m \in {"markArchived", "mergeWrite"} : Someone(m)' <=> Someone(m)
    BY <1>0, <1>11, StaysOutside DEF RotatePrune, At
  <2>. QED
    BY <1>11, <2>1, RecoverableKept, UnseenStutters DEF RotatePrune, db
<1>. QED
  BY <1>1, <1>2, <1>3, <1>4, <1>5, <1>6, <1>7, <1>8, <1>9, <1>10, <1>11 DEF Rotate

\* A death the deployment allows is invisible: the files stay, and recovery
\* will find in them what the run has left.
LEMMA FailImplements ==
  ASSUME Serial, Durability, NEW p \in Procs, Fail(p)
  PROVE  Unseen
<1>1. /\ UNCHANGED <<captured, queue, rest, merged, stored, rot>>
      /\ pc[p] \notin {"markArchived", "mergeWrite"} /\ Goto(p, "idle")
  BY DEF Fail, Serial, files, db
<1>2. \A m \in {"markArchived", "mergeWrite"} : Someone(m)' <=> Someone(m)
  BY <1>1, StaysOutside DEF Durability
<1>. QED
  BY <1>1, <1>2, RecoverableKept

----------------------------------------------------------------------------
(***************************************************************************)
(* The refinement.                                                         *)
(***************************************************************************)

\* Without files and processes the log is empty.
LEMMA InitImplements == Init => Log!LogInit
<1>. SUFFICES ASSUME Init PROVE Log!LogInit
  OBVIOUS
<1>1. captured = 0 /\ StoredEvents = {}
  BY DEF Init, StoredEvents
<1>2. Recoverable = {}
  BY NoRecords DEF Init, Recoverable, NoRotation
<1>. QED
  BY <1>1, <1>2 DEF Log!LogInit

\* Every step is a step of the log or invisible to it.
LEMMA StepImplements ==
  ASSUME Serial
  PROVE  Durability /\ [Next]_vars => [Log!LogNext]_(Log!logVars)
<1>. SUFFICES ASSUME Durability, [Next]_vars
              PROVE  [Log!LogNext]_(Log!logVars)
  OBVIOUS
<1>1. CASE Capture
  BY <1>1, CaptureImplements
<1>2. CASE TouchQueue
  BY <1>2, TouchImplements, UnseenStutters
<1>3. ASSUME NEW i \in Ingesters, IngestStart(i) \/ Ingest(i)
      PROVE  [Log!LogNext]_(Log!logVars)
  BY <1>3, IngestImplements
<1>4. ASSUME NEW r \in Rotators, RotateStart(r) \/ Rotate(r)
      PROVE  [Log!LogNext]_(Log!logVars)
  BY <1>4, RotateImplements
<1>5. ASSUME NEW p \in Procs, Fail(p)
      PROVE  [Log!LogNext]_(Log!logVars)
  BY <1>5, FailImplements, UnseenStutters
<1>6. CASE UNCHANGED vars
  <2>1. Unseen
    BY <1>6 DEF vars, Unseen, Recoverable, StoredEvents
  <2>. QED
    BY <2>1, UnseenStutters
<1>. QED
  BY <1>1, <1>2, <1>3, <1>4, <1>5, <1>6 DEF Next

\* Every serial deployment implements the abstract log: an event a hook has
\* handed over is kept until the store has it, and only then discarded,
\* through any number of rotations, deaths and recoveries.
THEOREM QueueIsALog == Serial => (Spec => ImplementsLog)
<1>. SUFFICES ASSUME Serial PROVE Spec => ImplementsLog
  OBVIOUS
<1>1. Durability /\ [Next]_vars => [Log!LogNext]_(Log!logVars)
  BY StepImplements
<1>2. Spec => []Durability
  BY AlwaysDurable
<1>. QED
  BY <1>1, <1>2, InitImplements, PTL DEF Spec, ImplementsLog, Log!LogSpec

----------------------------------------------------------------------------
(***************************************************************************)
(* What the archives cover.                                                *)
(***************************************************************************)

\* While the last archive has what was the queue, or a merge is not yet written,
\* the queue path has no record.
EmptyQueue ==
  \A p \in Procs :
    pc[p] \in {"markArchived", "restore", "mergeWrite"} => Bytes(queue) = <<>>

\* A step of one process that leaves the queue alone.
LEMMA EmptyKept ==
  ASSUME TypeOK, EmptyQueue, NEW p \in Procs, NEW l, Goto(p, l), queue' = queue,
         l \in {"markArchived", "restore", "mergeWrite"} => Bytes(queue) = <<>>
  PROVE  EmptyQueue'
<1>1. pc'[p] = l /\ \A q \in Procs : q # p => pc'[q] = pc[q]
  BY DEF Goto, TypeOK
<1>. QED
  BY <1>1 DEF EmptyQueue

\* A step of the lock holder that changes the queue.
LEMMA EmptyHolder ==
  ASSUME TypeOK, NEW p \in Procs, pc[p] \in Labels \cap Locked, NEW l, Goto(p, l),
         l \in {"markArchived", "restore", "mergeWrite"} => Bytes(queue') = <<>>
  PROVE  EmptyQueue'
<1>1. /\ pc'[p] = l
      /\ \A q \in Procs : q # p => pc[q] \in Outside /\ pc'[q] = pc[q]
  BY HolderStep
<1>. QED
  BY <1>1 DEF EmptyQueue, Outside

\* The lock keeps hooks and other runs from the queue path.
LEMMA EmptyNext == TypeOK /\ EmptyQueue /\ [Next]_vars => EmptyQueue'
<1>. SUFFICES ASSUME TypeOK, EmptyQueue, [Next]_vars PROVE EmptyQueue'
  OBVIOUS
<1>1. CASE Capture
  <2>1. \A q \in Procs : pc'[q] \in Outside
    BY <1>1, FreeStep DEF Capture
  <2>. QED
    BY <2>1 DEF EmptyQueue, Outside
<1>2. CASE TouchQueue
  BY <1>2, BytesOfFile, EmptySeq DEF TouchQueue, EmptyQueue
<1>3. ASSUME NEW p \in Procs, Recover(p)
      PROVE  EmptyQueue'
  <2>1. CASE LockRecovery(p)
    BY <2>1, EmptyKept DEF LockRecovery, files, AfterRecovery
  <2>2. CASE RestoreMark(p) \/ DropRest(p) \/ DropMerged(p) \/ NothingToMerge(p)
    BY <2>2, EmptyKept DEF RestoreMark, DropRest, DropMerged, NothingToMerge, At, files
  <2>3. CASE MergeTruncate(p)
    <3>1. Bytes(queue') = <<>>
      BY <2>3, BytesOfFile, EmptySeq DEF MergeTruncate
    <3>. QED
      BY <2>3, <3>1, EmptyHolder, LabelKinds DEF MergeTruncate, At
  <2>4. CASE MergeWrite(p)
    BY <2>4, EmptyHolder, LabelKinds DEF MergeWrite, At
  <2>5. CASE MoveRest(p)
    BY <2>5, EmptyHolder, LabelKinds DEF MoveRest, At
  <2>6. CASE ClearState(p)
    BY <2>6, EmptyKept DEF ClearState, At, AfterRecovery
  <2>. QED
    BY <1>3, <2>1, <2>2, <2>3, <2>4, <2>5, <2>6 DEF Recover
<1>4. ASSUME NEW i \in Ingesters, IngestStart(i) \/ Ingest(i)
      PROVE  EmptyQueue'
  <2>1. CASE IngestStart(i)
    BY <2>1, EmptyKept DEF IngestStart, Entry, AfterRecovery, files, Procs
  <2>2. CASE IngestLine(i)
    BY <2>2 DEF IngestLine, files, EmptyQueue
  <2>3. CASE IngestOpen(i) \/ IngestEof(i) \/ IngestRecord(i)
    BY <2>3, EmptyKept DEF IngestOpen, IngestEof, IngestRecord, At, files, Procs
  <2>. QED
    BY <1>3, <1>4, <2>1, <2>2, <2>3 DEF Ingest, Procs
<1>5. ASSUME NEW r \in Rotators, RotateStart(r) \/ Rotate(r)
      PROVE  EmptyQueue'
  <2>. USE DEF At, files, Procs
  <2>1. CASE RotateStart(r)
    BY <2>1, EmptyKept DEF RotateStart, Entry, AfterRecovery
  <2>2. CASE RotateSkip(r) \/ RotateCut(r) \/ RotatePrepare(r) \/ RotateZeroMark(r)
    BY <2>2, EmptyKept DEF RotateSkip, RotateCut, RotatePrepare, RotateZeroMark
  <2>3. CASE RotateArchive(r)
    BY <2>3, EmptyHolder, LabelKinds DEF RotateArchive, Bytes
  <2>4. CASE RotateMarkArchived(r)
    <3>1. Bytes(queue) = <<>>
      BY <2>4 DEF RotateMarkArchived, EmptyQueue
    <3>. QED
      BY <2>4, <3>1, EmptyKept DEF RotateMarkArchived
  <2>5. CASE RotateRestore(r)
    BY <2>5, EmptyHolder, LabelKinds DEF RotateRestore
  <2>6. CASE RotateClear(r) \/ RotatePrune(r)
    BY <2>6, EmptyKept DEF RotateClear, RotatePrune
  <2>. QED
    BY <1>3, <1>5, <2>1, <2>2, <2>3, <2>4, <2>5, <2>6 DEF Rotate
<1>6. ASSUME NEW p \in Procs, Fail(p)
      PROVE  EmptyQueue'
  BY <1>6, EmptyKept DEF Fail, files
<1>7. CASE UNCHANGED vars
  BY <1>7 DEF vars, EmptyQueue
<1>. QED
  BY <1>1, <1>2, <1>3, <1>4, <1>5, <1>6, <1>7 DEF Next

----------------------------------------------------------------------------
(***************************************************************************)
(* The archives.                                                           *)
(***************************************************************************)

InArchives == UNION {Records(archives[k]) : k \in 1 .. Len(archives)}

\* The events that are stored, in the queue, in an archive, or about to be
\* written back to the queue.
Kept ==
  StoredEvents \cup Records(Bytes(queue)) \cup InArchives
    \cup (IF Someone("mergeWrite") THEN Records(merged) ELSE {})

\* A step that touches neither queue nor archives, and writes no merge.
LEMMA KeptSame ==
  ASSUME TypeOK, NEW p \in Procs, NEW l, Goto(p, l),
         UNCHANGED <<queue, archives, merged>>,
         StoredEvents \subseteq StoredEvents',
         pc[p] # "mergeWrite"
  PROVE  Kept \subseteq Kept'
<1>1. pc'[p] = l /\ \A q \in Procs : q # p => pc'[q] = pc[q]
  BY DEF Goto, TypeOK
<1>2. Someone("mergeWrite") => Someone("mergeWrite")'
  BY <1>1 DEF Someone
<1>. QED
  BY <1>2 DEF Kept, InArchives

\* An archive is added at the end, and no earlier one is touched if names are
\* told apart.
LEMMA ArchivesGrow ==
  ASSUME TypeOK, ~Clash, NEW r, RotateArchive(r)
  PROVE  Records(Bytes(queue)) \cup InArchives \subseteq InArchives'
<1>1. archives' = Append(archives, Bytes(queue))
  BY DEF RotateArchive
<1>2. archives \in Seq(Seq(Nat)) /\ Bytes(queue) \in Seq(Nat)
  BY BytesType DEF TypeOK
<1>3. /\ Len(archives) \in Nat
      /\ Len(archives') = Len(archives) + 1
      /\ \A k \in 1 .. Len(archives) : archives'[k] = archives[k]
      /\ archives'[Len(archives) + 1] = Bytes(queue)
  BY <1>1, <1>2, LenProperties, AppendProperties
<1>4. \A k \in 1 .. Len(archives) : k \in 1 .. Len(archives')
  BY <1>3
<1>5. Len(archives) + 1 \in 1 .. Len(archives')
  BY <1>3
<1>6. InArchives \subseteq InArchives'
  BY <1>3, <1>4 DEF InArchives
<1>7. Records(Bytes(queue)) \subseteq InArchives'
  BY <1>3, <1>5 DEF InArchives
<1>. QED
  BY <1>6, <1>7

\* What a merge takes from the queue is in the last archive, or it is merged.
LEMMA MergeKeeps ==
  ASSUME TypeOK, NEW p \in Procs, MergeTruncate(p)
  PROVE  Kept \subseteq Kept'
<1>1. /\ queue \in Seq(Nat) /\ rest \in Seq(Nat) /\ LastArchive \in Seq(Nat)
      /\ StripArchived(queue, LastArchive) \in Seq(Nat)
      /\ Bytes(queue) = queue
  BY LastArchiveType, StripArchivedType, BytesOfFile DEF MergeTruncate, TypeOK
<1>2. Records(queue) \subseteq Records(LastArchive) \cup Records(merged')
  BY <1>1, RecordsOfStrip, RecordsOfConcat DEF MergeTruncate
<1>3. Records(LastArchive) \subseteq InArchives
  <2>1. CASE archives = <<>>
    BY <2>1, NoRecords DEF LastArchive
  <2>2. CASE archives # <<>>
    <3>1. Len(archives) \in 1 .. Len(archives)
      BY <2>2, EmptySeq, LenProperties DEF TypeOK
    <3>. QED
      BY <2>2, <3>1 DEF LastArchive, InArchives
  <2>. QED
    BY <2>1, <2>2
<1>4. Someone("mergeWrite")' /\ ~Someone("mergeWrite")
  <2>1. /\ pc'[p] = "mergeWrite" /\ pc[p] = "merge"
        /\ \A q \in Procs : q # p => pc[q] \in Outside /\ pc'[q] = pc[q]
    BY HolderStep, LabelKinds DEF MergeTruncate, At
  <2>. QED
    BY <2>1 DEF Someone, Outside
<1>5. UNCHANGED <<archives, stored>>
  BY DEF MergeTruncate, db
<1>. QED
  BY <1>1, <1>2, <1>3, <1>4, <1>5 DEF Kept, InArchives, StoredEvents

\* Where no archive is pruned or overwritten, and no run dies while a merge is
\* written, no step gives up an event.
LEMMA KeptNext ==
  ASSUME ~Clash, "mergeWrite" \notin FailPoints, TypeOK, TypeOK', EmptyQueue,
         Len(archives) <= Retention, Capturable \subseteq Kept, [Next]_vars
  PROVE  (Capturable \subseteq Kept)'
<1>1. CASE Capture
  <2>1. /\ queue' = Append(Bytes(queue), captured + 1)
        /\ captured' = captured + 1 /\ captured \in Nat
        /\ UNCHANGED <<archives, stored, merged, pc>>
    BY <1>1, HookQueueAssumption DEF Capture, db, TypeOK
  <2>2. Bytes(queue) \in Seq(Nat)
    BY BytesType DEF TypeOK
  <2>3. queue' \in Seq(Nat)
    BY <2>1, <2>2, AppendProperties
  <2>4. Records(Bytes(queue')) = Records(Bytes(queue)) \cup {captured + 1}
    <3>1. captured + 1 \in Nat
      BY <2>1
    <3>2. Bytes(queue') = queue'
      BY <2>3, BytesOfFile
    <3>. QED
      BY <2>1, <2>2, <3>1, <3>2, RecordsOfAppend
  <2>5. Capturable' \subseteq Capturable \cup {captured + 1}
    BY <2>1 DEF Capturable
  <2>. QED
    BY <2>1, <2>4, <2>5 DEF Kept, InArchives, StoredEvents, Someone
<1>2. CASE TouchQueue
  BY <1>2, NoRecords, BytesOfFile, EmptySeq
  DEF TouchQueue, db, Kept, InArchives, StoredEvents, Someone, Capturable
<1>3. ASSUME NEW p \in Procs, Recover(p)
      PROVE  (Capturable \subseteq Kept)'
  <2>. SUFFICES Kept \subseteq Kept'
    BY <1>3 DEF Recover, LockRecovery, RestoreMark, DropRest, MergeTruncate,
                MergeWrite, DropMerged, MoveRest, NothingToMerge, ClearState, Capturable
  <2>. USE DEF At, files, db
  <2>1. CASE \/ LockRecovery(p) \/ RestoreMark(p) \/ DropRest(p)
             \/ DropMerged(p) \/ NothingToMerge(p) \/ ClearState(p)
    <3>1. UNCHANGED <<queue, archives, merged, stored>> /\ pc[p] # "mergeWrite"
      BY <2>1 DEF LockRecovery, RestoreMark, DropRest, DropMerged, NothingToMerge,
                  ClearState
    <3>2. \E l : Goto(p, l)
      BY <2>1 DEF LockRecovery, RestoreMark, DropRest, DropMerged, NothingToMerge,
                  ClearState
    <3>. QED
      BY <3>1, <3>2, KeptSame DEF StoredEvents
  <2>2. CASE MergeTruncate(p)
    BY <2>2, MergeKeeps
  <2>3. CASE MergeWrite(p)
    <3>1. Bytes(queue) = <<>> /\ queue' = merged /\ UNCHANGED <<archives, stored>>
      BY <2>3 DEF MergeWrite, EmptyQueue
    <3>2. Records(Bytes(queue)) = {} /\ Bytes(queue') = merged
      BY <3>1, NoRecords, BytesOfFile DEF TypeOK
    <3>. QED
      BY <3>1, <3>2 DEF Kept, InArchives, StoredEvents
  <2>4. CASE MoveRest(p)
    <3>1. Records(Bytes(queue)) = {} /\ UNCHANGED <<archives, merged, stored>>
      BY <2>4, NoRecords DEF MoveRest
    <3>2. Someone("mergeWrite") => Someone("mergeWrite")'
      <4>1. pc[p] = "merge" /\ \A q \in Procs : q # p => pc'[q] = pc[q]
        BY <2>4 DEF MoveRest, Goto, TypeOK
      <4>. QED
        BY <4>1 DEF Someone
    <3>. QED
      BY <3>1, <3>2 DEF Kept, InArchives, StoredEvents
  <2>. QED
    BY <1>3, <2>1, <2>2, <2>3, <2>4 DEF Recover
<1>4. ASSUME NEW i \in Ingesters, IngestStart(i) \/ Ingest(i)
      PROVE  (Capturable \subseteq Kept)'
  <2>. USE DEF At, files, db, Procs
  <2>1. CASE IngestStart(i) \/ IngestOpen(i) \/ IngestEof(i) \/ IngestRecord(i)
    <3>1. UNCHANGED <<captured, queue, archives, merged, stored>> /\ pc[i] # "mergeWrite"
      BY <2>1 DEF IngestStart, IngestOpen, IngestEof, IngestRecord
    <3>2. \E l : Goto(i, l)
      BY <2>1 DEF IngestStart, IngestOpen, IngestEof, IngestRecord
    <3>. QED
      BY <3>1, <3>2, KeptSame DEF StoredEvents, Capturable
  <2>2. CASE IngestLine(i)
    <3>1. UNCHANGED <<captured, queue, archives, merged, pc>> /\ stored \subseteq stored'
      BY <2>2 DEF IngestLine
    <3>. QED
      BY <3>1 DEF StoredEvents, Capturable, Kept, InArchives, Someone
  <2>. QED
    BY <1>3, <1>4, <2>1, <2>2 DEF Ingest
<1>5. ASSUME NEW r \in Rotators, RotateStart(r) \/ Rotate(r)
      PROVE  (Capturable \subseteq Kept)'
  <2>. USE DEF At, files, db, Procs
  <2>1. CASE \/ RotateStart(r) \/ RotateSkip(r) \/ RotateCut(r) \/ RotatePrepare(r)
             \/ RotateZeroMark(r) \/ RotateMarkArchived(r) \/ RotateClear(r)
    <3>1. UNCHANGED <<captured, queue, archives, merged, stored>> /\ pc[r] # "mergeWrite"
      BY <2>1 DEF RotateStart, RotateSkip, RotateCut, RotatePrepare, RotateZeroMark,
                  RotateMarkArchived, RotateClear
    <3>2. \E l : Goto(r, l)
      BY <2>1 DEF RotateStart, RotateSkip, RotateCut, RotatePrepare, RotateZeroMark,
                  RotateMarkArchived, RotateClear
    <3>. QED
      BY <3>1, <3>2, KeptSame DEF StoredEvents, Capturable
  <2>2. ASSUME pc[r] # "mergeWrite", NEW l, Goto(r, l)
        PROVE  Someone("mergeWrite") => Someone("mergeWrite")'
    <3>1. \A q \in Procs : q # r => pc'[q] = pc[q]
      BY <2>2 DEF Goto, TypeOK
    <3>. QED
      BY <2>2, <3>1 DEF Someone
  <2>3. CASE RotateArchive(r)
    <3>1. Records(Bytes(queue)) \cup InArchives \subseteq InArchives'
      BY <2>3, ArchivesGrow
    <3>2. Someone("mergeWrite") => Someone("mergeWrite")'
      BY <2>2, <2>3 DEF RotateArchive
    <3>3. UNCHANGED <<captured, stored, merged>>
      BY <2>3 DEF RotateArchive
    <3>. QED
      BY <3>1, <3>2, <3>3 DEF Kept, StoredEvents, Capturable
  <2>4. CASE RotateRestore(r)
    <3>1. Bytes(queue) = <<>> /\ UNCHANGED <<captured, archives, stored, merged>>
      BY <2>4 DEF RotateRestore, EmptyQueue
    <3>2. Someone("mergeWrite") => Someone("mergeWrite")'
      BY <2>2, <2>4 DEF RotateRestore
    <3>. QED
      BY <3>1, <3>2, NoRecords DEF Kept, InArchives, StoredEvents, Capturable
  <2>5. CASE RotatePrune(r)
    <3>1. archives' = archives
      <4>1. Len(archives) \in Nat /\ Lesser(Retention, Len(archives)) = Len(archives)
        BY LenProperties, HookQueueAssumption DEF TypeOK, Lesser
      <4>2. Len(archives) - Lesser(Retention, Len(archives)) + 1 = 1
        BY <4>1
      <4>3. archives' = SubSeq(archives, 1, Len(archives))
        BY <2>5, <4>2 DEF RotatePrune, Newest
      <4>4. archives \in Seq(Seq(Nat))
        BY DEF TypeOK
      <4>. QED
        BY <4>1, <4>3, <4>4
    <3>2. UNCHANGED <<captured, queue, merged, stored>> /\ \E l : Goto(r, l)
      BY <2>5 DEF RotatePrune
    <3>3. pc[r] # "mergeWrite"
      BY <2>5 DEF RotatePrune
    <3>. QED
      BY <3>1, <3>2, <3>3, KeptSame DEF StoredEvents, Capturable
  <2>. QED
    BY <1>3, <1>5, <2>1, <2>3, <2>4, <2>5 DEF Rotate
<1>6. ASSUME NEW p \in Procs, Fail(p)
      PROVE  (Capturable \subseteq Kept)'
  <2>1. pc[p] # "mergeWrite" /\ UNCHANGED <<captured, queue, archives, merged, stored>>
    BY <1>6 DEF Fail, files, db
  <2>. QED
    BY <1>6, <2>1, KeptSame DEF Fail, StoredEvents, Capturable
<1>7. CASE UNCHANGED vars
  BY <1>7 DEF vars, Kept, InArchives, StoredEvents, Someone, Capturable
<1>. QED
  BY <1>1, <1>2, <1>3, <1>4, <1>5, <1>6, <1>7 DEF Next

\* Initially no queue has a record.
LEMMA KeptInit == Init => TypeOK /\ EmptyQueue /\ Capturable \subseteq Kept
<1>. SUFFICES ASSUME Init PROVE TypeOK /\ EmptyQueue /\ Capturable \subseteq Kept
  OBVIOUS
<1>1. EmptyQueue
  BY DEF Init, EmptyQueue
<1>2. Capturable = {}
  BY DEF Init, Capturable
<1>. QED
  BY <1>1, <1>2, TypeInit

\* However many ingest and maintenance runs overlap, and wherever they die but
\* while a merge is written, an event that neither the store nor a later run has
\* is in an archive, as long as no archive was pruned or overwritten.
THEOREM ArchivesCover ==
  ~Clash /\ "mergeWrite" \notin FailPoints =>
    (Spec /\ [](Len(archives) <= Retention) => []NothingVanishes)
<1>. SUFFICES ASSUME ~Clash, "mergeWrite" \notin FailPoints
              PROVE  Spec /\ [](Len(archives) <= Retention) => []NothingVanishes
  OBVIOUS
<1>. DEFINE Unpruned == Len(archives) <= Retention
            KeptInv  == TypeOK /\ EmptyQueue /\ Capturable \subseteq Kept
<1>1. KeptInv /\ Unpruned /\ [Next]_vars => KeptInv'
  BY TypeNext, EmptyNext, KeptNext
<1>2. KeptInv => NothingVanishes
  BY DEF Kept, InArchives, NothingVanishes, Recoverable, Someone
<1>3. Init => KeptInv
  BY KeptInit
<1>. HIDE DEF Unpruned, KeptInv
<1>4. Spec /\ []Unpruned => []NothingVanishes
  BY <1>1, <1>2, <1>3, PTL DEF Spec
<1>. QED
  BY <1>4 DEF Unpruned

----------------------------------------------------------------------------
(***************************************************************************)
(* The order of capture.                                                   *)
(***************************************************************************)

Increasing(s) == \A j, k \in 1 .. Len(s) : j < k => s[j] < s[k]

\* Captured events in the order of their capture.
Listed(s) == Increasing(s) /\ Records(s) \subseteq Capturable

Precedes(s, t) == \A x \in Records(s), y \in Records(t) : x < y

\* Nothing is in order, and before everything.
LEMMA EmptyListed ==
  /\ Listed(<<>>)
  /\ \A s : Precedes(s, <<>>) /\ Precedes(<<>>, s)
BY NoRecords DEF Listed, Increasing, Precedes

\* A larger record goes to the end.
LEMMA IncreasingAppend ==
  ASSUME NEW s \in Seq(Nat), NEW e \in Nat, Increasing(s),
         \A x \in Records(s) : x < e
  PROVE  Increasing(Append(s, e))
<1>1. /\ Len(s) \in Nat
      /\ Len(Append(s, e)) = Len(s) + 1
      /\ \A k \in 1 .. Len(s) : Append(s, e)[k] = s[k]
      /\ Append(s, e)[Len(s) + 1] = e
  BY LenProperties, AppendProperties
<1>2. SUFFICES ASSUME NEW j \in 1 .. Len(s) + 1, NEW k \in 1 .. Len(s) + 1, j < k
               PROVE  Append(s, e)[j] < Append(s, e)[k]
  BY <1>1 DEF Increasing
<1>3. j \in 1 .. Len(s) /\ (k \in 1 .. Len(s) \/ k = Len(s) + 1)
  BY <1>1, <1>2
<1>4. s[j] \in Records(s)
  BY <1>3 DEF Records
<1>5. CASE k \in 1 .. Len(s)
  BY <1>1, <1>2, <1>3, <1>5 DEF Increasing
<1>6. CASE k = Len(s) + 1
  BY <1>1, <1>3, <1>4, <1>6
<1>. QED
  BY <1>3, <1>5, <1>6

\* One file after another whose records are larger.
LEMMA IncreasingConcat ==
  ASSUME NEW s \in Seq(Nat), NEW t \in Seq(Nat), Increasing(s), Increasing(t),
         Precedes(s, t)
  PROVE  Increasing(s \o t)
<1>. DEFINE u == s \o t
<1>1. /\ Len(s) \in Nat /\ Len(t) \in Nat
      /\ Len(u) = Len(s) + Len(t)
      /\ \A k \in 1 .. Len(s) + Len(t) :
           u[k] = IF k <= Len(s) THEN s[k] ELSE t[k - Len(s)]
  BY LenProperties, ConcatProperties
<1>. HIDE DEF u
<1>2. ASSUME NEW j \in 1 .. Len(u), NEW k \in 1 .. Len(u), j < k
      PROVE  u[j] < u[k]
  <2>1. CASE k <= Len(s)
    <3>1. j \in 1 .. Len(s) /\ k \in 1 .. Len(s) /\ u[j] = s[j] /\ u[k] = s[k]
      BY <1>1, <1>2, <2>1
    <3>. QED
      BY <1>2, <3>1 DEF Increasing
  <2>2. CASE j <= Len(s) /\ ~(k <= Len(s))
    <3>1. /\ j \in 1 .. Len(s) /\ k - Len(s) \in 1 .. Len(t)
          /\ u[j] = s[j] /\ u[k] = t[k - Len(s)]
      BY <1>1, <1>2, <2>2
    <3>. QED
      BY <3>1 DEF Precedes, Records
  <2>3. CASE ~(j <= Len(s))
    <3>1. /\ j - Len(s) \in 1 .. Len(t) /\ k - Len(s) \in 1 .. Len(t)
          /\ j - Len(s) < k - Len(s)
          /\ u[j] = t[j - Len(s)] /\ u[k] = t[k - Len(s)]
      BY <1>1, <1>2, <2>3
    <3>. QED
      BY <3>1 DEF Increasing
  <2>. QED
    BY <2>1, <2>2, <2>3
<1>3. Increasing(u)
  BY <1>2 DEF Increasing
<1>. QED
  BY <1>3 DEF u

\* The records after a cut.
LEMMA TailIs ==
  ASSUME NEW s \in Seq(Nat), NEW c \in Nat, c <= Len(s)
  PROVE  LET t == SubSeq(s, c + 1, Len(s))
         IN  /\ t \in Seq(Nat)
             /\ Len(t) = Len(s) - c
             /\ \A k \in 1 .. Len(t) : c + k \in 1 .. Len(s) /\ t[k] = s[c + k]
<1>. DEFINE t == SubSeq(s, c + 1, Len(s))
<1>1. Len(s) \in Nat /\ \A k \in c + 1 .. Len(s) : s[k] \in Nat
  BY LenProperties, ElementOfSeq
<1>2. /\ t \in Seq(Nat)
      /\ Len(t) = IF c + 1 <= Len(s) THEN Len(s) - (c + 1) + 1 ELSE 0
      /\ \A k \in 1 .. Len(s) - (c + 1) + 1 : t[k] = s[c + 1 + k - 1]
  BY <1>1, SubSeqProperties
<1>. HIDE DEF t
<1>3. Len(t) = Len(s) - c
  BY <1>1, <1>2
<1>4. ASSUME NEW k \in 1 .. Len(t)
      PROVE  c + k \in 1 .. Len(s) /\ t[k] = s[c + k]
  <2>1. c + k \in 1 .. Len(s) /\ c + 1 + k - 1 = c + k
    BY <1>1, <1>3
  <2>. QED
    BY <1>1, <1>2, <1>3, <2>1
<1>5. t \in Seq(Nat)
  BY <1>2
<1>. QED
  BY <1>3, <1>4, <1>5 DEF t

\* What is left after a cut is in order, too.
LEMMA ListedTail ==
  ASSUME NEW s \in Seq(Nat), NEW c \in Nat, c <= Len(s), Listed(s)
  PROVE  Listed(SubSeq(s, c + 1, Len(s)))
<1>. DEFINE t == SubSeq(s, c + 1, Len(s))
<1>1. Records(t) \subseteq Capturable
  BY RecordsOfTail DEF Listed
<1>2. /\ Len(t) = Len(s) - c /\ Len(s) \in Nat
      /\ \A k \in 1 .. Len(t) : c + k \in 1 .. Len(s) /\ t[k] = s[c + k]
  BY TailIs, LenProperties
<1>. HIDE DEF t
<1>3. ASSUME NEW j \in 1 .. Len(t), NEW k \in 1 .. Len(t), j < k
      PROVE  t[j] < t[k]
  <2>1. c + j < c + k
    BY <1>3, <1>2
  <2>. QED
    BY <1>2, <2>1 DEF Listed, Increasing
<1>4. Listed(t)
  BY <1>1, <1>3 DEF Listed, Increasing
<1>. QED
  BY <1>4 DEF t

\* And what is left after the archived prefix is stripped.
LEMMA ListedStrip ==
  ASSUME NEW s \in Seq(Nat), NEW a \in Seq(Nat), Listed(s)
  PROVE  Listed(StripArchived(s, a))
BY ListedTail, LenProperties DEF StripArchived, StartsWith

----------------------------------------------------------------------------
\* A rotation that cuts the queue does not find an interrupted one.
CutApart ==
  \A r \in Rotators : pc[r] = "rotate" /\ mark > 0 => rot.phase # "archived"

QueueListed == Listed(Bytes(queue))

RestListed == Listed(Bytes(rest))

MergedListed == Someone("mergeWrite") => Listed(merged)

MergePhase == \A p \in Procs : pc[p] = "merge" => rot.phase = "archived"

\* The tail that recovery will put before the queue is older than the queue.
RestBefore ==
  rot.phase = "archived" /\ ~Someone("dropMerged") =>
    Precedes(Bytes(rest), Bytes(queue))

\* The inductive invariant behind QueueOrder.
Ordered == QueueListed /\ RestListed /\ MergedListed /\ MergePhase /\ RestBefore

\* A step that leaves the files alone and brings no one to a merge.
LEMMA OrderSame ==
  ASSUME TypeOK, Ordered, NEW p \in Procs, NEW l, Goto(p, l),
         UNCHANGED <<captured, queue, rest, merged>>,
         \/ rot' = rot
         \/ rot'.phase # "archived" /\ pc[p] \in Locked,
         l \notin {"merge", "mergeWrite"}, pc[p] # "dropMerged"
  PROVE  Ordered'
<1>1. pc'[p] = l /\ \A q \in Procs : q # p => pc'[q] = pc[q]
  BY DEF Goto, TypeOK
<1>2. Someone("dropMerged") => Someone("dropMerged")'
  BY <1>1 DEF Someone
<1>3. Someone("mergeWrite")' => Someone("mergeWrite")
  BY <1>1 DEF Someone
<1>4. QueueListed' /\ RestListed' /\ MergedListed'
  BY <1>3 DEF Ordered, QueueListed, RestListed, MergedListed, Listed, Capturable
<1>5. CASE rot' = rot
  BY <1>1, <1>2, <1>4, <1>5 DEF Ordered, MergePhase, RestBefore
<1>6. CASE rot'.phase # "archived" /\ pc[p] \in Locked
  <2>1. \A q \in Procs : q # p => pc[q] \notin Locked
    BY <1>6 DEF TypeOK
  <2>2. \A q \in Procs : pc'[q] # "merge"
    BY <1>1, <2>1, LabelKinds
  <2>. QED
    BY <1>4, <1>6, <2>2 DEF Ordered, MergePhase, RestBefore
<1>. QED
  BY <1>5, <1>6

\* A step of the lock holder that leaves no merge.
LEMMA OrderHolder ==
  ASSUME TypeOK, NEW p \in Procs, pc[p] \in Labels \cap Locked, NEW l, Goto(p, l),
         l \notin {"merge", "mergeWrite"}, QueueListed', RestListed',
         rot'.phase = "archived" /\ l # "dropMerged" =>
           Precedes(Bytes(rest'), Bytes(queue'))
  PROVE  Ordered'
<1>1. /\ pc'[p] = l
      /\ \A q \in Procs : q # p => pc[q] \in Outside /\ pc'[q] = pc[q]
  BY HolderStep
<1>. QED
  BY <1>1 DEF Ordered, MergedListed, MergePhase, RestBefore, Someone, Outside

\* Recovery puts the tail before what was appended meanwhile.
LEMMA OrderRecover ==
  ASSUME TypeOK, EmptyQueue, Ordered, NEW p \in Procs, Recover(p)
  PROVE  Ordered'
<1>. USE DEF At, files, db
<1>1. CASE LockRecovery(p)
  <2>1. CASE rot.phase = "none" /\ Goto(p, AfterRecovery(p))
    BY <1>1, <2>1, OrderSame DEF LockRecovery, AfterRecovery
  <2>2. CASE rot.phase = "prepared" /\ Goto(p, "restoreMark")
    BY <1>1, <2>2, OrderSame DEF LockRecovery
  <2>3. CASE rot.phase = "archived" /\ Goto(p, "merge")
    <3>1. \A q \in Procs : pc[q] \in Outside /\ pc'[q] \in Outside \cup {"merge"}
      BY <1>1, <2>3, FreeStep DEF LockRecovery, Goto, TypeOK
    <3>2. ~Someone("mergeWrite")' /\ ~Someone("dropMerged")
      BY <3>1 DEF Someone, Outside
    <3>3. UNCHANGED <<captured, queue, rest, rot>>
      BY <1>1 DEF LockRecovery
    <3>. QED
      BY <2>3, <3>2, <3>3
      DEF Ordered, QueueListed, RestListed, MergedListed, MergePhase, RestBefore,
          Listed, Capturable
  <2>. QED
    BY <1>1, <2>1, <2>2, <2>3 DEF LockRecovery, TypeOK, RotStates
<1>2. CASE RestoreMark(p)
  BY <1>2, OrderSame DEF RestoreMark
<1>3. CASE DropRest(p) \/ DropMerged(p)
  <2>1. /\ pc[p] \in Labels \cap Locked /\ Goto(p, "clearState")
        /\ rest' = NoFile /\ UNCHANGED <<captured, queue, rot>>
    BY <1>3, LabelKinds DEF DropRest, DropMerged
  <2>2. Bytes(rest') = <<>> /\ Listed(<<>>)'
    BY <2>1, NoRecords DEF Listed, Increasing
  <2>3. QueueListed'
    BY <2>1 DEF Ordered, QueueListed, Listed, Capturable
  <2>. QED
    BY <2>1, <2>2, <2>3, OrderHolder, EmptyListed DEF RestListed
<1>4. CASE MergeTruncate(p)
  <2>. DEFINE new == StripArchived(queue, LastArchive)
  <2>1. /\ pc[p] = "merge" /\ pc[p] \in Labels \cap Locked /\ Goto(p, "mergeWrite")
        /\ merged' = rest \o new /\ queue' = <<>>
        /\ UNCHANGED <<captured, rest, rot>>
    BY <1>4, LabelKinds DEF MergeTruncate
  <2>2. /\ pc'[p] = "mergeWrite"
        /\ \A q \in Procs : q # p => pc[q] \in Outside /\ pc'[q] = pc[q]
    BY <2>1, HolderStep
  <2>3. /\ queue \in Seq(Nat) /\ rest \in Seq(Nat) /\ LastArchive \in Seq(Nat)
        /\ Bytes(queue) = queue /\ Bytes(rest) = rest
    BY <1>4, LastArchiveType, BytesOfFile DEF MergeTruncate, TypeOK
  <2>4. Listed(queue) /\ Listed(rest)
    BY <2>3 DEF Ordered, QueueListed, RestListed
  <2>5. new \in Seq(Nat) /\ Listed(new) /\ Records(new) \subseteq Records(queue)
    BY <2>3, <2>4, StripArchivedType, ListedStrip, StripAddsNothing
  <2>6. Precedes(rest, queue)
    <3>1. rot.phase = "archived"
      BY <2>1 DEF Ordered, MergePhase
    <3>2. ~Someone("dropMerged")
      BY <2>1, <2>2 DEF Someone, Outside
    <3>. QED
      BY <2>3, <3>1, <3>2 DEF Ordered, RestBefore
  <2>. HIDE DEF new
  <2>7. Increasing(merged')
    BY <2>1, <2>3, <2>4, <2>5, <2>6, IncreasingConcat DEF Listed, Precedes
  <2>8. Records(merged') \subseteq Capturable
    BY <2>1, <2>3, <2>4, <2>5, RecordsOfConcat DEF Listed
  <2>9. Listed(merged)' /\ Listed(rest)'
    BY <2>1, <2>4, <2>7, <2>8 DEF Listed, Capturable, Increasing
  <2>10. Bytes(queue') = <<>> /\ Listed(<<>>)' /\ Bytes(rest') = rest'
    <3>1. Bytes(queue') = <<>>
      BY <2>1, BytesOfFile, EmptySeq
    <3>2. Listed(<<>>)'
      BY NoRecords DEF Listed, Increasing
    <3>. QED
      BY <2>1, <2>3, <3>1, <3>2
  <2>. QED
    BY <2>2, <2>9, <2>10, EmptyListed
    DEF Ordered, QueueListed, RestListed, MergedListed, MergePhase, RestBefore, Outside
<1>5. CASE MergeWrite(p)
  <2>1. /\ pc[p] = "mergeWrite" /\ pc[p] \in Labels \cap Locked
        /\ Goto(p, "dropMerged") /\ queue' = merged /\ UNCHANGED <<captured, rest>>
    BY <1>5, LabelKinds DEF MergeWrite
  <2>2. Listed(merged) /\ Bytes(merged) = merged
    BY <2>1, BytesOfFile DEF Ordered, MergedListed, Someone, TypeOK
  <2>3. QueueListed' /\ RestListed'
    BY <2>1, <2>2 DEF Ordered, QueueListed, RestListed, Listed, Capturable, Increasing
  <2>. QED
    BY <2>1, <2>3, OrderHolder
<1>6. CASE MoveRest(p)
  <2>1. /\ pc[p] \in Labels \cap Locked /\ Goto(p, "clearState")
        /\ queue' = rest /\ rest' = NoFile /\ UNCHANGED captured
    BY <1>6, LabelKinds DEF MoveRest
  <2>2. Bytes(rest') = <<>> /\ Listed(<<>>)'
    BY <2>1, NoRecords DEF Listed, Increasing
  <2>3. QueueListed' /\ RestListed'
    BY <2>1, <2>2 DEF Ordered, QueueListed, RestListed, Listed, Capturable
  <2>. QED
    BY <2>1, <2>2, <2>3, OrderHolder, EmptyListed
<1>7. CASE NothingToMerge(p)
  BY <1>7, OrderSame DEF NothingToMerge
<1>8. CASE ClearState(p)
  BY <1>8, OrderSame, LabelKinds DEF ClearState, AfterRecovery, NoRotation
<1>. QED
  BY <1>1, <1>2, <1>3, <1>4, <1>5, <1>6, <1>7, <1>8 DEF Recover

\* A rotation keeps the end of the queue, and puts it in the place of the queue.
LEMMA OrderRotate ==
  ASSUME TypeOK, TypeOK', EmptyQueue, CutApart, Ordered, NEW r \in Rotators,
         RotateStart(r) \/ Rotate(r)
  PROVE  Ordered'
<1>. USE DEF At, files, db, Procs
<1>1. CASE RotateStart(r)
  BY <1>1, OrderSame DEF RotateStart, Entry, AfterRecovery
<1>2. CASE RotateSkip(r) \/ RotateZeroMark(r) \/ RotatePrune(r)
  BY <1>2, OrderSame DEF RotateSkip, RotateZeroMark, RotatePrune
<1>3. CASE RotateCut(r)
  <2>1. /\ pc[r] = "rotate" /\ lock = NoProc /\ mark > 0 /\ Goto(r, "prepare")
        /\ cut' = Lesser(mark, Len(queue)) /\ rest' = SubSeq(queue, cut' + 1, Len(queue))
        /\ UNCHANGED <<captured, queue, rot, merged>>
    BY <1>3 DEF RotateCut
  <2>2. rot.phase # "archived"
    BY <2>1 DEF CutApart
  <2>3. queue \in Seq(Nat) /\ Bytes(queue) = queue
    BY <1>3, HookQueueAssumption, EmptySeq DEF RotateCut, Bytes, TypeOK
  <2>4. cut' \in Nat /\ cut' <= Len(queue)
    BY <2>1, <2>3, LesserBounds, LenProperties DEF TypeOK
  <2>5. Listed(queue)
    BY <2>3 DEF Ordered, QueueListed
  <2>6. rest' \in Seq(Nat) /\ Listed(rest')
    BY <2>1, <2>3, <2>4, <2>5, ListedTail, RecordsOfCut
  <2>7. Bytes(rest') = rest'
    BY <2>6, BytesOfFile
  <2>8. QueueListed' /\ RestListed'
    BY <2>1, <2>3, <2>5, <2>6, <2>7
    DEF QueueListed, RestListed, Listed, Capturable, Increasing
  <2>9. /\ pc'[r] = "prepare"
        /\ \A q \in Procs : pc[q] \in Outside /\ (q # r => pc'[q] = pc[q])
    BY <2>1, FreeStep DEF Goto, TypeOK
  <2>. QED
    BY <2>1, <2>2, <2>8, <2>9
    DEF Ordered, MergedListed, MergePhase, RestBefore, Someone, Outside
<1>4. CASE RotatePrepare(r)
  BY <1>4, OrderSame, LabelKinds DEF RotatePrepare
<1>5. CASE RotateArchive(r)
  <2>1. /\ pc[r] \in Labels \cap Locked /\ Goto(r, "markArchived")
        /\ queue' = NoFile /\ UNCHANGED <<captured, rest>>
    BY <1>5, LabelKinds DEF RotateArchive
  <2>2. Bytes(queue') = <<>> /\ Listed(<<>>)'
    BY <2>1, NoRecords DEF Listed, Increasing
  <2>3. QueueListed' /\ RestListed'
    BY <2>1, <2>2 DEF Ordered, QueueListed, RestListed, Listed, Capturable
  <2>. QED
    BY <2>1, <2>2, <2>3, OrderHolder, EmptyListed
<1>6. CASE RotateMarkArchived(r)
  <2>1. /\ pc[r] = "markArchived" /\ pc[r] \in Labels \cap Locked /\ Goto(r, "restore")
        /\ UNCHANGED <<captured, queue, rest>>
    BY <1>6, LabelKinds DEF RotateMarkArchived
  <2>2. Bytes(queue') = <<>>
    BY <2>1 DEF EmptyQueue
  <2>3. QueueListed' /\ RestListed'
    BY <2>1 DEF Ordered, QueueListed, RestListed, Listed, Capturable
  <2>. QED
    BY <2>1, <2>2, <2>3, OrderHolder, EmptyListed
<1>7. CASE RotateRestore(r)
  <2>1. /\ pc[r] \in Labels \cap Locked /\ Goto(r, "clear")
        /\ queue' = rest /\ rest' = NoFile /\ UNCHANGED captured
    BY <1>7, LabelKinds DEF RotateRestore
  <2>2. Bytes(rest') = <<>> /\ Listed(<<>>)'
    BY <2>1, NoRecords DEF Listed, Increasing
  <2>3. QueueListed' /\ RestListed'
    BY <2>1, <2>2 DEF Ordered, QueueListed, RestListed, Listed, Capturable
  <2>. QED
    BY <2>1, <2>2, <2>3, OrderHolder, EmptyListed
<1>8. CASE RotateClear(r)
  BY <1>8, OrderSame, LabelKinds DEF RotateClear, NoRotation
<1>. QED
  BY <1>1, <1>2, <1>3, <1>4, <1>5, <1>6, <1>7, <1>8, OrderRecover DEF Rotate

\* Every step keeps the order, unless a run dies between the writing of a merge
\* and the removal of the tail.
LEMMA OrderNext ==
  ASSUME "dropMerged" \notin FailPoints, TypeOK, TypeOK', EmptyQueue, CutApart,
         Ordered, [Next]_vars
  PROVE  Ordered'
<1>1. CASE Capture
  <2>1. /\ queue' = Append(Bytes(queue), captured + 1)
        /\ captured' = captured + 1 /\ captured \in Nat /\ captured + 1 \in Nat
        /\ lock = NoProc /\ UNCHANGED <<rest, rot, merged, pc>>
    BY <1>1, HookQueueAssumption DEF Capture, TypeOK
  <2>2. Bytes(queue) \in Seq(Nat)
    BY BytesType DEF TypeOK
  <2>3. queue' \in Seq(Nat)
    BY <2>1, <2>2, AppendProperties
  <2>4. Bytes(queue') = queue'
    BY <2>3, BytesOfFile
  <2>5. /\ Records(queue') = Records(Bytes(queue)) \cup {captured + 1}
        /\ Records(Bytes(queue)) \subseteq 1 .. captured
        /\ Records(Bytes(rest)) \subseteq 1 .. captured
    BY <2>1, <2>2, RecordsOfAppend
    DEF Ordered, QueueListed, RestListed, Listed, Capturable
  <2>6. \A x \in 1 .. captured : x < captured + 1
    BY <2>1
  <2>7. Increasing(queue')
    BY <2>1, <2>2, <2>5, <2>6, IncreasingAppend DEF Ordered, QueueListed, Listed
  <2>8. Capturable' = Capturable \cup {captured + 1}
    BY <2>1 DEF Capturable
  <2>9. QueueListed'
    BY <2>4, <2>5, <2>7, <2>8 DEF QueueListed, Listed, Capturable, Increasing
  <2>10. RestListed'
    BY <2>1, <2>8 DEF Ordered, RestListed, Listed, Increasing
  <2>11. MergedListed'
    <3>1. ~Someone("mergeWrite")'
      BY <2>1, FreeStep DEF Someone, Outside
    <3>. QED
      BY <3>1 DEF MergedListed
  <2>12. MergePhase'
    BY <2>1 DEF Ordered, MergePhase
  <2>13. RestBefore'
    <3>1. Precedes(Bytes(rest), Bytes(queue)) => Precedes(Bytes(rest), queue')
      BY <2>5, <2>6 DEF Precedes
    <3>. QED
      BY <2>1, <2>4, <3>1 DEF Ordered, RestBefore, Someone
  <2>. QED
    BY <2>9, <2>10, <2>11, <2>12, <2>13 DEF Ordered
<1>2. CASE TouchQueue
  <2>1. Bytes(queue') = <<>> /\ Bytes(queue) = <<>>
    BY <1>2, BytesOfFile, EmptySeq, NoRecords DEF TouchQueue
  <2>. QED
    BY <1>2, <2>1
    DEF TouchQueue, Ordered, QueueListed, RestListed, MergedListed, MergePhase,
        RestBefore, Listed, Capturable, Someone
<1>3. ASSUME NEW i \in Ingesters, IngestStart(i) \/ Ingest(i)
      PROVE  Ordered'
  <2>. USE DEF At, files, db, Procs
  <2>1. CASE IngestStart(i)
    BY <2>1, OrderSame DEF IngestStart, Entry, AfterRecovery
  <2>2. CASE IngestOpen(i) \/ IngestEof(i) \/ IngestRecord(i)
    BY <2>2, OrderSame DEF IngestOpen, IngestEof, IngestRecord
  <2>3. CASE IngestLine(i)
    BY <2>3
    DEF IngestLine, Ordered, QueueListed, RestListed, MergedListed, MergePhase,
        RestBefore, Listed, Capturable, Someone
  <2>. QED
    BY <1>3, <2>1, <2>2, <2>3, OrderRecover DEF Ingest
<1>4. ASSUME NEW r \in Rotators, RotateStart(r) \/ Rotate(r)
      PROVE  Ordered'
  BY <1>4, OrderRotate
<1>5. ASSUME NEW p \in Procs, Fail(p)
      PROVE  Ordered'
  BY <1>5, OrderSame DEF Fail, files
<1>6. CASE UNCHANGED vars
  BY <1>6
  DEF vars, Ordered, QueueListed, RestListed, MergedListed, MergePhase,
      RestBefore, Listed, Capturable, Someone
<1>. QED
  BY <1>1, <1>2, <1>3, <1>4, <1>5, <1>6 DEF Next

----------------------------------------------------------------------------
\* At most one maintenance run at a time.
OneRotator == \A q, r \in Rotators : q = r

\* The only maintenance run finds its own rotation finished.
RotateAlone == \A r \in Rotators : pc[r] = "rotate" => rot.phase = "none"

\* Only a rotation writes the state file, and recovery comes before it.
LEMMA AloneNext ==
  ASSUME OneRotator, TypeOK, RotateAlone, [Next]_vars
  PROVE  RotateAlone'
<1>. USE DEF At, files, db, Procs
<1>1. ASSUME NEW p \in Procs, NEW l, Goto(p, l), rot' = rot \/ rot'.phase = "none",
             l = "rotate" => rot'.phase = "none"
      PROVE  RotateAlone'
  <2>1. pc'[p] = l /\ \A q \in Procs : q # p => pc'[q] = pc[q]
    BY <1>1 DEF Goto, TypeOK
  <2>. QED
    BY <1>1, <2>1 DEF RotateAlone
<1>2. ASSUME NEW r \in Rotators, NEW l, Goto(r, l), l # "rotate"
      PROVE  RotateAlone'
  <2>1. pc'[r] = l
    BY <1>2 DEF Goto, TypeOK
  <2>. QED
    BY <1>2, <2>1 DEF RotateAlone, OneRotator
<1>3. CASE Capture \/ TouchQueue
  BY <1>3 DEF Capture, TouchQueue, RotateAlone
<1>4. ASSUME NEW p \in Procs, Recover(p)
      PROVE  RotateAlone'
  <2>1. CASE LockRecovery(p)
    BY <1>1, <2>1 DEF LockRecovery
  <2>2. CASE \/ RestoreMark(p) \/ DropRest(p) \/ MergeTruncate(p) \/ MergeWrite(p)
             \/ DropMerged(p) \/ MoveRest(p) \/ NothingToMerge(p)
    BY <1>1, <2>2 DEF RestoreMark, DropRest, MergeTruncate, MergeWrite, DropMerged,
                      MoveRest, NothingToMerge
  <2>3. CASE ClearState(p)
    BY <1>1, <2>3 DEF ClearState, NoRotation
  <2>. QED
    BY <1>4, <2>1, <2>2, <2>3 DEF Recover
<1>5. ASSUME NEW i \in Ingesters, IngestStart(i) \/ Ingest(i)
      PROVE  RotateAlone'
  <2>1. CASE IngestStart(i)
    BY <1>1, <2>1 DEF IngestStart, Entry
  <2>2. CASE IngestOpen(i) \/ IngestEof(i) \/ IngestRecord(i)
    BY <1>1, <2>2 DEF IngestOpen, IngestEof, IngestRecord
  <2>3. CASE IngestLine(i)
    BY <2>3 DEF IngestLine, RotateAlone
  <2>. QED
    BY <1>4, <1>5, <2>1, <2>2, <2>3 DEF Ingest
<1>6. ASSUME NEW r \in Rotators, RotateStart(r) \/ Rotate(r)
      PROVE  RotateAlone'
  <2>1. CASE RotateStart(r)
    <3>1. Goto(r, Entry(r)) /\ rot' = rot
      BY <2>1 DEF RotateStart
    <3>2. Entry(r) = "rotate" => rot.phase = "none"
      BY HookQueueAssumption DEF Entry
    <3>. QED
      BY <1>1, <3>1, <3>2
  <2>2. CASE \/ RotateSkip(r) \/ RotateCut(r) \/ RotatePrepare(r) \/ RotateZeroMark(r)
             \/ RotateArchive(r) \/ RotateMarkArchived(r) \/ RotateRestore(r)
             \/ RotateClear(r) \/ RotatePrune(r)
    BY <1>2, <2>2 DEF RotateSkip, RotateCut, RotatePrepare, RotateZeroMark,
                      RotateArchive, RotateMarkArchived, RotateRestore, RotateClear,
                      RotatePrune
  <2>. QED
    BY <1>4, <1>6, <2>1, <2>2 DEF Rotate
<1>7. ASSUME NEW p \in Procs, Fail(p)
      PROVE  RotateAlone'
  BY <1>1, <1>7 DEF Fail
<1>8. CASE UNCHANGED vars
  BY <1>8 DEF vars, RotateAlone
<1>. QED
  BY <1>3, <1>4, <1>5, <1>6, <1>7, <1>8 DEF Next

\* Initially the queue is empty and so is the tail.
LEMMA OrderInit == Init => Ordered /\ RotateAlone
<1>. SUFFICES ASSUME Init PROVE Ordered /\ RotateAlone
  OBVIOUS
<1>1. Bytes(queue) = <<>> /\ Bytes(rest) = <<>>
  BY NoRecords DEF Init
<1>2. \A q \in Procs : pc[q] = "idle"
  BY DEF Init
<1>. QED
  BY <1>1, <1>2, EmptyListed
  DEF Init, Ordered, QueueListed, RestListed, MergedListed, MergePhase, RestBefore,
      RotateAlone, Someone, NoRotation, Procs

\* The order of the records of the queue, as the property has it.
LEMMA OrderFollows == TypeOK /\ Ordered => QueueOrder
<1>1. CASE queue = NoFile
  BY <1>1, NoRecords DEF QueueOrder
<1>2. CASE queue # NoFile
  BY <1>2 DEF Ordered, QueueListed, Listed, Increasing, QueueOrder, Bytes
<1>. QED
  BY <1>1, <1>2

\* The queue lists events in the order of their capture and none twice, through
\* any rotations, deaths and recoveries: in every serial deployment, and even if
\* ingest and maintenance overlap, as long as there is one maintenance run at a
\* time; but not if a run dies between the writing of a merge and the removal of
\* the tail.
THEOREM OrderIsKept ==
  "dropMerged" \notin FailPoints /\ (Serial \/ OneRotator) => (Spec => []QueueOrder)
<1>. SUFFICES ASSUME "dropMerged" \notin FailPoints, Serial \/ OneRotator
              PROVE  Spec => []QueueOrder
  OBVIOUS
<1>1. Init => TypeOK /\ EmptyQueue /\ Ordered
  BY KeptInit, OrderInit
<1>2. TypeOK /\ EmptyQueue /\ Ordered /\ CutApart /\ [Next]_vars
        => (TypeOK /\ EmptyQueue /\ Ordered)'
  BY TypeNext, EmptyNext, OrderNext
<1>3. TypeOK /\ EmptyQueue /\ Ordered => QueueOrder
  BY OrderFollows
<1>4. ASSUME Serial PROVE Spec => []CutApart
  <2>1. Durability => CutApart
    BY DEF Durability, MarksSound, CutApart, TypeOK
  <2>2. Spec => []Durability
    BY <1>4, AlwaysDurable
  <2>. QED
    BY <2>1, <2>2, PTL
<1>5. ASSUME OneRotator PROVE Spec => []CutApart
  <2>1. Init => TypeOK /\ RotateAlone
    BY TypeInit, OrderInit
  <2>2. TypeOK /\ RotateAlone /\ [Next]_vars => (TypeOK /\ RotateAlone)'
    BY <1>5, TypeNext, AloneNext
  <2>3. RotateAlone => CutApart
    BY DEF RotateAlone, CutApart
  <2>. QED
    BY <2>1, <2>2, <2>3, PTL DEF Spec
<1>6. Spec => []CutApart
  BY <1>4, <1>5
<1>. QED
  BY <1>1, <1>2, <1>3, <1>6, PTL DEF Spec

----------------------------------------------------------------------------
(***************************************************************************)
(* No event twice.                                                         *)
(***************************************************************************)

\* Ingest runs one after another.
OneIngester == \A i, j \in Ingesters : i = j

Mending == {"restoreMark", "dropRest", "merge", "mergeWrite", "dropMerged", "clearState"}

Rotating == {"prepare", "zeroMark", "archive", "markArchived", "restore"}

\* No line before that of the event failed to parse.
Clean(e) == \A m \in Malformed : ~(m < e)

\* There is nothing to recover.
NothingToMend ==
  /\ \A p \in Procs : pc[p] \notin Mending
  /\ rot.phase # "none" => lock # NoProc

StoredCaptured == \A x \in stored : x[2] \in Capturable \ Malformed

StoredApart == \A x, y \in stored : x[2] = y[2] /\ Clean(x[2]) => x = y

\* The run that reads has come to line k.
Reading(k) == \E i \in Ingesters : pc[i] \in {"read", "record"} /\ k <= reader[i].pos

\* A stored event that is still in the queue is at the line it was stored with,
\* and the watermark covers it, or will when the run that reads has ended.
LinesKept ==
  \A x \in stored : \A k \in 1 .. Len(Bytes(queue)) :
    Bytes(queue)[k] = x[2] /\ Clean(x[2]) =>
      /\ k = x[1]
      /\ k <= mark \/ Reading(k) \/ \E r \in Rotators : pc[r] = "archive"

\* The tail of a rotation has no stored event, so that it may be renumbered.
RestFresh ==
  (\E p \in Procs : pc[p] \in Rotating) =>
    /\ Listed(Bytes(rest))
    /\ \A k \in 1 .. Len(Bytes(rest)) :
         Clean(Bytes(rest)[k]) => Bytes(rest)[k] \notin StoredEvents

\* What a run read and will not record as processed is malformed, or follows a
\* malformed line.
ReadersExact ==
  \A i \in Ingesters :
    /\ pc[i] = "record" => mark <= reader[i].pos
    /\ pc[i] \in {"read", "record"} =>
         /\ \A k \in 1 .. reader[i].pos :
              \/ k <= reader[i].done
              \/ ~Clean(Bytes(queue)[k])
              \/ Bytes(queue)[k] \in Malformed
         /\ reader[i].bad =>
              \E k \in 1 .. reader[i].pos : Bytes(queue)[k] \in Malformed

\* The inductive invariant behind NoDuplicateEvidence, as long as nothing fails.
Exact ==
  /\ NothingToMend
  /\ QueueListed
  /\ StoredCaptured
  /\ StoredApart
  /\ LinesKept
  /\ RestFresh
  /\ ReadersExact

\* A hook appends an event that no file has.
LEMMA CaptureListed ==
  ASSUME TypeOK, QueueListed, Capture
  PROVE  /\ QueueListed'
         /\ Len(Bytes(queue)) \in Nat
         /\ Len(Bytes(queue')) = Len(Bytes(queue)) + 1
         /\ \A k \in 1 .. Len(Bytes(queue)) : Bytes(queue')[k] = Bytes(queue)[k]
         /\ Bytes(queue')[Len(Bytes(queue)) + 1] = captured + 1
<1>1. /\ queue' = Append(Bytes(queue), captured + 1)
      /\ captured' = captured + 1 /\ captured \in Nat /\ captured + 1 \in Nat
  BY HookQueueAssumption DEF Capture, TypeOK
<1>2. Bytes(queue) \in Seq(Nat)
  BY BytesType DEF TypeOK
<1>3. queue' \in Seq(Nat)
  BY <1>1, <1>2, AppendProperties
<1>4. Bytes(queue') = queue'
  BY <1>3, BytesOfFile
<1>5. /\ Records(queue') = Records(Bytes(queue)) \cup {captured + 1}
      /\ Records(Bytes(queue)) \subseteq 1 .. captured
  BY <1>1, <1>2, RecordsOfAppend DEF QueueListed, Listed, Capturable
<1>6. \A x \in 1 .. captured : x < captured + 1
  BY <1>1
<1>7. Increasing(queue')
  BY <1>1, <1>2, <1>5, <1>6, IncreasingAppend DEF QueueListed, Listed
<1>8. Capturable' = Capturable \cup {captured + 1} /\ Capturable = 1 .. captured
  BY <1>1 DEF Capturable
<1>9. QueueListed'
  BY <1>4, <1>5, <1>7, <1>8 DEF QueueListed, Listed, Increasing
<1>10. /\ Len(Bytes(queue)) \in Nat
       /\ Len(queue') = Len(Bytes(queue)) + 1
       /\ \A k \in 1 .. Len(Bytes(queue)) : queue'[k] = Bytes(queue)[k]
       /\ queue'[Len(Bytes(queue)) + 1] = captured + 1
  BY <1>1, <1>2, LenProperties, AppendProperties
<1>. QED
  BY <1>4, <1>9, <1>10

\* A step from one label outside to another that leaves files and readers alone.
LEMMA ExactSame ==
  ASSUME TypeOK, Exact, NEW p \in Procs, NEW l, Goto(p, l),
         UNCHANGED <<captured, queue, rest, mark, stored, reader>>,
         rot'.phase # "none" => rot' = rot /\ lock' = lock,
         l \notin Mending \cup Rotating \cup {"read", "record"},
         pc[p] \notin {"read", "record", "archive"}
  PROVE  Exact'
<1>1. pc'[p] = l /\ \A q \in Procs : q # p => pc'[q] = pc[q]
  BY DEF Goto, TypeOK
<1>2. NothingToMend'
  BY <1>1 DEF Exact, NothingToMend
<1>3. QueueListed' /\ StoredCaptured' /\ StoredApart'
  BY DEF Exact, QueueListed, StoredCaptured, StoredApart, Listed, Capturable
<1>4. LinesKept'
  <2>1. \A i \in Ingesters : pc[i] \in {"read", "record"} => pc'[i] = pc[i]
    BY <1>1 DEF Procs
  <2>2. \A r \in Rotators : pc[r] = "archive" => pc'[r] = "archive"
    BY <1>1 DEF Procs
  <2>. QED
    BY <2>1, <2>2 DEF Exact, LinesKept, Reading
<1>5. RestFresh'
  BY <1>1 DEF Exact, RestFresh, Listed, Capturable, StoredEvents
<1>6. ReadersExact'
  BY <1>1 DEF Exact, ReadersExact, Procs
<1>. QED
  BY <1>2, <1>3, <1>4, <1>5, <1>6 DEF Exact

\* An append changes no line that was there.
LEMMA ExactCapture ==
  ASSUME Durability, Exact, Capture
  PROVE  Exact'
<1>. DEFINE q == Bytes(queue)
<1>1. /\ captured' = captured + 1 /\ lock = NoProc /\ captured \in Nat
      /\ UNCHANGED <<rest, mark, rot, stored, lock, pc, reader>>
  BY HookQueueAssumption DEF Capture, db, Durability, TypeOK
<1>2. /\ QueueListed' /\ Len(q) \in Nat /\ Len(Bytes(queue')) = Len(q) + 1
      /\ \A k \in 1 .. Len(q) : Bytes(queue')[k] = q[k]
      /\ Bytes(queue')[Len(q) + 1] = captured + 1
  BY CaptureListed DEF Durability, Exact
<1>3. NothingToMend' /\ StoredApart'
  BY <1>1 DEF Exact, NothingToMend, StoredApart
<1>4. StoredCaptured'
  BY <1>1 DEF Exact, StoredCaptured, Capturable
<1>5. LinesKept'
  <2>. SUFFICES ASSUME NEW x \in stored, NEW k \in 1 .. Len(q) + 1,
                       Bytes(queue')[k] = x[2], Clean(x[2])
                PROVE  /\ k = x[1]
                       /\ k <= mark \/ Reading(k) \/ \E r \in Rotators : pc[r] = "archive"
    BY <1>1, <1>2 DEF LinesKept, Reading
  <2>1. x[2] \in 1 .. captured
    BY DEF Exact, StoredCaptured, Capturable
  <2>2. x[2] # captured + 1
    BY <1>1, <2>1
  <2>3. k \in 1 .. Len(q)
    BY <1>2, <2>2
  <2>. QED
    BY <1>2, <2>3 DEF Exact, LinesKept
<1>6. RestFresh'
  <2>1. \A p \in Procs : pc'[p] \notin Rotating
    BY <1>1, FreeStep DEF Durability, Outside, Rotating
  <2>. QED
    BY <2>1 DEF RestFresh
<1>7. ReadersExact'
  <2>1. \A i \in Ingesters : pc[i] \in {"read", "record"} =>
          \A k \in 1 .. reader[i].pos : k \in 1 .. Len(q)
    <3>1. \A i \in Ingesters : reader[i].pos \in Nat
      BY DEF Durability, TypeOK, ReaderStates
    <3>. QED
      BY <1>2, <3>1 DEF Durability, ReadersSound
  <2>. QED
    BY <1>1, <1>2, <2>1 DEF Exact, ReadersExact
<1>. QED
  BY <1>2, <1>3, <1>4, <1>5, <1>6, <1>7 DEF Exact

\* Nothing is recovered, because a rotation that is not under way is complete.
LEMMA ExactRecover ==
  ASSUME Durability, Exact, NEW p \in Procs, Recover(p)
  PROVE  Exact'
<1>1. LockRecovery(p)
  BY DEF Recover, RestoreMark, DropRest, MergeTruncate, MergeWrite, DropMerged,
         MoveRest, NothingToMerge, ClearState, At, Exact, NothingToMend, Mending
<1>2. /\ pc[p] = "recover" /\ Goto(p, AfterRecovery(p))
      /\ UNCHANGED <<captured, queue, rest, mark, rot, lock, stored, reader>>
  BY <1>1 DEF LockRecovery, Exact, NothingToMend, files, db
<1>3. AfterRecovery(p) \in {"open", "rotate"}
  BY DEF AfterRecovery
<1>. QED
  BY <1>2, <1>3, ExactSame DEF Durability, Mending, Rotating

\* The steps of the only ingest run.
LEMMA ExactIngest ==
  ASSUME Durability, OneIngester, Exact, NEW i \in Ingesters, IngestStart(i) \/ Ingest(i)
  PROVE  Exact'
<1>. DEFINE q == Bytes(queue)
<1>0. i \in Procs /\ \A j \in Ingesters : j = i
  BY DEF OneIngester, Procs
<1>1. /\ reader[i].pos \in Nat /\ reader[i].done \in Nat /\ reader[i].bad \in BOOLEAN
      /\ mark \in Nat /\ Len(q) \in Nat /\ q \in Seq(Nat)
      /\ mark <= Len(q)
      /\ reader \in [Ingesters -> ReaderStates]
  <2>1. q \in Seq(Nat)
    BY BytesType DEF Durability, TypeOK
  <2>2. Len(q) \in Nat
    BY <2>1, LenProperties
  <2>3. mark <= Len(q) /\ mark \in Nat
    BY DEF Durability, MarksSound, Processed, TypeOK
  <2>. QED
    BY <2>1, <2>2, <2>3 DEF Durability, TypeOK, ReaderStates
<1>2. pc[i] \in {"open", "read", "record"} => \A r \in Rotators : pc[r] = "idle"
  BY DEF Durability, Apart
<1>3. pc[i] \in {"read", "record"} =>
        /\ reader[i].snap = NoFile /\ reader[i].done <= reader[i].pos
        /\ reader[i].pos <= Len(q) /\ FileOf(i) = q
  BY DEF Durability, ReadersSound, FileOf
<1>4. ASSUME NEW l, Goto(i, l)
      PROVE  pc'[i] = l /\ \A p \in Procs : p # i => pc'[p] = pc[p]
  BY <1>0, <1>4 DEF Goto, Durability, TypeOK
<1>5. CASE IngestStart(i)
  <2>1. Entry(i) \in {"open", "recover", "rotate"}
    BY DEF Entry, AfterRecovery
  <2>2. pc[i] = "idle" /\ Goto(i, Entry(i))
        /\ UNCHANGED <<captured, queue, rest, mark, rot, lock, stored, reader>>
    BY <1>5 DEF IngestStart, files, db
  <2>. QED
    BY <1>0, <2>1, <2>2, ExactSame DEF Durability, Mending, Rotating
<1>6. CASE IngestOpen(i)
  <2>1. /\ pc[i] = "open" /\ Goto(i, IF queue = NoFile THEN "record" ELSE "read")
        /\ reader' = [reader EXCEPT ![i] = NewReader]
        /\ UNCHANGED <<captured, queue, rest, mark, rot, lock, stored>>
    BY <1>6 DEF IngestOpen, At, files, db
  <2>2. /\ pc'[i] = IF queue = NoFile THEN "record" ELSE "read"
        /\ \A p \in Procs : p # i => pc'[p] = pc[p]
    BY <1>4, <2>1
  <2>3. reader'[i].pos = 0 /\ reader'[i].bad = FALSE
    BY <1>1, <2>1 DEF NewReader
  <2>4. NothingToMend'
    BY <2>1, <2>2 DEF Exact, NothingToMend, Mending
  <2>5. QueueListed' /\ StoredCaptured' /\ StoredApart'
    BY <2>1 DEF Exact, QueueListed, StoredCaptured, StoredApart, Listed, Capturable
  <2>6. \A k : ~Reading(k)
    BY <1>0, <2>1 DEF Reading
  <2>7. ~\E r \in Rotators : pc[r] = "archive"
    BY <1>2, <2>1
  <2>8. LinesKept'
    BY <2>1, <2>6, <2>7 DEF Exact, LinesKept
  <2>9. RestFresh'
    BY <2>1, <2>2 DEF Exact, RestFresh, Rotating, Listed, Capturable, StoredEvents
  <2>10. queue = NoFile => mark = 0
    BY <1>1, NoRecords
  <2>11. ReadersExact'
    BY <1>0, <2>1, <2>2, <2>3, <2>10 DEF ReadersExact
  <2>. QED
    BY <2>4, <2>5, <2>8, <2>9, <2>11 DEF Exact
<1>7. CASE IngestLine(i)
  <2>. DEFINE r    == reader[i]
              line == r.pos + 1
              e    == q[line]
              bad  == r.bad \/ e \in Malformed
  <2>1. /\ pc[i] = "read" /\ r.pos < Len(q)
        /\ IF e \in Malformed THEN stored' = stored ELSE stored' = stored \cup {<<line, e>>}
        /\ reader' = [reader EXCEPT ![i] =
                        [r EXCEPT !.pos = line, !.bad = bad,
                                  !.done = IF bad THEN r.done ELSE line]]
        /\ UNCHANGED <<captured, queue, rest, mark, rot, lock, pc>>
    BY <1>3, <1>7 DEF IngestLine, files
  <2>2. line \in 1 .. Len(q) /\ line \in Nat
    BY <1>1, <2>1
  <2>3. e \in Capturable /\ Increasing(q)
    BY <2>2 DEF Exact, QueueListed, Listed, Records
  <2>4. /\ reader'[i].pos = line /\ reader'[i].bad = bad
        /\ reader'[i].done = IF bad THEN r.done ELSE line
    BY <1>1, <2>1 DEF ReaderStates
  <2>5. NothingToMend' /\ QueueListed'
    BY <2>1 DEF Exact, NothingToMend, QueueListed, Listed, Capturable
  <2>6. \A x \in stored' : x \in stored \/ (x = <<line, e>> /\ e \notin Malformed)
    BY <2>1
  <2>7. StoredCaptured'
    <3>1. \A x \in stored' : x[2] \in Capturable \ Malformed
      BY <2>3, <2>6 DEF Exact, StoredCaptured
    <3>. QED
      BY <2>1, <3>1 DEF StoredCaptured, Capturable
  <2>8. ASSUME NEW x \in stored, x[2] = e, Clean(e) PROVE x = <<line, e>>
    <3>1. line = x[1]
      BY <2>2, <2>8 DEF Exact, LinesKept
    <3>2. x \in Nat \X Nat
      BY DEF Durability, TypeOK
    <3>. QED
      BY <2>8, <3>1, <3>2
  <2>9. StoredApart'
    BY <2>6, <2>8 DEF Exact, StoredApart
  <2>10. LinesKept'
    <3>. SUFFICES ASSUME NEW x \in stored',
                         NEW k \in 1 .. Len(q), q[k] = x[2], Clean(x[2])
                  PROVE  k = x[1] /\ (k <= mark \/ Reading(k)')
      BY <2>1 DEF LinesKept
    <3>1. CASE x \in stored
      <4>1. k = x[1]
        BY <3>1 DEF Exact, LinesKept
      <4>2. ~\E s \in Rotators : pc[s] = "archive"
        BY <1>2, <2>1
      <4>3. k <= mark \/ Reading(k)
        BY <3>1, <4>2 DEF Exact, LinesKept
      <4>4. Reading(k) => k <= r.pos
        BY <1>0 DEF Reading
      <4>5. k <= r.pos => k <= line
        BY <1>1
      <4>6. Reading(k) => Reading(k)'
        BY <2>1, <2>4, <4>4, <4>5 DEF Reading
      <4>. QED
        BY <4>1, <4>3, <4>6
    <3>2. CASE x = <<line, e>>
      <4>1. q[k] \in Nat /\ e \in Nat /\ k \in Nat
        BY SMTT(30), <1>1, <2>2, ElementOfSeq
      <4>2. k = line
        BY <2>2, <2>3, <3>2, <4>1 DEF Increasing
      <4>3. Reading(k)'
        BY <2>1, <2>2, <2>4, <4>2 DEF Reading
      <4>. QED
        BY <3>2, <4>2, <4>3
    <3>. QED
      BY <2>6, <3>1, <3>2
  <2>11. RestFresh'
    <3>1. \A p \in Procs : pc[p] \notin Rotating
      <4>1. \A s \in Rotators : pc[s] = "idle"
        BY <1>2, <2>1
      <4>. QED
        BY <1>0, <2>1, <4>1 DEF Procs, Rotating
    <3>. QED
      BY <2>1, <3>1 DEF RestFresh
  <2>12. \A k \in 1 .. line : \/ k <= reader'[i].done \/ ~Clean(q[k]) \/ q[k] \in Malformed
    <3>. SUFFICES ASSUME NEW k \in 1 .. line
                  PROVE  k <= reader'[i].done \/ ~Clean(q[k]) \/ q[k] \in Malformed
      OBVIOUS
    <3>1. CASE ~bad
      BY <2>4, <3>1
    <3>2. CASE bad /\ k # line
      <4>1. k \in 1 .. r.pos
        BY <1>1, <3>2
      <4>. QED
        BY <2>1, <2>4, <3>2, <4>1 DEF Exact, ReadersExact
    <3>3. CASE bad /\ k = line /\ r.bad
      <4>1. PICK m \in 1 .. r.pos : q[m] \in Malformed
        BY <2>1, <3>3 DEF Exact, ReadersExact
      <4>2. m \in 1 .. Len(q) /\ m < line
        BY <1>1, <2>2
      <4>3. q[m] < q[line]
        BY <2>2, <2>3, <4>2 DEF Increasing
      <4>. QED
        BY <3>3, <4>1, <4>3 DEF Clean
    <3>. QED
      BY <3>1, <3>2, <3>3
  <2>13. bad => \E k \in 1 .. line : q[k] \in Malformed
    <3>1. CASE r.bad
      <4>1. PICK m \in 1 .. r.pos : q[m] \in Malformed
        BY <2>1, <3>1 DEF Exact, ReadersExact
      <4>2. m \in 1 .. line
        BY <1>1
      <4>. QED
        BY <4>1, <4>2
    <3>2. CASE e \in Malformed
      BY <2>2, <3>2
    <3>. QED
      BY <3>1, <3>2
  <2>14. ReadersExact'
    <3>. HIDE DEF e, bad
    <3>1. pc'[i] = "read" /\ queue' = queue
      BY <2>1
    <3>. QED
      BY <1>0, <2>4, <2>12, <2>13, <3>1 DEF ReadersExact
  <2>. QED
    BY <2>5, <2>7, <2>9, <2>10, <2>11, <2>14 DEF Exact
<1>8. CASE IngestEof(i)
  <2>1. /\ pc[i] = "read" /\ Goto(i, "record") /\ reader[i].pos >= Len(q)
        /\ UNCHANGED <<captured, queue, rest, mark, rot, lock, stored, reader>>
    BY <1>3, <1>8 DEF IngestEof, At, files, db
  <2>2. pc'[i] = "record" /\ \A p \in Procs : p # i => pc'[p] = pc[p]
    BY <1>4, <2>1
  <2>3. NothingToMend' /\ QueueListed' /\ StoredCaptured' /\ StoredApart'
    BY <2>1, <2>2
    DEF Exact, NothingToMend, Mending, QueueListed, StoredCaptured, StoredApart,
        Listed, Capturable
  <2>4. \A k : Reading(k) => Reading(k)'
    BY <1>0, <2>1, <2>2 DEF Reading
  <2>5. ~\E r \in Rotators : pc[r] = "archive"
    BY <1>2, <2>1
  <2>6. LinesKept'
    BY <2>1, <2>4, <2>5 DEF Exact, LinesKept
  <2>7. RestFresh'
    BY <2>1, <2>2 DEF Exact, RestFresh, Rotating, Listed, Capturable, StoredEvents
  <2>8. mark <= reader[i].pos
    BY <1>1, <2>1
  <2>9. ReadersExact'
    BY <1>0, <2>1, <2>2, <2>8 DEF Exact, ReadersExact
  <2>. QED
    BY <2>3, <2>6, <2>7, <2>9 DEF Exact
<1>9. CASE IngestRecord(i)
  <2>1. /\ pc[i] = "record" /\ Goto(i, "idle")
        /\ mark' = IF queue = NoFile THEN mark ELSE reader[i].done
        /\ UNCHANGED <<captured, queue, rest, rot, lock, stored>>
    BY <1>9 DEF IngestRecord, At, db
  <2>2. pc'[i] = "idle" /\ \A p \in Procs : p # i => pc'[p] = pc[p]
    BY <1>4, <2>1
  <2>3. NothingToMend' /\ QueueListed' /\ StoredCaptured' /\ StoredApart'
    BY <2>1, <2>2
    DEF Exact, NothingToMend, Mending, QueueListed, StoredCaptured, StoredApart,
        Listed, Capturable
  <2>4. LinesKept'
    <3>. SUFFICES ASSUME NEW x \in stored, NEW k \in 1 .. Len(q), q[k] = x[2], Clean(x[2])
                  PROVE  k = x[1] /\ k <= mark'
      BY <2>1 DEF LinesKept
    <3>1. k = x[1] /\ (k <= mark \/ Reading(k) \/ \E r \in Rotators : pc[r] = "archive")
      BY DEF Exact, LinesKept
    <3>2. ~\E r \in Rotators : pc[r] = "archive"
      BY <1>2, <2>1
    <3>3. mark <= reader[i].pos
      BY <2>1 DEF Exact, ReadersExact
    <3>4. Reading(k) => k <= reader[i].pos
      BY <1>0 DEF Reading
    <3>5. k \in 1 .. reader[i].pos
      BY <1>1, <3>1, <3>2, <3>3, <3>4
    <3>6. x[2] \notin Malformed
      BY DEF Exact, StoredCaptured
    <3>7. k <= reader[i].done
      BY <2>1, <3>5, <3>6 DEF Exact, ReadersExact
    <3>8. queue # NoFile
      BY <1>1, NoRecords
    <3>. QED
      BY <2>1, <3>1, <3>7, <3>8
  <2>5. RestFresh'
    BY <2>1, <2>2 DEF Exact, RestFresh, Rotating, Listed, Capturable, StoredEvents
  <2>6. ReadersExact'
    BY <1>0, <2>2 DEF ReadersExact
  <2>. QED
    BY <2>3, <2>4, <2>5, <2>6 DEF Exact
<1>. QED
  BY <1>0, <1>5, <1>6, <1>7, <1>8, <1>9, ExactRecover DEF Ingest

\* A step of a rotation that goes on under the lock: no one reads meanwhile.
LEMMA ExactUnderLock ==
  ASSUME Durability, Exact, NEW r \in Rotators, pc[r] \in Labels \cap Locked,
         NEW l, Goto(r, l), l \notin Mending, lock' = lock,
         UNCHANGED <<captured, stored>>, QueueListed', LinesKept',
         l \in Rotating => RestFresh' /\ pc[r] \in Rotating
  PROVE  Exact'
<1>1. r \in Procs /\ lock = r /\ pc'[r] = l
      /\ \A p \in Procs : p # r => pc[p] \in Outside /\ pc'[p] = pc[p]
  BY HolderStep DEF Durability, Procs
<1>2. NothingToMend'
  BY <1>1, HookQueueAssumption DEF NothingToMend, Mending, Outside
<1>3. StoredCaptured' /\ StoredApart'
  BY DEF Exact, StoredCaptured, StoredApart, Capturable
<1>4. RestFresh'
  <2>1. CASE l \in Rotating
    BY <2>1
  <2>2. CASE l \notin Rotating
    BY <1>1, <2>2 DEF RestFresh, Outside, Rotating
  <2>. QED
    BY <2>1, <2>2
<1>5. ReadersExact'
  <2>1. pc[r] # "idle"
    BY LabelKinds
  <2>2. \A i \in Ingesters : pc[i] = "idle" /\ i # r
    BY <2>1, HookQueueAssumption DEF Durability, Apart
  <2>3. \A i \in Ingesters : pc'[i] = "idle"
    BY <1>1, <2>2 DEF Procs
  <2>. QED
    BY <2>3 DEF ReadersExact
<1>. QED
  BY <1>2, <1>3, <1>4, <1>5 DEF Exact

\* What a rotation renumbers is not stored yet.
LEMMA ExactRotate ==
  ASSUME Durability, Durability', Exact, NEW r \in Rotators, RotateStart(r) \/ Rotate(r)
  PROVE  Exact'
<1>. USE DEF At, files, db
<1>0. r \in Procs
  BY DEF Procs
<1>1. CASE RotateStart(r)
  <2>1. Entry(r) \in {"open", "recover", "rotate"}
    BY DEF Entry, AfterRecovery
  <2>2. pc[r] = "idle" /\ Goto(r, Entry(r))
        /\ UNCHANGED <<captured, queue, rest, mark, rot, lock, stored, reader>>
    BY <1>1 DEF RotateStart
  <2>. QED
    BY <1>0, <2>1, <2>2, ExactSame DEF Durability, Mending, Rotating
<1>2. CASE RotateSkip(r) \/ RotatePrune(r)
  <2>1. /\ pc[r] \in {"rotate", "prune"} /\ Goto(r, "idle")
        /\ UNCHANGED <<captured, queue, rest, mark, rot, lock, stored, reader>>
    BY <1>2 DEF RotateSkip, RotatePrune
  <2>. QED
    BY <1>0, <2>1, ExactSame DEF Durability, Mending, Rotating
<1>3. CASE RotateCut(r)
  <2>1. /\ pc[r] = "rotate" /\ lock = NoProc /\ lock' = r /\ Goto(r, "prepare")
        /\ cut' = Lesser(mark, Len(queue)) /\ rest' = SubSeq(queue, cut' + 1, Len(queue))
        /\ UNCHANGED <<captured, queue, mark, rot, stored>>
    BY <1>3 DEF RotateCut
  <2>2. /\ pc'[r] = "prepare"
        /\ \A p \in Procs : pc[p] \in Outside /\ (p # r => pc'[p] = pc[p])
    BY <1>0, <2>1, FreeStep DEF Goto, Durability, TypeOK
  <2>3. queue \in Seq(Nat) /\ Bytes(queue) = queue
    BY <1>3, HookQueueAssumption, EmptySeq DEF RotateCut, Bytes, Durability, TypeOK
  <2>4. Len(queue) \in Nat /\ mark \in Nat /\ mark <= Len(queue)
    BY <2>3, LenProperties DEF Durability, TypeOK, MarksSound, Processed
  <2>5. cut' = mark
    BY <2>1, <2>4 DEF Lesser
  <2>6. Listed(queue)
    BY <2>3 DEF Exact, QueueListed
  <2>7. /\ rest' \in Seq(Nat) /\ Listed(rest')
        /\ \A k \in 1 .. Len(rest') : mark + k \in 1 .. Len(queue) /\ rest'[k] = queue[mark + k]
    <3>1. rest' = SubSeq(queue, mark + 1, Len(queue))
      BY <2>1, <2>5
    <3>2. Listed(rest')
      BY <2>3, <2>4, <2>6, <3>1, ListedTail
    <3>3. /\ rest' \in Seq(Nat)
          /\ \A k \in 1 .. Len(rest') : mark + k \in 1 .. Len(queue) /\ rest'[k] = queue[mark + k]
      BY <2>3, <2>4, <3>1, TailIs
    <3>. QED
      BY <3>2, <3>3
  <2>8. Bytes(rest') = rest' /\ Len(rest') \in Nat
    BY <2>7, BytesOfFile, LenProperties
  <2>9. \A i \in Ingesters : pc[i] = "idle" /\ pc'[i] = "idle"
    BY <2>1, <2>2, HookQueueAssumption DEF Durability, Apart, Procs
  <2>10. ASSUME NEW k \in 1 .. Len(rest'), Clean(rest'[k]), NEW x \in stored,
                x[2] = rest'[k]
         PROVE  FALSE
    <3>1. mark + k \in 1 .. Len(queue) /\ queue[mark + k] = x[2]
      BY <2>7, <2>10
    <3>2. \/ mark + k <= mark \/ Reading(mark + k)
          \/ \E s \in Rotators : pc[s] = "archive"
      BY <2>3, <2>10, <3>1 DEF Exact, LinesKept
    <3>3. ~(mark + k <= mark)
      BY <2>4, <2>8
    <3>4. ~Reading(mark + k)
      BY <2>9 DEF Reading
    <3>5. ~\E s \in Rotators : pc[s] = "archive"
      BY <2>2 DEF Outside, Procs
    <3>. QED
      BY <3>2, <3>3, <3>4, <3>5
  <2>11. RestFresh'
    <3>1. Listed(Bytes(rest))'
      BY <2>1, <2>7, <2>8 DEF Listed, Increasing, Capturable
    <3>2. \A k \in 1 .. Len(rest') : Clean(rest'[k]) => rest'[k] \notin StoredEvents'
      BY <2>1, <2>10 DEF StoredEvents
    <3>. QED
      BY <2>8, <3>1, <3>2 DEF RestFresh
  <2>12. NothingToMend'
    BY <1>0, <2>1, <2>2, HookQueueAssumption DEF NothingToMend, Mending, Outside
  <2>13. QueueListed' /\ StoredCaptured' /\ StoredApart'
    BY <2>1 DEF Exact, QueueListed, StoredCaptured, StoredApart, Listed, Capturable
  <2>14. \A k : ~Reading(k)
    BY <2>9 DEF Reading
  <2>15. ~\E s \in Rotators : pc[s] = "archive"
    BY <2>2 DEF Outside, Procs
  <2>16. LinesKept'
    BY <2>1, <2>14, <2>15 DEF Exact, LinesKept
  <2>17. ReadersExact'
    BY <2>9 DEF ReadersExact
  <2>. QED
    BY <2>11, <2>12, <2>13, <2>16, <2>17 DEF Exact
<1>4. CASE RotatePrepare(r)
  <2>1. /\ pc[r] = "prepare" /\ pc[r] \in Labels \cap Locked /\ Goto(r, "zeroMark")
        /\ UNCHANGED <<captured, queue, rest, mark, lock, stored, reader>>
    BY <1>4, LabelKinds DEF RotatePrepare
  <2>2. /\ pc'[r] = "zeroMark"
        /\ \A p \in Procs : p # r => pc[p] \in Outside /\ pc'[p] = pc[p]
    BY <1>0, <2>1, HolderStep DEF Durability
  <2>3. QueueListed'
    BY <2>1 DEF Exact, QueueListed, Listed, Capturable
  <2>4. RestFresh'
    BY <1>0, <2>1 DEF Exact, RestFresh, Rotating, Listed, Capturable, StoredEvents
  <2>5. \A i \in Ingesters : pc[i] = "idle"
    BY <2>1, HookQueueAssumption DEF Durability, Apart
  <2>6. LinesKept'
    <3>1. \A k : ~Reading(k)
      BY <2>5 DEF Reading
    <3>2. ~\E s \in Rotators : pc[s] = "archive"
      BY <1>0, <2>1, <2>2 DEF Outside, Procs
    <3>. QED
      BY <2>1, <3>1, <3>2 DEF Exact, LinesKept
  <2>. QED
    BY <2>1, <2>3, <2>4, <2>6, ExactUnderLock DEF Mending, Rotating
<1>5. CASE RotateZeroMark(r)
  <2>1. /\ pc[r] = "zeroMark" /\ pc[r] \in Labels \cap Locked /\ Goto(r, "archive")
        /\ UNCHANGED <<captured, queue, rest, lock, stored>>
    BY <1>5, LabelKinds DEF RotateZeroMark
  <2>2. pc'[r] = "archive"
    BY <1>0, <2>1, HolderStep DEF Durability
  <2>3. QueueListed'
    BY <2>1 DEF Exact, QueueListed, Listed, Capturable
  <2>4. RestFresh'
    BY <1>0, <2>1 DEF Exact, RestFresh, Rotating, Listed, Capturable, StoredEvents
  <2>5. LinesKept'
    BY <2>1, <2>2 DEF Exact, LinesKept
  <2>. QED
    BY <2>1, <2>3, <2>4, <2>5, ExactUnderLock DEF Mending, Rotating
<1>6. CASE RotateArchive(r)
  <2>1. /\ pc[r] = "archive" /\ pc[r] \in Labels \cap Locked /\ Goto(r, "markArchived")
        /\ queue' = NoFile /\ UNCHANGED <<captured, rest, lock, stored>>
    BY <1>6, LabelKinds DEF RotateArchive
  <2>2. Bytes(queue') = <<>> /\ Listed(<<>>)' /\ Len(<<>>) = 0
    BY <2>1, NoRecords DEF Listed, Increasing
  <2>3. QueueListed'
    BY <2>2 DEF QueueListed
  <2>4. RestFresh'
    BY <1>0, <2>1 DEF Exact, RestFresh, Rotating, Listed, Capturable, StoredEvents
  <2>5. LinesKept'
    BY <2>2 DEF LinesKept
  <2>. QED
    BY <2>1, <2>3, <2>4, <2>5, ExactUnderLock DEF Mending, Rotating
<1>7. CASE RotateMarkArchived(r)
  <2>1. /\ pc[r] = "markArchived" /\ pc[r] \in Labels \cap Locked /\ Goto(r, "restore")
        /\ UNCHANGED <<captured, queue, rest, lock, stored>>
    BY <1>7, LabelKinds DEF RotateMarkArchived
  <2>2. Bytes(queue') = <<>> /\ Len(<<>>) = 0
    BY <1>0, <2>1, NoRecords DEF Durability, TailOfRotation
  <2>3. QueueListed'
    BY <2>1 DEF Exact, QueueListed, Listed, Capturable
  <2>4. RestFresh'
    BY <1>0, <2>1 DEF Exact, RestFresh, Rotating, Listed, Capturable, StoredEvents
  <2>5. LinesKept'
    BY <2>2 DEF LinesKept
  <2>. QED
    BY <2>1, <2>3, <2>4, <2>5, ExactUnderLock DEF Mending, Rotating
<1>8. CASE RotateRestore(r)
  <2>1. /\ pc[r] = "restore" /\ pc[r] \in Labels \cap Locked /\ Goto(r, "clear")
        /\ queue' = rest /\ UNCHANGED <<captured, lock, stored>>
    BY <1>8, LabelKinds DEF RotateRestore
  <2>2. /\ Listed(Bytes(rest))
        /\ \A k \in 1 .. Len(Bytes(rest)) :
             Clean(Bytes(rest)[k]) => Bytes(rest)[k] \notin StoredEvents
    BY <1>0, <2>1 DEF Exact, RestFresh, Rotating
  <2>3. QueueListed'
    BY <2>1, <2>2 DEF QueueListed, Listed, Capturable
  <2>4. LinesKept'
    BY <2>1, <2>2 DEF LinesKept, StoredEvents
  <2>. QED
    BY <2>1, <2>3, <2>4, ExactUnderLock DEF Mending, Rotating
<1>9. CASE RotateClear(r)
  <2>1. /\ pc[r] = "clear" /\ Goto(r, "prune") /\ rot'.phase = "none"
        /\ UNCHANGED <<captured, queue, rest, mark, stored, reader>>
    BY <1>9 DEF RotateClear, NoRotation
  <2>. QED
    BY <1>0, <2>1, ExactSame DEF Durability, Mending, Rotating
<1>. QED
  BY <1>0, <1>1, <1>2, <1>3, <1>4, <1>5, <1>6, <1>7, <1>8, <1>9, ExactRecover DEF Rotate

\* As long as nothing fails, every step keeps the lines of stored events.
LEMMA ExactNext ==
  ASSUME OneIngester, Durability, Durability', fails = 0 => Exact, [Next]_vars
  PROVE  (fails = 0 => Exact)'
<1>. SUFFICES ASSUME fails' = 0 PROVE Exact'
  OBVIOUS
<1>1. CASE Capture
  BY <1>1, ExactCapture DEF Capture
<1>2. CASE TouchQueue
  <2>1. Bytes(queue') = <<>> /\ Bytes(queue) = <<>> /\ fails = 0
        /\ UNCHANGED <<captured, rest, mark, rot, stored, lock, pc, reader>>
    BY <1>2, BytesOfFile, EmptySeq, NoRecords DEF TouchQueue, db
  <2>. QED
    BY <2>1 DEF Exact, NothingToMend, QueueListed, Listed, Capturable, StoredCaptured,
      StoredApart, LinesKept, Reading, RestFresh, StoredEvents, ReadersExact
<1>3. ASSUME NEW i \in Ingesters, IngestStart(i) \/ Ingest(i)
      PROVE  Exact'
  <2>1. fails = 0
    BY <1>3 DEF Ingest, Recover, IngestStart, IngestOpen, IngestLine, IngestEof,
      IngestRecord, LockRecovery, RestoreMark, DropRest, MergeTruncate, MergeWrite,
      DropMerged, MoveRest, NothingToMerge, ClearState
  <2>. QED
    BY <1>3, <2>1, ExactIngest
<1>4. ASSUME NEW r \in Rotators, RotateStart(r) \/ Rotate(r)
      PROVE  Exact'
  <2>1. fails = 0
    BY <1>4 DEF Rotate, Recover, RotateStart, RotateSkip, RotateCut, RotatePrepare,
      RotateZeroMark, RotateArchive, RotateMarkArchived, RotateRestore, RotateClear,
      RotatePrune, LockRecovery, RestoreMark, DropRest, MergeTruncate, MergeWrite,
      DropMerged, MoveRest, NothingToMerge, ClearState
  <2>. QED
    BY <1>4, <2>1, ExactRotate
<1>5. ASSUME NEW p \in Procs, Fail(p)
      PROVE  FALSE
  <2>1. fails' = fails + 1 /\ fails \in Nat
    BY <1>5, HookQueueAssumption DEF Fail, Durability, TypeOK
  <2>. QED
    BY <2>1
<1>6. CASE UNCHANGED vars
  BY <1>6
  DEF vars, Exact, NothingToMend, QueueListed, Listed, Capturable, StoredCaptured,
      StoredApart, LinesKept, Reading, RestFresh, StoredEvents, ReadersExact
<1>. QED
  BY <1>1, <1>2, <1>3, <1>4, <1>5, <1>6 DEF Next

\* Initially nothing is stored, and no run is under way.
LEMMA ExactInit == Init => Exact
<1>. SUFFICES ASSUME Init PROVE Exact
  OBVIOUS
<1>1. Bytes(queue) = <<>> /\ stored = {} /\ rot.phase = "none"
      /\ \A p \in Procs : pc[p] = "idle"
  BY NoRecords DEF Init, NoRotation
<1>. QED
  BY <1>1, EmptyListed
  DEF Exact, NothingToMend, Mending, QueueListed, StoredCaptured, StoredApart, LinesKept,
      RestFresh, Rotating, ReadersExact, Procs

\* In a serial deployment with one ingest run at a time, however many rotations
\* renumber the lines of the queue, an event is stored once: the line number that
\* has_equivalent_event compares never changes for an event that is stored,
\* unless a run failed or a line before that of the event does not parse.
THEOREM EvidenceIsOnce == Serial /\ OneIngester => (Spec => []NoDuplicateEvidence)
<1>. SUFFICES ASSUME Serial, OneIngester PROVE Spec => []NoDuplicateEvidence
  OBVIOUS
<1>1. Spec => []Durability
  BY AlwaysDurable
<1>2. Init => (fails = 0 => Exact)
  BY ExactInit
<1>3. Durability /\ Durability' /\ (fails = 0 => Exact) /\ [Next]_vars
        => (fails = 0 => Exact)'
  BY ExactNext
<1>4. Durability /\ (fails = 0 => Exact) => NoDuplicateEvidence
  <2>. SUFFICES ASSUME Durability, fails = 0 => Exact, NEW x \in stored, NEW y \in stored,
                       x[2] = y[2], x # y, ~(fails > 0)
                PROVE  \E e \in Malformed : e < x[2]
    BY DEF NoDuplicateEvidence
  <2>1. fails = 0
    BY HookQueueAssumption DEF Durability, TypeOK
  <2>. QED
    BY <2>1 DEF Exact, StoredApart, Clean
<1>. QED
  BY <1>1, <1>2, <1>3, <1>4, PTL DEF Spec
=============================================================================
