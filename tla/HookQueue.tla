----------------------------- MODULE HookQueue -----------------------------
(***************************************************************************)
(* The hook queue of codex-evidence and the files beside it.  Hook         *)
(* processes append one JSON line per event to hooks/events.jsonl; ingest  *)
(* runs copy its lines to the evidence store and leave a watermark behind; *)
(* maintenance rotates a queue that grew too long, archiving the file and  *)
(* keeping its unprocessed tail, through a three-phase protocol that a     *)
(* later run can recover from.  Any process may die between two steps.     *)
(*                                                                         *)
(* A record stands for one line and is the number of the event it carries, *)
(* counted in the order of capture; one record is the unit of file sizes   *)
(* and offsets.  A label names the call a process makes next.              *)
(***************************************************************************)
EXTENDS Integers, Sequences, FiniteSets

CONSTANTS
  Ingesters,   \* ingest runs: resident, scheduled or from the command line
  Rotators,    \* maintenance runs
  NoProc,      \* the lock has no holder
  NoFile,      \* the content of a path at which there is no file
  MaxEvents,   \* bound: number of events captured
  Malformed,   \* events whose line does not parse as JSON
  MaxSize,     \* queue_max_bytes
  Retention,   \* archive_retention
  FailPoints,  \* labels at which a process may die or its next call may raise
  MaxFails,    \* bound: number of such failures
  Overlap,     \* may ingest runs and maintenance runs overlap in time?
  Clash        \* may two rotations derive the same archive name?

Procs == Ingesters \cup Rotators

RecoverLabels == {"recover", "restoreMark", "dropRest", "merge", "mergeWrite",
                  "dropMerged", "clearState"}
RotateLabels  == {"rotate", "prepare", "zeroMark", "archive", "markArchived",
                  "restore", "clear", "prune"}
IngestLabels  == {"open", "read", "record"}
Labels        == {"idle"} \cup RecoverLabels \cup RotateLabels \cup IngestLabels

\* Labels inside a `with _exclusive_lock(...)` block.
Locked == (RecoverLabels \ {"recover"}) \cup (RotateLabels \ {"rotate", "prune"})

ASSUME HookQueueAssumption ==
  /\ Ingesters \cap Rotators = {}
  /\ NoProc \notin Procs
  /\ NoFile \notin Seq(Nat)
  /\ MaxEvents \in Nat
  /\ Malformed \subseteq Nat
  /\ MaxSize \in Nat
  /\ Retention \in Nat
  /\ FailPoints \subseteq Labels \ {"idle"}
  /\ MaxFails \in Nat
  /\ Overlap \in BOOLEAN
  /\ Clash \in BOOLEAN

VARIABLES
  captured,     \* number of events the hooks have appended
  queue,        \* events.jsonl
  rest,         \* events.jsonl.rotate.tmp, the tail a rotation keeps
  mark,         \* processed_bytes of the watermark file, 0 without the file
  rot,          \* the rotation-state file, phase "none" without the file
  archives,     \* archive/events-*.jsonl, oldest first
  stored,       \* evidence_event rows of the queue: <<line number, event>>
  quarantined,  \* quarantine_entry rows of the queue: <<line number, event>>
  lock,         \* holder of events.jsonl.lock
  cut,          \* local of the lock holder: processed_bytes it rotates at
  merged,       \* local of the lock holder: what recovery writes to the queue
  pc,           \* label of each ingest and maintenance run
  reader,       \* read loop of each ingest run
  fails         \* failures so far

files == <<queue, rest, mark, rot, archives>>
db    == <<stored, quarantined>>
vars  == <<captured, queue, rest, mark, rot, archives, stored, quarantined,
           lock, cut, merged, pc, reader, fails>>

----------------------------------------------------------------------------
(* Operators.                                                              *)

\* The bytes of a file, none if it is missing.
Bytes(f) == IF f = NoFile THEN <<>> ELSE f

\* min(processed_bytes, size_bytes)
Lesser(m, n) == IF m < n THEN m ELSE n

Records(s) == {s[i] : i \in 1 .. Len(s)}

\* data.startswith(prefix)
StartsWith(data, prefix) ==
  Len(prefix) <= Len(data) /\ SubSeq(data, 1, Len(prefix)) = prefix

\* What recovery takes from a queue created after the archived one was moved.
StripArchived(data, archived) ==
  IF archived # <<>> /\ StartsWith(data, archived)
  THEN SubSeq(data, Len(archived) + 1, Len(data))
  ELSE data

LastArchive == IF archives = <<>> THEN <<>> ELSE archives[Len(archives)]

\* The `retain` newest archives.
Newest(s, retain) == SubSeq(s, Len(s) - Lesser(retain, Len(s)) + 1, Len(s))

NoRotation == [phase |-> "none", prev |-> 0]

\* A reader opened on the queue path reads the file found there; once that
\* file is renamed or replaced, the open handle keeps its content (snap).
NewReader == [pos |-> 0, done |-> 0, bad |-> FALSE, snap |-> NoFile]

FileOf(i) == IF reader[i].snap = NoFile THEN Bytes(queue) ELSE reader[i].snap

Detached ==
  [i \in Ingesters |->
     IF pc[i] = "read" /\ reader[i].snap = NoFile
     THEN [reader[i] EXCEPT !.snap = Bytes(queue)]
     ELSE reader[i]]

Goto(p, label) == pc' = [pc EXCEPT ![p] = label]

At(p, from, to) == pc[p] = from /\ Goto(p, to)

AfterRecovery(p) == IF p \in Ingesters THEN "open" ELSE "rotate"

----------------------------------------------------------------------------
(* Initially the queue path has no file.                                   *)

Init ==
  /\ captured = 0
  /\ queue = NoFile
  /\ rest = NoFile
  /\ mark = 0
  /\ rot = NoRotation
  /\ archives = <<>>
  /\ stored = {}
  /\ quarantined = {}
  /\ lock = NoProc
  /\ cut = 0
  /\ merged = <<>>
  /\ pc = [p \in Procs |-> "idle"]
  /\ reader = [i \in Ingesters |-> NewReader]
  /\ fails = 0

----------------------------------------------------------------------------
(* Hooks and installation.                                                 *)

\* _append_jsonl_record: one record, appended under the lock.
Capture ==
  /\ lock = NoProc
  /\ captured < MaxEvents
  /\ captured' = captured + 1
  /\ queue' = Append(Bytes(queue), captured + 1)
  /\ UNCHANGED <<rest, mark, rot, archives, db, lock, cut, merged, pc, reader,
                 fails>>

\* ensure_hook_queue, called by install and register-hooks without the lock.
TouchQueue ==
  /\ queue = NoFile
  /\ queue' = <<>>
  /\ UNCHANGED <<captured, rest, mark, rot, archives, db, lock, cut, merged,
                 pc, reader, fails>>

----------------------------------------------------------------------------
(* recover_queue_rotation, called first by ingest and by rotation.         *)

\* A bug for the mutant runs: a run that does not look for an interrupted
\* rotation.
EntryWithoutRecovery(p) == AfterRecovery(p)

\* The label a run starts at: recovery if a rotation-state file exists.
Entry(p) == IF rot.phase = "none" THEN AfterRecovery(p) ELSE "recover"

\* Takes the lock and looks at the state file again.
LockRecovery(p) ==
  /\ pc[p] = "recover"
  /\ lock = NoProc
  /\ \/ /\ rot.phase = "none"
        /\ Goto(p, AfterRecovery(p))
        /\ UNCHANGED lock
     \/ /\ rot.phase # "none"
        /\ Goto(p, IF rot.phase = "prepared" THEN "restoreMark" ELSE "merge")
        /\ lock' = p
  /\ UNCHANGED <<captured, files, db, cut, merged, reader, fails>>

RestoreMark(p) ==
  /\ At(p, "restoreMark", "dropRest")
  /\ mark' = rot.prev
  /\ UNCHANGED <<captured, queue, rest, rot, archives, db, lock, cut, merged,
                 reader, fails>>

DropRest(p) ==
  /\ At(p, "dropRest", "clearState")
  /\ rest' = NoFile
  /\ UNCHANGED <<captured, queue, mark, rot, archives, db, lock, cut, merged,
                 reader, fails>>

\* A bug: the bytes appended meanwhile are put before the tail.
MergeNewFirst(p) ==
  /\ At(p, "merge", "mergeWrite")
  /\ rest # NoFile
  /\ queue # NoFile
  /\ merged' = StripArchived(queue, LastArchive) \o rest
  /\ queue' = <<>>
  /\ UNCHANGED <<captured, rest, mark, rot, archives, db, lock, cut, reader,
                 fails>>

\* A bug: the tail overwrites the bytes appended meanwhile.
MergeOverwriting(p) ==
  /\ At(p, "merge", "mergeWrite")
  /\ rest # NoFile
  /\ queue # NoFile
  /\ merged' = rest
  /\ queue' = <<>>
  /\ UNCHANGED <<captured, rest, mark, rot, archives, db, lock, cut, reader,
                 fails>>

\* Phase "archived" with both files: write_bytes truncates the queue first.
MergeTruncate(p) ==
  /\ At(p, "merge", "mergeWrite")
  /\ rest # NoFile
  /\ queue # NoFile
  /\ merged' = rest \o StripArchived(queue, LastArchive)
  /\ queue' = <<>>
  /\ UNCHANGED <<captured, rest, mark, rot, archives, db, lock, cut, reader,
                 fails>>

MergeWrite(p) ==
  /\ At(p, "mergeWrite", "dropMerged")
  /\ queue' = merged
  /\ UNCHANGED <<captured, rest, mark, rot, archives, db, lock, cut, merged,
                 reader, fails>>

DropMerged(p) ==
  /\ At(p, "dropMerged", "clearState")
  /\ rest' = NoFile
  /\ UNCHANGED <<captured, queue, mark, rot, archives, db, lock, cut, merged,
                 reader, fails>>

\* Phase "archived" without a queue file: the tail becomes the queue.
MoveRest(p) ==
  /\ At(p, "merge", "clearState")
  /\ rest # NoFile
  /\ queue = NoFile
  /\ queue' = rest
  /\ rest' = NoFile
  /\ UNCHANGED <<captured, mark, rot, archives, db, lock, cut, merged, reader,
                 fails>>

\* Phase "archived" with the tail already in place.
NothingToMerge(p) ==
  /\ At(p, "merge", "clearState")
  /\ rest = NoFile
  /\ UNCHANGED <<captured, files, db, lock, cut, merged, reader, fails>>

\* A bug: the lock is not given back.
ClearStateLocked(p) ==
  /\ At(p, "clearState", AfterRecovery(p))
  /\ rot' = NoRotation
  /\ UNCHANGED <<captured, queue, rest, mark, archives, db, lock, cut, merged,
                 reader, fails>>

ClearState(p) ==
  /\ At(p, "clearState", AfterRecovery(p))
  /\ rot' = NoRotation
  /\ lock' = NoProc
  /\ UNCHANGED <<captured, queue, rest, mark, archives, db, cut, merged,
                 reader, fails>>

Recover(p) ==
  \/ LockRecovery(p) \/ RestoreMark(p) \/ DropRest(p)
  \/ MergeTruncate(p) \/ MergeWrite(p) \/ DropMerged(p)
  \/ MoveRest(p) \/ NothingToMerge(p) \/ ClearState(p)

----------------------------------------------------------------------------
(* CodexHookQueueAdapter.ingest                                            *)

IngestStart(i) ==
  /\ pc[i] = "idle"
  /\ Overlap \/ \A r \in Rotators : pc[r] = "idle"
  /\ Goto(i, Entry(i))
  /\ UNCHANGED <<captured, files, db, lock, cut, merged, reader, fails>>

IngestOpen(i) ==
  /\ At(i, "open", IF queue = NoFile THEN "record" ELSE "read")
  /\ reader' = [reader EXCEPT ![i] = NewReader]
  /\ UNCHANGED <<captured, files, db, lock, cut, merged, fails>>

\* A bug: processed_bytes moves past a malformed line.
IngestLineMovingOn(i) ==
  LET line == reader[i].pos + 1
      e    == FileOf(i)[line]
  IN  /\ pc[i] = "read"
      /\ reader[i].pos < Len(FileOf(i))
      /\ IF e \in Malformed
         THEN /\ quarantined' = quarantined \cup {<<line, e>>}
              /\ UNCHANGED stored
         ELSE /\ stored' = stored \cup {<<line, e>>}
              /\ UNCHANGED quarantined
      /\ reader' = [reader EXCEPT ![i].pos = line, ![i].done = line]
      /\ UNCHANGED <<captured, files, lock, cut, merged, pc, fails>>

\* One line: quarantined if it does not parse, else stored unless an equal
\* event of the same line number is already there.
IngestLine(i) ==
  LET r    == reader[i]
      line == r.pos + 1
      e    == FileOf(i)[line]
      bad  == r.bad \/ e \in Malformed
  IN  /\ pc[i] = "read"
      /\ r.pos < Len(FileOf(i))
      /\ IF e \in Malformed
         THEN /\ quarantined' = quarantined \cup {<<line, e>>}
              /\ UNCHANGED stored
         ELSE /\ stored' = stored \cup {<<line, e>>}
              /\ UNCHANGED quarantined
      /\ reader' = [reader EXCEPT ![i] =
                      [r EXCEPT !.pos = line, !.bad = bad,
                                !.done = IF bad THEN r.done ELSE line]]
      /\ UNCHANGED <<captured, files, lock, cut, merged, pc, fails>>

IngestEof(i) ==
  /\ At(i, "read", "record")
  /\ reader[i].pos >= Len(FileOf(i))
  /\ UNCHANGED <<captured, files, db, lock, cut, merged, reader, fails>>

\* A bug: the watermark is the size of the queue when the run ends.
IngestRecordSize(i) ==
  /\ At(i, "record", "idle")
  /\ mark' = Len(Bytes(queue))
  /\ reader' = [reader EXCEPT ![i] = NewReader]
  /\ UNCHANGED <<captured, queue, rest, rot, archives, db, lock, cut, merged,
                 fails>>

\* record_queue_watermark, without the lock, if the queue path has a file.
IngestRecord(i) ==
  /\ At(i, "record", "idle")
  /\ mark' = IF queue = NoFile THEN mark ELSE reader[i].done
  /\ reader' = [reader EXCEPT ![i] = NewReader]
  /\ UNCHANGED <<captured, queue, rest, rot, archives, db, lock, cut, merged,
                 fails>>

Ingest(i) ==
  \/ Recover(i) \/ IngestOpen(i) \/ IngestLine(i) \/ IngestEof(i)
  \/ IngestRecord(i)

----------------------------------------------------------------------------
(* rotate_hook_queue                                                       *)

RotateStart(r) ==
  /\ pc[r] = "idle"
  /\ Overlap \/ \A i \in Ingesters : pc[i] = "idle"
  /\ queue # NoFile
  /\ Goto(r, Entry(r))
  /\ UNCHANGED <<captured, files, db, lock, cut, merged, reader, fails>>

\* Under the lock: nothing to do, or stat() raises because the file is gone.
RotateSkip(r) ==
  /\ At(r, "rotate", "idle")
  /\ lock = NoProc
  /\ Len(Bytes(queue)) <= MaxSize \/ mark = 0
  /\ UNCHANGED <<captured, files, db, lock, cut, merged, reader, fails>>

\* A bug: the tail starts one record early.
RotateCutEarly(r) ==
  /\ At(r, "rotate", "prepare")
  /\ lock = NoProc
  /\ lock' = r
  /\ Len(Bytes(queue)) > MaxSize
  /\ mark > 0
  /\ cut' = Lesser(mark, Len(queue))
  /\ rest' = SubSeq(queue, cut', Len(queue))
  /\ UNCHANGED <<captured, queue, mark, rot, archives, db, merged, reader,
                 fails>>

\* A bug: the tail is all of the queue.
RotateCutNothing(r) ==
  /\ At(r, "rotate", "prepare")
  /\ lock = NoProc
  /\ lock' = r
  /\ Len(Bytes(queue)) > MaxSize
  /\ mark > 0
  /\ cut' = Lesser(mark, Len(queue))
  /\ rest' = queue
  /\ UNCHANGED <<captured, queue, mark, rot, archives, db, merged, reader,
                 fails>>

\* Under the lock: read the queue and write its unprocessed tail.
RotateCut(r) ==
  /\ At(r, "rotate", "prepare")
  /\ lock = NoProc
  /\ lock' = r
  /\ Len(Bytes(queue)) > MaxSize
  /\ mark > 0
  /\ cut' = Lesser(mark, Len(queue))
  /\ rest' = SubSeq(queue, cut' + 1, Len(queue))
  /\ UNCHANGED <<captured, queue, mark, rot, archives, db, merged, reader,
                 fails>>

RotatePrepare(r) ==
  /\ At(r, "prepare", "zeroMark")
  /\ rot' = [phase |-> "prepared", prev |-> cut]
  /\ UNCHANGED <<captured, queue, rest, mark, archives, db, lock, cut, merged,
                 reader, fails>>

\* A bug: the watermark of the archived queue stays for the new one.
RotateKeepMark(r) ==
  /\ At(r, "zeroMark", "archive")
  /\ UNCHANGED <<captured, files, db, lock, cut, merged, reader, fails>>

RotateZeroMark(r) ==
  /\ At(r, "zeroMark", "archive")
  /\ mark' = 0
  /\ UNCHANGED <<captured, queue, rest, rot, archives, db, lock, cut, merged,
                 reader, fails>>

\* queue.replace(archive_path): the name has a resolution of one second, and
\* a rotation that gets the name of the one before overwrites its archive.
RotateArchive(r) ==
  /\ At(r, "archive", "markArchived")
  /\ \/ archives' = Append(archives, Bytes(queue))
     \/ /\ Clash
        /\ archives # <<>>
        /\ archives' = [archives EXCEPT ![Len(archives)] = Bytes(queue)]
  /\ queue' = NoFile
  /\ reader' = Detached
  /\ UNCHANGED <<captured, rest, mark, rot, db, lock, cut, merged, fails>>

RotateMarkArchived(r) ==
  /\ At(r, "markArchived", "restore")
  /\ rot' = [phase |-> "archived", prev |-> cut]
  /\ UNCHANGED <<captured, queue, rest, mark, archives, db, lock, cut, merged,
                 reader, fails>>

RotateRestore(r) ==
  /\ At(r, "restore", "clear")
  /\ queue' = rest
  /\ rest' = NoFile
  /\ reader' = Detached
  /\ UNCHANGED <<captured, mark, rot, archives, db, lock, cut, merged, fails>>

RotateClear(r) ==
  /\ At(r, "clear", "prune")
  /\ rot' = NoRotation
  /\ lock' = NoProc
  /\ UNCHANGED <<captured, queue, rest, mark, archives, db, cut, merged,
                 reader, fails>>

RotatePrune(r) ==
  /\ At(r, "prune", "idle")
  /\ archives' = Newest(archives, Retention)
  /\ UNCHANGED <<captured, queue, rest, mark, rot, db, lock, cut, merged,
                 reader, fails>>

Rotate(r) ==
  \/ Recover(r) \/ RotateSkip(r) \/ RotateCut(r) \/ RotatePrepare(r)
  \/ RotateZeroMark(r) \/ RotateArchive(r) \/ RotateMarkArchived(r)
  \/ RotateRestore(r) \/ RotateClear(r) \/ RotatePrune(r)

----------------------------------------------------------------------------
\* The process is killed, or the call it is about to make raises: the run
\* ends, the operating system or the `finally` clause releases the lock, and
\* the files stay as they are.
Fail(p) ==
  /\ pc[p] \in FailPoints
  /\ fails < MaxFails
  /\ fails' = fails + 1
  /\ Goto(p, "idle")
  /\ lock' = IF lock = p THEN NoProc ELSE lock
  /\ reader' = IF p \in Ingesters
               THEN [reader EXCEPT ![p] = NewReader]
               ELSE reader
  /\ UNCHANGED <<captured, files, db, cut, merged>>

Next ==
  \/ Capture
  \/ TouchQueue
  \/ \E i \in Ingesters : IngestStart(i) \/ Ingest(i)
  \/ \E r \in Rotators : RotateStart(r) \/ Rotate(r)
  \/ \E p \in Procs : Fail(p)

Spec == Init /\ [][Next]_vars

(* The resident run and the scheduled maintenance task are started again   *)
(* and again, a started run goes on, and flock serves its waiters in turn. *)
Fairness ==
  /\ \A i \in Ingesters : SF_vars(IngestStart(i)) /\ SF_vars(Ingest(i))
  /\ \A r \in Rotators : SF_vars(RotateStart(r)) /\ SF_vars(Rotate(r))

FairSpec == Spec /\ Fairness

----------------------------------------------------------------------------
(* Type correctness and the lock.                                          *)

RotStates == [phase : {"none", "prepared", "archived"}, prev : Nat]

ReaderStates ==
  [pos : Nat, done : Nat, bad : BOOLEAN, snap : Seq(Nat) \cup {NoFile}]

\* Every variable has its type, and exactly the lock holder is at a label of
\* a locked section: a killed run never leaves the lock behind.
TypeOK ==
  /\ captured \in 0 .. MaxEvents
  /\ queue \in Seq(Nat) \cup {NoFile}
  /\ rest \in Seq(Nat) \cup {NoFile}
  /\ mark \in Nat
  /\ rot \in RotStates
  /\ archives \in Seq(Seq(Nat))
  /\ stored \subseteq (Nat \X Nat)
  /\ quarantined \subseteq (Nat \X Nat)
  /\ lock \in Procs \cup {NoProc}
  /\ cut \in Nat
  /\ merged \in Seq(Nat)
  /\ pc \in [Procs -> Labels]
  /\ reader \in [Ingesters -> ReaderStates]
  /\ fails \in 0 .. MaxFails
  /\ \A p \in Procs : pc[p] \in Locked <=> lock = p

----------------------------------------------------------------------------
(* What the queue promises.                                                *)

StoredEvents == {x[2] : x \in stored}

Capturable == 1 .. captured

\* The events a later ingest run can still read: those of the queue, of the
\* tail a finished recovery would put back, and of a merge being written.
Recoverable ==
  Records(Bytes(queue))
    \cup (IF rot.phase = "archived" \/ \E p \in Procs : pc[p] = "markArchived"
          THEN Records(Bytes(rest)) ELSE {})
    \cup (IF \E p \in Procs : pc[p] = "mergeWrite" THEN Records(merged) ELSE {})

\* No event is lost between the hook that captured it and the store: it is
\* stored, or a later run still finds it, whatever a rotation dropped, at
\* whatever step a run died and whatever recovery then did.
NoLoss == \A e \in Capturable : e \in StoredEvents \/ e \in Recoverable

\* The watermark, and the one a prepared rotation will restore, cover only
\* lines whose events the store has: what a rotation cuts off is stored.
MarkSound ==
  \A m \in {mark} \cup (IF rot.phase = "prepared" THEN {rot.prev} ELSE {}) :
    \A k \in 1 .. Lesser(m, Len(Bytes(queue))) : queue[k] \in StoredEvents

\* Rotation renumbers the lines of the queue, and the line number is part of
\* what makes two stored events equal.  A single ingest run after another
\* nevertheless stores an event once, unless one died without its watermark or
\* the event stands behind a line that does not parse, where the watermark
\* stops.
NoDuplicateEvidence ==
  \A x, y \in stored :
    x[2] = y[2] /\ x # y =>
      fails > 0 \/ \E e \in Malformed : e < x[2]

\* The queue lists events in the order of their capture, none of them twice:
\* recovery puts the tail before what was appended meanwhile.
QueueOrder ==
  \A j, k \in 1 .. Len(Bytes(queue)) : j < k => queue[j] < queue[k]

\* Even when ingest and maintenance overlap, an event that neither the store
\* nor a later run has is in an archive that was kept.
NothingVanishes ==
  \A e \in Capturable :
    \/ e \in StoredEvents \cup Recoverable
    \/ \E k \in 1 .. Len(archives) : e \in Records(archives[k])

\* Recovery of a prepared rotation deletes the tail only when the queue still
\* holds those records.
PreparedKeepsPending ==
  [][(\E p \in Procs : DropRest(p)) =>
       Records(Bytes(rest)) \subseteq Records(Bytes(queue))]_vars

\* A malformed line stays in the queue file or its tail, as it is never
\* covered by the watermark.
MalformedKept == \A e \in Capturable \cap Malformed : e \in Recoverable

\* Every captured event that parses is eventually stored.
EventuallyStored ==
  \A e \in (1 .. MaxEvents) \ Malformed :
    (captured >= e) ~> (e \in StoredEvents)

\* Again and again, with no rotation under way or interrupted, the queue is back
\* within its limit, unless its first line does not parse: the watermark stays
\* before such a line, and no rotation can take it away.
QueueEventuallyBounded ==
  []<>(/\ lock = NoProc /\ rot.phase = "none"
       /\ \/ Len(Bytes(queue)) <= MaxSize
          \/ Bytes(queue)[1] \in Malformed)

----------------------------------------------------------------------------
\* The abstract log: what a later run can read is kept, what is in the store
\* is delivered.  Every step of the files and the processes is a step of the
\* log or leaves it unchanged, so that only a rotation ever discards events
\* and only events the store already has.
Log == INSTANCE EvidenceLog
         WITH accepted <- captured, kept <- Recoverable,
              delivered <- StoredEvents

ImplementsLog == Log!LogSpec
=============================================================================
