---------------------------- MODULE HookQueueInd ---------------------------
(***************************************************************************)
(* Why the hook queue loses nothing: an inductive invariant of HookQueue   *)
(* for deployments that keep ingest and maintenance apart and in which no  *)
(* run dies at the two points where the code gives up the tail it keeps.   *)
(***************************************************************************)
EXTENDS HookQueue

Serial ==
  /\ ~Overlap
  /\ FailPoints \cap {"markArchived", "mergeWrite"} = {}

Someone(label) == \E p \in Procs : pc[p] = label

\* The first n lines of the queue are in the store.
Processed(n) ==
  /\ n <= Len(Bytes(queue))
  /\ \A k \in 1 .. n : Bytes(queue)[k] \in StoredEvents

\* Ingest runs and maintenance runs take turns.
Apart ==
  \A i \in Ingesters, r \in Rotators : pc[i] = "idle" \/ pc[r] = "idle"

\* A run reads the queue only when no rotation is under way, and what it will
\* record as processed is in the store.
ReadersSound ==
  \A i \in Ingesters :
    /\ pc[i] \in {"open", "read", "record"} => rot.phase = "none"
    /\ pc[i] \in {"read", "record"} =>
         /\ reader[i].snap = NoFile
         /\ reader[i].done <= reader[i].pos
         /\ ~reader[i].bad => reader[i].done = reader[i].pos
         /\ reader[i].pos <= Len(Bytes(queue))
         /\ Processed(reader[i].done)

\* The phase on disk at each step of the lock holder.
PhaseOfLabel ==
  \A p \in Procs :
    /\ pc[p] \in {"restoreMark", "dropRest", "zeroMark", "archive", "markArchived"}
         => rot.phase = "prepared"
    /\ pc[p] \in {"merge", "mergeWrite", "dropMerged", "restore", "clear"}
         => rot.phase = "archived"
    /\ pc[p] = "clearState" => rot.phase # "none"
    /\ pc[p] = "prepare" => rot.phase # "archived"

\* The watermark, and the one a prepared rotation restores, are sound; once
\* the queue is archived the watermark is zero.
MarksSound ==
  /\ Processed(mark)
  /\ rot.phase = "prepared" /\ ~Someone("markArchived") => Processed(rot.prev)
  /\ rot.phase = "archived" => mark = 0

\* A rotation under way keeps every record it is about to archive and that is
\* not in the store in the tail, and nothing else; recovery has the tail in the
\* queue before it deletes it.
TailOfRotation ==
  \A p \in Procs :
    /\ pc[p] \in {"prepare", "zeroMark", "archive"} =>
         /\ queue # NoFile
         /\ rest # NoFile
         /\ Processed(cut)
         /\ Records(queue) \subseteq StoredEvents \cup Records(rest)
         /\ Records(rest) \subseteq Records(queue)
    /\ pc[p] \in {"archive", "markArchived"} => mark = 0
    /\ pc[p] \in {"markArchived", "restore"} =>
         rest # NoFile /\ Bytes(queue) = <<>>
    /\ pc[p] = "mergeWrite" =>
         /\ rest # NoFile
         /\ Bytes(queue) = <<>>
         /\ Records(rest) \subseteq Records(merged)
    /\ pc[p] = "dropMerged" =>
         Records(Bytes(rest)) \subseteq Records(Bytes(queue))
    /\ pc[p] = "clearState" /\ rot.phase = "archived" => rest = NoFile
    /\ pc[p] = "clear" => rest = NoFile

\* What the last archive holds is stored or in the tail, as long as recovery
\* may strip it from the queue.
ArchiveCovered ==
  Someone("markArchived") \/ (rot.phase = "archived" /\ rest # NoFile) =>
    Records(LastArchive) \subseteq StoredEvents \cup Records(Bytes(rest))

\* The inductive invariant of a serial deployment: besides NoLoss, what each
\* step of rotation and recovery has established for the next one.
Durability ==
  /\ TypeOK
  /\ Apart
  /\ ReadersSound
  /\ PhaseOfLabel
  /\ MarksSound
  /\ TailOfRotation
  /\ ArchiveCovered
  /\ NoLoss
=============================================================================
