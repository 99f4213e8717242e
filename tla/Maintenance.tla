----------------------------- MODULE Maintenance ----------------------------
(***************************************************************************)
(* Maintenance housekeeping of codex-evidence, run_maintenance_housekeeping *)
(* of runtime_resilience.py: a run checks the database and copies it among *)
(* the backups, rotates the hook queue, rotates the log of the resident    *)
(* process and publishes a summary.  Runs may fail, be locked out of the   *)
(* database, be killed anywhere, and overlap: nothing keeps two of them    *)
(* apart.  What the rotation of the queue does is left to HookQueue.       *)
(*                                                                         *)
(* Runs are numbered in the order they start.  The number stands for the   *)
(* time in the names of the backup and the archive of a run; two runs of   *)
(* the same second would share them and are left out.                      *)
(***************************************************************************)
EXTENDS Naturals, FiniteSets

CONSTANTS
  MaxRuns,      \* bound: runs started
  AtOnce,       \* bound: runs under way at once
  MaxLines,     \* bound: lines written to the log
  Retain,       \* number of files to keep in each directory
  MaxAttempts,  \* DEFAULT_LOCKED_RETRY_ATTEMPTS
  MaxLog,       \* log_max_bytes, in lines
  NoFile

Runs == 1 .. MaxRuns
Dirs == {"backups", "archives"}
None == 0

\* The log itself, among the archives, by the time of its last write.
LogFile == 0

ASSUME MaintenanceAssumption ==
  /\ {MaxRuns, AtOnce, MaxLines, MaxLog} \subseteq Nat
  /\ Retain \in [Dirs -> Nat]
  /\ MaxAttempts \in Nat \ {0}
  /\ NoFile \notin Runs

\* What a reader finds in a summary that is not wholly written.
Torn == [run |-> None, backup |-> None, warned |-> TRUE]

VARIABLES
  job,      \* where each run is, and its local variables
  sound,    \* the database passes its integrity check
  files,    \* runs whose file is there, of backups and of archives of the log
  newer,    \* files that are newer than a file, by the time each of them has
  whole,    \* backups that are whole copies of a sound database
  copied,   \* the lines that each archive has
  log,      \* lines in the log of the resident process
  written,  \* lines ever written to it
  inode,    \* contents of the temporary file that each run made
  tmp,      \* the run whose file is maintenance-summary.json.tmp
  summary,  \* the run whose file is maintenance-summary.json
  struck,   \* history: runs whose database was damaged between check and copy
  later,    \* history: files that were not older than a file since it was made
  exposed,  \* history: lines written after the log was copied, before it was emptied
  clashed   \* history: two runs were publishing at once

vars == <<job, sound, files, newer, whole, copied, log, written, inode, tmp, summary,
          struck, later, exposed, clashed>>

database  == <<sound, whole, struck>>
directory == <<files, newer, later>>
logging   == <<copied, log, written, exposed>>
published == <<inode, tmp, summary, clashed>>

----------------------------------------------------------------------------
NoJob ==
  [at |-> "new", tries |-> 0, integrity |-> "ok", backup |-> None,
   warned |-> FALSE, dir |-> "backups", doomed |-> {}, fd |-> NoFile]

At(r, labels) == job[r].at \in labels

Idle(r) == At(r, {"new", "ended"})

Set(r, next) == job' = [job EXCEPT ![r] = next]

Goto(r, label) == Set(r, [job[r] EXCEPT !.at = label])

End(r) == Set(r, [NoJob EXCEPT !.at = "ended"])

\* Run o has listed the file of run r in dir, and will unlink it.
Dooms(o, dir, r) == At(o, {"unlink"}) /\ job[o].dir = dir /\ r \in job[o].doomed

\* The files after that of run r was made, or written to: `since` with r added
\* for all the others, and what is known of r itself.
Since(since, r, own) ==
  [o \in DOMAIN since |-> IF o = r THEN own ELSE since[o] \cup {r}]

\* The file of run r in dir is made, or written to: it is the newest.  The
\* history of a file that is made again begins anew, unless a run that had
\* listed the file before it went is about to unlink its successor.
Touch(dir, r) ==
  /\ files' = [files EXCEPT ![dir] = @ \cup {r}]
  /\ newer' = [newer EXCEPT ![dir] = Since(@, r, {})]
  /\ later' = [later EXCEPT ![dir] =
       Since(@, r, IF r \in files[dir] \/ \E o \in Runs : Dooms(o, dir, r)
                   THEN @[r] ELSE {})]

Start(r) ==
  /\ At(r, {"new"})
  /\ \A o \in 1 .. r - 1 : ~At(o, {"new"})
  /\ Cardinality({o \in Runs : ~Idle(o)}) < AtOnce
  /\ Goto(r, "check")
  /\ UNCHANGED <<database, directory, logging, published>>

\* initialize_database, checkpoint and integrity check; to connect to the
\* backup makes its file.
Check(r) ==
  /\ At(r, {"check"})
  /\ Set(r, [job[r] EXCEPT !.at = "copy",
                           !.integrity = IF sound THEN "ok" ELSE "warning"])
  /\ IF r \in files["backups"] THEN UNCHANGED directory
     ELSE Touch("backups", r)
  /\ UNCHANGED <<database, logging, published>>

\* Some pages are written, or all, into a file that is gone perhaps.
CopyPages(r) ==
  /\ At(r, {"copy"})
  /\ IF r \in files["backups"] THEN Touch("backups", r)
     ELSE UNCHANGED directory

CopySome(r) ==
  /\ CopyPages(r)
  /\ UNCHANGED <<job, database, logging, published>>

CopyAll(r) ==
  /\ CopyPages(r)
  /\ whole' = IF sound THEN whole \cup {r} ELSE whole
  /\ Set(r, [job[r] EXCEPT !.at = "list", !.tries = 0, !.backup = r])
  /\ UNCHANGED <<sound, struck, logging, published>>

\* run_with_locked_retry ran out of attempts, or any other exception.  (Locals
\* that are not looked at again are reset, here and below.)
Failed ==
  [NoJob EXCEPT !.at = "queue", !.integrity = "error", !.warned = TRUE]

\* A bug: the error is swallowed, and the run goes on as if there was none.
RetriedSilently(r) ==
  IF job[r].tries + 1 < MaxAttempts
  THEN [job[r] EXCEPT !.at = "check", !.tries = @ + 1]
  ELSE [NoJob EXCEPT !.at = "queue", !.backup = r]

\* A bug: the attempts are not counted.
RetriedForever(r) == [job[r] EXCEPT !.at = "check"]

\* After a locked error the operation starts from the beginning.
Retried(r) ==
  IF job[r].tries + 1 < MaxAttempts
  THEN [job[r] EXCEPT !.at = "check", !.tries = @ + 1]
  ELSE Failed

Locked(r) ==
  /\ At(r, {"check", "copy"})
  /\ Set(r, Retried(r))
  /\ UNCHANGED <<database, directory, logging, published>>

\* Any other exception: a damaged file, a disk that is full.
Fail(r) ==
  /\ At(r, {"check", "copy"})
  /\ Set(r, Failed)
  /\ UNCHANGED <<database, directory, logging, published>>

----------------------------------------------------------------------------
(* _prune_files, of the backups and of the archives.                       *)

\* A bug: sorted without reverse, the oldest come first.
FirstOldest(dir, kept) ==
  \A r \in files[dir] \ kept, k \in kept : k \notin newer[dir][r]

\* No file is newer than those that come before it in the sorted list; files of
\* the same time come as the directory lists them.
First(dir, kept) ==
  \A r \in files[dir] \ kept, k \in kept : r \notin newer[dir][k]

\* The files after the first Retain.
Excess(dir) ==
  {files[dir] \ kept : kept \in {k \in SUBSET files[dir] :
     /\ Cardinality(k) <= Retain[dir]
     /\ k = files[dir] \/ Cardinality(k) = Retain[dir]
     /\ First(dir, k)}}

Pruned(r) == files[job[r].dir] \ job[r].doomed

AfterPrune(j) ==
  [j EXCEPT !.at = IF j.dir = "backups" THEN "queue" ELSE "open", !.doomed = {}]

ListFiles(r) ==
  /\ At(r, {"list"})
  /\ \E excess \in Excess(job[r].dir) :
       Set(r, [job[r] EXCEPT !.at = "unlink", !.doomed = excess])
  /\ UNCHANGED <<database, directory, logging, published>>

Unlink(r) ==
  /\ At(r, {"unlink"})
  /\ Set(r, AfterPrune(job[r]))
  /\ files' = [files EXCEPT ![job[r].dir] = Pruned(r)]
  /\ UNCHANGED <<newer, later, database, logging, published>>

\* Run o unlinks a file between exists() and stat() of run r.
ListRaises(r, o) ==
  LET dir == job[r].dir
  IN  /\ At(r, {"list"})
      /\ At(o, {"unlink"})
      /\ job[o].dir = dir
      /\ Pruned(o) # files[dir]
      /\ job' = [job EXCEPT
           ![o] = AfterPrune(@),
           ![r] = IF dir = "backups" THEN Failed
                  ELSE [AfterPrune(@) EXCEPT !.warned = TRUE]]
      /\ files' = [files EXCEPT ![dir] = Pruned(o)]
      /\ UNCHANGED <<newer, later, database, logging, published>>

----------------------------------------------------------------------------
\* rotate_hook_queue returns, with a warning or without, or raises; then the
\* outcome of the integrity check is looked at.
RotateQueue(r) ==
  /\ At(r, {"queue"})
  /\ \E warning \in BOOLEAN :
       Set(r, [job[r] EXCEPT
                 !.at = "log",
                 !.integrity = "ok",
                 !.warned = @ \/ warning \/ job[r].integrity # "ok"])
  /\ UNCHANGED <<database, directory, logging, published>>

\* A run holds the lock of the log at these labels; the operating system
\* releases it when the process ends.
Locking == {"logCopy", "logStat", "logEmpty"}

LogLocked == \E r \in Runs : At(r, Locking)

LogWithinLimit(r) ==
  /\ At(r, {"log"})
  /\ ~LogLocked
  /\ Cardinality(log) <= MaxLog
  /\ Goto(r, "open")
  /\ UNCHANGED <<database, directory, logging, published>>

LockLog(r) ==
  /\ At(r, {"log"})
  /\ ~LogLocked
  /\ Cardinality(log) > MaxLog
  /\ Goto(r, "logCopy")
  /\ Touch("archives", r)
  /\ UNCHANGED <<database, logging, published>>

\* Some lines are written to the archive, or all, into a file that is gone perhaps.
CopyLines(r) ==
  /\ At(r, {"logCopy"})
  /\ IF r \in files["archives"] THEN Touch("archives", r)
     ELSE UNCHANGED directory

CopySomeLines(r) ==
  /\ CopyLines(r)
  /\ UNCHANGED <<job, database, logging, published>>

CopyLog(r) ==
  /\ CopyLines(r)
  /\ Goto(r, "logStat")
  /\ copied' = [copied EXCEPT ![r] = log]
  /\ UNCHANGED <<database, log, written, exposed, published>>

\* The archive of run r gets the time of the last write to the log, which is
\* before that of any archive written to since: such a one is newer.
TakeTime(r) ==
  LET order  == newer["archives"]
      placed == [o \in DOMAIN order |->
                   IF o = r THEN order[LogFile] \ {r}
                   ELSE IF LogFile \in order[o] THEN order[o] \cup {r}
                   ELSE order[o] \ {r}]
      NotOlder(o) == {x \in files["archives"] \ {o} : o \notin placed[x]}
  IN  /\ newer' = [newer EXCEPT !["archives"] = placed]
      /\ later' = [later EXCEPT !["archives"] =
                      [o \in Runs |-> @[o] \cup
                         IF o = r THEN NotOlder(r) ELSE NotOlder(o) \cap {r}]]
      /\ UNCHANGED files

\* copy2 ends with copystat.  Of an archive that is gone it fails: LogFails.
StatLog(r) ==
  /\ At(r, {"logStat"})
  /\ r \in files["archives"]
  /\ Goto(r, "logEmpty")
  /\ TakeTime(r)
  /\ UNCHANGED <<database, logging, published>>

\* This is a write to the log as well, but it is copied after a later one only.
EmptyLog(r) ==
  /\ At(r, {"logEmpty"})
  /\ Set(r, [job[r] EXCEPT !.at = "list", !.dir = "archives"])
  /\ log' = {}
  /\ UNCHANGED <<database, directory, copied, written, exposed, published>>

\* A bug: the log is emptied in a finally clause.
LogFailsEmptied(r) ==
  /\ At(r, Locking)
  /\ Set(r, [job[r] EXCEPT !.at = "open", !.warned = TRUE])
  /\ log' = {}
  /\ UNCHANGED <<database, directory, copied, written, exposed, published>>

LogFails(r) ==
  /\ At(r, Locking)
  /\ Set(r, [job[r] EXCEPT !.at = "open", !.warned = TRUE])
  /\ UNCHANGED <<database, directory, logging, published>>

----------------------------------------------------------------------------
(* _write_json of the summary, through a temporary file of a fixed name.   *)

Payload(r) ==
  [run |-> r, backup |-> job[r].backup, warned |-> job[r].warned]

Publishing == {"write", "replace"}

Clash(r) == clashed' = (clashed \/ \E o \in Runs \ {r} : At(o, Publishing))

\* To open the file for writing makes it, or empties the one that is there.
OpenTmp(r) ==
  /\ At(r, {"open"})
  /\ tmp' = IF tmp = NoFile THEN r ELSE tmp
  /\ Set(r, [job[r] EXCEPT !.at = "write", !.fd = tmp'])
  /\ inode' = [inode EXCEPT ![tmp'] = Torn]
  /\ Clash(r)
  /\ UNCHANGED <<database, directory, logging, summary>>

\* Where another run has written to the same file, the tail of its text may be
\* left behind a shorter one.
WriteTmp(r) ==
  /\ At(r, {"write"})
  /\ Goto(r, "replace")
  /\ \E text \in {Payload(r)} \cup
                  IF inode[job[r].fd] = Torn THEN {} ELSE {Torn} :
       inode' = [inode EXCEPT ![job[r].fd] = text]
  /\ UNCHANGED <<database, directory, logging, tmp, summary, clashed>>

Replace(r) ==
  /\ At(r, {"replace"})
  /\ tmp # NoFile
  /\ summary' = tmp
  /\ tmp' = NoFile
  /\ End(r)
  /\ UNCHANGED <<database, directory, logging, inode, clashed>>

\* FileNotFoundError: another run has moved the file away.
ReplaceRaises(r) ==
  /\ At(r, {"replace"})
  /\ tmp = NoFile
  /\ End(r)
  /\ UNCHANGED <<database, directory, logging, published>>

----------------------------------------------------------------------------
(* The rest of the world.                                                  *)

Die(r) ==
  /\ ~Idle(r)
  /\ End(r)
  /\ UNCHANGED <<database, directory, logging, published>>

\* The resident process appends to its log and takes no lock.
WriteLog ==
  /\ written < MaxLines
  /\ written' = written + 1
  /\ log' = log \cup {written'}
  /\ exposed' = IF \E r \in Runs : At(r, {"logStat", "logEmpty"})
                THEN exposed \cup {written'} ELSE exposed
  /\ newer' = [newer EXCEPT !["archives"] = Since(@, LogFile, {})]
  /\ UNCHANGED <<job, copied, files, later, database, published>>

Corrupt ==
  /\ sound
  /\ sound' = FALSE
  /\ struck' = {r \in Runs : At(r, {"copy"})}
  /\ UNCHANGED <<job, whole, directory, logging, published>>

----------------------------------------------------------------------------
Init ==
  /\ job = [r \in Runs |-> NoJob]
  /\ sound = TRUE
  /\ files = [d \in Dirs |-> {}]
  /\ newer = [d \in Dirs |-> [r \in Runs \cup {LogFile} |-> {}]]
  /\ whole = {}
  /\ copied = [r \in Runs |-> {}]
  /\ log = {}
  /\ written = 0
  /\ inode = [r \in Runs |-> Torn]
  /\ tmp = NoFile
  /\ summary = NoFile
  /\ struck = {}
  /\ later = [d \in Dirs |-> [r \in Runs |-> {}]]
  /\ exposed = {}
  /\ clashed = FALSE

\* What a run does unless something goes wrong.
Advance(r) ==
  \/ Check(r) \/ CopyAll(r) \/ ListFiles(r) \/ Unlink(r)
  \/ RotateQueue(r) \/ LogWithinLimit(r) \/ LockLog(r) \/ CopyLog(r)
  \/ StatLog(r) \/ EmptyLog(r) \/ OpenTmp(r) \/ WriteTmp(r) \/ Replace(r) \/ ReplaceRaises(r)

\* What may go wrong.
Disturb(r) ==
  \/ Fail(r) \/ LogFails(r) \/ Die(r)
  \/ \E o \in Runs \ {r} : ListRaises(r, o)

\* What becomes of the log and its copies in the meantime, ...
Logging == WriteLog \/ \E r \in Runs : CopySomeLines(r)

\* ... and of the database and its copies.
Damage == Corrupt \/ \E r \in Runs : CopySome(r)

Next ==
  \/ \E r \in Runs : Start(r) \/ Advance(r) \/ Locked(r) \/ Disturb(r)
  \/ Logging \/ Damage

Spec == Init /\ [][Next]_vars

\* A run goes on: what it waits for is the database at most, which may stay
\* locked and is given up then, and the log, which each run releases.
FairSpec ==
  Spec /\ \A r \in Runs : WF_vars(Advance(r) \/ Locked(r) \/ LogFails(r))

----------------------------------------------------------------------------
\* Where a directory is pruned to its newest files, whole or not, a whole one
\* is there until that many were not older than it since it was made, by runs
\* that failed, were killed, or are still at it.  (Of one that was made again
\* while a run with an old list was about to unlink it: since it was made first.)
Kept(dir, r) ==
  r \in files[dir] \/ Cardinality(later[dir][r]) >= Retain[dir]

\* No run, failing, killed or overtaken by another, makes an end of a whole
\* backup of a sound database before its time.
BackupsKept == \A r \in whole : Kept("backups", r)

\* A line the resident process wrote to its log is in the log or was archived,
\* and the archive is there until as many others as are kept were not older than
\* it; except the lines that were written after the log had been copied and before
\* it was emptied.  As an archive has the time of the last write to the log, part
\* of one that a run left which was killed after that write is among the others:
\* the whole archive may be pruned at once in its favour.
LogKept ==
  /\ 1 .. written \subseteq log \cup exposed \cup UNION {copied[r] : r \in Runs}
  /\ \A r \in Runs : copied[r] # {} => Kept("archives", r)

\* Whoever reads the summary finds it whole, whatever runs were killed while
\* they wrote it, as long as no two runs were publishing at once: they share
\* one temporary file.  If it has no warnings it speaks of a backup that is
\* whole and sound, unless the database was damaged after it had been checked,
\* and that is kept for its time: not of one an earlier attempt left behind.
SummaryTrue ==
  summary # NoFile =>
    /\ ~clashed => inode[summary] # Torn
    /\ ~inode[summary].warned =>
         /\ inode[summary].backup \in whole \cup struck
         /\ Kept("backups", inode[summary].backup)

\* A run comes to its end, though the database may stay locked and other runs
\* may hold the log.
MaintenanceEnds == \A r \in Runs : At(r, {"check"}) ~> At(r, {"ended"})
=============================================================================
