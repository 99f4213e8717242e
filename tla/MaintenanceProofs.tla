-------------------------- MODULE MaintenanceProofs -------------------------
(***************************************************************************)
(* Proofs about Maintenance, for any number of runs at once: a whole backup *)
(* and an archive of the log are kept for their time, no line of the log is *)
(* lost but in the gap the code leaves, and the summary is true.            *)
(***************************************************************************)
EXTENDS Maintenance, FiniteSetTheorems, TLAPS

(***************************************************************************)
(* The inductive invariant.                                                *)
(***************************************************************************)

Labels ==
  {"new", "check", "copy", "list", "unlink", "queue", "log", "logCopy",
   "logStat", "logEmpty", "open", "write", "replace", "ended"}

Jobs ==
  [at : Labels, tries : Nat, integrity : {"ok", "warning", "error"},
   backup : Runs \cup {None}, warned : BOOLEAN, dir : Dirs,
   doomed : SUBSET Runs, fd : Runs \cup {NoFile}]

\* The files that a time is known of.
Dated == Runs \cup {LogFile}

Texts == [run : Runs \cup {None}, backup : Runs \cup {None}, warned : BOOLEAN]

\* The types of the variables.
TypeOK ==
  /\ job \in [Runs -> Jobs]
  /\ sound \in BOOLEAN
  /\ files \in [Dirs -> SUBSET Runs]
  /\ newer \in [Dirs -> [Dated -> SUBSET Dated]]
  /\ later \in [Dirs -> [Runs -> SUBSET Runs]]
  /\ {whole, struck} \subseteq SUBSET Runs
  /\ {log, exposed} \subseteq SUBSET Nat
  /\ copied \in [Runs -> SUBSET Nat]
  /\ written \in Nat
  /\ inode \in [Runs -> Texts]
  /\ {tmp, summary} \subseteq Runs \cup {NoFile}
  /\ clashed \in BOOLEAN

\* A run pruned the backups; it is past its checks of them and of the queue.
InBackups(r) == At(r, {"list", "unlink"}) /\ job[r].dir = "backups"
InArchives(r) == At(r, {"list", "unlink"}) /\ job[r].dir = "archives"

\* Runs that have not yet copied the log; those whose warnings are complete.
Early(r) == At(r, {"new", "check", "copy", "queue", "log", "logCopy"}) \/ InBackups(r)
Late(r) ==
  \/ At(r, {"log", "logCopy", "logStat", "logEmpty", "open", "write", "replace"})
  \/ InArchives(r)

\* Before a run lists backups its locals say so; its warnings at the end count
\* what the integrity check said.
LocalsSound ==
  \A r \in Runs :
    /\ At(r, {"new", "check", "copy"}) => job[r].dir = "backups"
    /\ Late(r) => job[r].integrity = "ok"

\* Of two files one is newer, or neither and it was counted.
AgesCounted ==
  \A dir \in Dirs : \A x, k \in files[dir] :
    x = k \/ x \in newer[dir][k] \/ k \in later[dir][x]

\* Whoever listed a file for removal found as many that were not older as are to
\* be kept.
DoomedInTime ==
  /\ AgesCounted
  /\ \A dir \in Dirs, o, r \in Runs :
       Dooms(o, dir, r) => Cardinality(later[dir][r]) >= Retain[dir]

\* A backup that somebody may speak of without a warning.
Told(b) == b \in whole \cup struck /\ Kept("backups", b)

\* While r copies, its file is kept, and the check was right or is excused.
CopyTold(r) ==
  At(r, {"copy"}) =>
    /\ Kept("backups", r)
    /\ job[r].integrity = "ok" => sound \/ r \in struck

\* From then on r speaks of a backup, or it has something to warn of.
JobTold(r) ==
  (InBackups(r) \/ At(r, {"queue"}) \/ Late(r)) =>
    job[r].warned \/ job[r].integrity # "ok" \/ Told(job[r].backup)

\* The backup of a run that goes on without a warning, and of every text made
\* by one, is whole, or was until the database was damaged.
BackupsTold ==
  /\ sound => struck = {}
  /\ BackupsKept
  /\ \A r \in Runs : CopyTold(r) /\ JobTold(r)
  /\ \A f \in Runs : inode[f].warned \/ Told(inode[f].backup)

\* One run at a time has the lock of the log, and what it is about to throw
\* away it has copied.
LogCopied ==
  /\ LogKept
  /\ \A r, o \in Runs : At(r, Locking) /\ At(o, Locking) => r = o
  /\ \A r \in Runs : Early(r) => copied[r] = {}
  /\ \A r \in Runs : At(r, {"logCopy"}) => Kept("archives", r)
  /\ \A r \in Runs :
       At(r, {"logStat", "logEmpty"}) => log \subseteq copied[r] \cup exposed

\* A run that has neither opened its temporary file nor ended.
Unopened(r) == ~At(r, Publishing \cup {"ended"})

\* The run that publishes has the temporary file for itself, and the summary is
\* another file, wholly written.
Alone ==
  /\ \A r, o \in Runs : At(r, Publishing) /\ At(o, Publishing) => r = o
  /\ \A r \in Runs : At(r, Publishing) => tmp = job[r].fd /\ tmp # NoFile
  /\ \A r \in Runs : At(r, {"write"}) => inode[job[r].fd] = Torn
  /\ \A r \in Runs : At(r, {"replace"}) => inode[job[r].fd] # Torn
  /\ summary # NoFile => inode[summary] # Torn /\ summary # tmp

\* So it is until two runs publish at once.
PublishedAlone ==
  /\ \A r \in Runs : Unopened(r) => tmp # r /\ summary # r
  /\ clashed \/ Alone

MaintenanceInv ==
  /\ TypeOK /\ LocalsSound /\ DoomedInTime /\ BackupsTold /\ LogCopied
  /\ PublishedAlone

----------------------------------------------------------------------------
(***************************************************************************)
(* The types.                                                              *)
(***************************************************************************)

\* A job with another record in it is a record of jobs.
LEMMA SetJob ==
  ASSUME TypeOK, NEW r \in Runs, NEW j \in Jobs, Set(r, j)
  PROVE  /\ job' \in [Runs -> Jobs]
         /\ job'[r] = j
         /\ \A o \in Runs : o # r => job'[o] = job[o]
BY DEF TypeOK, Set

\* The jobs after a step of run r.
LEMMA JobAfter ==
  ASSUME TypeOK, NEW r \in Runs, NEW j, Set(r, j)
  PROVE  job'[r] = j /\ \A o \in Runs : o # r => job'[o] = job[o]
BY DEF TypeOK, Set

\* A job with another value in a field of it.
LEMMA FieldSet ==
  ASSUME NEW j \in Jobs
  PROVE  /\ \A l \in Labels : [j EXCEPT !.at = l] \in Jobs
         /\ \A n \in Nat : [j EXCEPT !.tries = n] \in Jobs
         /\ \A i \in {"ok", "warning", "error"} : [j EXCEPT !.integrity = i] \in Jobs
         /\ \A b \in Runs \cup {None} : [j EXCEPT !.backup = b] \in Jobs
         /\ \A w \in BOOLEAN : [j EXCEPT !.warned = w] \in Jobs
         /\ \A d \in Dirs : [j EXCEPT !.dir = d] \in Jobs
         /\ \A D \in SUBSET Runs : [j EXCEPT !.doomed = D] \in Jobs
         /\ \A f \in Runs \cup {NoFile} : [j EXCEPT !.fd = f] \in Jobs
<1>1. \A l \in Labels : [j EXCEPT !.at = l] \in Jobs
  BY DEF Jobs
<1>2. \A n \in Nat : [j EXCEPT !.tries = n] \in Jobs
  BY DEF Jobs
<1>3. \A i \in {"ok", "warning", "error"} : [j EXCEPT !.integrity = i] \in Jobs
  BY DEF Jobs
<1>4. \A b \in Runs \cup {None} : [j EXCEPT !.backup = b] \in Jobs
  BY DEF Jobs
<1>5. \A w \in BOOLEAN : [j EXCEPT !.warned = w] \in Jobs
  BY DEF Jobs
<1>6. \A d \in Dirs : [j EXCEPT !.dir = d] \in Jobs
  BY DEF Jobs
<1>7. \A D \in SUBSET Runs : [j EXCEPT !.doomed = D] \in Jobs
  BY DEF Jobs
<1>8. \A f \in Runs \cup {NoFile} : [j EXCEPT !.fd = f] \in Jobs
  BY DEF Jobs
<1>. QED
  BY <1>1, <1>2, <1>3, <1>4, <1>5, <1>6, <1>7, <1>8

\* The records that the actions put there.
LEMMA JobsMade ==
  ASSUME TypeOK, NEW r \in Runs
  PROVE  /\ NoJob \in Jobs
         /\ Failed \in Jobs
         /\ Retried(r) \in Jobs
         /\ AfterPrune(job[r]) \in Jobs
         /\ [NoJob EXCEPT !.at = "ended"] \in Jobs
         /\ \A l \in Labels : [job[r] EXCEPT !.at = l] \in Jobs
<1>1. job[r] \in Jobs
  BY DEF TypeOK
<1>2. NoJob \in Jobs /\ Failed \in Jobs /\ [NoJob EXCEPT !.at = "ended"] \in Jobs
  BY MaintenanceAssumption DEF NoJob, Failed, Jobs, Labels, Dirs, None
<1>3. AfterPrune(job[r]) \in Jobs
  BY <1>1 DEF AfterPrune, Jobs, Labels
<1>4. Retried(r) \in Jobs
  <2>1. job[r].tries + 1 \in Nat
    BY <1>1 DEF Jobs
  <2>2. [job[r] EXCEPT !.at = "check", !.tries = job[r].tries + 1] \in Jobs
    BY <1>1, <2>1 DEF Jobs, Labels
  <2>. QED
    BY <1>2, <2>2 DEF Retried
<1>5. \A l \in Labels : [job[r] EXCEPT !.at = l] \in Jobs
  BY <1>1 DEF Jobs
<1>. QED
  BY <1>2, <1>3, <1>4, <1>5

\* To touch a file keeps the types of its directory.
LEMMA TouchTypes ==
  ASSUME TypeOK, NEW dir \in Dirs, NEW r \in Runs, Touch(dir, r)
  PROVE  /\ files' \in [Dirs -> SUBSET Runs]
         /\ newer' \in [Dirs -> [Dated -> SUBSET Dated]]
         /\ later' \in [Dirs -> [Runs -> SUBSET Runs]]
<1>1. /\ \A since \in [Runs -> SUBSET Runs], own \in SUBSET Runs :
            Since(since, r, own) \in [Runs -> SUBSET Runs]
      /\ \A since \in [Dated -> SUBSET Dated] :
            Since(since, r, {}) \in [Dated -> SUBSET Dated]
  BY DEF Since, Dated
<1>2. newer[dir] \in [Dated -> SUBSET Dated] /\ later[dir] \in [Runs -> SUBSET Runs]
  BY DEF TypeOK
<1>3. files' \in [Dirs -> SUBSET Runs]
  BY DEF Touch, TypeOK
<1>4. newer' \in [Dirs -> [Dated -> SUBSET Dated]]
  <2>1. Since(newer[dir], r, {}) \in [Dated -> SUBSET Dated]
    BY <1>1, <1>2
  <2>. QED
    BY <2>1 DEF Touch, TypeOK
<1>5. later' \in [Dirs -> [Runs -> SUBSET Runs]]
  <2>. DEFINE own == IF r \in files[dir] \/ (\E o \in Runs : Dooms(o, dir, r))
                     THEN later[dir][r] ELSE {}
  <2>1. own \in SUBSET Runs
    BY <1>2
  <2>2. Since(later[dir], r, own) \in [Runs -> SUBSET Runs]
    BY <1>1, <1>2, <2>1
  <2>3. later' = [later EXCEPT ![dir] = Since(later[dir], r, own)]
    BY DEF Touch
  <2>. QED
    BY <2>2, <2>3 DEF TypeOK
<1>. QED
  BY <1>3, <1>4, <1>5

\* What an archive is older and newer than when it has the time of the log, written
\* out.
LEMMA TimeTaken ==
  ASSUME TypeOK, NEW r \in Runs, TakeTime(r)
  PROVE  /\ files' = files
         /\ newer' \in [Dirs -> [Dated -> SUBSET Dated]]
         /\ later' \in [Dirs -> [Runs -> SUBSET Runs]]
         /\ newer'["backups"] = newer["backups"] /\ later'["backups"] = later["backups"]
         /\ \A x \in Runs \ {r} :
              /\ x \in newer'["archives"][r] \/ x \notin files["archives"]
                   \/ r \notin files["archives"] \/ r \in later'["archives"][x]
              /\ r \in newer'["archives"][x] \/ x \notin files["archives"]
                   \/ x \in later'["archives"][r]
         /\ \A x, k \in Runs \ {r} :
              x \in newer'["archives"][k] <=> x \in newer["archives"][k]
         /\ \A x \in Runs : later["archives"][x] \subseteq later'["archives"][x]
<1> DEFINE order == newer["archives"]
           placed == [o \in DOMAIN order |->
                        IF o = r THEN order[LogFile] \ {r}
                        ELSE IF LogFile \in order[o] THEN order[o] \cup {r}
                        ELSE order[o] \ {r}]
           NotOlder(o) == {x \in files["archives"] \ {o} : o \notin placed[x]}
           counted == [o \in Runs |-> later["archives"][o] \cup
                         IF o = r THEN NotOlder(r) ELSE NotOlder(o) \cap {r}]
<1>1. /\ files' = files
      /\ newer' = [newer EXCEPT !["archives"] = placed]
      /\ later' = [later EXCEPT !["archives"] = counted]
  BY DEF TakeTime
<1>2. order \in [Dated -> SUBSET Dated] /\ later["archives"] \in [Runs -> SUBSET Runs]
      /\ files["archives"] \in SUBSET Runs /\ r \in Dated /\ LogFile \in Dated
      /\ Runs \subseteq Dated
  BY DEF TypeOK, Dirs, Dated
<1>3. placed \in [Dated -> SUBSET Dated]
  BY <1>2
<1>4. counted \in [Runs -> SUBSET Runs]
  <2>1. \A o \in Runs : NotOlder(o) \in SUBSET Runs
    BY <1>2
  <2> HIDE DEF NotOlder
  <2>. QED
    BY <1>2, <2>1
<1>5. \A x \in Runs \ {r} :
        /\ x \in placed[r] \/ x \notin files["archives"]
             \/ r \notin files["archives"] \/ r \in counted[x]
        /\ r \in placed[x] \/ x \notin files["archives"] \/ x \in counted[r]
  <2> HIDE DEF placed
  <2>. QED
    BY <1>2
<1>6. \A x, k \in Runs \ {r} : x \in placed[k] <=> x \in order[k]
  BY <1>2
<1>7. \A x \in Runs : later["archives"][x] \subseteq counted[x]
  OBVIOUS
<1>8. /\ newer'["archives"] = placed /\ later'["archives"] = counted
      /\ newer'["backups"] = newer["backups"] /\ later'["backups"] = later["backups"]
  <2> HIDE DEF placed, counted
  <2>. QED
    BY <1>1 DEF TypeOK, Dirs
<1>9. /\ newer' \in [Dirs -> [Dated -> SUBSET Dated]]
      /\ later' \in [Dirs -> [Runs -> SUBSET Runs]]
  <2> HIDE DEF placed, counted
  <2>. QED
    BY <1>1, <1>3, <1>4 DEF TypeOK, Dirs
<1> HIDE DEF placed, counted
<1>. QED
  BY <1>1, <1>5, <1>6, <1>7, <1>8, <1>9

\* The log is written to: it is newer than any archive.
LogAges ==
  /\ UNCHANGED <<files, later>>
  /\ newer' = [newer EXCEPT !["archives"] = Since(@, LogFile, {})]

\* What is newer than an archive stays so.
LEMMA LogAged ==
  ASSUME TypeOK, LogAges
  PROVE  /\ newer' \in [Dirs -> [Dated -> SUBSET Dated]]
         /\ \A d \in Dirs, k \in Runs : newer[d][k] \subseteq newer'[d][k]
<1>1. newer["archives"] \in [Dated -> SUBSET Dated] /\ LogFile \in Dated
      /\ LogFile \notin Runs /\ Runs \subseteq Dated
  BY MaintenanceAssumption DEF TypeOK, Dirs, Dated, LogFile, Runs
<1>2. PICK s : s = Since(newer["archives"], LogFile, {})
  OBVIOUS
<1>3. s \in [Dated -> SUBSET Dated] /\ \A k \in Runs : newer["archives"][k] \subseteq s[k]
  BY <1>1, <1>2 DEF Since
<1>4. newer' = [newer EXCEPT !["archives"] = s]
  BY <1>2 DEF LogAges
<1>. QED
  BY <1>3, <1>4 DEF TypeOK, Dirs

\* Every step keeps the types.
LEMMA TypeStep ==
  ASSUME TypeOK, Next
  PROVE  TypeOK'
<1>. USE DEF database, directory, logging, published
<1>j. \A r \in Runs : job[r] \in Jobs
  BY DEF TypeOK
<1>0. \A l \in Labels, r \in Runs : Goto(r, l) => job' \in [Runs -> Jobs]
  BY SetJob, JobsMade DEF Goto
<1>1. ASSUME NEW r \in Runs, Start(r) PROVE TypeOK'
  <2>1. job' \in [Runs -> Jobs]
    BY <1>0, <1>1 DEF Start, Labels
  <2>. QED
    BY <1>1, <2>1 DEF Start, TypeOK
<1>2. ASSUME NEW r \in Runs, Check(r) PROVE TypeOK'
  <2>1. [job[r] EXCEPT !.at = "copy",
            !.integrity = IF sound THEN "ok" ELSE "warning"] \in Jobs
    <3>1. [job[r] EXCEPT !.at = "copy"] \in Jobs
      BY <1>j, FieldSet DEF Labels
    <3>. QED
      BY <3>1, FieldSet
  <2>2. job' \in [Runs -> Jobs]
    BY <1>2, <2>1, SetJob DEF Check
  <2>3. CASE Touch("backups", r)
    BY <1>2, <2>2, <2>3, TouchTypes DEF Check, TypeOK, Dirs
  <2>4. CASE UNCHANGED <<files, newer, later>>
    BY <1>2, <2>2, <2>4 DEF Check, TypeOK
  <2>. QED
    BY <1>2, <2>3, <2>4 DEF Check
<1>3. ASSUME NEW r \in Runs, CopyPages(r)
      PROVE  /\ files' \in [Dirs -> SUBSET Runs]
             /\ newer' \in [Dirs -> [Dated -> SUBSET Dated]]
             /\ later' \in [Dirs -> [Runs -> SUBSET Runs]]
  <2>1. CASE Touch("backups", r)
    BY <2>1, TouchTypes DEF Dirs
  <2>2. CASE UNCHANGED <<files, newer, later>>
    BY <2>2 DEF TypeOK
  <2>. QED
    BY <1>3, <2>1, <2>2 DEF CopyPages
<1>4. ASSUME NEW r \in Runs, CopySome(r) PROVE TypeOK'
  BY <1>3, <1>4 DEF CopySome, TypeOK
<1>5. ASSUME NEW r \in Runs, CopyAll(r) PROVE TypeOK'
  <2>1. [job[r] EXCEPT !.at = "list", !.tries = 0, !.backup = r] \in Jobs
    <3>1. [job[r] EXCEPT !.at = "list"] \in Jobs
      BY <1>j, FieldSet DEF Labels
    <3>2. [job[r] EXCEPT !.at = "list", !.tries = 0] \in Jobs
      BY <3>1, FieldSet
    <3>. QED
      BY <3>2, FieldSet
  <2>2. job' \in [Runs -> Jobs]
    BY <1>5, <2>1, SetJob DEF CopyAll
  <2>. QED
    BY <1>3, <1>5, <2>2 DEF CopyAll, TypeOK
<1>6. ASSUME NEW r \in Runs, Locked(r) \/ Fail(r) PROVE TypeOK'
  <2>1. job' \in [Runs -> Jobs]
    BY <1>6, SetJob, JobsMade DEF Locked, Fail
  <2>. QED
    BY <1>6, <2>1 DEF Locked, Fail, TypeOK
<1>7. ASSUME NEW r \in Runs, ListFiles(r) PROVE TypeOK'
  <2>0. PICK excess \in Excess(job[r].dir) :
          Set(r, [job[r] EXCEPT !.at = "unlink", !.doomed = excess])
    BY <1>7 DEF ListFiles
  <2>1. excess \in SUBSET Runs
    BY DEF Excess, TypeOK, Jobs
  <2>2. [job[r] EXCEPT !.at = "unlink", !.doomed = excess] \in Jobs
    <3>1. [job[r] EXCEPT !.at = "unlink"] \in Jobs
      BY <1>j, FieldSet DEF Labels
    <3>. QED
      BY <2>1, <3>1, FieldSet
  <2>3. job' \in [Runs -> Jobs]
    BY <2>0, <2>2, SetJob
  <2>. QED
    BY <1>7, <2>3 DEF ListFiles, TypeOK
<1>8. \A r \in Runs : [files EXCEPT ![job[r].dir] = Pruned(r)] \in [Dirs -> SUBSET Runs]
  BY DEF Pruned, TypeOK, Jobs
<1>9. ASSUME NEW r \in Runs, Unlink(r) PROVE TypeOK'
  <2>1. job' \in [Runs -> Jobs]
    BY <1>9, SetJob, JobsMade DEF Unlink
  <2>. QED
    BY <1>8, <1>9, <2>1 DEF Unlink, TypeOK
<1>10. ASSUME NEW r \in Runs, NEW o \in Runs, ListRaises(r, o) PROVE TypeOK'
  <2>1. \A j \in Jobs : [j EXCEPT !.warned = TRUE] \in Jobs
    BY DEF Jobs
  <2>2. job' \in [Runs -> Jobs]
    BY <1>10, <2>1, JobsMade DEF ListRaises, TypeOK
  <2>3. files' \in [Dirs -> SUBSET Runs]
    BY <1>8, <1>10 DEF ListRaises
  <2>. QED
    BY <1>10, <2>2, <2>3 DEF ListRaises, TypeOK
<1>11. ASSUME NEW r \in Runs, RotateQueue(r) PROVE TypeOK'
  <2>1. PICK w \in BOOLEAN :
          Set(r, [job[r] EXCEPT !.at = "log", !.integrity = "ok",
                    !.warned = @ \/ w \/ job[r].integrity # "ok"])
    BY <1>11 DEF RotateQueue
  <2>2. (job[r].warned \/ w \/ job[r].integrity # "ok") \in BOOLEAN
    OBVIOUS
  <2>3. \A x \in BOOLEAN :
          [job[r] EXCEPT !.at = "log", !.integrity = "ok", !.warned = x] \in Jobs
    <3>1. [job[r] EXCEPT !.at = "log"] \in Jobs
      BY <1>j, FieldSet DEF Labels
    <3>2. [job[r] EXCEPT !.at = "log", !.integrity = "ok"] \in Jobs
      BY <3>1, FieldSet
    <3>. QED
      BY <3>2, FieldSet
  <2>4. job' \in [Runs -> Jobs]
    BY <2>1, <2>2, <2>3, SetJob
  <2>. QED
    BY <1>11, <2>4 DEF RotateQueue, TypeOK
<1>12. ASSUME NEW r \in Runs, LogWithinLimit(r) PROVE TypeOK'
  <2>1. job' \in [Runs -> Jobs]
    BY <1>0, <1>12 DEF LogWithinLimit, Labels
  <2>. QED
    BY <1>12, <2>1 DEF LogWithinLimit, TypeOK
<1>13. ASSUME NEW r \in Runs, LockLog(r) PROVE TypeOK'
  <2>1. job' \in [Runs -> Jobs]
    BY <1>0, <1>13 DEF LockLog, Labels
  <2>. QED
    BY <1>13, <2>1, TouchTypes DEF LockLog, TypeOK, Dirs
<1>14. ASSUME NEW r \in Runs, CopyLines(r)
       PROVE  /\ files' \in [Dirs -> SUBSET Runs]
              /\ newer' \in [Dirs -> [Dated -> SUBSET Dated]]
              /\ later' \in [Dirs -> [Runs -> SUBSET Runs]]
  <2>1. CASE Touch("archives", r)
    BY <2>1, TouchTypes DEF Dirs
  <2>2. CASE UNCHANGED <<files, newer, later>>
    BY <2>2 DEF TypeOK
  <2>. QED
    BY <1>14, <2>1, <2>2 DEF CopyLines
<1>23. ASSUME NEW r \in Runs, CopySomeLines(r) PROVE TypeOK'
  BY <1>14, <1>23 DEF CopySomeLines, TypeOK
<1>24. ASSUME NEW r \in Runs, CopyLog(r) PROVE TypeOK'
  <2>1. job' \in [Runs -> Jobs]
    BY <1>0, <1>24 DEF CopyLog, Labels
  <2>2. copied' \in [Runs -> SUBSET Nat]
    BY <1>24 DEF CopyLog, TypeOK
  <2>. QED
    BY <1>14, <1>24, <2>1, <2>2 DEF CopyLog, TypeOK
<1>25. ASSUME NEW r \in Runs, StatLog(r) PROVE TypeOK'
  <2>1. job' \in [Runs -> Jobs]
    BY <1>0, <1>25 DEF StatLog, Labels
  <2>2. /\ files' = files
        /\ newer' \in [Dirs -> [Dated -> SUBSET Dated]]
        /\ later' \in [Dirs -> [Runs -> SUBSET Runs]]
    BY <1>25, TimeTaken DEF StatLog
  <2>. QED
    BY <1>25, <2>1, <2>2 DEF StatLog, TypeOK
<1>15. ASSUME NEW r \in Runs, EmptyLog(r) PROVE TypeOK'
  <2>1. [job[r] EXCEPT !.at = "list", !.dir = "archives"] \in Jobs
    BY <1>j DEF Jobs, Labels, Dirs
  <2>2. job' \in [Runs -> Jobs]
    BY <1>15, <2>1, SetJob DEF EmptyLog
  <2>. QED
    BY <1>15, <2>2 DEF EmptyLog, TypeOK
<1>16. ASSUME NEW r \in Runs, LogFails(r) PROVE TypeOK'
  <2>1. [job[r] EXCEPT !.at = "open", !.warned = TRUE] \in Jobs
    <3>1. [job[r] EXCEPT !.at = "open"] \in Jobs
      BY <1>j, FieldSet DEF Labels
    <3>. QED
      BY <3>1, FieldSet
  <2>2. job' \in [Runs -> Jobs]
    BY <1>16, <2>1, SetJob DEF LogFails
  <2>. QED
    BY <1>16, <2>2 DEF LogFails, TypeOK
<1>17. Torn \in Texts /\ \A r \in Runs : Payload(r) \in Texts
  BY DEF Torn, Payload, Texts, None, TypeOK, Jobs
<1>18. ASSUME NEW r \in Runs, OpenTmp(r) PROVE TypeOK'
  <2>1. tmp' \in Runs
    BY <1>18 DEF OpenTmp, TypeOK
  <2>2. [job[r] EXCEPT !.at = "write", !.fd = tmp'] \in Jobs
    BY <1>j, <2>1 DEF Jobs, Labels
  <2>3. job' \in [Runs -> Jobs]
    BY <1>18, <2>2, SetJob DEF OpenTmp
  <2>4. inode' \in [Runs -> Texts]
    BY <1>18, <1>17 DEF OpenTmp, TypeOK
  <2>5. clashed' \in BOOLEAN
    BY <1>18 DEF OpenTmp, Clash, TypeOK
  <2>. QED
    BY <1>18, <2>1, <2>3, <2>4, <2>5 DEF OpenTmp, TypeOK
<1>19. ASSUME NEW r \in Runs, WriteTmp(r) PROVE TypeOK'
  <2>1. job' \in [Runs -> Jobs]
    BY <1>0, <1>19 DEF WriteTmp, Labels
  <2>2. PICK text \in {Payload(r), Torn} :
          inode' = [inode EXCEPT ![job[r].fd] = text]
    BY <1>19 DEF WriteTmp
  <2>3. inode' \in [Runs -> Texts]
    BY <2>2, <1>17 DEF TypeOK
  <2>. QED
    BY <1>19, <2>1, <2>3 DEF WriteTmp, TypeOK
<1>20. ASSUME NEW r \in Runs, Replace(r) \/ ReplaceRaises(r) \/ Die(r) PROVE TypeOK'
  <2>1. job' \in [Runs -> Jobs]
    BY <1>20, SetJob, JobsMade DEF Replace, ReplaceRaises, Die, End
  <2>. QED
    BY <1>20, <2>1 DEF Replace, ReplaceRaises, Die, TypeOK
<1>21. CASE WriteLog
  <2>1. LogAges
    BY <1>21 DEF WriteLog, LogAges
  <2>. QED
    BY <1>21, <2>1, LogAged DEF WriteLog, TypeOK
<1>22. CASE Corrupt
  BY <1>22 DEF Corrupt, TypeOK
<1>. QED
  BY <1>1, <1>2, <1>4, <1>5, <1>6, <1>7, <1>9, <1>10, <1>11, <1>12, <1>13,
     <1>15, <1>16, <1>18, <1>19, <1>20, <1>21, <1>22, <1>23, <1>24, <1>25
     DEF Next, Advance, Disturb, Logging, Damage

\* Run r is the only one whose job changes; these are fields of the new one.
After(r, at, integrity, backup, warned, dir) ==
  /\ job'[r].at = at
  /\ job'[r].integrity = integrity
  /\ job'[r].backup = backup
  /\ job'[r].warned = warned
  /\ job'[r].dir = dir
  /\ \A o \in Runs : o # r => job'[o] = job[o]

\* Run r goes to another label and keeps what matters of its locals.
Moves(r, at) ==
  After(r, at, job[r].integrity, job[r].backup, job[r].warned, job[r].dir)

\* Run r has given up the database; it ends.
GivesUp(r) == After(r, "queue", "error", None, TRUE, "backups")
Ends(r)    == After(r, "ended", "ok", None, FALSE, "backups")

\* What each action does to the job of its run.
LEMMA JobSteps ==
  ASSUME TypeOK, NEW r \in Runs
  PROVE  /\ Start(r) => Moves(r, "check")
         /\ Check(r) => After(r, "copy", IF sound THEN "ok" ELSE "warning",
                              job[r].backup, job[r].warned, job[r].dir)
         /\ CopyAll(r) => After(r, "list", job[r].integrity, r, job[r].warned, job[r].dir)
         /\ Locked(r) => Moves(r, "check") \/ GivesUp(r)
         /\ Fail(r) => GivesUp(r)
         /\ ListFiles(r) => Moves(r, "unlink")
         /\ Unlink(r) => Moves(r, IF job[r].dir = "backups" THEN "queue" ELSE "open")
         /\ LogWithinLimit(r) => Moves(r, "open")
         /\ LockLog(r) => Moves(r, "logCopy")
         /\ CopyLog(r) => Moves(r, "logStat")
         /\ StatLog(r) => Moves(r, "logEmpty")
         /\ EmptyLog(r) => After(r, "list", job[r].integrity, job[r].backup,
                                 job[r].warned, "archives")
         /\ LogFails(r) => After(r, "open", job[r].integrity, job[r].backup,
                                 TRUE, job[r].dir)
         /\ OpenTmp(r) => Moves(r, "write") /\ job'[r].fd = tmp'
         /\ WriteTmp(r) => Moves(r, "replace") /\ job'[r].fd = job[r].fd
         /\ Replace(r) \/ ReplaceRaises(r) \/ Die(r) => Ends(r)
<1>. USE DEF Moves, After
<1>j. job[r] \in Jobs
  BY DEF TypeOK
<1>0. ASSUME NEW l, Goto(r, l)
      PROVE  Moves(r, l) /\ job'[r].fd = job[r].fd
  <2>1. Set(r, [job[r] EXCEPT !.at = l])
    BY <1>0 DEF Goto
  <2>. QED
    BY <1>j, <2>1, JobAfter DEF Jobs
<1>1. /\ Start(r) => Moves(r, "check")
      /\ LogWithinLimit(r) => Moves(r, "open")
      /\ LockLog(r) => Moves(r, "logCopy")
      /\ CopyLog(r) => Moves(r, "logStat")
      /\ StatLog(r) => Moves(r, "logEmpty")
      /\ WriteTmp(r) => Moves(r, "replace") /\ job'[r].fd = job[r].fd
  BY <1>0 DEF Start, LogWithinLimit, LockLog, CopyLog, StatLog, WriteTmp
<1>2. ASSUME Check(r)
      PROVE  After(r, "copy", IF sound THEN "ok" ELSE "warning",
                   job[r].backup, job[r].warned, job[r].dir)
  <2>1. Set(r, [job[r] EXCEPT !.at = "copy",
                  !.integrity = IF sound THEN "ok" ELSE "warning"])
    BY <1>2 DEF Check
  <2>2. job'[r] = [job[r] EXCEPT !.at = "copy",
                     !.integrity = IF sound THEN "ok" ELSE "warning"]
        /\ \A o \in Runs : o # r => job'[o] = job[o]
    BY <2>1, JobAfter
  <2>. QED
    BY <1>j, <2>2 DEF Jobs
<1>3. ASSUME CopyAll(r)
      PROVE  After(r, "list", job[r].integrity, r, job[r].warned, job[r].dir)
  <2>1. Set(r, [job[r] EXCEPT !.at = "list", !.tries = 0, !.backup = r])
    BY <1>3 DEF CopyAll
  <2>2. job'[r] = [job[r] EXCEPT !.at = "list", !.tries = 0, !.backup = r]
        /\ \A o \in Runs : o # r => job'[o] = job[o]
    BY <2>1, JobAfter
  <2>. QED
    BY <1>j, <2>2 DEF Jobs
<1>4. ASSUME Set(r, Failed) PROVE GivesUp(r)
  <2>1. job'[r] = Failed /\ \A o \in Runs : o # r => job'[o] = job[o]
    BY <1>4, JobAfter
  <2>2. /\ Failed.at = "queue" /\ Failed.integrity = "error"
        /\ Failed.backup = None /\ Failed.warned = TRUE /\ Failed.dir = "backups"
    BY DEF Failed, NoJob
  <2>. QED
    BY <2>1, <2>2 DEF GivesUp
<1>5. ASSUME Locked(r) PROVE Moves(r, "check") \/ GivesUp(r)
  <2>1. CASE job[r].tries + 1 < MaxAttempts
    <3>1. Set(r, [job[r] EXCEPT !.at = "check", !.tries = @ + 1])
      BY <1>5, <2>1 DEF Locked, Retried
    <3>2. job'[r] = [job[r] EXCEPT !.at = "check", !.tries = @ + 1]
          /\ \A o \in Runs : o # r => job'[o] = job[o]
      BY <3>1, JobAfter
    <3>. QED
      BY <1>j, <3>2 DEF Jobs
  <2>2. CASE ~(job[r].tries + 1 < MaxAttempts)
    BY <1>4, <1>5, <2>2 DEF Locked, Retried
  <2>. QED
    BY <2>1, <2>2
<1>6. Fail(r) => GivesUp(r)
  BY <1>4 DEF Fail
<1>7. ASSUME ListFiles(r) PROVE Moves(r, "unlink")
  <2>1. PICK excess : Set(r, [job[r] EXCEPT !.at = "unlink", !.doomed = excess])
    BY <1>7 DEF ListFiles
  <2>2. job'[r] = [job[r] EXCEPT !.at = "unlink", !.doomed = excess]
        /\ \A o \in Runs : o # r => job'[o] = job[o]
    BY <2>1, JobAfter
  <2>. QED
    BY <1>j, <2>2 DEF Jobs
<1>8. ASSUME Unlink(r)
      PROVE  Moves(r, IF job[r].dir = "backups" THEN "queue" ELSE "open")
  <2>1. job'[r] = AfterPrune(job[r]) /\ \A o \in Runs : o # r => job'[o] = job[o]
    BY <1>8, JobAfter DEF Unlink
  <2>. QED
    BY <1>j, <2>1 DEF AfterPrune, Jobs
<1>9. ASSUME EmptyLog(r)
      PROVE  After(r, "list", job[r].integrity, job[r].backup, job[r].warned, "archives")
  <2>1. Set(r, [job[r] EXCEPT !.at = "list", !.dir = "archives"])
    BY <1>9 DEF EmptyLog
  <2>2. job'[r] = [job[r] EXCEPT !.at = "list", !.dir = "archives"]
        /\ \A o \in Runs : o # r => job'[o] = job[o]
    BY <2>1, JobAfter
  <2>. QED
    BY <1>j, <2>2 DEF Jobs
<1>10. ASSUME LogFails(r)
       PROVE  After(r, "open", job[r].integrity, job[r].backup, TRUE, job[r].dir)
  <2>1. Set(r, [job[r] EXCEPT !.at = "open", !.warned = TRUE])
    BY <1>10 DEF LogFails
  <2>2. job'[r] = [job[r] EXCEPT !.at = "open", !.warned = TRUE]
        /\ \A o \in Runs : o # r => job'[o] = job[o]
    BY <2>1, JobAfter
  <2>. QED
    BY <1>j, <2>2 DEF Jobs
<1>11. ASSUME OpenTmp(r) PROVE Moves(r, "write") /\ job'[r].fd = tmp'
  <2>1. Set(r, [job[r] EXCEPT !.at = "write", !.fd = tmp'])
    BY <1>11 DEF OpenTmp
  <2>2. job'[r] = [job[r] EXCEPT !.at = "write", !.fd = tmp']
        /\ \A o \in Runs : o # r => job'[o] = job[o]
    BY <2>1, JobAfter
  <2>. QED
    BY <1>j, <2>2 DEF Jobs
<1>12. ASSUME Replace(r) \/ ReplaceRaises(r) \/ Die(r) PROVE Ends(r)
  <2>1. End(r)
    BY <1>12 DEF Replace, ReplaceRaises, Die
  <2>. QED
    BY <2>1, JobAfter DEF End, Ends, NoJob
<1>. QED
  BY <1>1, <1>2, <1>3, <1>5, <1>6, <1>7, <1>8, <1>9, <1>10, <1>11, <1>12

\* When the listing of r meets the removal by o, each goes on by itself.
LEMMA JobsListRaises ==
  ASSUME TypeOK, NEW r \in Runs, NEW o \in Runs, ListRaises(r, o)
  PROVE  /\ r # o
         /\ \A x \in Runs : x \notin {o, r} => job'[x] = job[x]
         /\ job'[o] = AfterPrune(job[o])
         /\ job[r].dir = "backups" => job'[r] = Failed
         /\ job[r].dir # "backups" =>
              job'[r] = [AfterPrune(job[r]) EXCEPT !.warned = TRUE]
<1>1. r # o
  BY DEF ListRaises, At
<1>2. PICK j : /\ job' = [job EXCEPT ![o] = AfterPrune(job[o]), ![r] = j]
               /\ job[r].dir = "backups" => j = Failed
               /\ job[r].dir # "backups" => j = [AfterPrune(job[r]) EXCEPT !.warned = TRUE]
  BY <1>1 DEF ListRaises, TypeOK
<1>. QED
  BY <1>1, <1>2 DEF TypeOK

\* After the rotation of the queue a run without a warning had none before, and
\* its integrity check had said ok.
LEMMA JobRotateQueue ==
  ASSUME TypeOK, NEW r \in Runs, RotateQueue(r)
  PROVE  \E w \in BOOLEAN :
           /\ After(r, "log", "ok", job[r].backup, w, job[r].dir)
           /\ ~w => ~job[r].warned /\ job[r].integrity = "ok"
<1>j. job[r] \in Jobs
  BY DEF TypeOK
<1>1. PICK w \in BOOLEAN :
        Set(r, [job[r] EXCEPT !.at = "log", !.integrity = "ok",
                  !.warned = job[r].warned \/ w \/ job[r].integrity # "ok"])
  BY DEF RotateQueue
<1>2. PICK x \in BOOLEAN : x = (job[r].warned \/ w \/ job[r].integrity # "ok")
  OBVIOUS
<1>3. Set(r, [job[r] EXCEPT !.at = "log", !.integrity = "ok", !.warned = x])
  BY <1>1, <1>2
<1>4. job'[r] = [job[r] EXCEPT !.at = "log", !.integrity = "ok", !.warned = x]
      /\ \A o \in Runs : o # r => job'[o] = job[o]
  BY <1>3, JobAfter
<1>5. After(r, "log", "ok", job[r].backup, x, job[r].dir)
  BY <1>j, <1>4 DEF After, Jobs
<1>6. ~x => ~job[r].warned /\ job[r].integrity = "ok"
  BY <1>2
<1>. QED
  BY <1>5, <1>6

----------------------------------------------------------------------------
(***************************************************************************)
(* Directories: what a step does to them, and what is kept in them.        *)
(***************************************************************************)

\* No run is about to unlink a file that it was not about to unlink before.
NoNewDoom == \A o \in Runs : job'[o].at = "unlink" => job'[o] = job[o]

\* Run o unlinks what it has listed.
Prunes(o) ==
  /\ At(o, {"unlink"})
  /\ files' = [files EXCEPT ![job[o].dir] = Pruned(o)]
  /\ UNCHANGED <<newer, later>>

\* A directory is read, or a file of it touched, or it is pruned, or the time of an
\* archive or of the log is set, or nothing of this.
LEMMA DirectoryStep ==
  ASSUME TypeOK, Next
  PROVE  \/ \E r \in Runs : ListFiles(r)
         \/ NoNewDoom /\ \E r \in Runs, dir \in Dirs : Touch(dir, r)
         \/ NoNewDoom /\ \E r \in Runs : Prunes(r)
         \/ NoNewDoom /\ \E r \in Runs : TakeTime(r)
         \/ NoNewDoom /\ LogAges
         \/ NoNewDoom /\ UNCHANGED directory
<1>. USE DEF directory
<1>0. ASSUME NEW r \in Runs, NEW at, NEW i, NEW b, NEW w, NEW d, at # "unlink",
             After(r, at, i, b, w, d)
      PROVE  NoNewDoom
  BY <1>0 DEF After, NoNewDoom
<1>1. ASSUME NEW r \in Runs,
             \/ Start(r) \/ Locked(r) \/ Fail(r) \/ LogWithinLimit(r) \/ EmptyLog(r)
             \/ LogFails(r) \/ OpenTmp(r) \/ WriteTmp(r) \/ Replace(r)
             \/ ReplaceRaises(r) \/ Die(r)
      PROVE  NoNewDoom /\ UNCHANGED directory
  <2>1. NoNewDoom
    BY <1>0, <1>1, JobSteps DEF Moves, GivesUp, Ends
  <2>2. UNCHANGED directory
    BY <1>1 DEF Start, Locked, Fail, LogWithinLimit, EmptyLog, LogFails, OpenTmp,
                WriteTmp, Replace, ReplaceRaises, Die
  <2>. QED
    BY <2>1, <2>2
<1>2. ASSUME NEW r \in Runs, Check(r) \/ CopyAll(r) \/ CopySome(r)
      PROVE  NoNewDoom /\ (Touch("backups", r) \/ UNCHANGED directory)
  <2>1. NoNewDoom
    BY <1>0, <1>2, JobSteps DEF CopySome, NoNewDoom
  <2>. QED
    BY <1>2, <2>1 DEF Check, CopyAll, CopySome, CopyPages
<1>3. ASSUME NEW r \in Runs, LockLog(r) \/ CopyLog(r) \/ CopySomeLines(r)
      PROVE  NoNewDoom /\ (Touch("archives", r) \/ UNCHANGED directory)
  <2>1. NoNewDoom
    BY ZenonT(40), <1>0, <1>3, JobSteps DEF Moves, CopySomeLines, NoNewDoom
  <2>. QED
    BY <1>3, <2>1 DEF LockLog, CopyLog, CopySomeLines, CopyLines
<1>9. ASSUME NEW r \in Runs, StatLog(r) PROVE NoNewDoom /\ TakeTime(r)
  <2>1. NoNewDoom
    BY <1>0, <1>9, JobSteps DEF Moves
  <2>. QED
    BY <1>9, <2>1 DEF StatLog
<1>4. ASSUME NEW r \in Runs, Unlink(r) PROVE NoNewDoom /\ Prunes(r)
  <2>1. NoNewDoom
    BY <1>0, <1>4, JobSteps DEF Moves
  <2>. QED
    BY <1>4, <2>1 DEF Unlink, Prunes
<1>5. ASSUME NEW r \in Runs, NEW o \in Runs, ListRaises(r, o)
      PROVE  NoNewDoom /\ Prunes(o)
  <2>1. /\ AfterPrune(job[o]).at # "unlink"
        /\ Failed.at # "unlink"
        /\ [AfterPrune(job[r]) EXCEPT !.warned = TRUE].at # "unlink"
    BY DEF AfterPrune, Failed, NoJob, TypeOK, Jobs
  <2>2. job'[o].at # "unlink" /\ job'[r].at # "unlink"
    BY <1>5, <2>1, JobsListRaises
  <2>3. \A x \in Runs : x \notin {o, r} => job'[x] = job[x]
    BY <1>5, JobsListRaises
  <2>4. NoNewDoom
    BY <2>2, <2>3 DEF NoNewDoom
  <2>. QED
    BY <1>5, <2>4 DEF ListRaises, Prunes
<1>6. ASSUME NEW r \in Runs, RotateQueue(r) PROVE NoNewDoom /\ UNCHANGED directory
  <2>1. \E w : After(r, "log", "ok", job[r].backup, w, job[r].dir)
    BY <1>6, JobRotateQueue
  <2>. QED
    BY <1>0, <1>6, <2>1 DEF RotateQueue
<1>7. CASE WriteLog \/ Corrupt
  BY <1>7 DEF WriteLog, LogAges, Corrupt, NoNewDoom
<1>8. {"backups", "archives"} = Dirs
  BY DEF Dirs
<1>. QED
  BY <1>1, <1>2, <1>3, <1>4, <1>5, <1>6, <1>7, <1>8, <1>9
     DEF Next, Advance, Disturb, Logging, Damage

\* Sets of runs are finite and have no more elements than a superset.
LEMMA RunSets ==
  ASSUME NEW S \in SUBSET Runs
  PROVE  /\ Cardinality(S) \in Nat
         /\ \A T \in SUBSET Runs : T \subseteq S => Cardinality(T) <= Cardinality(S)
<1>1. IsFiniteSet(Runs)
  BY MaintenanceAssumption, FS_Interval DEF Runs
<1>2. IsFiniteSet(S)
  BY <1>1, FS_Subset
<1>. QED
  BY <1>2, FS_Subset, FS_CardinalityType

\* What is known to be late stays late: a file has at least as many later ones
\* after another is touched.
LEMMA TouchCounts ==
  ASSUME TypeOK, TypeOK', NEW dir \in Dirs, NEW r \in Runs, Touch(dir, r),
         NEW d \in Dirs, NEW x \in Runs,
         \/ d # dir \/ x # r \/ x \in files[d] \/ \E o \in Runs : Dooms(o, d, x)
  PROVE  Cardinality(later[d][x]) >= Retain[d] => Cardinality(later'[d][x]) >= Retain[d]
<1>1. later[d][x] \subseteq later'[d][x]
  BY DEF Touch, Since, TypeOK
<1>2. later[d][x] \in SUBSET Runs /\ later'[d][x] \in SUBSET Runs
  BY DEF TypeOK
<1>3. /\ Cardinality(later[d][x]) \in Nat /\ Cardinality(later'[d][x]) \in Nat
      /\ Cardinality(later[d][x]) <= Cardinality(later'[d][x])
  BY <1>1, <1>2, RunSets
<1>4. Retain[d] \in Nat
  BY MaintenanceAssumption
<1>. QED
  BY <1>3, <1>4

\* What is late stays late when an archive gets its time.
LEMMA TimeCounts ==
  ASSUME TypeOK, TypeOK', NEW r \in Runs, TakeTime(r), NEW d \in Dirs, NEW x \in Runs
  PROVE  Cardinality(later[d][x]) >= Retain[d] => Cardinality(later'[d][x]) >= Retain[d]
<1>1. later[d][x] \subseteq later'[d][x]
  BY TimeTaken DEF Dirs
<1>2. later[d][x] \in SUBSET Runs /\ later'[d][x] \in SUBSET Runs
  BY DEF TypeOK
<1>3. /\ Cardinality(later[d][x]) \in Nat /\ Cardinality(later'[d][x]) \in Nat
      /\ Cardinality(later[d][x]) <= Cardinality(later'[d][x])
  BY <1>1, <1>2, RunSets
<1>4. Retain[d] \in Nat
  BY MaintenanceAssumption
<1>. QED
  BY <1>3, <1>4

\* What is kept stays kept.
LEMMA KeptStays ==
  ASSUME TypeOK, TypeOK', DoomedInTime, Next,
         NEW d \in Dirs, NEW x \in Runs, Kept(d, x)
  PROVE  Kept(d, x)'
<1>1. ASSUME NEW r \in Runs, NEW dir \in Dirs, Touch(dir, r) PROVE Kept(d, x)'
  <2>1. CASE d = dir /\ x = r
    BY <1>1, <2>1 DEF Touch, Kept, TypeOK
  <2>2. CASE ~(d = dir /\ x = r)
    <3>1. files[d] \subseteq files'[d]
      BY <1>1 DEF Touch, TypeOK
    <3>2. Cardinality(later[d][x]) >= Retain[d] => Cardinality(later'[d][x]) >= Retain[d]
      BY <1>1, <2>2, TouchCounts
    <3>. QED
      BY <3>1, <3>2 DEF Kept
  <2>. QED
    BY <2>1, <2>2
<1>2. ASSUME NEW o \in Runs, Prunes(o) PROVE Kept(d, x)'
  <2>1. CASE x \in files[d] /\ x \notin files'[d]
    <3>1. job[o].dir = d /\ x \in job[o].doomed
      BY <1>2, <2>1 DEF Prunes, Pruned, TypeOK
    <3>2. Cardinality(later[d][x]) >= Retain[d]
      BY <1>2, <3>1 DEF Prunes, DoomedInTime, Dooms
    <3>. QED
      BY <1>2, <3>2 DEF Prunes, Kept
  <2>2. CASE ~(x \in files[d] /\ x \notin files'[d])
    BY <1>2, <2>2 DEF Prunes, Kept
  <2>. QED
    BY <2>1, <2>2
<1>3. ASSUME UNCHANGED <<files, later>> PROVE Kept(d, x)'
  BY <1>3 DEF Kept
<1>4. \A r \in Runs : ListFiles(r) => UNCHANGED directory
  BY DEF ListFiles
<1>5. ASSUME NEW r \in Runs, TakeTime(r) PROVE Kept(d, x)'
  BY <1>5, TimeTaken, TimeCounts DEF Kept
<1>. QED
  BY <1>1, <1>2, <1>3, <1>4, <1>5, DirectoryStep DEF directory, LogAges

\* Listings stay in time.
LEMMA DoomedStep ==
  ASSUME TypeOK, TypeOK', DoomedInTime, Next
  PROVE  DoomedInTime'
<1>1. ASSUME NEW r \in Runs, NEW dir \in Dirs, Touch(dir, r), NoNewDoom
      PROVE  DoomedInTime'
  <2>1. AgesCounted'
    <3> SUFFICES ASSUME NEW d \in Dirs, NEW x \in files'[d], NEW k \in files'[d], x # k
                 PROVE  x \in newer'[d][k] \/ k \in later'[d][x]
      BY DEF AgesCounted
    <3>0. x \in Runs /\ k \in Runs /\ Runs \subseteq Dated
      BY DEF TypeOK, Dated
    <3>1. CASE d # dir
      <4>1. /\ files'[d] = files[d] /\ newer'[d] = newer[d] /\ later'[d] = later[d]
        BY <1>1, <3>1 DEF Touch, TypeOK
      <4>. QED
        BY <4>1 DEF DoomedInTime, AgesCounted
    <3>2. CASE d = dir
      <4>1. /\ files'[d] = files[d] \cup {r}
            /\ \A o \in Runs \ {r} : /\ newer'[d][o] = newer[d][o] \cup {r}
                                     /\ later'[d][o] = later[d][o] \cup {r}
        BY <1>1, <3>0, <3>2 DEF Touch, Since, TypeOK
      <4>2. CASE x # r /\ k # r
        BY <3>0, <4>1, <4>2 DEF DoomedInTime, AgesCounted
      <4>3. CASE x = r
        BY <3>0, <4>1, <4>3
      <4>4. CASE k = r
        BY <3>0, <4>1, <4>4
      <4>. QED
        BY <4>2, <4>3, <4>4
    <3>. QED
      BY <3>1, <3>2
  <2>2. ASSUME NEW d \in Dirs, NEW o \in Runs, NEW x \in Runs, Dooms(o, d, x)'
        PROVE  Cardinality(later'[d][x]) >= Retain[d]
    <3>1. Dooms(o, d, x)
      BY <1>1, <2>2 DEF NoNewDoom, Dooms, At
    <3>2. Cardinality(later[d][x]) >= Retain[d]
      BY <3>1 DEF DoomedInTime
    <3>. QED
      BY <1>1, <3>1, <3>2, TouchCounts
  <2>. QED
    BY <2>1, <2>2 DEF DoomedInTime
<1>2. ASSUME NoNewDoom, UNCHANGED later, \A d \in Dirs : files'[d] \subseteq files[d],
             \A d \in Dirs, k \in Runs : newer[d][k] \subseteq newer'[d][k]
      PROVE  DoomedInTime'
  <2>2. AgesCounted'
    BY <1>2 DEF DoomedInTime, AgesCounted, TypeOK
  <2>1. ASSUME NEW d \in Dirs, NEW o \in Runs, NEW x \in Runs, Dooms(o, d, x)'
        PROVE  Cardinality(later'[d][x]) >= Retain[d]
    <3>1. Dooms(o, d, x)
      BY <1>2, <2>1 DEF NoNewDoom, Dooms, At
    <3>. QED
      BY <1>2, <3>1 DEF DoomedInTime
  <2>. QED
    BY <2>1, <2>2 DEF DoomedInTime
<1>3. ASSUME NEW r \in Runs, ListFiles(r) PROVE DoomedInTime'
  <2>0. PICK excess \in Excess(job[r].dir) :
          Set(r, [job[r] EXCEPT !.at = "unlink", !.doomed = excess])
    BY <1>3 DEF ListFiles
  <2>1. job'[r] = [job[r] EXCEPT !.at = "unlink", !.doomed = excess]
        /\ \A o \in Runs : o # r => job'[o] = job[o]
    BY <2>0, JobAfter
  <2>2. UNCHANGED <<files, newer, later>>
    BY <1>3 DEF ListFiles, directory
  <2>3. job'[r].dir = job[r].dir /\ job'[r].doomed = excess
    BY <2>1 DEF TypeOK, Jobs
  <2>4. ASSUME NEW d \in Dirs, NEW x \in Runs, Dooms(r, d, x)'
        PROVE  Cardinality(later[d][x]) >= Retain[d]
    <3>1. excess \in Excess(d) /\ x \in excess
      BY <2>0, <2>3, <2>4 DEF Dooms
    <3>2. PICK kept \in SUBSET files[d] :
            /\ kept = files[d] \/ Cardinality(kept) = Retain[d]
            /\ First(d, kept)
            /\ excess = files[d] \ kept
      BY <3>1 DEF Excess
    <3>3. x \in files[d] \ kept /\ Cardinality(kept) = Retain[d]
      BY <3>1, <3>2
    <3>4. kept \subseteq later[d][x]
      <4>1. ASSUME NEW k \in kept PROVE k \in later[d][x]
        <5>1. x \notin newer[d][k] /\ x # k
          BY <3>2, <3>3 DEF First
        <5>. QED
          BY <3>2, <3>3, <5>1 DEF DoomedInTime, AgesCounted
      <4>. QED
        BY <4>1
    <3>5. kept \in SUBSET Runs /\ later[d][x] \in SUBSET Runs
      BY <3>2 DEF TypeOK
    <3>6. /\ Cardinality(later[d][x]) \in Nat /\ Cardinality(kept) \in Nat
          /\ Cardinality(kept) <= Cardinality(later[d][x])
      BY <3>4, <3>5, RunSets
    <3>. QED
      BY <3>3, <3>6
  <2>5. ASSUME NEW d \in Dirs, NEW o \in Runs, NEW x \in Runs, o # r, Dooms(o, d, x)'
        PROVE  Cardinality(later[d][x]) >= Retain[d]
    BY <2>1, <2>5 DEF Dooms, At, DoomedInTime
  <2>. QED
    BY <2>2, <2>4, <2>5 DEF DoomedInTime, AgesCounted
<1>4. ASSUME NEW r \in Runs, TakeTime(r), NoNewDoom PROVE DoomedInTime'
  <2>1. AgesCounted'
    <3> SUFFICES ASSUME NEW d \in Dirs, NEW x \in files'[d], NEW k \in files'[d], x # k
                 PROVE  x \in newer'[d][k] \/ k \in later'[d][x]
      BY DEF AgesCounted
    <3>0. x \in Runs /\ k \in Runs /\ x \in files[d] /\ k \in files[d]
      BY <1>4, TimeTaken DEF TypeOK
    <3>1. CASE d = "backups"
      <4>1. newer'[d] = newer[d] /\ later'[d] = later[d]
        BY <1>4, <3>1, TimeTaken
      <4>. QED
        BY <3>0, <4>1 DEF DoomedInTime, AgesCounted
    <3>2. CASE d = "archives"
      <4>1. CASE x # r /\ k # r
        <5>1. /\ x \in newer'[d][k] <=> x \in newer[d][k]
              /\ later[d][x] \subseteq later'[d][x]
          BY <1>4, <3>0, <3>2, <4>1, TimeTaken
        <5>. QED
          BY <3>0, <5>1 DEF DoomedInTime, AgesCounted
      <4>2. CASE x = r
        BY <1>4, <3>0, <3>2, <4>2, TimeTaken
      <4>3. CASE k = r
        BY <1>4, <3>0, <3>2, <4>3, TimeTaken
      <4>. QED
        BY <4>1, <4>2, <4>3
    <3>. QED
      BY <3>1, <3>2 DEF Dirs
  <2>2. ASSUME NEW d \in Dirs, NEW o \in Runs, NEW x \in Runs, Dooms(o, d, x)'
        PROVE  Cardinality(later'[d][x]) >= Retain[d]
    <3>1. Dooms(o, d, x)
      BY <1>4, <2>2 DEF NoNewDoom, Dooms, At
    <3>2. Cardinality(later[d][x]) >= Retain[d]
      BY <3>1 DEF DoomedInTime
    <3>. QED
      BY <1>4, <3>2, TimeCounts
  <2>. QED
    BY <2>1, <2>2 DEF DoomedInTime
<1>5. ASSUME NEW r \in Runs, Prunes(r), NoNewDoom PROVE DoomedInTime'
  <2>1. \A d \in Dirs : files'[d] \subseteq files[d]
    BY <1>5 DEF Prunes, Pruned, TypeOK
  <2>. QED
    BY <1>2, <1>5, <2>1 DEF Prunes
<1>6. ASSUME LogAges, NoNewDoom PROVE DoomedInTime'
  BY <1>2, <1>6, LogAged DEF LogAges
<1>7. ASSUME UNCHANGED directory, NoNewDoom PROVE DoomedInTime'
  BY <1>2, <1>7 DEF directory
<1>. QED
  BY <1>1, <1>3, <1>4, <1>5, <1>6, <1>7, DirectoryStep

----------------------------------------------------------------------------
(***************************************************************************)
(* The locals of a run.                                                    *)
(***************************************************************************)

\* What a step must respect for the locals to stay sound.
LEMMA LocalsAfter ==
  ASSUME TypeOK, LocalsSound, NEW r \in Runs, NEW at, NEW i, NEW b, NEW w, NEW d,
         After(r, at, i, b, w, d),
         at \in {"check", "copy"} => d = "backups",
         \/ at \in {"check", "copy", "queue", "ended"}
         \/ at \in {"list", "unlink"} /\ d = "backups"
         \/ i = "ok",
         at # "new"
  PROVE  LocalsSound'
<1>1. ASSUME NEW x \in Runs
      PROVE  /\ At(x, {"new", "check", "copy"})' => job'[x].dir = "backups"
             /\ Late(x)' => job'[x].integrity = "ok"
  <2>1. CASE x = r
    BY <2>1 DEF After, At, Late, InArchives
  <2>2. CASE x # r
    <3>1. job'[x] = job[x]
      BY <2>2 DEF After
    <3>. QED
      BY <3>1 DEF LocalsSound, At, Late, InArchives
  <2>. QED
    BY <2>1, <2>2
<1>. QED
  BY <1>1 DEF LocalsSound

\* The locals stay sound.
LEMMA LocalsStep ==
  ASSUME TypeOK, LocalsSound, Next
  PROVE  LocalsSound'
<1>. USE DEF Moves, GivesUp, Ends
<1>d. \A r \in Runs : job[r].dir \in Dirs
  BY DEF TypeOK, Jobs
<1>1. ASSUME NEW r \in Runs, Start(r) \/ Check(r) \/ Locked(r) \/ Fail(r)
      PROVE  LocalsSound'
  <2>1. job[r].dir = "backups"
    BY <1>1 DEF Start, Check, Locked, Fail, LocalsSound, At
  <2>2. ASSUME Moves(r, "check") PROVE LocalsSound'
    <3>1. After(r, "check", job[r].integrity, job[r].backup, job[r].warned, "backups")
      BY <2>1, <2>2
    <3>. QED
      BY <3>1, LocalsAfter
  <2>3. CASE Start(r)
    BY <2>2, <2>3, JobSteps
  <2>4. CASE Check(r)
    <3>1. After(r, "copy", IF sound THEN "ok" ELSE "warning", job[r].backup,
                job[r].warned, "backups")
      BY <2>1, <2>4, JobSteps
    <3>. QED
      BY <3>1, LocalsAfter
  <2>5. ASSUME GivesUp(r) PROVE LocalsSound'
    BY <2>5, LocalsAfter
  <2>6. CASE Locked(r) \/ Fail(r)
    BY <2>2, <2>5, <2>6, JobSteps
  <2>. QED
    BY <1>1, <2>3, <2>4, <2>6
<1>2. ASSUME NEW r \in Runs, CopyAll(r) PROVE LocalsSound'
  <2>1. job[r].dir = "backups"
    BY <1>2 DEF CopyAll, CopyPages, LocalsSound, At
  <2>. QED
    BY <1>2, <2>1, JobSteps, LocalsAfter
<1>3. ASSUME NEW r \in Runs, ListFiles(r) \/ Unlink(r) PROVE LocalsSound'
  <2>1. job[r].dir = "backups" \/ job[r].integrity = "ok"
    BY <1>3, <1>d DEF ListFiles, Unlink, LocalsSound, At, Late, InArchives, Dirs
  <2>2. CASE ListFiles(r)
    BY ZenonT(40), <2>1, <2>2, JobSteps, LocalsAfter
  <2>3. CASE Unlink(r)
    BY ZenonT(40), <2>1, <2>3, JobSteps, LocalsAfter
  <2>. QED
    BY <1>3, <2>2, <2>3
<1>4. ASSUME NEW r \in Runs,
             \/ LogWithinLimit(r) \/ LockLog(r) \/ CopyLog(r) \/ StatLog(r) \/ EmptyLog(r)
             \/ LogFails(r) \/ OpenTmp(r) \/ WriteTmp(r)
      PROVE  LocalsSound'
  <2>1. job[r].integrity = "ok"
    BY <1>4 DEF LogWithinLimit, LockLog, CopyLines, CopyLog, StatLog, EmptyLog, LogFails,
                Locking, OpenTmp, WriteTmp, LocalsSound, At, Late
  <2>2. CASE LogWithinLimit(r) \/ LockLog(r) \/ CopyLog(r) \/ StatLog(r)
    BY ZenonT(40), <2>1, <2>2, JobSteps, LocalsAfter
  <2>3. CASE EmptyLog(r)
    BY <2>1, <2>3, JobSteps, LocalsAfter
  <2>4. CASE LogFails(r)
    BY <2>1, <2>4, JobSteps, LocalsAfter
  <2>5. CASE OpenTmp(r) \/ WriteTmp(r)
    BY ZenonT(40), <2>1, <2>5, JobSteps, LocalsAfter
  <2>. QED
    BY <1>4, <2>2, <2>3, <2>4, <2>5
<1>5. ASSUME NEW r \in Runs, Replace(r) \/ ReplaceRaises(r) \/ Die(r) PROVE LocalsSound'
  BY <1>5, JobSteps, LocalsAfter
<1>6. ASSUME NEW r \in Runs, RotateQueue(r) PROVE LocalsSound'
  <2>1. PICK w \in BOOLEAN : After(r, "log", "ok", job[r].backup, w, job[r].dir)
    BY <1>6, JobRotateQueue
  <2>. QED
    BY <2>1, LocalsAfter
<1>7. ASSUME NEW r \in Runs, NEW o \in Runs, ListRaises(r, o) PROVE LocalsSound'
  <2>1. ASSUME NEW x \in {r, o}, job'[x] = AfterPrune(job[x]) \/ job'[x] = Failed
                 \/ job'[x] = [AfterPrune(job[x]) EXCEPT !.warned = TRUE],
               job[x].dir = "backups" \/ job[x].integrity = "ok"
        PROVE  /\ ~At(x, {"new", "check", "copy"})'
               /\ Late(x)' => job'[x].integrity = "ok"
    <3>1. job[x] \in Jobs
      BY DEF TypeOK
    <3>2. /\ AfterPrune(job[x]).at \in {"queue", "open"}
          /\ AfterPrune(job[x]).at = "open" => job[x].dir # "backups"
          /\ AfterPrune(job[x]).integrity = job[x].integrity
      BY <3>1 DEF AfterPrune, Jobs
    <3>3. [AfterPrune(job[x]) EXCEPT !.warned = TRUE].at = AfterPrune(job[x]).at
          /\ [AfterPrune(job[x]) EXCEPT !.warned = TRUE].integrity
               = AfterPrune(job[x]).integrity
      BY JobsMade DEF Jobs
    <3>4. Failed.at = "queue"
      BY DEF Failed, NoJob
    <3>. QED
      BY <2>1, <3>2, <3>3, <3>4 DEF At, Late, InArchives
  <2>2. ASSUME NEW x \in {r, o} PROVE job[x].dir = "backups" \/ job[x].integrity = "ok"
    BY <1>7, <1>d DEF ListRaises, LocalsSound, At, Late, InArchives, Dirs
  <2>3. ASSUME NEW x \in {r, o}
        PROVE  /\ ~At(x, {"new", "check", "copy"})'
               /\ Late(x)' => job'[x].integrity = "ok"
    BY <1>7, <2>1, <2>2, JobsListRaises
  <2>4. ASSUME NEW x \in Runs, x \notin {r, o}
        PROVE  /\ At(x, {"new", "check", "copy"})' => job'[x].dir = "backups"
               /\ Late(x)' => job'[x].integrity = "ok"
    <3>0. \A y \in Runs : y \notin {o, r} => job'[y] = job[y]
      BY <1>7, JobsListRaises
    <3>1. job'[x] = job[x]
      BY <2>4, <3>0
    <3>. QED
      BY <3>1 DEF LocalsSound, At, Late, InArchives
  <2>. QED
    BY <2>3, <2>4 DEF LocalsSound
<1>8. ASSUME UNCHANGED job PROVE LocalsSound'
  BY <1>8 DEF LocalsSound, At, Late, InArchives
<1>9. /\ WriteLog => UNCHANGED job
      /\ Corrupt => UNCHANGED job
      /\ \A r \in Runs : CopySome(r) \/ CopySomeLines(r) => UNCHANGED job
  BY DEF WriteLog, Corrupt, CopySome, CopySomeLines
<1>. QED
  BY <1>1, <1>2, <1>3, <1>4, <1>5, <1>6, <1>7, <1>8, <1>9
     DEF Next, Advance, Disturb, Logging, Damage

----------------------------------------------------------------------------
(***************************************************************************)
(* The backups that runs speak of.                                         *)
(***************************************************************************)

\* The database is damaged, or it is copied, or nothing of both.
LEMMA DatabaseStep ==
  ASSUME Next
  PROVE  Corrupt \/ (\E r \in Runs : CopyAll(r)) \/ UNCHANGED database
<1>1. ASSUME NEW r \in Runs,
             \/ Start(r) \/ Check(r) \/ CopySome(r) \/ Locked(r) \/ Fail(r)
             \/ ListFiles(r) \/ Unlink(r) \/ RotateQueue(r) \/ LogWithinLimit(r)
      PROVE  UNCHANGED database
  BY <1>1 DEF Start, Check, CopySome, Locked, Fail, ListFiles, Unlink, RotateQueue,
              LogWithinLimit, database
<1>2. ASSUME NEW r \in Runs,
             \/ LockLog(r) \/ CopySomeLines(r) \/ CopyLog(r) \/ StatLog(r) \/ EmptyLog(r)
             \/ LogFails(r) \/ OpenTmp(r)
             \/ WriteTmp(r) \/ Replace(r) \/ ReplaceRaises(r) \/ Die(r)
             \/ \E o \in Runs : ListRaises(r, o)
      PROVE  UNCHANGED database
  BY <1>2 DEF LockLog, CopySomeLines, CopyLog, StatLog, EmptyLog, LogFails, OpenTmp, WriteTmp, Replace,
              ReplaceRaises, Die, ListRaises, database
<1>3. WriteLog => UNCHANGED database
  BY DEF WriteLog, database
<1>. QED
  BY <1>1, <1>2, <1>3 DEF Next, Advance, Disturb, Logging, Damage

\* A backup that may be spoken of may be spoken of later.
LEMMA ToldStays ==
  ASSUME TypeOK, TypeOK', DoomedInTime, BackupsTold, Next
  PROVE  /\ whole \subseteq whole' /\ struck \subseteq struck'
         /\ sound' => sound /\ struck' = {}
         /\ \A b : Told(b) => Told(b)'
<1>1. /\ whole \subseteq whole' /\ struck \subseteq struck'
      /\ sound' => sound /\ struck' = {}
  <2>1. CASE Corrupt
    BY <2>1 DEF Corrupt, BackupsTold
  <2>2. ASSUME NEW r \in Runs, CopyAll(r)
        PROVE  whole \subseteq whole' /\ UNCHANGED <<sound, struck>>
    BY <2>2 DEF CopyAll
  <2>. QED
    BY <2>1, <2>2, DatabaseStep DEF database, BackupsTold
<1>2. ASSUME NEW b, Told(b) PROVE Told(b)'
  <2>1. b \in Runs /\ "backups" \in Dirs
    BY <1>2 DEF Told, TypeOK, Dirs
  <2>2. Kept("backups", b)'
    BY <1>2, <2>1, KeptStays DEF Told
  <2>. QED
    BY <1>1, <1>2, <2>2 DEF Told
<1>. QED
  BY <1>1, <1>2

\* A run whose label and locals stay has what it had.
LEMMA SameJobTold ==
  ASSUME TypeOK, TypeOK', DoomedInTime, BackupsTold, Next,
         NEW x \in Runs, job'[x] = job[x]
  PROVE  CopyTold(x)' /\ JobTold(x)'
<1>1. ASSUME At(x, {"copy"})' PROVE CopyTold(x)'
  <2>1. At(x, {"copy"})
    BY <1>1 DEF At
  <2>2. Kept("backups", x)'
    BY <2>1, KeptStays DEF BackupsTold, CopyTold, Dirs
  <2>3. ASSUME job'[x].integrity = "ok" PROVE sound' \/ x \in struck'
    <3>1. sound \/ x \in struck
      BY <2>1, <2>3 DEF BackupsTold, CopyTold
    <3>2. sound /\ ~sound' => Corrupt
      BY DatabaseStep DEF CopyAll, database
    <3>3. Corrupt => x \in struck'
      BY <2>1 DEF Corrupt
    <3>4. x \in struck => x \in struck'
      BY ToldStays
    <3>5. sound' \in BOOLEAN /\ sound \in BOOLEAN
      BY DEF TypeOK
    <3>. QED
      BY <3>1, <3>2, <3>3, <3>4, <3>5
  <2>. QED
    BY <2>2, <2>3 DEF CopyTold
<1>2. JobTold(x)'
  <2>1. JobTold(x)
    BY DEF BackupsTold
  <2>2. Told(job[x].backup) => Told(job[x].backup)'
    BY ToldStays
  <2>. QED
    BY <2>1, <2>2 DEF JobTold, InBackups, Late, InArchives, At
<1>. QED
  BY <1>1, <1>2 DEF CopyTold

\* A run that is not copying and has a warning, or is before its checks, or at
\* its end, has nothing to answer for.
LEMMA NothingTold ==
  ASSUME TypeOK, NEW r \in Runs, NEW at, NEW i, NEW b, NEW w, NEW d,
         After(r, at, i, b, w, d), at # "copy", w \/ at \in {"check", "ended"}
  PROVE  CopyTold(r)' /\ JobTold(r)'
BY DEF After, CopyTold, JobTold, InBackups, Late, InArchives, At

\* A run that goes on with what it had still tells of the same backup.
LEMMA SameTold ==
  ASSUME TypeOK, TypeOK', DoomedInTime, BackupsTold, Next,
         NEW r \in Runs, NEW at, NEW d,
         After(r, at, job[r].integrity, job[r].backup, job[r].warned, d), at # "copy",
         InBackups(r) \/ At(r, {"queue"}) \/ Late(r)
  PROVE  CopyTold(r)' /\ JobTold(r)'
<1>1. job[r].warned \/ job[r].integrity # "ok" \/ Told(job[r].backup)
  BY DEF BackupsTold, JobTold
<1>2. PICK b \in Runs \cup {None} : b = job[r].backup
  BY DEF TypeOK, Jobs
<1>3. Told(b) => Told(b)'
  BY ToldStays
<1>4. job'[r].warned \/ job'[r].integrity # "ok" \/ Told(b)'
  BY <1>1, <1>2, <1>3 DEF After
<1>5. job'[r].backup = b /\ job'[r].at # "copy"
  BY <1>2 DEF After
<1>. QED
  BY <1>4, <1>5 DEF CopyTold, JobTold, At

\* Whatever a run does, what it speaks of is there.
LEMMA ActorTold ==
  ASSUME TypeOK, TypeOK', LocalsSound, DoomedInTime, BackupsTold, Next,
         NEW x \in Runs
  PROVE  CopyTold(x)' /\ JobTold(x)'
<1>. USE DEF Moves, GivesUp, Ends
<1>d. \A r \in Runs : job[r].dir \in Dirs
  BY DEF TypeOK, Jobs
<1>0. ASSUME NEW r \in Runs, NEW at, NEW i, NEW b, NEW w, NEW d,
             After(r, at, i, b, w, d), CopyTold(r)' /\ JobTold(r)'
      PROVE  CopyTold(x)' /\ JobTold(x)'
  <2>1. CASE x = r
    BY <1>0, <2>1
  <2>2. CASE x # r
    <3>1. job'[x] = job[x]
      BY <1>0, <2>2 DEF After
    <3>. QED
      BY <3>1, SameJobTold
  <2>. QED
    BY <2>1, <2>2
<1>1. ASSUME NEW r \in Runs,
             \/ Start(r) \/ Locked(r) \/ Fail(r) \/ Replace(r) \/ ReplaceRaises(r)
             \/ Die(r) \/ LogFails(r)
      PROVE  CopyTold(x)' /\ JobTold(x)'
  <2>1. PICK at, i, b, w, d :
          /\ After(r, at, i, b, w, d)
          /\ at # "copy"
          /\ w \/ at \in {"check", "ended"}
    <3>1. CASE Start(r)
      BY <3>1, JobSteps
    <3>2. CASE Locked(r) \/ Fail(r)
      BY <3>2, JobSteps
    <3>3. CASE Replace(r) \/ ReplaceRaises(r) \/ Die(r)
      BY <3>3, JobSteps
    <3>4. CASE LogFails(r)
      BY <3>4, JobSteps
    <3>. QED
      BY <1>1, <3>1, <3>2, <3>3, <3>4
  <2>. QED
    BY <1>0, <2>1, NothingTold
<1>2. ASSUME NEW r \in Runs,
             \/ ListFiles(r) \/ Unlink(r) \/ LogWithinLimit(r) \/ LockLog(r) \/ CopyLog(r)
             \/ StatLog(r) \/ EmptyLog(r) \/ OpenTmp(r) \/ WriteTmp(r)
      PROVE  CopyTold(x)' /\ JobTold(x)'
  <2>1. InBackups(r) \/ Late(r)
    BY <1>2, <1>d DEF ListFiles, Unlink, LogWithinLimit, LockLog, CopyLines, CopyLog,
       StatLog, EmptyLog, OpenTmp, WriteTmp, InBackups, Late, InArchives, At, Dirs
  <2>2. ASSUME NEW at, NEW d, at # "copy",
               After(r, at, job[r].integrity, job[r].backup, job[r].warned, d)
        PROVE  CopyTold(x)' /\ JobTold(x)'
    BY <1>0, <2>1, <2>2, SameTold
  <2>3. CASE ListFiles(r) \/ Unlink(r)
    BY <2>2, <2>3, JobSteps
  <2>4. CASE \/ LogWithinLimit(r) \/ LockLog(r) \/ CopyLog(r) \/ StatLog(r)
             \/ OpenTmp(r) \/ WriteTmp(r)
    BY <2>2, <2>4, JobSteps
  <2>5. CASE EmptyLog(r)
    BY <2>2, <2>5, JobSteps
  <2>. QED
    BY <1>2, <2>3, <2>4, <2>5
<1>3. ASSUME NEW r \in Runs, Check(r) PROVE CopyTold(x)' /\ JobTold(x)'
  <2>1. After(r, "copy", IF sound THEN "ok" ELSE "warning",
              job[r].backup, job[r].warned, job[r].dir)
    BY <1>3, JobSteps
  <2>2. r \in files'["backups"]
    BY <1>3 DEF Check, Touch, TypeOK, directory, Dirs
  <2>3. UNCHANGED sound
    BY <1>3 DEF Check, database
  <2>4. CopyTold(r)' /\ JobTold(r)'
    BY <2>1, <2>2, <2>3 DEF After, CopyTold, JobTold, Kept, InBackups, Late, InArchives, At
  <2>. QED
    BY <1>0, <2>1, <2>4
<1>4. ASSUME NEW r \in Runs, CopyAll(r) PROVE CopyTold(x)' /\ JobTold(x)'
  <2>1. After(r, "list", job[r].integrity, r, job[r].warned, job[r].dir)
    BY <1>4, JobSteps
  <2>2. /\ Kept("backups", r)
        /\ job[r].integrity = "ok" => sound \/ r \in struck
    BY <1>4 DEF CopyAll, CopyPages, BackupsTold, CopyTold
  <2>3. job[r].integrity = "ok" => r \in whole' \cup struck'
    BY <1>4, <2>2 DEF CopyAll
  <2>4. Kept("backups", r)'
    BY <2>2, KeptStays DEF Dirs
  <2>5. CopyTold(r)' /\ JobTold(r)'
    BY <2>1, <2>3, <2>4 DEF After, CopyTold, JobTold, Told, At
  <2>. QED
    BY <1>0, <2>1, <2>5
<1>5. ASSUME NEW r \in Runs, RotateQueue(r) PROVE CopyTold(x)' /\ JobTold(x)'
  <2>1. PICK w \in BOOLEAN :
          /\ After(r, "log", "ok", job[r].backup, w, job[r].dir)
          /\ ~w => ~job[r].warned /\ job[r].integrity = "ok"
    BY <1>5, JobRotateQueue
  <2>2. job[r].warned \/ job[r].integrity # "ok" \/ Told(job[r].backup)
    BY <1>5 DEF RotateQueue, BackupsTold, JobTold
  <2>3. PICK b \in Runs \cup {None} : b = job[r].backup
    BY DEF TypeOK, Jobs
  <2>4. w \/ Told(b)'
    BY <2>1, <2>2, <2>3, ToldStays
  <2>5. job'[r].warned = w /\ job'[r].backup = b /\ job'[r].at = "log"
    BY <2>1, <2>3 DEF After
  <2>6. CopyTold(r)' /\ JobTold(r)'
    BY <2>4, <2>5 DEF CopyTold, JobTold, At
  <2>. QED
    BY <1>0, <2>1, <2>6
<1>6. ASSUME NEW r \in Runs, NEW o \in Runs, ListRaises(r, o)
      PROVE  CopyTold(x)' /\ JobTold(x)'
  <2>1. CASE x \notin {o, r}
    <3>1. \A y \in Runs : y \notin {o, r} => job'[y] = job[y]
      BY <1>6, JobsListRaises
    <3>. QED
      BY <2>1, <3>1, SameJobTold
  <2>2. CASE x = r
    <3>1. [AfterPrune(job[r]) EXCEPT !.warned = TRUE].warned = TRUE
          /\ [AfterPrune(job[r]) EXCEPT !.warned = TRUE].at = AfterPrune(job[r]).at
      BY JobsMade DEF Jobs
    <3>2. AfterPrune(job[r]).at # "copy"
      BY DEF AfterPrune, TypeOK, Jobs
    <3>3. Failed.warned = TRUE /\ Failed.at # "copy"
      BY DEF Failed, NoJob
    <3>4. job'[r].warned = TRUE /\ job'[r].at # "copy"
      BY <1>6, <3>1, <3>2, <3>3, JobsListRaises
    <3>. QED
      BY <2>2, <3>4 DEF CopyTold, JobTold, At
  <2>3. CASE x = o
    <3>1. InBackups(o) \/ Late(o)
      BY <1>6, <1>d DEF ListRaises, InBackups, Late, InArchives, At, Dirs
    <3>2. job[o].warned \/ job[o].integrity # "ok" \/ Told(job[o].backup)
      BY <3>1 DEF BackupsTold, JobTold
    <3>3. /\ AfterPrune(job[o]).at # "copy"
          /\ AfterPrune(job[o]).warned = job[o].warned
          /\ AfterPrune(job[o]).integrity = job[o].integrity
          /\ AfterPrune(job[o]).backup = job[o].backup
      BY DEF AfterPrune, TypeOK, Jobs
    <3>4. job'[o] = AfterPrune(job[o])
      BY <1>6, JobsListRaises
    <3>5. PICK b \in Runs \cup {None} : b = job[o].backup
      BY DEF TypeOK, Jobs
    <3>6. Told(b) => Told(b)'
      BY ToldStays
    <3>7. job'[o].warned \/ job'[o].integrity # "ok" \/ Told(b)'
      BY <3>2, <3>3, <3>4, <3>5, <3>6
    <3>8. job'[o].backup = b /\ job'[o].at # "copy"
      BY <3>3, <3>4, <3>5
    <3>. QED
      BY <2>3, <3>7, <3>8 DEF CopyTold, JobTold, At
  <2>. QED
    BY <2>1, <2>2, <2>3
<1>7. ASSUME UNCHANGED job PROVE CopyTold(x)' /\ JobTold(x)'
  BY <1>7, SameJobTold
<1>8. /\ WriteLog => UNCHANGED job
      /\ Corrupt => UNCHANGED job
      /\ \A r \in Runs : CopySome(r) \/ CopySomeLines(r) => UNCHANGED job
  BY DEF WriteLog, Corrupt, CopySome, CopySomeLines
<1>. QED
  BY <1>1, <1>2, <1>3, <1>4, <1>5, <1>6, <1>7, <1>8 DEF Next, Advance, Disturb, Logging, Damage

\* A text is written, or a file is opened or put in place, or nothing of this.
LEMMA PublishStep ==
  ASSUME Next
  PROVE  (\E r \in Runs : OpenTmp(r) \/ WriteTmp(r) \/ Replace(r)) \/ UNCHANGED published
<1>1. ASSUME NEW r \in Runs,
             \/ Start(r) \/ Check(r) \/ CopySome(r) \/ CopyAll(r) \/ Locked(r) \/ Fail(r)
             \/ ListFiles(r) \/ Unlink(r) \/ RotateQueue(r) \/ LogWithinLimit(r)
      PROVE  UNCHANGED published
  BY <1>1 DEF Start, Check, CopySome, CopyAll, Locked, Fail, ListFiles, Unlink,
              RotateQueue, LogWithinLimit, published
<1>2. ASSUME NEW r \in Runs,
             \/ LockLog(r) \/ CopySomeLines(r) \/ CopyLog(r) \/ StatLog(r) \/ EmptyLog(r)
             \/ LogFails(r)
             \/ ReplaceRaises(r) \/ Die(r) \/ \E o \in Runs : ListRaises(r, o)
      PROVE  UNCHANGED published
  BY <1>2 DEF LockLog, CopySomeLines, CopyLog, StatLog, EmptyLog, LogFails, ReplaceRaises, Die, ListRaises,
              published
<1>3. WriteLog \/ Corrupt => UNCHANGED published
  BY DEF WriteLog, Corrupt, published
<1>. QED
  BY <1>1, <1>2, <1>3 DEF Next, Advance, Disturb, Logging, Damage

\* The texts keep speaking of backups that are there.
LEMMA TextsTold ==
  ASSUME TypeOK, TypeOK', LocalsSound, DoomedInTime, BackupsTold, Next,
         NEW f \in Runs
  PROVE  (inode[f].warned \/ Told(inode[f].backup))'
<1>1. PICK b \in Runs \cup {None} : b = inode[f].backup
  BY DEF TypeOK, Texts
<1>2. inode[f].warned \/ Told(b)'
  BY <1>1, ToldStays DEF BackupsTold
<1>3. CASE inode'[f] = inode[f]
  BY <1>1, <1>2, <1>3
<1>4. CASE inode'[f] = Torn
  BY <1>4 DEF Torn
<1>5. ASSUME NEW r \in Runs, WriteTmp(r), inode'[f] = Payload(r)
      PROVE  (inode[f].warned \/ Told(inode[f].backup))'
  <2>1. Late(r) /\ job[r].integrity = "ok"
    BY <1>5 DEF WriteTmp, Late, At, LocalsSound
  <2>2. job[r].warned \/ Told(job[r].backup)
    BY <2>1 DEF BackupsTold, JobTold
  <2>3. PICK c \in Runs \cup {None} : c = job[r].backup
    BY DEF TypeOK, Jobs
  <2>4. job[r].warned \/ Told(c)'
    BY <2>2, <2>3, ToldStays
  <2>5. inode'[f].warned = job[r].warned /\ inode'[f].backup = c
    BY <1>5, <2>3 DEF Payload
  <2>. QED
    BY <2>4, <2>5
<1>6. \/ inode'[f] = inode[f] \/ inode'[f] = Torn
      \/ \E r \in Runs : WriteTmp(r) /\ inode'[f] = Payload(r)
  <2>1. ASSUME NEW r \in Runs, OpenTmp(r)
        PROVE  inode'[f] = inode[f] \/ inode'[f] = Torn
    BY <2>1 DEF OpenTmp, TypeOK
  <2>2. ASSUME NEW r \in Runs, WriteTmp(r)
        PROVE  inode'[f] = inode[f] \/ inode'[f] = Torn \/ inode'[f] = Payload(r)
    BY <2>2 DEF WriteTmp, TypeOK
  <2>3. \A r \in Runs : Replace(r) => inode'[f] = inode[f]
    BY DEF Replace
  <2>. QED
    BY <2>1, <2>2, <2>3, PublishStep DEF published
<1>. QED
  BY <1>3, <1>4, <1>5, <1>6

\* Backups are kept, and spoken of, truly.
LEMMA BackupsStep ==
  ASSUME TypeOK, TypeOK', LocalsSound, DoomedInTime, BackupsTold, Next
  PROVE  BackupsTold'
<1>1. (sound => struck = {})'
  BY ToldStays
<1>2. ASSUME NEW x \in whole' PROVE Kept("backups", x)'
  <2>1. x \in Runs /\ "backups" \in Dirs
    BY DEF TypeOK, Dirs
  <2>2. x \in whole \/ CopyAll(x)
    BY DatabaseStep DEF CopyAll, Corrupt, database
  <2>3. Kept("backups", x)
    <3>1. CASE x \in whole
      BY <3>1 DEF BackupsTold, BackupsKept
    <3>2. CASE CopyAll(x)
      <4>1. At(x, {"copy"})
        BY <3>2 DEF CopyAll, CopyPages
      <4>. QED
        BY <2>1, <4>1 DEF BackupsTold, CopyTold
    <3>. QED
      BY <2>2, <3>1, <3>2
  <2>. QED
    BY <2>1, <2>3, KeptStays
<1>3. \A x \in Runs : CopyTold(x)' /\ JobTold(x)'
  BY ActorTold
<1>4. \A f \in Runs : (inode[f].warned \/ Told(inode[f].backup))'
  BY TextsTold
<1>. QED
  BY <1>1, <1>2, <1>3, <1>4 DEF BackupsTold, BackupsKept

----------------------------------------------------------------------------
(***************************************************************************)
(* The log and the summary.                                                *)
(***************************************************************************)

\* A run never goes back to before it copied the log or opened its file; it
\* takes the lock, goes on to empty the log, and publishes by the actions for
\* that.
Phases(x) ==
  /\ Early(x)' => Early(x)
  /\ Unopened(x)' => Unopened(x)
  /\ At(x, Locking)' => At(x, Locking) \/ LockLog(x)
  /\ At(x, {"logCopy"})' => At(x, {"logCopy"}) \/ LockLog(x)
  /\ At(x, {"logStat", "logEmpty"})' => At(x, {"logStat", "logEmpty"}) \/ CopyLog(x)
  /\ At(x, Publishing)' => job'[x] = job[x] \/ OpenTmp(x) \/ WriteTmp(x)

\* Every step is such a one.
LEMMA PhasesStep ==
  ASSUME TypeOK, Next, NEW x \in Runs
  PROVE  Phases(x)
<1>. USE DEF Moves, GivesUp, Ends
<1>u. ASSUME job'[x] = job[x] PROVE Phases(x)
  BY <1>u DEF Phases, Early, InBackups, Unopened, At
<1>0. ASSUME NEW r \in Runs, NEW at, NEW i, NEW b, NEW w, NEW d,
             After(r, at, i, b, w, d),
             at \notin Locking \cup Publishing,
             Early(r)' => Early(r), Unopened(r)' => Unopened(r)
      PROVE  Phases(x)
  <2>1. CASE x = r
    BY <1>0, <2>1 DEF Phases, After, At, Locking
  <2>2. CASE x # r
    BY <1>0, <1>u, <2>2 DEF After
  <2>. QED
    BY <2>1, <2>2
<1>1. ASSUME NEW r \in Runs, Early(r), Unopened(r), NEW at, NEW i, NEW b, NEW w, NEW d,
             After(r, at, i, b, w, d), at \notin Locking \cup Publishing
      PROVE  Phases(x)
  BY <1>0, <1>1
<1>2. ASSUME NEW r \in Runs,
             \/ Start(r) \/ Check(r) \/ CopyAll(r) \/ Locked(r) \/ Fail(r)
             \/ RotateQueue(r) \/ LogWithinLimit(r)
      PROVE  Phases(x)
  <2>1. Early(r) /\ Unopened(r)
    BY <1>2 DEF Start, Check, CopyAll, CopyPages, Locked, Fail, RotateQueue,
       LogWithinLimit, Early, Unopened, Publishing, At
  <2>2. CASE Start(r) \/ LogWithinLimit(r)
    BY ZenonT(60), <1>1, <2>1, <2>2, JobSteps DEF Locking, Publishing
  <2>3. CASE Check(r)
    <3>1. After(r, "copy", IF sound THEN "ok" ELSE "warning",
                job[r].backup, job[r].warned, job[r].dir)
      BY <2>3, JobSteps
    <3>. QED
      BY <1>1, <2>1, <3>1 DEF Locking, Publishing
  <2>4. CASE CopyAll(r)
    <3>1. After(r, "list", job[r].integrity, r, job[r].warned, job[r].dir)
      BY <2>4, JobSteps
    <3>. QED
      BY <1>1, <2>1, <3>1 DEF Locking, Publishing
  <2>5. CASE Locked(r) \/ Fail(r)
    <3>1. Moves(r, "check") => Phases(x)
      BY <1>1, <2>1 DEF Locking, Publishing
    <3>2. GivesUp(r) => Phases(x)
      BY <1>1, <2>1 DEF Locking, Publishing
    <3>. QED
      BY <2>5, <3>1, <3>2, JobSteps
  <2>6. CASE RotateQueue(r)
    BY <1>1, <2>1, <2>6, JobRotateQueue DEF Locking, Publishing
  <2>. QED
    BY <1>2, <2>2, <2>3, <2>4, <2>5, <2>6
<1>3. ASSUME NEW r \in Runs, ListFiles(r) \/ Unlink(r) PROVE Phases(x)
  <2>1. Unopened(r) /\ (job[r].dir = "backups" => Early(r))
    BY <1>3 DEF ListFiles, Unlink, Early, InBackups, Unopened, Publishing, At
  <2>2. CASE ListFiles(r)
    <3>1. Moves(r, "unlink")
      BY <2>2, JobSteps
    <3>2. Early(r)' => Early(r)
      BY <2>1, <3>1 DEF After, Early, InBackups, At
    <3>. QED
      BY <1>0, <2>1, <3>1, <3>2 DEF Locking, Publishing
  <2>3. CASE Unlink(r)
    <3>1. Moves(r, IF job[r].dir = "backups" THEN "queue" ELSE "open")
      BY <2>3, JobSteps
    <3>2. Early(r)' => Early(r)
      BY <2>1, <3>1 DEF After, Early, InBackups, At
    <3>3. PICK at \in {"queue", "open"} : Moves(r, at)
      BY <3>1
    <3>. QED
      BY <1>0, <2>1, <3>2, <3>3 DEF Locking, Publishing
  <2>. QED
    BY <1>3, <2>2, <2>3
<1>4. ASSUME NEW r \in Runs, EmptyLog(r) \/ LogFails(r) PROVE Phases(x)
  <2>1. Unopened(r)
    BY <1>4 DEF EmptyLog, LogFails, Locking, Unopened, Publishing, At
  <2>2. CASE EmptyLog(r)
    <3>1. After(r, "list", job[r].integrity, job[r].backup, job[r].warned, "archives")
      BY <2>2, JobSteps
    <3>2. ~Early(r)'
      BY <3>1 DEF After, Early, InBackups, At
    <3>. QED
      BY <1>0, <2>1, <3>1, <3>2 DEF Locking, Publishing
  <2>3. CASE LogFails(r)
    <3>1. PICK w \in BOOLEAN :
            After(r, "open", job[r].integrity, job[r].backup, w, job[r].dir)
      BY <2>3, JobSteps
    <3>2. ~Early(r)'
      BY <3>1 DEF After, Early, InBackups, At
    <3>. QED
      BY <1>0, <2>1, <3>1, <3>2 DEF Locking, Publishing
  <2>. QED
    BY <1>4, <2>2, <2>3
<1>5. ASSUME NEW r \in Runs, Replace(r) \/ ReplaceRaises(r) \/ Die(r) PROVE Phases(x)
  <2>1. Ends(r)
    BY <1>5, JobSteps
  <2>2. ~Early(r)' /\ ~Unopened(r)'
    BY <2>1 DEF After, Early, InBackups, Unopened, At
  <2>. QED
    BY <1>0, <2>1, <2>2 DEF Locking, Publishing
<1>6. ASSUME NEW r \in Runs,
             LockLog(r) \/ CopyLog(r) \/ StatLog(r) \/ OpenTmp(r) \/ WriteTmp(r)
      PROVE  Phases(x)
  <2>1. CASE x = r /\ LockLog(r)
    <3>1. job'[r].at = "logCopy"
      BY <2>1, JobSteps DEF After
    <3>. QED
      BY <2>1, <3>1 DEF LockLog, Phases, Early, Unopened, Locking, Publishing, At
  <2>2. CASE x = r /\ CopyLog(r)
    <3>1. job'[r].at = "logStat"
      BY <2>2, JobSteps DEF After
    <3>. QED
      BY <2>2, <3>1 DEF CopyLines, CopyLog, Phases, Early, InBackups, Unopened, Locking,
         Publishing, At
  <2>5. CASE x = r /\ StatLog(r)
    <3>1. job'[r].at = "logEmpty"
      BY <2>5, JobSteps DEF After
    <3>. QED
      BY <2>5, <3>1 DEF StatLog, Phases, Early, InBackups, Unopened, Locking, Publishing, At
  <2>3. CASE x = r /\ (OpenTmp(r) \/ WriteTmp(r))
    <3>1. job'[r].at \in Publishing
      BY <2>3, JobSteps DEF After, Publishing
    <3>. QED
      BY <2>3, <3>1 DEF Phases, Early, InBackups, Unopened, Locking, Publishing, At
  <2>4. CASE x # r
    <3>1. job'[x] = job[x]
      BY <1>6, <2>4, JobSteps DEF After
    <3>. QED
      BY <1>u, <3>1
  <2>. QED
    BY <1>6, <2>1, <2>2, <2>3, <2>4, <2>5
<1>7. ASSUME NEW r \in Runs, NEW o \in Runs, ListRaises(r, o) PROVE Phases(x)
  <2>1. CASE x \notin {o, r}
    <3>1. \A y \in Runs : y \notin {o, r} => job'[y] = job[y]
      BY <1>7, JobsListRaises
    <3>. QED
      BY <1>u, <2>1, <3>1
  <2>2. CASE x \in {o, r}
    <3>1. AfterPrune(job[x]).at = IF job[x].dir = "backups" THEN "queue" ELSE "open"
      BY DEF AfterPrune, TypeOK, Jobs
    <3>2. [AfterPrune(job[x]) EXCEPT !.warned = TRUE].at = AfterPrune(job[x]).at
      BY JobsMade DEF Jobs
    <3>3. Failed.at = "queue"
      BY DEF Failed, NoJob
    <3>4. job'[x].at = IF job[x].dir = "backups" THEN "queue" ELSE "open"
      BY <1>7, <2>2, <3>1, <3>2, <3>3, JobsListRaises
    <3>5. Unopened(x) /\ (job[x].dir = "backups" => Early(x))
      BY <1>7, <2>2 DEF ListRaises, Early, InBackups, Unopened, Publishing, At
    <3>. QED
      BY <3>4, <3>5 DEF Phases, Early, InBackups, Unopened, Locking, Publishing, At
  <2>. QED
    BY <2>1, <2>2
<1>8. /\ WriteLog => UNCHANGED job
      /\ Corrupt => UNCHANGED job
      /\ \A r \in Runs : CopySome(r) \/ CopySomeLines(r) => UNCHANGED job
  BY DEF WriteLog, Corrupt, CopySome, CopySomeLines
<1>. QED
  BY <1>u, <1>2, <1>3, <1>4, <1>5, <1>6, <1>7, <1>8 DEF Next, Advance, Disturb, Logging, Damage

\* The log is written to, copied or emptied, or nothing of this.
LEMMA LogStep ==
  ASSUME Next
  PROVE  WriteLog \/ (\E r \in Runs : CopyLog(r) \/ EmptyLog(r)) \/ UNCHANGED logging
<1>1. ASSUME NEW r \in Runs,
             \/ Start(r) \/ Check(r) \/ CopySome(r) \/ CopyAll(r) \/ Locked(r) \/ Fail(r)
             \/ ListFiles(r) \/ Unlink(r) \/ RotateQueue(r) \/ LogWithinLimit(r)
      PROVE  UNCHANGED logging
  BY <1>1 DEF Start, Check, CopySome, CopyAll, Locked, Fail, ListFiles, Unlink,
              RotateQueue, LogWithinLimit, logging
<1>2. ASSUME NEW r \in Runs,
             \/ LockLog(r) \/ CopySomeLines(r) \/ StatLog(r) \/ LogFails(r) \/ OpenTmp(r)
             \/ WriteTmp(r) \/ Replace(r)
             \/ ReplaceRaises(r) \/ Die(r) \/ \E o \in Runs : ListRaises(r, o)
      PROVE  UNCHANGED logging
  BY <1>2 DEF LockLog, CopySomeLines, StatLog, LogFails, OpenTmp, WriteTmp, Replace, ReplaceRaises, Die,
              ListRaises, logging
<1>3. Corrupt => UNCHANGED logging
  BY DEF Corrupt, logging
<1>. QED
  BY <1>1, <1>2, <1>3 DEF Next, Advance, Disturb, Logging, Damage

\* The log is copied before it is emptied, by one run at a time.
LEMMA LogCopiedStep ==
  ASSUME TypeOK, TypeOK', LocalsSound, DoomedInTime, LogCopied, Next
  PROVE  LogCopied'
<1>p. \A x \in Runs : Phases(x)
  BY PhasesStep
<1>0. "archives" \in Dirs
  BY DEF Dirs
\* One run at a time.
<1>1. ASSUME NEW r \in Runs, NEW o \in Runs, At(r, Locking)', At(o, Locking)'
      PROVE  r = o
  <2>1. ASSUME NEW x \in Runs, LockLog(x), NEW y \in Runs, At(y, Locking)'
        PROVE  x = y
    <3>1. ~At(y, Locking)
      BY <2>1 DEF LockLog, LogLocked
    <3>2. x # y => job'[y] = job[y]
      BY <2>1, JobSteps DEF Moves, After
    <3>. QED
      BY <2>1, <3>1, <3>2 DEF At
  <2>2. CASE At(r, Locking) /\ At(o, Locking)
    BY <2>2 DEF LogCopied
  <2>3. CASE LockLog(r) \/ LockLog(o)
    BY <1>1, <2>1, <2>3
  <2>. QED
    BY <1>1, <1>p, <2>2, <2>3 DEF Phases
\* Who has not copied has no lines.
<1>2. ASSUME NEW x \in Runs, Early(x)' PROVE copied'[x] = {}
  <2>1. copied[x] = {}
    BY <1>2, <1>p DEF Phases, LogCopied
  <2>2. ASSUME NEW r \in Runs, CopyLog(r) PROVE copied'[x] = copied[x]
    <3>1. ~Early(r)'
      BY <2>2, JobSteps DEF Moves, After, Early, InBackups, At
    <3>. QED
      BY <1>2, <2>2, <3>1 DEF CopyLog, TypeOK
  <2>. QED
    BY <2>1, <2>2, LogStep DEF WriteLog, EmptyLog, logging
\* Copies are kept.
<1>3. ASSUME NEW x \in Runs, copied'[x] # {} PROVE Kept("archives", x)'
  <2>1. CASE copied[x] # {}
    BY <1>0, <2>1, KeptStays DEF LogCopied, LogKept
  <2>2. CASE copied[x] = {}
    <3>1. CopyLog(x)
      BY <1>3, <2>2, LogStep DEF CopyLog, WriteLog, EmptyLog, logging, TypeOK
    <3>2. Kept("archives", x)
      BY <3>1 DEF CopyLog, CopyLines, LogCopied
    <3>. QED
      BY <1>0, <3>2, KeptStays
  <2>. QED
    BY <2>1, <2>2
\* What is about to be thrown away is copied.
<1>6. ASSUME NEW x \in Runs, At(x, {"logCopy"})' PROVE Kept("archives", x)'
  <2>1. CASE LockLog(x)
    <3>1. x \in files'["archives"]
      BY <1>0, <2>1 DEF LockLog, Touch, TypeOK
    <3>. QED
      BY <3>1 DEF Kept
  <2>2. CASE At(x, {"logCopy"})
    BY <1>0, <2>2, KeptStays DEF LogCopied
  <2>. QED
    BY <1>6, <1>p, <2>1, <2>2 DEF Phases
<1>4. ASSUME NEW x \in Runs, At(x, {"logStat", "logEmpty"})'
      PROVE  log' \subseteq copied'[x] \cup exposed'
  <2>1. CASE CopyLog(x)
    BY <2>1 DEF CopyLog, TypeOK
  <2>2. CASE ~CopyLog(x)
    <3>1. At(x, {"logStat", "logEmpty"}) /\ log \subseteq copied[x] \cup exposed
      BY <1>4, <1>p, <2>2 DEF Phases, LogCopied
    <3>2. CASE WriteLog
      BY <3>1, <3>2 DEF WriteLog, At
    <3>3. ASSUME NEW r \in Runs, CopyLog(r)
          PROVE  UNCHANGED <<log, exposed>> /\ copied'[x] = copied[x]
      BY <2>2, <3>3 DEF CopyLog, TypeOK
    <3>4. ASSUME NEW r \in Runs, EmptyLog(r) PROVE log' = {}
      BY <3>4 DEF EmptyLog
    <3>. QED
      BY <3>1, <3>2, <3>3, <3>4, LogStep DEF logging
  <2>. QED
    BY <2>1, <2>2
\* No line is lost.
<1>5. (1 .. written \subseteq log \cup exposed \cup UNION {copied[r] : r \in Runs})'
  <2>. DEFINE lines == log \cup exposed \cup UNION {copied[r] : r \in Runs}
  <2>1. 1 .. written \subseteq lines
    BY DEF LogCopied, LogKept
  <2>2. CASE WriteLog
    <3>1. written' = written + 1 /\ written \in Nat
      BY <2>2 DEF WriteLog, TypeOK
    <3>2. 1 .. written' = (1 .. written) \cup {written'}
      BY <3>1
    <3>3. lines \cup {written'} \subseteq lines'
      BY <2>2 DEF WriteLog
    <3>. QED
      BY <2>1, <3>2, <3>3
  <2>3. ASSUME NEW r \in Runs, CopyLog(r) PROVE written' = written /\ lines \subseteq lines'
    <3>1. copied[r] = {}
      BY <2>3 DEF CopyLog, CopyLines, LogCopied, Early, At
    <3>2. \A x \in Runs : copied[x] \subseteq copied'[x]
      BY <2>3, <3>1 DEF CopyLog, TypeOK
    <3>. QED
      BY <2>3, <3>2 DEF CopyLog
  <2>4. ASSUME NEW r \in Runs, EmptyLog(r) PROVE written' = written /\ lines \subseteq lines'
    <3>1. log \subseteq copied[r] \cup exposed
      BY <2>4 DEF EmptyLog, LogCopied, At
    <3>2. UNCHANGED <<copied, written, exposed>>
      BY <2>4 DEF EmptyLog
    <3>. QED
      BY <3>1, <3>2
  <2>5. UNCHANGED logging => written' = written /\ lines' = lines
    BY DEF logging
  <2>. HIDE DEF lines
  <2>6. 1 .. written' \subseteq lines' \/ WriteLog
    BY <2>1, <2>3, <2>4, <2>5, LogStep
  <2>. QED
    BY <2>2, <2>6 DEF lines
<1>. QED
  BY <1>1, <1>2, <1>3, <1>4, <1>5, <1>6 DEF LogCopied, LogKept

\* A summary is published whole by a run that is alone.
LEMMA PublishedStep ==
  ASSUME TypeOK, TypeOK', PublishedAlone, Next
  PROVE  PublishedAlone'
<1>p. \A x \in Runs : Phases(x)
  BY PhasesStep
<1>n. NoFile \notin Runs
  BY MaintenanceAssumption
<1>j. \A r \in Runs : job[r] \in Jobs
  BY DEF TypeOK
<1>1. ASSUME NEW r \in Runs, OpenTmp(r) PROVE PublishedAlone'
  <2>1. /\ tmp' = IF tmp = NoFile THEN r ELSE tmp
        /\ tmp' \in Runs
        /\ summary' = summary
        /\ inode' = [inode EXCEPT ![tmp'] = Torn]
        /\ clashed' = (clashed \/ \E o \in Runs \ {r} : At(o, Publishing))
    BY <1>1 DEF OpenTmp, Clash, TypeOK
  <2>2. /\ job'[r].at = "write" /\ job'[r].fd = tmp'
        /\ \A o \in Runs : o # r => job'[o] = job[o]
    BY <1>1, JobSteps DEF Moves, After
  <2>3. tmp # r /\ summary # r
    BY <1>1 DEF OpenTmp, PublishedAlone, Unopened, Publishing, At
  <2>4. ASSUME NEW x \in Runs, Unopened(x)' PROVE tmp' # x /\ summary' # x
    <3>1. x # r /\ Unopened(x)
      BY <1>p, <2>2, <2>4 DEF Phases, Unopened, Publishing, At
    <3>. QED
      BY <2>1, <3>1 DEF PublishedAlone, Unopened
  <2>5. ASSUME ~clashed' PROVE Alone'
    <3>1. ~clashed /\ \A o \in Runs : o # r => ~At(o, Publishing)
      BY <2>1, <2>5
    <3>2. \A o \in Runs : At(o, Publishing)' => o = r
      BY <2>2, <3>1 DEF At
    <3>3. inode'[tmp'] = Torn
      BY <2>1 DEF TypeOK
    <3>4. summary # NoFile => summary # tmp' /\ inode[summary] # Torn
      BY <2>1, <2>3, <3>1 DEF PublishedAlone, Alone
    <3>5. summary # NoFile => inode'[summary] # Torn
      BY <2>1, <3>4 DEF TypeOK
    <3>6. \A o \in Runs : ~At(o, {"replace"})'
      BY <2>2, <3>2 DEF At, Publishing
    <3>7. \A o \in Runs : At(o, {"write"})' => o = r
      BY <3>2 DEF At, Publishing
    <3>. QED
      BY <1>n, <2>1, <2>2, <3>2, <3>3, <3>4, <3>5, <3>6, <3>7 DEF Alone
  <2>. QED
    BY <2>4, <2>5 DEF PublishedAlone
<1>2. ASSUME NEW r \in Runs, WriteTmp(r) PROVE PublishedAlone'
  <2>1. /\ UNCHANGED <<tmp, summary, clashed>>
        /\ At(r, {"write"})
    BY <1>2 DEF WriteTmp
  <2>2. /\ job'[r].at = "replace" /\ job'[r].fd = job[r].fd
        /\ \A o \in Runs : o # r => job'[o] = job[o]
    BY <1>2, JobSteps DEF Moves, After
  <2>3. ASSUME NEW x \in Runs, Unopened(x)' PROVE tmp' # x /\ summary' # x
    BY <1>p, <2>1, <2>3 DEF Phases, PublishedAlone
  <2>4. ASSUME ~clashed' PROVE Alone'
    <3>1. Alone
      BY <2>1, <2>4 DEF PublishedAlone
    <3>2. inode[job[r].fd] = Torn /\ tmp = job[r].fd /\ tmp # NoFile
      BY <2>1, <3>1 DEF Alone, At, Publishing
    <3>3. inode' = [inode EXCEPT ![tmp] = Payload(r)]
      BY <1>2, <3>2 DEF WriteTmp
    <3>4. Payload(r) # Torn
      BY DEF Payload, Torn, None, Runs
    <3>5. inode'[tmp] # Torn
      BY <3>2, <3>3, <3>4 DEF TypeOK
    <3>6. summary # NoFile => summary # tmp /\ inode'[summary] # Torn
      BY <3>1, <3>3 DEF Alone, TypeOK
    <3>7. \A o \in Runs : At(o, Publishing)' => At(o, Publishing)
      BY <2>1, <2>2 DEF At, Publishing
    <3>8. \A o \in Runs : At(o, Publishing)' => o = r
      BY <2>1, <3>1, <3>7 DEF Alone, At, Publishing
    <3>9. \A o \in Runs : ~At(o, {"write"})'
      BY <2>2, <3>8 DEF At, Publishing
    <3>10. \A o \in Runs : At(o, {"replace"})' => o = r
      BY <3>8 DEF At, Publishing
    <3>. QED
      BY <2>1, <2>2, <3>2, <3>5, <3>6, <3>8, <3>9, <3>10 DEF Alone
  <2>. QED
    BY <2>3, <2>4 DEF PublishedAlone
<1>3. ASSUME NEW r \in Runs, Replace(r) PROVE PublishedAlone'
  <2>1. /\ summary' = tmp /\ tmp' = NoFile /\ tmp # NoFile
        /\ UNCHANGED <<inode, clashed>>
        /\ At(r, {"replace"})
    BY <1>3 DEF Replace
  <2>2. job'[r].at = "ended" /\ \A o \in Runs : o # r => job'[o] = job[o]
    BY <1>3, JobSteps DEF Ends, After
  <2>3. ASSUME NEW x \in Runs, Unopened(x)' PROVE tmp' # x /\ summary' # x
    BY <1>p, <1>n, <2>1, <2>3 DEF Phases, PublishedAlone
  <2>4. ASSUME ~clashed' PROVE Alone'
    <3>1. Alone
      BY <2>1, <2>4 DEF PublishedAlone
    <3>2. inode[tmp] # Torn
      BY <2>1, <3>1 DEF Alone, At, Publishing
    <3>3. \A o \in Runs : ~At(o, Publishing)'
      BY <2>1, <2>2, <3>1 DEF Alone, At, Publishing
    <3>4. \A o \in Runs : ~At(o, {"write"})' /\ ~At(o, {"replace"})'
      BY <3>3 DEF At, Publishing
    <3>. QED
      BY <2>1, <3>2, <3>3, <3>4 DEF Alone
  <2>. QED
    BY <2>3, <2>4 DEF PublishedAlone
<1>4. ASSUME UNCHANGED published, \A r \in Runs : ~OpenTmp(r) /\ ~WriteTmp(r)
      PROVE  PublishedAlone'
  <2>1. UNCHANGED <<inode, tmp, summary, clashed>>
    BY <1>4 DEF published
  <2>2. ASSUME NEW x \in Runs, Unopened(x)' PROVE tmp' # x /\ summary' # x
    BY <1>p, <2>1, <2>2 DEF Phases, PublishedAlone
  <2>3. ASSUME NEW x \in Runs, At(x, Publishing)' PROVE job'[x] = job[x]
    BY <1>p, <1>4, <2>3 DEF Phases
  <2>4. ASSUME NEW x \in Runs, NEW l \in Publishing, At(x, {l})' PROVE job'[x] = job[x]
    BY <2>3, <2>4 DEF At
  <2>5. ASSUME ~clashed' PROVE Alone'
    <3>1. Alone
      BY <2>1, <2>5 DEF PublishedAlone
    <3>. QED
      BY <2>1, <2>3, <2>4, <3>1 DEF Alone, At, Publishing
  <2>. QED
    BY <2>2, <2>5 DEF PublishedAlone
<1>. QED
  BY <1>1, <1>2, <1>3, <1>4, PublishStep

----------------------------------------------------------------------------
(***************************************************************************)
(* The theorems.                                                           *)
(***************************************************************************)

\* The invariant holds at first.
LEMMA InitHolds == Init => MaintenanceInv
<1>. SUFFICES ASSUME Init PROVE MaintenanceInv
  OBVIOUS
<1>1. \A r \in Runs : job[r] = NoJob
  BY DEF Init
<1>2. NoJob \in Jobs
  BY MaintenanceAssumption DEF NoJob, Jobs, Labels, Dirs, None
<1>3. Torn \in Texts
  BY DEF Torn, Texts
<1>4. TypeOK
  BY <1>2, <1>3 DEF Init, TypeOK, Dated
<1>5. LocalsSound
  BY <1>1 DEF LocalsSound, Late, InArchives, At, NoJob
<1>6. DoomedInTime
  BY <1>1 DEF Init, DoomedInTime, AgesCounted, Dooms, At, NoJob
<1>7. BackupsTold
  BY <1>1 DEF Init, BackupsTold, BackupsKept, CopyTold, JobTold, InBackups, Late,
     InArchives, At, NoJob, Torn
<1>8. LogCopied
  BY <1>1 DEF Init, LogCopied, LogKept, Locking, At, NoJob
<1>9. PublishedAlone
  BY <1>1, MaintenanceAssumption
     DEF Init, PublishedAlone, Alone, Publishing, Unopened, At, NoJob
<1>. QED
  BY <1>4, <1>5, <1>6, <1>7, <1>8, <1>9 DEF MaintenanceInv

\* Every step keeps it.
LEMMA StepHolds == MaintenanceInv /\ [Next]_vars => MaintenanceInv'
<1>1. ASSUME MaintenanceInv, Next PROVE MaintenanceInv'
  <2>1. TypeOK'
    BY <1>1, TypeStep DEF MaintenanceInv
  <2>. QED
    BY <1>1, <2>1, LocalsStep, DoomedStep, BackupsStep, LogCopiedStep, PublishedStep
       DEF MaintenanceInv
<1>2. ASSUME MaintenanceInv, UNCHANGED vars PROVE MaintenanceInv'
  <2>1. TypeOK' /\ LocalsSound' /\ DoomedInTime'
    BY <1>2 DEF MaintenanceInv, vars, TypeOK, LocalsSound, Late, InArchives, At,
       DoomedInTime, AgesCounted, Dooms
  <2>2. BackupsTold'
    BY <1>2 DEF MaintenanceInv, vars, BackupsTold, BackupsKept, CopyTold, JobTold, Told,
       Kept, InBackups, Late, InArchives, At
  <2>3. LogCopied'
    BY <1>2 DEF MaintenanceInv, vars, LogCopied, LogKept, Kept, Early, InBackups, At
  <2>4. PublishedAlone'
    BY <1>2 DEF MaintenanceInv, vars, PublishedAlone, Alone, Unopened, At
  <2>. QED
    BY <2>1, <2>2, <2>3, <2>4 DEF MaintenanceInv
<1>. QED
  BY <1>1, <1>2

\* In every behaviour, whatever the number of runs at once.
LEMMA AlwaysInv == Spec => []MaintenanceInv
BY InitHolds, StepHolds, PTL DEF Spec

\* No maintenance run, however many run at once and whatever becomes of them,
\* makes an end of a whole backup of a sound database before as many newer
\* files were made as are to be kept (_prune_files, _run_database_housekeeping).
THEOREM BackupsKeptInTime == Spec => []BackupsKept
<1>1. MaintenanceInv => BackupsKept
  BY DEF MaintenanceInv, BackupsTold
<1>. QED
  BY <1>1, AlwaysInv, PTL

\* Every line of the resident process's log is in the log or in an archive, which is
\* there until as many others as are kept were not older than it, or it was written
\* between the copy and the emptying (rotate_resident_log, _prune_files).
THEOREM LogLosesNoMore == Spec => []LogKept
<1>1. MaintenanceInv => LogKept
  BY DEF MaintenanceInv, LogCopied
<1>. QED
  BY <1>1, AlwaysInv, PTL

\* The summary on disk is whole unless runs were publishing at once, and
\* without warnings it speaks of a backup that was checked, is whole and is kept
\* (run_maintenance_housekeeping, _write_json).
THEOREM SummaryIsTrue == Spec => []SummaryTrue
<1>1. MaintenanceInv => SummaryTrue
  BY DEF MaintenanceInv, TypeOK, BackupsTold, Told, PublishedAlone, Alone, SummaryTrue
<1>. QED
  BY <1>1, AlwaysInv, PTL
=============================================================================
