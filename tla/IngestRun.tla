----------------------------- MODULE IngestRun -----------------------------
(***************************************************************************)
(* Ingest runs against the SQLite evidence store.  A run enters itself in  *)
(* the table ingest_run and lets its adapters go through their sources     *)
(* line by line.  A line that does not parse is quarantined; any other one *)
(* is looked up, given the next sequence number of the run and appended,   *)
(* in three transactions.  What an adapter raises becomes a warning and    *)
(* ends that adapter; what is raised outside the adapters ends the attempt,*)
(* and the resident run tries again, with the same run identifier, when    *)
(* the database was locked.                                                *)
(*                                                                         *)
(* A source line is the number that stands for its source_ref_id: path,    *)
(* line and content.  The event_id is made of that and of the sequence     *)
(* number.  Every label is one transaction.                                *)
(***************************************************************************)
EXTENDS Integers, Sequences, FiniteSets

CONSTANTS
  Runs,         \* ingest runs, each with an observed_at of its own
  Resident,     \* those started by run_resident_once, not the command line
  Sources,      \* for each adapter, the lines it reads
  Malformed,    \* lines that do not parse as JSON
  MaxAttempts,  \* max_attempts of run_with_locked_retry
  Exclusive,    \* does a run start only after the one before has ended?
  NoReport      \* no resident state written and nothing printed

Adapters == 1 .. Len(Sources)

LinesOf(a) == {Sources[a][k] : k \in 1 .. Len(Sources[a])}

AllLines == UNION {LinesOf(a) : a \in Adapters}

ASSUME IngestRunAssumption ==
  /\ Resident \subseteq Runs
  /\ Sources \in Seq(Seq(Nat))
  /\ \A a \in Adapters : Sources[a] # <<>>
  /\ Malformed \subseteq Nat
  /\ MaxAttempts \in Nat \ {0}
  /\ Exclusive \in BOOLEAN

Statuses == {"started", "completed", "completed_with_warnings"}

VARIABLES
  rows,         \* ingest_run: status and warning_count, or NoRow
  events,       \* evidence_event, without what the line determines
  warned,       \* ingest_warning: run and adapter
  quarantined,  \* quarantine_entry: run and line
  indexed,      \* event_id values in event_fts
  pc,           \* label of each run
  attempt,      \* attempts of each run so far
  at,           \* adapter and line each run is at
  seq,          \* observed_sequence a run is about to use
  count,        \* event_count of the adapters that returned, and of this one
  verdict,      \* the status a run is about to record
  report        \* what a run reported

store == <<rows, events, warned, quarantined, indexed>>
job   == <<attempt, at, seq, count, verdict>>
vars  == <<rows, events, warned, quarantined, indexed, pc, attempt, at, seq,
           count, verdict, report>>

----------------------------------------------------------------------------
(* Operators.                                                              *)

NoRow == [status |-> "none", warnings |-> 0]

\* The row a new run inserts, or expects to find.
FreshRow == [status |-> "started", warnings |-> 0]

EventId(e) == [line |-> e.line, seq |-> e.seq]

EventsOf(r) == {e \in events : e.run = r}

\* COALESCE(MAX(observed_sequence) + 1, 0)
NextSequence(r) ==
  IF EventsOf(r) = {} THEN 0
  ELSE 1 + (CHOOSE n \in {e.seq : e \in EventsOf(r)} :
              \A e \in EventsOf(r) : e.seq <= n)

HasEquivalent(l) == \E e \in events : e.line = l

LineAt(r) == Sources[at[r].adapter][at[r].line]

Goto(r, label) == pc' = [pc EXCEPT ![r] = label]

\* The adapter's loop goes on to the next line, or run_adapters to the next
\* adapter: what this one counted is added to the result when it returns.
Advance(r, new) ==
  LET a == at[r].adapter
  IN  IF at[r].line < Len(Sources[a])
      THEN /\ at' = [at EXCEPT ![r].line = @ + 1]
           /\ count' = [count EXCEPT ![r].adapter = @ + new]
           /\ Goto(r, "line")
      ELSE /\ at' = [at EXCEPT ![r] = [adapter |-> a + 1, line |-> 1]]
           /\ count' = [count EXCEPT ![r] =
                          [total |-> @.total + @.adapter + new, adapter |-> 0]]
           /\ Goto(r, IF a < Len(Sources) THEN "line" ELSE "status")

\* The insert of an event: nothing if its primary key is there, since the
\* comparison with the stored row leaves out the run and the sequence.
Insert(r) ==
  LET e == [line |-> LineAt(r), seq |-> seq[r], run |-> r]
  IN  IF \E x \in events : EventId(x) = EventId(e)
      THEN events ELSE events \cup {e}

Report(r, status, new, retries, error) ==
  report' = [report EXCEPT ![r] = [status |-> status, events |-> new,
                                   retries |-> retries, error |-> error]]

----------------------------------------------------------------------------

Init ==
  /\ rows = [r \in Runs |-> NoRow]
  /\ events = {}
  /\ warned = {}
  /\ quarantined = {}
  /\ indexed = {}
  /\ pc = [r \in Runs |-> "idle"]
  /\ attempt = [r \in Runs |-> 0]
  /\ at = [r \in Runs |-> [adapter |-> 1, line |-> 1]]
  /\ seq = [r \in Runs |-> 0]
  /\ count = [r \in Runs |-> [total |-> 0, adapter |-> 0]]
  /\ verdict = [r \in Runs |-> "started"]
  /\ report = [r \in Runs |-> NoReport]

----------------------------------------------------------------------------
(* run_ingest and run_adapters.                                            *)

Begin(r) ==
  /\ pc[r] = "idle"
  /\ Exclusive => \A x \in Runs \ {r} : pc[x] \in {"idle", "ended"}
  /\ Goto(r, "start")
  /\ attempt' = [attempt EXCEPT ![r] = 1]
  /\ UNCHANGED <<store, at, seq, count, verdict, report>>

\* start_ingest_run: inserts the row of the run, or finds it as a fresh one.
StartRun(r) ==
  /\ pc[r] = "start"
  /\ rows[r] \in {NoRow, FreshRow}
  /\ rows' = [rows EXCEPT ![r] = FreshRow]
  /\ at' = [at EXCEPT ![r] = [adapter |-> 1, line |-> 1]]
  /\ count' = [count EXCEPT ![r] = [total |-> 0, adapter |-> 0]]
  /\ Goto(r, IF Sources = <<>> THEN "status" ELSE "line")
  /\ UNCHANGED <<events, warned, quarantined, indexed, attempt, seq, verdict,
                 report>>

\* has_equivalent_event: a line that is stored already is passed over.
PassStored(r) ==
  /\ pc[r] = "line"
  /\ LineAt(r) \notin Malformed
  /\ HasEquivalent(LineAt(r))
  /\ Advance(r, 0)
  /\ UNCHANGED <<store, attempt, seq, verdict, report>>

\* A bug: every line is taken for a new one.
FindNewUnchecked(r) ==
  /\ pc[r] = "line"
  /\ LineAt(r) \notin Malformed
  /\ Goto(r, "sequence")
  /\ UNCHANGED <<store, job, report>>

FindNew(r) ==
  /\ pc[r] = "line"
  /\ LineAt(r) \notin Malformed
  /\ ~HasEquivalent(LineAt(r))
  /\ Goto(r, "sequence")
  /\ UNCHANGED <<store, job, report>>

\* A bug: the events are numbered by the attempt, not by the run.
SequenceOfAttempt(r) ==
  /\ pc[r] = "sequence"
  /\ seq' = [seq EXCEPT ![r] = count[r].total + count[r].adapter]
  /\ Goto(r, "append")
  /\ UNCHANGED <<store, attempt, at, count, verdict, report>>

Sequence(r) ==
  /\ pc[r] = "sequence"
  /\ seq' = [seq EXCEPT ![r] = NextSequence(r)]
  /\ Goto(r, "append")
  /\ UNCHANGED <<store, attempt, at, count, verdict, report>>

AppendEvent(r) ==
  /\ pc[r] = "append"
  /\ events' = Insert(r)
  /\ Advance(r, IF events' = events THEN 0 ELSE 1)
  /\ UNCHANGED <<rows, warned, quarantined, indexed, attempt, seq, verdict,
                 report>>

\* The transaction is committed, but checkpoint_database raises.
AppendUncheckpointed(r) ==
  /\ pc[r] = "append"
  /\ events' = Insert(r)
  /\ Goto(r, "warn")
  /\ UNCHANGED <<rows, warned, quarantined, indexed, job, report>>

\* A bug: a quarantined line does not count as a warning.
QuarantineUncounted(r) ==
  /\ pc[r] = "line"
  /\ LineAt(r) \in Malformed
  /\ quarantined' = quarantined \cup {<<r, LineAt(r)>>}
  /\ Advance(r, 0)
  /\ UNCHANGED <<rows, events, warned, indexed, attempt, seq, verdict, report>>

\* record_quarantine: one transaction with the run's warning_count.
Quarantine(r) ==
  /\ pc[r] = "line"
  /\ LineAt(r) \in Malformed
  /\ quarantined' = quarantined \cup {<<r, LineAt(r)>>}
  /\ rows' = IF quarantined' = quarantined THEN rows
             ELSE [rows EXCEPT ![r].warnings = @ + 1]
  /\ Advance(r, 0)
  /\ UNCHANGED <<events, warned, indexed, attempt, seq, verdict, report>>

\* Anything an adapter raises, a locked database included.
AdapterError(r) ==
  /\ pc[r] \in {"line", "sequence", "append"}
  /\ Goto(r, "warn")
  /\ UNCHANGED <<store, job, report>>

\* What is left to do after the adapter a run is at.
SkipAdapter(r) ==
  LET a == at[r].adapter
  IN  /\ at' = [at EXCEPT ![r] = [adapter |-> a + 1, line |-> 1]]
      /\ count' = [count EXCEPT ![r].adapter = 0]
      /\ Goto(r, IF a < Len(Sources) THEN "line" ELSE "status")

\* A bug: the error of an adapter leaves no warning.
WarnNot(r) ==
  /\ pc[r] = "warn"
  /\ SkipAdapter(r)
  /\ UNCHANGED <<store, attempt, seq, verdict, report>>

\* record_warning; the rest of the adapter and its count are given up.
Warn(r) ==
  /\ pc[r] = "warn"
  /\ warned' = warned \cup {<<r, at[r].adapter>>}
  /\ rows' = IF warned' = warned THEN rows
             ELSE [rows EXCEPT ![r].warnings = @ + 1]
  /\ SkipAdapter(r)
  /\ UNCHANGED <<events, quarantined, indexed, attempt, seq, verdict, report>>

ReadStatus(r) ==
  /\ pc[r] = "status"
  /\ verdict' = [verdict EXCEPT ![r] =
                   IF rows[r].warnings > 0 THEN "completed_with_warnings"
                   ELSE "completed"]
  /\ Goto(r, "finish")
  /\ UNCHANGED <<store, attempt, at, seq, count, report>>

FinishRun(r) ==
  /\ pc[r] = "finish"
  /\ rows' = [rows EXCEPT ![r].status = verdict[r]]
  /\ Goto(r, "rebuild")
  /\ UNCHANGED <<events, warned, quarantined, indexed, job, report>>

\* A bug: the index is rebuilt only after a run without warnings.
RebuildIfClean(r) ==
  /\ pc[r] = "rebuild"
  /\ indexed' = IF verdict[r] = "completed" THEN {EventId(e) : e \in events}
                ELSE indexed
  /\ Goto(r, "confirm")
  /\ UNCHANGED <<rows, events, warned, quarantined, job, report>>

\* rebuild_search: event_fts is emptied and filled in one transaction.
Rebuild(r) ==
  /\ pc[r] = "rebuild"
  /\ indexed' = {EventId(e) : e \in events}
  /\ Goto(r, "confirm")
  /\ UNCHANGED <<rows, events, warned, quarantined, job, report>>

\* The row is read again; then resident-state.json, or the printed result.
Confirm(r) ==
  /\ pc[r] = "confirm"
  /\ Report(r, rows[r].status, count[r].total, attempt[r] - 1, "none")
  /\ Goto(r, "ended")
  /\ UNCHANGED <<store, job>>

----------------------------------------------------------------------------
(* Failures outside the adapters, and run_with_locked_retry.               *)

Outside == {"start", "warn", "status", "finish", "rebuild", "confirm"}

\* The resident run reports that it failed; the command line just fails.
GiveUp(r, retries, error) ==
  /\ Goto(r, "ended")
  /\ IF r \in Resident THEN Report(r, "warning", 0, retries, error)
     ELSE UNCHANGED report
  /\ UNCHANGED <<store, job>>

\* StoreCollisionError: an earlier attempt changed the row of the run.
Collide(r) ==
  /\ pc[r] = "start"
  /\ rows[r] \notin {NoRow, FreshRow}
  /\ GiveUp(r, 0, "collision")

\* A bug: the attempts are not counted.
RetryForever(r) ==
  /\ pc[r] \in Outside
  /\ r \in Resident
  /\ Goto(r, "start")
  /\ UNCHANGED <<store, job, report>>

\* The database stayed locked longer than busy_timeout.
Retry(r) ==
  /\ pc[r] \in Outside
  /\ r \in Resident
  /\ attempt[r] < MaxAttempts
  /\ Goto(r, "start")
  /\ attempt' = [attempt EXCEPT ![r] = @ + 1]
  /\ UNCHANGED <<store, at, seq, count, verdict, report>>

Exhaust(r) ==
  /\ pc[r] \in Outside
  /\ r \in Resident
  /\ attempt[r] = MaxAttempts
  /\ GiveUp(r, attempt[r] - 1, "locked")

\* An error that is no lock, or that nothing retries.
Break(r) ==
  /\ pc[r] \in Outside
  /\ GiveUp(r, 0, "other")

Kill(r) ==
  /\ pc[r] \notin {"idle", "ended"}
  /\ Goto(r, "ended")
  /\ UNCHANGED <<store, job, report>>

----------------------------------------------------------------------------

Step(r) ==
  \/ StartRun(r) \/ PassStored(r) \/ FindNew(r) \/ Sequence(r)
  \/ AppendEvent(r) \/ AppendUncheckpointed(r) \/ Quarantine(r)
  \/ AdapterError(r) \/ Warn(r) \/ ReadStatus(r) \/ FinishRun(r)
  \/ Rebuild(r) \/ Confirm(r) \/ Collide(r) \/ Retry(r) \/ Exhaust(r)
  \/ Break(r)

Next == \E r \in Runs : Begin(r) \/ Step(r) \/ Kill(r)

Spec == Init /\ [][Next]_vars

(* A run that is under way goes on: every call to the database returns or  *)
(* raises after the busy timeout.                                          *)
FairSpec == Spec /\ \A r \in Runs : WF_vars(Step(r))

----------------------------------------------------------------------------
(* Properties.                                                             *)

Labels == {"idle", "start", "line", "sequence", "append", "warn", "status",
           "finish", "rebuild", "confirm", "ended"}

RowType    == [status : Statuses \cup {"none"}, warnings : Nat]
ReportType == [status : Statuses \cup {"none", "warning"}, events : Nat,
               retries : Nat, error : {"none", "locked", "collision", "other"}]

\* A run that was begun has made an attempt, and one inside an adapter is at
\* one of the lines of its sources.
Placed(r) ==
  /\ pc[r] # "idle" => attempt[r] > 0
  /\ pc[r] \in {"line", "sequence", "append", "warn"} =>
       /\ at[r].adapter \in Adapters
       /\ at[r].line \in 1 .. Len(Sources[at[r].adapter])

\* Every variable has its type, and every run its place.
TypeOK ==
  /\ rows \in [Runs -> RowType]
  /\ events \subseteq [line : Nat, seq : Nat, run : Runs]
  /\ warned \subseteq (Runs \X Nat)
  /\ quarantined \subseteq (Runs \X Nat)
  /\ indexed \subseteq [line : Nat, seq : Nat]
  /\ pc \in [Runs -> Labels]
  /\ attempt \in [Runs -> 0 .. MaxAttempts]
  /\ at \in [Runs -> [adapter : Nat, line : Nat]]
  /\ seq \in [Runs -> Nat]
  /\ count \in [Runs -> [total : Nat, adapter : Nat]]
  /\ verdict \in [Runs -> Statuses]
  /\ report \in [Runs -> ReportType \cup {NoReport}]
  /\ \A r \in Runs : Placed(r)

\* However often attempts fail and runs are killed, no source line is stored
\* twice, provided that no two runs overlap: then nothing comes between the
\* look-up of a line and its insertion.
StoredOnce == \A d, e \in events : d.line = e.line => d = e

\* The events of a run are numbered 0, 1, 2 ... without gap or repetition,
\* over all its attempts and whatever other runs insert in between.
SequencesDense ==
  \A r \in Runs :
    /\ {e.seq : e \in EventsOf(r)} = 0 .. Cardinality(EventsOf(r)) - 1
    /\ \A d, e \in EventsOf(r) : d.seq = e.seq => d = e

\* warning_count is the number of the warnings and quarantined lines that
\* are recorded for the run.
WarningsCounted ==
  \A r \in Runs :
    rows[r].warnings = Cardinality({w \in warned : w[1] = r})
                         + Cardinality({q \in quarantined : q[1] = r})

\* A run recorded as completed has left no source line out.
CleanRunIsComplete ==
  \A r \in Runs :
    rows[r].status = "completed" => \A l \in AllLines : HasEquivalent(l)

\* Once a run has reported that it completed, a search finds every event of
\* that run, with warnings or without, and later rebuilds keep them.
ReportedIsSearchable ==
  \A r \in Runs :
    report[r] # NoReport /\ report[r].status # "warning" =>
      \A e \in EventsOf(r) : EventId(e) \in indexed

\* Every run that was begun ends, however often the database is locked.
RunEnds == \A r \in Runs : (pc[r] # "idle") ~> (pc[r] = "ended")

\* A resident run that gave up for no other error than a locked database
\* says so, and that it tried again as often as it may.
LockReported ==
  \A r \in Runs :
    report[r] # NoReport /\ report[r].error \notin {"none", "other"} =>
      /\ report[r].error = "locked"
      /\ report[r].retries = MaxAttempts - 1
=============================================================================
