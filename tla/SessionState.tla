---------------------------- MODULE SessionState ----------------------------
(***************************************************************************)
(* The session-state surfaces of codex-evidence, composed with the hook    *)
(* queue.  A report derives the state of a session, the sessions of a      *)
(* repository, or a summary, from three things it reads one after the      *)
(* other and without a lock: the watermark, the size of the queue and the  *)
(* hook facts in the store.  From the first two it says whether it is      *)
(* caught up.  Ingest, rotation and recovery go on in between.             *)
(*                                                                         *)
(* Every event that is stored has its fact: append_evidence_event inserts  *)
(* both in one transaction.  The state of a host without profiles is left  *)
(* to HostFreshness; no entry point of the program passes profiles.        *)
(***************************************************************************)
EXTENDS HookQueue

CONSTANTS
  SessionOf,   \* session_id of each event
  RepoOf,      \* repo_root of each event
  Stops,       \* events whose hook_event_name is Stop
  CapturedAt,  \* captured_at of each event: stamped before the lock is taken
  Now,         \* the moment reports compare captured_at with
  StaleAfter,  \* stale_after_seconds
  Asked        \* bound: what reports are asked for

Events   == 1 .. MaxEvents
Sessions == {SessionOf[e] : e \in Events}
Repos    == {RepoOf[e] : e \in Events}

NoEvent == 0

Summary == [kind |-> "summary", of |-> NoEvent]

Asks ==
  [kind : {"session"}, of : Sessions] \cup [kind : {"repo"}, of : Repos]
    \cup {Summary}

ASSUME SessionStateAssumption ==
  /\ SessionOf \in [Events -> Sessions]
  /\ RepoOf \in [Events -> Repos]
  /\ Stops \subseteq Nat
  /\ CapturedAt \in [Events -> Nat]
  /\ Now \in Nat
  /\ StaleAfter \in Nat
  /\ Asked \subseteq Asks

VARIABLE
  report   \* the report in progress, or the last one answered

svars == <<vars, report>>

----------------------------------------------------------------------------
(* What a report makes of a set of events.                                 *)

\* _sort_key: captured_at, then the identifier.
Later(e, f) ==
  \/ CapturedAt[e] > CapturedAt[f]
  \/ CapturedAt[e] = CapturedAt[f] /\ e > f

Latest(events) == CHOOSE e \in events : \A f \in events \ {e} : Later(e, f)

Status(e) ==
  IF e \in Stops THEN "closed"
  ELSE IF Now - CapturedAt[e] > StaleAfter THEN "stale"
  ELSE "active"

\* The latest event of each session of the given rows.
LatestRows(events) ==
  {Latest({e \in events : SessionOf[e] = s}) : s \in {SessionOf[e] : e \in events}}

\* get_session_state, list_repo_sessions and build_session_projection_summary,
\* each as the events its answer is based on.
Answer(ask, events) ==
  CASE ask.kind = "session" ->
         LatestRows({e \in events : SessionOf[e] = ask.of})
    [] ask.kind = "repo" ->
         LET rows == LatestRows({e \in events : RepoOf[e] = ask.of})
         IN  IF rows = {} THEN {} ELSE {Latest(rows)}
    [] ask.kind = "summary" -> LatestRows(events)

States(ask, events) == {<<e, Status(e)>> : e \in Answer(ask, events)}

----------------------------------------------------------------------------
NoReport ==
  [at |-> "idle", ask |-> Summary, mark |-> 0,
   second |-> FALSE, caught |-> FALSE, calm |-> TRUE, asof |-> 0,
   states |-> {}]

SessionInit == Init /\ report = NoReport

ReportStart(ask) ==
  /\ report.at = "idle"
  /\ report' = [NoReport EXCEPT !.at = "mark", !.ask = ask]

\* The answer, or the error, is given.
ReportEnd ==
  /\ report.at \in {"answered", "raised"}
  /\ report' = NoReport

\* A summary takes its own freshness, then that of list_session_states, which
\* it does not use; get_session_state takes a second one, and uses it, if it
\* found no event.
Used == ~report.second \/ report.ask.kind = "session"

\* projection_freshness, first the watermark ...
ReadMark ==
  /\ report.at = "mark"
  /\ report' = [report EXCEPT !.at = "exists", !.mark = mark,
                              !.calm = Used \/ @]

\* A rotation is not under way, nor waiting for its recovery with the queue
\* moved away.
Quiet ==
  /\ rot.phase # "archived"
  /\ \A p \in Procs : pc[p] # "markArchived"

\* A bug: a backlog of one line counts as none, as it may still be written.
AfterFreshnessTolerant(size) ==
  LET first == ~report.second
      next  == CASE report.ask.kind = "summary" /\ first -> "mark"
                 [] report.ask.kind = "session" /\ ~first -> "answered"
                 [] OTHER -> "facts"
  IN  report' = [report EXCEPT
                   !.at = next,
                   !.mark = 0,
                   !.second = ~first \/ next = "mark",
                   !.caught = IF Used THEN size <= report.mark + 1 ELSE @,
                   !.calm = IF Used THEN @ /\ Quiet ELSE @,
                   !.asof = IF Used THEN captured ELSE @]

\* ... then the size, and what is between them.
AfterFreshness(size) ==
  LET first == ~report.second
      next  == CASE report.ask.kind = "summary" /\ first -> "mark"
                 [] report.ask.kind = "session" /\ ~first -> "answered"
                 [] OTHER -> "facts"
  IN  report' = [report EXCEPT
                   !.at = next,
                   !.mark = 0,
                   !.second = ~first \/ next = "mark",
                   !.caught = IF Used THEN size <= report.mark ELSE @,
                   !.calm = IF Used THEN @ /\ Quiet ELSE @,
                   !.asof = IF Used THEN captured ELSE @]

QueueMissing ==
  /\ report.at = "exists"
  /\ queue = NoFile
  /\ AfterFreshness(0)

QueueExists ==
  /\ report.at = "exists"
  /\ queue # NoFile
  /\ report' = [report EXCEPT !.at = "stat"]

QueueStat ==
  /\ report.at = "stat"
  /\ queue # NoFile
  /\ AfterFreshness(Len(queue))

\* The queue was moved away between exists() and stat(): FileNotFoundError.
QueueGone ==
  /\ report.at = "stat"
  /\ queue = NoFile
  /\ report' = [NoReport EXCEPT !.at = "raised"]

\* _load_hook_event_facts and what list_session_states makes of the rows.
LoadFacts ==
  /\ report.at = "facts"
  /\ LET states == States(report.ask, StoredEvents)
         again  == report.ask.kind = "session" /\ states = {}
     IN  report' = [report EXCEPT
                      !.at = IF again THEN "mark" ELSE "answered",
                      !.second = again,
                      !.states = states]

ReportStep ==
  \/ ReadMark \/ QueueMissing \/ QueueExists \/ QueueStat \/ QueueGone
  \/ LoadFacts \/ ReportEnd

Report == ReportStep /\ UNCHANGED vars

Ask == (\E ask \in Asked : ReportStart(ask)) /\ UNCHANGED vars

\* A step of hooks, ingest or maintenance; none has to be distinguished from
\* the same step before the answer is given or after.  A report is calm as
\* long as the queue only grew since it read the watermark.
QueueGrows ==
  /\ StartsWith(Bytes(queue'), Bytes(queue))
  /\ queue # NoFile => queue' # NoFile

QueueStep ==
  /\ Next
  /\ report.at \notin {"answered", "raised"}
  /\ report' = IF report.at \in {"exists", "stat"} /\ Used /\ ~QueueGrows
               THEN [report EXCEPT !.calm = FALSE] ELSE report

SessionNext == QueueStep \/ Report \/ Ask

SessionSpec == SessionInit /\ [][SessionNext]_svars

----------------------------------------------------------------------------
\* The reference: of the first n events captured, those that no later one of
\* the same session, or of the same repository, has replaced.
Within(ask, e) ==
  CASE ask.kind = "session" -> SessionOf[e] = ask.of
    [] ask.kind = "repo"    -> RepoOf[e] = ask.of
    [] ask.kind = "summary" -> TRUE

Current(ask, n) ==
  LET known == {e \in (1 .. n) \ Malformed : Within(ask, e)}
  IN  {e \in known : \A f \in known \ {e} :
         ask.kind = "repo" \/ SessionOf[e] = SessionOf[f] => Later(e, f)}

\* A report that says caught up, and that no rotation disturbed, is true of a
\* moment between its look at the queue and its answer: nothing that had been
\* captured by then is missing from it, no session is taken for open whose
\* Stop was already captured.  Not so the answer of get_session_state for a
\* session without events: its second look at the queue is later than its look
\* at the store.
ConfirmedIsTrue ==
  report.at = "answered" /\ report.caught /\ report.calm /\ report.states # {} =>
    \E n \in report.asof .. captured :
      report.states = {<<e, Status(e)>> : e \in Current(report.ask, n)}
=============================================================================
