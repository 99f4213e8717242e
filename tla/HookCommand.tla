----------------------------- MODULE HookCommand ---------------------------
(***************************************************************************)
(* The hook command of codex-evidence: one process per hook event, started *)
(* by Codex and waited for.  The main thread hands the payload to a daemon *)
(* worker that appends it to the queue under the queue lock, and gives up  *)
(* on it after a timeout: capture must not block Codex.  What could not be *)
(* captured is noted as a failure proof.  A PreCompact hook then writes a  *)
(* summary of its session's queued events, which a later UserPromptSubmit  *)
(* hook injects.                                                           *)
(*                                                                         *)
(* A hook stands for the event it captures.  A line of the queue holds the *)
(* hooks whose bytes are in it and is torn if it does not parse.           *)
(***************************************************************************)
EXTENDS Integers, Sequences, FiniteSets

CONSTANTS
  Hooks,      \* hook processes
  Sessions,   \* values of session_id
  Payloads,   \* the inputs of a run: kind and session
  Rotation,   \* the holder of the lock that is not a hook
  Nobody,     \* the lock has no holder; no summary
  Torn        \* may an append write only part of its record?

Kinds == {"ignored", "unparsable", "unsupported", "tool", "prompt", "precompact"}

ASSUME HookCommandAssumption ==
  /\ Payloads \subseteq [kind : Kinds, session : Sessions]
  /\ Rotation \notin Hooks
  /\ Nobody \notin Hooks \cup {Rotation}
  /\ Torn \in BOOLEAN

VARIABLES
  input,     \* kind and session of each hook's payload
  main,      \* label of each main thread
  worker,    \* label of each worker thread
  result,    \* result_queue of each hook
  status,    \* status of the HookCommandRunResult, before any failure proof
  lock,      \* holder of events.jsonl.lock
  queue,     \* events.jsonl, a sequence of lines
  open,      \* does the last line lack its newline?
  moved,     \* has a rotation moved the queue away?
  archived,  \* hooks whose lines were archived
  late,      \* hooks whose capture raised after their record was in the file
  proofs,    \* failures.jsonl: pairs of hook and reason
  unproved,  \* hooks whose failure proof could not be written
  summary,   \* what each PreCompact hook summarised
  latest,    \* latest-<session>.json: whose summary, or "torn"
  output     \* whose summary each UserPromptSubmit hook printed

threads == <<main, worker, result, status>>
store   == <<lock, queue, open, moved, archived, late>>
proof   == <<proofs, unproved>>
context == <<summary, latest, output>>
vars    == <<input, threads, store, proof, context>>

----------------------------------------------------------------------------
(* Operators.                                                              *)

Lines(s) == {s[k] : k \in 1 .. Len(s)}

\* Hooks whose bytes are in the queue or in an archive.
Captured == archived \cup UNION {l.who : l \in Lines(queue)}

\* Hooks whose event a reader of the queue gets.
Parsed == archived \cup UNION {l.who : l \in {x \in Lines(queue) : ~x.torn}}

\* The queue after h appends: its bytes go behind an unterminated line.
Appended(h, whole) ==
  IF open
  THEN [queue EXCEPT ![Len(queue)] = [who |-> @.who \cup {h}, torn |-> TRUE]]
  ELSE Append(queue, [who |-> {h}, torn |-> ~whole])

SessionOf(h) == input[h].session

Goto(h, label) == main' = [main EXCEPT ![h] = label]

Alive(h) == main[h] \notin {"start", "gone"}

----------------------------------------------------------------------------

Init ==
  /\ input \in [Hooks -> Payloads]
  /\ main = [h \in Hooks |-> "start"]
  /\ worker = [h \in Hooks |-> "none"]
  /\ result = [h \in Hooks |-> "none"]
  /\ status = [h \in Hooks |-> "none"]
  /\ lock = Nobody
  /\ queue = <<>>
  /\ open = FALSE
  /\ moved = FALSE
  /\ archived = {}
  /\ late = {}
  /\ proofs = {}
  /\ unproved = {}
  /\ summary = [h \in Hooks |-> {}]
  /\ latest = [s \in Sessions |-> Nobody]
  /\ output = [h \in Hooks |-> Nobody]

----------------------------------------------------------------------------
(* The worker thread: capture_hook_event.                                  *)

Step(h, from, to) == Alive(h) /\ worker[h] = from /\ worker' = [worker EXCEPT ![h] = to]

Put(h, r) == result' = [result EXCEPT ![h] = r]

\* normalize_hook_event raises for a payload without a supported event.
Normalize(h) ==
  /\ \/ /\ input[h].kind = "unsupported"
        /\ Step(h, "normalize", "ended")
        /\ Put(h, "error")
     \/ /\ input[h].kind # "unsupported"
        /\ Step(h, "normalize", "lock")
        /\ UNCHANGED result
  /\ UNCHANGED <<input, main, status, store, proof, context>>

TakeLock(h) ==
  /\ Step(h, "lock", "append")
  /\ lock = Nobody
  /\ lock' = h
  /\ UNCHANGED <<input, main, result, status, queue, open, moved, archived,
                 late, proof, context>>

\* A bug: the record has no newline at its end.
AppendUnterminated(h) ==
  /\ Step(h, "append", "unlock")
  /\ queue' = Appended(h, TRUE)
  /\ open' = TRUE
  /\ UNCHANGED <<input, main, result, status, lock, moved, archived, late,
                 proof, context>>

\* The record reaches the file when the stream is closed.
AppendRecord(h) ==
  /\ Step(h, "append", "unlock")
  /\ queue' = Appended(h, TRUE)
  /\ open' = FALSE
  /\ UNCHANGED <<input, main, result, status, lock, moved, archived, late,
                 proof, context>>

\* open(), write() or the close that flushes raises: before anything was
\* written, after a part of the record, after all of it but its newline, or
\* after the whole record.
AppendError(h) ==
  /\ Step(h, "append", "error")
  /\ \/ UNCHANGED <<queue, open, late>>
     \/ /\ Torn
        /\ queue' = Appended(h, FALSE)
        /\ open' = TRUE
        /\ UNCHANGED late
     \/ /\ queue' = Appended(h, TRUE)
        /\ open' \in {Torn, FALSE}
        /\ late' = late \cup {h}
  /\ UNCHANGED <<input, main, result, status, lock, moved, archived, proof,
                 context>>

\* A bug for the mutant runs: the lock is kept when the append fails.
UnlockHolding(h) ==
  /\ \/ Step(h, "unlock", "ended") /\ Put(h, "queued") /\ lock' = Nobody
     \/ Step(h, "error", "ended") /\ Put(h, "error") /\ UNCHANGED lock
  /\ UNCHANGED <<input, main, status, queue, open, moved, archived, late, proof,
                 context>>

\* The lock is given back and the result handed to the main thread.  Giving it
\* back may raise too: then closing the lock file releases it.
Unlock(h) ==
  /\ \/ Step(h, "unlock", "ended") /\ Put(h, "queued") /\ UNCHANGED late
     \/ /\ Step(h, "unlock", "ended")
        /\ Put(h, "error")
        /\ late' = late \cup {h}
     \/ Step(h, "error", "ended") /\ Put(h, "error") /\ UNCHANGED late
  /\ lock' = Nobody
  /\ UNCHANGED <<input, main, status, queue, open, moved, archived, proof,
                 context>>

Worker(h) ==
  Normalize(h) \/ TakeLock(h) \/ AppendRecord(h) \/ AppendError(h) \/ Unlock(h)

----------------------------------------------------------------------------
(* The main thread: main and run_hook_command_fail_open.                   *)

Begin(h) ==
  /\ main[h] = "start"
  /\ \/ input[h].kind = "ignored" /\ Goto(h, "exit") /\ UNCHANGED worker
     \/ input[h].kind = "unparsable" /\ Goto(h, "prove") /\ UNCHANGED worker
     \/ /\ input[h].kind \notin {"ignored", "unparsable"}
        /\ Goto(h, "join")
        /\ worker' = [worker EXCEPT ![h] = "normalize"]
  /\ UNCHANGED <<input, result, status, store, proof, context>>

\* A bug: the summary and the context do not depend on the capture.
CollectAnyway(h) ==
  /\ worker[h] = "ended"
  /\ status' = [status EXCEPT ![h] = IF result[h] = "queued" THEN "queued"
                                     ELSE "failed_open"]
  /\ Goto(h, "after")

\* The worker has ended: its result is in the queue between the threads.
Collect(h) ==
  /\ worker[h] = "ended"
  /\ status' = [status EXCEPT ![h] = IF result[h] = "queued" THEN "queued"
                                     ELSE "failed_open"]
  /\ Goto(h, IF result[h] = "queued" THEN "after" ELSE "prove")

TimeOut(h, next) ==
  /\ worker[h] # "ended"
  /\ status' = [status EXCEPT ![h] = "failed_open_timeout"]
  /\ Goto(h, next)

\* A bug: the main thread waits for its worker, however long it takes.
JoinForever(h) ==
  /\ main[h] = "join"
  /\ Collect(h)
  /\ UNCHANGED <<input, worker, result, store, proof, context>>

\* A bug: a timeout leaves no failure proof.
JoinSilent(h) ==
  /\ main[h] = "join"
  /\ Collect(h) \/ TimeOut(h, "exit")
  /\ UNCHANGED <<input, worker, result, store, proof, context>>

\* thread.join(timeout), then is_alive(): the time may be up at any moment.
Join(h) ==
  /\ main[h] = "join"
  /\ Collect(h) \/ TimeOut(h, "prove")
  /\ UNCHANGED <<input, worker, result, store, proof, context>>

\* A bug: a timeout is noted like an error of the capture.
ReasonAnyError(h) ==
  IF status[h] = "none" THEN "unparsable" ELSE "error"

Reason(h) ==
  CASE status[h] = "none"                -> "unparsable"
    [] status[h] = "failed_open_timeout" -> "capture_timeout"
    [] status[h] = "failed_open"         -> "error"

\* _append_failure_proof_fail_open: an error while writing is swallowed.
Prove(h) ==
  /\ main[h] = "prove"
  /\ Goto(h, "exit")
  /\ \/ proofs' = proofs \cup {<<h, Reason(h)>>} /\ UNCHANGED unproved
     \/ unproved' = unproved \cup {h} /\ UNCHANGED proofs
  /\ UNCHANGED <<input, worker, result, status, store, context>>

\* After a capture: the summary, the injected context, or nothing more.
After(h) ==
  /\ main[h] = "after"
  /\ Goto(h, CASE input[h].kind = "precompact" -> "summarise"
               [] input[h].kind = "prompt"     -> "inject"
               [] OTHER                        -> "exit")
  /\ UNCHANGED <<input, worker, result, status, store, proof, context>>

\* The session's events that a reader of the queue path finds.
SessionEvents(s) ==
  {h \in UNION {l.who : l \in {x \in Lines(queue) : ~x.torn}} : SessionOf(h) = s}

\* _summarize_hook_queue_for_session, without the lock.
Summarise(h) ==
  /\ main[h] = "summarise"
  /\ Goto(h, "truncate")
  /\ summary' = [summary EXCEPT ![h] =
                   IF moved THEN {} ELSE SessionEvents(SessionOf(h))]
  /\ UNCHANGED <<input, worker, result, status, store, proof, latest, output>>

\* latest_path.write_text truncates the file and then writes it.
TruncateLatest(h) ==
  /\ main[h] = "truncate"
  /\ Goto(h, "write")
  /\ latest' = [latest EXCEPT ![SessionOf(h)] = "torn"]
  /\ UNCHANGED <<input, worker, result, status, store, proof, summary, output>>

\* If another hook wrote meanwhile, the end of a longer text may remain.
WriteLatest(h) ==
  /\ main[h] = "write"
  /\ Goto(h, "exit")
  /\ \/ latest' = [latest EXCEPT ![SessionOf(h)] = h]
     \/ /\ latest[SessionOf(h)] # "torn"
        /\ latest' = [latest EXCEPT ![SessionOf(h)] = "torn"]
  /\ UNCHANGED <<input, worker, result, status, store, proof, summary, output>>

\* _compact_summary_context_for_hook: a text that does not parse is ignored.
Inject(h) ==
  /\ main[h] = "inject"
  /\ Goto(h, "exit")
  /\ output' = [output EXCEPT ![h] =
                  IF latest[SessionOf(h)] = "torn" THEN Nobody
                  ELSE latest[SessionOf(h)]]
  /\ UNCHANGED <<input, worker, result, status, store, proof, summary, latest>>

\* main swallows what the summary or the context raises.
Swallow(h) ==
  /\ main[h] \in {"summarise", "truncate", "write", "inject"}
  /\ Goto(h, "exit")
  /\ UNCHANGED <<input, worker, result, status, store, proof, context>>

\* The interpreter ends: a daemon thread ends with it, wherever it is, and
\* the operating system releases its lock.
Exit(h) ==
  /\ main[h] = "exit"
  /\ Goto(h, "gone")
  /\ lock' = IF lock = h THEN Nobody ELSE lock
  /\ UNCHANGED <<input, worker, result, status, queue, open, moved, archived,
                 late, proof, context>>

Main(h) ==
  \/ Begin(h) \/ Join(h) \/ Prove(h) \/ After(h) \/ Summarise(h)
  \/ TruncateLatest(h) \/ WriteLatest(h) \/ Inject(h) \/ Swallow(h) \/ Exit(h)

----------------------------------------------------------------------------
(* rotate_hook_queue, as far as a hook can see it: it holds the lock, the  *)
(* queue path is without a file for a while, and lines that were ingested, *)
(* hence parsed, are archived.  Ingestion reads a whole record that lacks   *)
(* its newline; a line that another record was glued to since is left in   *)
(* the queue as it is.                                                     *)

RotationTakes ==
  /\ lock = Nobody
  /\ lock' = Rotation
  /\ UNCHANGED <<input, threads, queue, open, moved, archived, late, proof,
                 context>>

RotationMoves ==
  /\ lock = Rotation
  /\ ~moved
  /\ moved' = TRUE
  /\ \E n \in 0 .. Len(queue) :
       /\ \A k \in 1 .. n : ~queue[k].torn
       /\ queue' = SubSeq(queue, n + 1, Len(queue))
       /\ archived' = archived \cup UNION {queue[k].who : k \in 1 .. n}
       /\ open' = (open /\ n < Len(queue))
  /\ UNCHANGED <<input, threads, lock, late, proof, context>>

RotationEnds ==
  /\ lock = Rotation
  /\ lock' = Nobody
  /\ moved' = FALSE
  /\ UNCHANGED <<input, threads, queue, open, archived, late, proof, context>>

Next ==
  \/ \E h \in Hooks : Main(h) \/ Worker(h)
  \/ RotationTakes \/ RotationMoves \/ RotationEnds

Spec == Init /\ [][Next]_vars

(* The main thread goes on and its timer expires.  Nothing is assumed of   *)
(* the worker, which may wait for the lock for ever.                       *)
Fairness == \A h \in Hooks : WF_vars(Main(h))

FairSpec == Spec /\ Fairness

----------------------------------------------------------------------------
(* Properties.                                                             *)

MainLabels   == {"start", "join", "prove", "after", "summarise", "truncate",
                 "write", "inject", "exit", "gone"}
WorkerLabels == {"none", "normalize", "lock", "append", "unlock", "error",
                 "ended"}

\* Every variable has its type, and a hook that holds the lock is alive and
\* its worker inside the locked section.
TypeOK ==
  /\ input \in [Hooks -> [kind : Kinds, session : Sessions]]
  /\ main \in [Hooks -> MainLabels]
  /\ worker \in [Hooks -> WorkerLabels]
  /\ result \in [Hooks -> {"none", "queued", "error"}]
  /\ status \in [Hooks -> {"none", "queued", "failed_open", "failed_open_timeout"}]
  /\ lock \in Hooks \cup {Rotation, Nobody}
  /\ queue \in Seq([who : SUBSET Hooks, torn : BOOLEAN])
  /\ open \in BOOLEAN
  /\ moved \in BOOLEAN
  /\ archived \subseteq Hooks
  /\ late \subseteq Hooks
  /\ proofs \subseteq (Hooks \X {"unparsable", "capture_timeout", "error"})
  /\ unproved \subseteq Hooks
  /\ summary \in [Hooks -> SUBSET Hooks]
  /\ latest \in [Sessions -> Hooks \cup {Nobody, "torn"}]
  /\ output \in [Hooks -> Hooks \cup {Nobody}]
  /\ \A h \in Hooks :
       Alive(h) /\ worker[h] \in {"append", "unlock", "error"} <=> lock = h

\* No hook ends in silence: an event that was to be captured is in the queue
\* or was archived, or there is a failure proof, or writing it failed as well.
NothingSilent ==
  \A h \in Hooks :
    main[h] = "gone" /\ input[h].kind # "ignored" =>
      \/ h \in Captured \cup unproved
      \/ \E p \in proofs : p[1] = h

\* A failure proof beside a record that a reader of the queue accepts says that
\* the capture timed out, or an append or an unlock raised when the record was
\* in the file already: no other error is noted of an event that was captured.
ProofsTrue ==
  \A p \in proofs :
    p[1] \in Parsed =>
      p[2] = "capture_timeout" \/ (p[2] = "error" /\ p[1] \in late)

\* What a hook injects is the summary of a hook of its own session whose own
\* event was queued when it was taken.  The summary is read without the lock;
\* yet it has that event, unless a rotation had moved the queue away, and it is
\* empty, or has archived the line since, or the line does not parse.
InjectedSummary ==
  \A h \in Hooks :
    output[h] # Nobody =>
      LET p == output[h]
      IN  /\ SessionOf(p) = SessionOf(h)
          /\ input[p].kind = "precompact"
          /\ p \in Captured
          /\ \/ summary[p] = {}
             \/ p \in summary[p] \cup archived \cup (Captured \ Parsed)

\* The event of a hook that was told "queued" can be read from the queue, or
\* was glued to the line of a hook that was not told so, whose append was cut
\* short: hooks that succeed never spoil each other's lines.
QueuedReadable ==
  \A h \in Hooks :
    status[h] = "queued" =>
      \/ h \in Parsed
      \/ \E l \in Lines(queue) :
           h \in l.who /\ \E g \in l.who \ {h} : status[g] # "queued"

\* Every hook process ends, whatever holds the lock: capture fails open.
HookEnds == \A h \in Hooks : (main[h] # "start") ~> (main[h] = "gone")
=============================================================================
