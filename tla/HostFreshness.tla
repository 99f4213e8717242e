---------------------------- MODULE HostFreshness ---------------------------
(***************************************************************************)
(* Freshness of the hosts whose events are replicated into one evidence    *)
(* store.  An event is captured in the queue of its host, exported,        *)
(* transported as part of a bundle, imported and projected; each stage     *)
(* leaves the sequence number it has come to, in a place of its own.  A    *)
(* report reads them one after the other while they move on, and says of   *)
(* each host, and of each session by the host it ran on, whether the       *)
(* store has everything.                                                   *)
(*                                                                         *)
(* The stages themselves are not part of this repository.  They are        *)
(* modelled by what the reader takes for granted: sequence numbers count   *)
(* the events of a host, and are passed on in order.                       *)
(***************************************************************************)
EXTENDS Integers, Sequences, FiniteSets

CONSTANTS
  Profiles,  \* the hosts with a profile, in the order of the profiles
  Unknown,   \* host_id of a session whose host has no profile
  Limit      \* bound: number of events each host captures

Profiled == {Profiles[i] : i \in 1 .. Len(Profiles)}

\* host_id of a session that was captured without a host.
NoHost == ""

ASSUME HostFreshnessAssumption ==
  /\ \A i, j \in 1 .. Len(Profiles) : Profiles[i] = Profiles[j] => i = j
  /\ Limit \in [Profiled -> Nat]
  /\ Unknown \notin Profiled
  /\ NoHost \notin Profiled \cup {Unknown}

Before ==
  [exported |-> "captured", transported |-> "exported",
   imported |-> "transported", projected |-> "imported"]

Stages == {"captured"} \cup DOMAIN Before

VARIABLES
  reached,    \* sequence number each stage of each host has come to
  lines,      \* complete lines of the queue of each host
  processed,  \* those its watermark covers
  rotation,   \* of each queue: how far it is, and the lines it will leave
  rotated,    \* history: hosts whose queue was rotated
  view,       \* what the report in progress has read
  lagged      \* history: hosts that lacked something at a moment of its reading

hosts == <<reached, lines, processed, rotation, rotated>>
hvars == <<reached, lines, processed, rotation, rotated, view, lagged>>

----------------------------------------------------------------------------
(* The hosts.                                                              *)

NoTurn == [phase |-> "none", tail |-> 0]

\* A rotation has the lock of the queue.
Turning(h) == rotation[h] # NoTurn

HostCapture(h) ==
  /\ ~Turning(h)
  /\ reached[h]["captured"] < Limit[h]
  /\ reached' = [reached EXCEPT ![h]["captured"] = @ + 1]
  /\ lines' = [lines EXCEPT ![h] = @ + 1]
  /\ UNCHANGED <<processed, rotation, rotated, view>>

HostIngest(h) ==
  /\ ~Turning(h)
  /\ processed[h] < lines[h]
  /\ processed' = [processed EXCEPT ![h] = lines[h]]
  /\ UNCHANGED <<reached, lines, rotation, rotated, view>>

\* rotate_hook_queue sets the watermark to zero before it moves the queue, and
\* puts the lines that were not covered in its place.
HostReset(h) ==
  /\ ~Turning(h)
  /\ processed[h] > 0
  /\ rotation' = [rotation EXCEPT ![h] = [phase |-> "reset", tail |-> lines[h] - processed[h]]]
  /\ processed' = [processed EXCEPT ![h] = 0]
  /\ UNCHANGED <<reached, lines, rotated, view>>

HostMove(h) ==
  /\ rotation[h].phase = "reset"
  /\ rotation' = [rotation EXCEPT ![h].phase = "moved"]
  /\ lines' = [lines EXCEPT ![h] = 0]
  /\ rotated' = rotated \cup {h}
  /\ UNCHANGED <<reached, processed, view>>

HostPutBack(h) ==
  /\ rotation[h].phase = "moved"
  /\ rotation' = [rotation EXCEPT ![h] = NoTurn]
  /\ lines' = [lines EXCEPT ![h] = rotation[h].tail]
  /\ UNCHANGED <<reached, processed, rotated, view>>

PassOn(h, stage) ==
  /\ reached[h][stage] < reached[h][Before[stage]]
  /\ reached' = [reached EXCEPT ![h][stage] = @ + 1]
  /\ UNCHANGED <<lines, processed, rotation, rotated, view>>

----------------------------------------------------------------------------
(* The report.                                                             *)

\* build_host_freshness reads two aggregates of the store, for all hosts, ...
StoreReads == <<"imported", "projected">>

\* A bug: the watermark is read after the queue.
HostReadsMarkLast == <<"size", "count", "mark", "exported", "transported">>

\* ... then, profile by profile, the queue and the directories of the host.
HostReads == <<"mark", "size", "count", "exported", "transported">>

Reads == Len(StoreReads) + Len(Profiles) * Len(HostReads)

Items == {"imported", "projected", "mark", "size", "count", "exported",
          "transported"}

\* What is read of a host, and, as history, how many events it had captured when
\* its lines were counted.
NothingRead == [i \in Items \cup {"asof"} |-> 0]

\* And, as history, the hosts whose watermark a rotation had set to zero, with
\* the queue in its place yet, when it was read.
NoView == [next |-> 1, of |-> [h \in Profiled |-> NothingRead], zeroed |-> {}]

Answered == view.next > Reads

\* _host_queue_summary, _host_export_summary, _host_transport_summary,
\* _bundle_import_summary, _projected_host_summary.
Found(h, item) ==
  CASE item = "mark"            -> processed[h]
    [] item \in {"size", "count"} -> lines[h]
    [] OTHER                    -> reached[h][item]

ReadStore ==
  /\ view.next <= Len(StoreReads)
  /\ LET item == StoreReads[view.next]
     IN  view' = [view EXCEPT !.next = @ + 1,
                              !.of = [h \in Profiled |->
                                        [view.of[h] EXCEPT ![item] = Found(h, item)]]]
  /\ UNCHANGED hosts

ReadHost ==
  /\ view.next > Len(StoreReads)
  /\ ~Answered
  /\ LET k    == view.next - Len(StoreReads) - 1
         h    == Profiles[(k \div Len(HostReads)) + 1]
         item == HostReads[(k % Len(HostReads)) + 1]
     IN  view' = [next |-> view.next + 1,
                  of |-> [view.of EXCEPT
                            ![h][item] = Found(h, item),
                            ![h]["asof"] = IF item = "count"
                                           THEN reached[h]["captured"] ELSE @],
                  zeroed |-> IF item = "mark" /\ rotation[h].phase = "reset"
                             THEN view.zeroed \cup {h} ELSE view.zeroed]
  /\ UNCHANGED hosts

ReportAgain ==
  /\ Answered
  /\ view' = NoView
  /\ UNCHANGED hosts

\* A bug: the stage of the bundles in transit is left out.
ChecksWithoutTransport(v) ==
  << [late |-> v.size > v.mark,             reason |-> "queue_has_unexported_bytes"],
     [late |-> v.exported < v.count,        reason |-> "export_sequence_lagging"],
     [late |-> v.imported < v.transported,  reason |-> "import_lagging"],
     [late |-> v.projected < v.imported,    reason |-> "projection_lagging"] >>

\* The stages of _host_freshness_status, in the order it looks at them.
Checks(v) ==
  << [late |-> v.size > v.mark,             reason |-> "queue_has_unexported_bytes"],
     [late |-> v.exported < v.count,        reason |-> "export_sequence_lagging"],
     [late |-> v.transported < v.exported,  reason |-> "transport_lagging"],
     [late |-> v.imported < v.transported,  reason |-> "import_lagging"],
     [late |-> v.projected < v.imported,    reason |-> "projection_lagging"] >>

HostReason(h) ==
  LET v    == view.of[h]
      late == {i \in DOMAIN Checks(v) : Checks(v)[i].late}
  IN  IF v.count = 0 THEN "no_host_events"
      ELSE IF late = {} THEN "host_caught_up"
      ELSE Checks(v)[CHOOSE i \in late : \A j \in late : i <= j].reason

HostOk(h) == HostReason(h) \in {"no_host_events", "host_caught_up"}

AllHostsCaughtUp == \A h \in Profiled : HostOk(h)

HostCaughtUp(id) == IF id \in Profiled THEN HostOk(id) ELSE AllHostsCaughtUp

\* _state_freshness of a session that ran on host `id`; `caught` is what the
\* queue of this host says.  The reason of a lagging host is looked up in a
\* mapping that has the hosts with a profile only.
StateFreshness(id, caught, status) ==
  CASE ~caught -> "ingest_lagging"
    [] caught /\ id # NoHost /\ ~HostCaughtUp(id) ->
         IF id \in Profiled THEN HostReason(id) ELSE "KeyError"
    [] OTHER -> IF status = "stale" THEN "stale" ELSE "confirmed"

\* lagging_state and lagging_reason, which a summary and the answer for a
\* session without events are made of.
Overall(caught) ==
  CASE ~caught                     -> "ingest_lagging"
    [] caught /\ ~AllHostsCaughtUp -> "host_lagging"
    [] OTHER                       -> "confirmed"

----------------------------------------------------------------------------
\* Something of the host is on its way: lines the watermark does not cover, or
\* events that a stage has and the next has not.
Outstanding(h) ==
  \/ ~Turning(h) /\ processed[h] < lines[h]
  \/ rotation[h].tail > 0
  \/ \E stage \in DOMAIN Before : reached[h][stage] < reached[h][Before[stage]]

HostInit ==
  /\ reached = [h \in Profiled |-> [s \in Stages |-> 0]]
  /\ lines = [h \in Profiled |-> 0]
  /\ processed = [h \in Profiled |-> 0]
  /\ rotation = [h \in Profiled |-> NoTurn]
  /\ rotated = {}
  /\ view = NoView
  /\ lagged = {}

HostStep ==
  \/ \E h \in Profiled :
       \/ HostCapture(h) \/ HostIngest(h)
       \/ HostReset(h) \/ HostMove(h) \/ HostPutBack(h)
       \/ \E stage \in DOMAIN Before : PassOn(h, stage)
  \/ ReadStore \/ ReadHost \/ ReportAgain

\* A report that has read nothing begins now.
HostNext ==
  /\ HostStep
  /\ lagged' = {h \in Profiled : Outstanding(h)'} \cup IF view' = NoView THEN {} ELSE lagged

HostSpec == HostInit /\ [][HostNext]_hvars

----------------------------------------------------------------------------
\* A confirmed state of a session of a host, or a confirmed summary, lacks
\* nothing that the host, or any host, had captured when its queue was counted,
\* though the stages moved on while they were read.  This is lost for good
\* once the queue of a host is rotated: lines are counted in the file that is
\* left, sequence numbers from the beginning.
ConfirmedHasAll ==
  Answered =>
    \A h \in Profiled \ rotated :
      \/ Overall(TRUE) = "confirmed"
      \/ StateFreshness(h, TRUE, "active") = "confirmed"
      => view.of[h].asof <= reached[h]["projected"]

\* A host that lacked nothing at any moment of the reading is not said to lag,
\* also if its queue was rotated meanwhile; only if its watermark was read between
\* the moment a rotation set it to zero and the one it moved the queue, all that
\* had been ingested looks as if it had not.
LagExplained ==
  Answered =>
    \A h \in Profiled : ~HostOk(h) => h \in lagged \cup view.zeroed
=============================================================================
