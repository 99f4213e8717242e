------------------------------- MODULE Doctor -------------------------------
(***************************************************************************)
(* The runtime doctor of codex-evidence, composed with the commands that   *)
(* register it and with the resident process.  The doctor reads six files  *)
(* one after the other and without a lock, gathers what is missing         *)
(* (evidence gaps) and what does not fit (warnings), and comes to a        *)
(* verdict.  Commands and the resident process write the files in place    *)
(* in the meantime; a file that does not parse brings the doctor down.     *)
(*                                                                         *)
(* What the verdict takes from elsewhere (the database, the alias          *)
(* registry, the scheduled task, the maintenance summary, the queue, the   *)
(* session projection) is summed up in a record, for answers only: an      *)
(* alias registry over which its reading raises (RepoTargets) brings the   *)
(* doctor down as well.  Both hooks files always have the scope they are   *)
(* registered with.                                                        *)
(***************************************************************************)
EXTENDS Registration

CONSTANT
  Rests  \* what the rest may be when the doctor is asked

Reports ==
  [db        : {"ok", "db_unavailable", "db_error", "schema_missing"},
   aliases   : BOOLEAN,                  \* inspect_alias_registry warns
   task      : BOOLEAN,                  \* its registration is recorded
   integrity : {"missing", "ok", "warning", "locked", "error"},
   backlog   : BOOLEAN,
   lagging   : BOOLEAN,
   session   : SUBSET Generations,       \* --session-generation-id, if given
   sources   : BOOLEAN]                  \* of --source or --ingest-run: a warning

ASSUME DoctorAssumption ==
  /\ Rests \subseteq Reports
  /\ \A rest \in Rests : Cardinality(rest.session) <= 1

VARIABLES
  resident,  \* resident.v1.json: its state and its generation
  run,       \* the run of the resident process that is about to write it
  doctor     \* the doctor's view, and the history of what went on meanwhile

dvars == <<vars, resident, run, doctor>>

----------------------------------------------------------------------------
(* The resident process: run_resident_once, _write_state.                  *)

NoState == [state |-> "missing", gen |-> {}]

NoRun == [at |-> "idle", gen |-> {}, killed |-> FALSE]

\* A bug: the file is opened before the generation is known.
ResidentReadLate ==
  /\ run.at = "idle"
  /\ IF manifest.state = "torn"
     THEN resident' = [NoState EXCEPT !.state = "torn"] /\ UNCHANGED run
     ELSE run' = [run EXCEPT !.at = "write", !.gen = {manifest.gen}]
          /\ UNCHANGED resident

\* load_runtime_generation_id takes the manifest's or the default, and raises
\* for a manifest that does not parse.
ResidentRead ==
  /\ run.at = "idle"
  /\ manifest.state # "torn"
  /\ run' = [run EXCEPT !.at = "write", !.gen = {manifest.gen}]
  /\ UNCHANGED resident

ResidentTruncate ==
  /\ run.at = "write"
  /\ resident' = [NoState EXCEPT !.state = "torn"]
  /\ run' = [run EXCEPT !.at = "flush"]

ResidentFlush ==
  /\ run.at = "flush"
  /\ resident' = [state |-> "whole", gen |-> run.gen]
  /\ run' = [run EXCEPT !.at = "idle", !.gen = {}]

ResidentDie ==
  /\ run.at # "idle"
  /\ ~run.killed
  /\ run' = [NoRun EXCEPT !.killed = TRUE]
  /\ UNCHANGED resident

ResidentStep == ResidentRead \/ ResidentTruncate \/ ResidentFlush \/ ResidentDie

----------------------------------------------------------------------------
(* What the doctor makes of what it has read.                              *)

\* consensus_generation_id of the surfaces with these generations.
Agreed(gens) == IF Cardinality(gens) = 1 THEN gens ELSE {}

Base(v)   == Agreed(v.config \cup v.user)
Active(v) == Agreed(v.config \cup v.user \cup v.repo)

\* _record_generation_gaps, and those inspect_runtime_doctor adds.
Gaps(v, rest) ==
  {f \in {"config", "user", "manifest", "resident"} : v[f] = {}}
    \cup (IF rest.integrity = "missing" THEN {"maintenance_summary_missing"} ELSE {})
    \cup (IF rest.task THEN {} ELSE {"scheduled_task_proof_missing"})
    \cup (IF Base(v) \cup Active(v) = {} THEN {"runtime_generation_missing"} ELSE {})

Stale(v, rest) ==
  rest.session # {} /\ Active(v) # {} /\ rest.session # Active(v)

\* The hook command is the one field of the metadata that may differ.
MetadataDrifts(v) ==
  v.user # {} /\ {g.hook : g \in v.repo} # {g.hook : g \in v.user}

\* A bug: a generation is compared with the active one only if all agree, the
\* manifest and the resident state included.
DriftsIgnored(v) ==
  /\ Agreed(v.manifest \cup v.resident \cup Active(v)) # {}
  /\ \E f \in {"manifest", "resident"} : v[f] \notin {{}, Active(v)}

\* runtime_generation_drift
Drifts(v) ==
  /\ Active(v) # {}
  /\ \E f \in {"manifest", "resident"} : v[f] \notin {{}, Active(v)}

Warnings(v, rest) ==
  LET found ==
    [db_unavailable                   |-> rest.db = "db_unavailable",
     db_error                         |-> rest.db = "db_error",
     schema_missing                   |-> rest.db = "schema_missing",
     repo_alias                       |-> rest.aliases,
     runtime_generation_ambiguous     |->
       Active(v) = {} /\ v.config \cup v.user \cup v.repo # {},
     runtime_generation_drift         |-> Drifts(v),
     repo_local_hook_shadow           |-> v.user # {} /\ v.repo # {},
     repo_hook_generation_drift       |->
       v.repo # {} /\ Base(v) # {} /\ v.repo # Base(v),
     repo_hook_metadata_drift         |-> v.repo # {} /\ MetadataDrifts(v),
     session_generation_stale         |-> Stale(v, rest),
     maintenance_integrity_warning    |-> rest.integrity \notin {"missing", "ok"},
     queue_backlog_present            |-> rest.backlog,
     session_projection_ingest_lagging |-> rest.lagging]
  IN  {code \in DOMAIN found : found[code]}

Broken == {"db_unavailable", "db_error", "schema_missing"}

\* A bug: the evidence gaps do not count.
RuntimeStatusWithoutGaps(v, rest) ==
  IF Warnings(v, rest) \cap Broken # {} THEN "broken"
  ELSE IF Warnings(v, rest) # {} THEN "degraded"
  ELSE "healthy"

\* _doctor_status
RuntimeStatus(v, rest) ==
  IF Warnings(v, rest) \cap Broken # {} THEN "broken"
  ELSE IF Warnings(v, rest) \cup Gaps(v, rest) # {} THEN "degraded"
  ELSE "healthy"

\* _cmd_doctor: the status it shows, of which evidence gaps are no part.
CommandStatus(v, rest) ==
  IF Warnings(v, rest) \cap Broken # {} THEN "broken"
  ELSE IF Warnings(v, rest) # {} \/ rest.sources THEN "degraded"
  ELSE "healthy"

----------------------------------------------------------------------------
(* The doctor at work.                                                     *)

\* What inspect_runtime_doctor reads; infer_runtime_profile reads the manifest
\* a first time.
Reading == <<"profile", "config", "user", "repo", "manifest", "resident">>

NothingSeen ==
  [config |-> {}, block |-> FALSE, user |-> {}, repo |-> {}, manifest |-> {},
   resident |-> {}]

Answered == doctor.next > Len(Reading)

\* The generation on every surface is the same, that of a manifest which is
\* about to be rewritten included, and hooks are registered for the user alone.
InOrder ==
  /\ \E g \in Generations :
       /\ surface["config"].managed = {g}
       /\ surface["user"].managed = {g}
       /\ manifest.state # "missing" /\ manifest.gen = g
       /\ resident = [state |-> "whole", gen |-> {g}]
  /\ surface["repo"].managed = {}

\* Commands and resident runs under way; an installation, which spoils the hooks
\* of the repository and mends the manifest, counts for two.
AtWork ==
  (IF pc = "idle" THEN 0 ELSE IF op.kind = "install" THEN 2 ELSE 1)
    + (IF run.at = "idle" THEN 0 ELSE 1)

Writing == pc \in {"flush", "manifestFlush"} \/ run.at = "flush"

NotAsked ==
  [next |-> 0, raised |-> FALSE, view |-> NothingSeen,
   quiet |-> TRUE, ordered |-> FALSE, writing |-> FALSE, writers |-> 0]

DoctorInit == Init /\ resident = NoState /\ run = NoRun /\ doctor = NotAsked

DoctorStart ==
  /\ doctor.next = 0
  /\ doctor' = [NotAsked EXCEPT !.next = 1,
                                !.ordered = InOrder,
                                !.writing = Writing,
                                !.writers = AtWork]

DoctorEnd == Answered /\ doctor' = NotAsked

Asked == doctor.next > 0 /\ ~Answered

Item == Reading[doctor.next]

\* The state of the file that is read now.
ItemState ==
  CASE Item \in {"profile", "manifest"} -> manifest.state
    [] Item = "resident"                -> resident.state
    [] OTHER                            -> surface[Item].state

See(f, gens) ==
  doctor' = [doctor EXCEPT !.next = @ + 1, !.view[f] = gens]

\* read_config_surface finds the generation by its comment, which the part of a
\* block that was cut may or may not have.
ReadConfig ==
  doctor' = [doctor EXCEPT !.next = @ + 1,
                           !.view.config = surface["config"].managed \cup surface["config"].rest,
                           !.view.block = surface["config"].managed # {}]

Read ==
  /\ Asked
  /\ ItemState # "torn"
  /\ CASE Item = "profile"  -> doctor' = [doctor EXCEPT !.next = @ + 1]
       [] Item = "config"   -> ReadConfig
       [] Item = "manifest" ->
            See(Item, IF manifest.state = "whole" THEN {manifest.gen} ELSE {})
       [] Item = "resident" -> See(Item, resident.gen)
       [] OTHER             -> See(Item, surface[Item].managed)

\* JSONDecodeError, which nothing catches.
ReadRaises ==
  /\ Asked
  /\ ItemState = "torn"
  /\ doctor' = [doctor EXCEPT !.next = Len(Reading) + 1, !.raised = TRUE]

\* What goes on while the doctor reads.  A step after its last look need not be
\* told from the same step after the answer.
Watch ==
  /\ ~Answered
  /\ doctor' =
       IF ~Asked THEN doctor
       ELSE [doctor EXCEPT
               !.quiet = FALSE,
               !.ordered = @ \/ InOrder',
               !.writing = @ \/ Writing',
               !.writers = IF AtWork' > AtWork THEN @ + AtWork' - AtWork ELSE @]

DoctorStep == DoctorStart \/ Read \/ ReadRaises \/ DoctorEnd

DoctorNext ==
  \/ Next /\ UNCHANGED <<resident, run>> /\ Watch
  \/ ResidentStep /\ UNCHANGED vars /\ Watch
  \/ DoctorStep /\ UNCHANGED <<vars, resident, run>>

DoctorSpec == DoctorInit /\ [][DoctorNext]_dvars

----------------------------------------------------------------------------
Fine(rest) ==
  /\ rest.db = "ok" /\ rest.task /\ rest.integrity = "ok"
  /\ ~rest.aliases /\ ~rest.backlog /\ ~rest.lagging

Given == Answered /\ ~doctor.raised

Healthy(rest) == RuntimeStatus(doctor.view, rest) = "healthy"

\* While nothing else happens, the verdict is healthy if and only if everything
\* is in order, and the session that asks has the generation that is: no order
\* of registrations, removals and failures leads to a false alarm, nor to a
\* generation that goes unnoticed.  A block in config.toml that was cut, which
\* the doctor reports and does not count, is left aside.  What the command shows
\* as healthy may lack something, but no generation differs from one that a
\* session of Codex reads.
VerdictRight ==
  Given /\ doctor.quiet =>
    \A rest \in Rests :
      /\ Healthy(rest) /\ doctor.view.block <=>
           /\ InOrder
           /\ Fine(rest)
           /\ rest.session \subseteq surface["user"].managed
      /\ CommandStatus(doctor.view, rest) = "healthy" /\ Candidates # {} =>
           Cardinality(Candidates \cup resident.gen \cup
             IF manifest.state = "whole" THEN {manifest.gen} ELSE {}) = 1

\* With at most one command other than install, or one run of the resident
\* process, at work while the doctor reads, a healthy verdict is true of some
\* moment in that time, though files were read before and after they were
\* written.  An installation, or two at work of which one mends a file and the
\* other spoils another, may lead to it though nothing ever was in order.
HealthyIsTrue ==
  Given /\ doctor.writers <= 1 /\ doctor.view.block =>
    \A rest \in Rests : Healthy(rest) => doctor.ordered

\* With the rest in order to be read, the doctor gives no answer only if a file
\* was being written while it read, or one who wrote was killed or failed before.
DoctorAnswers ==
  doctor.raised => doctor.writing \/ fails > 0 \/ run.killed
=============================================================================
