# A TLA+ development for codex-evidence

codex-evidence records what happens in Codex sessions. Codex starts a *hook
command* for every event; the hook appends one JSON line to a *queue*. *Ingest
runs* (a resident task, a scheduled one or the command line) copy the queue and
other sources to an SQLite *evidence store*. A *maintenance run* backs the
store up and rotates the queue and the log when they grow. Read-only surfaces
(MCP server, context packets, reports, session state, doctor) answer from the
store, and an installer registers hooks and the MCP server with Codex.

All of that is separate processes over shared files, without a daemon that
would order them. What can go wrong is therefore mostly in the order in which
processes that know nothing of each other touch the queue, its watermark, the
rotation state and the store, and in what a process leaves behind when it dies
half-way. That is what the modules here are about.

Paths below are relative to `src/codex_evidence/` of the repository.

## The parts of the system

| part | state | operations | hard about it | must hold |
|---|---|---|---|---|
| hook command (`_hooks/`) | queue line, failure proofs, compact summaries | capture in a worker thread with a timeout, proof of failure, summary at PreCompact, injection at UserPromptSubmit | the timeout races the worker; the lock may be held; a write may be torn; the process may exit with the worker inside the lock | no event disappears without a proof; proofs are true; the hook always ends |
| hook queue (`runtime_resilience.py`, `ingest/adapters.py`) | `events.jsonl`, watermark, rotation state, tail, archives, lock | append, read and watermark, rotate in three phases, recover, prune | deaths between any two file operations, hooks that append at all times, an ingest run that does not take the lock | nothing is lost; the watermark never covers what is not stored; order of capture; everything is stored in the end |
| ingest run (`ingest/adapters.py`, `resident.py`, `core/store_parts/write.py`) | `ingest_run`, `evidence_event`, `ingest_warning`, `quarantine_entry`, search index | start, look up, number, append, quarantine, warn, finish, rebuild the index, retry | every call is its own transaction; any of them may find the database locked; runs overlap; a retry meets what the first attempt left | no line twice; sequences dense; a clean run is complete; counts and reports true |
| evidence store (`core/`) | the tables and their migrations, hook facts, links, search index | the writes above, backfill of facts and links, search with fallback | backfill against inserts; schema versions | facts and links agree with events |
| maintenance (`runtime_resilience.py`) | backups, log archives, summary | checkpoint, integrity check, backup, prune, rotate queue and log | a partial backup displaces a good one; log lines written while the log is emptied; runs overlap and share a temporary file | a good backup is kept for its time; the summary is whole and true; a run ends |
| session state (`_session_state/`) | none of its own | freshness from queue size, watermark and host exports; status of a session | derived from files that a rotation is replacing | never "confirmed" while events of the session wait |
| registration (`_runtime/`) | `hooks.json`, `config.toml`, manifest, profile, backups | install, rollback, register and unregister hooks and MCP | several files written in place, one after the other | foreign hooks survive; files agree on the generation; a backup can be put back |
| doctor (`_runtime_doctor/`) | none | checks of database, surfaces, health | reads the files of registration and of the resident run while they change | reports drift that exists and none that does not |
| alias resolution (`repo_targets.py`) | a registry file of the user | inspect it, resolve a name, count the evidence | the registry is read twice; a ranking with ties, over a search that is limited | more evidence never unmakes an answer; what is wrong with the registry is told |
| context packets (`_lifecycle/`) | none | scope, search, leave out other repositories, recent documents in their stead | the search is limited before rows are left out; each search sees another state of the store | what is shown is of the repository and explained; a packet without warnings lacks nothing |
| MCP, reports, native history | none | searches and their rendering | budgets, clustering | answers agree with the store |
| command line | none | argument parsing | | |

`PROJECT.json` lists the same parts with what is modelled of each, and under
`hazards` the places in the code that are hard to test, each with the
properties that cover it.

## Modules

| module | what it is |
|---|---|
| `HookQueue` | the queue and the files beside it: hooks, ingest runs, maintenance runs, recovery, deaths |
| `EvidenceLog` | what the queue promises as a whole: accept, deliver, discard |
| `HookQueueInd` | the inductive invariant `Durability` and the assumption `Serial` |
| `HookQueueProofs` | type correctness of `HookQueue`; the inductive invariant, and what follows from it |
| `HookQueueLog` | proofs of the refinement of `EvidenceLog`, of the order of capture, of what archives cover, and that no event becomes evidence twice |
| `HookCommand` | the hook process: main thread, worker thread, lock, proofs, summary, injection |
| `HookCommandProofs` | proofs of all safety properties of `HookCommand` from one invariant |
| `IngestRun` | ingest runs against the database, one transaction per step, with retries |
| `IngestRunProofs` | type correctness, dense sequences, no line stored twice, counts, completeness, search |
| `Registration` | install, rollback, register and unregister over the files of Codex and the manifest |
| `Doctor` | the doctor's reads, composed with `Registration` and the resident process |
| `RegistrationProofs` | proofs about both: what the user had is kept, one managed block, agreement, removal, the verdict of the doctor |
| `Maintenance` | housekeeping runs: backup and retention, log rotation, the summary |
| `MaintenanceProofs` | proofs of its safety properties from one invariant |
| `SessionState` | the session-state reports, composed with `HookQueue` |
| `HostFreshness` | the freshness of hosts whose events are replicated |
| `SessionProofs` | proofs about both: the store is a prefix of what was captured, a confirmed report is true, a confirmed answer about hosts lacks nothing, and a host said to lag lacked something |
| `RepoTargets` | the repository a prompt names: registry of aliases, votes of the evidence |
| `ContextPacket` | the packet for a prompt, on top of `RepoTargets` |
| `PacketProofs` | proofs about both: what a packet shows and lacks, and what one more row does to a resolution |
| `MCHookQueue`, `MCHookCommand`, `MCIngestRun`, `MCRegistration`, `MCMaintenance`, `MCSessionState` | definitions that instantiate the above for TLC |

An action whose comment begins with "A bug" is a variant of the action after it
with a plausible mistake in it. It is not part of any specification; it shows
that the property meant to catch the mistake does.

### HookQueue

One record of the model is one line of the file, and also the unit of file
sizes and offsets. A record is the number of the event it carries in the order
of capture, so the model can say which event is where. `NoFile` is the content
of a path without a file: whether the queue path has a file decides several
branches of recovery.

Each step of a process is one call that others can see: one write, rename or
unlink, one line of the ingest loop. `pc[p]` names the call that comes next.
`Fail(p)` covers a killed process and a call that raises: the process ends, the
kernel (or `finally`) releases the lock, and the files are as the calls before
left them. `FailPoints` says where, `MaxFails` how often.

| code | in the model |
|---|---|
| `_append_jsonl_record` | `Capture` (atomic, because it holds the lock) |
| `ensure_hook_queue` | `TouchQueue` (without the lock) |
| `recover_queue_rotation` | `LockRecovery` ... `ClearState` |
| `rotate_hook_queue` | `RotateStart` ... `RotatePrune` |
| `CodexHookQueueAdapter.ingest`, `_ingest_jsonl_file` | `IngestStart` ... `IngestRecord` |
| an open handle on a renamed file | `reader[i].snap`, kept by `Detached` |

`cut` and `merged` are locals of the process in the locked section; there is
only one such process. `stored` is a set of pairs of line number and event,
since the line number is part of what makes two stored events equal in
`has_equivalent_event`. The one-second resolution of archive names is the
choice in `RotateArchive` that overwrites the last archive, if `Clash`.

Left out: the fallback that copies the archive back when neither queue nor
tail exists in phase archived, and the branch for a phase the code never
writes (neither can be reached, since the phase archived is written with the
tail on disk and the tail only leaves the disk by becoming the queue); the
existence test before the watermark is written is one step with the write;
`_write_json` writes beside the file and renames, hence one step; a torn line
(see `HookCommand`); retention 0, with which rotation raises after it has
pruned. Renaming is taken to be atomic and to leave open handles alone, as
POSIX has it.

### HookCommand

A hook stands for the event it captures. The main thread goes `start`, `join`,
then `prove` or `after` and what follows, `exit`, `gone`. The worker goes
`normalize`, `lock`, `append`, `unlock` or `error`, `ended`. The timeout of
`thread.join` may expire at any moment the worker has not ended. `Exit` ends
the worker with the process wherever it is, which is what the interpreter does
with daemon threads, and releases its lock. `AppendError` raises before the
write, within it, which leaves a line without its end, or when all of the record
is in the file, with its newline or without; `Unlock` may raise after a whole
append too. `late` remembers the hooks that were told of an error then. The
rotation is what a hook sees of it: it has the lock, the queue path has no file
for a while, and lines that parse are archived. A line of which a part was
ingested before another record was glued to it stays in the queue in the model,
where the code cuts it at the watermark.

Left out: rendering; the context that is read from the store (any error in it
is `Swallow`); the summary file of each turn, which nothing reads back;
collisions of `_safe_filename`; a thread that cannot be started.

### IngestRun

A source line is a number for its path, line and content, so sources do not
change while runs go on. `Sources` gives the lines of each adapter,
`Malformed` those that do not parse. Every label of a run is one transaction;
each may find the database locked (`AdapterError` inside the adapters, where
anything raised becomes a warning; `Retry`, `Exhaust` or `Break` outside them),
and the run may be killed at any of them. `AppendUncheckpointed` is the commit
whose checkpoint raises. A run of the command line is not retried and reports
nothing when it fails. Schema initialisation is part of `start`; the counts
read after the finish are part of `rebuild`.

The identifier of a run is the same in all its attempts, as in
`run_resident_once`, which passes the same `observed_at` to each.

### Registration

Commands run one at a time; the model has one command in progress, `op`, and the
call it makes next, `pc`. A file is a record: whether it is missing, truncated
(`torn`: JSON that does not parse) or whole, the entries of the user, the
generations of the managed registrations, and whether it ends within a managed
block (`cut`). Of such a block, which the expressions that look for a managed one
pass over since its end marker is missing, there may be a generation (`rest`),
for which the doctor's expression needs no end marker. `write_text` truncates and then writes, hence `Truncate` and
`Flush`, with `WriteRaises` and `Die` in between.

A generation is a hash over the command lines of the hook and of the MCP
server. The model takes the pair itself: each command has one of them as its
argument and the other from the manifest (`Resolved`), which is where the
surfaces come to disagree.

| code | in the model |
|---|---|
| `backup_config` | `Backup` |
| `resolve_runtime_generation_inputs`, `merge_hooks_config`, `patch_codex_config_for_mcp` | `PrepareRegistration` |
| `validate_codex_config_patch` | `Refuse` |
| `remove_managed_hooks`, `remove_managed_mcp_block` | `PrepareRemoval` |
| `write_json`, `write_text` | `Truncate`, `Flush`, `TruncateManifest`, `FlushManifest` |
| `except Exception` around a write | `WriteRaises`, `Restore` |
| `consensus_generation_id` of the doctor | `Consensus` |

The user and Codex edit the same files at any moment, also between what a
command reads and what it writes (no lock is taken): `Edit` is an edit that the
command in progress still sees or leaves alone, `EditAtRisk` one that its write
may undo. `ReadOriginal` is the read of `register_mcp`, which comes before the
backup.

Left out: `--no-backup`; the injection flags and matchers, which are part of a
generation like the command lines; `production-profile.json`, which none of
these commands reads; the records of registrations in the manifest. `recent`,
`added` and `fails` are history.

### Doctor

The doctor opens six files one after the other (`Reading`), and in between
commands of `Registration` and the resident process (`ResidentRead` ...
`ResidentDie`) go on; each of the two truncates a file before it writes it. A
file that does not parse raises (`ReadRaises`). `Warnings`, `Gaps`,
`RuntimeStatus` and `CommandStatus` follow the code condition by condition.
What the verdict takes from other parts comes as a record of `Rests`, since the
verdict only combines it. `quiet`, `ordered`, `writing` and `writers` are
history of what happened while the doctor read.

### Maintenance

| code | in the model |
|---|---|
| `_run_database_housekeeping` under `run_with_locked_retry` | `Check`, `CopySome`, `CopyAll`, `Locked`, `Fail` |
| `_prune_files` | `ListFiles`, `Unlink`, `ListRaises` |
| `rotate_hook_queue`, which `HookQueue` models | `RotateQueue`: with or without a warning |
| `rotate_resident_log` | `LogWithinLimit` ... `LogFails` |
| `_write_json` of the summary | `OpenTmp`, `WriteTmp`, `Replace`, `ReplaceRaises` |

Runs may overlap, because nothing keeps two of them apart, and may be killed at
each label. A run is a number, which stands for the time in the names of its
files; two runs of one second, which would share them, are left out. `inode`
tells a file from its name: a run that has the temporary file open goes on
writing to it after another run has renamed it. `newer` has, for each file, the
files made or written to since it was last written to, which is the order of
modification times that `_prune_files` sorts by; of files of the same time, which
are not newer than each other, any may come first (`Excess`). An archive of the
log is the newest file while it is copied (`CopyLines`) and gets the time of the
last write to the log with the end of the copy (`StatLog`, `TakeTime`), wherefore
the log is among the files of `newer` (`LogFile`). `later` has the files that were
not older than a file at some moment since it was made, which is what its place
among the newest can at worst depend on. `whole`,
`struck`, `later`, `exposed` and `clashed` are history for the properties.

### SessionState and HostFreshness

A report is a sequence of reads: the watermark, whether the queue exists, its
size, the facts in the store. `SessionState` puts each read among the steps of
`HookQueue`, so that a rotation may have the queue moved away at any of them. A
report for a session without events takes a second look at the queue after the
store; a summary takes two and uses the first. The events are numbered in the
order they are appended and have a time of their own, stamped before the lock is
taken. `calm` is history: no rotation was under way and the queue only grew
since the watermark was read. `asof` is the number of events captured at the
look at the queue.

`HostFreshness` reads two aggregates of the store for all hosts and then five
things per host, while the stages of the pipeline move on and the queues are
rotated in three steps (`HostReset`, `HostMove`, `HostPutBack`). The stages
(export, transport, import) are outside of this repository and marked external;
a host ingests and rotates in turn. `lagged` has the hosts that lacked something
at a moment of the report, `zeroed` those whose watermark it read between the
first two steps of a rotation.

### RepoTargets and ContextPacket

The registry is a sequence of entries, of which the loader passes over those
that are no objects (`Invalid`), or a file it warns of (`Unreadable`), or one over
which it raises (`Raising`: JSON that is a list, bytes that are no UTF-8), which
ends the request (`RegistryRaises`) and brings the doctor down as well; aliases are in the normal form in which they are
compared, `Blank` being one that has nothing left. It is read by `Inspect` and
again by `ResolveExplicit`, and the user may edit it in between. A row of
evidence says where it lies, of which kind it is, and whether the words of the
name or of the prompt find it. Rows are in the order of `observed_sequence`, by
which searches are ordered and limited; since every ingest run counts from 0, a
new row may come anywhere (`AddRow`). `Around` is the inclusion of directories,
`LooksLike` what SQL's `LIKE` makes of an underscore in a path. The evidence has
its paths in small letters; a root whose path has capitals, on a file system that
tells them apart, is not found by it (`Folded`, `Seen`), so that no `.git` around it
is either.

Left out: the patterns that take a name out of a prompt (a prompt names a
repository or does not), the check of the lifecycle skill, the rendering and the
cut-off event of a packet.

## What TLC checks

All runs, with their bounds.

| run | instance | properties | shows |
|---|---|---|---|
| `queue_serial` | 2 ingest and 2 maintenance runs that take turns, 5 events, the second malformed, limit 1, retention 1, 3 deaths | `TypeOK` `NoLoss` `MarkSound` `Durability` `ImplementsLog` | nothing is lost, the watermark is sound, the inductive invariant of the proof holds, and files and protocol implement `EvidenceLog` |
| `queue_overlap` | 2 ingest runs and 1 maintenance run that overlap, 3 events, the second malformed, 2 deaths, all archives kept | `QueueOrder` `NothingVanishes` | order of capture; every event is stored, readable or archived |
| `queue_live` | 1 + 1 runs, 5 events, the fourth malformed, 2 deaths, fairness | `NoDuplicateEvidence` `EventuallyStored` `QueueEventuallyBounded` | every event that parses reaches the store, once if no run died; the queue in its place comes back to its limit, or has a malformed line at its head |
| `hook_all` | 2 hooks of any kind, 2 sessions, torn writes, a rotation, fairness | `TypeOK` `NothingSilent` `ProofsTrue` `InjectedSummary` `QueuedReadable` `HookEnds` | no silent loss; a proof beside a readable record is that of a timeout or of an error after the write; the summary injected is of the session and has the event of the hook that took it; what was queued can be read unless it follows a torn append; the hook ends whatever its worker does |
| `ingest_serial` | 2 resident runs in turn, 2 adapters, 3 lines, one malformed, 2 attempts, fairness | `StoredOnce` `WarningsCounted` `RunEnds` | no line is stored twice; counts are right; retries are bounded |
| `ingest_overlap` | a resident and a command-line run that overlap, 3 lines, 2 attempts | `SequencesDense` `CleanRunIsComplete` `ReportedIsSearchable` | numbering, completeness and index |
| `registration` | one entry of the user, two values of each command line, 1 failure, edits at any moment; in other behaviours the doctor among 2 commands or resident runs, from every combination of two generations | `UserEntriesKept` `OneBlock` `AgreeAfterThree` `FullRemoval` `VerdictRight` `HealthyIsTrue` `DoctorAnswers` | nothing of the user is lost; `config.toml` stays removable; surfaces agree after hooks, MCP and hooks again; three removals remove all but the rest of a block that was cut; the doctor is right when nothing moves, and true of some moment otherwise |
| `session` | 4 events, 2 sessions, 2 repositories, stamps out of order, a rotation and a death; or 2 hosts of one event each; or a packet over 3 rows, 3 repositories, 6 registries, 1 edit; or the votes of 5 rows | `ConfirmedIsTrue` `ConfirmedHasAll` `LagExplained` `CardExplained` `TargetAnswered` `WinnerStays` `QuietIsComplete` | what is confirmed lacks nothing; what is said to lag lacked something; what a packet shows is explained, and one without warnings is complete; more evidence never unmakes an answer |
| `maintenance` | 2 runs, at once or in turn, 2 attempts, retention 1; 2 lines of log, or damage to the database; fairness | `BackupsKept` `LogKept` `SummaryTrue` `MaintenanceEnds` | whole backups and archives of the log are kept for their time, and no line is lost but in the gap the code leaves; the summary is whole and true; runs end |

Runs in which the code departs from what one of its tests says (`findings` in
`PROJECT.json` quotes the test):

| run | property | what happens |
|---|---|---|
| `queue_archived` | `PreparedKeepsPending` | a death between the move to the archive and the phase archived makes recovery delete the only tail |
| `queue_stale` | `MalformedKept` | a watermark recorded after a rotation covers lines of the new queue |
| `ingest_retry` | `LockReported` | the retry collides with its own run row |

What else the models show of the code, and which run or property keeps clear of
it:

*Queue.* A death while the merged queue is written loses the new appends
(`runtime_resilience.py:477`; `tests/test_resilience_runtime.py:149` expects them
to survive), so the runs but the violations exclude the label `mergeWrite`. A
death after that and before the tail is deleted makes the next recovery merge
the tail a second time (`OrderedPoints` keeps `queue_overlap` clear of it). Two
maintenance runs that overlap can put the queue out of order as well: one waits
for the lock to rotate while another dies in phase archived, and cuts the queue
without recovering it first. Two ingest runs that overlap store an event twice
without any failure, if the slower one records a lower watermark: the next
rotation keeps lines that are stored, and renumbers them. The runs and theorems
about `QueueOrder` and `NoDuplicateEvidence` name these conditions.

*Hooks.* A hook may leave a failure proof, and no summary or context, beside a
record that is stored later: after a timeout, or if the close of the file or the
unlock raises (`late`). A record appended after a torn one is glued to it
(`_hooks/queue.py:17`; `tests/test_hooks_capture.py:104`), which `QueuedReadable`
excepts. A summary taken while a rotation has the queue moved away has none of
the waiting events (`Summarise`).

*Ingest.* A resident run reports the counts of its last attempt only.

*Registration and doctor.* Registering hooks and then MCP with a new command
leaves the hooks with the generation before, until they are registered again,
which is why `AgreeAfterThree` counts three. `rollback` takes the managed hooks
of the repository out and leaves those of the user and the MCP server, although
`docs/rollback.md` says of it that it removes managed runtime registrations and
records the result. An edit between a command's read and its write is undone
(`added` does not count it). The `doctor` command shows `healthy` when only
evidence gaps are found, where `project_state` of the MCP server says `degraded`.
A block of `config.toml` that was cut after its generation counts as present
(`view.block`), and no removal takes out what is left of it: the expression of
`remove_managed_mcp_block` needs the end marker (`rest` in `FullRemoval`). Installations, or two writers at once, can make the doctor say
`healthy` of files that never agreed (`writers`). The doctor raises for hooks,
manifest or resident files that are torn, the resident process for a torn
manifest.

*Maintenance.* Backups of a damaged database count in the retention. A backup
that is slow may be pruned by another run while it is written, and a partial one
may displace a whole one (`Kept`). Two runs that prune at once may raise, which is
reported as an error of maintenance though the backup is fine (`ListRaises`).
Two runs that publish at once share the temporary file: what they publish may be
torn, or the replacement raises (`clashed`). With retention 0 a run prunes its
own backup. With three runs a backup may be pruned before its time: a run is
locked out and tries again, meanwhile another run prunes the file of the first
attempt and a third has it on its list still, and unlinks the one the second
attempt makes (`later` goes on counting from the first in `Touch`). Lines that
are written between the copy of the log and its emptying are lost (`exposed`). An
archive of the log is as old as the last write to the log, so that the part of one
which a killed run has left is newer than a whole one copied later of the same
log: with retention 1 the whole one is pruned as soon as the log is emptied
(`LogKept` counts the part among the files that are kept in its stead).

*Session state.* With the queue moved away by a rotation its size counts as 0,
and the watermark of an archived queue may exceed the new one: both make a report
say that it is caught up (`calm`). Between `exists()` and `stat()` the file may
go (`QueueGone`). The answer for a session without events joins the facts of the
store with a later look at the queue, and may say "no events, caught up" of a
session whose events are stored by then (`states # {}` in `ConfirmedIsTrue`). The
lines of a host are counted in the file that a rotation left, its sequence
numbers from the beginning, so that a host may seem caught up (`rotated`). A
session without a host is confirmed while other hosts lag (`NoHost`); one whose
host has no profile brings the report down while another host lags (`KeyError` in
`StateFreshness`). A host that has ingested everything is said to lag if its
watermark is read after a rotation has reset it (`zeroed`).

*Targets and packets.* A name that the registry gives to several repositories
falls through to the evidence, which may make out one of the others, although
`tests/test_unattended_runtime.py:502` and `:685` expect nothing to be injected
for an ambiguous name. A repository made out by evidence need not exist any
more, nor lie where its path in small letters says: then the directory itself is
searched instead of the repository around it (`Seen`). The search behind it returns the first rows by a sequence that starts
again with every run, so that what it leaves out is arbitrary (`WinnerStays`
asks for a search that returns all). Aliases of blanks are compared in the
resolution and passed over by the inspection. Recent documents are found by
`LIKE`, in which an underscore of the path matches any character, and are not
scoped again (`LooksLike` in `CardExplained`). The warning that the words of the
prompt did not parse is lost when recent documents stand in, and the search for
these is not guarded (`RecentRaises`).

### Why the bounds are enough

*Hook queue.* A rotation needs a processed record, and is interesting with one
that is not processed behind it. With a limit of one record, rotation happens
at two. Four events leave room for a first rotation, an append while the queue
path is empty, and a second rotation over what recovery put together; the fifth
is one more that arrives then. The malformed one is the second so that it stops
the watermark in the middle; in `queue_live` it is the fourth, so that rotations
come before it and it gets to the head of the queue. One death starts a recovery, the second interrupts
it, the third interrupts the recovery after that. Runs that overlap have many
more interleavings, and three events already give a rotation under a reader.

*Hook command.* One hook reads what another leaves: a torn line, a half-written
summary, a lock. Two hooks cover all of these, and the kinds are all there
unless the property is about two of them.

*Ingest.* Two lines of one adapter are needed for a failure between them, a
second adapter for what follows a failed adapter, two runs for overlap and for
re-reading what is stored, two attempts for a retry.

*Registration and doctor.* Surfaces disagree as soon as each command line has two
values. One failure leaves any file truncated or a block cut; the sequence of
commands around it is not bounded. With the doctor there are two commands or
resident runs (`MaxWriters`), because two already mend one file and spoil another
around a read, and every combination of two generations to begin with stands for
what earlier commands left.

*Maintenance.* Two runs are enough for one to prune, lock out, overtake or
publish beside the other; retention 1 makes each backup count. Two attempts have
one that is tried again and one that gives up; the first to be killed while it
copies the log, and the second to copy it whole, are two runs as well. With a limit of 0 every line
rotates the log; the second is written while the first is rotated.

*Session state.* Four events are enough for a rotation with one event before it,
one in the tail, one appended meanwhile and one after it, and for two sessions of
which one changes its repository and one ends with a stop stamped before its
predecessor. Two hosts are needed for one that moves on, or is rotated, while the
other is read.

*Targets and packets.* Three repositories have one inside another and one that
looks like another, two of them with capitals; six registries have each form of disorder alone; three rows
exceed the limit of a packet (2), five that of a search (4). The packet part
bounds rows by three, because the votes are counted in a part of their own.

`queue_serial` and `queue_live` stop deaths at the two calls where the code is
known to lose records (`markArchived`, `mergeWrite`); the run `queue_archived`
shows the first of those. `NoDuplicateEvidence` excepts what follows a
death and what stands behind a malformed line: a run that stored lines and died
before its watermark, or stopped it at the malformed line, leaves a lower one,
the next rotation cuts there, and the lines it keeps are stored again under new
numbers. `queue_overlap` keeps all archives, since `NothingVanishes` looks into
them, and has no clash of names. `UserEntriesKept` excepts the hooks of the
repository after an interruption, because install and rollback make no backup.

Deadlock is checked in the queue, hook, registration and session runs: the
queue can always be rotated or ingested again, a command always be started, a
report always be asked for. Ingest and maintenance runs are finite, hence
`CHECK_DEADLOCK FALSE` there.

`TypeOK` of `HookQueue` and of `HookCommand` is checked and proved, and so is
`Durability`; those of the other modules, and the other inductive invariants, are
proved and not part of a run.
`Registration`, `Maintenance` and `SessionState` have behaviours of several
kinds in one run, chosen by `part`: what the kinds share is in the module, and
what they do not share is not multiplied.

### Fairness

*Hook queue.* Strong fairness of the start and of the steps of each run. The
resident process and the scheduled maintenance task are started again and
again, so each start happens although the other kind of run is under way from
time to time (in serial deployments the start is enabled only between them,
hence *strong*). A started run goes on by itself, and waiters of `flock` are
served although the lock is taken again and again. Nothing is assumed of hooks
(`Capture`, `TouchQueue`) or of deaths.

*Hook command.* Weak fairness of the main thread only: it runs, and its timer
expires. Nothing is assumed of the worker, of the rotation or of the lock,
because the point of the timeout is not to depend on them.

*Maintenance.* Weak fairness of a run's steps, the lock-outs and a failed rotation
of the log included (`Advance(r) \/ Locked(r) \/ LogFails(r)`): whether the
database ever gets unlocked is not assumed, only that the attempt ends, and the
copy of the log goes on or raises, as it must when another run has pruned the
archive. A run waits for nothing but the lock of the log, which each run
releases, killed ones included.

*Ingest.* Weak fairness of the steps of a run that was begun: a call to SQLite
returns, or raises after `busy_timeout`. Which of the outcomes it has is not
assumed, so that a run may fail at every step.

## What TLAPS proves

For any number of runs, events, lines, attempts, entries, failures and for any
limits:

| theorem | says | needs |
|---|---|---|
| `HookQueueProofs!TypeCorrect` | `[]TypeOK`, with the lock held by exactly the process in a locked section | nothing |
| `HookQueueProofs!AlwaysDurable` | `[]Durability`, the inductive invariant | `Serial` |
| `HookQueueProofs!NothingLost` | `[]NoLoss` | `Serial` |
| `HookQueueProofs!WatermarkSound` | `[]MarkSound` | `Serial` |
| `HookQueueLog!QueueIsALog` | `Spec => ImplementsLog`: files and protocol implement `EvidenceLog` | `Serial` |
| `HookQueueLog!ArchivesCover` | `[]NothingVanishes`, all runs overlapping | no clash of names, no archive pruned, no death at `mergeWrite` |
| `HookQueueLog!OrderIsKept` | `[]QueueOrder` | `Serial` or one maintenance run at a time; no death at `dropMerged` |
| `HookQueueLog!EvidenceIsOnce` | `[]NoDuplicateEvidence` | `Serial`, one ingest run at a time |
| `HookCommandProofs!TypeCorrect` | `[]TypeOK`, and the lock is never left behind | nothing |
| `HookCommandProofs!NoHookIsSilent` | `[]NothingSilent` | nothing |
| `HookCommandProofs!ProofsNeverLie` | `[]ProofsTrue` | nothing |
| `HookCommandProofs!InjectedIsSummary` | `[]InjectedSummary` | nothing |
| `HookCommandProofs!QueuedIsReadable` | `[]QueuedReadable` | nothing |
| `IngestRunProofs!TypeCorrect` | `[]TypeOK` | nothing |
| `IngestRunProofs!NumbersAreDense` | `[]SequencesDense`, overlapping runs included | nothing |
| `IngestRunProofs!LinesStoredOnce` | `[]StoredOnce` | `Exclusive` |
| `IngestRunProofs!CountIsRight` | `[]WarningsCounted`, overlapping runs included | nothing |
| `IngestRunProofs!NothingLeftOut` | `[]CleanRunIsComplete`, overlapping runs included | nothing |
| `IngestRunProofs!ReportIsSearchable` | `[]ReportedIsSearchable`, overlapping runs included | nothing |
| `RegistrationProofs!TypeCorrect` | `[]TypeOK` | nothing |
| `RegistrationProofs!EntriesKept` | `[]UserEntriesKept`, with edits of the user at any moment | nothing |
| `RegistrationProofs!BlockIsOne` | `[]OneBlock` | nothing |
| `RegistrationProofs!ThreeAgree` | `[]AgreeAfterThree` | nothing |
| `RegistrationProofs!RemovalIsFull` | `[]FullRemoval` | nothing |
| `RegistrationProofs!NoAnswerIsExplained` | `DoctorSpec => []DoctorAnswers` | nothing |
| `RegistrationProofs!HealthyWasTrue` | `DoctorSpec => []HealthyIsTrue` | nothing |
| `RegistrationProofs!QuietVerdictRight` | `DoctorSpec => []VerdictRight` | nothing |
| `MaintenanceProofs!BackupsKeptInTime` | `[]BackupsKept`, overlapping runs included | nothing |
| `MaintenanceProofs!LogLosesNoMore` | `[]LogKept`, overlapping runs included | nothing |
| `MaintenanceProofs!SummaryIsTrue` | `[]SummaryTrue`, overlapping runs included | nothing |
| `SessionProofs!StoreIsInTurn` | `SessionSpec => []` the store has the first `n` events captured, as far as they parse, for some `n` | `Serial` |
| `SessionProofs!ConfirmedWasTrue` | `SessionSpec => []ConfirmedIsTrue` | `Serial` |
| `SessionProofs!ConfirmedLacksNothing` | `HostSpec => []ConfirmedHasAll` | nothing |
| `SessionProofs!LaggingIsExplained` | `HostSpec => []LagExplained` | nothing |
| `PacketProofs!CardIsExplained` | `PacketSpec => []CardExplained` | nothing |
| `PacketProofs!TargetIsAnswered` | `PacketSpec => []TargetAnswered` | `PacketLimit > 0` |
| `PacketProofs!QuietPacketIsComplete` | `PacketSpec => QuietIsComplete` | nothing |
| `PacketProofs!MoreEvidenceKeepsTheWinner` | `PacketSpec => WinnerStays` | nothing |

`Serial` says that ingest and maintenance runs do not overlap and that no run
dies at the two calls named above. Both are needed: the runs of the second table
show what happens without them. Several ingest runs may overlap,
and several maintenance runs.

*Nothing is lost.* `NoLoss` alone is not inductive: the step that empties the
queue keeps it only because the records are in the tail, which is a fact about
earlier steps. `Durability` says for each step what the steps before have
established: which phase is on disk at which label (`PhaseOfLabel`), that the
watermark and the one to be restored cover stored events only (`MarksSound`),
that the tail holds what is about to be archived and is not stored
(`TailOfRotation`), that the last archive is covered by the store and the tail
as long as recovery may strip it from the queue (`ArchiveCovered`), that what a
reader will record is stored (`ReadersSound`), and that the two kinds of run
are apart (`Apart`). There is one lemma per action. A step of the lock holder
cannot disturb what is said of another process at a locked label, because
`TypeOK` allows only one (`HolderStep`); steps outside the locked section leave
tail and phase alone (`OutsideStep`). TLC checks `Durability` first, in
`queue_serial`.

*The log.* That files and protocol implement `EvidenceLog` follows from
`Durability`, step by step. What is recoverable depends on the queue, the tail and
the merge, on whether the phase on disk is archived, and on whether someone is
about to write the phase or the merge (`RecoverableKept`). Most steps change
neither (`Unseen`), a capture accepts, the record of an event delivers, and the
steps that drop a copy of what is stored discard.

*What archives cover.* Without `Serial` the watermark may cover what was never
stored, so that `Durability` does not hold. What remains is that no step drops a
record from all files at once: every captured event that parses is in the queue,
the tail, the merge, an archive or the store (`Capturable \subseteq Kept`). The one
place that would overwrite the queue is the restoration of the tail, and the
queue path has no record then (`EmptyQueue`).

*Order.* `Ordered` says of the queue, the tail and the merge that each lists
captured events in the order of capture, and that at the labels where the one is
put before the other all events of the one precede those of the other
(`RestBefore`). Where the tail is cut from the queue, it is in order because it is
a part of it; that no second maintenance run cuts at a moment where the tail on
disk is needed is `CutApart`.

*Evidence once.* While no run has failed, lines are renumbered only by a rotation
that finds everything before its watermark stored and moves exactly that away, so
that the events behind it are not stored yet, under any number. `Exact` says so
at each label: stored lines are those before the reader's position
(`ReadersExact`), lines of the queue have the numbers under which they are stored
(`LinesKept`), the events in the tail are not stored (`RestFresh`), and there is
nothing to recover (`NothingToMend`). It is inductive together with `Durability`.

*Hook command.* All properties follow from `CaptureInv`. It says what the label
of the main thread tells of its worker, the result and the status (`Agrees`),
what each line of the queue is made of (`LinesSound`: a hook that was told
"queued" wrote a line, the torn part before it is of a hook that failed), that
each hook that is gone is accounted for (`Accounted`), and what a summary file
may have (`Summarised`).

*Sequences.* That `next_observed_sequence` returns a natural number at all
depends on what is in the table, so type correctness and numbering are proved
together (`TypedAndNumbered`): the events of a run are finite in number,
numbered from 0 without a gap, and between the look-up of the number and the
append the number is still that of the events, because only the run itself
inserts under its identifier.

*Stored once.* With `Exclusive`, at most one run is active, and the line a run
is about to number or to append is not stored (`OneWriter`).

*Counts, completeness, search.* `Counted` adds to `WarningsCounted` that rows are
only counted for runs that have one, and what a run holds in its locals of them.
`CleanSoFar` says of a run without warnings that each line it has passed over, in
this attempt or before, is stored; the step that finishes a run then only has to
look at the count. `SearchSound` says that from the rebuild on the index has the
events of the run, and `IndexStored` that it has nothing else, so that another
run's rebuild, which takes what is stored, cannot take them out.

*Registration.* Between the truncation of a surface and the end of the write the
file has nothing, so `UserEntriesKept` alone is not inductive. `Guarded` adds
where the entries are at that moment: from the backup on, all of them are in the
backups (`SavedFirst`), so whatever is stored at that surface loses nothing
(lemma `SavedStore`, which serves the truncation, the write, a part of it and
the restoration); a file that does not parse has none (`TornIsEmpty`). For
`OneBlock` it adds that no content read, saved or about to be written has a
whole block and the rest of one, and that only a file that ends within a block has
a rest of it, so that removals leave that alone (`OneBlockEach`).

For `AgreeAfterThree` the history of commands is not enough: `WiringTold` says for
each of the last commands that ended well what it wrote into its surface and into
the manifest, and `Prepared` the same of what is about to be written; edits of the
user leave managed registrations alone. `RemovalTold` does so for removals.

*Doctor.* It reads while others write, so its invariants speak of what was read in
relation to what has happened since. That it raises only with a reason rests on
`TornTold`: a torn file belongs to a writer that is at work, or to one that was
interrupted, and both are in the history the moment the doctor reads it
(`Watched`). A verdict while nothing moves is right because what was read is
still there (`Fresh`). That a healthy verdict is true of some moment is the
contrapositive of `NotYet`: as long as files have never been in order since the
doctor began, one of three reasons stands — one file is wrong that is still to be
read (`OneWrong`), or was wrong when it was read, or the manifest does not
fit what was read (`ManifestWrong`). One writer can put right one file at a time,
which is why it needs `writers <= 1`.

*Maintenance.* The invariant links each file with the lists that runs have made
of its directory: whoever has a file on its list saw as many that were not older
as are to be kept, and those are in its history (`DoomedInTime`, on which
`BackupsTold` and `LogCopied` rest). For of two files that are there one is newer,
or neither and the history has it (`AgesCounted`), also where an archive takes the
time of the log, and then falls behind others at once. For the summary it says
what the run's locals tell of its backup (`Told`) and that, unless two runs have
published at once, the temporary file has at most one writer
(`PublishedAlone`).

*Session state.* A confirmed report has to be the answer that was right at one
moment, so a store with a gap in it would not do. `InTurn` rules gaps out: in the
queue, the tail and the merge no event stands before one that was captured earlier
unless that is stored (`Backed`, `FilesBacked`), and a reader has stored the lines
before its position as far as they parse (`LinesRead`); so whatever it stores next
had all before it stored (`StoredInTurn`). What a hook appends has all before it
in the files or in the store by `NoLoss`. `ReportSound` follows a report: while it
is between watermark and size the lines it read the watermark of stay covered,
since the queue only grows or the report is no longer calm (`MarkCovers`); if the
size is not beyond them and no rotation has the queue, everything captured is
stored (`CaughtIsCovered`), and stays so until the facts are read
(`FreshnessTrue`). What is made of a store without gaps is what the reference
calls current (`AnswerIsCurrent`), for which a finite set has to have a latest
event (`SomeIsLatest`). That is induction over data, had from the library in a
form without an operator parameter: the strict subsets of a finite set are
well-founded, and a well-founded relation has a minimal element.

*Hosts.* That a confirmed answer lacks nothing does not depend on the order in
which a report reads, nor on that in which the stages move: what was read of the
last stage is not more than what it has come to since (`ReadIsPast`), what was
captured is not more than the lines that were counted unless the queue was
rotated (`LinesCount`), and each check in between passes the number on. That a
lag is explained does depend on the order of the reads. While a host lacks nothing
all its stages have the number captured and its watermark covers its lines; so the
watermark, which is read first, is not less than the lines counted after it, as
nothing is captured meanwhile and a rotation only takes lines away (`Looked`), and
what is read of the stages later is the number captured, which is not less than
the lines (`Behind`).

*Packets.* A request reads the registry twice and the evidence up to three times
while both change, so `PacketInv` keeps what each read has settled until the card
is made: the scope is a directory around the repository made out, and no reason
for leaving anything out was given yet (`ScopeSettled`); a repository backed by a
state document keeps that document, since rows only come in (`BackingStays`);
as long as nothing was edited, all that is wrong with the registry is among the
warnings, and its reading does not raise (`RegistryTold`).

All four theorems then rest on what the searches return. Each takes the rows at
some places in an order (`RowsAt`; `Recent` by rank). The number of elements
before one in a finite ordered set takes each value from 0 to n - 1 once
(`RanksGrow`, `RankIsTaken`), so that every row is returned once and no other
(`PlacesAreTaken`, `RowsAtAre`, `SearchedAre`). Hence what is not limited is
complete (`QuietStep`), and the search for recent documents, which takes in all
that lie in the scope, finds the one that backs the repository
(`BackedHasRecent`). With limit 0 a packet shows nothing, whence the condition of
`TargetIsAnswered`; the code's default is 5. A quiet packet has the registry in
order because each fault `InOrder` excludes is one that `RegistryWarnings` names
(`NothingWrong`): two entries, or two places of one, that share an alias give
either two roots of one alias or a repetition.

*One more row.* `WinnerStays` compares the evidence with and without a row, which
may stand anywhere. Counts of rows of a kind, and so the three parts of a score,
are cardinalities of sets of places, and removing a place shifts the others
without a clash (`RemoveCount`). A search that is not limited passes each count on
(`SearchedMore`), so only the score of the row's own repository changes, and
grows in weight and count (`ScoresGrow`). The ranking is a strict total order
of the candidates (`FirstIs`), which a growing score only climbs
(`GrownStaysAhead`); the margin to the second does not shrink
(`GrownStaysClear`); and if the row is the first by which a repository names
itself, that repository is ranked alone (`LeaderStays`).

## Only model-checked

Liveness (`EventuallyStored`, `QueueEventuallyBounded`, `HookEnds`, `RunEnds`,
`MaintenanceEnds`) is out of the prover's reach, as is everything about ENABLED.
Every other property of a passing run is stated by a theorem above. That the
constants have the form the theorems need (`RepoTargetsAssumption` and the
like: finitely many repositories, a registry that cannot be read or a list of
entries with a root and aliases) TLC evaluates in every run.

## Not modelled

Regular expressions, hashes and rendering: the properties do not tell their
results apart. The MCP server, native history and the command line keep no
state: one request, one answer. The backfill checkpoints are written by tests
only. The scripts of the repository check its documents and are no part of the
running system. Of parts that are modelled, what is left out stands under each
module above; `PROJECT.json` lists it as `partly`. Three hazards have no property.
That a resident run reports its last attempt only is what its code says, and
nothing in the repository claims more of it. That the archive of one rotation may
replace that of another in the same second (`Clash`) loses no event, since what is
archived is stored. That the look-up of a host without a profile raises
(`StateFreshness`) does not depend on any history.

## Plan

1. The queue, the hook command, ingest runs and registration: done, with the
   proofs above.
2. Maintenance, session state and host freshness, the doctor, targets and packets:
   done, with the proofs above.
3. Left: `FactBackfill`, hook facts and links filled in for events stored by older
   versions, against inserts; the clustering of reports as operators.

## Running it

    tlc -config HookQueueSerial.cfg MCHookQueue.tla
    tlapm HookQueueProofs.tla

`PROJECT.json` names the module and configuration of every run.
