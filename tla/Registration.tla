---------------------------- MODULE Registration ---------------------------
(***************************************************************************)
(* Installation and registration of codex-evidence: the commands install,  *)
(* rollback, register-hooks, unregister-hooks, register-mcp and            *)
(* unregister-mcp, run one at a time over files that the user and Codex    *)
(* edit as well: hooks.json of the repository and of the user, config.toml *)
(* and the install manifest.  Every file is truncated and then written, so *)
(* a command may die or fail in between.  Backups are made (no             *)
(* --no-backup).                                                           *)
(*                                                                         *)
(* A registration carries the runtime generation: a hash over the command  *)
(* lines of the hook and of the MCP server, here the two themselves.  A    *)
(* command is given one of them and takes the other from the manifest.     *)
(***************************************************************************)
EXTENDS Integers, Sequences, FiniteSets

CONSTANTS
  Entries,       \* hooks and tables of the user
  HookCommands,  \* values of --hook-command, as resolved
  McpCommands,   \* values of --mcp-command, as resolved
  DefaultHook,   \* what resolve_runtime_generation_inputs takes
  DefaultMcp,    \*   without a manifest
  NoArg,         \* the argument of a command without one
  MaxFails       \* bound: number of commands that die or fail in a write

Surfaces == {"repo", "user", "config"}

Generations == [hook : HookCommands, mcp : McpCommands]

Commands ==
  [kind : {"install", "hooks"}, arg : HookCommands]
    \cup [kind : {"mcp"}, arg : McpCommands]
    \cup [kind : {"rollback", "unhooks", "unmcp"}, arg : {NoArg}]

NoCommand == [kind |-> "none", arg |-> NoArg]

ASSUME RegistrationAssumption ==
  /\ DefaultHook \in HookCommands
  /\ DefaultMcp \in McpCommands
  /\ MaxFails \in Nat

VARIABLES
  surface,   \* .codex/hooks.json, ~/.codex/hooks.json and config.toml
  backups,   \* for each, the user's entries found in some backup of it
  manifest,  \* install-manifest.json
  op,        \* the command that runs
  pc,        \* what it does next
  text,      \* local: what it writes to its surface
  saved,     \* local: its backup, Missing if there was nothing to save
  inputs,    \* local: runtime_inputs
  added,     \* history: the entries the user has put into each surface, but
             \*   those put there after a command read it and before it wrote
  recent,    \* history: the last three commands, registrations of hooks and
             \*   MCP in turn or removals, if they ended normally
  fails      \* failures so far

files  == <<surface, backups, manifest>>
locals == <<text, saved, inputs>>
vars   == <<surface, backups, manifest, op, pc, text, saved, inputs,
            added, recent, fails>>

----------------------------------------------------------------------------
(* Operators.                                                              *)

\* A file: the user's entries, the generations of the managed registrations
\* in it, whether it ends within a managed block, and the generation that the
\* rest of such a block may have.
Missing == [state |-> "missing", entries |-> {}, managed |-> {}, cut |-> FALSE,
            rest |-> {}]

\* A truncated hooks.json does not parse; a truncated config.toml is read as
\* an empty one.
Truncated(f) ==
  [Missing EXCEPT !.state = IF f = "config" THEN "whole" ELSE "torn"]

Defaults == [hook |-> DefaultHook, mcp |-> DefaultMcp]

NoManifest == [state |-> "missing", gen |-> Defaults]

Target(c) ==
  CASE c.kind \in {"install", "rollback"} -> "repo"
    [] c.kind \in {"hooks", "unhooks"}    -> "user"
    [] c.kind \in {"mcp", "unmcp"}        -> "config"

File == surface[Target(op)]

\* register_mcp reads config.toml before it is backed up, the others after.
Original == IF op.kind = "mcp" THEN text ELSE File

Registers(c) == c.kind \in {"install", "hooks", "mcp"}

\* register_mcp and register_global_hooks put their backup back on an error.
Restores(c) == c.kind \in {"hooks", "mcp"}

BacksUp(c) == c.kind \notin {"install", "rollback"}

\* resolve_runtime_generation_inputs
Resolved(c) ==
  IF c.kind = "mcp" THEN [manifest.gen EXCEPT !.mcp = c.arg]
  ELSE [manifest.gen EXCEPT !.hook = c.arg]

\* merge_hooks_config, patch_codex_config_for_mcp
Merged(f, gen) == [f EXCEPT !.state = "whole", !.managed = {gen}]

\* A bug: nothing is taken out.
RemovedNothing(f) == f

\* remove_managed_hooks, remove_managed_mcp_block: what is left of a block
\* without its end marker is not found, and stays.
Removed(f) == [f EXCEPT !.managed = {}]

Goto(label) == pc' = label

Store(f, content) == surface' = [surface EXCEPT ![f] = content]

\* What recent becomes: one of the same kind as the last, and a registration
\* after a removal or the reverse, begins a new history; an installation
\* empties it.
Recorded(c) ==
  LET kinds == IF Registers(c) THEN {"hooks", "mcp"}
               ELSE {"rollback", "unhooks", "unmcp"}
      alike == /\ recent # <<>>
               /\ recent[Len(recent)].kind \in kinds \ {c.kind}
      kept  == IF Len(recent) = 3 THEN Tail(recent) ELSE recent
  IN  IF c.kind \notin kinds THEN <<>>
      ELSE IF alike THEN Append(kept, c) ELSE <<c>>

\* The process ends, and its local variables with it.
Exit ==
  /\ Goto("idle")
  /\ op' = NoCommand
  /\ text' = Missing
  /\ saved' = Missing
  /\ inputs' = Defaults

Done   == Exit /\ recent' = Recorded(op)
Failed == Exit /\ recent' = <<>>
Continue(label) == Goto(label) /\ UNCHANGED <<op, locals, recent>>

----------------------------------------------------------------------------

Init ==
  /\ surface = [f \in Surfaces |-> Missing]
  /\ backups = [f \in Surfaces |-> {}]
  /\ manifest = NoManifest
  /\ op = NoCommand
  /\ pc = "idle"
  /\ text = Missing
  /\ saved = Missing
  /\ inputs = Defaults
  /\ added = [f \in Surfaces |-> {}]
  /\ recent = <<>>
  /\ fails = 0

\* The command has read the surface, or saved what a restoration puts back,
\* and may write it yet.
Handling(f) ==
  /\ \/ pc \in {"write", "flush", "restore"}
     \/ pc = "prepare" /\ BacksUp(op)
  /\ Target(op) = f

\* The user, or Codex for config.toml, adds an entry: no lock keeps them from
\* doing so while a command runs.
Edit(f, x) ==
  /\ ~Handling(f)
  /\ surface[f].state # "torn"
  /\ x \notin added[f]
  /\ Store(f, [surface[f] EXCEPT !.state = "whole", !.entries = @ \cup {x}])
  /\ added' = [added EXCEPT ![f] = @ \cup {x}]
  /\ UNCHANGED <<backups, manifest, op, pc, locals, recent, fails>>

\* One that is added now may be overwritten; added does not count it.
EditAtRisk(f, x) ==
  /\ Handling(f)
  /\ surface[f].state # "torn"
  /\ x \notin added[f]
  /\ Store(f, [surface[f] EXCEPT !.state = "whole", !.entries = @ \cup {x}])
  /\ UNCHANGED <<backups, manifest, op, pc, locals, added, recent, fails>>

\* The user removes a file that no command can read.
Clear ==
  /\ pc = "idle"
  /\ \/ \E f \in Surfaces :
          /\ surface[f].state = "torn"
          /\ Store(f, Missing)
          /\ UNCHANGED manifest
     \/ /\ manifest.state = "torn"
        /\ manifest' = NoManifest
        /\ UNCHANGED surface
  /\ UNCHANGED <<backups, op, pc, locals, added, recent, fails>>

Start(c) ==
  /\ pc = "idle"
  /\ op' = c
  /\ Goto(IF c.kind = "mcp" THEN "read" ELSE IF BacksUp(c) THEN "backup" ELSE "prepare")
  /\ UNCHANGED <<files, locals, added, recent, fails>>

----------------------------------------------------------------------------
(* The steps of a command.                                                 *)

ReadOriginal ==
  /\ pc = "read"
  /\ text' = File
  /\ Goto("backup")
  /\ UNCHANGED <<files, op, saved, inputs, added, recent, fails>>

\* A bug: the content is kept in memory only.
BackupInMemory ==
  /\ pc = "backup"
  /\ Registers(op) \/ File.state # "missing"
  /\ saved' = File
  /\ Goto("prepare")
  /\ UNCHANGED <<files, op, text, inputs, added, recent, fails>>

\* backup_config finds a name that is not in use; a torn file is copied too.
Backup ==
  /\ pc = "backup"
  /\ Registers(op) \/ File.state # "missing"
  /\ backups' = [backups EXCEPT ![Target(op)] = @ \cup File.entries]
  /\ saved' = File
  /\ Goto("prepare")
  /\ UNCHANGED <<surface, manifest, op, text, inputs, added, recent, fails>>

\* Nothing to roll back or to unregister.
NothingThere ==
  /\ pc = IF BacksUp(op) THEN "backup" ELSE "prepare"
  /\ ~Registers(op)
  /\ File.state = "missing"
  /\ Done
  /\ UNCHANGED <<files, added, fails>>

\* read_json raises for a surface or a manifest that does not parse.
CannotRead ==
  /\ \/ pc = "prepare" /\ File.state = "torn"
     \/ pc = "prepare" /\ Registers(op) /\ manifest.state = "torn"
  /\ Failed
  /\ UNCHANGED <<files, added, fails>>

\* A bug: the patched configuration is not validated.
PrepareUnvalidated ==
  /\ pc = "prepare"
  /\ Registers(op)
  /\ File.state # "torn"
  /\ manifest.state # "torn"
  /\ inputs' = Resolved(op)
  /\ text' = Merged(Original, inputs')
  /\ Goto("write")
  /\ UNCHANGED <<files, op, saved, added, recent, fails>>

PrepareRegistration ==
  /\ pc = "prepare"
  /\ Registers(op)
  /\ File.state # "torn"
  /\ manifest.state # "torn"
  /\ ~Original.cut
  /\ inputs' = Resolved(op)
  /\ text' = Merged(Original, inputs')
  /\ Goto("write")
  /\ UNCHANGED <<files, op, saved, added, recent, fails>>

\* validate_codex_config_patch: the rest of an earlier block is in the way.
Refuse ==
  /\ pc = "prepare"
  /\ op.kind = "mcp"
  /\ manifest.state # "torn"
  /\ Original.cut
  /\ Goto("restore")
  /\ UNCHANGED <<files, op, locals, added, recent, fails>>

PrepareRemoval ==
  /\ pc = "prepare"
  /\ ~Registers(op)
  /\ File.state = "whole"
  /\ text' = Removed(File)
  /\ Goto("write")
  /\ UNCHANGED <<files, op, saved, inputs, added, recent, fails>>

\* Opening the file for writing truncates it.
Truncate ==
  /\ pc = "write"
  /\ Store(Target(op), Truncated(Target(op)))
  /\ Goto("flush")
  /\ UNCHANGED <<backups, manifest, op, locals, added, recent, fails>>

Flush ==
  /\ pc = "flush"
  /\ Store(Target(op), text)
  /\ IF Registers(op) THEN Continue("manifest") ELSE Done
  /\ UNCHANGED <<backups, manifest, added, fails>>

\* What a write of config.toml that was cut within the block leaves.
Interrupted(part) == [text EXCEPT !.managed = {}, !.cut = TRUE, !.rest = part]

\* The disk is full, say.  A part of config.toml, with a beginning of the block
\* and no end, may have been written, with the comment that has the generation
\* or without it; a part of hooks.json does not parse.  A write that raises after
\* its last byte leaves what Flush and Die leave.
WriteRaises ==
  /\ pc = "flush"
  /\ fails < MaxFails
  /\ fails' = fails + 1
  /\ \/ UNCHANGED surface
     \/ /\ op.kind = "mcp"
        /\ \E part \in {{}, text.managed} : Store("config", Interrupted(part))
  /\ IF Restores(op) /\ saved.state # "missing"
     THEN Continue("restore")
     ELSE Failed
  /\ UNCHANGED <<backups, manifest, added>>

\* The backup is copied back, and the exception raised again.
Restore ==
  /\ pc = "restore"
  /\ Store(Target(op), saved)
  /\ Failed
  /\ UNCHANGED <<backups, manifest, added, fails>>

\* manifest_with_runtime read the manifest; write_json truncates it.
TruncateManifest ==
  /\ pc = "manifest"
  /\ manifest' = [manifest EXCEPT !.state = "torn"]
  /\ Goto("manifestFlush")
  /\ UNCHANGED <<surface, backups, op, locals, added, recent, fails>>

\* A bug: an older manifest keeps its runtime_generation_inputs.
FlushManifestOld ==
  /\ pc = "manifestFlush"
  /\ manifest' = [manifest EXCEPT !.state = "whole"]
  /\ IF op.kind = "install" THEN Continue("profile") ELSE Done
  /\ UNCHANGED <<surface, backups, added, fails>>

FlushManifest ==
  /\ pc = "manifestFlush"
  /\ manifest' = [state |-> "whole", gen |-> inputs]
  /\ IF op.kind = "install" THEN Continue("profile") ELSE Done
  /\ UNCHANGED <<surface, backups, added, fails>>

\* production-profile.json, which none of these commands reads, is not modelled.
WriteProfile ==
  /\ pc = "profile"
  /\ Done
  /\ UNCHANGED <<files, added, fails>>

\* The command is killed, or a call outside its handlers raises.
Die ==
  /\ pc # "idle"
  /\ fails < MaxFails
  /\ fails' = fails + 1
  /\ Failed
  /\ UNCHANGED <<files, added>>

Step ==
  \/ ReadOriginal \/ Backup \/ NothingThere \/ CannotRead \/ PrepareRegistration \/ Refuse
  \/ PrepareRemoval \/ Truncate \/ Flush \/ WriteRaises \/ Restore
  \/ TruncateManifest \/ FlushManifest \/ WriteProfile

Next ==
  \/ \E f \in Surfaces, x \in Entries : Edit(f, x) \/ EditAtRisk(f, x)
  \/ Clear
  \/ \E c \in Commands : Start(c)
  \/ Step
  \/ Die

Spec == Init /\ [][Next]_vars

----------------------------------------------------------------------------
(* What the doctor finds.                                                  *)

\* The generations on the surfaces a session of Codex reads.
Candidates == surface["config"].rest \cup UNION {surface[f].managed : f \in Surfaces}

\* consensus_generation_id: all surfaces that have a generation agree.
Consensus == Cardinality(Candidates) = 1

----------------------------------------------------------------------------
(* Properties.                                                             *)

Files ==
  [state : {"missing", "torn", "whole"}, entries : SUBSET Entries,
   managed : SUBSET Generations, cut : BOOLEAN, rest : SUBSET Generations]

Manifests == [state : {"missing", "torn", "whole"}, gen : Generations]

Labels == {"idle", "read", "backup", "prepare", "write", "flush", "restore", "manifest",
           "manifestFlush", "profile"}

\* Every variable has its type, and a command runs exactly if there is a step
\* to do.
TypeOK ==
  /\ surface \in [Surfaces -> Files]
  /\ backups \in [Surfaces -> SUBSET Entries]
  /\ manifest \in Manifests
  /\ op \in Commands \cup {NoCommand}
  /\ pc \in Labels
  /\ pc = "idle" <=> op = NoCommand
  /\ text \in Files
  /\ saved \in Files
  /\ inputs \in Generations
  /\ added \in [Surfaces -> SUBSET Entries]
  /\ recent \in Seq(Commands) /\ Len(recent) <= 3
  /\ fails \in 0 .. MaxFails

\* What the user, or Codex, has put into a surface is there or in a backup of
\* it, after whatever commands, however they ended, and also if it was put there
\* while a command ran, but for the time between what the command reads or saves
\* and what it writes.  The hooks of the repository, of which no backup is made,
\* are safe unless a command was interrupted.
UserEntriesKept ==
  \A f \in Surfaces :
    \/ added[f] \subseteq surface[f].entries \cup backups[f]
    \/ f = "repo" /\ (fails > 0 \/ (pc = "flush" /\ ~BacksUp(op)))

\* No command writes a managed block into a config.toml that has the rest of
\* one, from which a later unregister-mcp would remove up to the end of the
\* new one, with the tables of the user in between.
OneBlock == ~(surface["config"].cut /\ surface["config"].managed # {})

\* A file that does not parse has nothing of the user, and is not written.
TornIsEmpty ==
  /\ \A f \in Surfaces : surface[f].state = "torn" => surface[f].entries = {}
  /\ saved.state = "torn" => saved.entries = {}
  /\ pc \in {"write", "flush"} => text.state # "torn"

\* From the backup on, all the user put into the surface is in the backups; a
\* text for the hooks of the repository has all that was there; only a command
\* that made a backup restores it.
SavedFirst ==
  /\ pc \in {"prepare", "write", "flush", "restore"} /\ BacksUp(op) =>
       added[Target(op)] \subseteq backups[Target(op)]
  /\ pc \in {"write", "flush"} /\ ~BacksUp(op) /\ fails = 0 =>
       added["repo"] \subseteq text.entries \cup backups["repo"]
  /\ pc = "restore" => Restores(op)

\* No content read, saved or about to be written has both a whole block and
\* the rest of one.
OneBlockIn(f) ==
  /\ f.cut => f.managed = {}
  /\ f.rest # {} => f.cut

OneBlockEach ==
  /\ \A f \in Surfaces : OneBlockIn(surface[f])
  /\ OneBlockIn(saved)
  /\ OneBlockIn(text)

\* Why the two hold: the inductive invariant.  Between the truncation and the
\* end of the write only the backup, or the text in memory, has the entries.
Guarded ==
  /\ UserEntriesKept
  /\ TornIsEmpty
  /\ SavedFirst
  /\ OneBlockEach

Kinds(s) == {s[k].kind : k \in 1 .. Len(s)}

\* Registering hooks and MCP, and the first of the two once more with the
\* same argument, makes the surfaces agree with each other and the manifest,
\* whatever generations were there before.
AgreeAfterThree ==
  pc = "idle" /\ Len(recent) = 3 /\ Kinds(recent) = {"hooks", "mcp"}
    /\ recent[1] = recent[3] =>
    /\ Candidates \subseteq {manifest.gen} \cup surface["repo"].managed
    /\ surface["repo"].managed = {} => Consensus

\* Unregistering hooks and MCP and rolling back, in any order, takes every
\* managed registration from every surface, whatever was registered before, and
\* no generation is left to be found, unless an interrupted register-mcp has left
\* a block in config.toml without its end marker: what was written of that stays.
FullRemoval ==
  pc = "idle" /\ Kinds(recent) = {"unhooks", "unmcp", "rollback"} =>
    /\ \A f \in Surfaces : surface[f].managed = {}
    /\ ~surface["config"].cut => Candidates = {}
=============================================================================
