--------------------------- MODULE MCRegistration --------------------------
(***************************************************************************)
(* Instances of Registration and Doctor for TLC: the two scripts are       *)
(* registered by their names, which are resolved to the virtual            *)
(* environment of the repository, or by a path of the user.  In a          *)
(* behaviour either the user, or Codex, edits a surface, and which of them *)
(* is edited does not matter to the others; or the doctor is asked, which  *)
(* does not look at the user's entries, among a few registrations.         *)
(***************************************************************************)
EXTENDS Doctor

CONSTANT MaxWriters  \* bound: commands and runs of the resident process, in
                     \*   a behaviour with the doctor

DefaultHookCommand == "venv hook"
DefaultMcpCommand == "venv mcp"

TwoHookCommands == {DefaultHookCommand, "own hook"}
TwoMcpCommands == {DefaultMcpCommand, "own mcp"}

AllFine ==
  [db |-> "ok", aliases |-> FALSE, task |-> TRUE, integrity |-> "ok",
   backlog |-> FALSE, lagging |-> FALSE, session |-> {}, sources |-> FALSE]

\* All is fine, or one thing is not.
FewRests ==
  {AllFine,
   [AllFine EXCEPT !.db = "db_error"],
   [AllFine EXCEPT !.task = FALSE],
   [AllFine EXCEPT !.integrity = "missing"],
   [AllFine EXCEPT !.integrity = "locked"],
   [AllFine EXCEPT !.backlog = TRUE],
   [AllFine EXCEPT !.session =
      {[hook |-> DefaultHookCommand, mcp |-> DefaultMcpCommand]}]}

\* Earlier commands have left two generations at most, or none, on each of the
\* files the doctor reads.
TwoGenerations == {[hook |-> h, mcp |-> DefaultMcpCommand] : h \in TwoHookCommands}

Left(gens) == {{}} \cup {{g} : g \in gens}

Registered(gens) ==
  IF gens = {} THEN Missing ELSE [Missing EXCEPT !.state = "whole", !.managed = gens]

VARIABLES part, begun

MCInit ==
  /\ DoctorInit
  /\ part \in Surfaces
  /\ begun = 0

MCDoctorInit ==
  /\ part = "doctor"
  /\ begun = 0
  /\ surface \in {[config |-> Registered(c), user |-> Registered(u), repo |-> Registered(r)] :
                   c \in Left(TwoGenerations), u \in Left(TwoGenerations),
                   r \in Left({[hook |-> DefaultHookCommand, mcp |-> DefaultMcpCommand]})}
  /\ manifest \in {NoManifest} \cup [state : {"whole"}, gen : TwoGenerations]
  /\ resident \in {NoState} \cup [state : {"whole"}, gen : {{g} : g \in TwoGenerations}]
  /\ backups = [f \in Surfaces |-> {}]
  /\ op = NoCommand
  /\ pc = "idle"
  /\ text = Missing
  /\ saved = Missing
  /\ inputs = Defaults
  /\ added = [f \in Surfaces |-> {}]
  /\ recent = <<>>
  /\ fails = 0
  /\ run = NoRun
  /\ doctor = NotAsked

Editing ==
  /\ \/ \E x \in Entries : Edit(part, x) \/ EditAtRisk(part, x)
     \/ Clear
     \/ \E c \in Commands : Start(c)
     \/ Step
     \/ Die
  /\ UNCHANGED <<resident, run, doctor, begun>>

Doctoring ==
  \/ /\ Step \/ Die
     /\ UNCHANGED <<resident, run, begun>>
     /\ Watch
  \/ /\ begun < MaxWriters
     /\ \E c \in Commands : Start(c)
     /\ begun' = begun + 1
     /\ UNCHANGED <<resident, run>>
     /\ Watch
  \/ /\ begun < MaxWriters
     /\ ResidentRead
     /\ begun' = begun + 1
     /\ UNCHANGED vars
     /\ Watch
  \/ /\ ResidentTruncate \/ ResidentFlush \/ ResidentDie
     /\ UNCHANGED <<vars, begun>>
     /\ Watch
  \/ DoctorStep /\ UNCHANGED <<vars, resident, run, begun>>

MCNext ==
  /\ UNCHANGED part
  /\ \/ part \in Surfaces /\ Editing
     \/ part = "doctor" /\ Doctoring

MCSpec == (MCInit \/ MCDoctorInit) /\ [][MCNext]_<<dvars, part, begun>>
=============================================================================
