------------------------- MODULE RegistrationProofs ------------------------
(***************************************************************************)
(* Proofs about Registration and Doctor for any entries of the user, any   *)
(* command lines and any number of failures: the user's entries are kept,  *)
(* a history of commands makes the surfaces agree or empties them, and the *)
(* doctor, which reads the same files without a lock, is right about them. *)
(***************************************************************************)
EXTENDS Doctor, SequenceTheorems, FiniteSetTheorems, TLAPS

(***************************************************************************)
(* Types.                                                                  *)
(***************************************************************************)

\* Every command has one of the three surfaces as its target.
LEMMA TargetType ==
  ASSUME NEW c \in Commands
  PROVE  Target(c) \in Surfaces
BY DEF Target, Commands, Surfaces

\* A registration resolves its argument and the manifest to a generation.
LEMMA ResolvedType ==
  ASSUME NEW c \in Commands, Registers(c), manifest.gen \in Generations
  PROVE  Resolved(c) \in Generations
BY DEF Resolved, Registers, Commands, Generations

\* The history keeps its type.
LEMMA RecordedType ==
  ASSUME NEW c \in Commands, recent \in Seq(Commands), Len(recent) <= 3
  PROVE  Recorded(c) \in Seq(Commands) /\ Len(Recorded(c)) <= 3
<1>. DEFINE kept == IF Len(recent) = 3 THEN Tail(recent) ELSE recent
<1>1. kept \in Seq(Commands) /\ Len(kept) <= 2
  <2>1. Len(recent) \in Nat
    BY LenProperties
  <2>2. CASE Len(recent) = 3
    <3>1. recent # <<>>
      BY <2>2, EmptySeq
    <3>2. Tail(recent) \in Seq(Commands) /\ Len(Tail(recent)) = 2
      BY <2>2, <3>1, HeadTailProperties
    <3>3. kept = Tail(recent)
      BY <2>2
    <3> HIDE DEF kept
    <3> QED
      BY <3>2, <3>3
  <2>3. CASE Len(recent) # 3
    <3>1. kept = recent
      BY <2>3
    <3>2. Len(recent) <= 2
      <4> DEFINE n == Len(recent)
      <4>1. n \in Nat /\ n <= 3 /\ n # 3
        BY <2>1, <2>3
      <4> HIDE DEF n
      <4>2. n <= 2
        BY <4>1
      <4> QED
        BY <4>2 DEF n
    <3> HIDE DEF kept
    <3> QED
      BY <3>1, <3>2
  <2> QED
    BY <2>2, <2>3
<1>2. Append(kept, c) \in Seq(Commands) /\ Len(Append(kept, c)) <= 3
  BY <1>1, AppendProperties, LenProperties
<1>3. <<>> \in Seq(Commands) /\ Len(<<>>) = 0
  BY EmptySeq
<1>4. <<c>> \in Seq(Commands) /\ Len(<<c>>) = 1
  OBVIOUS
<1> QED
  BY <1>2, <1>3, <1>4 DEF Recorded

\* A process that ends leaves variables of their types.
LEMMA ExitType ==
  ASSUME Exit, RegistrationAssumption
  PROVE  /\ op' = NoCommand
         /\ pc' = "idle"
         /\ text' \in Files
         /\ saved' \in Files
         /\ inputs' \in Generations
BY DEF Exit, Goto, Missing, Files, Defaults, Generations, RegistrationAssumption

\* Storing a file leaves the surfaces well-typed.
LEMMA StoreType ==
  ASSUME TypeOK, NEW f \in Surfaces, NEW content \in Files, Store(f, content)
  PROVE  surface' \in [Surfaces -> Files]
BY DEF TypeOK, Store

\* While there is a step to do there are a command and its file.
LEMMA Busy ==
  ASSUME TypeOK, pc # "idle"
  PROVE  op \in Commands /\ Target(op) \in Surfaces /\ File \in Files
BY TargetType DEF TypeOK, File

\* The absence of a command is none.
LEMMA NoCommandIsNone == NoCommand \notin Commands
BY DEF NoCommand, Commands

\* Every step keeps the types, one step of the proof for each action.
LEMMA StepTyped ==
  ASSUME TypeOK, [Next]_vars, RegistrationAssumption
  PROVE  TypeOK'
<1>. USE DEF Labels, Goto, Manifests
<1>1. ASSUME NEW f \in Surfaces, NEW x \in Entries, Edit(f, x)
      PROVE  TypeOK'
  <2>1. [surface[f] EXCEPT !.state = "whole", !.entries = @ \cup {x}] \in Files
    BY DEF TypeOK, Files
  <2>2. surface' \in [Surfaces -> Files]
    BY <1>1, <2>1, StoreType DEF Edit
  <2>3. added' \in [Surfaces -> SUBSET Entries]
    BY <1>1 DEF Edit, TypeOK
  <2> QED
    BY <1>1, <2>2, <2>3 DEF Edit, TypeOK, locals
<1>0. ASSUME NEW f \in Surfaces, NEW x \in Entries, EditAtRisk(f, x)
      PROVE  TypeOK'
  <2>1. [surface[f] EXCEPT !.state = "whole", !.entries = @ \cup {x}] \in Files
    BY DEF TypeOK, Files
  <2>2. surface' \in [Surfaces -> Files]
    BY <1>0, <2>1, StoreType DEF EditAtRisk
  <2> QED
    BY <1>0, <2>2 DEF EditAtRisk, TypeOK, locals
<1>2. CASE Clear
  <2>1. Missing \in Files
    BY DEF Missing, Files
  <2>2. surface' \in [Surfaces -> Files]
    BY <1>2, <2>1, StoreType DEF Clear, TypeOK
  <2>3. manifest' \in Manifests
    BY <1>2 DEF Clear, TypeOK, NoManifest, Defaults, Generations,
                RegistrationAssumption
  <2> QED
    BY <1>2, <2>2, <2>3 DEF Clear, TypeOK, locals
<1>3. ASSUME NEW c \in Commands, Start(c)
      PROVE  TypeOK'
  BY <1>3, NoCommandIsNone DEF Start, TypeOK, files, locals
<1>21. CASE ReadOriginal
  <2>1. File \in Files
    BY <1>21, Busy DEF ReadOriginal
  <2> QED
    BY <1>21, <2>1 DEF ReadOriginal, TypeOK, files
<1>4. CASE Backup
  <2>1. op \in Commands /\ Target(op) \in Surfaces /\ File \in Files
    BY <1>4, Busy DEF Backup
  <2>2. backups' \in [Surfaces -> SUBSET Entries]
    BY <1>4, <2>1 DEF Backup, TypeOK, Files
  <2> QED
    BY <1>4, <2>1, <2>2, NoCommandIsNone DEF Backup, TypeOK
<1>5. ASSUME Done, pc # "idle", UNCHANGED <<backups, added, fails>>,
             surface' \in [Surfaces -> Files], manifest' \in Manifests
      PROVE  TypeOK'
  <2>1. recent' \in Seq(Commands) /\ Len(recent') <= 3
    BY <1>5, Busy, RecordedType DEF Done, TypeOK
  <2> QED
    BY <1>5, <2>1, ExitType DEF Done, TypeOK
<1>6. ASSUME Failed, UNCHANGED <<backups, added>>, fails' \in 0 .. MaxFails,
             surface' \in [Surfaces -> Files], manifest' \in Manifests
      PROVE  TypeOK'
  <2>1. recent' \in Seq(Commands) /\ Len(recent') <= 3
    BY <1>6 DEF Failed
  <2> QED
    BY <1>6, <2>1, ExitType DEF Failed, TypeOK
<1>7. CASE NothingThere
  BY <1>5, <1>7 DEF NothingThere, files, TypeOK
<1>8. CASE CannotRead
  BY <1>6, <1>8 DEF CannotRead, files, TypeOK
<1>9. CASE PrepareRegistration
  <2>1. op \in Commands /\ Original \in Files
    BY <1>9, Busy DEF PrepareRegistration, Original, TypeOK
  <2>2. inputs' \in Generations
    BY <1>9, <2>1, ResolvedType DEF PrepareRegistration, TypeOK
  <2>3. text' \in Files
    BY <1>9, <2>1, <2>2 DEF PrepareRegistration, Merged, Files
  <2> QED
    BY <1>9, <2>1, <2>2, <2>3 DEF PrepareRegistration, TypeOK, files
<1>10. CASE Refuse
  BY <1>10 DEF Refuse, TypeOK, files, locals
<1>11. CASE PrepareRemoval
  <2>1. op \in Commands /\ File \in Files
    BY <1>11, Busy DEF PrepareRemoval
  <2>2. text' \in Files
    BY <1>11, <2>1 DEF PrepareRemoval, Removed, Files
  <2> QED
    BY <1>11, <2>1, <2>2 DEF PrepareRemoval, TypeOK, files
<1>12. CASE Truncate
  <2>1. Target(op) \in Surfaces
    BY <1>12, Busy DEF Truncate
  <2>2. Truncated(Target(op)) \in Files
    BY DEF Truncated, Missing, Files
  <2>3. surface' \in [Surfaces -> Files]
    BY <1>12, <2>1, <2>2, StoreType DEF Truncate
  <2> QED
    BY <1>12, <2>3 DEF Truncate, TypeOK, locals
<1>13. CASE Flush
  <2>1. op \in Commands /\ Target(op) \in Surfaces
    BY <1>13, Busy DEF Flush
  <2>2. surface' \in [Surfaces -> Files]
    BY <1>13, <2>1, StoreType DEF Flush, TypeOK
  <2>3. CASE Registers(op)
    BY <1>13, <2>2, <2>3 DEF Flush, Continue, TypeOK, locals
  <2>4. CASE ~Registers(op)
    BY <1>5, <1>13, <2>2, <2>4 DEF Flush, TypeOK
  <2> QED
    BY <2>3, <2>4
<1>14. CASE WriteRaises
  <2>1. surface' \in [Surfaces -> Files]
    <3>1. \A part \in {{}, text.managed} : Interrupted(part) \in Files
      BY DEF Interrupted, TypeOK, Files
    <3> QED
      BY <1>14, <3>1, StoreType DEF WriteRaises, TypeOK, Surfaces
  <2>2. fails' \in 0 .. MaxFails
    BY <1>14 DEF WriteRaises, TypeOK, RegistrationAssumption
  <2>3. CASE Continue("restore")
    BY <1>14, <2>1, <2>2, <2>3 DEF WriteRaises, Continue, TypeOK, locals
  <2>4. CASE Failed
    BY <1>6, <1>14, <2>1, <2>2, <2>4 DEF WriteRaises, TypeOK
  <2> QED
    BY <1>14, <2>3, <2>4 DEF WriteRaises
<1>15. CASE Restore
  <2>1. surface' \in [Surfaces -> Files]
    BY <1>15, Busy, StoreType DEF Restore, TypeOK
  <2> QED
    BY <1>6, <1>15, <2>1 DEF Restore, TypeOK
<1>16. CASE TruncateManifest
  BY <1>16 DEF TruncateManifest, TypeOK, locals
<1>17. CASE FlushManifest
  <2>1. manifest' \in Manifests
    BY <1>17 DEF FlushManifest, TypeOK
  <2>2. CASE op.kind = "install"
    BY <1>17, <2>1, <2>2 DEF FlushManifest, Continue, TypeOK, locals
  <2>3. CASE op.kind # "install"
    BY <1>5, <1>17, <2>1, <2>3 DEF FlushManifest, TypeOK
  <2> QED
    BY <2>2, <2>3
<1>18. CASE WriteProfile
  BY <1>5, <1>18 DEF WriteProfile, files, TypeOK
<1>19. CASE Die
  <2>1. fails' \in 0 .. MaxFails
    BY <1>19 DEF Die, TypeOK, RegistrationAssumption
  <2> QED
    BY <1>6, <1>19, <2>1 DEF Die, files, TypeOK
<1>20. CASE UNCHANGED vars
  BY <1>20 DEF vars, TypeOK
<1> QED
  BY <1>0, <1>1, <1>2, <1>3, <1>4, <1>7, <1>8, <1>9, <1>10, <1>11, <1>12, <1>13,
     <1>14, <1>15, <1>16, <1>17, <1>18, <1>19, <1>20, <1>21 DEF Next, Step

\* Every variable keeps its type, and a command runs exactly if there is a step
\* to do: every exit of every command passes through Exit.
THEOREM TypeCorrect == Spec => []TypeOK
<1>1. Init => TypeOK
  BY RegistrationAssumption DEF Init, TypeOK, Missing, Files, Manifests,
     NoManifest, Defaults, Generations, Labels, NoCommand, Commands
<1>2. TypeOK /\ [Next]_vars => TypeOK'
  BY StepTyped, RegistrationAssumption
<1> QED
  BY <1>1, <1>2, PTL DEF Spec

(***************************************************************************)
(* What the user had is kept, and there is one block.                      *)
(***************************************************************************)

\* Storing at a surface that was saved keeps what the user had, whatever is
\* stored.
LEMMA SavedStore ==
  ASSUME TypeOK, UserEntriesKept, SavedFirst, BacksUp(op),
         pc \in {"prepare", "write", "flush", "restore"},
         NEW content \in Files, Store(Target(op), content),
         UNCHANGED <<backups, added>>, fails' \in Nat, fails' >= fails
  PROVE  UserEntriesKept'
<1>1. Target(op) \in Surfaces
  BY Busy
<1>2. added'[Target(op)] \subseteq backups'[Target(op)]
  BY DEF SavedFirst
<1>3. \A f \in Surfaces \ {Target(op)} : surface'[f] = surface[f]
  BY DEF Store, TypeOK
<1>4. \A f \in Surfaces \ {Target(op)} :
        \/ added'[f] \subseteq surface'[f].entries \cup backups'[f]
        \/ f = "repo" /\ fails' > 0
  BY <1>3, fails \in Nat DEF UserEntriesKept, TypeOK
<1> QED
  BY <1>1, <1>2, <1>4 DEF UserEntriesKept

\* Every step keeps the invariant.
LEMMA StepGuarded ==
  ASSUME TypeOK, Guarded, [Next]_vars
  PROVE  Guarded'
<1>. USE DEF Guarded, UserEntriesKept, TornIsEmpty, SavedFirst, OneBlockEach,
             OneBlockIn, Goto
<1>1. ASSUME NEW f \in Surfaces, NEW x \in Entries, Edit(f, x)
      PROVE  Guarded'
  <2>1. /\ \A g \in Surfaces : surface'[g] = IF g = f
             THEN [surface[f] EXCEPT !.state = "whole", !.entries = @ \cup {x}]
             ELSE surface[g]
        /\ \A g \in Surfaces :
             added'[g] = IF g = f THEN added[f] \cup {x} ELSE added[g]
        /\ UNCHANGED <<backups, op, pc, text, saved, fails>>
    BY <1>1 DEF Edit, Store, TypeOK, locals
  <2>2. surface[f] \in Files
    BY DEF TypeOK
  <2>7. /\ surface'[f].entries = surface[f].entries \cup {x}
        /\ surface'[f].cut = surface[f].cut
        /\ surface'[f].managed = surface[f].managed
        /\ surface'[f].rest = surface[f].rest
    BY <2>1, <2>2 DEF Files
  <2>3. UserEntriesKept'
    <3>1. SUFFICES ASSUME NEW g \in Surfaces
                   PROVE  \/ added'[g] \subseteq surface'[g].entries \cup backups[g]
                          \/ g = "repo" /\ (fails > 0 \/ (pc = "flush" /\ ~BacksUp(op)))
      BY <2>1
    <3>2. CASE g = f
      BY <2>1, <2>7, <3>2
    <3>3. CASE g # f
      BY <2>1, <3>3
    <3> QED
      BY <3>2, <3>3
  <2>4. TornIsEmpty'
    BY <2>1, <2>2 DEF Files
  <2>5. SavedFirst'
    <3>1. ~Handling(f)
      BY <1>1 DEF Edit
    <3>2. Target(op) = f =>
            pc \notin {"write", "flush", "restore"} /\ ~(pc = "prepare" /\ BacksUp(op))
      BY <3>1 DEF Handling
    <3>3. pc \in {"prepare", "write", "flush", "restore"} => Target(op) \in Surfaces
      BY TargetType DEF TypeOK
    <3>4. pc \in {"prepare", "write", "flush", "restore"} /\ BacksUp(op) =>
            Target(op) # f
      BY <3>2
    <3>5. pc \in {"write", "flush"} /\ ~BacksUp(op) => Target(op) = "repo"
      BY DEF TypeOK, BacksUp, Target, Commands, NoCommand
    <3>6. pc \in {"write", "flush"} /\ ~BacksUp(op) => f # "repo"
      BY <3>2, <3>5
    <3> QED
      BY <2>1, <3>3, <3>4, <3>6 DEF Surfaces
  <2>6. OneBlockEach'
    <3>1. \A g \in Surfaces : OneBlockIn(surface'[g])
      BY <2>1, <2>7
    <3> QED
      BY <2>1, <3>1
  <2> QED
    BY <2>3, <2>4, <2>5, <2>6
<1>0. ASSUME NEW f \in Surfaces, NEW x \in Entries, EditAtRisk(f, x)
      PROVE  Guarded'
  BY <1>0 DEF EditAtRisk, Store, TypeOK, Files, locals
<1>2. ASSUME NEW c \in Commands, Start(c)
      PROVE  Guarded'
  BY <1>2 DEF Start, files, locals
<1>3. CASE Clear
  BY <1>3 DEF Clear, Store, Missing, TypeOK, locals
<1>19. CASE ReadOriginal
  <2>1. Target(op) \in Surfaces
    BY <1>19, Busy DEF ReadOriginal
  <2>2. OneBlockIn(File)
    BY <2>1 DEF File
  <2> QED
    BY <1>19, <2>2 DEF ReadOriginal, files
<1>4. CASE Backup
  <2>1. op \in Commands /\ Target(op) \in Surfaces /\ File \in Files
    BY <1>4, Busy DEF Backup
  <2>2. backups'[Target(op)] = backups[Target(op)] \cup File.entries
        /\ \A f \in Surfaces : backups[f] \subseteq backups'[f]
    BY <1>4, <2>1 DEF Backup, TypeOK
  <2>3. UserEntriesKept'
    BY <1>4, <2>2 DEF Backup, UserEntriesKept
  <2>4. BacksUp(op) => added'[Target(op)] \subseteq backups'[Target(op)]
    <3>1. BacksUp(op) => Target(op) # "repo"
      BY <2>1 DEF BacksUp, Target, Commands
    <3> QED
      BY <1>4, <2>1, <2>2, <3>1 DEF Backup, UserEntriesKept, File
  <2>5. TornIsEmpty' /\ OneBlockEach'
    BY <1>4, <2>1 DEF Backup, TornIsEmpty, OneBlockEach, File
  <2> QED
    BY <1>4, <2>3, <2>4, <2>5 DEF Backup, SavedFirst
<1>5. CASE NothingThere
  BY <1>5 DEF NothingThere, Done, Exit, Missing, files
<1>6. CASE CannotRead
  BY <1>6 DEF CannotRead, Failed, Exit, Missing, files
<1>7. CASE PrepareRegistration
  <2>1. /\ op \in Commands
        /\ Target(op) \in Surfaces
        /\ File \in Files /\ Original \in Files
    BY <1>7, Busy DEF PrepareRegistration, Original, TypeOK
  <2>6. OneBlockIn(Original)
    BY <2>1 DEF Original, File
  <2>2. /\ text'.entries = Original.entries /\ text'.state = "whole"
        /\ ~text'.cut /\ text'.rest = {}
    BY <1>7, <2>1, <2>6 DEF PrepareRegistration, Merged, Files
  <2>3. ~BacksUp(op) => Target(op) = "repo" /\ Original = File
    BY <2>1 DEF BacksUp, Target, Original
  <2>4. ~BacksUp(op) /\ fails = 0
          => added["repo"] \subseteq File.entries \cup backups["repo"]
    BY <1>7, <2>1, <2>3 DEF PrepareRegistration, UserEntriesKept, File
  <2>5. SavedFirst'
    BY <1>7, <2>2, <2>3, <2>4 DEF PrepareRegistration, SavedFirst, files
  <2> QED
    BY <1>7, <2>2, <2>5 DEF PrepareRegistration, files, UserEntriesKept,
       TornIsEmpty, OneBlockEach
<1>8. CASE Refuse
  BY <1>8 DEF Refuse, Restores, BacksUp, files, locals
<1>9. CASE PrepareRemoval
  <2>1. Target(op) \in Surfaces /\ File \in Files /\ op \in Commands
    BY <1>9, Busy DEF PrepareRemoval
  <2>2. /\ text'.entries = File.entries
        /\ text'.state = "whole"
        /\ text'.managed = {} /\ text'.cut = File.cut /\ text'.rest = File.rest
    BY <1>9, <2>1 DEF PrepareRemoval, Removed, Files
  <2>6. OneBlockIn(File)
    BY <2>1 DEF File
  <2>3. ~BacksUp(op) => Target(op) = "repo"
    BY <2>1 DEF BacksUp, Target
  <2>4. ~BacksUp(op) /\ fails = 0
          => added["repo"] \subseteq File.entries \cup backups["repo"]
    BY <1>9, <2>1, <2>3 DEF PrepareRemoval, UserEntriesKept, File
  <2>5. SavedFirst'
    BY <1>9, <2>2, <2>4 DEF PrepareRemoval, SavedFirst, files
  <2> QED
    BY <1>9, <2>2, <2>5, <2>6 DEF PrepareRemoval, files, UserEntriesKept, TornIsEmpty,
       OneBlockEach
<1>10. CASE Truncate
  <2>1. op \in Commands /\ Target(op) \in Surfaces
    BY <1>10, Busy DEF Truncate
  <2>2. Truncated(Target(op)) \in Files /\ Truncated(Target(op)).entries = {}
        /\ Truncated(Target(op)).managed = {} /\ Truncated(Target(op)).rest = {}
    BY DEF Truncated, Missing, Files
  <2>3. UserEntriesKept'
    <3>1. CASE BacksUp(op)
      BY <1>10, <2>2, <3>1, SavedStore DEF Truncate, locals, TypeOK
    <3>2. CASE ~BacksUp(op)
      <4>1. Target(op) = "repo"
        BY <2>1, <3>2 DEF BacksUp, Target
      <4>2. \A f \in Surfaces \ {"repo"} : surface'[f] = surface[f]
        BY <1>10, <4>1 DEF Truncate, Store, TypeOK
      <4> QED
        BY <1>10, <3>2, <4>2 DEF Truncate, UserEntriesKept
    <3> QED
      BY <3>1, <3>2
  <2>4. TornIsEmpty' /\ OneBlockEach'
    BY <1>10, <2>1, <2>2 DEF Truncate, Store, TypeOK, locals, TornIsEmpty,
       OneBlockEach
  <2> QED
    BY <1>10, <2>3, <2>4 DEF Truncate, SavedFirst, locals
<1>11. CASE Flush
  <2>1. op \in Commands /\ Target(op) \in Surfaces
    BY <1>11, Busy DEF Flush
  <2>2. \A f \in Surfaces :
          surface'[f] = IF f = Target(op) THEN text ELSE surface[f]
    BY <1>11, <2>1 DEF Flush, Store, TypeOK
  <2>3. UserEntriesKept'
    <3>1. CASE BacksUp(op)
      BY <1>11, <3>1, SavedStore DEF Flush, TypeOK
    <3>2. CASE ~BacksUp(op)
      <4>1. Target(op) = "repo"
        BY <2>1, <3>2 DEF BacksUp, Target
      <4> QED
        BY <1>11, <2>2, <3>2, <4>1 DEF Flush, UserEntriesKept, SavedFirst,
           TypeOK
    <3> QED
      BY <3>1, <3>2
  <2>4. text' \in {text, Missing} /\ saved' \in {saved, Missing}
        /\ pc' \in {"manifest", "idle"}
    BY <1>11 DEF Flush, Continue, Done, Exit, locals
  <2>5. TornIsEmpty' /\ OneBlockEach'
    BY <1>11, <2>2, <2>4 DEF Flush, TornIsEmpty, OneBlockEach, Missing
  <2> QED
    BY <2>3, <2>4, <2>5 DEF SavedFirst
<1>12. CASE WriteRaises
  <2>1. op \in Commands /\ Target(op) \in Surfaces
    BY <1>12, Busy DEF WriteRaises
  <2>2. PICK content \in Files :
          /\ Store(Target(op), content)
          /\ content.state = "torn" => content.entries = {}
          /\ OneBlockIn(content)
          /\ content = surface[Target(op)] \/ op.kind = "mcp"
    <3>1. CASE UNCHANGED surface
      BY <2>1, <3>1 DEF TypeOK, Store, TornIsEmpty, OneBlockEach
    <3>2. ASSUME op.kind = "mcp", NEW part \in {{}, text.managed},
                 Store("config", Interrupted(part))
          PROVE  \E content \in Files :
                   /\ Store(Target(op), content)
                   /\ content.state = "torn" => content.entries = {}
                   /\ OneBlockIn(content)
                   /\ content = surface[Target(op)] \/ op.kind = "mcp"
      <4> DEFINE file == Interrupted(part)
      <4>1. /\ file \in Files /\ file.state = text.state
            /\ file.managed = {} /\ file.cut = TRUE
        BY DEF Interrupted, TypeOK, Files
      <4>2. file.state # "torn"
        BY <1>12, <4>1 DEF WriteRaises, TornIsEmpty
      <4>3. Target(op) = "config"
        BY <3>2 DEF Target
      <4> HIDE DEF file
      <4> QED
        BY <3>2, <4>1, <4>2, <4>3 DEF file
    <3> QED
      BY <1>12, <3>1, <3>2 DEF WriteRaises
  <2>3. fails' \in Nat /\ fails' > 0 /\ fails' >= fails
    BY <1>12 DEF WriteRaises, TypeOK
  <2>4. UserEntriesKept'
    <3>1. CASE BacksUp(op)
      BY <1>12, <2>2, <2>3, <3>1, SavedStore DEF WriteRaises
    <3>2. CASE ~BacksUp(op)
      <4>1. UNCHANGED surface
        BY <1>12, <3>2 DEF WriteRaises, BacksUp
      <4> QED
        BY <1>12, <2>3, <4>1 DEF WriteRaises, UserEntriesKept
    <3> QED
      BY <3>1, <3>2
  <2>5. \/ pc' = "restore" /\ Restores(op) /\ UNCHANGED <<op, text, saved>>
        \/ pc' = "idle" /\ text' = Missing /\ saved' = Missing
    BY <1>12 DEF WriteRaises, Continue, Failed, Exit, locals
  <2>6. TornIsEmpty' /\ OneBlockEach'
    BY <2>1, <2>2, <2>5 DEF Store, TypeOK, TornIsEmpty, OneBlockEach, Missing
  <2>7. SavedFirst'
    BY <1>12, <2>5 DEF WriteRaises, SavedFirst
  <2> QED
    BY <2>4, <2>6, <2>7
<1>13. CASE Restore
  <2>1. Target(op) \in Surfaces /\ BacksUp(op)
    BY <1>13, Busy DEF Restore, SavedFirst, Restores, BacksUp
  <2>2. UserEntriesKept'
    BY <1>13, <2>1, SavedStore DEF Restore, TypeOK
  <2>3. TornIsEmpty' /\ OneBlockEach' /\ SavedFirst'
    BY <1>13, <2>1 DEF Restore, Store, Failed, Exit, Missing, TypeOK,
       TornIsEmpty, SavedFirst, OneBlockEach
  <2> QED
    BY <2>2, <2>3
<1>14. CASE TruncateManifest
  BY <1>14 DEF TruncateManifest, locals
<1>15. CASE FlushManifest
  BY <1>15 DEF FlushManifest, Done, Continue, Exit, Missing, locals
<1>16. CASE WriteProfile
  BY <1>16 DEF WriteProfile, Done, Exit, Missing, files
<1>17. CASE Die
  <2>1. fails' > 0
    BY <1>17 DEF Die, TypeOK
  <2> QED
    BY <1>17, <2>1 DEF Die, Failed, Exit, Missing, files
<1>18. CASE UNCHANGED vars
  BY <1>18 DEF vars
<1> QED
  BY <1>0, <1>1, <1>2, <1>3, <1>4, <1>5, <1>6, <1>7, <1>8, <1>9, <1>10, <1>11,
     <1>12, <1>13, <1>14, <1>15, <1>16, <1>17, <1>18, <1>19 DEF Next, Step

\* The invariant holds in every state.
LEMMA GuardedAlways == Spec => []Guarded
<1>1. Init => Guarded
  BY DEF Init, Guarded, UserEntriesKept, TornIsEmpty, SavedFirst, OneBlockEach,
     OneBlockIn, Missing
<1>2. TypeOK /\ Guarded /\ [Next]_vars => Guarded'
  BY StepGuarded
<1> QED
  BY <1>1, <1>2, TypeCorrect, PTL DEF Spec

\* Whatever commands run, die or fail to write, what the user had put into a
\* surface, while no command was between reading and writing it, is in it or in
\* a backup of it, the hooks of the repository excepted once a command was
\* interrupted (backup_config, write_json).
THEOREM EntriesKept == Spec => []UserEntriesKept
<1>1. Guarded => UserEntriesKept
  BY DEF Guarded
<1> QED
  BY <1>1, GuardedAlways, PTL

\* config.toml never has a managed block and the rest of another one
\* (validate_codex_config_patch, and the backup that is put back).
THEOREM BlockIsOne == Spec => []OneBlock
<1>1. Guarded => OneBlock
  BY DEF Guarded, OneBlockEach, OneBlockIn, OneBlock, Surfaces
<1> QED
  BY <1>1, GuardedAlways, PTL

(***************************************************************************)
(* What a history of commands tells of the surfaces.                       *)
(***************************************************************************)

Wirings  == {"hooks", "mcp"}
Removals == {"rollback", "unhooks", "unmcp"}

\* The generation g has what the registration c was given.
Carries(g, c) == IF c.kind = "mcp" THEN g.mcp = c.arg ELSE g.hook = c.arg

\* The last command of a history, and the one before it.
Latest(h) == h[Len(h)]
Former(h) == h[Len(h) - 1]

\* Only a file that parses has something managed in it; what a command is about
\* to write, and has written when it comes to the manifest, is registered with
\* the generation resolved from its argument and the manifest.
Prepared ==
  /\ \A f \in Surfaces : surface[f].state # "whole" => surface[f].managed = {}
  /\ saved.state # "whole" => saved.managed = {}
  /\ text.state # "whole" => text.managed = {}
  /\ pc \in {"write", "flush"} =>
       text.managed = IF Registers(op) THEN {inputs} ELSE {}
  /\ pc \in {"write", "flush", "manifest", "manifestFlush"} /\ Registers(op) =>
       inputs = Resolved(op)
  /\ pc \in {"manifest", "manifestFlush"} =>
       Registers(op) /\ surface[Target(op)].managed = {inputs}
  /\ pc = "profile" => op.kind = "install"

\* After the last of a history of registrations its surface and the manifest
\* have one generation, with its argument and that of the one before; the
\* surface of the one before has the arguments of that and its own predecessor.
\* The first part holds while a command runs that will add to the history: it
\* writes another surface, and the manifest last.
WiringTold ==
  recent # <<>> /\ Latest(recent).kind \in Wirings =>
    /\ Len(recent) >= 2 => Former(recent).kind \in Wirings \ {Latest(recent).kind}
    /\ Len(recent) = 3 => recent[1].kind = Latest(recent).kind
    /\ pc = "idle" \/ op.kind \in Wirings \ {Latest(recent).kind} =>
         /\ surface[Target(Latest(recent))].managed = {manifest.gen}
         /\ Carries(manifest.gen, Latest(recent))
         /\ Len(recent) >= 2 => Carries(manifest.gen, Former(recent))
    /\ pc = "idle" =>
         /\ manifest.state = "whole"
         /\ Len(recent) >= 2 =>
              \E g \in Generations :
                /\ surface[Target(Former(recent))].managed = {g}
                /\ Carries(g, Former(recent))
                /\ Len(recent) = 3 => Carries(g, recent[1])

\* After a history of removals, and while another one runs, their surfaces have
\* nothing managed in them.
RemovalTold ==
  recent # <<>> /\ Latest(recent).kind \in Removals =>
    \A k \in 1 .. Len(recent) :
      /\ recent[k].kind \in Removals
      /\ pc = "idle" \/ op.kind \in Removals =>
           surface[Target(recent[k])].managed = {}

\* The history has a length, and its commands are commands.
LEMMA HistoryType ==
  ASSUME TypeOK
  PROVE  /\ Len(recent) \in 0 .. 3
         /\ \A k \in 1 .. Len(recent) : recent[k] \in Commands
         /\ recent # <<>> => Len(recent) \in 1 .. 3
<1>1. recent \in Seq(Commands) /\ Len(recent) <= 3
  BY DEF TypeOK
<1>2. Len(recent) \in Nat /\ \A k \in 1 .. Len(recent) : recent[k] \in Commands
  BY <1>1, LenProperties
<1>3. recent # <<>> => Len(recent) \in Nat \ {0}
  BY <1>1, EmptySeq
<1>4. ASSUME NEW n \in Nat, n <= 3
      PROVE  n \in 0 .. 3 /\ (n # 0 => n \in 1 .. 3)
  BY <1>4
<1>5. Len(recent) \in 0 .. 3 /\ (Len(recent) # 0 => Len(recent) \in 1 .. 3)
  BY <1>1, <1>2, <1>4
<1>6. recent # <<>> => Len(recent) # 0
  BY <1>3
<1>. QED
  BY <1>2, <1>5, <1>6

\* What Recorded makes of a history: one of this command alone, or one that
\* ends with it after the last two it had.
LEMMA RecordedShape ==
  ASSUME TypeOK, NEW c \in Commands, NEW R, R = Recorded(c), R # <<>>
  PROVE  /\ c.kind # "install"
         /\ Len(R) \in 1 .. 3 /\ R[Len(R)] = c
         /\ Len(R) # 1 =>
              /\ recent # <<>>
              /\ R[Len(R) - 1] = Latest(recent)
              /\ Latest(recent).kind # c.kind
              /\ c.kind \in Wirings <=> Latest(recent).kind \in Wirings
              /\ c.kind \in Removals <=> Latest(recent).kind \in Removals
              /\ Len(R) = 3 => Len(recent) >= 2 /\ R[1] = Former(recent)
<1> DEFINE kinds == IF Registers(c) THEN Wirings ELSE Removals
           alike == recent # <<>> /\ recent[Len(recent)].kind \in kinds \ {c.kind}
           kept  == IF Len(recent) = 3 THEN Tail(recent) ELSE recent
<1>1. recent \in Seq(Commands) /\ Len(recent) \in 0 .. 3
  BY HistoryType DEF TypeOK
<1>2. R = IF c.kind \notin kinds THEN <<>>
          ELSE IF alike THEN Append(kept, c) ELSE <<c>>
  BY DEF Recorded, Wirings, Removals
<1>3. c.kind \in kinds
  BY <1>2
<1>4. c.kind # "install"
  BY <1>3 DEF Wirings, Removals
<1>5. CASE ~alike
  <2>1. R = <<c>>
    BY <1>2, <1>3, <1>5
  <2>2. Len(R) = 1 /\ R[1] = c
    BY <2>1
  <2>. QED
    BY <1>4, <2>2
<1>6. CASE alike
  <2>1. R = Append(kept, c)
    BY <1>2, <1>3, <1>6
  <2>2. recent # <<>> /\ Len(recent) \in 1 .. 3
    BY <1>6, HistoryType
  <2>3. /\ Latest(recent).kind # c.kind
        /\ c.kind \in Wirings <=> Latest(recent).kind \in Wirings
        /\ c.kind \in Removals <=> Latest(recent).kind \in Removals
    BY <1>3, <1>6 DEF Latest, Wirings, Removals
  <2>4. CASE Len(recent) = 3
    <3>1. /\ Tail(recent) \in Seq(Commands)
          /\ Len(Tail(recent)) = 2
          /\ \A i \in 1 .. 2 : Tail(recent)[i] = recent[i + 1]
      BY <1>1, <2>2, <2>4, HeadTailProperties
    <3>2. PICK t \in Seq(Commands) : t = Tail(recent)
      BY <3>1
    <3>3. R = Append(t, c) /\ Len(t) = 2
      BY <2>1, <2>4, <3>1, <3>2
    <3>4. Len(R) = 3 /\ R[1] = t[1] /\ R[2] = t[2] /\ R[3] = c
      <4>1. /\ Len(Append(t, c)) = Len(t) + 1
            /\ \A i \in 1 .. Len(t) : Append(t, c)[i] = t[i]
            /\ Append(t, c)[Len(t) + 1] = c
        BY AppendProperties
      <4>. QED
        BY <3>3, <4>1
    <3>5. t[1] = recent[2] /\ t[2] = recent[3]
      <4>1. Tail(recent)[1] = recent[2] /\ Tail(recent)[2] = recent[3]
        BY SMTT(30), <3>1
      <4>2. t[1] = Tail(recent)[1] /\ t[2] = Tail(recent)[2]
        BY <3>2
      <4>. QED
        BY <4>1, <4>2
    <3>6. Latest(recent) = recent[3] /\ Former(recent) = recent[2]
      BY <2>4 DEF Latest, Former
    <3>. QED
      BY <1>4, <2>2, <2>3, <2>4, <3>4, <3>5, <3>6
  <2>5. CASE Len(recent) # 3
    <3>1. R = Append(recent, c)
      BY <2>1, <2>5
    <3>2. /\ Len(R) = Len(recent) + 1
          /\ \A i \in 1 .. Len(recent) : R[i] = recent[i]
          /\ R[Len(recent) + 1] = c
      BY <1>1, <3>1, AppendProperties
    <3>3. CASE Len(recent) = 1
      <4>1. Len(R) = 2 /\ R[1] = recent[1] /\ R[2] = c
        BY <3>2, <3>3
      <4>. QED
        BY <1>4, <2>2, <2>3, <3>3, <4>1 DEF Latest
    <3>4. CASE Len(recent) = 2
      <4>1. Len(R) = 3 /\ R[1] = recent[1] /\ R[2] = recent[2] /\ R[3] = c
        BY <3>2, <3>4
      <4>. QED
        BY <1>4, <2>2, <2>3, <3>4, <4>1 DEF Latest, Former
    <3>. QED
      BY <2>2, <2>5, <3>3, <3>4
  <2>. QED
    BY <2>4, <2>5
<1>. QED
  BY <1>5, <1>6

\* A removal or a registration has one of these kinds, and the surface follows
\* from the kind.
LEMMA KindsOfCommands ==
  ASSUME NEW c \in Commands
  PROVE  /\ c.kind \in Wirings \cup Removals \cup {"install"}
         /\ Registers(c) <=> c.kind \in Wirings \cup {"install"}
         /\ Target(c) = CASE c.kind \in {"install", "rollback"} -> "repo"
                          [] c.kind \in {"hooks", "unhooks"}    -> "user"
                          [] c.kind \in {"mcp", "unmcp"}        -> "config"
BY DEF Commands, Wirings, Removals, Registers, Target

\* A step that ends no command leaves what the history tells, if it changes
\* nothing but the surface of the command that runs.
LEMMA StayTold ==
  ASSUME TypeOK, WiringTold, RemovalTold, UNCHANGED recent,
         manifest'.gen = manifest.gen, pc' # "idle",
         pc # "idle" => op' = op,
         \A f \in Surfaces :
           \/ surface'[f].managed = surface[f].managed
           \/ /\ pc # "idle" /\ f = Target(op)
              /\ op.kind \in Removals => surface'[f].managed = {}
  PROVE  WiringTold' /\ RemovalTold'
<1>1. /\ Len(recent) \in 0 .. 3
      /\ \A k \in 1 .. Len(recent) : recent[k] \in Commands
      /\ recent # <<>> => Len(recent) \in 1 .. 3
  BY HistoryType
<1>2. recent # <<>> => Latest(recent) \in Commands
  BY <1>1 DEF Latest
<1>3. ASSUME NEW c \in Commands, NEW d \in Commands,
             c.kind \in Wirings, d.kind \in Wirings, c.kind # d.kind
      PROVE  Target(c) # Target(d)
  BY <1>3 DEF Wirings, Target
<1>4. WiringTold'
  <2>1. SUFFICES ASSUME recent # <<>>, Latest(recent).kind \in Wirings,
                        op'.kind \in Wirings \ {Latest(recent).kind}
                 PROVE  /\ surface'[Target(Latest(recent))].managed = {manifest.gen}
                        /\ Carries(manifest.gen, Latest(recent))
                        /\ Len(recent) >= 2 => Carries(manifest.gen, Former(recent))
    <3>1. Carries(manifest.gen, Latest(recent)) => Carries(manifest.gen, Latest(recent))'
      BY DEF Carries, Latest
    <3>2. Carries(manifest.gen, Former(recent)) => Carries(manifest.gen, Former(recent))'
      BY DEF Carries, Former
    <3>. QED
      BY <3>1, <3>2 DEF WiringTold, Latest, Former, Target
  <2>2. pc = "idle" \/ op.kind \in Wirings \ {Latest(recent).kind}
    BY <2>1
  <2>3. /\ surface[Target(Latest(recent))].managed = {manifest.gen}
        /\ Carries(manifest.gen, Latest(recent))
        /\ Len(recent) >= 2 => Carries(manifest.gen, Former(recent))
    BY <2>1, <2>2 DEF WiringTold
  <2>4. Target(Latest(recent)) \in Surfaces
    BY <1>2, <2>1, TargetType
  <2>5. pc # "idle" => Target(Latest(recent)) # Target(op)
    BY <1>2, <1>3, <2>1, Busy
  <2>. QED
    BY <2>3, <2>4, <2>5
<1>5. RemovalTold'
  <2>1. SUFFICES ASSUME recent # <<>>, Latest(recent).kind \in Removals,
                        NEW k \in 1 .. Len(recent)
                 PROVE  /\ recent[k].kind \in Removals
                        /\ op'.kind \in Removals =>
                             surface'[Target(recent[k])].managed = {}
    BY DEF RemovalTold, Latest, Target
  <2>2. /\ recent[k].kind \in Removals
        /\ pc = "idle" \/ op.kind \in Removals => surface[Target(recent[k])].managed = {}
    BY <2>1 DEF RemovalTold
  <2>3. Target(recent[k]) \in Surfaces
    BY <1>1, TargetType
  <2>. QED
    BY <2>2, <2>3
<1>. QED
  BY <1>4, <1>5

\* So does a step while no command runs that leaves what is managed.
LEMMA IdleTold ==
  ASSUME TypeOK, WiringTold, RemovalTold, UNCHANGED <<recent, op, pc>>,
         \A f \in Surfaces : surface'[f].managed = surface[f].managed,
         manifest' = manifest \/ (manifest.state # "whole" /\ pc = "idle")
  PROVE  WiringTold' /\ RemovalTold'
<1>1. /\ \A k \in 1 .. Len(recent) : recent[k] \in Commands
      /\ recent # <<>> => Len(recent) \in 1 .. 3
  BY HistoryType
<1>2. \A k \in 1 .. Len(recent) : Target(recent[k]) \in Surfaces
  BY <1>1, TargetType
<1>3. RemovalTold'
  BY <1>2 DEF RemovalTold, Latest, Target
<1>4. WiringTold'
  <2>1. SUFFICES ASSUME recent # <<>>, Latest(recent).kind \in Wirings
                 PROVE  WiringTold'
    BY DEF WiringTold, Latest
  <2>2. manifest' = manifest
    BY <2>1 DEF WiringTold
  <2>3. Target(Latest(recent)) \in Surfaces
    BY <1>1, <1>2, <2>1 DEF Latest
  <2>4. Len(recent) >= 2 => Target(Former(recent)) \in Surfaces
    BY <1>1, <1>2, <2>1 DEF Former
  <2>5. surface'[Target(Latest(recent))].managed = surface[Target(Latest(recent))].managed
    BY <2>3
  <2>6. Len(recent) >= 2 =>
          surface'[Target(Former(recent))].managed = surface[Target(Former(recent))].managed
    BY <2>4
  <2>7. /\ Latest(recent)' = Latest(recent) /\ Former(recent)' = Former(recent)
        /\ Target(Latest(recent))' = Target(Latest(recent))
        /\ Target(Former(recent))' = Target(Former(recent))
    BY DEF Latest, Former, Target
  <2>. QED
    BY <2>2, <2>5, <2>6, <2>7 DEF WiringTold, Carries
<1>. QED
  BY <1>3, <1>4

\* A command that ends normally adds itself to what the history tells: a
\* registration that has left its generation in its surface and in the
\* manifest, a removal that has left nothing in its surface.
LEMMA DoneTold ==
  ASSUME TypeOK, WiringTold, RemovalTold, Done, pc # "idle",
         \A f \in Surfaces \ {Target(op)} : surface'[f] = surface[f],
         op.kind \in Wirings =>
           /\ manifest'.state = "whole" /\ manifest'.gen = Resolved(op)
           /\ surface'[Target(op)].managed = {manifest'.gen},
         op.kind \in Removals => surface'[Target(op)].managed = {}
  PROVE  WiringTold' /\ RemovalTold'
<1>1. /\ Len(recent) \in 0 .. 3
      /\ \A k \in 1 .. Len(recent) : recent[k] \in Commands
      /\ recent # <<>> => Len(recent) \in 1 .. 3
  BY HistoryType
<1>2. op \in Commands /\ Target(op) \in Surfaces
  BY Busy
<1>3. recent' = Recorded(op) /\ pc' = "idle"
  BY DEF Done, Exit, Goto
<1>4. CASE Recorded(op) = <<>>
  BY <1>3, <1>4 DEF WiringTold, RemovalTold
<1>5. CASE Recorded(op) # <<>>
  <2>1. PICK R : R = Recorded(op)
    OBVIOUS
  <2>2. /\ op.kind # "install"
        /\ Len(R) \in 1 .. 3 /\ R[Len(R)] = op
        /\ Len(R) # 1 =>
             /\ recent # <<>>
             /\ R[Len(R) - 1] = Latest(recent)
             /\ Latest(recent).kind # op.kind
             /\ op.kind \in Wirings <=> Latest(recent).kind \in Wirings
             /\ op.kind \in Removals <=> Latest(recent).kind \in Removals
             /\ Len(R) = 3 => Len(recent) >= 2 /\ R[1] = Former(recent)
    BY <1>2, <1>5, <2>1, RecordedShape
  <2>3. recent' = R
    BY <1>3, <2>1
  <2>4. CASE op.kind \in Wirings
    <3>1. RemovalTold'
      BY <2>2, <2>3, <2>4 DEF RemovalTold, Latest, Wirings, Removals
    <3>2. manifest'.gen = Resolved(op) /\ manifest.gen \in Generations
      BY <2>4 DEF TypeOK, Manifests
    <3>3. /\ Carries(manifest'.gen, op)
          /\ \A c \in Commands : c.kind \in Wirings /\ c.kind # op.kind =>
               (Carries(manifest'.gen, c) <=> Carries(manifest.gen, c))
      BY <3>2, <2>4 DEF Carries, Resolved, Generations, Wirings
    <3>4. Latest(R) = op
      BY <2>2 DEF Latest
    <3>5. CASE Len(R) = 1
      <4>1. Latest(recent)' = op /\ Len(recent') = 1
        BY <2>3, <3>4, <3>5 DEF Latest
      <4>2. /\ surface'[Target(op)].managed = {manifest'.gen}
            /\ manifest'.state = "whole"
        BY <2>4
      <4>3. Target(Latest(recent))' = Target(op)
        BY <4>1 DEF Target
      <4>4. Carries(manifest.gen, Latest(recent))'
        BY <3>3, <4>1 DEF Carries
      <4>5. WiringTold'
        BY <4>1, <4>2, <4>3, <4>4 DEF WiringTold
      <4>. QED
        BY <3>1, <4>5
    <3>6. CASE Len(R) # 1
      <4> DEFINE l == Latest(recent)
      <4>1. /\ recent # <<>> /\ Former(R) = l /\ l.kind \in Wirings \ {op.kind}
            /\ l \in Commands
        BY <1>1, <2>2, <2>4, <3>6 DEF Former, Latest
      <4>2. /\ surface[Target(l)].managed = {manifest.gen}
            /\ Carries(manifest.gen, l)
            /\ Len(recent) >= 2 => Carries(manifest.gen, Former(recent))
            /\ Len(recent) >= 2 => Former(recent).kind \in Wirings \ {l.kind}
        BY <2>4, <4>1 DEF WiringTold
      <4>3. Target(l) \in Surfaces /\ Target(l) # Target(op)
        BY <1>2, <2>4, <4>1, TargetType DEF Target, Wirings
      <4>4. surface'[Target(l)].managed = {manifest.gen}
        BY <4>2, <4>3
      <4>5. Carries(manifest'.gen, l)
        BY <3>3, <4>1, <4>2
      <4>6. Len(R) = 3 => /\ R[1].kind = op.kind
                          /\ Carries(manifest.gen, R[1])
        BY <2>2, <2>4, <3>6, <4>1, <4>2 DEF Wirings
      <4> HIDE DEF l
      <4>7. \E g \in Generations :
              /\ surface'[Target(l)].managed = {g}
              /\ Carries(g, l)
              /\ Len(R) = 3 => Carries(g, R[1])
        BY <3>2, <4>2, <4>4, <4>6
      <4>8. WiringTold'
        BY ZenonT(30), <1>3, <2>3, <2>4, <3>3, <3>4, <4>1, <4>5, <4>6, <4>7
           DEF WiringTold, Carries, Target
      <4>. QED
        BY <3>1, <4>8
    <3>. QED
      BY <3>5, <3>6
  <2>5. CASE op.kind \in Removals
    <3>1. WiringTold'
      BY <2>2, <2>3, <2>5 DEF WiringTold, Latest, Wirings, Removals
    <3>2. ASSUME NEW k \in 1 .. Len(R)
          PROVE  R[k].kind \in Removals /\ surface'[Target(R[k])].managed = {}
      <4>1. CASE k = Len(R)
        BY <2>2, <2>5, <4>1
      <4>2. CASE k # Len(R)
        <5>1. Len(R) # 1 /\ (k = Len(R) - 1 \/ (k = 1 /\ Len(R) = 3))
          BY <2>2, <4>2
        <5>2. PICK j \in 1 .. Len(recent) : R[k] = recent[j]
          <6>1. CASE k = Len(R) - 1
            BY <1>1, <2>2, <5>1, <6>1 DEF Latest
          <6>2. CASE k = 1 /\ Len(R) = 3
            BY <1>1, <2>2, <5>1, <6>2 DEF Former
          <6>. QED
            BY <5>1, <6>1, <6>2
        <5>3. recent # <<>> /\ Latest(recent).kind \in Removals
          BY <2>2, <2>5, <5>1
        <5>4. recent[j].kind \in Removals /\ surface[Target(recent[j])].managed = {}
          BY <2>5, <5>3 DEF RemovalTold
        <5>5. Target(recent[j]) \in Surfaces
          BY <1>1, TargetType
        <5>6. surface'[Target(recent[j])].managed = {}
          BY <2>5, <5>4, <5>5
        <5>. QED
          BY <5>2, <5>4, <5>6
      <4>. QED
        BY <4>1, <4>2
    <3>3. RemovalTold'
      BY <2>3, <3>2 DEF RemovalTold, Target
    <3>. QED
      BY <3>1, <3>3
  <2>. QED
    BY <1>2, <2>2, <2>4, <2>5, KindsOfCommands
<1>. QED
  BY <1>4, <1>5

\* A command that fails leaves no history.
LEMMA FailedTold ==
  ASSUME Failed
  PROVE  WiringTold' /\ RemovalTold'
BY DEF Failed, WiringTold, RemovalTold

\* A step that keeps the surfaces and locals, or forgets the locals.
LEMMA ExitPrepared ==
  ASSUME Exit,
         \A f \in Surfaces : surface'[f].state # "whole" => surface'[f].managed = {}
  PROVE  Prepared'
BY DEF Exit, Goto, Prepared, Missing

\* Every step keeps Prepared.
LEMMA StepPrepared ==
  ASSUME TypeOK, Prepared, TornIsEmpty, [Next]_vars
  PROVE  Prepared'
<1>1. ASSUME NEW f \in Surfaces, NEW x \in Entries, Edit(f, x) \/ EditAtRisk(f, x)
      PROVE  Prepared'
  <2>1. /\ surface' = [surface EXCEPT ![f] =
                         [surface[f] EXCEPT !.state = "whole", !.entries = @ \cup {x}]]
        /\ UNCHANGED <<manifest, op, pc, text, saved, inputs>>
    BY <1>1 DEF Edit, EditAtRisk, Store, locals
  <2>2. surface[f] \in Files
    BY DEF TypeOK
  <2>3. \A g \in Surfaces : /\ surface'[g].managed = surface[g].managed
                            /\ surface'[g].state \in {surface[g].state, "whole"}
    BY <2>1, <2>2 DEF Files, TypeOK
  <2>4. pc # "idle" => Target(op) \in Surfaces
    BY Busy
  <2>. QED
    BY <2>1, <2>3, <2>4 DEF Prepared, Resolved, Target, Registers
<1>2. CASE Clear
  <2>1. pc = "idle" /\ pc' = "idle" /\ UNCHANGED <<text, saved>>
    BY <1>2 DEF Clear, locals
  <2>2. \A g \in Surfaces : surface'[g] = surface[g] \/ surface'[g] = Missing
    BY <1>2 DEF Clear, Store, TypeOK
  <2>3. Missing.managed = {}
    BY DEF Missing
  <2>. QED
    BY <2>1, <2>2, <2>3 DEF Prepared
<1>3. ASSUME NEW c \in Commands, Start(c)
      PROVE  Prepared'
  <2>1. pc' \in {"read", "backup", "prepare"} /\ UNCHANGED <<surface, text, saved>>
    BY <1>3 DEF Start, Goto, files, locals
  <2>. QED
    BY <2>1 DEF Prepared
<1>4. CASE ReadOriginal
  <2>1. Target(op) \in Surfaces
    BY <1>4, Busy DEF ReadOriginal
  <2>2. text'.state # "whole" => text'.managed = {}
    BY <1>4, <2>1 DEF ReadOriginal, Prepared, File
  <2>. QED
    BY <1>4, <2>2 DEF ReadOriginal, Goto, Prepared, files
<1>5. CASE Backup
  <2>1. Target(op) \in Surfaces
    BY <1>5, Busy DEF Backup
  <2>2. saved'.state # "whole" => saved'.managed = {}
    BY <1>5, <2>1 DEF Backup, Prepared, File
  <2>. QED
    BY <1>5, <2>2 DEF Backup, Goto, Prepared
<1>6. CASE NothingThere \/ WriteProfile
  BY <1>6, ExitPrepared DEF NothingThere, WriteProfile, Done, files, Prepared
<1>7. CASE CannotRead \/ Die
  BY <1>7, ExitPrepared DEF CannotRead, Die, Failed, files, Prepared
<1>8. CASE PrepareRegistration
  <2>1. op \in Commands /\ Original \in Files
    BY <1>8, Busy DEF PrepareRegistration, Original, TypeOK
  <2>2. text' = Merged(Original, inputs') /\ inputs' = Resolved(op)
        /\ Registers(op) /\ pc' = "write" /\ UNCHANGED <<surface, manifest, op, saved>>
    BY <1>8 DEF PrepareRegistration, Goto, files
  <2>3. text'.state = "whole" /\ text'.managed = {inputs'}
    BY <2>1, <2>2 DEF Merged, Files
  <2>. QED
    BY <2>2, <2>3 DEF Prepared, Resolved, Registers
<1>9. CASE Refuse
  BY <1>9 DEF Refuse, Goto, Prepared, files, locals
<1>10. CASE PrepareRemoval
  <2>1. op \in Commands /\ File \in Files
    BY <1>10, Busy DEF PrepareRemoval
  <2>2. text' = Removed(File) /\ File.state = "whole"
        /\ ~Registers(op) /\ pc' = "write" /\ UNCHANGED <<surface, manifest, op, saved>>
    BY <1>10 DEF PrepareRemoval, Goto, files
  <2>3. text'.state = "whole" /\ text'.managed = {}
    BY <2>1, <2>2 DEF Removed, Files
  <2>. QED
    BY <2>2, <2>3 DEF Prepared, Registers
<1>11. CASE Truncate
  <2>1. Target(op) \in Surfaces
    BY <1>11, Busy DEF Truncate
  <2>2. Truncated(Target(op)).managed = {}
    BY DEF Truncated, Missing
  <2>3. \A g \in Surfaces :
          surface'[g] = IF g = Target(op) THEN Truncated(Target(op)) ELSE surface[g]
    BY <1>11, <2>1 DEF Truncate, Store, TypeOK
  <2>4. pc = "write" /\ pc' = "flush" /\ UNCHANGED <<manifest, op, text, saved, inputs>>
    BY <1>11 DEF Truncate, Goto, locals
  <2>. QED
    BY <2>2, <2>3, <2>4 DEF Prepared, Resolved, Registers
<1>12. CASE Flush
  <2>1. Target(op) \in Surfaces
    BY <1>12, Busy DEF Flush
  <2>2. \A g \in Surfaces : surface'[g] = IF g = Target(op) THEN text ELSE surface[g]
    BY <1>12, <2>1 DEF Flush, Store, TypeOK
  <2>3. \A g \in Surfaces : surface'[g].state # "whole" => surface'[g].managed = {}
    BY <2>2 DEF Prepared
  <2>4. CASE Registers(op)
    <3>1. pc = "flush" /\ pc' = "manifest" /\ UNCHANGED <<manifest, op, text, saved, inputs>>
      BY <1>12, <2>4 DEF Flush, Continue, Goto, locals
    <3>2. surface'[Target(op)].managed = {inputs}
      BY <2>1, <2>2, <2>4, <3>1 DEF Prepared
    <3>3. Target(op)' = Target(op) /\ Resolved(op)' = Resolved(op) /\ Registers(op)'
      BY <2>4, <3>1 DEF Target, Resolved, Registers
    <3>. QED
      BY <2>3, <3>1, <3>2, <3>3 DEF Prepared
  <2>5. CASE ~Registers(op)
    BY <1>12, <2>3, <2>5, ExitPrepared DEF Flush, Done
  <2>. QED
    BY <2>4, <2>5
<1>13. CASE WriteRaises
  <2>1. Target(op) \in Surfaces
    BY <1>13, Busy DEF WriteRaises
  <2>2. \A part : Interrupted(part).managed = {}
    BY DEF Interrupted, TypeOK, Files
  <2>3. \A g \in Surfaces : surface'[g].state # "whole" => surface'[g].managed = {}
    BY <1>13, <2>2 DEF WriteRaises, Store, TypeOK, Prepared, Surfaces
  <2>4. CASE Continue("restore")
    BY <2>3, <2>4 DEF Continue, Goto, Prepared, locals
  <2>5. CASE Failed
    BY <2>3, <2>5, ExitPrepared DEF Failed
  <2>. QED
    BY <1>13, <2>4, <2>5 DEF WriteRaises
<1>14. CASE Restore
  <2>1. Target(op) \in Surfaces
    BY <1>14, Busy DEF Restore
  <2>2. \A g \in Surfaces : surface'[g] = IF g = Target(op) THEN saved ELSE surface[g]
    BY <1>14, <2>1 DEF Restore, Store, TypeOK
  <2>. QED
    BY <1>14, <2>2, ExitPrepared DEF Restore, Failed, Prepared
<1>15. CASE TruncateManifest
  <2>1. pc = "manifest" /\ pc' = "manifestFlush" /\ manifest'.gen = manifest.gen
        /\ UNCHANGED <<surface, op, text, saved, inputs>>
    BY <1>15 DEF TruncateManifest, Goto, locals, TypeOK, Manifests
  <2>2. Target(op)' = Target(op) /\ Resolved(op)' = Resolved(op)
        /\ Registers(op)' = Registers(op)
    BY <2>1 DEF Target, Resolved, Registers
  <2>. QED
    BY <2>1, <2>2 DEF Prepared
<1>16. CASE FlushManifest
  <2>1. CASE op.kind = "install"
    BY <1>16, <2>1 DEF FlushManifest, Continue, Goto, Prepared, locals
  <2>2. CASE op.kind # "install"
    BY <1>16, <2>2, ExitPrepared DEF FlushManifest, Done, Prepared
  <2>. QED
    BY <2>1, <2>2
<1>17. CASE UNCHANGED vars
  BY <1>17 DEF vars, Prepared, Resolved, Target, Registers
<1>. QED
  BY <1>1, <1>2, <1>3, <1>4, <1>5, <1>6, <1>7, <1>8, <1>9, <1>10, <1>11, <1>12,
     <1>13, <1>14, <1>15, <1>16, <1>17 DEF Next, Step

\* Every step keeps what the history tells.
LEMMA StepTold ==
  ASSUME TypeOK, Prepared, WiringTold, RemovalTold, [Next]_vars
  PROVE  WiringTold' /\ RemovalTold'
<1>1. ASSUME NEW f \in Surfaces, NEW x \in Entries, Edit(f, x) \/ EditAtRisk(f, x)
      PROVE  WiringTold' /\ RemovalTold'
  <2>1. /\ surface' = [surface EXCEPT ![f] =
                         [surface[f] EXCEPT !.state = "whole", !.entries = @ \cup {x}]]
        /\ UNCHANGED <<manifest, op, pc, recent>>
    BY <1>1 DEF Edit, EditAtRisk, Store, locals
  <2>2. surface[f] \in Files
    BY DEF TypeOK
  <2>3. \A g \in Surfaces : surface'[g].managed = surface[g].managed
    BY <2>1, <2>2 DEF Files, TypeOK
  <2>4. UNCHANGED <<recent, op, pc>> /\ manifest' = manifest
    BY <2>1
  <2>. QED
    BY <2>3, <2>4, IdleTold
<1>2. CASE Clear
  <2>1. pc = "idle" /\ UNCHANGED <<recent, op, pc>>
        /\ (manifest' = manifest \/ manifest.state # "whole")
    BY <1>2 DEF Clear
  <2>2. Missing.managed = {}
    BY DEF Missing
  <2>3. \A g \in Surfaces : surface'[g].managed = surface[g].managed
    BY <1>2, <2>2 DEF Clear, Store, TypeOK, Prepared
  <2>. QED
    BY <2>1, <2>3, IdleTold
<1>3. ASSUME NEW c \in Commands, Start(c)
      PROVE  WiringTold' /\ RemovalTold'
  <2>1. pc = "idle" /\ pc' # "idle" /\ UNCHANGED <<recent, surface, manifest>>
    BY <1>3 DEF Start, Goto, files
  <2>. QED
    BY <2>1, StayTold
<1>4. CASE \/ ReadOriginal \/ Backup \/ PrepareRegistration \/ Refuse
           \/ PrepareRemoval
  <2>1. pc # "idle" /\ pc' # "idle" /\ UNCHANGED <<recent, surface, manifest, op>>
    BY <1>4 DEF ReadOriginal, Backup, PrepareRegistration, Refuse,
                PrepareRemoval, Goto, files, locals
  <2>. QED
    BY <2>1, StayTold
<1>5. CASE Truncate
  <2>1. pc # "idle" /\ pc' # "idle" /\ UNCHANGED <<recent, manifest, op>>
    BY <1>5 DEF Truncate, Goto, locals
  <2>2. Target(op) \in Surfaces
    BY <2>1, Busy
  <2>3. Truncated(Target(op)).managed = {}
    BY DEF Truncated, Missing
  <2>4. \A g \in Surfaces :
          surface'[g] = IF g = Target(op) THEN Truncated(Target(op)) ELSE surface[g]
    BY <1>5, <2>2 DEF Truncate, Store, TypeOK
  <2>. QED
    BY <2>1, <2>3, <2>4, StayTold
<1>6. CASE Flush
  <2>1. pc = "flush" /\ UNCHANGED manifest /\ op \in Commands
    BY <1>6, Busy DEF Flush
  <2>2. Target(op) \in Surfaces
    BY <2>1, TargetType
  <2>3. \A g \in Surfaces : surface'[g] = IF g = Target(op) THEN text ELSE surface[g]
    BY <1>6, <2>2 DEF Flush, Store, TypeOK
  <2>4. op.kind \in Removals => text.managed = {} /\ ~Registers(op)
    BY <2>1, KindsOfCommands DEF Prepared, Wirings, Removals
  <2>5. CASE Registers(op)
    <3>1. pc # "idle" /\ pc' # "idle" /\ UNCHANGED <<recent, op>>
      BY <1>6, <2>1, <2>5 DEF Flush, Continue, Goto, locals
    <3>. QED
      BY <2>1, <2>3, <2>4, <3>1, StayTold
  <2>6. CASE ~Registers(op)
    <3>1. Done /\ op.kind \notin Wirings
      BY <1>6, <2>1, <2>6, KindsOfCommands DEF Flush
    <3>2. op.kind \in Removals => surface'[Target(op)].managed = {}
      BY <2>2, <2>3, <2>4
    <3>3. \A f \in Surfaces \ {Target(op)} : surface'[f] = surface[f]
      BY <2>3
    <3>. QED
      BY <2>1, <3>1, <3>2, <3>3, DoneTold
  <2>. QED
    BY <2>5, <2>6
<1>7. CASE WriteRaises
  <2>1. CASE Continue("restore")
    <3>1. pc = "flush" /\ pc' # "idle" /\ UNCHANGED <<recent, manifest, op>>
      BY <1>7, <2>1 DEF WriteRaises, Continue, Goto, locals
    <3>2. op \in Commands
      BY <3>1, Busy
    <3>3. op.kind = "mcp" => Target(op) = "config" /\ op.kind \notin Removals
      BY DEF Target, Removals
    <3>4. \A g \in Surfaces :
            \/ surface'[g] = surface[g]
            \/ g = Target(op) /\ op.kind \notin Removals
      BY <1>7, <3>3 DEF WriteRaises, Store, TypeOK
    <3>. QED
      BY <3>1, <3>4, StayTold
  <2>2. CASE Failed
    BY <2>2, FailedTold
  <2>. QED
    BY <1>7, <2>1, <2>2 DEF WriteRaises
<1>8. CASE CannotRead \/ Restore \/ Die
  BY <1>8, FailedTold DEF CannotRead, Restore, Die
<1>9. CASE NothingThere
  <2>1. Done /\ pc # "idle" /\ UNCHANGED surface /\ File.state = "missing"
        /\ ~Registers(op)
    BY <1>9 DEF NothingThere, files
  <2>2. op \in Commands /\ Target(op) \in Surfaces
    BY <2>1, Busy
  <2>3. op.kind \notin Wirings
    BY <2>1, <2>2, KindsOfCommands
  <2>4. surface[Target(op)].managed = {}
    BY <2>1, <2>2 DEF Prepared, File
  <2>. QED
    BY <2>1, <2>3, <2>4, DoneTold
<1>10. CASE TruncateManifest
  <2>1. pc # "idle" /\ pc' # "idle" /\ UNCHANGED <<recent, surface, op>>
        /\ manifest'.gen = manifest.gen
    BY <1>10 DEF TruncateManifest, Goto, locals, TypeOK, Manifests
  <2>. QED
    BY <2>1, StayTold
<1>11. CASE FlushManifest
  <2>1. pc = "manifestFlush" /\ UNCHANGED surface /\ manifest' = [state |-> "whole", gen |-> inputs]
    BY <1>11 DEF FlushManifest
  <2>2. op \in Commands
    BY <2>1, Busy
  <2>3. /\ Registers(op)
        /\ surface[Target(op)].managed = {inputs}
        /\ inputs = Resolved(op)
    BY <2>1 DEF Prepared
  <2>4. CASE op.kind = "install"
    <3>1. pc' # "idle" /\ UNCHANGED <<recent, op>>
      BY <1>11, <2>4 DEF FlushManifest, Continue, Goto, locals
    <3>2. WiringTold' /\ RemovalTold'
      BY <2>4, <3>1 DEF WiringTold, RemovalTold, Wirings, Removals
    <3>. QED
      BY <3>2
  <2>5. CASE op.kind # "install"
    <3>1. Done
      BY <1>11, <2>5 DEF FlushManifest
    <3>2. op.kind \notin Removals
      BY <2>2, <2>3, KindsOfCommands DEF Wirings, Removals
    <3>. QED
      BY <2>1, <2>3, <3>1, <3>2, DoneTold
  <2>. QED
    BY <2>4, <2>5
<1>12. CASE WriteProfile
  <2>1. Done /\ pc # "idle" /\ UNCHANGED surface /\ op.kind = "install"
    BY <1>12 DEF WriteProfile, files, Prepared
  <2>2. op.kind \notin Wirings /\ op.kind \notin Removals
    BY <2>1 DEF Wirings, Removals
  <2>. QED
    BY <2>1, <2>2, DoneTold
<1>13. CASE UNCHANGED vars
  <2>1. /\ UNCHANGED <<recent, op, pc>> /\ manifest' = manifest
        /\ \A g \in Surfaces : surface'[g].managed = surface[g].managed
    BY <1>13 DEF vars
  <2>. QED
    BY <2>1, IdleTold
<1>. QED
  BY <1>1, <1>2, <1>3, <1>4, <1>5, <1>6, <1>7, <1>8, <1>9, <1>10, <1>11, <1>12,
     <1>13 DEF Next, Step

\* The three parts hold in every state.
LEMMA ToldAlways == Spec => [](Prepared /\ WiringTold /\ RemovalTold)
<1>1. Init => Prepared /\ WiringTold /\ RemovalTold
  BY DEF Init, Missing, Prepared, WiringTold, RemovalTold
<1>2. TypeOK /\ Guarded /\ Prepared /\ WiringTold /\ RemovalTold /\ [Next]_vars
        => (Prepared /\ WiringTold /\ RemovalTold)'
  BY StepPrepared, StepTold DEF Guarded
<1> QED
  BY <1>1, <1>2, TypeCorrect, GuardedAlways, PTL DEF Spec

\* Registering hooks and MCP, and the first of the two once more with the same
\* argument, brings config.toml, the hooks of the user and the manifest to one
\* generation, whatever was there, however earlier commands ended, and whatever
\* the user does to the files in between: the manifest carries the argument of
\* each registration to the next (resolve_runtime_generation_inputs).
THEOREM ThreeAgree == Spec => []AgreeAfterThree
<1>1. TypeOK /\ Guarded /\ WiringTold => AgreeAfterThree
  <2> SUFFICES ASSUME TypeOK, Guarded, WiringTold, pc = "idle", Len(recent) = 3,
                      Kinds(recent) = {"hooks", "mcp"}, recent[1] = recent[3]
               PROVE  /\ Candidates \subseteq {manifest.gen} \cup surface["repo"].managed
                      /\ surface["repo"].managed = {} => Consensus
    BY DEF AgreeAfterThree
  <2> DEFINE l == recent[3]
             b == recent[2]
  <2>1. recent # <<>>
    BY EmptySeq
  <2>2. Latest(recent) = l /\ Former(recent) = b
    BY DEF Latest, Former
  <2>3. l \in Commands /\ b \in Commands
    BY HistoryType
  <2>4. l.kind \in Wirings
    BY DEF Kinds, Wirings
  <2>5. /\ b.kind \in Wirings \ {l.kind}
        /\ surface[Target(l)].managed = {manifest.gen}
        /\ Carries(manifest.gen, l)
        /\ Carries(manifest.gen, b)
    BY <2>1, <2>2, <2>4 DEF WiringTold
  <2>6. PICK g \in Generations :
          /\ surface[Target(b)].managed = {g}
          /\ Carries(g, b)
          /\ Carries(g, recent[1])
    BY <2>1, <2>2, <2>4 DEF WiringTold
  <2>7. manifest.gen \in Generations
    BY DEF TypeOK, Manifests
  <2>8. g.hook = manifest.gen.hook /\ g.mcp = manifest.gen.mcp
    BY <2>4, <2>5, <2>6 DEF Carries, Wirings
  <2>9. g = manifest.gen
    BY <2>7, <2>8 DEF Generations
  <2>10. {Target(l), Target(b)} = {"user", "config"}
    BY <2>4, <2>5 DEF Target, Wirings
  <2>11. /\ surface["user"].managed = {manifest.gen}
         /\ surface["config"].managed = {manifest.gen}
    BY <2>5, <2>6, <2>9, <2>10
  <2>0. surface["config"].rest = {}
    BY <2>11 DEF Guarded, OneBlockEach, OneBlockIn, Surfaces
  <2>12. Candidates = {manifest.gen} \cup surface["repo"].managed
    BY <2>0, <2>11 DEF Candidates, Surfaces
  <2>13. Cardinality({manifest.gen}) = 1
    BY FS_Singleton
  <2>. QED
    BY <2>12, <2>13 DEF Consensus
<1> QED
  BY <1>1, TypeCorrect, GuardedAlways, ToldAlways, PTL

\* Unregistering hooks and MCP and rolling back, in any order, takes away every
\* managed registration, and every generation but that in the rest of a block an
\* interrupted registration has left (remove_managed_hooks,
\* remove_managed_mcp_block).
THEOREM RemovalIsFull == Spec => []FullRemoval
<1>1. TypeOK /\ Guarded /\ RemovalTold => FullRemoval
  <2> SUFFICES ASSUME TypeOK, Guarded, RemovalTold, pc = "idle",
                      Kinds(recent) = {"unhooks", "unmcp", "rollback"}
               PROVE  /\ \A f \in Surfaces : surface[f].managed = {}
                      /\ ~surface["config"].cut => Candidates = {}
    BY DEF FullRemoval
  <2>1. recent # <<>>
    <3>1. CASE recent = <<>>
      <4>1. Len(recent) = 0
        BY <3>1, EmptySeq
      <4>2. Kinds(recent) = {}
        BY <4>1 DEF Kinds
      <4>. QED
        BY <4>2
    <3>. QED
      BY <3>1
  <2>2. Len(recent) \in 1 .. 3
    BY <2>1, HistoryType
  <2>3. Latest(recent).kind \in Removals
    <3>1. recent[Len(recent)].kind \in Kinds(recent)
      BY <2>2 DEF Kinds
    <3>. QED
      BY <3>1 DEF Latest, Removals
  <2>4. \A k \in 1 .. Len(recent) : surface[Target(recent[k])].managed = {}
    BY <2>1, <2>3 DEF RemovalTold
  <2>5. ASSUME NEW f \in Surfaces
        PROVE  \E k \in 1 .. Len(recent) : Target(recent[k]) = f
    <3>1. PICK kind \in {"unhooks", "unmcp", "rollback"} :
            kind = IF f = "repo" THEN "rollback" ELSE IF f = "user" THEN "unhooks" ELSE "unmcp"
      OBVIOUS
    <3>2. PICK k \in 1 .. Len(recent) : recent[k].kind = kind
      BY <3>1 DEF Kinds
    <3>. QED
      BY <3>1, <3>2 DEF Target, Surfaces
  <2>6. \A f \in Surfaces : surface[f].managed = {}
    BY <2>4, <2>5
  <2>7. surface["config"].rest # {} => surface["config"].cut
    BY DEF Guarded, OneBlockEach, OneBlockIn, Surfaces
  <2>. QED
    BY <2>6, <2>7 DEF Candidates
<1> QED
  BY <1>1, TypeCorrect, GuardedAlways, ToldAlways, PTL

(***************************************************************************)
(* The doctor: types, and what it has seen of those at work.               *)
(***************************************************************************)

\* The doctor's steps and those of the resident process leave the files of a
\* registration alone, so all that was proved of them holds here as well.
LEMMA DoctorKeeps ==
  ASSUME [DoctorNext]_dvars
  PROVE  [Next]_vars
BY DEF DoctorNext, DoctorStep, dvars, DoctorStart, Read, ReadRaises, DoctorEnd

Views ==
  [config : SUBSET Generations, block : BOOLEAN, user : SUBSET Generations,
   repo : SUBSET Generations, manifest : SUBSET Generations,
   resident : SUBSET Generations]

\* Types of the variables Doctor adds.
DoctorTyped ==
  /\ resident \in [state : {"missing", "torn", "whole"}, gen : SUBSET Generations]
  /\ run \in [at : {"idle", "write", "flush"}, gen : SUBSET Generations, killed : BOOLEAN]
  /\ doctor \in [next : 0 .. 7, raised : BOOLEAN, view : Views, quiet : BOOLEAN,
                 ordered : BOOLEAN, writing : BOOLEAN, writers : Nat]

\* What is read when.
LEMMA ReadingIs ==
  /\ Len(Reading) = 6
  /\ Reading[1] = "profile" /\ Reading[2] = "config" /\ Reading[3] = "user"
  /\ Reading[4] = "repo" /\ Reading[5] = "manifest" /\ Reading[6] = "resident"
BY DEF Reading

\* The file that is read now.
LEMMA ItemIs ==
  ASSUME DoctorTyped, Asked
  PROVE  /\ doctor.next \in 1 .. 6
         /\ Item = CASE doctor.next = 1 -> "profile" [] doctor.next = 2 -> "config"
                     [] doctor.next = 3 -> "user" [] doctor.next = 4 -> "repo"
                     [] doctor.next = 5 -> "manifest" [] doctor.next = 6 -> "resident"
<1>1. doctor.next \in 0 .. 7
  BY DEF DoctorTyped
<1>2. doctor.next \in 1 .. 6
  BY <1>1, ReadingIs DEF Asked, Answered
<1>. QED
  BY <1>2, ReadingIs DEF Item

\* At most one command and one run of the resident process are at work.
LEMMA AtWorkIs ==
  /\ AtWork \in 0 .. 3
  /\ pc # "idle" => AtWork >= 1
  /\ pc # "idle" /\ op.kind = "install" => AtWork >= 2
  /\ pc # "idle" /\ run.at # "idle" => AtWork >= 2
  /\ run.at # "idle" => AtWork >= 1
  /\ pc = "idle" /\ run.at = "idle" => AtWork = 0
BY DEF AtWork

\* The fields of the doctor's record after a step of another.
LEMMA WatchFields ==
  ASSUME DoctorTyped, Watch
  PROVE  /\ doctor.next \in 0 .. 6 /\ doctor'.next = doctor.next
         /\ doctor'.raised = doctor.raised /\ doctor'.view = doctor.view
         /\ ~Asked => doctor.next = 0 /\ doctor' = doctor
         /\ Asked =>
              /\ doctor'.quiet = FALSE
              /\ doctor'.ordered = (doctor.ordered \/ InOrder')
              /\ doctor'.writing = (doctor.writing \/ Writing')
              /\ doctor'.writers = IF AtWork' > AtWork
                                   THEN doctor.writers + AtWork' - AtWork
                                   ELSE doctor.writers
<1>1. doctor.next \in 0 .. 6 /\ (~Asked => doctor.next = 0)
  BY ReadingIs DEF DoctorTyped, Watch, Answered, Asked
<1>. QED
  BY <1>1 DEF DoctorTyped, Watch

\* The fields of the doctor's record after a look at a file.
LEMMA ReadFields ==
  ASSUME TypeOK, DoctorTyped, Read
  PROVE  /\ Asked /\ ItemState # "torn"
         /\ doctor'.next = doctor.next + 1
         /\ doctor'.raised = doctor.raised /\ doctor'.quiet = doctor.quiet
         /\ doctor'.ordered = doctor.ordered /\ doctor'.writing = doctor.writing
         /\ doctor'.writers = doctor.writers
         /\ doctor'.view \in Views
         /\ Item # "config" => /\ doctor'.view.config = doctor.view.config
                               /\ doctor'.view.block = doctor.view.block
         /\ Item # "user" => doctor'.view.user = doctor.view.user
         /\ Item # "repo" => doctor'.view.repo = doctor.view.repo
         /\ Item # "manifest" => doctor'.view.manifest = doctor.view.manifest
         /\ Item # "resident" => doctor'.view.resident = doctor.view.resident
         /\ Item = "config" =>
              /\ doctor'.view.block = (surface["config"].managed # {})
              /\ doctor'.view.config =
                   surface["config"].managed \cup surface["config"].rest
         /\ Item = "user" => doctor'.view.user = surface["user"].managed
         /\ Item = "repo" => doctor'.view.repo = surface["repo"].managed
         /\ Item = "manifest" =>
              doctor'.view.manifest =
                IF manifest.state = "whole" THEN {manifest.gen} ELSE {}
         /\ Item = "resident" => doctor'.view.resident = resident.gen
<1>1. Asked /\ ItemState # "torn"
  BY DEF Read
<1>2. Item \in {"profile", "config", "user", "repo", "manifest", "resident"}
  BY <1>1, ItemIs
<1>3. doctor.view \in Views
  BY DEF DoctorTyped
<1>4. CASE Item = "profile"
  <2>1. doctor' = [doctor EXCEPT !.next = @ + 1]
    BY <1>4 DEF Read
  <2>. QED
    BY <1>1, <1>3, <1>4, <2>1 DEF DoctorTyped
<1>5. CASE Item = "config"
  <2>1. ReadConfig
    BY <1>5 DEF Read
  <2> DEFINE gens == surface["config"].managed \cup surface["config"].rest
  <2>2. doctor' = [doctor EXCEPT !.next = @ + 1,
                                 !.view.config = gens,
                                 !.view.block = surface["config"].managed # {}]
    BY <2>1 DEF ReadConfig
  <2>3. /\ surface["config"].managed \in SUBSET Generations
        /\ surface["config"].rest \in SUBSET Generations
    BY DEF TypeOK, Surfaces, Files
  <2>4. gens \in SUBSET Generations
    BY <2>3
  <2>5. doctor'.view = [doctor.view EXCEPT !.config = gens,
                                           !.block = surface["config"].managed # {}]
    BY <2>2 DEF DoctorTyped
  <2>6. doctor'.view \in Views
    BY <1>3, <2>4, <2>5 DEF Views
  <2>7. /\ doctor'.view.config = gens
        /\ doctor'.view.block = (surface["config"].managed # {})
        /\ doctor'.view.user = doctor.view.user
        /\ doctor'.view.repo = doctor.view.repo
        /\ doctor'.view.manifest = doctor.view.manifest
        /\ doctor'.view.resident = doctor.view.resident
    BY <1>3, <2>5 DEF Views
  <2>8. /\ doctor'.next = doctor.next + 1
        /\ doctor'.raised = doctor.raised /\ doctor'.quiet = doctor.quiet
        /\ doctor'.ordered = doctor.ordered /\ doctor'.writing = doctor.writing
        /\ doctor'.writers = doctor.writers
    BY <2>2 DEF DoctorTyped
  <2>. QED
    BY <1>1, <1>5, <2>2, <2>6, <2>7, <2>8
<1>6. ASSUME NEW f \in {"user", "repo", "manifest", "resident"},
             NEW gens \in SUBSET Generations, See(f, gens), Item = f
      PROVE  /\ doctor'.next = doctor.next + 1
             /\ doctor'.raised = doctor.raised /\ doctor'.quiet = doctor.quiet
             /\ doctor'.ordered = doctor.ordered /\ doctor'.writing = doctor.writing
             /\ doctor'.writers = doctor.writers
             /\ doctor'.view \in Views
             /\ doctor'.view = [doctor.view EXCEPT ![f] = gens]
  <2>1. doctor' = [doctor EXCEPT !.next = @ + 1, !.view[f] = gens]
    BY <1>6 DEF See
  <2>2. doctor'.view = [doctor.view EXCEPT ![f] = gens]
    BY <2>1 DEF DoctorTyped
  <2>3. doctor'.view \in Views
    BY <1>3, <2>2 DEF Views
  <2>. QED
    BY <2>1, <2>2, <2>3 DEF DoctorTyped
<1>7. CASE Item = "user"
  <2> DEFINE gens == surface["user"].managed
  <2>1. gens \in SUBSET Generations /\ See("user", gens)
    BY <1>7 DEF Read, TypeOK, Surfaces, Files
  <2> HIDE DEF gens
  <2>2. doctor'.view = [doctor.view EXCEPT !["user"] = gens] /\ doctor'.view \in Views
    BY <1>6, <1>7, <2>1
  <2>3. doctor'.view.user = gens
    BY <1>3, <2>2 DEF Views
  <2>. QED
    BY <1>1, <1>3, <1>6, <1>7, <2>1, <2>2, <2>3 DEF Views, gens
<1>8. CASE Item = "repo"
  <2> DEFINE gens == surface["repo"].managed
  <2>1. gens \in SUBSET Generations /\ See("repo", gens)
    BY <1>8 DEF Read, TypeOK, Surfaces, Files
  <2> HIDE DEF gens
  <2>2. doctor'.view = [doctor.view EXCEPT !["repo"] = gens] /\ doctor'.view \in Views
    BY <1>6, <1>8, <2>1
  <2>3. doctor'.view.repo = gens
    BY <1>3, <2>2 DEF Views
  <2>. QED
    BY <1>1, <1>3, <1>6, <1>8, <2>1, <2>2, <2>3 DEF Views, gens
<1>9. CASE Item = "manifest"
  <2> DEFINE gens == IF manifest.state = "whole" THEN {manifest.gen} ELSE {}
  <2>1. gens \in SUBSET Generations /\ See("manifest", gens)
    BY <1>9 DEF Read, TypeOK, Manifests
  <2> HIDE DEF gens
  <2>2. doctor'.view = [doctor.view EXCEPT !["manifest"] = gens] /\ doctor'.view \in Views
    BY <1>6, <1>9, <2>1
  <2>3. doctor'.view.manifest = gens
    BY <1>3, <2>2 DEF Views
  <2>. QED
    BY <1>1, <1>3, <1>6, <1>9, <2>1, <2>2, <2>3 DEF Views, gens
<1>10. CASE Item = "resident"
  <2> DEFINE gens == resident.gen
  <2>1. gens \in SUBSET Generations /\ See("resident", gens)
    BY <1>10 DEF Read, DoctorTyped
  <2> HIDE DEF gens
  <2>2. doctor'.view = [doctor.view EXCEPT !["resident"] = gens] /\ doctor'.view \in Views
    BY <1>6, <1>10, <2>1
  <2>3. doctor'.view.resident = gens
    BY <1>3, <2>2 DEF Views
  <2>. QED
    BY <1>1, <1>3, <1>6, <1>10, <2>1, <2>2, <2>3 DEF Views, gens
<1>. QED
  BY <1>2, <1>4, <1>5, <1>7, <1>8, <1>9, <1>10

\* A doctor that has not been asked has the record NotAsked.
LEMMA NotAskedTyped ==
  NotAsked \in [next : 0 .. 7, raised : BOOLEAN, view : Views, quiet : BOOLEAN,
                ordered : BOOLEAN, writing : BOOLEAN, writers : Nat]
BY DEF NotAsked, NothingSeen, Views

\* The fields of the record of a doctor that is asked.
LEMMA StartFields ==
  ASSUME DoctorStart
  PROVE  /\ doctor.next = 0 /\ doctor'.next = 1
         /\ doctor'.raised = FALSE /\ doctor'.quiet = TRUE
         /\ doctor'.view = NothingSeen
         /\ doctor'.ordered = InOrder /\ doctor'.writing = Writing
         /\ doctor'.writers = AtWork
BY DEF DoctorStart, NotAsked

\* Every step keeps the types.
LEMMA StepDoctorTyped ==
  ASSUME TypeOK, DoctorTyped, [DoctorNext]_dvars
  PROVE  DoctorTyped'
<1> DEFINE Residents == [state : {"missing", "torn", "whole"}, gen : SUBSET Generations]
           Processes == [at : {"idle", "write", "flush"}, gen : SUBSET Generations,
                     killed : BOOLEAN]
           Doctors == [next : 0 .. 7, raised : BOOLEAN, view : Views, quiet : BOOLEAN,
                       ordered : BOOLEAN, writing : BOOLEAN, writers : Nat]
<1>1. ASSUME Watch
      PROVE  doctor' \in Doctors
  <2>1. CASE ~Asked
    BY <1>1, <2>1, WatchFields DEF DoctorTyped
  <2>2. CASE Asked
    <3> DEFINE n == IF AtWork' > AtWork THEN doctor.writers + AtWork' - AtWork
                    ELSE doctor.writers
    <3>1. AtWork \in 0 .. 3 /\ AtWork' \in 0 .. 3
      BY AtWorkIs DEF AtWork
    <3>2. n \in Nat
      BY <3>1 DEF DoctorTyped
    <3>3. doctor' = [doctor EXCEPT !.quiet = FALSE, !.ordered = @ \/ InOrder',
                                   !.writing = @ \/ Writing', !.writers = n]
      BY <1>1, <2>2 DEF Watch
    <3>4. (doctor.ordered \/ InOrder') \in BOOLEAN /\ (doctor.writing \/ Writing') \in BOOLEAN
      BY DEF DoctorTyped, InOrder, Writing
    <3> HIDE DEF n
    <3>. QED
      BY <3>2, <3>3, <3>4 DEF DoctorTyped
  <2>. QED
    BY <2>1, <2>2
<1>2. CASE Next /\ UNCHANGED <<resident, run>> /\ Watch
  BY <1>1, <1>2 DEF DoctorTyped
<1>3. CASE ResidentStep /\ UNCHANGED vars /\ Watch
  <2>1. manifest.gen \in Generations
    BY DEF TypeOK, Manifests
  <2>2. resident' \in Residents
    BY <1>3 DEF ResidentStep, ResidentRead, ResidentTruncate, ResidentFlush,
                ResidentDie, DoctorTyped, NoState
  <2>3. run' \in Processes
    <3>1. CASE ResidentRead
      BY <2>1, <3>1 DEF ResidentRead, DoctorTyped
    <3>2. CASE ResidentTruncate
      BY <3>2 DEF ResidentTruncate, DoctorTyped
    <3>3. CASE ResidentFlush
      BY <3>3 DEF ResidentFlush, DoctorTyped
    <3>4. CASE ResidentDie
      BY <3>4 DEF ResidentDie, NoRun
    <3>. QED
      BY <1>3, <3>1, <3>2, <3>3, <3>4 DEF ResidentStep
  <2>. QED
    BY <1>1, <1>3, <2>2, <2>3 DEF DoctorTyped
<1>4. CASE DoctorStart /\ UNCHANGED <<vars, resident, run>>
  <2>1. doctor' = [NotAsked EXCEPT !.next = 1, !.ordered = InOrder,
                                   !.writing = Writing, !.writers = AtWork]
    BY <1>4 DEF DoctorStart
  <2>2. InOrder \in BOOLEAN /\ Writing \in BOOLEAN /\ AtWork \in Nat
    BY AtWorkIs DEF InOrder, Writing
  <2>3. doctor' \in Doctors
    <3> DEFINE o == InOrder
               w == Writing
               n == AtWork
    <3>1. o \in BOOLEAN /\ w \in BOOLEAN /\ n \in Nat
      BY <2>2
    <3>2. doctor' = [next |-> 1, raised |-> FALSE, view |-> NothingSeen, quiet |-> TRUE,
                     ordered |-> o, writing |-> w, writers |-> n]
      BY <2>1 DEF NotAsked
    <3>3. NothingSeen \in Views
      BY DEF NothingSeen, Views
    <3> HIDE DEF o, w, n
    <3>. QED
      BY <3>1, <3>2, <3>3
  <2>. QED
    BY <1>4, <2>3 DEF DoctorTyped
<1>5. CASE Read /\ UNCHANGED <<vars, resident, run>>
  <2>1. doctor.next \in 1 .. 6 /\ doctor'.view \in Views
    BY <1>5, ReadFields, ItemIs
  <2>2. \/ \E v : doctor' = [doctor EXCEPT !.next = @ + 1, !.view = v]
        \/ doctor' = [doctor EXCEPT !.next = @ + 1]
    BY <1>5 DEF Read, ReadConfig, See
  <2>3. doctor' \in Doctors
    <3>1. doctor'.view \in Views
      BY <2>1
    <3>2. doctor.next + 1 \in 0 .. 7
      BY <2>1
    <3>3. CASE doctor' = [doctor EXCEPT !.next = @ + 1]
      BY <3>2, <3>3 DEF DoctorTyped
    <3>4. ASSUME NEW v, doctor' = [doctor EXCEPT !.next = @ + 1, !.view = v]
          PROVE  doctor' \in Doctors
      <4>1. v \in Views
        BY <3>1, <3>4 DEF DoctorTyped
      <4>. QED
        BY <3>2, <3>4, <4>1 DEF DoctorTyped
    <3>. QED
      BY <2>2, <3>3, <3>4
  <2>. QED
    BY <1>5, <2>3 DEF DoctorTyped
<1>6. CASE ReadRaises /\ UNCHANGED <<vars, resident, run>>
  <2>1. doctor' = [doctor EXCEPT !.next = 7, !.raised = TRUE]
    BY <1>6, ReadingIs DEF ReadRaises
  <2>2. doctor \in Doctors
    BY DEF DoctorTyped
  <2>3. [doctor EXCEPT !.next = 7] \in Doctors
    BY <2>2
  <2>4. doctor' \in Doctors
    BY <2>1, <2>3
  <2>. QED
    BY <1>6, <2>4 DEF DoctorTyped
<1>7. CASE DoctorEnd /\ UNCHANGED <<vars, resident, run>>
  BY <1>7, NotAskedTyped DEF DoctorEnd, DoctorTyped
<1>8. CASE UNCHANGED dvars
  BY <1>8 DEF dvars, DoctorTyped
<1>. QED
  BY <1>2, <1>3, <1>4, <1>5, <1>6, <1>7, <1>8 DEF DoctorNext, DoctorStep

\* From the moment it is asked the doctor's history has all that were at work,
\* every moment in which all was in order, and every write.
Watched ==
  doctor.next > 0 =>
    /\ AtWork <= doctor.writers
    /\ InOrder => doctor.ordered
    /\ Writing => doctor.writing

\* Every step keeps Watched.
LEMMA StepWatched ==
  ASSUME TypeOK, DoctorTyped, Watched, [DoctorNext]_dvars
  PROVE  Watched'
<1>1. CASE Watch
  <2>1. CASE ~Asked
    <3>1. doctor'.next = 0
      BY <1>1, <2>1, WatchFields
    <3>. QED
      BY <3>1 DEF Watched
  <2>2. CASE Asked
    <3>1. AtWork \in 0 .. 3 /\ AtWork' \in 0 .. 3 /\ doctor.writers \in Nat
      BY AtWorkIs DEF AtWork, DoctorTyped
    <3>2. AtWork <= doctor.writers
      BY <2>2 DEF Watched, Asked
    <3>3. doctor'.writers = IF AtWork' > AtWork THEN doctor.writers + AtWork' - AtWork
                            ELSE doctor.writers
      BY <1>1, <2>2, WatchFields
    <3>4. AtWork' <= doctor'.writers
      BY <3>1, <3>2, <3>3
    <3>5. (InOrder' => doctor'.ordered) /\ (Writing' => doctor'.writing)
      BY <1>1, <2>2, WatchFields
    <3>. QED
      BY <3>4, <3>5 DEF Watched
  <2>. QED
    BY <2>1, <2>2
<1>2. ASSUME UNCHANGED <<vars, resident, run>>
      PROVE  AtWork' = AtWork /\ InOrder' = InOrder /\ Writing' = Writing
  BY <1>2 DEF vars, AtWork, InOrder, Writing
<1>3. CASE DoctorStart /\ UNCHANGED <<vars, resident, run>>
  <2>1. AtWork \in 0 .. 3
    BY AtWorkIs
  <2>. QED
    BY <1>2, <1>3, <2>1, StartFields DEF Watched
<1>4. CASE Read /\ UNCHANGED <<vars, resident, run>>
  <2>1. doctor.next > 0
    BY <1>4, ReadFields DEF Asked
  <2>. QED
    BY <1>2, <1>4, <2>1, ReadFields DEF Watched
<1>5. CASE ReadRaises /\ UNCHANGED <<vars, resident, run>>
  <2>1. doctor.next > 0 /\ doctor'.writers = doctor.writers
        /\ doctor'.ordered = doctor.ordered /\ doctor'.writing = doctor.writing
    BY <1>5 DEF ReadRaises, Asked, DoctorTyped
  <2>. QED
    BY <1>2, <1>5, <2>1 DEF Watched
<1>6. CASE DoctorEnd /\ UNCHANGED <<vars, resident, run>>
  BY <1>6 DEF DoctorEnd, NotAsked, Watched
<1>7. CASE UNCHANGED dvars
  BY <1>7, <1>2 DEF dvars, Watched
<1>. QED
  BY <1>1, <1>3, <1>4, <1>5, <1>6, <1>7 DEF DoctorNext, DoctorStep

\* A file that does not parse is one that is being written, or whose writer was
\* killed or failed.
TornTold ==
  /\ \A f \in Surfaces :
       surface[f].state = "torn" => (pc = "flush" /\ f = Target(op)) \/ fails > 0
  /\ saved.state = "torn" => fails > 0
  /\ manifest.state = "torn" => pc = "manifestFlush" \/ fails > 0
  /\ resident.state = "torn" => run.at = "flush" \/ run.killed

\* Commands keep the first three parts of TornTold.
LEMMA StepTornTold ==
  ASSUME TypeOK, TornIsEmpty, TornTold, [Next]_vars, UNCHANGED <<resident, run>>
  PROVE  TornTold'
<1> USE DEF TornTold
<1>0. fails \in Nat
  BY DEF TypeOK
<1>1. ASSUME NEW f \in Surfaces, NEW x \in Entries, Edit(f, x) \/ EditAtRisk(f, x)
      PROVE  TornTold'
  <2>1. /\ surface' = [surface EXCEPT ![f] =
                         [surface[f] EXCEPT !.state = "whole", !.entries = @ \cup {x}]]
        /\ UNCHANGED <<manifest, op, pc, saved, fails>>
    BY <1>1 DEF Edit, EditAtRisk, Store, locals
  <2>2. \A g \in Surfaces : surface'[g].state \in {surface[g].state, "whole"}
    BY <2>1 DEF Files, TypeOK
  <2>. QED
    BY <2>1, <2>2 DEF Target
<1>2. CASE Clear
  <2>1. \A g \in Surfaces : surface'[g] = surface[g] \/ surface'[g].state = "missing"
    BY <1>2 DEF Clear, Store, TypeOK, Missing
  <2>2. manifest' = manifest \/ manifest'.state = "missing"
    BY <1>2 DEF Clear, NoManifest
  <2>. QED
    BY <1>2, <2>1, <2>2 DEF Clear, locals
<1>3. ASSUME NEW c \in Commands, Start(c)
      PROVE  TornTold'
  BY <1>3 DEF Start, files, locals
<1>4. CASE ReadOriginal \/ PrepareRegistration \/ Refuse \/ PrepareRemoval
  BY <1>4 DEF ReadOriginal, PrepareRegistration, Refuse, PrepareRemoval, Goto,
              files, locals
<1>5. CASE Backup
  <2>1. Target(op) \in Surfaces /\ saved' = surface[Target(op)] /\ pc = "backup"
        /\ UNCHANGED <<surface, manifest, fails>>
    BY <1>5, Busy DEF Backup, File
  <2>. QED
    BY <2>1
<1>6. CASE NothingThere \/ CannotRead
  BY <1>6 DEF NothingThere, CannotRead, Done, Failed, Exit, Missing, files
<1>7. CASE Truncate
  <2>1. Target(op) \in Surfaces
    BY <1>7, Busy DEF Truncate
  <2>2. \A g \in Surfaces : g # Target(op) => surface'[g] = surface[g]
    BY <1>7, <2>1 DEF Truncate, Store, TypeOK
  <2>3. pc = "write" /\ pc' = "flush" /\ UNCHANGED <<manifest, op, saved, fails>>
    BY <1>7 DEF Truncate, Goto, locals
  <2>4. Target(op)' = Target(op)
    BY <2>3 DEF Target
  <2>. QED
    BY <2>2, <2>3, <2>4
<1>8. CASE Flush
  <2>1. Target(op) \in Surfaces
    BY <1>8, Busy DEF Flush
  <2>2. \A g \in Surfaces : surface'[g] = IF g = Target(op) THEN text ELSE surface[g]
    BY <1>8, <2>1 DEF Flush, Store, TypeOK
  <2>3. pc = "flush" /\ text.state # "torn" /\ UNCHANGED <<manifest, fails>>
    BY <1>8 DEF Flush, TornIsEmpty
  <2>4. saved' = saved \/ saved'.state = "missing"
    BY <1>8 DEF Flush, Continue, Done, Exit, Missing, locals
  <2>. QED
    BY <2>2, <2>3, <2>4
<1>9. CASE WriteRaises \/ Die
  <2>1. fails' = fails + 1
    BY <1>9 DEF WriteRaises, Die
  <2>2. fails' > 0
    BY <1>0, <2>1
  <2>. QED
    BY <2>2
<1>10. CASE Restore
  <2>1. Target(op) \in Surfaces
    BY <1>10, Busy DEF Restore
  <2>2. \A g \in Surfaces : surface'[g] = IF g = Target(op) THEN saved ELSE surface[g]
    BY <1>10, <2>1 DEF Restore, Store, TypeOK
  <2>3. pc = "restore" /\ saved'.state = "missing" /\ UNCHANGED <<manifest, fails>>
    BY <1>10 DEF Restore, Failed, Exit, Missing
  <2>. QED
    BY <2>2, <2>3
<1>11. CASE TruncateManifest
  BY <1>11 DEF TruncateManifest, Goto, locals
<1>12. CASE FlushManifest \/ WriteProfile
  <2>1. /\ surface' = surface /\ fails' = fails
        /\ pc \in {"manifestFlush", "profile"}
        /\ manifest'.state = "whole" \/ manifest' = manifest
        /\ saved' = saved \/ saved'.state = "missing"
    BY <1>12 DEF FlushManifest, WriteProfile, Continue, Done, Exit, Missing,
                 files, locals
  <2>2. pc = "manifestFlush" => manifest'.state = "whole"
    BY <1>12 DEF FlushManifest, WriteProfile
  <2>. QED
    BY <2>1, <2>2
<1>13. CASE UNCHANGED vars
  BY <1>13 DEF vars, Target
<1>. QED
  BY <1>1, <1>2, <1>3, <1>4, <1>5, <1>6, <1>7, <1>8, <1>9, <1>10, <1>11, <1>12,
     <1>13 DEF Next, Step

\* Every step of the composition keeps TornTold.
LEMMA StepTornToldAll ==
  ASSUME TypeOK, DoctorTyped, TornIsEmpty, TornTold, [DoctorNext]_dvars
  PROVE  TornTold'
<1>1. CASE UNCHANGED <<resident, run>>
  BY <1>1, DoctorKeeps, StepTornTold
<1>2. CASE ResidentStep /\ UNCHANGED vars
  <2>1. UNCHANGED <<surface, saved, manifest, pc, op, fails>>
    BY <1>2 DEF vars, locals
  <2>2. Target(op)' = Target(op)
    BY <2>1 DEF Target
  <2>3. resident'.state = "torn" => run'.at = "flush" \/ run'.killed
    <3>1. CASE ResidentRead
      BY <3>1 DEF ResidentRead, TornTold, DoctorTyped
    <3>2. CASE ResidentTruncate
      BY <3>2 DEF ResidentTruncate, DoctorTyped
    <3>3. CASE ResidentFlush
      BY <3>3 DEF ResidentFlush
    <3>4. CASE ResidentDie
      BY <3>4 DEF ResidentDie, NoRun
    <3>. QED
      BY <1>2, <3>1, <3>2, <3>3, <3>4 DEF ResidentStep
  <2>. QED
    BY <2>1, <2>2, <2>3 DEF TornTold
<1>. QED
  BY <1>1, <1>2 DEF DoctorNext, DoctorStep, dvars

\* Failures are not forgotten, nor is a resident process that was killed.
LEMMA FailuresStay ==
  ASSUME TypeOK, DoctorTyped, [DoctorNext]_dvars
  PROVE  /\ fails > 0 => fails' > 0
         /\ run.killed => run'.killed
<1>1. fails \in Nat
  BY DEF TypeOK
<1>2. fails' = fails \/ fails' = fails + 1
  <2>1. [Next]_vars
    BY DoctorKeeps
  <2>. QED
    BY <2>1 DEF Next, vars, Step, Edit, EditAtRisk, Clear, Start, ReadOriginal, Backup,
                NothingThere, CannotRead, PrepareRegistration, Refuse, PrepareRemoval,
                Truncate, Flush, WriteRaises, Restore, TruncateManifest, FlushManifest,
                WriteProfile, Die
<1>3. run.killed => run'.killed
  <2>1. CASE ResidentStep
    BY <2>1 DEF ResidentStep, ResidentRead, ResidentTruncate, ResidentFlush,
                ResidentDie, DoctorTyped, NoRun
  <2>2. CASE run' = run
    BY <2>2
  <2>. QED
    BY <2>1, <2>2 DEF DoctorNext, DoctorStep, dvars
<1>. QED
  BY <1>1, <1>2, <1>3

\* Every step keeps what is said of a doctor that was brought down.
LEMMA StepAnswers ==
  ASSUME TypeOK, DoctorTyped, Watched, TornTold, DoctorAnswers, [DoctorNext]_dvars
  PROVE  DoctorAnswers'
<1> USE DEF DoctorAnswers
<1>1. /\ fails > 0 => fails' > 0
      /\ run.killed => run'.killed
  BY FailuresStay
<1>2. CASE Watch
  <2>1. doctor'.raised = doctor.raised /\ (doctor.writing => doctor'.writing)
    BY <1>2, WatchFields
  <2>. QED
    BY <1>1, <2>1
<1>3. CASE DoctorStart
  BY <1>3, StartFields
<1>4. CASE Read
  <2>1. doctor'.raised = doctor.raised /\ doctor'.writing = doctor.writing
    BY <1>4, ReadFields
  <2>. QED
    BY <1>1, <2>1
<1>5. CASE ReadRaises /\ UNCHANGED <<vars, resident, run>>
  <2>1. Asked /\ ItemState = "torn" /\ doctor'.writing = doctor.writing
    BY <1>5 DEF ReadRaises, DoctorTyped
  <2>2. Writing => doctor.writing
    BY <2>1 DEF Watched, Asked
  <2>3. Writing \/ fails > 0 \/ run.killed
    <3>1. Item \in {"profile", "config", "user", "repo", "manifest", "resident"}
      BY <2>1, ItemIs
    <3>2. \/ manifest.state = "torn"
          \/ resident.state = "torn"
          \/ \E f \in Surfaces : surface[f].state = "torn"
      BY <2>1, <3>1 DEF ItemState, Surfaces
    <3>. QED
      BY <3>2 DEF TornTold, Writing
  <2>. QED
    BY <1>1, <2>1, <2>2, <2>3
<1>6. CASE DoctorEnd
  BY <1>6 DEF DoctorEnd, NotAsked
<1>7. CASE UNCHANGED dvars
  BY <1>7 DEF dvars, vars
<1>. QED
  BY <1>2, <1>3, <1>4, <1>5, <1>6, <1>7 DEF DoctorNext, DoctorStep

\* What the doctor works among is a run of the commands.
LEMMA DoctorRuns == DoctorSpec => Spec
<1>1. DoctorInit => Init
  BY DEF DoctorInit
<1>2. [DoctorNext]_dvars => [Next]_vars
  BY DoctorKeeps
<1>. QED
  BY <1>1, <1>2, PTL DEF Spec, DoctorSpec

DoctorInv == DoctorTyped /\ Watched /\ TornTold /\ DoctorAnswers

\* The doctor's record and the state of the files in every state.
LEMMA DoctorAlways == DoctorSpec => [](TypeOK /\ Guarded /\ Prepared /\ DoctorInv)
<1>1. DoctorInit => DoctorInv
  <2>1. DoctorInit => DoctorTyped
    BY NotAskedTyped DEF DoctorInit, DoctorTyped, NoState, NoRun
  <2>. QED
    BY <2>1 DEF DoctorInit, DoctorInv, Init, Watched, TornTold, DoctorAnswers, NotAsked,
                NoState, NoManifest, Missing
<1>2. TypeOK /\ Guarded /\ DoctorInv /\ [DoctorNext]_dvars => DoctorInv'
  BY StepDoctorTyped, StepWatched, StepTornToldAll, StepAnswers DEF DoctorInv, Guarded
<1>. QED
  BY <1>1, <1>2, DoctorRuns, TypeCorrect, GuardedAlways, ToldAlways, PTL DEF DoctorSpec

\* The doctor is brought down only by a file that was being written while it
\* read, or by what one who was killed or failed has left (read_json of the
\* surfaces, the manifest and the resident state).
THEOREM NoAnswerIsExplained == DoctorSpec => []DoctorAnswers
<1>1. DoctorInv => DoctorAnswers
  BY DEF DoctorInv
<1>. QED
  BY <1>1, DoctorAlways, PTL

(***************************************************************************)
(* A healthy verdict was true at some moment.                              *)
(***************************************************************************)

\* While a surface is written nothing is managed in it, and a registration that
\* is refused has left nothing whole there; a manifest that is written does not
\* parse; a resident state that is not whole has no generation.
Emptied ==
  /\ pc \in {"flush", "restore"} => surface[Target(op)].managed = {}
  /\ pc \in {"backup", "prepare"} /\ op.kind = "mcp" =>
       text.cut = surface["config"].cut
  /\ pc = "manifestFlush" => manifest.state = "torn"
  /\ resident.state # "whole" => resident.gen = {}

\* Every step of a command keeps Emptied.
LEMMA StepEmptied ==
  ASSUME TypeOK, Prepared, OneBlockEach, Emptied, [Next]_vars, UNCHANGED resident
  PROVE  Emptied'
<1> USE DEF Emptied
<1>0. pc # "idle" => op \in Commands /\ Target(op) \in Surfaces
  BY Busy
<1>1. ASSUME NEW f \in Surfaces, NEW x \in Entries, Edit(f, x) \/ EditAtRisk(f, x)
      PROVE  Emptied'
  <2>1. /\ surface' = [surface EXCEPT ![f] =
                         [surface[f] EXCEPT !.state = "whole", !.entries = @ \cup {x}]]
        /\ UNCHANGED <<manifest, op, pc, text>>
    BY <1>1 DEF Edit, EditAtRisk, Store, locals
  <2>2. \A g \in Surfaces : /\ surface'[g].managed = surface[g].managed
                            /\ surface'[g].cut = surface[g].cut
    BY <2>1 DEF Files, TypeOK
  <2>3. Target(op)' = Target(op) /\ "config" \in Surfaces
    BY <2>1 DEF Target, Surfaces
  <2>. QED
    BY <1>0, <2>1, <2>2, <2>3
<1>2. CASE Clear
  BY <1>2 DEF Clear
<1>3. ASSUME NEW c \in Commands, Start(c)
      PROVE  Emptied'
  <2>1. /\ op' = c
        /\ pc' = IF c.kind = "mcp" THEN "read"
                 ELSE IF BacksUp(c) THEN "backup" ELSE "prepare"
        /\ UNCHANGED <<manifest, resident>>
    BY <1>3 DEF Start, Goto, files
  <2>2. pc' \in {"read", "backup", "prepare"} /\ (pc' # "read" => op'.kind # "mcp")
    BY <2>1
  <2>. QED
    BY <2>1, <2>2
<1>4. CASE ReadOriginal
  <2>1. op \in Commands /\ pc = "read" /\ pc' = "backup" /\ text' = File
        /\ UNCHANGED <<surface, op>>
    BY <1>0, <1>4 DEF ReadOriginal, Goto, files
  <2>2. op.kind = "mcp" => File = surface["config"]
    BY DEF File, Target
  <2>. QED
    BY <2>1, <2>2
<1>5. CASE Backup
  BY <1>5 DEF Backup, Goto
<1>6. CASE NothingThere \/ CannotRead \/ WriteProfile \/ Die
  BY <1>6 DEF NothingThere, CannotRead, WriteProfile, Die, Done, Failed, Exit, Goto
<1>7. CASE PrepareRegistration \/ PrepareRemoval
  BY <1>7 DEF PrepareRegistration, PrepareRemoval, Goto
<1>8. CASE Refuse
  <2>1. /\ pc = "prepare" /\ pc' = "restore" /\ op.kind = "mcp" /\ text.cut
        /\ UNCHANGED <<surface, op>>
    BY <1>8 DEF Refuse, Original, Goto, files
  <2>2. surface["config"].cut /\ "config" \in Surfaces
    BY <2>1 DEF Surfaces
  <2>3. surface["config"].managed = {}
    BY <2>2 DEF OneBlockEach, OneBlockIn
  <2>4. Target(op)' = "config"
    BY <2>1 DEF Target
  <2>. QED
    BY <2>1, <2>3, <2>4
<1>9. CASE Truncate
  <2>1. /\ pc = "write" /\ pc' = "flush" /\ UNCHANGED <<op, manifest>>
        /\ surface' = [surface EXCEPT ![Target(op)] = Truncated(Target(op))]
    BY <1>9 DEF Truncate, Goto, Store
  <2>2. surface'[Target(op)] = Truncated(Target(op))
    BY <1>0, <2>1 DEF TypeOK
  <2>3. Truncated(Target(op)).managed = {}
    BY DEF Truncated, Missing
  <2>4. Target(op)' = Target(op)
    BY <2>1 DEF Target
  <2>. QED
    BY <2>1, <2>2, <2>3, <2>4
<1>10. CASE Flush
  BY <1>10 DEF Flush, Continue, Done, Exit, Goto
<1>11. CASE WriteRaises
  <2>1. pc = "flush" /\ ((pc' = "restore" /\ op' = op) \/ pc' = "idle")
    BY <1>11 DEF WriteRaises, Continue, Failed, Exit, Goto
  <2>2. \/ surface' = surface
        \/ /\ op.kind = "mcp"
           /\ \E part : surface' = [surface EXCEPT !["config"] = Interrupted(part)]
    BY <1>11 DEF WriteRaises, Store
  <2>3. surface'[Target(op)].managed = {}
    <3>1. CASE surface' = surface
      BY <2>1, <3>1
    <3>2. ASSUME op.kind = "mcp", NEW part,
                 surface' = [surface EXCEPT !["config"] = Interrupted(part)]
          PROVE  surface'[Target(op)].managed = {}
      <4>1. Target(op) = "config" /\ "config" \in Surfaces
        BY <3>2 DEF Target, Surfaces
      <4>2. surface'["config"] = Interrupted(part)
        BY <3>2, <4>1 DEF TypeOK
      <4>3. surface'["config"].managed = {}
        BY <4>2 DEF Interrupted, TypeOK, Files
      <4>. QED
        BY <4>1, <4>3
    <3>. QED
      BY <2>2, <3>1, <3>2
  <2>4. op' = op => Target(op)' = Target(op)
    BY DEF Target
  <2>. QED
    BY <2>1, <2>3, <2>4
<1>12. CASE Restore
  BY <1>12 DEF Restore, Failed, Exit, Goto
<1>13. CASE TruncateManifest
  <2>1. pc' = "manifestFlush" /\ manifest' = [manifest EXCEPT !.state = "torn"]
    BY <1>13 DEF TruncateManifest, Goto
  <2>. QED
    BY <2>1 DEF TypeOK, Manifests
<1>14. CASE FlushManifest
  BY <1>14 DEF FlushManifest, Continue, Done, Exit, Goto
<1>15. CASE UNCHANGED vars
  BY <1>15 DEF vars, Target
<1>. QED
  BY <1>1, <1>2, <1>3, <1>4, <1>5, <1>6, <1>7, <1>8, <1>9, <1>10, <1>11, <1>12,
     <1>13, <1>14, <1>15 DEF Next, Step

\* So does every step of the composition.
LEMMA StepEmptiedAll ==
  ASSUME TypeOK, DoctorTyped, Prepared, OneBlockEach, Emptied, [DoctorNext]_dvars
  PROVE  Emptied'
<1>1. CASE UNCHANGED resident
  BY <1>1, DoctorKeeps, StepEmptied
<1>2. CASE ResidentStep /\ UNCHANGED vars
  <2>1. UNCHANGED <<surface, text, manifest, pc, op>> /\ Target(op)' = Target(op)
    BY <1>2 DEF vars, locals, Target
  <2>2. resident'.state # "whole" => resident'.gen = {}
    BY <1>2 DEF ResidentStep, ResidentRead, ResidentTruncate, ResidentFlush, ResidentDie,
                NoState, Emptied
  <2>. QED
    BY <2>1, <2>2 DEF Emptied
<1>. QED
  BY <1>1, <1>2 DEF DoctorNext, DoctorStep, dvars

\* What the doctor looks at after the profile, and when.
Items == {"config", "user", "repo", "manifest", "resident"}

Place == [config |-> 2, user |-> 3, repo |-> 4, manifest |-> 5, resident |-> 6]

Seen(f) == Place[f] < doctor.next

\* A file is as InOrder wants it for the generation g, or is not as the doctor
\* wants it.
Right(f, g) ==
  CASE f = "repo"             -> surface["repo"].managed = {}
    [] f \in {"config", "user"} -> surface[f].managed = {g}
    [] f = "manifest"         -> manifest.state # "missing" /\ manifest.gen = g
    [] f = "resident"         -> resident = [state |-> "whole", gen |-> {g}]

Wrong(f, g) ==
  IF f = "manifest" THEN manifest.state # "whole" \/ manifest.gen # g ELSE ~Right(f, g)

\* What the doctor has seen so far would be healthy with g.
Matches(g) ==
  /\ \A f \in Items : Seen(f) => doctor.view[f] = IF f = "repo" THEN {} ELSE {g}
  /\ Seen("config") => doctor.view.block

\* The files the running command may still write.
Touched == {Target(op)} \cup IF Registers(op) THEN {"manifest"} ELSE {}

\* Three reasons why the doctor either finds a moment in which all was in order
\* or sees that something is not: what it has seen is still so; one file that it
\* will see is not in order and stays so; or the command writes a surface the
\* doctor has seen, and then the manifest that it will see.
AllRight(g) ==
  /\ \A f \in Items : Seen(f) => Right(f, g)
  /\ Seen("manifest") => manifest.state = "whole"

OneWrong(g) ==
  /\ run.at = "idle" /\ doctor.writers >= 1
  /\ \E f \in Items : ~Seen(f) /\ Wrong(f, g) /\ (pc # "idle" => f \notin Touched)

ManifestWrong(g) ==
  /\ run.at = "idle" /\ doctor.writers >= 1
  /\ op.kind \in Wirings /\ pc \in {"flush", "restore", "manifest", "manifestFlush"}
  /\ ~Seen("manifest") /\ Wrong("manifest", g)
  /\ pc \in {"manifest", "manifestFlush"} => inputs # g
  /\ \A f \in Items \ {Target(op)} : Seen(f) => Right(f, g)

Sound(g) == AllRight(g) \/ OneWrong(g) \/ ManifestWrong(g)

NotYet ==
  doctor.next > 0 /\ ~doctor.raised /\ doctor.writers <= 1 /\ ~doctor.ordered =>
    \A g \in Generations : Matches(g) => Sound(g)

\* If not all is in order, a file is not right for the generation g.
LEMMA NotInOrder ==
  ASSUME ~InOrder, NEW g \in Generations
  PROVE  \E f \in Items : ~Right(f, g) /\ Wrong(f, g)
<1>1. \/ surface["config"].managed # {g} \/ surface["user"].managed # {g}
      \/ manifest.state = "missing" \/ manifest.gen # g
      \/ resident # [state |-> "whole", gen |-> {g}] \/ surface["repo"].managed # {}
  BY DEF InOrder
<1>2. CASE surface["config"].managed # {g}
  <2>1. ~Right("config", g) /\ Wrong("config", g)
    BY <1>2 DEF Right, Wrong
  <2>. QED
    BY <2>1 DEF Items
<1>3. CASE surface["user"].managed # {g}
  <2>1. ~Right("user", g) /\ Wrong("user", g)
    BY <1>3 DEF Right, Wrong
  <2>. QED
    BY <2>1 DEF Items
<1>4. CASE manifest.state = "missing" \/ manifest.gen # g
  <2>1. ~Right("manifest", g) /\ Wrong("manifest", g)
    BY <1>4 DEF Right, Wrong
  <2>. QED
    BY <2>1 DEF Items
<1>5. CASE resident # [state |-> "whole", gen |-> {g}]
  <2>1. ~Right("resident", g) /\ Wrong("resident", g)
    BY <1>5 DEF Right, Wrong
  <2>. QED
    BY <2>1 DEF Items
<1>6. CASE surface["repo"].managed # {}
  <2>1. ~Right("repo", g) /\ Wrong("repo", g)
    BY <1>6 DEF Right, Wrong
  <2>. QED
    BY <2>1 DEF Items
<1>. QED
  BY <1>1, <1>2, <1>3, <1>4, <1>5, <1>6

\* A file that no one writes stays right, or wrong.
LEMMA FileStays ==
  ASSUME NEW f \in Items, NEW g,
         doctor'.next = doctor.next, UNCHANGED resident,
         f \in Surfaces => surface'[f].managed = surface[f].managed,
         f = "manifest" => UNCHANGED manifest
  PROVE  (Right(f, g)' <=> Right(f, g)) /\ (Wrong(f, g)' <=> Wrong(f, g))
         /\ (Seen(f)' <=> Seen(f))
<1>1. Seen(f)' <=> Seen(f)
  BY DEF Seen, Place
<1>2. CASE f \in {"config", "user", "repo"}
  <2>1. surface'[f].managed = surface[f].managed
    BY <1>2 DEF Surfaces
  <2>2. (Right(f, g)' <=> Right(f, g))
    BY <1>2, <2>1 DEF Right
  <2>. QED
    BY <1>1, <1>2, <2>2 DEF Wrong
<1>3. CASE f = "manifest"
  BY <1>1, <1>3 DEF Right, Wrong
<1>4. CASE f = "resident"
  BY <1>1, <1>4 DEF Right, Wrong
<1>. QED
  BY <1>2, <1>3, <1>4 DEF Items

\* A step that changes neither what is managed nor the manifest changes nothing
\* for the doctor, if the command goes on or ends.
LEMMA SoundStays ==
  ASSUME NEW g \in Generations, Sound(g), doctor.writers \in Nat,
         doctor'.writers \in Nat, doctor'.writers >= doctor.writers,
         doctor'.next = doctor.next, UNCHANGED <<resident, run>>,
         \A f \in Surfaces : surface'[f].managed = surface[f].managed,
         UNCHANGED manifest,
         \/ pc' = "idle"
         \/ op' = op /\ inputs' = inputs /\ pc' = pc
         \/ op' = op /\ pc # "idle" /\ inputs' = inputs
              /\ pc \in {"flush", "restore"} /\ pc' = "restore"
         \/ op' = op /\ pc # "idle" /\ pc \in {"read", "backup", "prepare"}
  PROVE  Sound(g)'
<1>1. \A f \in Items : /\ (Right(f, g)' <=> Right(f, g)) /\ (Wrong(f, g)' <=> Wrong(f, g))
                       /\ (Seen(f)' <=> Seen(f))
  BY FileStays
<1>2. "manifest" \in Items
  BY DEF Items
<1>3. op' = op => Target(op)' = Target(op) /\ Touched' = Touched
  BY DEF Target, Touched, Registers
<1>4. CASE AllRight(g)
  <2>1. AllRight(g)'
    BY <1>1, <1>2, <1>4 DEF AllRight
  <2>. QED
    BY <2>1 DEF Sound
<1>5. CASE OneWrong(g)
  <2>1. PICK f \in Items : ~Seen(f) /\ Wrong(f, g) /\ (pc # "idle" => f \notin Touched)
    BY <1>5 DEF OneWrong
  <2>2. pc' # "idle" => f \notin Touched'
    BY <1>3, <2>1
  <2>3. OneWrong(g)'
    BY <1>1, <1>5, <2>1, <2>2 DEF OneWrong
  <2>. QED
    BY <2>3 DEF Sound
<1>6. CASE ManifestWrong(g)
  <2>1. CASE pc' = "idle"
    <3>1. OneWrong(g)'
      BY <1>1, <1>2, <1>6, <2>1 DEF OneWrong, ManifestWrong
    <3>. QED
      BY <3>1 DEF Sound
  <2>2. CASE pc' # "idle"
    <3>1. op' = op /\ inputs' = inputs /\ (pc' = pc \/ pc' = "restore")
      BY <1>6, <2>2 DEF ManifestWrong
    <3>2. ManifestWrong(g)'
      BY <1>1, <1>2, <1>3, <1>6, <3>1 DEF ManifestWrong
    <3>. QED
      BY <3>2 DEF Sound
  <2>. QED
    BY <2>1, <2>2
<1>. QED
  BY <1>4, <1>5, <1>6 DEF Sound

\* A command that is no installation has one of the surfaces as its target, and
\* writes the manifest if it registers.
LEMMA OneAtWork ==
  ASSUME TypeOK, pc # "idle", op.kind # "install"
  PROVE  /\ Target(op) \in Surfaces /\ Target(op) \in Items \ {"manifest", "resident"}
         /\ op.kind \in Wirings => Registers(op) /\ Target(op) # "repo"
         /\ Registers(op) => op.kind \in Wirings
         /\ Target(op) \in Touched /\ (Registers(op) => "manifest" \in Touched)
         /\ Touched \subseteq {Target(op), "manifest"}
         /\ (~Registers(op) => Touched = {Target(op)})
<1>1. Target(op) \in Surfaces /\ op \in Commands
  BY Busy
<1>2. Target(op) \in Items \ {"manifest", "resident"}
  BY <1>1 DEF Items, Surfaces
<1>. QED
  BY <1>1, <1>2 DEF Target, Registers, Wirings, Touched

\* The truncation of a surface the doctor has seen spoils it: then another file
\* is not in order, as before, and the doctor has not seen it yet.
LEMMA TruncateSound ==
  ASSUME TypeOK, NEW g \in Generations, Sound(g), Truncate, ~InOrder,
         op.kind # "install", run.at = "idle", doctor.writers \in Nat,
         doctor'.writers \in Nat, doctor'.writers >= doctor.writers,
         doctor.writers >= 1, doctor'.next = doctor.next, UNCHANGED <<resident, run>>
  PROVE  Sound(g)'
<1> DEFINE t == Target(op)
<1>1. pc = "write" /\ pc' = "flush" /\ UNCHANGED <<manifest, op, inputs>>
      /\ surface' = [surface EXCEPT ![t] = Truncated(t)]
  BY DEF Truncate, Goto, Store, locals
<1>2. /\ t \in Surfaces /\ t \in Items \ {"manifest", "resident"}
      /\ Registers(op) => op.kind \in Wirings
      /\ t \in Touched /\ Touched \subseteq {t, "manifest"}
      /\ ~Registers(op) => Touched = {t}
  BY <1>1, OneAtWork
<1>3. t' = t /\ Touched' = Touched
  BY <1>1 DEF Target, Touched, Registers
<1>4. Truncated(t).managed = {}
  BY DEF Truncated, Missing
<1>5. surface'[t].managed = {} /\ \A f \in Surfaces \ {t} : surface'[f] = surface[f]
  BY <1>1, <1>2, <1>4 DEF TypeOK
<1> HIDE DEF t
<1>6. \A f \in Items \ {t} :
        /\ (Right(f, g)' <=> Right(f, g)) /\ (Wrong(f, g)' <=> Wrong(f, g))
        /\ (Seen(f)' <=> Seen(f))
  BY <1>1, <1>5, FileStays
<1>7. Seen(t)' <=> Seen(t)
  BY <1>2, <1>3 DEF Seen, Place
<1>8. CASE AllRight(g)
  <2>1. CASE ~Seen(t) \/ Right(t, g)'
    <3>1. \A f \in Items : Seen(f)' => Right(f, g)'
      BY <1>6, <1>7, <1>8, <2>1, <1>3 DEF AllRight
    <3>2. Seen("manifest")' => manifest'.state = "whole"
      BY <1>1, <1>2, <1>6, <1>8 DEF AllRight, Items
    <3>. QED
      BY <3>1, <3>2 DEF Sound, AllRight
  <2>2. CASE Seen(t)
    <3>1. PICK f \in Items : ~Right(f, g) /\ Wrong(f, g)
      BY NotInOrder
    <3>2. ~Seen(f) /\ f # t
      BY <1>8, <2>2, <3>1 DEF AllRight
    <3>3. CASE f \notin Touched
      <4>1. ~Seen(f)' /\ Wrong(f, g)' /\ f \notin Touched'
        BY <1>3, <1>6, <3>1, <3>2, <3>3
      <4>2. OneWrong(g)'
        BY <4>1 DEF OneWrong
      <4>. QED
        BY <4>2 DEF Sound
    <3>4. CASE f \in Touched
      <4>1. f = "manifest" /\ Registers(op)
        BY <1>2, <3>2, <3>4
      <4>2. ~Seen("manifest")' /\ Wrong("manifest", g)'
        BY <1>2, <1>6, <3>1, <3>2, <4>1
      <4>3. \A h \in Items \ {t} : Seen(h)' => Right(h, g)'
        BY <1>6, <1>8 DEF AllRight
      <4>4. op'.kind \in Wirings /\ pc' = "flush"
        BY <1>1, <1>2, <4>1
      <4>5. ManifestWrong(g)'
        BY <1>3, <4>2, <4>3, <4>4 DEF ManifestWrong, t
      <4>. QED
        BY <4>5 DEF Sound
    <3>. QED
      BY <3>3, <3>4
  <2>. QED
    BY <2>1, <2>2
<1>9. CASE OneWrong(g)
  <2>1. PICK f \in Items : ~Seen(f) /\ Wrong(f, g) /\ f \notin Touched
    BY <1>1, <1>9 DEF OneWrong
  <2>2. ~Seen(f)' /\ Wrong(f, g)' /\ f \notin Touched'
    BY <1>2, <1>3, <1>6, <2>1
  <2>3. OneWrong(g)'
    BY <2>2 DEF OneWrong
  <2>. QED
    BY <2>3 DEF Sound
<1>10. CASE ManifestWrong(g)
  BY <1>1, <1>10 DEF ManifestWrong
<1>. QED
  BY <1>8, <1>9, <1>10 DEF Sound

\* What the command writes into its surface, or puts back, the doctor has not
\* seen, or it is right; if it is the generation of all else the manifest will
\* be right, too.
LEMMA FlushSound ==
  ASSUME TypeOK, Prepared, SavedFirst, Emptied, NEW g \in Generations, Sound(g),
         Flush \/ Restore, op.kind # "install", run.at = "idle",
         doctor.writers \in Nat, doctor'.writers \in Nat,
         doctor'.writers >= doctor.writers, doctor.writers >= 1,
         doctor'.next = doctor.next, UNCHANGED <<resident, run>>
  PROVE  Sound(g)'
<1> DEFINE t == Target(op)
<1>1. /\ pc \in {"flush", "restore"} /\ UNCHANGED manifest
      /\ \E file \in Files : surface' = [surface EXCEPT ![t] = file]
      /\ pc' = "idle" \/ (pc = "flush" /\ pc' = "manifest" /\ op' = op /\ inputs' = inputs)
  BY DEF Flush, Restore, Continue, Done, Failed, Exit, Goto, Store, locals, TypeOK
<1>2. /\ t \in Surfaces /\ t \in Items \ {"manifest", "resident"}
      /\ op.kind \in Wirings => Registers(op) /\ t # "repo"
      /\ Registers(op) => op.kind \in Wirings
      /\ t \in Touched /\ (Registers(op) => "manifest" \in Touched)
  BY <1>1, OneAtWork
<1>3. \A f \in Surfaces \ {t} : surface'[f] = surface[f]
  BY <1>1, <1>2 DEF TypeOK
<1>4. surface[t].managed = {}
  BY <1>1 DEF Emptied
<1>5. pc = "flush" => surface'[t].managed = IF Registers(op) THEN {inputs} ELSE {}
  <2>1. pc = "flush" => surface' = [surface EXCEPT ![t] = text]
    BY DEF Flush, Restore, Store
  <2>. QED
    BY <1>2, <2>1 DEF Prepared, TypeOK
<1>6. pc = "restore" => Registers(op) /\ t # "repo"
  BY <1>1, <1>2 DEF SavedFirst, Restores, Wirings
<1>7. op' = op => t' = t
  BY DEF Target
<1> HIDE DEF t
<1>8. \A f \in Items \ {t} :
        /\ (Right(f, g)' <=> Right(f, g)) /\ (Wrong(f, g)' <=> Wrong(f, g))
        /\ (Seen(f)' <=> Seen(f))
  BY <1>1, <1>3, FileStays
<1>9. Place[t] < doctor'.next <=> Seen(t)
  BY DEF Seen
<1>10. \A f \in Items : Seen(f)' <=> Seen(f)
  BY DEF Seen
<1>11. CASE AllRight(g)
  <2>1. CASE Seen(t)
    <3>1. Right(t, g)
      BY <1>2, <1>11, <2>1 DEF AllRight
    <3>2. t = "repo"
      BY <1>2, <1>4, <3>1 DEF Right, Items
    <3>3. pc = "flush" /\ ~Registers(op)
      BY <1>1, <1>2, <1>6, <3>2
    <3>4. surface'["repo"].managed = {}
      BY <1>5, <3>2, <3>3
    <3>5. Right("repo", g)'
      BY <3>4 DEF Right
    <3>6. \A f \in Items : Seen(f)' => Right(f, g)'
      BY <1>8, <1>11, <3>2, <3>5 DEF AllRight
    <3>7. Seen("manifest")' => manifest'.state = "whole"
      BY <1>1, <1>10, <1>11 DEF AllRight, Items
    <3>. QED
      BY <3>6, <3>7 DEF Sound, AllRight
  <2>2. CASE ~Seen(t)
    <3>1. \A f \in Items : Seen(f)' => Right(f, g)'
      BY <1>8, <1>10, <1>11, <2>2 DEF AllRight
    <3>2. Seen("manifest")' => manifest'.state = "whole"
      BY <1>1, <1>10, <1>11 DEF AllRight, Items
    <3>. QED
      BY <3>1, <3>2 DEF Sound, AllRight
  <2>. QED
    BY <2>1, <2>2
<1>12. CASE OneWrong(g)
  <2>1. PICK f \in Items : ~Seen(f) /\ Wrong(f, g) /\ f \notin Touched
    BY <1>1, <1>12 DEF OneWrong
  <2>2. ~Seen(f)' /\ Wrong(f, g)'
    BY <1>2, <1>8, <2>1
  <2>3. pc' # "idle" => f \notin Touched'
    <3>1. op' = op => Touched' = Touched
      BY DEF Touched, Target, Registers
    <3>. QED
      BY <1>1, <2>1, <3>1
  <2>4. OneWrong(g)'
    BY <2>2, <2>3, <1>12 DEF OneWrong
  <2>. QED
    BY <2>4 DEF Sound
<1>13. CASE ManifestWrong(g)
  <2>0. "manifest" \in Items \ {t}
    BY <1>2 DEF Items
  <2>1. ~Seen("manifest")' /\ Wrong("manifest", g)'
    BY <1>8, <1>13, <2>0 DEF ManifestWrong
  <2>2. \A f \in Items \ {t} : Seen(f)' => Right(f, g)'
    BY <1>8, <1>13 DEF ManifestWrong, t
  <2>3. CASE pc' = "idle"
    <3>1. OneWrong(g)'
      BY <1>13, <2>0, <2>1, <2>3 DEF OneWrong, ManifestWrong
    <3>. QED
      BY <3>1 DEF Sound
  <2>4. CASE pc' # "idle"
    <3>1. pc = "flush" /\ pc' = "manifest" /\ op' = op /\ inputs' = inputs /\ t' = t
      BY <1>1, <1>7, <2>4
    <3>2. Registers(op) /\ t \in {"config", "user"}
      BY <1>2, <1>13 DEF ManifestWrong, Items
    <3>3. CASE inputs = g
      <4>1. surface'[t].managed = {g}
        BY <1>5, <3>1, <3>2, <3>3
      <4>2. \A f \in Items : Seen(f)' => Right(f, g)'
        <5>1. Right("config", g)' \/ t # "config"
          BY <4>1 DEF Right
        <5>2. Right("user", g)' \/ t # "user"
          BY <4>1 DEF Right
        <5>. QED
          BY <2>2, <3>2, <5>1, <5>2
      <4>. QED
        BY <2>1, <4>2 DEF Sound, AllRight
    <3>4. CASE inputs # g
      <4>1. ManifestWrong(g)'
        BY <1>13, <2>1, <2>2, <3>1, <3>4 DEF ManifestWrong, t
      <4>. QED
        BY <4>1 DEF Sound
    <3>. QED
      BY <3>3, <3>4
  <2>. QED
    BY <2>3, <2>4
<1>. QED
  BY <1>11, <1>12, <1>13 DEF Sound

\* The manifest is spoilt after the doctor has seen it, or is written with the
\* generation the surface has.
LEMMA ManifestSound ==
  ASSUME TypeOK, Prepared, Emptied, NEW g \in Generations, Sound(g),
         TruncateManifest \/ FlushManifest, ~InOrder, op.kind # "install",
         run.at = "idle", doctor.next \in Nat, doctor.writers \in Nat, doctor'.writers \in Nat,
         doctor'.writers >= doctor.writers, doctor.writers >= 1,
         doctor'.next = doctor.next, UNCHANGED <<resident, run>>
  PROVE  Sound(g)'
<1> DEFINE t == Target(op)
<1>1. pc \in {"manifest", "manifestFlush"} /\ UNCHANGED surface
  BY DEF TruncateManifest, FlushManifest, files
<1>2. /\ t \in Surfaces /\ t \in Items \ {"manifest", "resident"}
      /\ Touched = {t, "manifest"}
  BY <1>1, OneAtWork DEF Prepared
<1>3. \A f \in Items \ {"manifest"} :
        /\ (Right(f, g)' <=> Right(f, g)) /\ (Wrong(f, g)' <=> Wrong(f, g))
        /\ (Seen(f)' <=> Seen(f))
  BY <1>1, FileStays
<1>4. \A f \in Items : Seen(f)' <=> Seen(f)
  BY DEF Seen
<1>5. Seen("manifest") => \A f \in Items \ {"resident"} : Seen(f)
  BY DEF Seen, Place, Items
<1>6. op' = op => Touched' = Touched /\ t' = t
  BY DEF Touched, Target, Registers
<1>7. "manifest" \in Items
  BY DEF Items
<1> HIDE DEF t
<1>8. CASE OneWrong(g)
  <2>1. PICK f \in Items : ~Seen(f) /\ Wrong(f, g) /\ f \notin Touched
    BY <1>1, <1>8 DEF OneWrong
  <2>2. ~Seen(f)' /\ Wrong(f, g)'
    BY <1>2, <1>3, <2>1
  <2>3. pc' # "idle" => op' = op
    BY DEF TruncateManifest, FlushManifest, Continue, Done, Exit, Goto
  <2>4. pc' # "idle" => f \notin Touched'
    BY <1>6, <2>1, <2>3
  <2>5. OneWrong(g)'
    BY <2>2, <2>4, <1>8 DEF OneWrong
  <2>. QED
    BY <2>5 DEF Sound
<1>9. CASE TruncateManifest
  <2>1. pc = "manifest" /\ pc' = "manifestFlush" /\ op' = op /\ inputs' = inputs
        /\ manifest' = [manifest EXCEPT !.state = "torn"]
    BY <1>9 DEF TruncateManifest, Goto, locals
  <2>2. manifest'.state = "torn" /\ manifest'.gen = manifest.gen
    BY <2>1 DEF TypeOK, Manifests
  <2>3. Wrong("manifest", g)'
    BY <2>2 DEF Wrong
  <2>4. CASE AllRight(g) /\ ~Seen("manifest")
    <3>1. AllRight(g)'
      BY <1>3, <1>4, <1>7, <2>4 DEF AllRight
    <3>. QED
      BY <3>1 DEF Sound
  <2>5. CASE AllRight(g) /\ Seen("manifest")
    <3>1. PICK f \in Items : ~Right(f, g) /\ Wrong(f, g)
      BY NotInOrder
    <3>2. ~Seen(f)
      BY <2>5, <3>1 DEF AllRight
    <3>3. f = "resident"
      BY <1>5, <2>5, <3>2
    <3>4. ~Seen(f)' /\ Wrong(f, g)' /\ f \notin Touched'
      BY <1>2, <1>3, <1>6, <2>1, <3>1, <3>2, <3>3
    <3>5. OneWrong(g)'
      BY <3>4 DEF OneWrong
    <3>. QED
      BY <3>5 DEF Sound
  <2>6. CASE ManifestWrong(g)
    <3>1. /\ op'.kind \in Wirings /\ ~Seen("manifest")'
          /\ inputs' # g
      BY <1>4, <1>7, <2>1, <2>6 DEF ManifestWrong
    <3>2. \A f \in Items \ {t'} : Seen(f)' => Right(f, g)'
      <4>1. ~Seen("manifest")'
        BY <3>1
      <4>2. \A f \in Items \ {t} : Seen(f) => Right(f, g)
        BY <2>6 DEF ManifestWrong, t
      <4>. QED
        BY <1>3, <1>6, <2>1, <4>1, <4>2
    <3>3. ManifestWrong(g)'
      BY <2>1, <2>3, <3>1, <3>2 DEF ManifestWrong, t
    <3>. QED
      BY <3>3 DEF Sound
  <2>. QED
    BY <1>8, <2>4, <2>5, <2>6 DEF Sound
<1>10. CASE FlushManifest
  <2>1. pc = "manifestFlush" /\ manifest' = [state |-> "whole", gen |-> inputs]
        /\ pc' = "idle"
    BY <1>10 DEF FlushManifest, Done, Exit, Goto
  <2>2. manifest.state = "torn"
    BY <2>1 DEF Emptied
  <2>3. CASE AllRight(g)
    <3>1. ~Seen("manifest") /\ ~Seen("manifest")'
      BY <1>4, <1>7, <2>2, <2>3 DEF AllRight
    <3>2. AllRight(g)'
      BY <1>3, <2>3, <3>1 DEF AllRight
    <3>. QED
      BY <3>2 DEF Sound
  <2>4. CASE ManifestWrong(g)
    <3>1. ~Seen("manifest")' /\ inputs # g
      BY <1>4, <1>7, <2>1, <2>4 DEF ManifestWrong
    <3>2. Wrong("manifest", g)'
      BY <2>1, <3>1 DEF Wrong
    <3>3. OneWrong(g)'
      BY <1>7, <2>1, <3>1, <3>2 DEF OneWrong
    <3>. QED
      BY <3>3 DEF Sound
  <2>. QED
    BY <1>8, <2>3, <2>4 DEF Sound
<1>. QED
  BY <1>9, <1>10

\* A file that does not parse and is removed was not right, and is not.
LEMMA ClearSound ==
  ASSUME TypeOK, Prepared, NEW g \in Generations, Sound(g), Clear,
         doctor.writers \in Nat, doctor'.writers \in Nat,
         doctor'.writers >= doctor.writers, doctor'.next = doctor.next,
         UNCHANGED <<resident, run>>
  PROVE  Sound(g)'
<1>1. pc = "idle" /\ pc' = "idle" /\ op' = op /\ inputs' = inputs
  BY DEF Clear, locals
<1>2. \A f \in Surfaces : surface'[f].managed = surface[f].managed
  <2>1. CASE surface' = surface
    BY <2>1
  <2>2. ASSUME NEW h \in Surfaces, surface[h].state = "torn", Store(h, Missing)
        PROVE  \A f \in Surfaces : surface'[f].managed = surface[f].managed
    <3>1. surface[h].managed = {}
      BY <2>2 DEF Prepared
    <3>2. \A f \in Surfaces : surface'[f] = IF f = h THEN Missing ELSE surface[f]
      BY <2>2 DEF Store, TypeOK
    <3>. QED
      BY SMTT(30), <3>1, <3>2 DEF Missing
  <2>. QED
    BY <2>1, <2>2 DEF Clear
<1>3. \/ UNCHANGED manifest
      \/ manifest.state = "torn" /\ manifest'.state = "missing"
  BY DEF Clear, NoManifest
<1>4. CASE UNCHANGED manifest
  BY <1>1, <1>2, <1>4, SoundStays
<1>5. CASE manifest.state = "torn" /\ manifest'.state = "missing"
  <2>1. \A f \in Items \ {"manifest"} :
          /\ (Right(f, g)' <=> Right(f, g)) /\ (Wrong(f, g)' <=> Wrong(f, g))
          /\ (Seen(f)' <=> Seen(f))
    BY <1>2, FileStays
  <2>2. \A f \in Items : Seen(f)' <=> Seen(f)
    BY DEF Seen
  <2>3. "manifest" \in Items /\ Wrong("manifest", g)'
    BY <1>5 DEF Wrong, Items
  <2>4. CASE AllRight(g)
    <3>1. ~Seen("manifest")'
      BY <1>5, <2>2, <2>3, <2>4 DEF AllRight
    <3>2. AllRight(g)'
      BY <2>1, <2>4, <3>1 DEF AllRight
    <3>. QED
      BY <3>2 DEF Sound
  <2>5. CASE OneWrong(g)
    <3>1. PICK f \in Items : ~Seen(f) /\ Wrong(f, g)
      BY <2>5 DEF OneWrong
    <3>2. ~Seen(f)' /\ Wrong(f, g)'
      BY <2>1, <2>2, <2>3, <3>1
    <3>3. OneWrong(g)'
      BY <1>1, <2>5, <3>2 DEF OneWrong
    <3>. QED
      BY <3>3 DEF Sound
  <2>6. CASE ManifestWrong(g)
    BY <1>1, <2>6 DEF ManifestWrong
  <2>. QED
    BY <2>4, <2>5, <2>6 DEF Sound
<1>. QED
  BY <1>3, <1>4, <1>5

\* The steps of a command that write neither a surface nor the manifest, or
\* nothing managed.
LEMMA OtherSound ==
  ASSUME TypeOK, Emptied, NEW g \in Generations, Sound(g),
         \/ ReadOriginal \/ Backup \/ NothingThere \/ CannotRead \/ PrepareRegistration
         \/ Refuse \/ PrepareRemoval \/ WriteRaises \/ WriteProfile \/ Die,
         doctor.writers \in Nat, doctor'.writers \in Nat,
         doctor'.writers >= doctor.writers, doctor'.next = doctor.next,
         UNCHANGED <<resident, run>>
  PROVE  Sound(g)'
<1>1. CASE NothingThere \/ CannotRead \/ WriteProfile \/ Die
  <2>1. pc' = "idle" /\ UNCHANGED <<surface, manifest>>
    BY <1>1 DEF NothingThere, CannotRead, WriteProfile, Die, Done, Failed, Exit, Goto, files
  <2>. QED
    BY <2>1, SoundStays
<1>2. CASE ReadOriginal \/ Backup \/ PrepareRegistration \/ Refuse \/ PrepareRemoval
  <2>1. /\ pc \in {"read", "backup", "prepare"} /\ op' = op
        /\ UNCHANGED <<surface, manifest>>
    BY <1>2 DEF ReadOriginal, Backup, PrepareRegistration, Refuse, PrepareRemoval, Goto, files
  <2>. QED
    BY <2>1, SoundStays
<1>3. CASE WriteRaises
  <2>1. /\ pc = "flush" /\ UNCHANGED manifest
        /\ pc' = "idle" \/ (pc' = "restore" /\ op' = op /\ inputs' = inputs)
    BY <1>3 DEF WriteRaises, Continue, Failed, Exit, Goto, locals
  <2>2. CASE surface' = surface
    BY <2>1, <2>2, SoundStays
  <2>3. ASSUME op.kind = "mcp", NEW part,
               surface' = [surface EXCEPT !["config"] = Interrupted(part)]
        PROVE  Sound(g)'
    <3>1. surface["config"].managed = {}
      BY <2>1, <2>3 DEF Emptied, Target
    <3>2. \A f \in Surfaces :
            surface'[f] = IF f = "config" THEN Interrupted(part) ELSE surface[f]
      BY <2>3 DEF TypeOK
    <3>3. Interrupted(part).managed = {}
      BY DEF Interrupted, TypeOK, Files
    <3>4. \A f \in Surfaces : surface'[f].managed = surface[f].managed
      BY <3>1, <3>2, <3>3
    <3>. QED
      BY <2>1, <3>4, SoundStays
  <2>4. \/ surface' = surface
        \/ /\ op.kind = "mcp"
           /\ \E part : surface' = [surface EXCEPT !["config"] = Interrupted(part)]
    BY <1>3 DEF WriteRaises, Store
  <2>. QED
    BY <2>2, <2>3, <2>4
<1>. QED
  BY <1>1, <1>2, <1>3

\* Whatever a command, the user or Codex does: as only one is at work.
LEMMA NextSound ==
  ASSUME TypeOK, Prepared, SavedFirst, Emptied, NEW g \in Generations, Sound(g),
         Next, ~InOrder, doctor.next \in 1 .. 6, doctor'.next = doctor.next,
         UNCHANGED <<resident, run>>, doctor.writers \in Nat, AtWork <= doctor.writers,
         doctor'.writers = IF AtWork' > AtWork THEN doctor.writers + AtWork' - AtWork
                           ELSE doctor.writers,
         doctor'.writers <= 1
  PROVE  Sound(g)'
<1>1. AtWork \in 0 .. 3 /\ AtWork' \in 0 .. 3
  BY AtWorkIs DEF AtWork
<1>2. /\ doctor'.writers \in Nat /\ doctor'.writers >= doctor.writers
      /\ AtWork <= 1 /\ AtWork' > AtWork => doctor.writers = 0
  BY <1>1
<1>3. pc # "idle" => op.kind # "install" /\ run.at = "idle" /\ doctor.writers >= 1
  BY <1>1, <1>2, AtWorkIs
<1>4. ASSUME NEW f \in Surfaces, NEW x \in Entries, Edit(f, x) \/ EditAtRisk(f, x)
      PROVE  Sound(g)'
  <2>1. /\ surface' = [surface EXCEPT ![f] =
                         [surface[f] EXCEPT !.state = "whole", !.entries = @ \cup {x}]]
        /\ UNCHANGED <<manifest, op, pc, inputs>>
    BY <1>4 DEF Edit, EditAtRisk, Store, locals
  <2>2. \A h \in Surfaces : surface'[h].managed = surface[h].managed
    BY <2>1 DEF Files, TypeOK
  <2>. QED
    BY <1>2, <2>1, <2>2, SoundStays
<1>5. CASE Clear
  BY <1>2, <1>5, ClearSound
<1>6. ASSUME NEW c \in Commands, Start(c)
      PROVE  Sound(g)'
  <2>1. /\ pc = "idle" /\ pc' # "idle"
        /\ UNCHANGED <<surface, manifest>>
    BY <1>6 DEF Start, Goto, files
  <2>2. AtWork' > AtWork
    <3>1. AtWork = IF run.at = "idle" THEN 0 ELSE 1
      BY <2>1 DEF AtWork
    <3>2. AtWork' = (IF op'.kind = "install" THEN 2 ELSE 1)
                      + (IF run.at = "idle" THEN 0 ELSE 1)
      BY <2>1 DEF AtWork
    <3>. QED
      BY <3>1, <3>2
  <2>3. doctor.writers = 0
    BY <1>2, <2>2
  <2>4. AllRight(g)
    BY <2>3 DEF Sound, OneWrong, ManifestWrong
  <2>5. \A f \in Items : /\ (Right(f, g)' <=> Right(f, g)) /\ (Seen(f)' <=> Seen(f))
    BY <2>1, FileStays
  <2>6. AllRight(g)'
    BY <2>1, <2>4, <2>5 DEF AllRight, Items
  <2>. QED
    BY <2>6 DEF Sound
<1>7. CASE Step \/ Die
  <2>1. pc # "idle"
    BY <1>7 DEF Step, ReadOriginal, Backup, NothingThere, CannotRead, PrepareRegistration,
                Refuse, PrepareRemoval, Truncate, Flush, WriteRaises, Restore,
                TruncateManifest, FlushManifest, WriteProfile, Die
  <2>2. CASE Truncate
    BY <1>2, <1>3, <2>1, <2>2, TruncateSound
  <2>3. CASE Flush \/ Restore
    BY <1>2, <1>3, <2>1, <2>3, FlushSound
  <2>4. CASE TruncateManifest \/ FlushManifest
    BY <1>2, <1>3, <2>1, <2>4, ManifestSound
  <2>5. CASE \/ ReadOriginal \/ Backup \/ NothingThere \/ CannotRead
             \/ PrepareRegistration \/ Refuse \/ PrepareRemoval \/ WriteRaises
             \/ WriteProfile \/ Die
    BY <1>2, <2>5, OtherSound
  <2>. QED
    BY <1>7, <2>2, <2>3, <2>4, <2>5 DEF Step
<1>. QED
  BY <1>4, <1>5, <1>6, <1>7 DEF Next

\* The resident process writes what the doctor reads last.
LEMMA ResidentSound ==
  ASSUME DoctorTyped, NEW g \in Generations, Sound(g), ResidentStep,
         UNCHANGED vars, doctor.next \in 1 .. 6, doctor'.next = doctor.next,
         AtWork <= doctor.writers,
         doctor'.writers = IF AtWork' > AtWork THEN doctor.writers + AtWork' - AtWork
                           ELSE doctor.writers,
         doctor'.writers <= 1
  PROVE  Sound(g)'
<1>1. AtWork \in 0 .. 3 /\ AtWork' \in 0 .. 3 /\ doctor.writers \in Nat
  BY AtWorkIs DEF AtWork, DoctorTyped
<1>2. UNCHANGED <<surface, manifest, pc, op>>
  BY DEF vars
<1>3. AllRight(g)
  <2>1. CASE run.at = "idle"
    <3>1. run'.at = "write"
      BY <2>1 DEF ResidentStep, ResidentRead, ResidentTruncate, ResidentFlush, ResidentDie,
                  DoctorTyped
    <3>2. AtWork' = AtWork + 1
      <4> DEFINE n == IF pc = "idle" THEN 0 ELSE IF op.kind = "install" THEN 2 ELSE 1
      <4>1. n \in Nat /\ AtWork = n + 0 /\ AtWork' = n + 1
        BY <1>2, <2>1, <3>1 DEF AtWork
      <4>. QED
        BY <4>1
    <3>3. doctor.writers = 0
      BY <1>1, <3>2
    <3>. QED
      BY <3>3 DEF Sound, OneWrong, ManifestWrong
  <2>2. CASE run.at # "idle"
    BY <2>2 DEF Sound, OneWrong, ManifestWrong
  <2>. QED
    BY <2>1, <2>2
<1>4. ~Seen("resident")
  BY DEF Seen, Place
<1>5. \A f \in Items : Seen(f)' <=> Seen(f)
  BY DEF Seen
<1>6. \A f \in Items \ {"resident"} : Right(f, g)' <=> Right(f, g)
  BY <1>2 DEF Right, Items
<1>7. AllRight(g)'
  BY <1>2, <1>3, <1>4, <1>5, <1>6 DEF AllRight, Items
<1>. QED
  BY <1>7 DEF Sound

\* What the doctor finds right is right.
LEMMA LookRight ==
  ASSUME TypeOK, DoctorTyped, OneBlockEach, Emptied, Read, NEW g \in Generations, Matches(g)'
  PROVE  /\ Matches(g)
         /\ \A f \in Items : Seen(f)' => Seen(f) \/ (Right(f, g) /\ ~Wrong(f, g))
<1>0. Asked /\ doctor'.next = doctor.next + 1
  BY ReadFields
<1>1. doctor.next \in 1 .. 6
  BY <1>0, ItemIs
<1>2. \A f \in Items : Seen(f)' <=> Seen(f) \/ f = Item
  <2>1. \A f \in Items : Place[f] \in 2 .. 6 /\ (f = Item <=> Place[f] = doctor.next)
    BY <1>0, ItemIs DEF Items, Place
  <2>. QED
    BY <1>0, <1>1, <2>1 DEF Seen
<1>3. \A f \in Items : Seen(f) => f # Item
  <2>1. \A f \in Items : Place[f] \in 2 .. 6 /\ (f = Item <=> Place[f] = doctor.next)
    BY <1>0, ItemIs DEF Items, Place
  <2>. QED
    BY <1>1, <2>1 DEF Seen
<1>4. /\ \A f \in Items : f # Item => doctor'.view[f] = doctor.view[f]
      /\ Item # "config" => doctor'.view.block = doctor.view.block
  BY ReadFields DEF Items
<1>5. Matches(g)
  <2>1. \A f \in Items : Seen(f) => doctor.view[f] = IF f = "repo" THEN {} ELSE {g}
    BY <1>2, <1>3, <1>4 DEF Matches
  <2>2. Seen("config") => doctor.view.block
    BY <1>2, <1>3, <1>4 DEF Matches, Items
  <2>. QED
    BY <2>1, <2>2 DEF Matches
<1>6. ASSUME Item \in Items
      PROVE  Right(Item, g) /\ ~Wrong(Item, g)
  <2>0. doctor'.view[Item] = (IF Item = "repo" THEN {} ELSE {g})
        /\ (Item = "config" => doctor'.view.block)
    BY <1>2, <1>6 DEF Matches
  <2>1. CASE Item = "config"
    <3>1. surface["config"].managed # {} /\ doctor'.view.config = {g}
      BY <2>0, <2>1, ReadFields
    <3>2. surface["config"].rest = {}
      BY <3>1 DEF OneBlockEach, OneBlockIn, Surfaces
    <3>3. surface["config"].managed = {g}
      BY <2>1, <3>1, <3>2, ReadFields
    <3>. QED
      BY <2>1, <3>3 DEF Right, Wrong
  <2>2. CASE Item = "user"
    <3>1. surface["user"].managed = {g}
      BY <2>0, <2>2, ReadFields
    <3>. QED
      BY <2>2, <3>1 DEF Right, Wrong
  <2>3. CASE Item = "repo"
    <3>1. surface["repo"].managed = {}
      BY <2>0, <2>3, ReadFields
    <3>. QED
      BY <2>3, <3>1 DEF Right, Wrong
  <2>4. CASE Item = "manifest"
    <3>1. (IF manifest.state = "whole" THEN {manifest.gen} ELSE {}) = {g}
      BY <2>0, <2>4, ReadFields
    <3>2. manifest.state = "whole" /\ manifest.gen = g
      BY <3>1
    <3>. QED
      BY <2>4, <3>2 DEF Right, Wrong
  <2>5. CASE Item = "resident"
    <3>1. resident.gen = {g}
      BY <2>0, <2>5, ReadFields
    <3>2. resident.state = "whole"
      BY <3>1 DEF Emptied
    <3>3. resident = [state |-> "whole", gen |-> {g}]
      BY <3>1, <3>2 DEF DoctorTyped
    <3>. QED
      BY <2>5, <3>3 DEF Right, Wrong
  <2>. QED
    BY <1>6, <2>1, <2>2, <2>3, <2>4, <2>5 DEF Items
<1>. QED
  BY <1>2, <1>5, <1>6

\* A look at a file keeps what is known of the others.
LEMMA ReadSound ==
  ASSUME TypeOK, DoctorTyped, OneBlockEach, Emptied, Read,
         UNCHANGED <<vars, resident, run>>, NEW g \in Generations, Sound(g), Matches(g)'
  PROVE  Sound(g)'
<1>1. \A f \in Items : Seen(f)' => Seen(f) \/ (Right(f, g) /\ ~Wrong(f, g))
  BY LookRight
<1>2. doctor'.writers = doctor.writers
  BY ReadFields
<1>3. \A f \in Items : (Right(f, g)' <=> Right(f, g)) /\ (Wrong(f, g)' <=> Wrong(f, g))
  BY DEF Right, Wrong, vars
<1>4. /\ UNCHANGED <<pc, op, inputs, run, manifest>> /\ Target(op)' = Target(op)
      /\ Touched' = Touched /\ "manifest" \in Items
  BY DEF vars, locals, Target, Touched, Registers, Items
<1>5. CASE AllRight(g)
  <2>1. Seen("manifest")' => manifest'.state = "whole"
    BY <1>1, <1>4, <1>5 DEF AllRight, Wrong
  <2>2. \A f \in Items : Seen(f)' => Right(f, g)'
    BY <1>1, <1>3, <1>5 DEF AllRight
  <2>. QED
    BY <2>1, <2>2 DEF Sound, AllRight
<1>6. CASE OneWrong(g)
  <2>1. PICK f \in Items : ~Seen(f) /\ Wrong(f, g) /\ (pc # "idle" => f \notin Touched)
    BY <1>6 DEF OneWrong
  <2>2. ~Seen(f)' /\ Wrong(f, g)'
    BY <1>1, <1>3, <2>1
  <2>3. OneWrong(g)'
    BY <1>2, <1>4, <1>6, <2>1, <2>2 DEF OneWrong
  <2>. QED
    BY <2>3 DEF Sound
<1>7. CASE ManifestWrong(g)
  <2>1. ~Seen("manifest")' /\ Wrong("manifest", g)'
    BY <1>1, <1>3, <1>4, <1>7 DEF ManifestWrong
  <2>2. \A f \in Items \ {Target(op)} : Seen(f)' => Right(f, g)'
    BY <1>1, <1>3, <1>7 DEF ManifestWrong
  <2>3. ManifestWrong(g)'
    BY <1>2, <1>4, <1>7, <2>1, <2>2 DEF ManifestWrong
  <2>. QED
    BY <2>3 DEF Sound
<1>. QED
  BY <1>5, <1>6, <1>7 DEF Sound

\* Every step keeps NotYet.
LEMMA StepNotYet ==
  ASSUME TypeOK, DoctorTyped, Watched, Prepared, SavedFirst, OneBlockEach, Emptied,
         NotYet, [DoctorNext]_dvars
  PROVE  NotYet'
<1> SUFFICES ASSUME (doctor.next > 0 /\ ~doctor.raised /\ doctor.writers <= 1
                       /\ ~doctor.ordered)',
                    NEW g \in Generations, Matches(g)'
             PROVE  Sound(g)'
  BY DEF NotYet
<1>1. CASE Watch /\ ((Next /\ UNCHANGED <<resident, run>>) \/ (ResidentStep /\ UNCHANGED vars))
  <2>1. Asked
    BY <1>1, WatchFields
  <2>2. /\ doctor'.next = doctor.next /\ doctor'.raised = doctor.raised
        /\ doctor'.view = doctor.view /\ ~doctor.ordered
        /\ doctor'.writers = IF AtWork' > AtWork THEN doctor.writers + AtWork' - AtWork
                             ELSE doctor.writers
    BY <1>1, <2>1, WatchFields
  <2>3. AtWork \in 0 .. 3 /\ AtWork' \in 0 .. 3 /\ doctor.writers \in Nat
    BY AtWorkIs DEF AtWork, DoctorTyped
  <2>4. doctor.writers <= 1
    BY <2>2, <2>3
  <2>5. doctor.next \in 1 .. 6 /\ AtWork <= doctor.writers /\ ~InOrder
    BY <2>1, <2>2, ItemIs DEF Watched, Asked
  <2>6. Matches(g)
    BY <2>2 DEF Matches, Seen
  <2>7. Sound(g)
    BY <2>2, <2>4, <2>5, <2>6 DEF NotYet
  <2>8. CASE Next /\ UNCHANGED <<resident, run>>
    BY <2>2, <2>3, <2>5, <2>7, <2>8, NextSound
  <2>9. CASE ResidentStep /\ UNCHANGED vars
    BY <2>2, <2>5, <2>7, <2>9, ResidentSound
  <2>. QED
    BY <1>1, <2>8, <2>9
<1>2. CASE DoctorStart
  <2>1. doctor'.next = 1
    BY <1>2, StartFields
  <2>2. \A f \in Items : ~Seen(f)'
    BY <2>1 DEF Seen, Place, Items
  <2>. QED
    BY <2>2 DEF Sound, AllRight, Items
<1>3. CASE Read /\ UNCHANGED <<vars, resident, run>>
  <2>1. /\ doctor.next > 0 /\ ~doctor.raised /\ doctor.writers <= 1 /\ ~doctor.ordered
    BY <1>3, ReadFields DEF Asked
  <2>2. Matches(g)
    BY <1>3, LookRight
  <2>3. Sound(g)
    BY <2>1, <2>2 DEF NotYet
  <2>. QED
    BY <1>3, <2>3, ReadSound
<1>4. CASE ReadRaises
  BY <1>4 DEF ReadRaises, DoctorTyped
<1>5. CASE DoctorEnd
  BY <1>5 DEF DoctorEnd, NotAsked
<1>6. CASE UNCHANGED dvars
  BY <1>6 DEF dvars, vars, locals, NotYet, Sound, AllRight, OneWrong, ManifestWrong, Matches,
              Seen, Right, Wrong, Touched, Target, Registers
<1>. QED
  BY <1>1, <1>2, <1>3, <1>4, <1>5, <1>6 DEF DoctorNext, DoctorStep

\* No file has more than one generation in it.
OneOrNone(S) == S = {} \/ \E g \in Generations : S = {g}

OneIn(file) == OneOrNone(file.managed) /\ OneOrNone(file.rest)

OneEach ==
  /\ \A f \in Surfaces : OneIn(surface[f])
  /\ OneIn(text) /\ OneIn(saved)
  /\ OneOrNone(resident.gen) /\ OneOrNone(run.gen)
  /\ \A f \in Items : OneOrNone(doctor.view[f])

\* Commands write one generation, or none.
LEMMA StepOneEach ==
  ASSUME TypeOK, OneEach, [Next]_vars
  PROVE  /\ \A f \in Surfaces : OneIn(surface'[f])
         /\ OneIn(text') /\ OneIn(saved')
<1> DEFINE Goal == /\ \A f \in Surfaces : OneIn(surface'[f])
                   /\ OneIn(text') /\ OneIn(saved')
<1>0. /\ \A f \in Surfaces : OneIn(surface[f])
      /\ OneIn(text) /\ OneIn(saved)
      /\ OneOrNone({}) /\ \A g \in Generations : OneOrNone({g})
      /\ OneIn(Missing)
  BY DEF OneEach, OneIn, OneOrNone, Missing
<1>b. pc # "idle" => op \in Commands /\ Target(op) \in Surfaces
  BY Busy
<1>s. ASSUME NEW f \in Surfaces, NEW file, Store(f, file), OneIn(file)
      PROVE  \A h \in Surfaces : OneIn(surface'[h])
  <2>1. \A h \in Surfaces : surface'[h] = IF h = f THEN file ELSE surface[h]
    BY <1>s DEF Store, TypeOK
  <2>. QED
    BY <1>0, <1>s, <2>1
<1>1. ASSUME NEW f \in Surfaces, NEW x \in Entries, Edit(f, x) \/ EditAtRisk(f, x)
      PROVE  Goal
  <2> DEFINE file == [surface[f] EXCEPT !.state = "whole", !.entries = @ \cup {x}]
  <2>1. Store(f, file) /\ text' = text /\ saved' = saved
    BY <1>1 DEF Edit, EditAtRisk, locals
  <2>2. file.managed = surface[f].managed /\ file.rest = surface[f].rest
    BY DEF TypeOK, Files
  <2>3. OneIn(file)
    BY <1>0, <2>2 DEF OneIn
  <2> HIDE DEF file
  <2>. QED
    BY <1>0, <1>s, <2>1, <2>3
<1>2. CASE Clear
  <2>1. text' = text /\ saved' = saved
        /\ (surface' = surface \/ \E f \in Surfaces : Store(f, Missing))
    BY <1>2 DEF Clear, locals
  <2>. QED
    BY <1>0, <1>s, <2>1
<1>3. ASSUME NEW c \in Commands, Start(c)
      PROVE  Goal
  BY <1>0, <1>3 DEF Start, files, locals
<1>4. CASE ReadOriginal
  BY <1>0, <1>b, <1>4 DEF ReadOriginal, File, files
<1>5. CASE Backup
  BY <1>0, <1>b, <1>5 DEF Backup, File
<1>6. CASE NothingThere \/ CannotRead \/ WriteProfile \/ Die
  BY <1>0, <1>6 DEF NothingThere, CannotRead, WriteProfile, Die, Done, Failed, Exit, files
<1>7. CASE PrepareRegistration
  <2>1. pc = "prepare" /\ Registers(op) /\ inputs' = Resolved(op)
        /\ text' = Merged(Original, inputs') /\ surface' = surface /\ saved' = saved
    BY <1>7 DEF PrepareRegistration, files
  <2>2. op \in Commands /\ Original \in Files
    BY <1>b, <2>1 DEF Original, File, TypeOK
  <2>3. inputs' \in Generations
    BY <2>1, <2>2, ResolvedType DEF TypeOK, Manifests
  <2>4. text'.managed = {inputs'} /\ text'.rest = Original.rest
    BY <2>1, <2>2 DEF Merged, Files
  <2>5. OneIn(Original)
    BY <1>0, <1>b, <2>1 DEF Original, File
  <2>6. OneIn(text')
    BY <1>0, <2>3, <2>4, <2>5 DEF OneIn
  <2>. QED
    BY <1>0, <2>1, <2>6
<1>8. CASE Refuse
  BY <1>0, <1>8 DEF Refuse, files, locals
<1>9. CASE PrepareRemoval
  <2>1. pc = "prepare" /\ text' = Removed(File) /\ surface' = surface /\ saved' = saved
    BY <1>9 DEF PrepareRemoval, files
  <2>2. File \in Files
    BY <1>b, <2>1 DEF File, TypeOK
  <2>3. text'.managed = {} /\ text'.rest = File.rest
    BY <2>1, <2>2 DEF Removed, Files
  <2>4. OneIn(File)
    BY <1>0, <1>b, <2>1 DEF File
  <2>5. OneIn(text')
    BY <1>0, <2>3, <2>4 DEF OneIn
  <2>. QED
    BY <1>0, <2>1, <2>5
<1>10. CASE Truncate
  <2>1. pc = "write" /\ Store(Target(op), Truncated(Target(op)))
        /\ text' = text /\ saved' = saved
    BY <1>10 DEF Truncate, locals
  <2>2. OneIn(Truncated(Target(op)))
    BY <1>0 DEF Truncated, Missing, OneIn
  <2>. QED
    BY <1>0, <1>b, <1>s, <2>1, <2>2
<1>11. CASE Flush
  <2>1. pc = "flush" /\ Store(Target(op), text)
        /\ text' \in {text, Missing} /\ saved' \in {saved, Missing}
    BY <1>11 DEF Flush, Continue, Done, Exit, locals
  <2>. QED
    BY <1>0, <1>b, <1>s, <2>1
<1>12. CASE WriteRaises
  <2>1. /\ text' \in {text, Missing} /\ saved' \in {saved, Missing}
        /\ \/ surface' = surface
           \/ \E part \in {{}, text.managed} : Store("config", Interrupted(part))
    BY <1>12 DEF WriteRaises, Continue, Failed, Exit, locals
  <2>2. ASSUME NEW part \in {{}, text.managed}
        PROVE  OneIn(Interrupted(part))
    <3>1. Interrupted(part).managed = {} /\ Interrupted(part).rest = part
      BY DEF Interrupted, TypeOK, Files
    <3>2. OneOrNone(part)
      BY <1>0 DEF OneIn
    <3>. QED
      BY <1>0, <3>1, <3>2 DEF OneIn
  <2>3. "config" \in Surfaces
    BY DEF Surfaces
  <2>. QED
    BY <1>0, <1>s, <2>1, <2>2, <2>3
<1>13. CASE Restore
  <2>1. pc = "restore" /\ Store(Target(op), saved) /\ text' = Missing /\ saved' = Missing
    BY <1>13 DEF Restore, Failed, Exit
  <2>. QED
    BY <1>0, <1>b, <1>s, <2>1
<1>14. CASE TruncateManifest \/ FlushManifest
  <2>1. surface' = surface /\ text' \in {text, Missing} /\ saved' \in {saved, Missing}
    BY <1>14 DEF TruncateManifest, FlushManifest, Continue, Done, Exit, locals
  <2>. QED
    BY <1>0, <2>1
<1>15. CASE UNCHANGED vars
  BY <1>0, <1>15 DEF vars, locals
<1>. QED
  BY <1>1, <1>2, <1>3, <1>4, <1>5, <1>6, <1>7, <1>8, <1>9, <1>10, <1>11, <1>12,
     <1>13, <1>14, <1>15 DEF Next, Step

\* So do the resident process and the doctor.
LEMMA StepOneEachAll ==
  ASSUME TypeOK, DoctorTyped, OneBlockEach, OneEach, [DoctorNext]_dvars
  PROVE  OneEach'
<1>0. OneOrNone({}) /\ \A g \in Generations : OneOrNone({g})
  BY DEF OneOrNone
<1>1. /\ \A f \in Surfaces : OneIn(surface'[f])
      /\ OneIn(text') /\ OneIn(saved')
  BY DoctorKeeps, StepOneEach
<1>2. OneOrNone(resident'.gen) /\ OneOrNone(run'.gen)
  <2>1. CASE ResidentStep
    <3>1. OneOrNone(resident.gen) /\ OneOrNone(run.gen) /\ OneOrNone({manifest.gen})
      BY <1>0 DEF OneEach, TypeOK, Manifests
    <3>2. CASE ResidentRead
      BY <3>1, <3>2 DEF ResidentRead, DoctorTyped
    <3>3. CASE ResidentTruncate
      BY <1>0, <3>1, <3>3 DEF ResidentTruncate, NoState, DoctorTyped
    <3>4. CASE ResidentFlush
      BY <1>0, <3>1, <3>4 DEF ResidentFlush, DoctorTyped
    <3>5. CASE ResidentDie
      BY <1>0, <3>1, <3>5 DEF ResidentDie, NoRun
    <3>. QED
      BY <2>1, <3>2, <3>3, <3>4, <3>5 DEF ResidentStep
  <2>2. CASE UNCHANGED <<resident, run>>
    BY <2>2 DEF OneEach
  <2>. QED
    BY <2>1, <2>2 DEF DoctorNext, DoctorStep, dvars
<1>3. \A f \in Items : OneOrNone(doctor'.view[f])
  <2>0. \A f \in Items : OneOrNone(doctor.view[f])
    BY DEF OneEach
  <2>1. CASE doctor'.view = doctor.view
    BY <2>0, <2>1
  <2>2. CASE doctor'.view = NothingSeen
    BY <1>0, <2>2 DEF NothingSeen, Items
  <2>3. CASE Read
    <3>1. /\ \A f \in Surfaces : OneOrNone(surface[f].managed)
          /\ OneOrNone(resident.gen) /\ OneOrNone({manifest.gen})
      BY <1>0 DEF OneEach, OneIn, TypeOK, Manifests
    <3>8. OneOrNone(surface["config"].managed \cup surface["config"].rest)
      <4>1. OneIn(surface["config"]) /\ OneBlockIn(surface["config"])
        BY DEF OneEach, OneBlockEach, Surfaces
      <4>. QED
        BY <4>1 DEF OneIn, OneBlockIn, OneOrNone
    <3>2. "config" \in Surfaces /\ "user" \in Surfaces /\ "repo" \in Surfaces
      BY DEF Surfaces
    <3>3. OneOrNone(doctor'.view.config)
      BY <2>0, <2>3, <3>8, ReadFields DEF Items
    <3>4. OneOrNone(doctor'.view.user)
      BY <2>0, <2>3, <3>1, <3>2, ReadFields DEF Items
    <3>5. OneOrNone(doctor'.view.repo)
      BY <2>0, <2>3, <3>1, <3>2, ReadFields DEF Items
    <3>6. OneOrNone(doctor'.view.manifest)
      BY <1>0, <2>0, <2>3, <3>1, ReadFields DEF Items
    <3>7. OneOrNone(doctor'.view.resident)
      BY <2>0, <2>3, <3>1, ReadFields DEF Items
    <3>. QED
      BY <3>3, <3>4, <3>5, <3>6, <3>7 DEF Items
  <2>4. doctor'.view = doctor.view \/ doctor'.view = NothingSeen \/ Read
    <3>1. Watch => doctor'.view = doctor.view
      BY WatchFields
    <3>2. DoctorStart \/ DoctorEnd => doctor'.view = NothingSeen
      <4>1. DoctorEnd => doctor'.view = NothingSeen
        BY DEF DoctorEnd, NotAsked
      <4>2. DoctorStart => doctor'.view = NothingSeen
        BY StartFields
      <4>. QED
        BY <4>1, <4>2
    <3>3. ReadRaises => doctor'.view = doctor.view
      BY DEF ReadRaises, DoctorTyped
    <3>. QED
      BY <3>1, <3>2, <3>3 DEF DoctorNext, DoctorStep, dvars
  <2>. QED
    BY <2>1, <2>2, <2>3, <2>4
<1>. QED
  BY <1>1, <1>2, <1>3 DEF OneEach

\* While nothing else happens what the doctor has seen is what is there.
Fresh ==
  doctor.next > 0 /\ doctor.quiet /\ ~doctor.raised =>
    /\ Seen("config") =>
         /\ doctor.view.block = (surface["config"].managed # {})
         /\ doctor.view.config = surface["config"].managed \cup surface["config"].rest
    /\ Seen("user") => doctor.view.user = surface["user"].managed
    /\ Seen("repo") => doctor.view.repo = surface["repo"].managed
    /\ Seen("manifest") =>
         /\ manifest.state # "torn"
         /\ doctor.view.manifest = IF manifest.state = "whole" THEN {manifest.gen} ELSE {}
    /\ Seen("resident") => doctor.view.resident = resident.gen

\* Every step keeps Fresh.
LEMMA StepFresh ==
  ASSUME TypeOK, DoctorTyped, Fresh, [DoctorNext]_dvars
  PROVE  Fresh'
<1>1. CASE Watch
  <2>1. CASE Asked
    BY <1>1, <2>1, WatchFields DEF Fresh
  <2>2. CASE ~Asked
    <3>1. doctor'.next = 0
      BY <1>1, <2>2, WatchFields
    <3>. QED
      BY <3>1 DEF Fresh
  <2>. QED
    BY <2>1, <2>2
<1>2. CASE DoctorStart
  <2>1. doctor'.next = 1
    BY <1>2, StartFields
  <2>. QED
    BY <2>1 DEF Fresh, Seen, Place
<1>3. CASE Read /\ UNCHANGED <<vars, resident, run>>
  <2>0. doctor.next \in 1 .. 6 /\ ItemState # "torn" /\ doctor'.next = doctor.next + 1
    BY <1>3, ReadFields, ItemIs
  <2>1. UNCHANGED <<surface, manifest, resident>>
    BY <1>3 DEF vars
  <2>2. CASE ~(doctor.quiet /\ ~doctor.raised)
    BY <1>3, <2>2, ReadFields DEF Fresh
  <2>3. CASE doctor.quiet /\ ~doctor.raised
    <3>1. \A f \in Items : Seen(f)' => Seen(f) \/ f = Item
      <4>1. \A f \in Items : Place[f] \in 2 .. 6 /\ (f = Item <=> Place[f] = doctor.next)
        BY <1>3, ReadFields, ItemIs DEF Items, Place
      <4>. QED
        BY <2>0, <4>1 DEF Seen
    <3>2. \A f \in Items : Seen(f) => f # Item
      <4>1. \A f \in Items : Place[f] \in 2 .. 6 /\ (f = Item <=> Place[f] = doctor.next)
        BY <1>3, ReadFields, ItemIs DEF Items, Place
      <4>. QED
        BY <2>0, <4>1 DEF Seen
    <3>3. Seen("config")' =>
            /\ doctor'.view.block = (surface["config"].managed # {})
            /\ doctor'.view.config =
                 surface["config"].managed \cup surface["config"].rest
      BY <1>3, <2>0, <2>3, <3>1, <3>2, ReadFields DEF Fresh, Items
    <3>4. Seen("user")' => doctor'.view.user = surface["user"].managed
      BY <1>3, <2>0, <2>3, <3>1, <3>2, ReadFields DEF Fresh, Items
    <3>5. Seen("repo")' => doctor'.view.repo = surface["repo"].managed
      BY <1>3, <2>0, <2>3, <3>1, <3>2, ReadFields DEF Fresh, Items
    <3>6. Seen("manifest")' =>
            /\ manifest.state # "torn"
            /\ doctor'.view.manifest = IF manifest.state = "whole" THEN {manifest.gen} ELSE {}
      <4>1. Item = "manifest" => manifest.state # "torn"
        BY <2>0 DEF ItemState
      <4>. QED
        BY <1>3, <2>0, <2>3, <3>1, <3>2, <4>1, ReadFields DEF Fresh, Items
    <3>7. Seen("resident")' => doctor'.view.resident = resident.gen
      BY <1>3, <2>0, <2>3, <3>1, <3>2, ReadFields DEF Fresh, Items
    <3>. QED
      BY <2>1, <3>3, <3>4, <3>5, <3>6, <3>7 DEF Fresh
  <2>. QED
    BY <2>2, <2>3
<1>4. CASE ReadRaises
  BY <1>4 DEF ReadRaises, DoctorTyped, Fresh
<1>5. CASE DoctorEnd
  BY <1>5 DEF DoctorEnd, NotAsked, Fresh
<1>6. CASE UNCHANGED dvars
  BY <1>6 DEF dvars, vars, Fresh, Seen
<1>. QED
  BY <1>1, <1>2, <1>3, <1>4, <1>5, <1>6 DEF DoctorNext, DoctorStep

VerdictInv == Emptied /\ NotYet /\ OneEach /\ Fresh

\* What the doctor has seen, in every state.
LEMMA VerdictAlways ==
  DoctorSpec => [](TypeOK /\ Guarded /\ Prepared /\ DoctorInv /\ VerdictInv)
<1>1. DoctorInit => VerdictInv
  <2>1. DoctorInit => OneEach
    BY DEF DoctorInit, Init, OneEach, OneIn, OneOrNone, Missing, NoState, NoRun, NotAsked,
           NothingSeen, Items
  <2>2. DoctorInit => Emptied
    BY DEF DoctorInit, Init, Emptied, NoState
  <2>3. DoctorInit => doctor.next = 0
    BY DEF DoctorInit, NotAsked
  <2>. QED
    BY <2>1, <2>2, <2>3 DEF VerdictInv, NotYet, Fresh
<1>2. TypeOK /\ Guarded /\ Prepared /\ DoctorInv /\ VerdictInv /\ [DoctorNext]_dvars
        => VerdictInv'
  <2> SUFFICES ASSUME TypeOK, Guarded, Prepared, DoctorInv, VerdictInv, [DoctorNext]_dvars
               PROVE  VerdictInv'
    OBVIOUS
  <2>1. DoctorTyped /\ Watched /\ SavedFirst /\ OneBlockEach
        /\ Emptied /\ NotYet /\ OneEach /\ Fresh
    BY DEF DoctorInv, VerdictInv, Guarded
  <2>2. Emptied'
    BY <2>1, StepEmptiedAll
  <2>3. NotYet'
    BY <2>1, StepNotYet
  <2>4. OneEach'
    BY <2>1, StepOneEachAll
  <2>5. Fresh'
    BY <2>1, StepFresh
  <2>. QED
    BY <2>2, <2>3, <2>4, <2>5 DEF VerdictInv
<1>. QED
  BY <1>1, <1>2, DoctorAlways, PTL DEF DoctorSpec

\* A view without warnings has none of the conditions that raise one.
LEMMA WarningsAre ==
  ASSUME NEW v, NEW rest, Warnings(v, rest) = {}
  PROVE  /\ rest.db # "db_unavailable" /\ rest.db # "db_error"
         /\ rest.db # "schema_missing" /\ ~rest.aliases
         /\ ~(Active(v) = {} /\ v.config \cup v.user \cup v.repo # {})
         /\ ~Drifts(v)
         /\ ~(v.user # {} /\ v.repo # {})
         /\ ~Stale(v, rest)
         /\ rest.integrity \in {"missing", "ok"} /\ ~rest.backlog /\ ~rest.lagging
<1>0. \A code : code \notin Warnings(v, rest)
  OBVIOUS
<1>1. rest.db = "db_unavailable" => "db_unavailable" \in Warnings(v, rest)
  BY Zenon DEF Warnings
<1>2. rest.db = "db_error" => "db_error" \in Warnings(v, rest)
  BY Zenon DEF Warnings
<1>3. rest.db = "schema_missing" => "schema_missing" \in Warnings(v, rest)
  BY Zenon DEF Warnings
<1>4. rest.aliases => "repo_alias" \in Warnings(v, rest)
  BY Zenon DEF Warnings
<1>5. (Active(v) = {} /\ v.config \cup v.user \cup v.repo # {})
        => "runtime_generation_ambiguous" \in Warnings(v, rest)
  BY Zenon DEF Warnings
<1>6. Drifts(v) => "runtime_generation_drift" \in Warnings(v, rest)
  BY Zenon DEF Warnings
<1>7. (v.user # {} /\ v.repo # {}) => "repo_local_hook_shadow" \in Warnings(v, rest)
  BY Zenon DEF Warnings
<1>8. Stale(v, rest) => "session_generation_stale" \in Warnings(v, rest)
  BY Zenon DEF Warnings
<1>9. rest.integrity \notin {"missing", "ok"}
        => "maintenance_integrity_warning" \in Warnings(v, rest)
  BY Zenon DEF Warnings
<1>10. rest.backlog => "queue_backlog_present" \in Warnings(v, rest)
  BY Zenon DEF Warnings
<1>11. rest.lagging => "session_projection_ingest_lagging" \in Warnings(v, rest)
  BY Zenon DEF Warnings
<1>. QED
  BY <1>0, <1>1, <1>2, <1>3, <1>4, <1>5, <1>6, <1>7, <1>8, <1>9, <1>10, <1>11

\* Where none of these conditions holds and no hooks are registered for the
\* repository, there is no warning.
LEMMA NoWarnings ==
  ASSUME NEW v, NEW rest,
         rest.db # "db_unavailable", rest.db # "db_error",
         rest.db # "schema_missing", ~rest.aliases,
         Active(v) # {}, ~Drifts(v), v.repo = {}, ~Stale(v, rest),
         rest.integrity \in {"missing", "ok"}, ~rest.backlog, ~rest.lagging
  PROVE  Warnings(v, rest) = {}
<1> SUFFICES ASSUME NEW code, code \in Warnings(v, rest)
             PROVE  FALSE
  OBVIOUS
<1>1. code \in {"db_unavailable", "db_error", "schema_missing", "repo_alias",
                "runtime_generation_ambiguous", "runtime_generation_drift",
                "repo_local_hook_shadow", "repo_hook_generation_drift",
                "repo_hook_metadata_drift", "session_generation_stale",
                "maintenance_integrity_warning", "queue_backlog_present",
                "session_projection_ingest_lagging"}
  BY SMT DEF Warnings
<1>2. "db_unavailable" \notin Warnings(v, rest)
  BY Zenon DEF Warnings
<1>3. "db_error" \notin Warnings(v, rest)
  BY Zenon DEF Warnings
<1>4. "schema_missing" \notin Warnings(v, rest)
  BY Zenon DEF Warnings
<1>5. "repo_alias" \notin Warnings(v, rest)
  BY Zenon DEF Warnings
<1>6. "runtime_generation_ambiguous" \notin Warnings(v, rest)
  BY Zenon DEF Warnings
<1>7. "runtime_generation_drift" \notin Warnings(v, rest)
  BY Zenon DEF Warnings
<1>8. "repo_local_hook_shadow" \notin Warnings(v, rest)
  BY Zenon DEF Warnings
<1>9. "repo_hook_generation_drift" \notin Warnings(v, rest)
  BY Zenon DEF Warnings
<1>10. "repo_hook_metadata_drift" \notin Warnings(v, rest)
  BY Zenon DEF Warnings
<1>11. "session_generation_stale" \notin Warnings(v, rest)
  BY Zenon DEF Warnings
<1>12. "maintenance_integrity_warning" \notin Warnings(v, rest)
  BY Zenon DEF Warnings
<1>13. "queue_backlog_present" \notin Warnings(v, rest)
  BY Zenon DEF Warnings
<1>14. "session_projection_ingest_lagging" \notin Warnings(v, rest)
  BY Zenon DEF Warnings
<1>. QED
  BY <1>1, <1>2, <1>3, <1>4, <1>5, <1>6, <1>7, <1>8, <1>9, <1>10, <1>11, <1>12,
     <1>13, <1>14

\* A view without gaps has a generation in every file, and the rest.
LEMMA GapsAre ==
  ASSUME NEW v, NEW rest
  PROVE  Gaps(v, rest) = {} <=>
           /\ v.config # {} /\ v.user # {} /\ v.manifest # {} /\ v.resident # {}
           /\ rest.integrity # "missing" /\ rest.task
           /\ Base(v) \cup Active(v) # {}
<1> DEFINE G1 == {f \in {"config", "user", "manifest", "resident"} : v[f] = {}}
           G2 == IF rest.integrity = "missing" THEN {"maintenance_summary_missing"} ELSE {}
           G3 == IF rest.task THEN {} ELSE {"scheduled_task_proof_missing"}
           G4 == IF Base(v) \cup Active(v) = {} THEN {"runtime_generation_missing"} ELSE {}
<1>1. Gaps(v, rest) = G1 \cup G2 \cup G3 \cup G4
  BY DEF Gaps
<1>2. G1 = {} <=> v.config # {} /\ v.user # {} /\ v.manifest # {} /\ v.resident # {}
  OBVIOUS
<1>3. G2 = {} <=> rest.integrity # "missing"
  OBVIOUS
<1>4. G3 = {} <=> rest.task
  OBVIOUS
<1>5. G4 = {} <=> Base(v) \cup Active(v) # {}
  OBVIOUS
<1> HIDE DEF G1, G2, G3, G4
<1>. QED
  BY <1>1, <1>2, <1>3, <1>4, <1>5

\* The verdict is healthy exactly if there are neither warnings nor gaps.
LEMMA HealthyIs ==
  ASSUME NEW rest
  PROVE  Healthy(rest) <=> Warnings(doctor.view, rest) = {} /\ Gaps(doctor.view, rest) = {}
BY DEF Healthy, RuntimeStatus, Broken

\* What the surfaces agree on is one generation.
LEMMA AgreedOne ==
  ASSUME NEW S, Agreed(S) # {}, IsFiniteSet(S)
  PROVE  \E g : S = {g} /\ Agreed(S) = {g}
<1>1. Cardinality(S) = 1 /\ Agreed(S) = S
  BY DEF Agreed
<1>. QED
  BY <1>1, FS_Singleton

\* One generation is agreed on.
LEMMA OneAgreed ==
  ASSUME NEW g
  PROVE  Agreed({g}) = {g}
BY FS_Singleton DEF Agreed

\* The generations of the surfaces are finitely many.
LEMMA SeenFinite ==
  ASSUME NEW A, NEW B, NEW C, OneOrNone(A), OneOrNone(B), OneOrNone(C)
  PROVE  IsFiniteSet(A \cup B \cup C)
<1>0. ASSUME NEW S, OneOrNone(S)
      PROVE  IsFiniteSet(S)
  <2>1. IsFiniteSet({}) /\ \A g : IsFiniteSet({g})
    BY FS_EmptySet, FS_Singleton
  <2>2. S = {} \/ \E g : S = {g}
    BY <1>0 DEF OneOrNone
  <2>. QED
    BY <2>1, <2>2
<1>1. IsFiniteSet(A) /\ IsFiniteSet(B) /\ IsFiniteSet(C)
  BY <1>0
<1>2. IsFiniteSet(A \cup B)
  BY <1>1, FS_Union
<1>. QED
  BY <1>1, <1>2, FS_Union

\* A view without generation warnings has one generation, or none on any surface.
LEMMA OneGeneration ==
  ASSUME NEW v, OneOrNone(v.config), OneOrNone(v.user), OneOrNone(v.repo),
         ~(Active(v) = {} /\ v.config \cup v.user \cup v.repo # {}), ~Drifts(v),
         v.config \cup v.user \cup v.repo # {}
  PROVE  \E g : /\ v.config \cup v.user \cup v.repo = {g} /\ Active(v) = {g}
                /\ v.manifest \in {{}, {g}} /\ v.resident \in {{}, {g}}
<1>1. PICK g : v.config \cup v.user \cup v.repo = {g} /\ Active(v) = {g}
  BY SeenFinite, AgreedOne DEF Active
<1>2. \A f \in {"manifest", "resident"} : v[f] \in {{}, {g}}
  BY <1>1 DEF Drifts
<1>. QED
  BY <1>1, <1>2

\* A healthy view has one generation, on all but the surface of the repository.
LEMMA HealthyMatches ==
  ASSUME TypeOK, DoctorTyped, OneEach, NEW rest, Healthy(rest)
  PROVE  \E g \in Generations :
           /\ doctor.view.config = {g} /\ doctor.view.user = {g} /\ doctor.view.repo = {}
           /\ doctor.view.manifest = {g} /\ doctor.view.resident = {g}
           /\ Active(doctor.view) = {g}
<1> DEFINE v == doctor.view
<1>1. OneOrNone(v.config) /\ OneOrNone(v.user) /\ OneOrNone(v.repo)
  BY DEF OneEach, Items
<1>2. Warnings(v, rest) = {} /\ Gaps(v, rest) = {}
  BY HealthyIs
<1> HIDE DEF v
<1>3. v.config # {} /\ v.user # {} /\ v.manifest # {} /\ v.resident # {}
  BY <1>2, GapsAre
<1>4. /\ ~(Active(v) = {} /\ v.config \cup v.user \cup v.repo # {})
      /\ ~Drifts(v) /\ ~(v.user # {} /\ v.repo # {})
  BY <1>2, WarningsAre
<1>5. PICK g : /\ v.config \cup v.user \cup v.repo = {g} /\ Active(v) = {g}
               /\ v.manifest \in {{}, {g}} /\ v.resident \in {{}, {g}}
  BY <1>1, <1>3, <1>4, OneGeneration
<1>6. v.config = {g} /\ v.user = {g} /\ v.repo = {} /\ v.manifest = {g} /\ v.resident = {g}
  BY <1>3, <1>4, <1>5
<1>7. g \in Generations
  BY <1>1, <1>6 DEF OneOrNone
<1>. QED
  BY <1>5, <1>6, <1>7 DEF v

\* A healthy verdict is true of some moment while the doctor read, if at most one
\* command or run of the resident process was at work (inspect_runtime_doctor,
\* which takes no lock).
THEOREM HealthyWasTrue == DoctorSpec => []HealthyIsTrue
<1>1. TypeOK /\ DoctorInv /\ VerdictInv => HealthyIsTrue
  <2> SUFFICES ASSUME TypeOK, DoctorInv, VerdictInv, Answered, ~doctor.raised,
                      doctor.writers <= 1, doctor.view.block,
                      NEW rest \in Rests, Healthy(rest), ~doctor.ordered
               PROVE  FALSE
    BY DEF HealthyIsTrue, Given, DoctorInv, DoctorTyped
  <2>0. DoctorTyped /\ Watched /\ NotYet /\ OneEach
    BY DEF DoctorInv, VerdictInv
  <2>1. doctor.next = 7
    BY <2>0, ReadingIs DEF Answered, DoctorTyped
  <2>2. \A f \in Items : Seen(f)
    BY <2>1 DEF Seen, Place, Items
  <2>3. PICK g \in Generations :
          /\ doctor.view.config = {g} /\ doctor.view.user = {g} /\ doctor.view.repo = {}
          /\ doctor.view.manifest = {g} /\ doctor.view.resident = {g}
    BY <2>0, HealthyMatches
  <2>4. Matches(g)
    BY <2>3 DEF Matches, Items
  <2>5. Sound(g)
    BY <2>0, <2>1, <2>4 DEF NotYet
  <2>6. \A f \in Items : Right(f, g)
    BY <2>2, <2>5 DEF Sound, AllRight, OneWrong, ManifestWrong, Items
  <2>7. ~InOrder
    BY <2>0, <2>1 DEF Watched
  <2>. QED
    BY <2>6, <2>7, NotInOrder
<1>. QED
  BY <1>1, VerdictAlways, PTL

\* While nothing else happens the verdict is right: it is healthy exactly if all
\* is in order, and what the command shows as healthy has one generation in all
\* that has one (inspect_runtime_doctor, _doctor_status, _cmd_doctor).
THEOREM QuietVerdictRight == DoctorSpec => []VerdictRight
<1>1. TypeOK /\ Guarded /\ DoctorInv /\ VerdictInv => VerdictRight
  <2> SUFFICES ASSUME TypeOK, Guarded, DoctorInv, VerdictInv, Answered, ~doctor.raised,
                      doctor.quiet, NEW rest \in Rests
               PROVE  /\ Healthy(rest) /\ doctor.view.block <=>
                           /\ InOrder
                           /\ Fine(rest)
                           /\ rest.session \subseteq surface["user"].managed
                      /\ CommandStatus(doctor.view, rest) = "healthy" /\ Candidates # {} =>
                           Cardinality(Candidates \cup resident.gen \cup
                             IF manifest.state = "whole" THEN {manifest.gen} ELSE {}) = 1
    BY DEF VerdictRight, Given
  <2> DEFINE v == doctor.view
             c == surface["config"].managed
             s == surface["config"].rest
             u == surface["user"].managed
             r == surface["repo"].managed
             m == IF manifest.state = "whole" THEN {manifest.gen} ELSE {}
  <2>0. DoctorTyped /\ OneEach /\ Fresh /\ OneBlockEach /\ Emptied
    BY DEF DoctorInv, VerdictInv, Guarded
  <2>1. doctor.next = 7
    BY <2>0, ReadingIs DEF Answered, DoctorTyped
  <2>2. \A f \in Items : Seen(f)
    BY <2>1 DEF Seen, Place, Items
  <2>3. /\ v.block = (c # {}) /\ v.config = c \cup s
        /\ v.user = u /\ v.repo = r /\ v.manifest = m /\ v.resident = resident.gen
        /\ manifest.state # "torn"
    BY <2>0, <2>1, <2>2 DEF Fresh, Items
  <2>4. c # {} => s = {}
    BY <2>0 DEF OneBlockEach, OneBlockIn, Surfaces
  <2>5. OneOrNone(v.config) /\ OneOrNone(v.user) /\ OneOrNone(v.repo)
    BY <2>0 DEF OneEach, Items
  <2>6. rest \in Reports
    BY DoctorAssumption
  <2>7. Candidates = c \cup s \cup u \cup r
    <3> DEFINE all == UNION {surface[f].managed : f \in Surfaces}
    <3>1. all = c \cup u \cup r
      BY DEF Surfaces
    <3>2. Candidates = all \cup s
      BY DEF Candidates
    <3> HIDE DEF all, c, s, u, r
    <3>. QED
      BY <3>1, <3>2
  <2> HIDE DEF v, c, s, u, r, m
  <2>8. ASSUME Healthy(rest), v.block
        PROVE  InOrder /\ Fine(rest) /\ rest.session \subseteq u
    <3>1. PICK g \in Generations :
            /\ v.config = {g} /\ v.user = {g} /\ v.repo = {}
            /\ v.manifest = {g} /\ v.resident = {g} /\ Active(v) = {g}
      BY <2>0, <2>8, HealthyMatches DEF v
    <3>2. c = {g} /\ u = {g} /\ r = {} /\ m = {g} /\ resident.gen = {g}
      BY <2>3, <2>4, <2>8, <3>1
    <3>3. manifest.state = "whole" /\ manifest.gen = g
      BY <3>2 DEF m
    <3>4. resident.state = "whole"
      BY <2>0, <3>2 DEF Emptied
    <3>5. resident = [state |-> "whole", gen |-> {g}]
      BY <2>0, <3>2, <3>4 DEF DoctorTyped
    <3>6. InOrder
      BY <3>2, <3>3, <3>5 DEF InOrder, c, u, r
    <3>7. Warnings(v, rest) = {} /\ Gaps(v, rest) = {}
      BY <2>8, HealthyIs DEF v
    <3>8. /\ rest.db # "db_unavailable" /\ rest.db # "db_error"
          /\ rest.db # "schema_missing" /\ ~rest.aliases /\ ~Stale(v, rest)
          /\ rest.integrity \in {"missing", "ok"} /\ ~rest.backlog /\ ~rest.lagging
      BY <3>7, WarningsAre
    <3>9. rest.integrity # "missing" /\ rest.task
      BY <3>7, GapsAre
    <3>10. Fine(rest)
      BY <2>6, <3>8, <3>9 DEF Fine, Reports
    <3>11. rest.session \subseteq u
      BY <3>1, <3>2, <3>8 DEF Stale
    <3>. QED
      BY <3>6, <3>10, <3>11
  <2>9. ASSUME InOrder, Fine(rest), rest.session \subseteq u
        PROVE  Healthy(rest) /\ v.block
    <3>1. PICK g \in Generations :
            /\ c = {g} /\ u = {g} /\ r = {} /\ manifest.state # "missing"
            /\ manifest.gen = g /\ resident = [state |-> "whole", gen |-> {g}]
      BY <2>9 DEF InOrder, c, u, r
    <3>2. manifest.state = "whole"
      BY <2>3, <3>1 DEF TypeOK, Manifests
    <3>3. v.config = {g} /\ v.user = {g} /\ v.repo = {} /\ v.manifest = {g}
          /\ v.resident = {g} /\ v.block
      BY <2>3, <2>4, <3>1, <3>2 DEF m
    <3>4. Active(v) = {g} /\ Base(v) = {g}
      <4>1. v.config \cup v.user \cup v.repo = {g} /\ v.config \cup v.user = {g}
        BY <3>3
      <4>. QED
        BY <4>1, OneAgreed DEF Active, Base
    <3>5. ~Drifts(v)
      BY <3>3, <3>4 DEF Drifts
    <3>6. ~Stale(v, rest)
      BY <2>9, <3>1, <3>4 DEF Stale
    <3>7. Warnings(v, rest) = {}
      <4>1. /\ rest.db = "ok" /\ rest.integrity = "ok" /\ ~rest.aliases /\ ~rest.backlog
            /\ ~rest.lagging
        BY <2>9 DEF Fine
      <4>. QED
        BY <3>3, <3>4, <3>5, <3>6, <4>1, NoWarnings
    <3>8. Gaps(v, rest) = {}
      BY <2>9, <3>3, <3>4, GapsAre DEF Fine
    <3>. QED
      BY <3>3, <3>7, <3>8, HealthyIs DEF v
  <2>10. ASSUME CommandStatus(v, rest) = "healthy", Candidates # {}
         PROVE  Cardinality(Candidates \cup resident.gen \cup m) = 1
    <3>1. Warnings(v, rest) = {}
      BY <2>10 DEF CommandStatus, Broken
    <3>2. /\ ~(Active(v) = {} /\ v.config \cup v.user \cup v.repo # {}) /\ ~Drifts(v)
      BY <3>1, WarningsAre
    <3>4. v.config \cup v.user \cup v.repo # {}
      BY <2>3, <2>7, <2>10
    <3>5. PICK g : /\ v.config \cup v.user \cup v.repo = {g}
                   /\ v.manifest \in {{}, {g}} /\ v.resident \in {{}, {g}}
      BY <2>5, <3>2, <3>4, OneGeneration
    <3>6. Candidates = {g}
      BY <2>3, <2>7, <3>5
    <3>7. Candidates \cup resident.gen \cup m = {g}
      BY <2>3, <3>5, <3>6
    <3>. QED
      BY <3>7, FS_Singleton
  <2>. QED
    BY <2>8, <2>9, <2>10 DEF v, u, m
<1>. QED
  BY <1>1, VerdictAlways, PTL
=============================================================================
