----------------------------- MODULE RepoTargets ----------------------------
(***************************************************************************)
(* Which repository a prompt asks about.  repo_targets.py looks for the    *)
(* name in a registry of aliases, a file the user edits, and then among    *)
(* the evidence, whose rows vote for the repository they lie in.  Reads of *)
(* the registry and of the evidence are separate steps, between which      *)
(* either may change.                                                      *)
(*                                                                         *)
(* One name is asked for.  An alias is what is left of it without case,    *)
(* spaces, hyphens and underscores, the form in which aliases are compared.*)
(***************************************************************************)
EXTENDS Integers, Sequences, FiniteSets, SequencesExt, FiniteSetsExt

CONSTANTS
  Roots,        \* roots of repositories, numbered in the order of their paths
  Around,       \* Around[r]: roots whose directory r is or lies in
  GitRoots,     \* roots that have a .git of their own
  Folded,       \* roots whose path has capitals that the file system tells from
                \* small letters
  Unreadable,   \* a registry that is no JSON, of another version, or without
                \* a list of repos; one that does not exist has no entries
  Raising,      \* one that is JSON but no object, or no UTF-8, over which the
                \* reading raises
  Registries,   \* contents of the registry: one of these or sequences of entries
  RowForms,     \* rows of evidence
  Candidate,    \* the name the prompt asks for
  Own,          \* root the prompt is given in
  SearchLimit,  \* 50: rows that the search for the name returns
  MaxRows,      \* bound: rows of evidence
  MaxEdits      \* bound: edits of the registry or of the repositories

\* An entry that is no object, or lacks a root or an alias.
Invalid == [root |-> 0, aliases |-> <<>>]

\* An alias of hyphens, underscores and spaces only.
Blank == ""

\* A row that votes for no repository: its path has none of the directories
\* that mark one.
NoRoot == 0

NoTarget == [root |-> NoRoot, source |-> "none", confidence |-> "none"]

Kinds == {"current_state_doc", "session_handoff", "session_state", "other"}

ASSUME RepoTargetsAssumption ==
  /\ Roots \subseteq Nat \ {NoRoot} /\ IsFiniteSet(Roots)
  /\ Own \in Roots /\ GitRoots \subseteq Roots /\ Folded \subseteq Roots
  /\ Around \in [Roots -> SUBSET Roots] /\ \A r \in Roots : r \in Around[r]
  /\ {SearchLimit, MaxRows, MaxEdits} \subseteq Nat
  /\ \A reg \in Registries :
       reg \in {Unreadable, Raising} \/ reg \in Seq([root : Nat, aliases : Seq(STRING)])
  /\ \A row \in RowForms :
       /\ row.place \in Roots /\ row.kind \in Kinds
       /\ row.marked \in BOOLEAN /\ row.self \in BOOLEAN
       /\ row.hits \subseteq {"candidate", "query"}

VARIABLES
  registry,  \* content of repo-aliases.v1.json
  present,   \* roots that exist
  evidence,  \* searchable rows, in the order of observed_sequence
  edits,     \* history: number of edits
  at,        \* step of the request in progress
  target,    \* the repository made out
  warnings,  \* codes of the warnings collected
  edited,    \* history: registry or repositories changed since the first read
  backed     \* history: the evidence for the target includes a state document

world == <<registry, present, evidence, edits>>
tvars == <<world, at, target, warnings, edited, backed>>

TargetInit ==
  /\ registry \in Registries
  /\ present = Roots
  /\ evidence = <<>>
  /\ edits = 0
  /\ at = "idle"
  /\ target = NoTarget
  /\ warnings = {}
  /\ edited = FALSE /\ backed = FALSE

----------------------------------------------------------------------------
(* The registry.                                                           *)

\* The code of a warning, if it applies.
Code(applies, code) == IF applies THEN {code} ELSE {}

\* _load_alias_registry_entries, for a registry over which it does not raise
Entries(reg) == IF reg = Unreadable THEN {} ELSE Range(reg) \ {Invalid}

LoadWarnings(reg) ==
  IF reg = Unreadable THEN {"unavailable"}
  ELSE Code(Invalid \in Range(reg), "invalid_entry")

\* Roots that an alias is given to, existing or not.
Named(reg, alias) ==
  {e.root : e \in {f \in Entries(reg) : alias \in Range(f.aliases)}}

Shared(reg, alias) == alias # Blank /\ Cardinality(Named(reg, alias)) >= 2

Repeats(entry) ==
  \E i, j \in DOMAIN entry.aliases :
    i < j /\ entry.aliases[i] = entry.aliases[j] /\ entry.aliases[i] # Blank

Aliases(reg) == UNION {Range(e.aliases) : e \in Entries(reg)}

\* inspect_alias_registry
RegistryWarnings(reg) ==
  LoadWarnings(reg)
    \cup Code(\E e \in Entries(reg) : e.root \notin present, "stale_root")
    \cup Code(\E e \in Entries(reg) : Repeats(e), "duplicate")
    \cup Code(\E a \in Aliases(reg) : Shared(reg, a), "duplicate")

\* _resolve_from_explicit_registry: entries of roots that do not exist are
\* passed over, and an alias of blanks only is compared like the others.
Matches(reg) == Named(reg, Candidate) \cap present

----------------------------------------------------------------------------
(* The evidence.                                                           *)

\* The rows at some places, in the order they are in.
RowsAt(rows, places) ==
  [k \in 1 .. Cardinality(places) |->
     rows[CHOOSE i \in places : Cardinality({j \in places : j < i}) = k - 1]]

Hits(all, word) == {i \in DOMAIN all : word \in all[i].hits}

\* A bug: the rows are limited before they are compared with the words.
SearchedAmongFirst(all, word, limit) ==
  RowsAt(all, {i \in Hits(all, word) : i <= limit})

\* search_rows_with_fallback: the first rows, by observed_sequence.
Searched(all, word, limit) ==
  LET rows == RowsAt(all, Hits(all, word))
  IN SubSeq(rows, 1, Min({limit, Len(rows)}))

\* infer_repo_root_from_source_path: the root by its path in small letters, which
\* names the repository, but may not be where it lies (Seen, ContextPacket).
RootOf(row) == IF row.marked THEN row.place ELSE NoRoot

Votes(rows, root) == {i \in DOMAIN rows : RootOf(rows[i]) = root}

\* _is_self_identifying_current_state: a document whose path or names contain
\* the name asked for.
IsSelf(row) == row.kind = "current_state_doc" /\ row.self

Score(rows, root) ==
  LET Of(kinds) ==
        Cardinality({i \in Votes(rows, root) : rows[i].kind \in kinds})
  IN [self |-> Cardinality({i \in Votes(rows, root) : IsSelf(rows[i])}),
      weighted |-> 3 * Of({"current_state_doc"})
                     + 2 * Of({"session_handoff", "session_state"})
                     + Of({"other"}),
      count |-> Of(Kinds)]

\* The order of both rankings: where self scores count they come first, and
\* where they do not they are all 0.
Ahead(s, t) ==
  \/ s.self > t.self
  \/ s.self = t.self /\ s.weighted > t.weighted
  \/ s.self = t.self /\ s.weighted = t.weighted /\ s.count > t.count

\* The first of a ranking; the path decides where the scores do not.
First(scores, roots) ==
  CHOOSE r \in roots : \A o \in roots \ {r} :
    Ahead(scores[r], scores[o]) \/ (scores[r] = scores[o] /\ r < o)

\* The second is too close to the first.
TooClose(s, t) ==
  IF s.self > 0 THEN s.self = t.self
  ELSE \/ s.weighted = t.weighted
       \/ s.count < 2 /\ s.weighted <= t.weighted + 1

\* _resolve_from_evidence_frequency, for the rows found.
ByEvidence(rows) ==
  LET roots == {RootOf(rows[i]) : i \in DOMAIN rows} \ {NoRoot}
      scores == [r \in roots |-> Score(rows, r)]
      selfNamed == {r \in roots : scores[r].self > 0}
      ranked == IF selfNamed # {} THEN selfNamed ELSE roots
      first == First(scores, ranked)
      others == ranked \ {first}
      confidence == IF selfNamed = {} /\ others = {} THEN "low" ELSE "medium"
      ambiguous == others # {}
                     /\ TooClose(scores[first], scores[First(scores, others)])
  IN [target |-> IF roots = {} \/ ambiguous THEN NoTarget
                 ELSE [root |-> first, source |-> "evidence",
                       confidence |-> confidence],
      warnings |-> Code(roots # {} /\ ambiguous, "ambiguous")]

----------------------------------------------------------------------------
(* What changes meanwhile.                                                 *)

\* An ingest run adds a row.  Sequences start again with every run, so that it
\* may come before the rows that are there.
AddRow ==
  /\ Len(evidence) < MaxRows
  /\ \E row \in RowForms, i \in 1 .. Len(evidence) + 1 :
       evidence' = InsertAt(evidence, i, row)
  /\ UNCHANGED <<registry, present, edits, at, target, warnings, edited, backed>>

\* The user edits the registry, or moves a repository.  After the last look at
\* either nothing depends on them.
Edit ==
  /\ edits < MaxEdits
  /\ at \in {"idle", "inspect", "explicit", "evidence", "scope"}
  /\ edits' = edits + 1
  /\ edited' = TRUE
  /\ \/ registry' \in Registries \ {registry} /\ UNCHANGED present
     \/ /\ \E r \in Roots :
             present' = IF r \in present THEN present \ {r} ELSE present \cup {r}
        /\ UNCHANGED registry
  /\ UNCHANGED <<evidence, at, target, warnings, backed>>

----------------------------------------------------------------------------
(* resolve_target_repo.                                                    *)

\* extract_target_repo_candidate: a prompt names a repository, or none, and then
\* the target is left out.
FirstSteps == {"inspect", "scope"}

Resolve ==
  /\ at \in {"idle", "done"}
  /\ at' \in FirstSteps
  /\ target' = NoTarget /\ warnings' = {}
  /\ edited' = FALSE /\ backed' = FALSE
  /\ UNCHANGED world

Inspect ==
  /\ at = "inspect" /\ registry # Raising
  /\ warnings' = RegistryWarnings(registry)
  /\ at' = "explicit"
  /\ UNCHANGED <<world, target, edited, backed>>

\* The registry is read again.  A name of several repositories is left to the
\* evidence, with a warning.
ResolveExplicit ==
  /\ at = "explicit" /\ registry # Raising
  /\ warnings' = warnings \cup LoadWarnings(registry)
                   \cup Code(Cardinality(Matches(registry)) > 1, "ambiguous")
  /\ \/ /\ Cardinality(Matches(registry)) = 1
        /\ target' = [root |-> CHOOSE r \in Matches(registry) : TRUE,
                      source |-> "registry", confidence |-> "high"]
        /\ at' = "scope"
     \/ /\ Cardinality(Matches(registry)) # 1
        /\ at' = "evidence"
        /\ UNCHANGED target
  /\ UNCHANGED <<world, edited, backed>>

\* Neither of them is guarded: what the reading of the registry raises ends the
\* request.
RegistryRaises ==
  /\ at \in {"inspect", "explicit"} /\ registry = Raising
  /\ at' = "idle"
  /\ warnings' = {}
  /\ UNCHANGED <<world, target, edited, backed>>

ResolveByEvidence ==
  /\ at = "evidence"
  /\ LET rows == Searched(evidence, "candidate", SearchLimit)
         answer == ByEvidence(rows)
     IN /\ target' = answer.target
        /\ warnings' = warnings \cup answer.warnings
        /\ backed' = \E i \in DOMAIN rows :
             /\ RootOf(rows[i]) = answer.target.root
             /\ answer.target # NoTarget
             /\ rows[i].kind # "other"
  /\ at' = "scope"
  /\ UNCHANGED <<world, edited>>

\* A search that raises counts as one that finds nothing, without a warning.
EvidenceUnavailable ==
  /\ at = "evidence"
  /\ at' = "scope"
  /\ UNCHANGED <<world, target, warnings, edited, backed>>

----------------------------------------------------------------------------
(* Properties.                                                             *)

\* The repository that the evidence makes out.
Winner(all) == ByEvidence(Searched(all, "candidate", SearchLimit)).target.root

\* Nothing is wrong with a registry, whether or not an answer depends on it.
InOrder(reg) ==
  /\ reg \notin {Unreadable, Raising}
  /\ \A i \in DOMAIN reg :
       /\ reg[i] # Invalid
       /\ reg[i].root \in present
       /\ \A a \in DOMAIN reg[i].aliases, j \in DOMAIN reg :
            \A b \in DOMAIN reg[j].aliases :
              reg[i].aliases[a] = reg[j].aliases[b] /\ reg[i].aliases[a] # Blank =>
                reg[i].root = reg[j].root /\ (i = j => a = b)

\* More evidence of the repository that the evidence makes out never makes it
\* out to be another one, or none, as long as the search returns all there is.
WinnerStays ==
  [][\A i \in DOMAIN evidence' :
       /\ Len(evidence') > Len(evidence)
       /\ RemoveAt(evidence', i) = evidence
       /\ Cardinality({j \in DOMAIN evidence' : "candidate" \in evidence'[j].hits})
            <= SearchLimit
       /\ RootOf(evidence'[i]) # NoRoot
       /\ RootOf(evidence'[i]) = Winner(evidence)
       => Winner(evidence') = Winner(evidence)]_evidence
=============================================================================
