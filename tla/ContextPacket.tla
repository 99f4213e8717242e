---------------------------- MODULE ContextPacket ---------------------------
(***************************************************************************)
(* The packet of evidence that goes with a prompt: the repository asked    *)
(* for is made out (RepoTargets), the evidence is searched for the words   *)
(* of the prompt, rows of other repositories are left out, and if nothing  *)
(* is left recent documents of the repository stand in.  Each search opens *)
(* the database anew.                                                      *)
(*                                                                         *)
(* The check of the lifecycle skill, which adds a warning of its own, and  *)
(* the rendering of the packet are left out.                               *)
(***************************************************************************)
EXTENDS RepoTargets

CONSTANTS
  LooksLike,   \* LooksLike[r]: roots that SQL's LIKE takes for r, for which an
               \* underscore in the path of r stands for any character
  PacketLimit  \* limit: rows of a packet, 5 by default

ASSUME ContextPacketAssumption ==
  /\ LooksLike \in [Roots -> SUBSET Roots]
  /\ PacketLimit \in Nat

VARIABLES
  repo,   \* the repository the packet is about
  card,   \* rows of the evidence card
  reason  \* suppression_reason of the context_resolution_trace, if there is one

pvars == <<tvars, repo, card, reason>>

NoTrace == "no trace"

PacketInit == TargetInit /\ repo = Own /\ card = <<>> /\ reason = NoTrace

----------------------------------------------------------------------------
\* Roots that are found where the path in hand says: the evidence has its paths in
\* small letters.
Seen == IF target.source = "evidence" THEN Roots \ Folded ELSE Roots

\* _repo_scope_root: the nearest directory around it that has a .git, or itself.
ScopeRoot(root) ==
  LET git == Around[root] \cap GitRoots \cap present \cap Seen
  IN IF git = {} THEN root ELSE Max(git)

\* _resolve_context_scope: the trace of a resolution, or of an ambiguous name.
Scope ==
  /\ at = "scope"
  /\ repo' = ScopeRoot(IF target = NoTarget THEN Own ELSE target.root)
  /\ reason' = IF target # NoTarget THEN ""
               ELSE IF "ambiguous" \in warnings THEN "ambiguous_alias"
               ELSE NoTrace
  /\ at' = "search"
  /\ UNCHANGED <<world, target, warnings, edited, backed, card>>

\* _with_suppression_reason: the first reason stays, but for the ambiguity.
WithReason(new) ==
  IF reason \in {"", "ambiguous_alias"} THEN new ELSE reason

\* A bug: the path of the repository need not end where it does.
LocalByPrefix(row) ==
  repo \in Around[row.place] \/ row.place \in LooksLike[repo]

\* _repo_scoped_query_result
Local(row) == repo \in Around[row.place]

\* _dedupe_query_result: of rows alike the first.
Deduped(rows) ==
  RowsAt(rows, {i \in DOMAIN rows : \A j \in 1 .. i - 1 : rows[j] # rows[i]})

\* A bug: nothing is said of what was left out while anything is left.
FinishSilently(rows, suppressed, because, told) ==
  /\ card' = Deduped(rows)
  /\ warnings' = told
       \cup Code(rows = <<>>, "no_results")
       \cup Code(suppressed > 0 /\ rows = <<>>, "suppressed")
       \cup Code(Len(Deduped(rows)) < Len(rows), "duplicates")
  /\ reason' = IF because # "" THEN WithReason(because) ELSE reason
  /\ at' = "done"

\* The rest of build_restart_packet, with the rows found, how many of the rows
\* that the search returned belong to other repositories, and what was told.
Finish(rows, suppressed, because, told) ==
  /\ card' = Deduped(rows)
  /\ warnings' = told
       \cup Code(rows = <<>>, "no_results")
       \cup Code(suppressed > 0, "suppressed")
       \cup Code(Len(Deduped(rows)) < Len(rows), "duplicates")
  /\ reason' = IF because # "" THEN WithReason(because)
               ELSE IF suppressed > 0 THEN WithReason("mixed_repo_suppressed")
               ELSE reason
  /\ at' = "done"

\* A bug: only what the search would have found as well.
IsRecentHit(row) ==
  row.kind # "other" /\ repo \in Around[row.place] /\ "query" \in row.hits

\* _recent_repo_query_result: state documents of the repository, those of the
\* present state first, then handoffs, then session states, the latest first.
RecentFirst(i, j) ==
  LET Rank == [current_state_doc |-> 0, session_handoff |-> 1, session_state |-> 2]
      ri == Rank[evidence[i].kind]
      rj == Rank[evidence[j].kind]
  IN ri < rj \/ (ri = rj /\ i > j)

IsRecent(row) ==
  /\ row.kind # "other"
  /\ repo \in Around[row.place] \/ row.place \in LooksLike[repo]

Recent ==
  LET all == {i \in DOMAIN evidence : IsRecent(evidence[i])}
      Place(k) == CHOOSE i \in all : Cardinality({j \in all : RecentFirst(j, i)}) = k - 1
  IN [k \in 1 .. Min({PacketLimit, Cardinality(all)}) |-> evidence[Place(k)]]

\* The words of the prompt are searched as they are or, if they do not parse,
\* as a phrase, which may not parse either; a search that raises finds nothing.
SearchOutcomes ==
  LET rows == Searched(evidence, "query", PacketLimit)
  IN {[rows |-> rows, codes |-> {}],
      [rows |-> rows, codes |-> {"query_fallback"}],
      [rows |-> <<>>, codes |-> {"query_fallback"}],
      [rows |-> <<>>, codes |-> {"index_unavailable"}]}

Search ==
  /\ at = "search"
  /\ \E found \in SearchOutcomes :
       LET local == RowsAt(found.rows, {i \in DOMAIN found.rows : Local(found.rows[i])})
           suppressed == Len(found.rows) - Len(local)
       IN IF local # <<>> \/ target = NoTarget
          THEN Finish(local, suppressed, "", warnings \cup found.codes)
          ELSE /\ at' = "recent"
               /\ warnings' = warnings \cup found.codes
                                \cup Code(suppressed > 0, "suppressed")
               /\ UNCHANGED <<card, reason>>
  /\ UNCHANGED <<world, target, edited, backed, repo>>

\* That the words did not parse is forgotten with the result of their search.
ReadRecent ==
  /\ at = "recent"
  /\ LET suppressed == IF "suppressed" \in warnings THEN 1 ELSE 0
     IN IF Recent = <<>> THEN Finish(<<>>, suppressed, "", warnings)
        ELSE Finish(Recent, suppressed, "recent",
                    (warnings \ {"query_fallback"}) \cup {"recent"})
  /\ UNCHANGED <<world, target, edited, backed, repo>>

\* The second search is not guarded: what it raises ends the request, and the
\* hook goes on without a packet.
RecentRaises ==
  /\ at = "recent"
  /\ at' = "idle"
  /\ warnings' = {} /\ target' = NoTarget /\ reason' = NoTrace
  /\ backed' = FALSE
  /\ UNCHANGED <<world, edited, repo, card>>

Begin ==
  /\ Resolve
  /\ repo' = Own /\ card' = <<>> /\ reason' = NoTrace

PacketNext ==
  \/ Begin
  \/ (AddRow \/ Edit \/ Inspect \/ ResolveExplicit \/ RegistryRaises
        \/ ResolveByEvidence \/ EvidenceUnavailable) /\ UNCHANGED <<repo, card, reason>>
  \/ Scope
  \/ Search
  \/ ReadRecent
  \/ RecentRaises

PacketSpec == PacketInit /\ [][PacketNext]_pvars

----------------------------------------------------------------------------
(* Properties.                                                             *)

\* What a packet shows is of its repository and was found by the words of the
\* prompt, unless the trace says that recent documents stand in; among those
\* there may be some of a repository whose path looks like its own.
CardExplained ==
  at = "done" =>
    \A row \in Range(card) :
      \/ repo \in Around[row.place] /\ "query" \in row.hits
      \/ reason = "recent" /\ target # NoTarget /\ row.kind # "other"
           /\ (repo \in Around[row.place] \/ row.place \in LooksLike[repo])

\* A packet without warnings has everything of its repository that the words
\* of the prompt find, or as many rows as a packet holds, although the search
\* is limited before the rows of other repositories are left out; and if it is
\* about a repository named in the prompt, the registry is in order, unless it
\* was edited between the reads.
QuietIsComplete ==
  [][at = "search" /\ at' = "done" /\ warnings' = {} =>
       /\ \/ Len(card') = PacketLimit
          \/ {row \in Range(evidence) :
                repo \in Around[row.place] /\ "query" \in row.hits} \subseteq Range(card')
       /\ target # NoTarget /\ ~edited => InOrder(registry)]_pvars

\* A repository that the evidence made out by one of its state documents is
\* never shown without evidence, whatever the search for the words finds.
TargetAnswered == at = "done" /\ backed => card # <<>>
=============================================================================
