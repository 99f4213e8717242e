--------------------------- MODULE MCSessionState ---------------------------
(***************************************************************************)
(* Instances for TLC of the reports that are made of several reads while   *)
(* what they read goes on.                                                 *)
(*                                                                         *)
(* SessionState: two sessions in two repositories, of which the first      *)
(* moves from one to the other, and a stop that is stamped before an event *)
(* appended ahead of it.  No entry point of the program passes profiles of *)
(* hosts to a report, so a behaviour has either the queue of this host at  *)
(* work or the pipeline of the others (HostFreshness).                     *)
(*                                                                         *)
(* ContextPacket: three repositories, one within another, and one whose    *)
(* path looks like that of another.  The votes of the evidence are counted *)
(* for more rows than there are while a packet is put together.            *)
(***************************************************************************)
EXTENDS SessionState, HostFreshness, ContextPacket

SafePoints == Labels \ {"idle", "markArchived", "mergeWrite"}

TwoSessions == [e \in Events |-> IF e = 2 THEN "s2" ELSE "s1"]
TwoRepos == [e \in Events |-> IF e = 1 THEN "A" ELSE "B"]
Stamps == [e \in Events |-> CASE e = 1 -> 2 [] e = 2 -> 1 [] OTHER -> e]
OneStop == {3}

SomeAsks ==
  {[kind |-> "session", of |-> "s1"], [kind |-> "repo", of |-> "B"], Summary}

TwoProfiles == <<"h1", "h2">>
OneEach == [h \in Profiled |-> 1]

\* /w/my-tool, /w/My_tool and /w/My_tool/sub
OneInside == [r \in Roots |-> IF r = 3 THEN {2, 3} ELSE {r}]
Underscore == [r \in Roots |-> IF r = 2 THEN {1} ELSE {}]

Row(place, kind, hits, ref) ==
  [place |-> place, marked |-> ref # "plain", kind |-> kind,
   self |-> ref = "self", hits |-> hits, ref |-> ref]

Both == {"candidate", "query"}

FiveRows ==
  {Row(1, "current_state_doc", Both, "self"), Row(2, "session_handoff", Both, "a"),
   Row(2, "other", Both, "b"), Row(3, "current_state_doc", {"candidate"}, "c"),
   Row(2, "other", {"query"}, "plain")}

Names(root, aliases) == [root |-> root, aliases |-> aliases]

SixRegistries ==
  {Unreadable, Raising, <<Names(2, <<"tool">>)>>,
   <<Names(1, <<"tool">>), Names(2, <<"other", "tool">>)>>,
   <<Names(1, <<Blank>>), Names(2, <<Blank, Blank>>)>>,
   <<Invalid, Names(3, <<"other", "other">>)>>}

PacketRows == 3

VARIABLE part

MCInit ==
  /\ SessionInit /\ HostInit /\ PacketInit
  /\ part \in {"queue", "hosts", "packet", "votes"}
  /\ part # "packet" => registry = Unreadable

MCNext ==
  /\ UNCHANGED part
  /\ \/ part = "queue" /\ SessionNext /\ UNCHANGED <<hvars, pvars>>
     \/ part = "hosts" /\ HostNext /\ UNCHANGED <<svars, pvars>>
     \/ part = "packet" /\ PacketNext /\ UNCHANGED <<svars, hvars>>
          /\ Len(evidence') <= PacketRows
     \/ part = "votes" /\ AddRow /\ UNCHANGED <<svars, hvars, repo, card, reason>>
     \/ part = "votes" /\ Len(evidence) = MaxRows /\ UNCHANGED <<svars, hvars, pvars>>

MCSpec == MCInit /\ [][MCNext]_<<svars, hvars, pvars, part>>
=============================================================================
