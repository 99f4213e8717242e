---------------------------- MODULE MCHookCommand --------------------------
(***************************************************************************)
(* Instances of HookCommand for TLC.                                       *)
(***************************************************************************)
EXTENDS HookCommand, TLC

\* Every kind of payload in one session; in the others hooks that might
\* inject its summary.
MixedPayloads ==
  LET first == CHOOSE s \in Sessions : TRUE
  IN  [kind : Kinds, session : {first}]
        \cup [kind : {"prompt"}, session : Sessions]
=============================================================================
