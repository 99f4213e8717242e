---------------------------- MODULE EvidenceLog ----------------------------
(***************************************************************************)
(* What the hook queue promises as a whole, whatever files it uses: every  *)
(* event accepted from a hook is kept until it has been delivered to the   *)
(* evidence store, and only delivered events are discarded.  Deaths of     *)
(* runs, recovery and rotation are invisible here.                         *)
(***************************************************************************)
EXTENDS Naturals

CONSTANT MaxEvents   \* bound: number of events accepted

VARIABLES
  accepted,    \* number of events the hooks have handed over
  kept,        \* events a later ingest run can still read
  delivered    \* events in the evidence store

logVars == <<accepted, kept, delivered>>

LogInit ==
  /\ accepted = 0
  /\ kept = {}
  /\ delivered = {}

Accept ==
  /\ accepted < MaxEvents
  /\ accepted' = accepted + 1
  /\ kept' = kept \cup {accepted'}
  /\ UNCHANGED delivered

Deliver ==
  /\ \E e \in kept : delivered' = delivered \cup {e}
  /\ UNCHANGED <<accepted, kept>>

\* A rotation archives what was delivered.
Discard ==
  /\ kept' \subseteq kept
  /\ kept \ kept' \subseteq delivered
  /\ UNCHANGED <<accepted, delivered>>

LogNext == Accept \/ Deliver \/ Discard

LogSpec == LogInit /\ [][LogNext]_logVars
=============================================================================
