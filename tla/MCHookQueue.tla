---------------------------- MODULE MCHookQueue ----------------------------
(***************************************************************************)
(* Instances of HookQueue for TLC: which failures a run of TLC allows.     *)
(***************************************************************************)
EXTENDS HookQueueInd, TLC

AnyPoint == Labels \ {"idle"}

\* Everywhere but where the code is known to lose the tail of the queue.
SafePoints == AnyPoint \ {"markArchived", "mergeWrite"}

OrderedPoints == AnyPoint \ {"dropMerged", "mergeWrite"}

ProcSymmetry == Permutations(Ingesters) \cup Permutations(Rotators)
=============================================================================
