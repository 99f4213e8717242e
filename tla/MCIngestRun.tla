----------------------------- MODULE MCIngestRun ---------------------------
(***************************************************************************)
(* Instances of IngestRun for TLC.                                         *)
(***************************************************************************)
EXTENDS IngestRun, TLC

\* One adapter with two lines and one with a single line.
TwoAdapters == <<<<1, 2>>, <<3>>>>

\* The same, where the second line does not parse.
OneMalformed == {2}

\* A single source of one line.
OneLine == <<<<1>>>>
=============================================================================
