--------------------------- MODULE MCMaintenance ----------------------------
(***************************************************************************)
(* Instance of Maintenance for TLC: two runs, at once or one after the     *)
(* other.  In a behaviour either the log is written to, or the database is *)
(* damaged and its copies take their time: what becomes of the log and     *)
(* what becomes of the backups meet in the runs alone.                     *)
(***************************************************************************)
EXTENDS Maintenance

KeepOne == [d \in Dirs |-> 1]

VARIABLE part

MCInit == Init /\ part \in {"log", "database"}

MCNext ==
  /\ UNCHANGED part
  /\ \/ \E r \in Runs : Start(r) \/ Advance(r) \/ Locked(r) \/ Disturb(r)
     \/ part = "log" /\ Logging
     \/ part = "database" /\ Damage

MCSpec ==
  /\ MCInit
  /\ [][MCNext]_<<vars, part>>
  /\ \A r \in Runs : WF_vars(Advance(r) \/ Locked(r) \/ LogFails(r))
=============================================================================
