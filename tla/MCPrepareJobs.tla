---------------------------- MODULE MCPrepareJobs ----------------------------
(* Small instances of PrepareJobs for TLC.                                 *)
EXTENDS PrepareJobs

CONSTANTS s1

OneSchedule == {s1}
=============================================================================
