---------------------------- MODULE MC_ProcWatch ----------------------------
(* Model-checking instance of ProcWatch: init, self, four service pids.    *)
EXTENDS ProcWatch

MCStatuses == {"exit0", "killed"}
=============================================================================
