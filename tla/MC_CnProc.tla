------------------------------ MODULE MC_CnProc ------------------------------
(* Model-checking instance of CnProc: three supervisors on one kernel.     *)
EXTENDS CnProc, TLC

CONSTANTS a, b, c

MCProcs == {a, b, c}

\* the supervisors are interchangeable when all are privileged
MCSymmetry == Permutations(MCProcs)
=============================================================================
