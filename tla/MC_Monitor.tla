------------------------------ MODULE MC_Monitor ------------------------------
(* Model values for the Monitor runs.                                      *)
EXTENDS Monitor

\* a clean zero exit, an unclean exit and death by SIGKILL
MCStatuses == {"exit0", "exit1", "kill"}

\* a privileged session with a stop or a restart, and a wake with no command
\* (service output, or a status, noise or unprivileged session)
MCSessions == {<<>>, <<"stop">>, <<"restart">>}

=============================================================================
