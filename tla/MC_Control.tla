----------------------------- MODULE MC_Control -----------------------------
(* Control instantiated for TLC: two concurrent invocations of sysvrun.    *)
EXTENDS Control, TLC

CONSTANTS c1, c2

MCClients == {c1, c2}
MCVerbs == {"start", "stop", "restart", "reload", "status"}
MCKillModes == {"control-group", "none"}
\* one type of each readiness path: at the fork, in the watch (forking and
\* oneshot differ), and never (notify, as dbus and idle)
MCTypes == {"simple", "forking", "oneshot", "notify"}
\* the units of the control run.  A forking or oneshot unit with PIDFile=
\* lets plan C report a stop that monitor_watch overrode (monitor.c:669,
\* 688; run monitor_forking_stop) as done, so those go without PIDFile=.
\* KillMode= is read only by plan C, so without PIDFile= one value does;
\* a unit without ExecReload= answers reload with 3 before any session,
\* so it is taken without ExecStop= only.
MCUnitConfigs ==
    {u \in [execStop : BOOLEAN, execReload : BOOLEAN, pidFile : BOOLEAN,
           killMode : MCKillModes, type : MCTypes] :
        /\ u.type \in ReadyInWatch => ~u.pidFile
        /\ ~u.pidFile => u.killMode = "control-group"
        /\ ~u.execReload => ~u.execStop}
\* a type the code never promotes from MS_STARTING
MCNotifyTypes == {"notify"}
\* any policy and exit status: restart, remain, clean stop or failure
MCAfterExit == {RESTARTING, REMAINING, STOPPED, FAILED}

====
