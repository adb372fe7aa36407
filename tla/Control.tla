------------------------------ MODULE Control ------------------------------
(***************************************************************************)
(* The command-line side of sysvrun: `sysvrun <svc> start`, `stop`,       *)
(* `restart`, `reload` and `status` (service_start, service_stop,          *)
(* service_restart, service_reload and service_status in                   *)
(* src/src/sysvrun/service.c) run concurrently by several users against    *)
(* the supervisors of one service.  They talk to a supervisor over its     *)
(* abstract control socket (monitor_control_* in monitor.c) and launch a   *)
(* new one through daemonize_function (fork.c), whose report pipe tells    *)
(* the launcher whether the supervisor came up.                            *)
(*                                                                         *)
(* A supervisor is seen from outside: its life (monitor_func) and the      *)
(* state it answers to `status`.  What happens inside one watch is the     *)
(* subject of Monitor; here the end of a watch is one step whose outcome   *)
(* is any state the policy code of monitor_func can choose.                *)
(***************************************************************************)
EXTENDS Integers, FiniteSets

CONSTANTS
    Clients,       \* concurrent invocations of sysvrun
    Verbs,         \* the verbs they may run
    MaxGen,        \* model bound: supervisors that can exist in a behaviour
    AfterExit,     \* states monitor_func may choose when the service exits
    SpawnMayFail,  \* fork_function of the service can fail (MS_DEAD)
    RateLimited,   \* the start-rate gate can refuse a restart (MS_FAILED)
    KillModes,     \* the KillMode= settings the unit may have
    Types          \* the Type= settings the unit may have

\* monitor_state (monitor.h)
ERROR == -1
IDLE == 0
RESTARTING == 1
STARTING == 2
RUNNING == 3
REMAINING == 4
STOPPING == 5
STOPPED == 6
FAILED == 7
DEAD == 8
States == IDLE .. DEAD

ASSUME Verbs \subseteq {"start", "stop", "restart", "reload", "status"}
ASSUME KillModes \subseteq {"control-group", "mixed", "process", "none"}
ASSUME AfterExit \subseteq {RESTARTING, REMAINING, STOPPED, FAILED}
\* enum servicetype (service.h)
ASSUME Types \subseteq {"simple", "exec", "forking", "oneshot", "dbus",
                        "notify", "idle"}

\* the types case MS_STARTING reports ready for as soon as the fork returns
ReadyAtFork == {"simple", "exec"}
\* the types monitor_watch reports ready for: forking when its direct child
\* is collected, oneshot when its main process has exited
ReadyInWatch == {"forking", "oneshot"}

Gens == 1 .. MaxGen
\* the daemon writes nothing: its exit closes the report pipe ("closed");
\* a non-zero return of monitor_func is written to the pipe ("code")
Reports == {"none", "open", "closed", "code"}
\* "init": daemonized, before bind; "forking": bound, in fork_function of
\* the service (a session waits in the backlog); "serving": in the watch
\* or monitor_wait, which accept sessions; "exiting": out of the loop, the
\* socket still bound but never accepted again; "gone": exited
Phases == {"none", "init", "forking", "serving", "exiting", "gone"}
Errnos == {"none", "ECONNREFUSED", "ETIMEDOUT", "ENOENT"}
\* what service.c looks up in the unit: ExecStop=, ExecReload=, PIDFile=,
\* KillMode= and Type= (ExecStart= is always present)
UnitConfigs == [execStop : BOOLEAN, execReload : BOOLEAN, pidFile : BOOLEAN,
                killMode : KillModes, type : Types]

VARIABLES
    sphase,    \* each supervisor: where monitor_func is
    sstate,    \* each supervisor: mon.state
    report,    \* each supervisor: its report pipe to the launcher
    bound,     \* the supervisor holding the socket name, or 0
    nextGen,   \* the next supervisor a launch creates
    verb,      \* each client: its verb
    cpc,       \* each client: where it is
    cstate,    \* each client: the local `state`
    cerr,      \* each client: errno
    cres,      \* each client: exit status of the verb
    launched,  \* each client: the supervisor its command_monitor created
    everUp,    \* ghost: supervisors that reached MS_RUNNING
    stopFrom,  \* ghost: each client, the first supervisor launched after its stop began
    unit,      \* the service's unit file, as service_from_unit_file read it
    pidf,      \* the PID file: "live" names the running service, or "absent"
    svcUp,     \* the supervisors whose forked service has not exited
    awaiting   \* the supervisors of a ReadyInWatch type whose readiness
               \* event (direct child or main process collected) is pending

supVars == <<sphase, sstate, report, bound, nextGen, everUp, unit, pidf,
             svcUp, awaiting>>
cliVars == <<verb, cpc, cstate, cerr, cres, launched, stopFrom>>
vars == <<supVars, cliVars>>

\* the state of a supervisor long after its start: Type=notify, dbus and
\* idle are never promoted from MS_STARTING, a oneshot remains after exit
UpState(t) == CASE t \in ReadyAtFork \cup {"forking"} -> RUNNING
                [] t = "oneshot"                     -> REMAINING
                [] OTHER                             -> STARTING

Init ==
    /\ unit \in UnitConfigs
    /\ \E up \in BOOLEAN :
         LET s == UpState(unit.type) IN
         /\ sphase = [g \in Gens |-> IF up /\ g = 1 THEN "serving" ELSE "none"]
         /\ sstate = [g \in Gens |-> IF up /\ g = 1 THEN s ELSE IDLE]
         /\ report = [g \in Gens |-> IF up /\ g = 1 THEN "closed" ELSE "none"]
         /\ bound = IF up THEN 1 ELSE 0
         /\ nextGen = IF up THEN 2 ELSE 1
         /\ everUp = IF up /\ s # STARTING THEN {1} ELSE {}
         /\ svcUp = IF up /\ s # REMAINING THEN {1} ELSE {}
         /\ pidf = IF up /\ s # REMAINING /\ unit.pidFile THEN "live" ELSE "absent"
    /\ awaiting = {}
    /\ verb \in [Clients -> Verbs]
    /\ cpc = [c \in Clients |-> IF verb[c] = "restart" THEN "stop" ELSE verb[c]]
    /\ cstate = [c \in Clients |-> IDLE]
    /\ cerr = [c \in Clients |-> "none"]
    /\ cres = [c \in Clients |-> 0]
    /\ launched = [c \in Clients |-> 0]
    /\ stopFrom = [c \in Clients |-> nextGen]

-----------------------------------------------------------------------------
(* The supervisor (monitor_func)                                            *)

\* report_ready: dup stderr onto the report descriptor, closing the pipe
ReportReady(r) == IF r = "open" THEN "closed" ELSE r

\* monitor_control_listen: bind to the abstract name, which fails while
\* another supervisor holds it; monitor_func then returns EXIT_FAILURE and
\* df_child writes it to the pipe
Bind(g) ==
    /\ sphase[g] = "init"
    /\ IF bound = 0
       THEN /\ bound' = g
            /\ sphase' = [sphase EXCEPT ![g] = "forking"]
            /\ sstate' = [sstate EXCEPT ![g] = STARTING]
            /\ UNCHANGED report
       ELSE /\ sphase' = [sphase EXCEPT ![g] = "gone"]
            /\ report' = [report EXCEPT ![g] = "code"]
            /\ UNCHANGED <<bound, sstate>>
    /\ UNCHANGED <<nextGen, everUp, unit, pidf, svcUp, awaiting, cliVars>>

\* mutant: the service is forked but readiness is never reported
ForkNoReady(g) ==
    LET t == unit.type IN
    \/ /\ sstate' = [sstate EXCEPT ![g] = IF t \in ReadyAtFork THEN RUNNING ELSE @]
       /\ everUp' = IF t \in ReadyAtFork THEN everUp \cup {g} ELSE everUp
       /\ sphase' = [sphase EXCEPT ![g] = "serving"]
       /\ svcUp' = svcUp \cup {g}
       /\ awaiting' = IF t \in ReadyInWatch THEN awaiting \cup {g} ELSE awaiting \ {g}
       /\ pidf' = IF unit.pidFile THEN "live" ELSE pidf
       /\ UNCHANGED report
    \/ /\ SpawnMayFail
       /\ sstate' = [sstate EXCEPT ![g] = DEAD]
       /\ sphase' = [sphase EXCEPT ![g] = "exiting"]
       /\ svcUp' = svcUp \ {g}
       /\ awaiting' = awaiting \ {g}
       /\ UNCHANGED <<report, everUp, pidf>>

\* case MS_STARTING (and the fall-through from MS_RESTARTING, which keeps
\* that state): fork the service; Type=simple and exec are then running
\* and report ready, the other types keep the state they had; a failed
\* fork is MS_DEAD, which leaves the loop
Fork(g) ==
    LET t == unit.type IN
    \/ /\ sstate' = [sstate EXCEPT ![g] = IF t \in ReadyAtFork THEN RUNNING ELSE @]
       /\ report' = IF t \in ReadyAtFork THEN [report EXCEPT ![g] = ReportReady(@)]
                                         ELSE report
       /\ everUp' = IF t \in ReadyAtFork THEN everUp \cup {g} ELSE everUp
       /\ sphase' = [sphase EXCEPT ![g] = "serving"]
       /\ svcUp' = svcUp \cup {g}
       /\ awaiting' = IF t \in ReadyInWatch THEN awaiting \cup {g} ELSE awaiting \ {g}
       /\ pidf' = IF unit.pidFile THEN "live" ELSE pidf
    \/ /\ SpawnMayFail
       /\ sstate' = [sstate EXCEPT ![g] = DEAD]
       /\ sphase' = [sphase EXCEPT ![g] = "exiting"]
       /\ svcUp' = svcUp \ {g}
       /\ awaiting' = awaiting \ {g}
       /\ UNCHANGED <<report, everUp, pidf>>

Spawn(g) ==
    /\ sphase[g] = "forking"
    /\ Fork(g)
    /\ UNCHANGED <<bound, nextGen, unit, cliVars>>

\* the policy code after the watch, from MS_RUNNING: the next state;
\* MS_STOPPED / MS_FAILED leave the loop
AfterRunning(g) ==
    \E s \in AfterExit :
        /\ sstate' = [sstate EXCEPT ![g] = s]
        /\ sphase' = [sphase EXCEPT ![g] = IF s \in {STOPPED, FAILED} THEN "exiting" ELSE @]

\* monitor_watch collects the event a ReadyInWatch type reports on, in
\* whatever state the supervisor is: forking's direct child sets MS_RUNNING;
\* oneshot's main process exit (command_rmpid) sets MS_RUNNING and leaves
\* the watch for the policy code; both call report_ready
WatchReady(g) ==
    /\ sphase[g] = "serving"
    /\ g \in awaiting
    /\ report' = [report EXCEPT ![g] = ReportReady(@)]
    /\ everUp' = everUp \cup {g}
    /\ awaiting' = awaiting \ {g}
    /\ IF unit.type = "forking"
       THEN /\ sstate' = [sstate EXCEPT ![g] = RUNNING]
            /\ UNCHANGED <<sphase, svcUp, pidf>>
       ELSE /\ AfterRunning(g)
            /\ svcUp' = svcUp \ {g}
            /\ pidf' = "absent"
    /\ UNCHANGED <<bound, nextGen, unit, cliVars>>

\* the watch ends with the main process's exit while MS_RUNNING
ServiceExit(g) ==
    /\ sphase[g] = "serving"
    /\ sstate[g] = RUNNING
    /\ g \in svcUp
    /\ AfterRunning(g)
    /\ svcUp' = svcUp \ {g}
    /\ pidf' = "absent"
    /\ UNCHANGED <<report, bound, nextGen, everUp, unit, awaiting, cliVars>>

\* the main process of a type never promoted (notify, dbus, idle) exits
\* while MS_STARTING or MS_RESTARTING: the policy code leaves the state as
\* it is, and the loop forks again at once from MS_STARTING, or goes back
\* to the restart gate from MS_RESTARTING
ExitUnpromoted(g) ==
    /\ sphase[g] = "serving"
    /\ unit.type \notin ReadyAtFork \cup ReadyInWatch
    /\ g \in svcUp
    /\ sstate[g] \in {STARTING, RESTARTING}
    /\ IF sstate[g] = STARTING
       THEN Fork(g)
       ELSE /\ svcUp' = svcUp \ {g}
            /\ pidf' = "absent"
            /\ UNCHANGED <<sphase, sstate, report, everUp, awaiting>>
    /\ UNCHANGED <<bound, nextGen, unit, cliVars>>

\* case MS_RESTARTING, once the service has exited: the start-rate gate
\* refuses (MS_FAILED), or the restart delay of monitor_wait elapses and
\* the service is forked again
Restart(g) ==
    /\ sphase[g] = "serving"
    /\ sstate[g] = RESTARTING
    /\ g \notin svcUp
    /\ \/ /\ RateLimited
          /\ sstate' = [sstate EXCEPT ![g] = FAILED]
          /\ sphase' = [sphase EXCEPT ![g] = "exiting"]
          /\ UNCHANGED <<report, everUp, pidf, svcUp, awaiting>>
       \/ Fork(g)
    /\ UNCHANGED <<bound, nextGen, unit, cliVars>>

\* a stop order is carried out: the watch (or monitor_wait) returns with
\* MS_STOPPING and the outer loop sets MS_STOPPED
Stopped(g) ==
    /\ sphase[g] = "serving"
    /\ sstate[g] = STOPPING
    /\ sstate' = [sstate EXCEPT ![g] = STOPPED]
    /\ sphase' = [sphase EXCEPT ![g] = "exiting"]
    /\ svcUp' = svcUp \ {g}
    /\ awaiting' = awaiting \ {g}
    /\ pidf' = "absent"
    /\ UNCHANGED <<report, bound, nextGen, everUp, unit, cliVars>>

\* after the loop: procwatch_stop, monitor_control_close, and the return;
\* the local `pid` is never assigned, so monitor_func returns EXIT_SUCCESS
\* and df_child exits without a second report
ExitCode == 0

Exit(g) ==
    /\ sphase[g] = "exiting"
    /\ sphase' = [sphase EXCEPT ![g] = "gone"]
    /\ bound' = 0
    /\ report' = [report EXCEPT ![g] =
                     IF ExitCode = 0 THEN ReportReady(@) ELSE "code"]
    /\ UNCHANGED <<sstate, nextGen, everUp, unit, pidf, svcUp, awaiting, cliVars>>

-----------------------------------------------------------------------------
(* A control session, seen from the client (monitor_client_connect,        *)
(* monitor_control, monitor_control_get_state)                             *)

\* connect() reaches an accepting supervisor, or is refused; a connection
\* queued on a supervisor that is forking or leaving the loop waits (and
\* is reset, i.e. refused, when the socket closes)
Answerable == IF bound = 0 THEN TRUE ELSE sphase[bound] = "serving"

\* monitor_control_get_state: the state's name, or MS_STOPPED when the
\* connection is refused (ENOENT / ECONNREFUSED)
Answer == IF bound = 0 THEN STOPPED ELSE sstate[bound]

\* monitor_control_socket_ingest, "stop" from a privileged client
StopCmd(s) == IF s < STOPPING THEN STOPPING ELSE s

-----------------------------------------------------------------------------
(* The clients (service.c, monitor_control_wait and monitor_control_stop)  *)

Goto(c, pc, err) ==
    /\ cpc' = [cpc EXCEPT ![c] = pc]
    /\ cerr' = [cerr EXCEPT ![c] = err]
    /\ UNCHANGED cres

Finish(c, res, err) ==
    /\ cpc' = [cpc EXCEPT ![c] = "done"]
    /\ cres' = [cres EXCEPT ![c] = res]
    /\ cerr' = [cerr EXCEPT ![c] = err]

\* service_stop returns res; service_restart goes on to service_start
\* unless the stop failed with an errno other than ENOENT or ESRCH (cres
\* keeps the stop's result until service_start's replaces it)
StopReturn(c, res, err) ==
    /\ cpc' = [cpc EXCEPT ![c] =
                 IF verb[c] = "restart" /\ (res = 0 \/ err \in {"ENOENT", "ESRCH"})
                 THEN "start" ELSE "done"]
    /\ cres' = [cres EXCEPT ![c] = res]
    /\ cerr' = [cerr EXCEPT ![c] = err]

\* service_start: the first monitor_control_get_state and what it decides
StartQuery(c) ==
    /\ cpc[c] = "start"
    /\ Answerable
    /\ LET s == Answer IN
         /\ cstate' = [cstate EXCEPT ![c] = s]
         /\ CASE s \in {STARTING, RESTARTING} -> Goto(c, "start_wait_up", cerr[c])
              [] s \in {RUNNING, REMAINING}   -> Finish(c, 0, cerr[c])
              [] s \notin {ERROR, STOPPED}    -> Goto(c, "start_wait_down", cerr[c])
              [] OTHER                        -> Goto(c, "launch", cerr[c])
    /\ UNCHANGED <<supVars, verb, launched, stopFrom>>

\* the states each monitor_control_wait of the clients waits for
WaitPcs == {"start_wait_up", "start_wait_down", "exec_stop_wait", "stop_wait"}
Mask(pc) == IF pc = "start_wait_up" THEN {RUNNING, REMAINING, STOPPED}
                                    ELSE {STOPPED}

\* the end of plan B of service_stop, with the state monitor_control_stop
\* returned (already in cstate): plan C if the unit has a PIDFile=, else
\* the verdict, with the errno unit_get_value left on the missing key
PlanC(c, s, err) ==
    IF unit.pidFile THEN Goto(c, "stop_kill", err)
                    ELSE StopReturn(c, IF s = STOPPED THEN 0 ELSE 1, "ENOENT")

\* what the caller does with the state monitor_control_wait returned
AfterWait(c, s, err) ==
    CASE cpc[c] = "start_wait_up" ->
           IF s = ERROR THEN Finish(c, 1, err)
           ELSE IF s \in {RUNNING, REMAINING} THEN Finish(c, 0, err)
           ELSE Goto(c, "launch", err)
      [] cpc[c] = "start_wait_down" ->
           IF s = ERROR THEN Finish(c, 1, err) ELSE Goto(c, "launch", err)
      [] cpc[c] = "exec_stop_wait" ->
           IF s = STOPPED THEN StopReturn(c, 0, err) ELSE Goto(c, "stop_ctl", err)
      [] OTHER -> PlanC(c, s, err)

\* monitor_control_wait: a get_state that finds one of the awaited states
\* (a poll that finds another state changes nothing)
WaitPoll(c) ==
    /\ cpc[c] \in WaitPcs
    /\ Answerable
    /\ Answer \in Mask(cpc[c])
    /\ cstate' = [cstate EXCEPT ![c] = Answer]
    /\ AfterWait(c, Answer, cerr[c])
    /\ UNCHANGED <<supVars, verb, launched, stopFrom>>

\* monitor_control_wait: the deadline passes after the last poll
WaitTimeout(c) ==
    /\ cpc[c] \in WaitPcs
    /\ cstate' = [cstate EXCEPT ![c] = ERROR]
    /\ AfterWait(c, ERROR, "ETIMEDOUT")
    /\ UNCHANGED <<supVars, verb, launched, stopFrom>>

\* command_monitor: daemonize_function forks the supervisor, then reads
\* its pid from the report pipe and blocks on the second report
Launch(c) ==
    /\ cpc[c] = "launch"
    /\ nextGen <= MaxGen
    /\ sphase' = [sphase EXCEPT ![nextGen] = "init"]
    /\ report' = [report EXCEPT ![nextGen] = "open"]
    /\ launched' = [launched EXCEPT ![c] = nextGen]
    /\ nextGen' = nextGen + 1
    /\ Goto(c, "launched", cerr[c])
    /\ UNCHANGED <<sstate, bound, everUp, unit, pidf, svcUp, awaiting, verb,
                   cstate, stopFrom>>

\* df_parent: the pipe closed (success, the daemon's pid) or a code read
\* (failure); service_start returns it
Launched(c) ==
    /\ cpc[c] = "launched"
    /\ report[launched[c]] \in {"closed", "code"}
    /\ Finish(c, IF report[launched[c]] = "code" THEN 1 ELSE 0, cerr[c])
    /\ UNCHANGED <<supVars, verb, cstate, launched, stopFrom>>

\* service_stop: the first get_state; a stopped service needs nothing.
\* Plan A runs ExecStop= to completion (what it does to the service is
\* the service's exit, a step of its own) and waits for MS_STOPPED; on
\* timeout it falls through to plan B.  monitor_control_identify always
\* finds a supervisor of this version, so plan B is monitor_control_stop.
StopQuery(c) ==
    /\ cpc[c] = "stop"
    /\ Answerable
    /\ cstate' = [cstate EXCEPT ![c] = Answer]
    /\ stopFrom' = [stopFrom EXCEPT ![c] = nextGen]
    /\ CASE Answer = STOPPED -> StopReturn(c, 0, cerr[c])
         [] unit.execStop    -> Goto(c, "exec_stop_wait", cerr[c])
         [] OTHER            -> Goto(c, "stop_ctl", cerr[c])
    /\ UNCHANGED <<supVars, verb, launched>>

\* mutant: a supervisor already stopping is taken as stopped
StopCheckStoppingDone(c) ==
    /\ cpc[c] = "stop_ctl"
    /\ Answerable
    /\ cstate' = [cstate EXCEPT ![c] = Answer]
    /\ CASE Answer \in {STOPPED, STOPPING} -> PlanC(c, STOPPED, cerr[c])
         [] OTHER                          -> Goto(c, "stop_send", cerr[c])
    /\ UNCHANGED <<supVars, verb, launched, stopFrom>>

\* monitor_control_stop (plan B of service_stop, no ExecStop or PIDFile):
\* its own get_state; stopped or stopping skips the command
StopCheck(c) ==
    /\ cpc[c] = "stop_ctl"
    /\ Answerable
    /\ cstate' = [cstate EXCEPT ![c] = Answer]
    /\ CASE Answer = STOPPED  -> PlanC(c, STOPPED, cerr[c])
         [] Answer = STOPPING -> Goto(c, "stop_wait", cerr[c])
         [] OTHER             -> Goto(c, "stop_send", cerr[c])
    /\ UNCHANGED <<supVars, verb, launched, stopFrom>>

\* monitor_control(svc, "stop"): "ok" from a supervisor, which sets
\* MS_STOPPING, then the wait; a refused connection returns NULL and
\* monitor_control_stop returns the state it read before, which
\* service_stop reports as a failure
StopSend(c) ==
    /\ cpc[c] = "stop_send"
    /\ Answerable
    /\ IF bound = 0
       THEN /\ PlanC(c, cstate[c], "ECONNREFUSED")
            /\ UNCHANGED <<sstate, cstate>>
       ELSE /\ sstate' = [sstate EXCEPT ![bound] = StopCmd(@)]
            /\ cstate' = [cstate EXCEPT ![c] = STOPPING]
            /\ Goto(c, "stop_wait", cerr[c])
    /\ UNCHANGED <<sphase, report, bound, nextGen, everUp, unit, pidf, svcUp,
                   awaiting, verb, launched, stopFrom>>

\* command_kill_impl (command_kill, command_killpg): without PIDFile= or
\* without the file, -1 with ENOENT; a live process is signalled, 0.  A
\* stale or unreadable file (ESRCH, EINVAL) needs a supervisor that died
\* without removing it, which the model does not have.
KillByPidFile == IF unit.pidFile /\ pidf = "live" THEN "ok" ELSE "ENOENT"

\* plan C: signal what the PID file names, as KillMode= says (with
\* KillMode=none nothing, and res = 0); a signalled process, a missing PID
\* file (ENOENT) or a stale one (ESRCH) all count as stopped; then
\* command_rmpid.  The signal's effect is the service's exit, a step of
\* its own.
StopKill(c) ==
    /\ cpc[c] = "stop_kill"
    /\ LET res0 == unit.killMode = "none" \/ KillByPidFile = "ok"
           err  == IF res0 THEN cerr[c] ELSE KillByPidFile
           s    == IF res0 \/ err \in {"ENOENT", "ESRCH"} THEN STOPPED
                                                          ELSE cstate[c]
       IN /\ cstate' = [cstate EXCEPT ![c] = s]
          /\ StopReturn(c, IF s = STOPPED THEN 0 ELSE 1, err)
    /\ pidf' = "absent"
    /\ UNCHANGED <<sphase, sstate, report, bound, nextGen, everUp, unit, svcUp,
                   awaiting, verb, launched, stopFrom>>

\* service_reload: without ExecReload= exit status 3; otherwise by the
\* state: starting needs no reload, a running service runs the command,
\* any other state is 7 ("not running")
ReloadQuery(c) ==
    /\ cpc[c] = "reload"
    /\ IF ~unit.execReload
       THEN /\ Finish(c, 3, cerr[c])
            /\ UNCHANGED cstate
       ELSE /\ Answerable
            /\ cstate' = [cstate EXCEPT ![c] = Answer]
            /\ CASE Answer \in {STARTING, RESTARTING} -> Finish(c, 0, cerr[c])
                 [] Answer \in {RUNNING, REMAINING}   -> Goto(c, "reload_run", cerr[c])
                 [] OTHER                             -> Finish(c, 7, cerr[c])
    /\ UNCHANGED <<supVars, verb, launched, stopFrom>>

\* service_reload: command_run of ExecReload=; its exit status decides
ReloadRun(c) ==
    /\ cpc[c] = "reload_run"
    /\ \E res \in {0, 1} : Finish(c, res, cerr[c])
    /\ UNCHANGED <<supVars, verb, cstate, launched, stopFrom>>

\* service_status: a running (or stopping) supervisor is 0; otherwise the
\* probe command_kill(cmd, 0) of the PID file: a live process is 0, no
\* PIDFile= or no file (ENOENT) is 3
Status(c) ==
    /\ cpc[c] = "status"
    /\ Answerable
    /\ cstate' = [cstate EXCEPT ![c] = Answer]
    /\ Finish(c, CASE Answer \in {RESTARTING, STARTING, RUNNING, REMAINING,
                                   STOPPING}      -> 0
                    [] KillByPidFile = "ok"         -> 0
                    [] OTHER                        -> 3,
              cerr[c])
    /\ UNCHANGED <<supVars, verb, launched, stopFrom>>

SupNext(g) ==
    \/ Bind(g) \/ Spawn(g) \/ WatchReady(g) \/ ServiceExit(g)
    \/ ExitUnpromoted(g) \/ Restart(g) \/ Stopped(g) \/ Exit(g)

CliNext(c) ==
    \/ StartQuery(c) \/ WaitPoll(c) \/ WaitTimeout(c) \/ Launch(c)
    \/ Launched(c) \/ StopQuery(c) \/ StopCheck(c) \/ StopSend(c)
    \/ StopKill(c) \/ ReloadQuery(c) \/ ReloadRun(c) \/ Status(c)

Next == (\E g \in Gens : SupNext(g)) \/ (\E c \in Clients : CliNext(c))

\* The supervisor runs on (its bind, fork, restart, stop and exit steps
\* are taken), but nothing forces the service to exit.  The readiness
\* event of a forking or oneshot service does come: its started process
\* exits (once the daemon is up, or when the one-shot job is done), as the
\* type's contract says, and a stop kills it.  A client runs on, and its
\* waits end at their deadlines.
Fairness ==
    /\ \A g \in Gens : WF_vars(Bind(g)) /\ WF_vars(Spawn(g)) /\ WF_vars(WatchReady(g))
                       /\ WF_vars(Restart(g)) /\ WF_vars(Stopped(g))
                       /\ WF_vars(Exit(g))
    /\ \A c \in Clients : WF_vars(CliNext(c))

Spec == Init /\ [][Next]_vars /\ Fairness

-----------------------------------------------------------------------------
(* Properties                                                               *)

TypeOK ==
    /\ sphase \in [Gens -> Phases]
    /\ sstate \in [Gens -> States]
    /\ report \in [Gens -> Reports]
    /\ bound \in 0 .. MaxGen
    /\ nextGen \in 1 .. MaxGen + 1
    /\ everUp \subseteq Gens
    /\ cpc \in [Clients -> {"start", "stop", "stop_ctl", "stop_send", "stop_kill",
                            "launch", "launched", "reload", "reload_run",
                            "status", "done"} \cup WaitPcs]
    /\ cstate \in [Clients -> States \cup {ERROR}]
    /\ cerr \in [Clients -> Errnos]
    /\ cres \in [Clients -> {0, 1, 3, 7}]
    /\ unit \in UnitConfigs
    /\ pidf \in {"live", "absent"}
    /\ svcUp \subseteq Gens
    /\ awaiting \subseteq svcUp
    /\ launched \in [Clients -> 0 .. MaxGen]
    /\ stopFrom \in [Clients -> 1 .. MaxGen + 1]

\* where a client is while it runs service_stop
StopPcs == {"stop", "exec_stop_wait", "stop_ctl", "stop_send", "stop_wait",
            "stop_kill"}

\* the step in which client c returns from service_stop with res (0 or 1)
StopReturns(c, res) ==
    /\ cpc[c] \in StopPcs
    /\ cpc'[c] \in {"start", "done"}
    /\ cres'[c] = res

\* `sysvrun stop` (and the stop half of `restart`) reports success only
\* when no supervisor of the service still runs it: service_stop and
\* monitor_control_stop must not take a supervisor that is still stopping,
\* or one that took the stop order, for a stopped one.  With PIDFile=,
\* plan C signals the service itself and counts that as stopped, so a
\* supervisor the stop found may still be there, but only one ordered to
\* stop (a supervisor some `sysvrun start` launched after the stop began
\* is one plan C may signal by its PID file; that race is left aside).
StopSucceedsOnlyWhenGone ==
    [][\A c \in Clients :
         StopReturns(c, 0) =>
            \A g \in Gens : sphase'[g] \in {"forking", "serving"} =>
                             /\ unit.pidFile
                             /\ g < stopFrom[c] => sstate'[g] = STOPPING
      ]_vars

\* service_stop (`sysvrun stop`, and the stop half of `restart`) fails
\* only while a supervisor still runs the service: a supervisor that goes
\* away on its own between the checks of monitor_control_stop and its
\* "stop" command leaves a stopped service.
StopFailsOnlyWhileUp ==
    [][\A c \in Clients : StopReturns(c, 1) => bound # 0]_vars

\* `sysvrun start` that launched a supervisor reports success only if that
\* supervisor brought the service up (the launcher reports failure on a
\* supervisor that ends MS_DEAD, as the daemon's exit status says).
LaunchReportsUp ==
    [][\A c \in Clients :
         cpc[c] = "launched" /\ cpc'[c] = "done" /\ cres'[c] = 0
            => launched[c] \in everUp]_vars

\* A `sysvrun start` that launched a supervisor does not wait forever in
\* df_parent on the report pipe: the supervisor reports ready once the
\* service runs (spec: starting -> running after the spawn, deferred for
\* forking until the direct child exits), or its exit closes the pipe.
LaunchAnswered ==
    \A c \in Clients : cpc[c] = "launched" ~> cpc[c] = "done"

\* The same for the types the code does promote (simple, exec, forking,
\* oneshot): whether the readiness comes from case MS_STARTING or from
\* monitor_watch, in whatever state a stop or the restart gate left the
\* supervisor, the launcher gets its answer.
PromotedLaunchAnswered ==
    \A c \in Clients :
        cpc[c] = "launched" /\ unit.type \in ReadyAtFork \cup ReadyInWatch
            ~> cpc[c] = "done"

====
