------------------------------- MODULE Monitor -------------------------------
(***************************************************************************)
(* The service supervisor of src/src/sysvrun/monitor.c: the outer state    *)
(* machine (monitor_func), the inner watch loop (monitor_watch) with its   *)
(* kill orchestrator, the idle wait (monitor_wait) and the control-session *)
(* commands, on top of the process table of ProcWatch.                     *)
(*                                                                         *)
(* The supervisor is one thread; the service's processes run concurrently *)
(* with it.  A wake of the watch loop is split at the points where the     *)
(* kernel can act in between: the poll return with the control session   *)
(* and the kill check (WatchPoll), the drain of the event socket and the   *)
(* main-pid lookup (WatchIngest), and the collection and the decision     *)
(* (WatchCollect).  `pc` orders them; every step takes the whole code      *)
(* between two such points.                                                *)
(*                                                                         *)
(* Time is abstracted to what the code compares: the kill timer `koSent`   *)
(* is "zero" (ko.sent = 0; the uptime is taken to exceed TimeoutStopSec),  *)
(* "recent" (a pass was sent less than TimeoutStopSec ago) or "expired".   *)
(* The restart delay is a timer that may fire at any time; the start-rate *)
(* gate is a free choice here and is modelled exactly in RateLimit.        *)
(***************************************************************************)
EXTENDS Naturals, Sequences, SequencesExt, FiniteSets

CONSTANTS
    MaxPid, Self, SelfSid, Statuses, MaxQueue,   \* as in ProcWatch
    Type,            \* Type= : "simple", "exec", "forking", "oneshot", "notify"
    KillMode,        \* KillMode= : "control-group", "mixed", "process", "none"
    RestartPolicy,   \* Restart= : "no", "always", "on-success", "on-failure",
                     \*            "on-abnormal", "on-abort"
    RemainAfterExit, \* RemainAfterExit=
    HasPidfile,      \* PIDFile= is set
    RateLimited,     \* StartLimitBurst > 1 and StartLimitIntervalSec > 0
    Sessions         \* command sequences a privileged control session sends

VARIABLES
    alive, oparent, osid, nextPid, queue,   \* kernel, as in ProcWatch
    pt,          \* the process table
    state,       \* mon.state
    pc,          \* where the supervisor thread is (see PcValues)
    child,       \* mon.child (0 once collected)
    mainPid,     \* mon.pid (0 = unknown; -1 from a bad pid file is 0 here)
    wstatus,     \* mon.wstatus
    msid,        \* mon.sid
    stopping,    \* monitor_watch: number of kill passes
    koSent,      \* monitor_watch: ko.sent, abstracted
    koAll,       \* monitor_watch: ko.all
    collected,   \* monitor_watch: pid != 0 (something collected this watch)
    pidfile,     \* content of the pid file (0 = missing or unreadable)
    reported,    \* report_ready() has been called
    sigs,        \* ghost: signals each process has received
    dropped,     \* ghost: live processes a setsid verdict stopped tracking
    starts,      \* ghost: services forked
    gates,       \* ghost: restarts admitted by the start-rate gate
    stopOk,      \* ghost: the last stop/restart command was an accepted stop
    ordered      \* ghost: a stop or restart was ordered since the last start

PW == INSTANCE ProcWatch WITH forgotten <- dropped

InitPid == PW!InitPid
Pids == PW!Pids
ServicePids == PW!ServicePids
NoStatus == PW!NoStatus

kernelVars == <<alive, oparent, osid, nextPid, queue>>
watchVars == <<stopping, koSent, koAll, collected>>
ghostVars == <<sigs, dropped, starts, gates, stopOk, ordered>>
vars == <<kernelVars, pt, state, pc, child, mainPid, wstatus, msid, watchVars,
          pidfile, reported, ghostVars>>

\* enum monitor_state, in the order of monitor.h
IDLE == 0
RESTARTING == 1
STARTING == 2
RUNNING == 3
REMAINING == 4
STOPPING == 5
STOPPED == 6
FAILED == 7
DEAD == 8
States == IDLE .. DEAD

PcValues == {"outer", "start", "watch", "w_events", "w_collect",
             "wait_restart", "wait_remain", "done"}
WatchPcs == {"watch", "w_events", "w_collect"}

\* abstract wait statuses: a zero exit, a non-zero exit, death by a "clean"
\* signal (SIGHUP, SIGINT, SIGTERM, SIGPIPE) and by any other signal
SigKillStatus == "kill"
ASSUME Statuses \subseteq {"exit0", "exit1", "term", "kill"}
       /\ SigKillStatus \in Statuses

-----------------------------------------------------------------------------
(* Helpers                                                                  *)

\* monitor_is_stopping
IsStopping(s) == s \in {RESTARTING, STOPPING}

\* monitor_func after monitor_watch: ucexit and ucsig
UcExit(ws) == ws = "exit1"
UcSig(ws) == ws = "kill"
Clean(ws) == ~UcExit(ws) /\ ~UcSig(ws)

\* the restart policy matrix
RestartIndicated(ws) ==
    \/ RestartPolicy = "always"
    \/ RestartPolicy = "on-success" /\ Clean(ws)
    \/ RestartPolicy = "on-failure" /\ ~Clean(ws)
    \/ RestartPolicy \in {"on-abnormal", "on-abort"} /\ UcSig(ws)

\* mutant: the exit is evaluated whatever the state
AfterWatchAnyState(s, ws) ==
    CASE s \in {STOPPED, FAILED, DEAD}         -> s
      [] RemainAfterExit /\ Clean(ws)       -> REMAINING
      [] RestartIndicated(ws)               -> RESTARTING
      [] Clean(ws)                          -> STOPPED
      [] OTHER                              -> FAILED

\* the MS_RUNNING case of monitor_func after monitor_watch returned, given
\* the state s and main status ws at that point
AfterWatch(s, ws) ==
    CASE s # RUNNING                        -> s
      [] RemainAfterExit /\ Clean(ws)       -> REMAINING
      [] RestartIndicated(ws)               -> RESTARTING
      [] Clean(ws)                          -> STOPPED
      [] OTHER                              -> FAILED

\* monitor_control_socket_ingest: one privileged command
Command(s, c) ==
    CASE c = "stop"    -> IF s < STOPPING THEN STOPPING ELSE s
      [] c = "restart" -> RESTARTING
      [] OTHER         -> s        \* status, noise=*, anything else
SessionState(s, cmds) == FoldLeft(LAMBDA acc, c : Command(acc, c), s, cmds)
SessionStopOk(b, cmds) ==
    FoldLeft(LAMBDA acc, c : IF c = "stop" THEN TRUE
                             ELSE IF c = "restart" THEN FALSE ELSE acc, b, cmds)
Orders(cmds) == \E i \in DOMAIN cmds : cmds[i] \in {"stop", "restart"}

\* monitor_proc_event: the verdict on a setsid by a tracked process
SetsidDrop(ms) == Type # "forking" \/ ms # SelfSid

\* procwatch_ingest of one event with monitor_proc_event as the callback;
\* m carries the table, mon.sid and the pids the verdicts dropped
IngestOne(m, ev) ==
    LET cb   == PW!HasCallback(m.t, ev) /\ ev.kind = "sid"
        drop == cb /\ SetsidDrop(m.msid)
    IN [t |-> PW!ApplyEvent(m.t, ev, drop),
        msid |-> IF cb /\ ~drop THEN ev.pid ELSE m.msid,
        gone |-> IF drop THEN m.gone \cup {ev.pid} ELSE m.gone]

\* while (procwatch_ingest(0)) over every queued event
IngestAll(withCallback) ==
    FoldLeft(LAMBDA m, ev : IF withCallback THEN IngestOne(m, ev)
                            ELSE [m EXCEPT !.t = PW!ApplyEvent(m.t, ev, FALSE)],
             [t |-> pt, msid |-> msid, gone |-> {}], queue)

\* mutant: the main process's status is not recorded
CollectedNoStatus(m, c) ==
    LET isChild == c.pid = m.child
    IN [m EXCEPT !.t = c.t, !.got = TRUE,
                 !.state = IF isChild /\ Type = "forking" THEN RUNNING ELSE @,
                 !.reported = @ \/ (isChild /\ Type = "forking"),
                 !.child = IF isChild THEN 0 ELSE @]

\* one iteration of the collect loop of monitor_watch
Collected(m, c) ==
    LET isChild == c.pid = m.child
        isMain  == c.pid = m.main
    IN [m EXCEPT !.t = c.t, !.got = TRUE,
                 !.state = IF isChild /\ Type = "forking" THEN RUNNING ELSE @,
                 !.reported = @ \/ (isChild /\ Type = "forking"),
                 !.child = IF isChild THEN 0 ELSE @,
                 !.wstatus = IF isMain THEN c.st ELSE @,
                 !.pidfile = IF isMain /\ HasPidfile THEN 0 ELSE @]

\* while ((proc = process_collect()) != NULL) in monitor_watch
RECURSIVE CollectLoop(_)
CollectLoop(m) ==
    LET c == PW!Collect(m.t)
    IN IF c.err # "none" THEN [m EXCEPT !.err = c.err]
       ELSE CollectLoop(Collected(m, c))

\* the collect loop of monitor_wait, which frees whatever it finds
RECURSIVE CollectDiscard(_)
CollectDiscard(t) ==
    IF PW!Collect(t).err # "none" THEN t ELSE CollectDiscard(PW!Collect(t).t)

\* mutant: one pass too many before giving up
KillPassLimitOffByOne == 4

\* monitor_watch: the pass at which the orchestrator gives up
KillPassLimit == 3

\* monitor_kill over process_foreach: the records a pass signals
KillTargets(t, all) == {p \in t.procs \ {InitPid, Self} : all \/ p = mainPid}

\* kill(pid, sig) reaches only live processes
Deliver(targets, sig) ==
    [p \in Pids |-> IF p \in targets \cap alive THEN sigs[p] \cup {sig}
                    ELSE sigs[p]]

-----------------------------------------------------------------------------
(* The service's processes (the environment).  A process that has received *)
(* SIGKILL does nothing but die of it.                                     *)

Killed == {p \in alive : "KILL" \in sigs[p]}

SvcFork(p) ==
    /\ p \in ServicePids \ Killed
    /\ PW!KFork(p)
    /\ UNCHANGED pidfile

SvcSetsid(p) ==
    /\ p \notin Killed
    /\ PW!KSetsid(p)
    /\ UNCHANGED pidfile

SvcExit(p, st) ==
    /\ p \in Killed => st = SigKillStatus
    /\ PW!KExit(p, st)
    /\ UNCHANGED pidfile

\* a daemon writes its own pid to the pid file
SvcWritePid(p) ==
    /\ HasPidfile
    /\ p \in (alive \cap ServicePids) \ Killed
    /\ pidfile # p
    /\ pidfile' = p
    /\ UNCHANGED kernelVars

\* TimeoutStopSec elapses after a kill pass; a SIGKILLed process is dead
\* well before that
Tick ==
    /\ koSent = "recent"
    /\ Killed = {}
    /\ koSent' = "expired"
    /\ UNCHANGED <<kernelVars, pt, state, pc, child, mainPid, wstatus, msid,
                   stopping, koAll, collected, pidfile, reported, ghostVars>>

EnvUnchanged ==
    UNCHANGED <<pt, state, pc, child, mainPid, wstatus, msid, watchVars,
                reported, ghostVars>>

Environment ==
    /\ \/ \E p \in Pids : SvcFork(p)
       \/ \E p \in Pids : SvcSetsid(p)
       \/ \E p \in Pids, st \in Statuses : SvcExit(p, st)
       \/ \E p \in Pids : SvcWritePid(p)
    /\ EnvUnchanged

-----------------------------------------------------------------------------
(* The supervisor thread.                                                   *)

\* monitor_func before its loop: state idle, then starting
Init ==
    /\ PW!KernelInit
    /\ pt = PW!EmptyTable
    /\ state = STARTING
    /\ pc = "outer"
    /\ child = 0
    /\ mainPid = 0
    /\ wstatus = NoStatus
    /\ msid = SelfSid
    /\ stopping = 0
    /\ koSent = "zero"
    /\ koAll = FALSE
    /\ collected = FALSE
    /\ pidfile = 0
    /\ reported = FALSE
    /\ sigs = [p \in Pids |-> {}]
    /\ dropped = {}
    /\ starts = 0
    /\ gates = 0
    /\ stopOk = FALSE
    /\ ordered = FALSE

\* monitor_watch has broken out of its loop with state s and main status
\* ws: procwatch_drain empties the table, then the MS_RUNNING case
\* of monitor_func evaluates the exit
LeaveWatch(s, ws) ==
    /\ pt' = PW!EmptyTable
    /\ state' = AfterWatch(s, ws)
    /\ wstatus' = ws
    /\ pc' = "outer"
    /\ stopping' = 0 /\ koSent' = "zero" /\ koAll' = FALSE   \* locals gone
    /\ collected' = FALSE

\* mutant: the outer loop forks from MS_RESTARTING without the gate
StartEntryFallThrough ==
    \/ pc = "start"
    \/ pc = "outer" /\ state \in {RESTARTING, STARTING}

\* the switch reaches case MS_STARTING: by the fall-through from
\* MS_RESTARTING, or with the state MS_STARTING
StartEntry ==
    \/ pc = "start"
    \/ pc = "outer" /\ state = STARTING

\* mutant: simple and exec services are not marked running either
StartedStateUnchanged(s) == s

\* the state after a successful fork_function: only simple and exec
\* services are running at once
StartedState(s) == IF Type \in {"simple", "exec"} THEN RUNNING ELSE s

\* case MS_STARTING (and the fall-through from MS_RESTARTING): fork_function
\* returns the child once it has called execve()
Start ==
    /\ StartEntry
    /\ PW!KForkChild
    /\ wstatus' = NoStatus
    /\ child' = nextPid
    /\ msid' = SelfSid
    /\ state' = StartedState(state)
    /\ reported' = (reported \/ Type \in {"simple", "exec"})
    /\ mainPid' = IF Type # "forking" THEN nextPid ELSE mainPid
    /\ pc' = "watch"
    /\ stopping' = 0 /\ koSent' = "zero" /\ koAll' = FALSE
    /\ collected' = FALSE
    /\ starts' = starts + 1
    /\ ordered' = FALSE
    /\ UNCHANGED <<pt, pidfile, sigs, dropped, gates, stopOk>>

\* fork_function fails (fork, or execve in the child): the supervisor is dead
StartFail ==
    /\ StartEntry
    /\ state' = DEAD
    /\ wstatus' = NoStatus
    /\ child' = 0
    /\ msid' = SelfSid
    /\ pc' = "outer"
    /\ UNCHANGED <<kernelVars, pt, mainPid, watchVars, pidfile, reported,
                   ghostVars>>

\* case MS_RESTARTING: the start-rate gate, then monitor_wait until the
\* restart delay has passed
Restarting ==
    /\ pc = "outer"
    /\ state = RESTARTING
    /\ \E admitted \in IF RateLimited THEN BOOLEAN ELSE {TRUE} :
          IF admitted
          THEN /\ pc' = "wait_restart"
               /\ gates' = gates + 1
               /\ UNCHANGED state
          ELSE /\ state' = FAILED
               /\ UNCHANGED <<pc, gates>>
    /\ UNCHANGED <<kernelVars, pt, child, mainPid, wstatus, msid, watchVars,
                   pidfile, reported, sigs, dropped, starts, stopOk,
                   ordered>>

\* case MS_STOPPING: the watch has ended, the service is stopped
Stopping ==
    /\ pc = "outer"
    /\ state = STOPPING
    /\ state' = STOPPED
    /\ UNCHANGED <<kernelVars, pt, pc, child, mainPid, wstatus, msid,
                   watchVars, pidfile, reported, ghostVars>>

\* case MS_REMAINING: monitor_wait with no deadline
Remaining ==
    /\ pc = "outer"
    /\ state = REMAINING
    /\ pc' = "wait_remain"
    /\ UNCHANGED <<kernelVars, pt, state, child, mainPid, wstatus, msid,
                   watchVars, pidfile, reported, ghostVars>>

\* the loop condition fails: procwatch_stop, close the control socket
Finish ==
    /\ pc = "outer"
    /\ state >= STOPPED
    /\ pc' = "done"
    /\ pt' = PW!EmptyTable
    /\ UNCHANGED <<kernelVars, state, child, mainPid, wstatus, msid,
                   watchVars, pidfile, reported, ghostVars>>

\* monitor_watch: poll returns; serve a control session (cmds is empty for
\* a wake by service output or by an unprivileged or status-only session),
\* then the kill check with its passes
WatchPoll(cmds) ==
    /\ pc = "watch"
    /\ LET s    == SessionState(state, cmds)
           due  == IsStopping(s) /\ koSent \in {"zero", "expired"}
           n    == stopping + 1
           all  == \/ koAll
                   \/ n = 1 /\ KillMode = "control-group"
                   \/ n = 2 /\ KillMode = "mixed"
           next == IF queue # <<>> THEN "w_events" ELSE "watch"
       IN /\ stopOk' = SessionStopOk(stopOk, cmds)
          /\ ordered' = (ordered \/ Orders(cmds))
          /\ CASE ~due ->
                    /\ state' = s
                    /\ pc' = next
                    /\ UNCHANGED <<pt, wstatus, watchVars, sigs>>
               [] mainPid = 0 /\ koSent # "zero" ->   \* grace over: drop child
                    /\ LeaveWatch(s, wstatus)
                    /\ UNCHANGED sigs
               [] mainPid = 0 ->                      \* one grace period
                    /\ state' = s
                    /\ koSent' = "recent"
                    /\ pc' = next
                    /\ UNCHANGED <<pt, wstatus, stopping, koAll, collected, sigs>>
               [] KillMode = "none" ->                \* drop main, done
                    /\ LeaveWatch(s, wstatus)
                    /\ UNCHANGED sigs
               [] n = KillPassLimit ->                \* give up
                    /\ LeaveWatch(s, wstatus)
                    /\ UNCHANGED sigs
               [] OTHER ->                            \* SIGTERM, then SIGKILL
                    /\ state' = s
                    /\ stopping' = n
                    /\ koAll' = all
                    /\ koSent' = "recent"
                    /\ sigs' = Deliver(KillTargets(pt, all),
                                       IF n = 1 THEN "TERM" ELSE "KILL")
                    /\ pc' = next
                    /\ UNCHANGED <<pt, wstatus, collected>>
    /\ UNCHANGED <<kernelVars, child, mainPid, msid, pidfile, reported,
                   dropped, starts, gates>>

\* monitor_watch: ingest every queued event with monitor_proc_event as the
\* callback, then look for the main pid once the service child is gone
WatchIngest ==
    /\ pc = "w_events"
    /\ LET m      == IngestAll(TRUE)
           lookup == mainPid = 0 /\ child = 0 /\ HasPidfile
       IN /\ pt' = m.t
          /\ msid' = m.msid
          /\ dropped' = dropped \cup m.gone
          /\ mainPid' = CASE ~lookup                  -> mainPid
                          [] pidfile \in m.t.procs    -> pidfile
                          [] OTHER                    -> 0
    /\ queue' = <<>>
    /\ pc' = "w_collect"
    /\ UNCHANGED <<alive, oparent, osid, nextPid, state, child, wstatus,
                   watchVars, pidfile, reported, sigs, starts, gates,
                   stopOk, ordered>>

\* monitor_watch: collect every terminated process, then decide whether
\* the watch is over
WatchCollect ==
    /\ pc = "w_collect"
    /\ LET r == CollectLoop([t |-> pt, child |-> child, main |-> mainPid,
                             wstatus |-> wstatus, state |-> state,
                             pidfile |-> pidfile, reported |-> reported,
                             got |-> collected, err |-> "none"])
           oneshotDone == Type = "oneshot" /\ r.wstatus # NoStatus
           mainDone    == /\ r.wstatus # NoStatus
                          /\ ~IsStopping(r.state) \/ KillMode = "process"
           noneLeft    == r.err = "ECHILD" /\ r.got
       IN /\ child' = r.child
          /\ pidfile' = r.pidfile
          /\ reported' = (r.reported \/ oneshotDone)
          /\ IF oneshotDone \/ mainDone \/ noneLeft
             THEN LeaveWatch(IF oneshotDone THEN RUNNING ELSE r.state,
                             r.wstatus)
             ELSE /\ pt' = r.t
                  /\ state' = r.state
                  /\ wstatus' = r.wstatus
                  /\ collected' = r.got
                  /\ pc' = "watch"
                  /\ UNCHANGED <<stopping, koSent, koAll>>
    /\ UNCHANGED <<kernelVars, mainPid, msid, ghostVars>>

\* monitor_wait: a wake serves a session, ingests events without a callback
\* and frees whatever is collected; the wait ends when the state changes
WaitWake(cmds) ==
    /\ pc \in {"wait_restart", "wait_remain"}
    /\ LET s       == SessionState(state, cmds)
           waitFor == IF pc = "wait_restart" THEN RESTARTING ELSE REMAINING
       IN /\ state' = s
          /\ pc' = IF s = waitFor THEN pc ELSE "outer"
    /\ pt' = CollectDiscard(IngestAll(FALSE).t)
    /\ queue' = <<>>
    /\ stopOk' = SessionStopOk(stopOk, cmds)
    /\ ordered' = (ordered \/ Orders(cmds))
    /\ UNCHANGED <<alive, oparent, osid, nextPid, child, mainPid, wstatus, msid,
                   watchVars, pidfile, reported, sigs, dropped, starts, gates>>

\* monitor_wait: the restart delay has passed; fall through to MS_STARTING
WaitTimer ==
    /\ pc = "wait_restart"
    /\ pc' = "start"
    /\ UNCHANGED <<kernelVars, pt, state, child, mainPid, wstatus, msid,
                   watchVars, pidfile, reported, ghostVars>>

\* an unrecoverable error in the watch or the wait (poll, a control session
\* error, a failed reconnect of the event socket): the supervisor is dead
Fault ==
    /\ pc \in {"watch", "w_events", "wait_restart", "wait_remain"}
    /\ state' = DEAD
    /\ pc' = "outer"
    /\ pt' = IF pc \in WatchPcs THEN PW!EmptyTable ELSE pt
    /\ stopping' = 0 /\ koSent' = "zero" /\ koAll' = FALSE
    /\ collected' = FALSE
    /\ UNCHANGED <<kernelVars, child, mainPid, wstatus, msid, pidfile,
                   reported, ghostVars>>

\* the supervisor has exited; the service's processes may live on
Terminated ==
    /\ pc = "done"
    /\ UNCHANGED vars

Supervisor ==
    \/ Start \/ StartFail \/ Restarting \/ Stopping \/ Remaining \/ Finish
    \/ \E cmds \in Sessions : WatchPoll(cmds) \/ WaitWake(cmds)
    \/ WatchIngest \/ WatchCollect \/ WaitTimer \/ Fault

Next == Environment \/ Tick \/ Supervisor \/ Terminated

\* The supervisor thread always runs on, poll wakes when events are queued,
\* and timers expire; control sessions, service output and service actions
\* are not assumed to happen.  A SIGKILLed process does die.
Fairness ==
    /\ WF_vars(Start \/ StartFail)
    /\ WF_vars(Restarting) /\ WF_vars(Stopping) /\ WF_vars(Remaining)
    /\ WF_vars(Finish) /\ WF_vars(WaitTimer)
    /\ WF_vars(WatchIngest) /\ WF_vars(WatchCollect)
    /\ WF_vars(queue # <<>> /\ WatchPoll(<<>>))
    /\ WF_vars(queue # <<>> /\ WaitWake(<<>>))
    /\ \A p \in Pids : WF_vars(p \in Killed /\ SvcExit(p, SigKillStatus)
                                 /\ EnvUnchanged)

Spec == Init /\ [][Next]_vars /\ Fairness

-----------------------------------------------------------------------------
(* Properties                                                               *)

TypeOK ==
    /\ PW!TypeOK
    /\ state \in States
    /\ pc \in PcValues
    /\ child \in {0} \cup Pids
    /\ mainPid \in {0} \cup Pids
    /\ wstatus \in Statuses \cup {NoStatus}
    /\ msid \in PW!Sids
    /\ stopping \in 0 .. 2
    /\ koSent \in {"zero", "recent", "expired"}
    /\ koAll \in BOOLEAN /\ collected \in BOOLEAN /\ reported \in BOOLEAN
    /\ pidfile \in {0} \cup Pids
    /\ sigs \in [Pids -> SUBSET {"TERM", "KILL"}]
    /\ dropped \subseteq Pids
    /\ starts \in Nat /\ gates \in Nat
    /\ stopOk \in BOOLEAN /\ ordered \in BOOLEAN

\* Once a privileged `stop` has been answered "ok" (and no `restart` came
\* after it), the service never goes back to starting, running or
\* remaining: monitor_control_socket_ingest sets MS_STOPPING, and neither
\* the collect loop of monitor_watch nor the policy code of monitor_func
\* may override it.
StopHonoured ==
    stopOk => state \in {STOPPING, STOPPED, FAILED, DEAD}

\* Every fork of the service after the first has been admitted by the
\* start-rate gate of the MS_RESTARTING case: the outer loop of
\* monitor_func never re-enters MS_STARTING by another path.
StartsGated == starts <= gates + 1

\* During a watch, the kill orchestrator (a kill pass or the grace period
\* of the no-main-pid branch) only acts once a stop or restart has been
\* ordered over the control socket since the service was last started:
\* monitor_is_stopping in monitor_watch must not be true of a service that
\* was started by the MS_RESTARTING fall-through.
KillOnlyWhenOrdered ==
    pc \in WatchPcs /\ koSent # "zero" => ordered

\* A main process that has died and is still tracked is noticed: the
\* watch ends (or a stop or restart takes over) once its exit event is
\* ingested and collected by monitor_watch.
MainExitNoticed ==
    \A p \in ServicePids :
        (pc \in WatchPcs /\ mainPid = p /\ p \notin alive /\ p \notin dropped)
            ~> (pc \notin WatchPcs \/ IsStopping(state))

\* An accepted stop is eventually carried out: after a `stop` answered
\* "ok" the supervisor exits (or a later `restart` overrides the stop), as
\* the kill orchestrator of monitor_watch escalates every TimeoutStopSec.
StopCompletes == stopOk ~> (pc = "done" \/ ~stopOk)

=============================================================================
