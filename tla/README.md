# TLA+ models of sysvkit's `sysvrun`

These modules model `sysvrun`, the part of sysvkit that runs a systemd-style service under a SysV init regime. The models cover:
- the supervisor, which runs a service, watches its process tree, and stops or restarts it;
- the Linux process-event connector the supervisor listens to;
- the start-rate limiter that guards restarts;
- the `sysvrun <svc> start|stop|restart|reload|status` commands, run concurrently against the supervisors of one service;
- the reading of a unit file into service settings, including time spans;
- `systemctl enable|disable|is-enabled`, which manage the service's links in the `rc?.d` directories.

Each definition is translated from the C code under `src/src/`. `PROJECT.json` names the lines each definition models (`map`), and lists the components, runs, mutants, findings and hazards.

## The system

**Commands.** `sysvrun <svc> start` (`service_start`, `src/src/sysvrun/service.c`) works as follows:
- It reads the unit file (`service_from_unit_file`).
- It asks any running supervisor for its state over the supervisor's abstract control socket (`monitor_control_*`, `monitor.c`).
- Unless a supervisor already runs the service, it daemonizes a new **supervisor** (`daemonize_function`, `fork.c`). The launcher then blocks on a report pipe until the supervisor reports ready or exits.

`stop` works in three plans:
- **Plan A.** Run `ExecStop=` and wait for STOPPED.
- **Plan B.** Otherwise, or on a timeout, `monitor_control_stop`: read the state, send `stop`, and wait up to 10 s.
- **Plan C.** With `PIDFile=`, signal the pid in the pid file per `KillMode=`.

`restart` is a stop followed by a start. `reload` runs `ExecReload=` if the service is up. `status` maps the state, or a probe of the PID file, to an exit code.

**Supervisor.** The supervisor (`monitor_func`, `monitor.c`) runs these steps:
1. It binds the control socket and subscribes to kernel process events (`procwatch_start` → `cn_proc_connect` + `cn_proc_listen(true)`).
2. It forks the service (`fork_function`).
3. It runs the **watch loop** `monitor_watch` until the service is over. Each wake of the loop does the following:
   - serves one control session;
   - runs the **kill orchestrator** when a stop or restart is pending;
   - ingests the queued process events into the **process table** (`procwatch_ingest`, `procwatch.c`);
   - looks up the main pid from the pid file;
   - collects terminated processes and decides whether the watch is over.
4. It applies `Restart=` and the **start-rate gate** (`StartLimitBurst`/`StartLimitIntervalSec`).
5. It then waits and restarts, remains, or exits.

**Shared kernel state.** The kernel's event connector is shared by every supervisor on the machine. One system-wide listener count is changed by every enable and disable, and every ack is broadcast to all listeners (`cn_proc.c`).

**Unit file.** The unit file is parsed character by character (`systemd_parse_unit_file`, `systemd.c`) into a section/key store (`unit.c`). `service_from_unit_file` then reads the settings from the store. Time spans are read by `timespan_from_str` (`timespan.c`).

**systemctl.** `systemctl enable`, `disable` and `is-enabled` (`enable-disable.c`, `status.c`) call `service_manip` (`src/src/systemctl/service.c`). It walks `rc0.d` .. `rc6.d`, and in each `service_manip_rl` does the following:
- It reads every entry, and stats each symlink (`fstatat`).
- It compares the result with the init script's device and inode.
- Enable deletes the service's links under a wrong name, and any other link under the service's name (`S20<name>` at runlevels 2–5, `K80<name>` elsewhere). It then creates the link it did not find.
- Disable deletes every link of the service.
- Is-enabled counts the runlevels that have one.

Nothing serialises two invocations. An entry the other one removes may still come back from `readdir`, and `fstatat` then fails with ENOENT.

## Modules

| Module | Code | State | Actions |
|---|---|---|---|
| `ProcWatch` | `procwatch.c`, the kernel | Kernel processes, parents, sids and the event queue; `pt`, the table of records, parents, child lists, statuses and the ready list | One operator per table function: `Insert`, `Exit`, `Collect`, `DropRec`/`Drop`, `RemoveRecord`, `EmptyTable`. `Ingest` is one `procwatch_ingest`. Kernel steps append events. |
| `Monitor` | `monitor.c` | ProcWatch's state (through `INSTANCE ProcWatch`), plus `state` (mon.state), the thread's `pc`, `child`, `mainPid`, `wstatus`, the watch locals `stopping`, `koSent` and `koAll`, and the pid file | The outer switch (`Start`/`StartFail`, `Restarting`, `Stopping`, `Remaining`, `Finish`). One wake of the watch is split where the kernel can act in between (`WatchPoll`, `WatchIngest`, `WatchCollect`). `WaitWake`/`WaitTimer` model monitor_wait. `Fault` is an error that leads to MS_DEAD. `Environment` covers the service's forks, setsids, exits and pid-file writes. `Tick` is TimeoutStopSec elapsing. |
| `RateLimit` | `monitor_func` 824–872 | `now`, `slots` (mon.start_times), `cursor`, `failed` | `Restart` (the MS_RESTARTING check and ring update) and `Tick`. `WindowAdmits` is the sliding-window reference. |
| `CnProc` | `cn_proc.c`, `procwatch_reconnect`/`stop` | The kernel `count`, the group of bound sockets and each socket's queued acks; per supervisor its `pc` and the static `listening` flag | `Connect`, `Listen`, `RecvAck`, `AckTimeout`, `Disconnect`, `Close`, `SkipAck`, `Crash` (the supervisor dies at any step and is started again) |
| `Control` | `service.c` verbs, `monitor_control_*`, `daemonize_function` | Per supervisor generation: phase and state. The generation bound to the socket, the report pipe, the unit's `ExecStop=`/`ExecReload=`/`PIDFile=`/`KillMode=`/`Type=` (chosen in `Init`), the pid file, whether the forked service still runs (`svcUp`) and whether a forking or oneshot readiness event is pending (`awaiting`). Per client: verb, program counter, last state read, errno and result. | Supervisor: `Bind`, `Spawn` (fork of the service: simple/exec report ready there, monitor.c:896), `WatchReady` (forking's direct child or oneshot's main process collected, monitor.c:666, 687), `ServiceExit`, `ExitUnpromoted` (a notify/dbus/idle service exits while MS_STARTING and is forked again), `Restart`, `Stopped`, `Exit`. Client: `StartQuery`, `Launch`, `Launched`, `StopQuery`, `StopCheck`, `StopSend`, `WaitPoll`, `WaitTimeout`, `StopKill` (plan C), `ReloadQuery`, `ReloadRun`, `Status`. |
| `UnitFile` | `systemd_parse_unit_file`, `unit_update_value`, `systemd_split_quoted` | `text`, `cur`, `section`, `unit` (`<<section, key>> -> value`), `pc`, `words` | One step per pass of the line loop (`BlankLine`, `CommentLine`, `SectionHeader`, `KeyValue`, `Done`, failure) and `Split`. The character loops are recursive operators. `RefParse`/`RefSplit` are line-level reference readings. |
| `TimeSpan` | `timespan_from_str` | none (pure operators) | `TimeSpanFromStr` with `Terms` (the "start over" loop), `StrToUMax` and `UnitIndex`, over a `Width`-bit `usec_t` whose products wrap. `RefTimeSpan` is the token-level reading of systemd.time. |
| `ServiceConfig` | `service_from_unit_file` | UnitFile's state plus `step` and `svc` (the returned struct, or NULL) | `Extract`: the whole function after the parse, in one step. This covers the deservicify walks over Requires=/After=, the dedup walk, the name lookups, the three time spans, RestartSec only with a restart policy, RemainAfterExit through strbool, and StartLimitBurst through strtoul. `RefService` is the reading the comments promise. |
| `Systemctl` | `service_manip`, `service_manip_rl` (systemctl/service.c), `enable_disable` | `dirs` (each rc directory as a function from names to entry: the service's script, another file, a dangling link, a non-link, or none); per invocation its `op`, `pc`, `lvl` (rl), the `readdir` bookkeeping `view`/`stable`/`returned`, `cur`, `sb` (the last stat, or uninitialised), `found` and `count` | One step per system call: `OpenDir` (opendir and the loop's locals), `ReadEntry` (readdir, the d_type test, fstatat with its tolerated ENOENT, and `Decide`, the branch of the loop body), `Unlink` (unlinkat), `EndDir` (readdir's end, symlinkat with EEXIST tolerated, closedir, and `service_manip`'s sum and next runlevel). |
| `Command` | `command_from_service` (command.c), `environment.c`, `strlist_from_delim`/`strlist_to_delim` | ServiceConfig's state plus `call` (the ExecStart-like key and daemon environment chosen, or none yet) and `cmd` (the returned `struct command`, or NULL) | `FromService`: one call of `command_from_service` on the settings read by `Extract`. It builds argv and the prefix flags, resolves the pid file, root and working directories and the executable, looks up the user, group and umask, and builds the environment (`BaseEnv`, `UserEnv`). `EnvironmentSet`/`EnvironmentPut`/`EnvironmentRemoveKeys` model the hash-table functions, including the free of the displaced element. `RefEnv` is the reading the comments promise. |
| `ServiceFile` | `service_from_file`, `sysvinit_parse_init_script` (sysvinit.c), the line searches of `text.c` | Command's state plus `file` (the bytes read), `stage` (read, parse, or rejected) and `errno` | `ReadFile`: the dispatch of `service_from_file`. A unit file goes to the parser as it is. An init script (`#!` first) is checked by `ParseInitScript`, which is the whole of `sysvinit_parse_init_script` over `FindLine`/`NextLine` (`text_first_line_equals`, `text_next_line_prefix`, `text_next_line_equals`). The script is then narrowed to its embedded unit file or rejected. The parse, `Extract` and `FromService` follow. `RefInitScript` is the line-level reading of the comments. |

The `MC_*` modules give the model values and small sets that the `.cfg` files substitute.

Abstractions:
- **Statuses.** A wait status is `exit0`, `exit1`, `term` or `kill`, the cases `ucexit`/`ucsig` tell apart.
- **Time in the watch.** TimeoutStopSec is `koSent` ∈ {zero, recent, expired}.
- **Restart delay.** Timers may fire at any time.
- **Rate gate.** The gate is a free choice in `Monitor` and exact in `RateLimit`.
- **Pid file.** Its contents are a pid or missing.
- **Supervisors seen by the commands.** In `Control` a supervisor is seen from outside: the end of a watch is one step that may reach any state the policy code can choose. The readiness branches by `Type=` are kept: simple and exec are promoted when the fork returns, forking and oneshot in the watch (overriding any state, as the code does), notify, dbus and idle never.
- **Texts.** Texts are sequences over a small alphabet and hold no NUL, so the `*p != '\0'` tests of `text.c` never end a scan early. In `MC_UnitFile` the init-script markers are `##B`, `##E`, `#p`, `:X` and `X`; as in the code, the end marker is a suffix of the start marker. In `MC_UnitFile`, "A" and "B" play section and key names, "s" plays the `.service` suffix, and one-letter keys play the `[Service]` keys.
- **Commands.** Path resolution (`realpath`, `path_resolve_executable`) is an oracle: a name resolves when it is in `Resolvable` and the root and working directories are empty or in `Dirs`. Users and groups are the constants `Users` and `Groups` in place of `getpwnam`/`getgrnam`. The root directory is empty in the checked model. The freed element of a hash table is the model value `Dangling`.
- **Time spans.** These use a 5-bit `usec_t` (TS_INVALID 31, TS_INFINITY 30). One second is 4, and the units are "ms" = 1, "s" = 4 and "m" = 8, in the code's table order.

## Runs

| Run | cfg | Result | What it shows |
|---|---|---|---|
| procwatch_table | ProcWatch.cfg | pass | Under any interleaving of forks, setsid drops, thread events, exits and collection: the table stays a tree rooted at init/self (`TreeWellFormed`); the ready list is exactly the exited records (`ReadyIsExited`); once the queue is drained the table mirrors the kernel (`TableMirrorsKernel`); and a dead tracked process is eventually forgotten (`DeadEventuallyForgotten`). |
| monitor_simple | Monitor.cfg | pass | This run uses Type=simple with a pid file, KillMode=control-group, Restart=on-failure and RemainAfterExit=yes, with stop and restart sessions at every wake, so the MS_REMAINING branch and the service's pid-file writes are reached. A stop answered ok is never overridden (`StopHonoured`). Every restart passed the gate (`StartsGated`). Kill passes only follow an order (`KillOnlyWhenOrdered`). The main process's death ends the watch (`MainExitNoticed`). |
| monitor_forking_stop | MonitorForkingStop.cfg | **violation** | Collecting the forking child sets MS_RUNNING over an accepted stop (monitor.c:669). |
| monitor_forking_restart_kill | MonitorForkingRestartKill.cfg | **violation** | After a policy restart, a forking service is watched in MS_RESTARTING and killed (monitor.c:879, 556). |
| monitor_stop_hangs | MonitorStopHangs.cfg | **violation** | Because the poll has no timeout (`poll(-1)`), an accepted stop can hang after the SIGTERM pass (monitor.c:540). |
| ratelimit | RateLimit.cfg | pass | Started well after boot, the ring's verdicts are those of the sliding-window rule (`GateIsSlidingWindow`), and no window holds more than StartLimitBurst starts (`WindowBound`). |
| cnproc | CnProc.cfg | pass | With three supervisors, a watching supervisor always has a positive kernel count behind it (`ListenersBacked`). No supervisor removes another's increment (`NoForeignDecrement`). Both hold when supervisors crash at any step and leak their increment, as the comment at `cn_proc.c:236` accepts. |
| control | Control.cfg | pass | Two concurrent invocations of any verb run against a service of Type=simple, forking, oneshot or notify, with and without `ExecStop=`, `ExecReload=` and `PIDFile=`. Forking and oneshot units are taken without `PIDFile=`: with it, a stop that `monitor_watch` overrides (the monitor_forking_stop finding) is reported done by plan C. `service_stop` returns 0 (for `stop`, and for the stop half of `restart`) only when no supervisor runs the service (`StopSucceedsOnlyWhenGone`). With PIDFile=, plan C may report success after the 10 s timeout, but only for supervisors the stop ordered to stop. A start that launched a supervisor of a type the code promotes always gets its answer (`PromotedLaunchAnswered`). |
| control_notify_hang | ControlNotifyHang.cfg | **violation** | A Type=notify supervisor stays in MS_STARTING and never reports ready (monitor.c:896), so the `sysvrun start` that launched it blocks in `df_parent` (fork.c:205) for as long as the service runs (`LaunchAnswered`). The spec says starting moves to running once the child is spawned. |
| unitfile | UnitFile.cfg | pass | The character loop accepts exactly the texts the line reading accepts, with the same unit (`ParseAgreesWithLines`). `systemd_split_quoted` gives the reference words (`SplitAgrees`). `service_from_unit_file` returns NULL or exactly the settings of the reference reading (`ConfigAgrees`). `command_from_service` builds, for every variable other than the credentials, the environment the comments describe: the last `Environment=` assignment, passed variables overriding it, `UnsetEnvironment=` and the `-u` list removing names, `PIDFILE`, and `PATH` with the sysvrun directory first (`EnvAgrees`). `service_from_file` hands the parser a unit file as it is. It narrows an init script to exactly the lines between the embed markers that follow an LSB block whose Provides line names the service, or returns NULL with the errno that reading gives (`ScriptAgrees`). |
| systemctl_links | Systemctl.cfg | pass | Two invocations of enable, disable or is-enabled run at once, interleaved at every system call. When all have returned and the writers all ran enable, each runlevel has exactly the right link; when they all ran disable, none is left (`Settled`). No walk deletes a link that does not lead to the service's script, except under the service's link name (`NoForeignUnlink`). Both hold although `readdir` may return entries the other invocation removed, and `fstatat` then leaves its stale buffer. |
| command_credentials | CommandCredentials.cfg | **violation** | When the daemon environment already holds `HOME` (or another credential variable) and the unit sets `User=`, `environment_set(..., false)` frees the element the hash table still holds: the variable is left dangling (environment.c:100). |

Each violation run is a finding in `PROJECT.json`. Each property of a passing run has a mutant there: a plausible bug in the mapped code (a dropped guard, an off-by-one, a walk that skips an element) under which TLC reports the property violated.

Further violations found while modelling are recorded as hazards, each with how to reproduce it. They are not kept as runs within the project's run budget:
- the backslash escape of `systemd_split_quoted`;
- the zero-filled rate ring near boot;
- mon.pid surviving a restart;
- a notify service bypassing the gate;
- the **stop racing the supervisor's exit**. When the supervisor exits between `monitor_control_stop`'s state read and its stop command, `monitor_control_stop` returns the state it read before (monitor.c:1259). For a unit without `PIDFile=`, `sysvrun stop` then exits 1 for a stopped service. `restart` still starts it, because the `PIDFile=` lookup leaves errno at ENOENT. `ControlStopRace.cfg` makes TLC report `StopFailsOnlyWhileUp` violated. Its run slot went to `control_notify_hang`;
- a lost LISTEN;
- the **supervisor that dies before ready**. `monitor_func` returns EXIT_SUCCESS when the service fork failed (monitor.c:993), so `sysvrun start` reports success. `ControlLaunchDead.cfg` (MC_Control) makes TLC report `LaunchReportsUp` violated. Its run slot went to `systemctl_links`;
- the **dangling rc link**. After an `fstatat` that fails with ENOENT, `service_manip_rl` compares the stat buffer of the previous entry, or an uninitialised one (systemctl/service.c:205). Adding `Dir("K80a" :> "svc" @@ "S99a" :> "gone")` to `MC_Systemctl!MCInitDirs` makes TLC report `NoForeignUnlink` violated: enable deletes a dangling link of another name. Adding `Dir("K80a" :> "svc" @@ "S20a" :> "gone")` makes it report `Settled` violated: enable keeps the dangling `S20a` as its own link and creates none;
- the **Provides line outside the LSB block**. `text_next_line_prefix` searches for `# Provides:` up to the end of the script, not only up to `### END INIT INFO`. Adding `#pB` to the fifth slot of `MC_UnitFile!ScriptSlots` makes TLC report `ScriptAgrees` violated: a malformed script is reported as ENOENT ("service not found"). With a second END line after the stray Provides line, a script whose block provides nothing is accepted;
- the **time span wrap**. `timespan_from_str` multiplies before its overflow test, and the unitless form has no test at all. Adding the setting `B=22` to `MC_UnitFile!Settings` makes TLC report `ConfigAgrees` violated: the code stores 22·4 mod 32 = 24 where the reference rejects the span.

## Bounds

| Run | Bounds | Why they are enough |
|---|---|---|
| monitor_* | Pids 1..4 or 1..5 (init 1, supervisor 2), one outstanding service event | A service child, a daemonized grandchild and one more descendant or restart generation exist. Every kill pass, the grace period, the setsid verdicts and a restart are reached. |
| procwatch_table | Pids 1..5, two queued events | Events queue behind each other, and a subtree can be dropped with exited members. |
| ratelimit | Burst 3, Interval 5, Delay 1, time up to 20 | The ring wraps several times. |
| cnproc | Three supervisors, two connect cycles each, two crashes, with symmetry | The count passes through 0–3 and above the watchers after a crash. Acks queue behind other acks and may be dropped. |
| control | Two clients, all five verbs, three supervisor generations; Type simple, forking, oneshot and notify (exec, dbus and idle take the same branches); KillMode control-group or none with `PIDFile=`; `ExecReload=` absent only without `ExecStop=` (reload then answers 3 before any session) | A supervisor can exit, be replaced, and race both clients. Every plan of stop (A, B and C) is taken, and every readiness path: at the fork, in the watch over a stop, and never. |
| systemctl_links | Two invocations with any of the three commands, with symmetry; runlevels 0–2 (two K levels, one S level); 4 names; each directory one of 5 contents (empty, right link, wrong-named link beside a non-link, another service's links under both of the service's names, both names linked) | Every branch of the loop body is taken, at both kinds of level. The two walks interleave inside one directory, so an entry one removes can still be read by the other, including as the first entry (the uninitialised `sb`). Runlevels 3–6 repeat the branches of 0–2. |
| unitfile: unit texts | Texts of up to 4 of 14 lines; 5 `[Unit]` parts × up to 2 of 26 `[Service]` settings; buffers of 3, 3 and 7 bytes | Every line kind is reached, and the key-length check fails (key `AB`). Section names have one letter, so the section-length check never fails. The settings include duplicate and non-service dependencies, every lookup failing and succeeding, infinity, overflow of the sum, unknown units, RestartSec with and without a policy, and a burst that is negative, trailing, or too large for the width. Magnitudes have one digit, so no product wraps (see the hazard above). |
| unitfile: commands | One `ExecStart=` key, 6 command lines and 25 environment, credential, pid-file, directory and umask settings; two daemon environments (with and without `HOME`), one process environment, one `-u` name, one user and one group | Every failure exit of `command_from_service` is taken (empty argv, `@` with nothing after it, unknown user or group, bad umask, unresolvable name or pid file). Every environment source sets, overrides or removes a name that another source also sets. |
| unitfile: init scripts | `#!A`, then one choice for each of 8 slots: a Provides line before the block; the block start, with or without a trailing blank; five Provides lines; the block end; a later Provides or END line; the embed start or a lone end marker; a unit or an early end marker; and the embed end. Each comes with and without the last newline (about 7,800 scripts). | Every failure exit of `sysvinit_parse_init_script` is taken. Every name-matching case is reached (the name as a prefix, after a tab, followed by a second word). The runs include an empty embed, an embed cut short by the end marker, and an embedded unit that goes on to `command_from_service`. |

## Fairness

In `Monitor`, fairness covers:
- the supervisor's own steps, since it is a single thread that runs on;
- the wake by queued events, since poll returns when the event socket is readable;
- the death of a process that received SIGKILL.

Nothing is assumed of control sessions, service output or the service's own actions. There is no fairness on `Tick`: monitor_watch polls without a timeout. `StopCompletes` fails for exactly this reason.

`Systemctl` has no liveness property. Its run sets CHECK_DEADLOCK FALSE, because a state where every invocation has returned has no successor, as the program ends there.

In `ProcWatch`, ingestion and collection are weakly fair.

In `Control`, each client's steps are weakly fair: a process that is not blocked runs on. The supervisor's bind, service fork, restart, stop and exit steps are also weakly fair, because `monitor_func` takes them without waiting for anyone. The service's own exit has no fairness. The readiness event of a forking or oneshot service (`WatchReady`) is weakly fair: the type's contract is that the started process exits, once the daemon is up or when the job is done, and a stop kills it.

## Not modelled

See `components` in `PROJECT.json` for the reason behind each of these:
- `sysvrun` main and argument handling;
- init-script generation (`service_to_init_script`; `sysvinit_create_init_script` is a stub) and `sysvinit_find_service`'s path search;
- `timespan_to_str`;
- the text and list helpers other than the `strlist` and `environment` functions `command_from_service` uses;
- `command_getpid` (pid-file text parsing; see the truncation hazard), the exec and credential-dropping steps of `command_exec`, and command formatting;
- the `systemctl` front end other than enable, disable and is-enabled: argument handling, and `start`/`stop`/`reload`/`status` through `service_invoke`, which runs the init script;
- in `Systemctl`:
  - `service_find`;
  - I/O errors other than the ENOENT and EEXIST the code tolerates;
  - a missing rc directory;
  - the answer `is-enabled` prints, which no property checks. The code's `service_is_enabled` counts links at every runlevel 0–6, K links included. Its comment says "runlevels 2 through 5", so a service with only K links (as `update-rc.d disable` leaves it) is reported enabled;
- logging and output forwarding.

Also not modelled:
- the loss of process events (ENOBUFS) and the reconnect without resynchronisation;
- the boot-time edge of `ko.sent == 0`;
- supervisor crashes outside `CnProc`;
- dependencies between services (`Requires=` cycles in `service_start`).
