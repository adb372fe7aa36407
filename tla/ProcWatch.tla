------------------------------ MODULE ProcWatch ------------------------------
(***************************************************************************)
(* The process watcher of src/common/procwatch.c together with the kernel  *)
(* process-event feed it consumes (src/common/cn_proc.c).                  *)
(*                                                                         *)
(* The kernel side is the environment: service processes fork, setsid,     *)
(* exec and exit, and every such step appends one event to the netlink     *)
(* queue in kernel order.  The code side is the process table `pt`: the    *)
(* hash table of records keyed by pid, each record's parent, session,      *)
(* ordered child list and wait status, and the FIFO `ready` list.  The     *)
(* table operations (process_insert, process_exit, process_collect,        *)
(* process_drop, process_remove, processes_init) are pure operators on a   *)
(* table value so that the supervisor module (Monitor) can reuse them      *)
(* inside its own actions.                                                 *)
(***************************************************************************)
EXTENDS Naturals, Sequences, SequencesExt, FiniteSets

CONSTANTS
    MaxPid,     \* pids are 1..MaxPid; the kernel never reuses a pid here
    Self,       \* pid of the supervisor itself (getpid())
    SelfSid,    \* session of the supervisor (getsid(0)), not a pid of Pids
    Statuses,   \* abstract wait statuses an exit event can carry
    MaxQueue    \* model bound: events queued and not yet ingested

InitPid == 1
Pids == 1..MaxPid
ServicePids == Pids \ {InitPid, Self}
NoStatus == "none"                       \* wstatus == -1
Sids == Pids \cup {SelfSid}

ASSUME Self \in Pids /\ Self # InitPid /\ SelfSid \notin Pids /\ SelfSid # 0

VARIABLES
    alive,      \* kernel: live processes
    oparent,    \* kernel: parent of each process (0 = never existed)
    osid,       \* kernel: session of each process (0 = never existed)
    nextPid,    \* kernel: next pid handed out by fork
    queue,      \* kernel: netlink event queue, in kernel order
    pt,         \* code: the process table (hash table + ready list)
    forgotten   \* ghost: pids the supervisor chose to stop tracking

kernelVars == <<alive, oparent, osid, nextPid, queue>>
vars == <<alive, oparent, osid, nextPid, queue, pt, forgotten>>

(***************************************************************************)
(* Kernel events (struct proc_event).  `actor` is the tgid the code looks  *)
(* up first (the parent for a fork); `thread` is a fork whose child tid is *)
(* not its tgid, or an exit whose exit signal is not SIGCHLD.              *)
(***************************************************************************)
EventKinds == {"none", "fork", "exec", "sid", "exit", "info"}
Event == [kind : EventKinds, actor : Pids, pid : Pids,
          st : Statuses \cup {NoStatus}, thread : BOOLEAN]
Ev(k, a, p, s, th) == [kind |-> k, actor |-> a, pid |-> p, st |-> s, thread |-> th]

Table == [procs : SUBSET Pids, ppid : [Pids -> Pids \cup {0}],
          sid : [Pids -> Sids \cup {0}], children : [Pids -> Seq(Pids)],
          wstatus : [Pids -> Statuses \cup {NoStatus}], ready : Seq(Pids)]

-----------------------------------------------------------------------------
(* Table operations, one operator per function of procwatch.c.             *)

\* processes_init: an empty table holding only init and self
EmptyTable ==
    [procs    |-> {InitPid, Self},
     ppid     |-> [p \in Pids |-> IF p \in {InitPid, Self} THEN p ELSE 0],
     sid      |-> [p \in Pids |-> CASE p = InitPid -> 1
                                    [] p = Self    -> SelfSid
                                    [] OTHER       -> 0],
     children |-> [p \in Pids |-> <<>>],
     wstatus  |-> [p \in Pids |-> NoStatus],
     ready    |-> <<>>]

\* hash_table_pop + process_destroy: the record of p is gone
Forget(t, p) ==
    [t EXCEPT !.procs = @ \ {p}, !.ppid[p] = 0, !.sid[p] = 0,
              !.children[p] = <<>>, !.wstatus[p] = NoStatus]

\* process_unparent: detach p from its parent's child list, if the parent exists
Unparent(t, p) ==
    IF t.ppid[p] \in t.procs
    THEN [t EXCEPT !.children[t.ppid[p]] = RemoveFirst(@, p)]
    ELSE t

\* process_reparent_children: move every child of p to the end of init's list
ReparentChildren(t, p) ==
    LET kids == t.children[p]
    IN [t EXCEPT !.ppid = [q \in Pids |-> IF q \in ToSet(kids) THEN InitPid
                                          ELSE t.ppid[q]],
                 !.children = [t.children EXCEPT ![InitPid] = @ \o kids,
                                                 ![p] = <<>>]]

\* process_insert: update an existing record (only a reparent to init and a
\* setsid to its own pid are legal) or create one under an existing parent
Insert(t, pid, ppid, sid) ==
    IF pid \in t.procs
    THEN LET reparent == ppid # 0 /\ ppid # t.ppid[pid]
             resid    == sid # 0 /\ sid # t.sid[pid]
             t1 == IF reparent
                   THEN [Unparent(t, pid) EXCEPT
                            !.children[InitPid] = Append(@, pid),
                            !.ppid[pid] = InitPid]
                   ELSE t
         IN CASE reparent /\ ppid # InitPid -> t      \* EINVAL, unchanged
              [] resid /\ sid # pid         -> t1     \* EINVAL after reparent
              [] resid                      -> [t1 EXCEPT !.sid[pid] = sid]
              [] OTHER                      -> t1
    ELSE IF ppid # pid /\ ppid \notin t.procs THEN t  \* parent not found
    ELSE IF ppid # pid /\ sid # 0 /\ sid # t.sid[ppid] THEN t
    ELSE LET s == IF ppid # pid /\ sid = 0 THEN t.sid[ppid] ELSE sid
         IN [t EXCEPT !.procs = @ \cup {pid}, !.ppid[pid] = ppid,
                      !.sid[pid] = s, !.children[pid] = <<>>,
                      !.wstatus[pid] = NoStatus,
                      !.children[ppid] = IF ppid # pid THEN Append(@, pid)
                                         ELSE @]

\* mutant: the children stay with the exited parent
ExitNoReparent(t, pid, st) ==
    IF pid \notin t.procs THEN t
    ELSE [t EXCEPT !.wstatus[pid] = st, !.ready = Append(@, pid)]

\* process_exit: record the status, hand the children to init, queue it
Exit(t, pid, st) ==
    IF pid \notin t.procs THEN t
    ELSE [ReparentChildren(t, pid) EXCEPT !.wstatus[pid] = st,
                                          !.ready = Append(@, pid)]

\* mutant: the record is not detached from its parent's child list
CollectNoUnparent(t) ==
    IF t.procs = {InitPid, Self}
    THEN [t |-> t, pid |-> 0, st |-> NoStatus, err |-> "ECHILD"]
    ELSE IF t.ready = <<>>
    THEN [t |-> t, pid |-> 0, st |-> NoStatus, err |-> "EAGAIN"]
    ELSE LET p == Head(t.ready)
         IN [t |-> Forget([t EXCEPT !.ready = Tail(@)], p),
             pid |-> p, st |-> t.wstatus[p], err |-> "none"]

\* mutant: ECHILD is reported while one record besides init and self is left
CollectEChildOffByOne(t) ==
    IF Cardinality(t.procs) <= 3
    THEN [t |-> t, pid |-> 0, st |-> NoStatus, err |-> "ECHILD"]
    ELSE IF t.ready = <<>>
    THEN [t |-> t, pid |-> 0, st |-> NoStatus, err |-> "EAGAIN"]
    ELSE LET p == Head(t.ready)
         IN [t |-> Forget(Unparent([t EXCEPT !.ready = Tail(@)], p), p),
             pid |-> p, st |-> t.wstatus[p], err |-> "none"]

\* process_collect: pop the oldest ready record and remove it from the table;
\* err is ECHILD when only init and self remain, EAGAIN when none is ready
Collect(t) ==
    IF t.procs = {InitPid, Self}
    THEN [t |-> t, pid |-> 0, st |-> NoStatus, err |-> "ECHILD"]
    ELSE IF t.ready = <<>>
    THEN [t |-> t, pid |-> 0, st |-> NoStatus, err |-> "EAGAIN"]
    ELSE LET p == Head(t.ready)
         IN [t |-> Forget(Unparent([t EXCEPT !.ready = Tail(@)], p), p),
             pid |-> p, st |-> t.wstatus[p], err |-> "none"]

\* mutant: a dropped record is left on the ready list
RECURSIVE DropRecKeepReady(_, _)
DropRecKeepReady(t, p) ==
    LET t1 == FoldLeft(LAMBDA acc, c : DropRecKeepReady(acc, c),
                       [t EXCEPT !.children[p] = <<>>], t.children[p])
    IN Forget(t1, p)

\* process_drop_recursive: drop every child in order, then the record itself
RECURSIVE DropRec(_, _)
DropRec(t, p) ==
    LET t1 == FoldLeft(LAMBDA acc, c : DropRec(acc, c),
                       [t EXCEPT !.children[p] = <<>>], t.children[p])
    IN Forget([t1 EXCEPT !.ready = RemoveFirst(@, p)], p)

\* process_drop: detach from the parent, then drop the whole subtree
Drop(t, pid) ==
    IF pid \notin t.procs THEN t ELSE DropRec(Unparent(t, pid), pid)

\* process_remove: take the record out of the table and the ready list and
\* reparent its children to init (init and self are refused by fatal())
RemoveRecord(t, pid) ==
    IF pid \notin t.procs THEN t
    ELSE Forget(ReparentChildren([t EXCEPT !.ready = RemoveFirst(@, pid)],
                                 pid), pid)

\* procwatch_ingest after a successful receive: apply one event; `drop` is the
\* callback's verdict (PROCWATCH_ACTION_DROP) for an exec or setsid event
ApplyEvent(t, ev, drop) ==
    IF ev.kind = "none" \/ ev.actor \notin t.procs THEN t
    ELSE CASE ev.kind = "fork" ->
                IF ev.thread \/ ev.actor = InitPid THEN t
                ELSE Insert(t, ev.pid, ev.actor, 0)
           [] ev.kind = "exec" -> IF drop THEN Drop(t, ev.pid) ELSE t
           [] ev.kind = "sid" ->
                LET t1 == Insert(t, ev.pid, 0, ev.pid)
                IN IF drop THEN Drop(t1, ev.pid) ELSE t1
           [] ev.kind = "exit" -> IF ev.thread THEN t ELSE Exit(t, ev.pid, ev.st)
           [] OTHER -> t

\* the records an event's callback is invoked for (exec and setsid only)
HasCallback(t, ev) ==
    ev.kind \in {"exec", "sid"} /\ ev.actor \in t.procs

-----------------------------------------------------------------------------
(* The kernel: what service processes do.  Each step emits its event.      *)

Emit(ev) == Len(queue) < MaxQueue /\ queue' = Append(queue, ev)

\* fork(2) by a live process p; init's forks are unrelated processes
KFork(p) ==
    /\ p \in alive \ {Self}
    /\ nextPid <= MaxPid
    /\ alive' = alive \cup {nextPid}
    /\ oparent' = [oparent EXCEPT ![nextPid] = p]
    /\ osid' = [osid EXCEPT ![nextPid] = osid[p]]
    /\ nextPid' = nextPid + 1
    /\ Emit(Ev("fork", p, nextPid, NoStatus, FALSE))

\* setsid(2): p becomes leader of a new session
KSetsid(p) ==
    /\ p \in alive \cap ServicePids
    /\ osid[p] # p
    /\ osid' = [osid EXCEPT ![p] = p]
    /\ Emit(Ev("sid", p, p, NoStatus, FALSE))
    /\ UNCHANGED <<alive, oparent, nextPid>>

\* execve(2), or a thread fork or exit: events the table keeps the process
\* for (informational events, uid, gid, comm and coredump, take the same
\* path as a thread event and are not generated separately)
KOther(p, k, th) ==
    /\ p \in alive \cap ServicePids
    /\ Emit(Ev(k, p, p, NoStatus, th))
    /\ UNCHANGED <<alive, oparent, osid, nextPid>>

\* the last thread of p exits with status st; its children go to init
KExit(p, st) ==
    /\ p \in alive \cap ServicePids
    /\ alive' = alive \ {p}
    /\ oparent' = [q \in Pids |-> IF q \in alive /\ oparent[q] = p THEN InitPid
                                  ELSE oparent[q]]
    /\ Emit(Ev("exit", p, p, st, FALSE))
    /\ UNCHANGED <<osid, nextPid>>

\* the supervisor forks its service child (fork_function); the fork event
\* is queued like any other (MaxQueue bounds only the service's own events,
\* so that the supervisor never waits on the model bound)
KForkChild ==
    /\ nextPid <= MaxPid
    /\ alive' = alive \cup {nextPid}
    /\ oparent' = [oparent EXCEPT ![nextPid] = Self]
    /\ osid' = [osid EXCEPT ![nextPid] = SelfSid]
    /\ nextPid' = nextPid + 1
    /\ queue' = Append(queue, Ev("fork", Self, nextPid, NoStatus, FALSE))

KernelStep ==
    \/ \E p \in Pids : KFork(p)
    \/ \E p \in Pids : KSetsid(p)
    \/ \E p \in Pids : KOther(p, "exec", FALSE)
    \/ \E p \in Pids, k \in {"fork", "exit"} : KOther(p, k, TRUE)
    \/ \E p \in Pids, st \in Statuses : KExit(p, st)

-----------------------------------------------------------------------------
(* The code: events ingested one at a time, records collected by a client *)
(* (the supervisor, modelled in Monitor); drops come from the callback.    *)

KernelInit ==
    /\ alive = {InitPid, Self}
    /\ oparent = [p \in Pids |-> IF p \in {InitPid, Self} THEN InitPid ELSE 0]
    /\ osid = [p \in Pids |-> CASE p = InitPid -> 1
                               [] p = Self    -> SelfSid
                               [] OTHER       -> 0]
    /\ nextPid = Self + 1
    /\ queue = <<>>

\* procwatch_start: init and self in the table, events enabled
Init ==
    /\ KernelInit
    /\ pt = EmptyTable
    /\ forgotten = {}

\* the ghost update of a step that makes the table stop tracking live pids
Untracked(t, t2) == (t.procs \ t2.procs) \cap alive

\* procwatch_ingest: receive the oldest event and apply it
Ingest(drop) ==
    /\ queue # <<>>
    /\ pt' = ApplyEvent(pt, Head(queue), drop)
    /\ queue' = Tail(queue)
    /\ forgotten' = forgotten \cup Untracked(pt, pt')
    /\ UNCHANGED <<alive, oparent, osid, nextPid>>

\* process_collect + process_destroy: take one terminated record
CollectOne ==
    /\ Collect(pt).err = "none"
    /\ pt' = Collect(pt).t
    /\ UNCHANGED <<kernelVars, forgotten>>

Next ==
    \/ KernelStep /\ UNCHANGED <<pt, forgotten>>
    \/ KForkChild /\ UNCHANGED <<pt, forgotten>>
    \/ \E d \in BOOLEAN : Ingest(d)
    \/ CollectOne

Spec == Init /\ [][Next]_vars /\ WF_vars(\E d \in BOOLEAN : Ingest(d))
                              /\ WF_vars(CollectOne)

-----------------------------------------------------------------------------
(* Properties                                                               *)

TypeOK ==
    /\ alive \subseteq Pids
    /\ queue \in Seq(Event)
    /\ pt \in Table
    /\ forgotten \subseteq Pids
    /\ nextPid \in Self + 1 .. MaxPid + 1

\* The table is a tree rooted at init and self (process_insert,
\* process_exit, process_collect, process_drop): every other record's
\* parent is in the table and lists it exactly once, and every listed child
\* is a record whose parent is the lister.
TreeWellFormed ==
    /\ {InitPid, Self} \subseteq pt.procs
    /\ \A p \in pt.procs \ {InitPid, Self} :
          /\ pt.ppid[p] \in pt.procs
          /\ Cardinality({i \in DOMAIN pt.children[pt.ppid[p]] :
                              pt.children[pt.ppid[p]][i] = p}) = 1
    /\ \A p \in pt.procs : \A i \in DOMAIN pt.children[p] :
          LET c == pt.children[p][i] IN c \in pt.procs /\ pt.ppid[c] = p

\* A record is on the ready list exactly once iff it is in the table with a
\* wait status (process_exit appends, process_collect and process_drop
\* take it off).
ReadyIsExited ==
    /\ ToSet(pt.ready) = {p \in pt.procs : pt.wstatus[p] # NoStatus}
    /\ Len(pt.ready) = Cardinality(ToSet(pt.ready))

\* Once every queued event is ingested, the table mirrors the kernel
\* (procwatch_ingest applied in kernel order): a tracked record is alive iff
\* it has no status, a live record has its kernel parent and session, and a
\* live process whose parent is tracked is tracked unless it was dropped.
TableMirrorsKernel ==
    queue = <<>> =>
      /\ \A p \in pt.procs \cap ServicePids :
            /\ (p \in alive) <=> (pt.wstatus[p] = NoStatus)
            /\ p \in alive => pt.ppid[p] = oparent[p] /\ pt.sid[p] = osid[p]
      /\ \A p \in alive \cap ServicePids :
            oparent[p] \in pt.procs \ {InitPid} /\ p \notin forgotten
              => p \in pt.procs

\* A tracked process that has died is eventually no longer in the table
\* (its exit event is ingested and process_collect takes it).
DeadEventuallyForgotten ==
    \A p \in ServicePids :
        (p \in pt.procs /\ p \notin alive) ~> (p \notin pt.procs)

=============================================================================
