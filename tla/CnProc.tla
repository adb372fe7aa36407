------------------------------- MODULE CnProc -------------------------------
(***************************************************************************)
(* Enabling and disabling the kernel's process event connector            *)
(* (src/src/common/cn_proc.c, procwatch_reconnect and procwatch_stop in    *)
(* src/src/common/procwatch.c) by several supervisors at once.             *)
(*                                                                         *)
(* The kernel keeps one listener count for the whole system.  A LISTEN or *)
(* IGNORE message changes it (unless the sender lacks CAP_NET_ADMIN) and   *)
(* the kernel then broadcasts an ack, with the error code, to every socket *)
(* bound to the connector's group, but only if the count after the change *)
(* is at least one.  Acks carry no indication of whose message they       *)
(* answer in the fields the code reads.                                    *)
(*                                                                         *)
(* A supervisor may also die at any step and be started again (Crash): no *)
(* handler sends its IGNORE, so its increment stays in the count.         *)
(***************************************************************************)
EXTENDS Integers, Sequences, FiniteSets

CONSTANTS
    Procs,         \* supervisor processes
    Unprivileged,  \* those whose LISTEN/IGNORE the kernel refuses (EPERM)
    AcksMayDrop,   \* a multicast ack can be dropped at a full socket (ENOBUFS)
    MaxOps,        \* model bound: connect cycles per supervisor
    MaxCrashes     \* model bound: supervisor crashes in a behaviour

ASSUME Unprivileged \subseteq Procs /\ AcksMayDrop \in BOOLEAN

\* ack error codes: 0 or EPERM
OK == 0
EPERM == 1

VARIABLES
    count,      \* kernel: proc_event_num_listeners
    group,      \* kernel: supervisors with a socket bound to the group
    inbox,      \* kernel: acks queued on each supervisor's socket
    pc,         \* each supervisor: where it is in connect / listen / disconnect
    listening,  \* each supervisor: the static `listening` flag of cn_proc.c
    ops,        \* each supervisor: connect cycles so far
    held,       \* ghost: increments of the count each supervisor has made
    crashes     \* crashes so far

vars == <<count, group, inbox, pc, listening, ops, held, crashes>>

Init ==
    /\ count = 0
    /\ group = {}
    /\ inbox = [p \in Procs |-> <<>>]
    /\ pc = [p \in Procs |-> "down"]
    /\ listening = [p \in Procs |-> FALSE]
    /\ ops = [p \in Procs |-> 0]
    /\ held = [p \in Procs |-> 0]
    /\ crashes = 0

\* cn_proc_send of a LISTEN or IGNORE from p, and cn_proc_mcast_ctl in the
\* kernel handling it (sendmsg is taken to succeed):
\* the new count, and the ack broadcast to the group when count' >= 1;
\* the sockets in `lost` overflow and miss it (the next receive on them
\* fails, which cn_proc_listen treats as it treats a timeout)
Ctl(p, enable) ==
    LET err == IF p \in Unprivileged THEN EPERM ELSE OK
        c   == IF err # OK THEN count ELSE IF enable THEN count + 1 ELSE count - 1
    IN /\ count' = c
       /\ held' = [held EXCEPT ![p] = @ + (c - count)]
       /\ \E lost \in IF AcksMayDrop THEN SUBSET group ELSE {{}} :
             inbox' = [q \in Procs |-> IF q \in group \ lost /\ c >= 1
                                      THEN Append(inbox[q], err) ELSE inbox[q]]

\* procwatch_reconnect from a closed socket: cn_proc_connect binds a new
\* socket to the group
Connect(p) ==
    /\ pc[p] = "down"
    /\ ops[p] < MaxOps
    /\ group' = group \cup {p}
    /\ pc' = [pc EXCEPT ![p] = "connected"]
    /\ ops' = [ops EXCEPT ![p] = @ + 1]
    /\ UNCHANGED <<count, inbox, listening, held, crashes>>

\* then cn_proc_listen(true): nothing to do if the flag already says so,
\* else send LISTEN and wait for an ack
Listen(p) ==
    /\ pc[p] = "connected"
    /\ IF listening[p]
       THEN /\ pc' = [pc EXCEPT ![p] = "on"]
            /\ UNCHANGED <<count, inbox, held>>
       ELSE /\ Ctl(p, TRUE)
            /\ pc' = [pc EXCEPT ![p] = "wait_on"]
    /\ UNCHANGED <<group, listening, ops, crashes>>

\* cn_proc_disconnect (procwatch_stop, or the start of a reconnect) while
\* the flag says listening: IGNORE, then wait for an ack
Disconnect(p) ==
    /\ pc[p] \in {"on", "failed"}
    /\ listening[p]
    /\ Ctl(p, FALSE)
    /\ pc' = [pc EXCEPT ![p] = "wait_off"]
    /\ UNCHANGED <<group, listening, ops, crashes>>

\* cn_proc_disconnect while the flag says not listening: close the socket
Close(p) ==
    /\ pc[p] \in {"on", "failed"}
    /\ ~listening[p]
    /\ group' = group \ {p}
    /\ inbox' = [inbox EXCEPT ![p] = <<>>]
    /\ pc' = [pc EXCEPT ![p] = "down"]
    /\ UNCHANGED <<count, listening, ops, held, crashes>>

\* cn_proc_listen: the first ack on the socket decides, whoever it answers
RecvAck(p) ==
    /\ pc[p] \in {"wait_on", "wait_off"}
    /\ inbox[p] # <<>>
    /\ LET err    == Head(inbox[p])
           enable == pc[p] = "wait_on"
       IN /\ listening' = [listening EXCEPT ![p] = IF err = OK THEN enable ELSE @]
          /\ IF enable
             THEN /\ pc' = [pc EXCEPT ![p] = IF err = OK THEN "on" ELSE "failed"]
                  /\ inbox' = [inbox EXCEPT ![p] = Tail(@)]
                  /\ UNCHANGED group
             ELSE /\ pc' = [pc EXCEPT ![p] = "down"]   \* then close(nld)
                  /\ inbox' = [inbox EXCEPT ![p] = <<>>]
                  /\ group' = group \ {p}
    /\ UNCHANGED <<count, ops, held, crashes>>

\* mutant: a disable that timed out leaves the flag set
AckTimeoutKeepFlag(p) ==
    /\ pc[p] \in {"wait_on", "wait_off"}
    /\ inbox[p] = <<>>
    /\ IF pc[p] = "wait_on"
       THEN /\ pc' = [pc EXCEPT ![p] = "failed"]
            /\ UNCHANGED group
       ELSE /\ pc' = [pc EXCEPT ![p] = "down"]
            /\ group' = group \ {p}
    /\ UNCHANGED <<count, inbox, listening, ops, held, crashes>>

\* cn_proc_listen: no ack within the timeout, or a receive error; a disable
\* is taken to have worked, an enable to have failed
AckTimeout(p) ==
    /\ pc[p] \in {"wait_on", "wait_off"}
    /\ inbox[p] = <<>>
    /\ IF pc[p] = "wait_on"
       THEN /\ pc' = [pc EXCEPT ![p] = "failed"]
            /\ UNCHANGED <<group, listening>>
       ELSE /\ pc' = [pc EXCEPT ![p] = "down"]
            /\ listening' = [listening EXCEPT ![p] = FALSE]
            /\ group' = group \ {p}
    /\ UNCHANGED <<count, inbox, ops, held, crashes>>

\* procwatch_ingest while listening: an ack is read and ignored
SkipAck(p) ==
    /\ pc[p] = "on"
    /\ inbox[p] # <<>>
    /\ inbox' = [inbox EXCEPT ![p] = Tail(@)]
    /\ UNCHANGED <<count, group, pc, listening, ops, held, crashes>>

\* the supervisor dies at any point (killed, or a crash) and init runs it
\* again: the kernel closes its socket, dropping its queued acks, but an
\* increment it made stays in the count, since nobody sends its IGNORE;
\* the new process starts with the static `listening` flag false
Crash(p) ==
    /\ crashes < MaxCrashes
    /\ pc[p] # "down" \/ listening[p]
    /\ crashes' = crashes + 1
    /\ group' = group \ {p}
    /\ inbox' = [inbox EXCEPT ![p] = <<>>]
    /\ pc' = [pc EXCEPT ![p] = "down"]
    /\ listening' = [listening EXCEPT ![p] = FALSE]
    /\ UNCHANGED <<count, ops, held>>

Next ==
    \E p \in Procs :
        \/ Connect(p) \/ Listen(p) \/ Disconnect(p) \/ Close(p)
        \/ RecvAck(p) \/ AckTimeout(p) \/ SkipAck(p) \/ Crash(p)

Spec == Init /\ [][Next]_vars

-----------------------------------------------------------------------------
(* Properties                                                               *)

TypeOK ==
    /\ count \in Int
    /\ group \subseteq Procs
    /\ inbox \in [Procs -> Seq({OK, EPERM})]
    /\ pc \in [Procs -> {"down", "connected", "wait_on", "on", "failed", "wait_off"}]
    /\ listening \in [Procs -> BOOLEAN]
    /\ ops \in [Procs -> 0 .. MaxOps]
    /\ held \in [Procs -> Int]
    /\ crashes \in 0 .. MaxCrashes

\* Every supervisor watching its service (procwatch_start returned true)
\* still receives process events: the kernel multicasts them only while
\* its listener count is positive, so no other supervisor's disconnect may
\* have taken the count to zero under it.  This is what the comment in
\* cn_proc_listen demands: for every successful enable at most one
\* successful disable.
ListenersBacked == \A p \in Procs : pc[p] = "on" => count >= 1

\* No supervisor ever takes back an increment it did not make: its own net
\* contribution to the kernel count never goes negative.
NoForeignDecrement == \A p \in Procs : held[p] >= 0

=============================================================================
