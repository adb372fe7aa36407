------------------------------ MODULE RateLimit ------------------------------
(***************************************************************************)
(* The start-rate gate of monitor_func (src/src/sysvrun/monitor.c): a ring *)
(* of StartLimitBurst start times, filled with zeros by fscalloc, whose    *)
(* first slot holds the time of the first start.  Before each restart the *)
(* time the service would start, now + RestartSec, is compared with the    *)
(* slot under the cursor.                                                  *)
(*                                                                         *)
(* Time is the monotonic clock of clock_usec(), whose origin is the boot;  *)
(* one unit is any fixed span (a second, say).  The service crashes at any *)
(* time after it started; each crash is a restart attempt.                 *)
(***************************************************************************)
EXTENDS Integers, Sequences, FiniteSets

CONSTANTS
    Burst,      \* StartLimitBurst
    Interval,   \* StartLimitIntervalSec
    Delay,      \* RestartSec
    BootTime,   \* clock_usec() when the supervisor starts (time since boot)
    MaxTime     \* model bound on the clock

\* MAX_START_LIMIT_BURST
MaxStartLimitBurst == 100

\* mon.start_limit_burst after capping
B == IF Burst > MaxStartLimitBurst THEN MaxStartLimitBurst ELSE Burst

\* the ring is used only when the interval is positive and the burst > 1
ASSUME Interval > 0 /\ Burst > 1 /\ Delay >= 0 /\ BootTime >= 0

VARIABLES
    now,        \* clock_usec()
    slots,      \* mon.start_times
    cursor,     \* mon.start_time_cursor
    failed,     \* the gate has sent the monitor to MS_FAILED
    history     \* ghost: every start time, in order

vars == <<now, slots, cursor, failed, history>>

\* mutant: the cursor starts on the slot of the first start
InitCursorZero ==
    /\ now = BootTime
    /\ slots = [i \in 0 .. B - 1 |-> IF i = 0 THEN BootTime ELSE 0]
    /\ cursor = 0
    /\ failed = FALSE
    /\ history = <<BootTime>>

\* monitor_func before its loop: the ring, with the first start in slot 0
Init ==
    /\ now = BootTime
    /\ slots = [i \in 0 .. B - 1 |-> IF i = 0 THEN BootTime ELSE 0]
    /\ cursor = 1 % B
    /\ failed = FALSE
    /\ history = <<BootTime>>

\* the service runs on and crashes later
Tick ==
    /\ ~failed
    /\ now < MaxTime
    /\ now' = now + 1
    /\ UNCHANGED <<slots, cursor, failed, history>>

\* mutant: a restart exactly one unit inside the interval is let through
TooSoonOffByOne(delta) == delta < Interval - 1

\* the gate's test: the slot under the cursor is less than the interval old
TooSoon(delta) == delta < Interval

\* mutant: the cursor is not wrapped around the ring
AdvanceNoWrap(c) == c + 1

\* the cursor moves to the next slot, around the ring
Advance(c) == (c + 1) % B

\* case MS_RESTARTING: next_start_time, the check against the slot under
\* the cursor, then either MS_FAILED or the slot update and monitor_wait
\* until the restart time
Restart ==
    LET next  == now + Delay
        delta == next - slots[cursor]
    IN /\ ~failed
       /\ next <= MaxTime
       /\ IF TooSoon(delta)
          THEN /\ failed' = TRUE
               /\ UNCHANGED <<now, slots, cursor, history>>
          ELSE /\ slots' = [slots EXCEPT ![cursor] = next]
               /\ cursor' = Advance(cursor)
               /\ now' = next
               /\ history' = Append(history, next)
               /\ UNCHANGED failed

Next == Tick \/ Restart

Spec == Init /\ [][Next]_vars

-----------------------------------------------------------------------------
(* Reference definition and properties                                      *)

\* The sliding-window rule the ring implements: a start at time `next` is
\* admitted iff fewer than B starts happened in (next - Interval, next].
WindowAdmits(h, next) ==
    Cardinality({i \in DOMAIN h : h[i] > next - Interval}) < B

TypeOK ==
    /\ now \in BootTime .. MaxTime
    /\ slots \in [0 .. B - 1 -> 0 .. MaxTime]
    /\ cursor \in 0 .. B - 1
    /\ failed \in BOOLEAN
    /\ history \in Seq(BootTime .. MaxTime)

\* At no point do more than StartLimitBurst starts fall within any window
\* of StartLimitIntervalSec (the spec's rate-limit property) under the
\* ring-buffer check of the MS_RESTARTING case.
WindowBound ==
    \A t \in 0 .. MaxTime :
        Cardinality({i \in DOMAIN history :
                        history[i] \in t .. t + Interval - 1}) <= B

\* Each verdict of the gate in the MS_RESTARTING case is the verdict of the
\* sliding-window rule over the starts so far: it refuses a restart only
\* when StartLimitBurst starts already lie within the interval.
GateIsSlidingWindow ==
    [][Restart => (failed' <=> ~WindowAdmits(history, now + Delay))]_vars

=============================================================================
