----------------------------- MODULE Systemctl -----------------------------
(***************************************************************************)
(* systemctl enable, disable and is-enabled (src/src/systemctl/service.c, *)
(* enable-disable.c, status.c): service_manip walks the rc directories of *)
(* runlevels 0 .. MaxLevel and, in each, service_manip_rl reads every      *)
(* entry, stats it, and deletes or counts the links to the service's init  *)
(* script; enable ends a directory by creating the link it did not find.   *)
(*                                                                         *)
(* Several invocations run at once, with nothing to serialise them, so     *)
(* each system call is a step of its own: opendir, readdir with fstatat,   *)
(* unlinkat, and readdir's end with symlinkat.  readdir over a directory   *)
(* that changes follows POSIX: an entry present from opendir to the end is *)
(* returned once; one created or removed meanwhile may be returned or not  *)
(* (a removed one is then a name fstatat fails on with ENOENT).            *)
(*                                                                         *)
(* An entry is the target of a symlink: "svc" (the service's init script,  *)
(* the st_dev/st_ino of svc->sb), "other" (another existing file),        *)
(* "gone" (a dangling link) or "file" (an entry that is not a symlink);    *)
(* NoEntry marks a name not in the directory.  I/O errors other than the   *)
(* ENOENT and EEXIST the code tolerates are not modelled.                 *)
(***************************************************************************)
EXTENDS Naturals, FiniteSets

CONSTANTS
    Procs,      \* the systemctl invocations
    MaxLevel,   \* the last runlevel of the loop in service_manip (6)
    Names,      \* the names an rc directory may hold
    StartName,  \* start_link(svc->name): "S20" name
    StopName,   \* stop_link(svc->name): "K80" name
    InitDirs    \* the directory contents the walk may find at first

Ops == {"enable", "disable", "is-enabled"}
Levels == 0 .. MaxLevel
Entries == {"svc", "other", "gone", "file"}
NoEntry == "none"
Phases == {"open", "walk", "unlink", "done"}

VARIABLES
    dirs,      \* dirs[l][n]: the entry named n in rc<l>.d, or NoEntry
    op,        \* the command each invocation runs
    pc,        \* where each invocation is
    lvl,       \* rl in service_manip
    view,      \* the names readdir may still return from the open directory
    stable,    \* the names present since opendir: readdir must return them
    returned,  \* the names readdir has returned
    cur,       \* de->d_name of the entry about to be unlinked
    sb,        \* the struct stat fstatat last filled ("uninit" before)
    found,     \* found in service_manip_rl
    count      \* ret in service_manip: the runlevels where a link was found

vars == <<dirs, op, pc, lvl, view, stable, returned, cur, sb, found, count>>

Present(d) == {n \in Names : d[n] # NoEntry}

\* the name of the service's link in rc<l>.d (start_link for 2 .. 5)
Link(l) == IF l \in 2 .. 5 THEN StartName ELSE StopName

\* the invocations whose directory rc<l>.d is open
Walking(l) == {q \in Procs : pc[q] \in {"walk", "unlink"} /\ lvl[q] = l}

\* mutant: a link of another service is deleted whatever its name
DecideAnyName(o, s, n, l) ==
    CASE s = "svc" /\ o = "enable" /\ n # Link(l) -> "unlink"
      [] s = "svc" /\ o = "disable"               -> "unlink"
      [] s = "svc"                                -> "found"
      [] o = "enable"                             -> "unlink"
      [] OTHER                                    -> "skip"

\* the entry of service_manip_rl's loop once fstatat has filled s:
\* "unlink" when it is to be deleted, "found" when it is a link of the
\* service kept, "skip" otherwise
Decide(o, s, n, l) ==
    CASE s = "svc" /\ o = "enable" /\ n # Link(l) -> "unlink"
      [] s = "svc" /\ o = "disable"               -> "unlink"
      [] s = "svc"                                -> "found"
      [] o = "enable" /\ n = Link(l)              -> "unlink"
      [] OTHER                                    -> "skip"

\* mutant: found is not reset for each runlevel
OpenDirKeepFound(p) ==
    /\ pc[p] = "open"
    /\ view' = [view EXCEPT ![p] = Present(dirs[lvl[p]])]
    /\ stable' = [stable EXCEPT ![p] = Present(dirs[lvl[p]])]
    /\ returned' = [returned EXCEPT ![p] = {}]
    /\ sb' = [sb EXCEPT ![p] = "uninit"]
    /\ pc' = [pc EXCEPT ![p] = "walk"]
    /\ UNCHANGED <<dirs, op, lvl, cur, found, count>>

\* opendir(rcdir) with the locals of service_manip_rl initialised
OpenDir(p) ==
    /\ pc[p] = "open"
    /\ view' = [view EXCEPT ![p] = Present(dirs[lvl[p]])]
    /\ stable' = [stable EXCEPT ![p] = Present(dirs[lvl[p]])]
    /\ returned' = [returned EXCEPT ![p] = {}]
    /\ sb' = [sb EXCEPT ![p] = "uninit"]
    /\ found' = [found EXCEPT ![p] = FALSE]
    /\ pc' = [pc EXCEPT ![p] = "walk"]
    /\ UNCHANGED <<dirs, op, lvl, cur, count>>

\* readdir returns n; an entry that is not a symlink is passed over, a
\* link is stat'ed: a name no longer there, or a dangling link, fails with
\* ENOENT, which is let through with sb as it was (uninitialised: any value)
ReadEntry(p, n) ==
    LET l == lvl[p]
        e == dirs[l][n]
    IN /\ pc[p] = "walk"
       /\ n \in view[p] \ returned[p]
       /\ returned' = [returned EXCEPT ![p] = @ \cup {n}]
       /\ IF e = "file"
          THEN UNCHANGED <<sb, found, pc, cur>>
          ELSE \E s \in IF e \in {"svc", "other"} THEN {e}
                        ELSE IF sb[p] = "uninit" THEN {"svc", "other"}
                        ELSE {sb[p]} :
                 LET d == Decide(op[p], s, n, l)
                 IN /\ sb' = [sb EXCEPT ![p] = s]
                    /\ found' = [found EXCEPT ![p] = @ \/ d = "found"
                                        \/ (d = "unlink" /\ op[p] = "disable")]
                    /\ pc' = [pc EXCEPT ![p] = IF d = "unlink" THEN "unlink" ELSE "walk"]
                    /\ cur' = [cur EXCEPT ![p] = n]
       /\ UNCHANGED <<dirs, op, lvl, view, stable, count>>

\* unlinkat(dirfd, de->d_name): ENOENT is ignored; the name leaves the
\* entries other walks of the directory must still return
Unlink(p) ==
    LET l == lvl[p]
        n == cur[p]
    IN /\ pc[p] = "unlink"
       /\ dirs' = [dirs EXCEPT ![l][n] = NoEntry]
       /\ stable' = [q \in Procs |-> IF q \in Walking(l) THEN stable[q] \ {n} ELSE stable[q]]
       /\ pc' = [pc EXCEPT ![p] = "walk"]
       /\ UNCHANGED <<op, lvl, view, returned, cur, sb, found, count>>

\* mutant: the loop runs one runlevel too far
LastLevelPastEnd(l) == l = MaxLevel + 1

\* the last runlevel of service_manip's loop
LastLevel(l) == l = MaxLevel

\* readdir returns NULL once every entry present throughout has been
\* returned; enable then creates the link it did not find (EEXIST is
\* success), and service_manip adds found and moves to the next runlevel
EndDir(p) ==
    LET l == lvl[p]
        make == op[p] = "enable" /\ ~found[p] /\ dirs[l][Link(l)] = NoEntry
    IN /\ pc[p] = "walk"
       /\ stable[p] \subseteq returned[p]
       /\ dirs' = IF make THEN [dirs EXCEPT ![l][Link(l)] = "svc"] ELSE dirs
       /\ view' = [q \in Procs |-> IF make /\ q \in Walking(l) \ {p}
                                   THEN view[q] \cup {Link(l)} ELSE view[q]]
       /\ count' = [count EXCEPT ![p] = @ + (IF found[p] THEN 1 ELSE 0)]
       /\ IF LastLevel(l)
          THEN pc' = [pc EXCEPT ![p] = "done"] /\ UNCHANGED lvl
          ELSE pc' = [pc EXCEPT ![p] = "open"] /\ lvl' = [lvl EXCEPT ![p] = l + 1]
       /\ UNCHANGED <<op, stable, returned, cur, sb, found>>

Init ==
    /\ dirs \in [Levels -> InitDirs]
    /\ op \in [Procs -> Ops]
    /\ pc = [p \in Procs |-> "open"]
    /\ lvl = [p \in Procs |-> 0]
    /\ view = [p \in Procs |-> {}]
    /\ stable = [p \in Procs |-> {}]
    /\ returned = [p \in Procs |-> {}]
    /\ cur = [p \in Procs |-> StartName]
    /\ sb = [p \in Procs |-> "uninit"]
    /\ found = [p \in Procs |-> FALSE]
    /\ count = [p \in Procs |-> 0]

\* every invocation has returned
Done == \A p \in Procs : pc[p] = "done"

Next ==
    \E p \in Procs :
        \/ OpenDir(p)
        \/ \E n \in Names : ReadEntry(p, n)
        \/ Unlink(p)
        \/ EndDir(p)

Spec == Init /\ [][Next]_vars

-----------------------------------------------------------------------------
(* Properties                                                               *)

TypeOK ==
    /\ dirs \in [Levels -> [Names -> Entries \cup {NoEntry}]]
    /\ op \in [Procs -> Ops]
    /\ pc \in [Procs -> Phases]
    /\ lvl \in [Procs -> Levels]
    /\ \A p \in Procs : view[p] \cup stable[p] \cup returned[p] \subseteq Names
    /\ cur \in [Procs -> Names]
    /\ sb \in [Procs -> {"uninit", "svc", "other"}]
    /\ found \in [Procs -> BOOLEAN]
    /\ count \in [Procs -> 0 .. MaxLevel + 1]

\* A link that does not lead to the service's init script (another
\* service's, or a dangling one) is deleted only by enable, and only when
\* it bears the name the service's own link must have at that runlevel
\* ("Someone stole our name!"): no walk, however the walks of several
\* invocations interleave and whatever readdir returns of entries others
\* removed, deletes such a link of another name (the fstatat/st_ino test
\* of service_manip_rl).
NoForeignUnlink ==
    [][\A l \in Levels, n \in Names :
          dirs[l][n] \in {"other", "gone"} /\ dirs'[l][n] = NoEntry => n = Link(l)]_vars

\* When every invocation has returned and those that change links all ran
\* enable, each runlevel holds exactly one link to the service, with the
\* name of start_link at 2 .. 5 and of stop_link elsewhere; when they all
\* ran disable, no link to the service is left (service_manip run by
\* several invocations at once, each tolerating the other's ENOENT and
\* EEXIST).
Settled ==
    LET writers == {p \in Procs : op[p] # "is-enabled"}
    IN Done /\ writers # {} =>
         /\ (\A p \in writers : op[p] = "enable") =>
               \A l \in Levels : {n \in Names : dirs[l][n] = "svc"} = {Link(l)}
         /\ (\A p \in writers : op[p] = "disable") =>
               \A l \in Levels : \A n \in Names : dirs[l][n] # "svc"

=============================================================================
