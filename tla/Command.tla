------------------------------- MODULE Command -------------------------------
(***************************************************************************)
(* command_from_service (src/src/sysvrun/command.c): the command a        *)
(* service runs is built from the unit read by service_from_unit_file     *)
(* (ServiceConfig): the command line split into words, the environment    *)
(* (src/src/common/environment.c) made from sysvrun's Denv, the           *)
(* Environment=, PassEnvironment= and UnsetEnvironment= settings, the -U  *)
(* list, PATH with sysvrun's own directory in front and PIDFILE, the root *)
(* and working directories, the pid file, the prefix flags of the command *)
(* line, the user with its environment defaults, the group and the umask. *)
(*                                                                         *)
(* The environment is a function from names to values.  Path resolution   *)
(* (a child process doing chroot, chdir and realpath or the PATH search)  *)
(* is reduced to its outcome: a name resolves when it is in Resolvable     *)
(* and the root and working directories are in Dirs.  getpwnam, getgrnam  *)
(* and getenv read the constants Users, Groups and ProcEnv.                *)
(***************************************************************************)
EXTENDS ServiceConfig

CONSTANTS
    CmdKeys,      \* the cmdkey arguments: "ExecStart", "ExecStop", ...
    SetKeys,      \* the [Service] keys command_from_service reads, a record
    EnvNames,     \* "PATH", "PIDFILE", "USER", "LOGNAME", "HOME", "SHELL"
    Denvs,        \* the Denv sysvrun may have built (PATH, -D options)
    Ulist,        \* the -U options, in order
    ProcEnv,      \* sysvrun's own environment, read by getenv
    Root,         \* the -r option (root)
    SelfDir,      \* self_dir
    Users,        \* getpwnam: name -> [name, dir, shell]
    Groups,       \* the names getgrnam finds
    Resolvable,   \* the names command_resolve_path resolves
    Dirs,         \* the directories realpath resolves
    Dangling      \* a value freed while its element is still in the table

PrefixChars == {"@", "-", ":", "+", "!"}   \* prefix2flag
Tilde == <<"~">>
DefaultUMask == 18                        \* DEFAULT_UMASK 0022

VARIABLES
    call,  \* the arguments of the call: cmdkey and Denv, or <<>> before it
    cmd    \* the struct command returned (ok = FALSE for NULL)

cmdVars == <<call, cmd>>
everything == <<allVars, cmdVars>>

NullCommand ==
    [ok |-> FALSE, args |-> <<>>, flags |-> {}, path |-> <<>>, pidfile |-> <<>>,
     rootdir |-> <<>>, workdir |-> <<>>, user |-> <<>>, group |-> <<>>,
     umask |-> 0, env |-> <<>>]

-----------------------------------------------------------------------------
(* environment.c                                                            *)

\* environment_set: a new name is added; an existing one is replaced when
\* overwrite is set, and otherwise the element hash_table_get returned,
\* still in the table, has its pair and itself freed
EnvironmentSet(env, name, value, overwrite) ==
    IF name \notin DOMAIN env THEN (name :> value) @@ env
    ELSE IF overwrite THEN [env EXCEPT ![name] = value]
    ELSE [env EXCEPT ![name] = Dangling]

\* environment_put: "name=value" split at the first '=' (no '=': the value
\* is empty), then as environment_set
Until(s, c) == LET i == SelectInSeq(s, LAMBDA x : x = c) IN IF i = 0 THEN Len(s) + 1 ELSE i
EnvName(nv)  == SubSeq(nv, 1, Until(nv, "=") - 1)
EnvValue(nv) == SubSeq(nv, Until(nv, "=") + 1, Len(nv))
EnvironmentPut(env, nv, overwrite) ==
    EnvironmentSet(env, EnvName(nv), EnvValue(nv), overwrite)

\* environment_remove_keys: every name of the list is popped
EnvironmentRemoveKeys(env, list) == Restrict(env, DOMAIN env \ Range(list))

\* strlist_from_delim(str, ':', false, false): the non-empty segments
RECURSIVE StrlistFromDelim(_)
StrlistFromDelim(s) ==
    LET i   == Until(s, ":")
        seg == SubSeq(s, 1, i - 1)
    IN (IF seg = <<>> THEN <<>> ELSE <<seg>>)
       \o (IF i > Len(s) THEN <<>> ELSE StrlistFromDelim(SubSeq(s, i + 1, Len(s))))

\* strlist_to_delim(l, ':', true): each string once, joined by ':'
StrlistToDelim(l) ==
    LET once == FoldLeft(LAMBDA a, x : IF x \in Range(a) THEN a ELSE Append(a, x), <<>>, l)
    IN IF once = <<>> THEN <<>>
       ELSE FoldLeft(LAMBDA a, x : a \o <<":">> \o x, Head(once), Tail(once))

-----------------------------------------------------------------------------
(* command_from_service                                                     *)

Words(k) == IF Has(ServiceSection, k) THEN SplitQuoted(Get(ServiceSection, k)) ELSE <<>>
Dir(k)   == IF Has(ServiceSection, k) THEN Root \o Get(ServiceSection, k) ELSE <<>>

\* command_resolve_path's outcome: the resolver child fails on a root or
\* working directory realpath cannot resolve, or on the name itself
Resolves(name, rootdir, workdir) ==
    /\ rootdir = <<>> \/ rootdir \in Dirs
    /\ workdir = <<>> \/ workdir \in Dirs
    /\ name \in Resolvable

\* strtol(value, &end, 8) and the range check of the UMask block: -1 when
\* there are no digits, anything follows them, or the number is outside
\* 0 .. 0777
Octal(c) == c \in DOMAIN Digits /\ Digits[c] < 8
UMaskOf(v) ==
    LET neg == v # <<>> /\ v[1] = "-"
        ds  == IF v # <<>> /\ v[1] \in {"-", "+"} THEN Tail(v) ELSE v
    IN IF ds = <<>> \/ \E i \in DOMAIN ds : ~Octal(ds[i]) THEN -1
       ELSE LET n == FoldLeft(LAMBDA a, c : 8 * a + Digits[c], 0, ds)
            IN IF (neg /\ n > 0) \/ n > 511 THEN -1 ELSE n

\* mutant: the unset lists are applied before the unit's assignments
BaseEnvUnsetFirst(denv) ==
    LET e0 == EnvironmentRemoveKeys(EnvironmentRemoveKeys(denv, Words(SetKeys.unsetEnvironment)), Ulist)
        e1 == FoldLeft(LAMBDA e, w : EnvironmentPut(e, w, TRUE), e0, Words(SetKeys.environment))
        e2 == FoldLeft(LAMBDA e, k : IF k \in DOMAIN ProcEnv
                                     THEN EnvironmentSet(e, k, ProcEnv[k], TRUE) ELSE e,
                       e1, Words(SetKeys.passEnvironment))
    IN IF EnvNames.path \in DOMAIN e2
       THEN EnvironmentSet(e2, EnvNames.path,
                           StrlistToDelim(<<SelfDir>> \o StrlistFromDelim(e2[EnvNames.path])), TRUE)
       ELSE e2

\* the environment up to the PIDFile block: Denv, Environment= put with
\* overwrite, PassEnvironment= from getenv, UnsetEnvironment= and Ulist
\* removed, PATH with self_dir in front
BaseEnv(denv) ==
    LET e1 == FoldLeft(LAMBDA e, w : EnvironmentPut(e, w, TRUE), denv, Words(SetKeys.environment))
        e2 == FoldLeft(LAMBDA e, k : IF k \in DOMAIN ProcEnv
                                     THEN EnvironmentSet(e, k, ProcEnv[k], TRUE) ELSE e,
                       e1, Words(SetKeys.passEnvironment))
        e3 == EnvironmentRemoveKeys(EnvironmentRemoveKeys(e2, Words(SetKeys.unsetEnvironment)), Ulist)
    IN IF EnvNames.path \in DOMAIN e3
       THEN EnvironmentSet(e3, EnvNames.path,
                           StrlistToDelim(<<SelfDir>> \o StrlistFromDelim(e3[EnvNames.path])), TRUE)
       ELSE e3

\* the User= block: USER, LOGNAME, HOME and SHELL set without overwrite
UserEnv(env, pw) ==
    LET e1 == EnvironmentSet(env, EnvNames.user, pw.name, FALSE)
        e2 == EnvironmentSet(e1, EnvNames.logname, pw.name, FALSE)
        e3 == EnvironmentSet(e2, EnvNames.home, pw.dir, FALSE)
    IN EnvironmentSet(e3, EnvNames.shell, pw.shell, FALSE)

CommandFromService(key, denv) ==
    LET args0   == Words(key)
        rootdir == Dir(SetKeys.rootDirectory)
        workdir == Dir(SetKeys.workingDirectory)
        hasPid  == Has(ServiceSection, SetKeys.pidFile)
        pidname == IF hasPid THEN Get(ServiceSection, SetKeys.pidFile) ELSE <<>>
        env1    == IF hasPid THEN EnvironmentSet(BaseEnv(denv), EnvNames.pidfile, pidname, TRUE)
                   ELSE BaseEnv(denv)
        first   == IF args0 = <<>> THEN <<>> ELSE args0[1]
        np      == Upto(first, 1, PrefixChars) - 1
        flags   == {first[i] : i \in 1 .. np}
        name    == SubSeq(first, np + 1, Len(first))
        args    == IF "@" \in flags THEN Tail(args0) ELSE args0
        hasUser == Has(ServiceSection, SetKeys.user)
        found   == hasUser /\ Get(ServiceSection, SetKeys.user) \in DOMAIN Users
        pw      == Users[Get(ServiceSection, SetKeys.user)]
        workdir2 == IF found /\ workdir = Tilde THEN pw.dir ELSE workdir
        env2    == IF found THEN UserEnv(env1, pw) ELSE env1
        hasGrp  == Has(ServiceSection, SetKeys.group)
        umask   == IF Has(ServiceSection, SetKeys.umask)
                   THEN UMaskOf(Get(ServiceSection, SetKeys.umask)) ELSE DefaultUMask
    IN IF \/ ~Has(ServiceSection, key)
          \/ args0 = <<>>
          \/ hasPid /\ ~Resolves(pidname, rootdir, workdir)
          \/ ~Resolves(name, rootdir, workdir)
          \/ args = <<>>
          \/ hasUser /\ ~found
          \/ hasGrp /\ Get(ServiceSection, SetKeys.group) \notin Groups
          \/ umask = -1
       THEN NullCommand
       ELSE [ok |-> TRUE, args |-> args, flags |-> flags, path |-> name,
             pidfile |-> pidname, rootdir |-> rootdir,
             workdir |-> IF workdir2 = <<>> THEN Root \o <<"/">> ELSE workdir2,
             user |-> IF hasUser THEN Get(ServiceSection, SetKeys.user) ELSE <<>>,
             group |-> IF hasGrp THEN Get(ServiceSection, SetKeys.group) ELSE <<>>,
             umask |-> umask, env |-> env2]

\* service_start and the others call command_from_service on the struct
\* service that service_from_unit_file returned
FromService ==
    /\ step = "done"
    /\ svc.ok
    /\ call = <<>>
    /\ \E key \in CmdKeys, denv \in Denvs :
         /\ call' = <<key, denv>>
         /\ cmd' = CommandFromService(key, denv)
    /\ UNCHANGED allVars

CommandInit == ConfigInit /\ call = <<>> /\ cmd = NullCommand

CommandNext == (ConfigNext /\ UNCHANGED cmdVars) \/ FromService

CommandSpec == CommandInit /\ [][CommandNext]_everything

-----------------------------------------------------------------------------
(* Reference: the environment as sysvrun.c's comment describes it ("we    *)
(* start with Denv, add whatever was defined in the unit file, and remove  *)
(* anything listed in Ulist"), with UnsetEnvironment= removing as Ulist   *)
(* does, PIDFILE naming the pid file (spec: "the path is also exposed to  *)
(* the child via an environment variable named PIDFILE"), self_dir        *)
(* searched first in PATH, and User= filling in USER, LOGNAME, HOME and    *)
(* SHELL where the environment does not define them (environment_set:     *)
(* "replacing any prior instance if and only if overwrite is true").       *)

CredNames == {EnvNames.user, EnvNames.logname, EnvNames.home, EnvNames.shell}

\* the ':'-separated entries of a PATH value
RefSegments(s) ==
    LET st == FoldLeft(LAMBDA a, c : IF c = ":"
                                     THEN [done |-> Append(a.done, a.cur), cur |-> <<>>]
                                     ELSE [a EXCEPT !.cur = Append(@, c)],
                       [done |-> <<>>, cur |-> <<>>], s)
    IN Append(st.done, st.cur)

RECURSIVE FirstOnce(_)
FirstOnce(l) ==
    IF l = <<>> THEN <<>>
    ELSE <<Head(l)>> \o FirstOnce(SelectSeq(Tail(l), LAMBDA x : x # Head(l)))

\* the directories a PATH lookup tries, in order (the resolver skips empty
\* entries, and a repeated entry is never tried twice)
RefLookup(s) == FirstOnce(SelectSeq(RefSegments(s), LAMBDA d : d # <<>>))

RefEnv(denv) ==
    LET assigns  == Words(SetKeys.environment)
        assigned == {EnvName(w) : w \in Range(assigns)}
        lastSet(n) == EnvValue(assigns[CHOOSE i \in DOMAIN assigns :
                          /\ EnvName(assigns[i]) = n
                          /\ \A j \in i + 1 .. Len(assigns) : EnvName(assigns[j]) # n])
        passed   == {k \in Range(Words(SetKeys.passEnvironment)) : k \in DOMAIN ProcEnv}
        removed  == Range(Words(SetKeys.unsetEnvironment)) \cup Range(Ulist)
        kept     == (DOMAIN denv \cup assigned \cup passed) \ removed
        value(n) == IF n \in passed THEN ProcEnv[n]
                    ELSE IF n \in assigned THEN lastSet(n) ELSE denv[n]
        hasPid   == Has(ServiceSection, SetKeys.pidFile)
        user     == IF Has(ServiceSection, SetKeys.user) THEN {Get(ServiceSection, SetKeys.user)} ELSE {}
        found    == user \cap DOMAIN Users # {}
        pw       == Users[CHOOSE u \in user : TRUE]
        default  == [n \in CredNames |-> IF n = EnvNames.home THEN pw.dir
                                         ELSE IF n = EnvNames.shell THEN pw.shell ELSE pw.name]
    IN [n \in kept \cup (IF hasPid THEN {EnvNames.pidfile} ELSE {})
                   \cup (IF found THEN CredNames ELSE {}) |->
           IF hasPid /\ n = EnvNames.pidfile THEN Get(ServiceSection, SetKeys.pidFile)
           ELSE IF n \in kept /\ n = EnvNames.path THEN SelfDir \o <<":">> \o value(n)
           ELSE IF n \in kept THEN value(n)
           ELSE default[n]]

-----------------------------------------------------------------------------
(* Properties                                                               *)

\* The environment command_from_service hands to the service is the one
\* the comments describe, for every variable but the four User= fills in:
\* the later of Denv, Environment= (its last assignment) and
\* PassEnvironment= wins, UnsetEnvironment= and -U remove, PIDFILE names
\* the pid file, and PATH looks in self_dir first and then where it looked
\* before (the puts, gets, pops and the PATH rebuilding of environment.c
\* and strlist.c, in the order the function makes them).
EnvAgrees ==
    cmd.ok =>
        LET ref == RefEnv(call[2])
            others == DOMAIN ref \ CredNames
        IN /\ DOMAIN cmd.env \ CredNames = others
           /\ \A n \in others \ {EnvNames.path} : cmd.env[n] = ref[n]
           /\ EnvNames.path \in others =>
                RefLookup(cmd.env[EnvNames.path]) = RefLookup(ref[EnvNames.path])

\* User= sets USER, LOGNAME, HOME and SHELL from the password entry only
\* where the environment leaves them undefined, and keeps a value Denv or
\* Environment= gave (environment_set with overwrite false).
CredentialsAgree ==
    cmd.ok =>
        LET ref == RefEnv(call[2])
        IN \A n \in CredNames :
               /\ n \in DOMAIN cmd.env <=> n \in DOMAIN ref
               /\ n \in DOMAIN ref => cmd.env[n] = ref[n]

=============================================================================
