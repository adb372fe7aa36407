---------------------------- MODULE ServiceConfig ----------------------------
(***************************************************************************)
(* service_from_unit_file (src/src/sysvrun/service.c): the unit file is   *)
(* parsed (UnitFile), and the service settings are read from it: the      *)
(* Requires= and After= lists, with the ".service" suffix stripped and    *)
(* After= entries that are also required removed, the startup type, kill *)
(* mode and restart policy by name, the stop timeout, restart delay and    *)
(* start limit interval as time spans (TimeSpan), RemainAfterExit through  *)
(* strbool, and the start limit burst through strtoul.  Any invalid       *)
(* setting makes the function return NULL.                                 *)
(*                                                                         *)
(* The module composes the two: the parser's steps run first, and one     *)
(* Extract step then reads the unit as the function does after             *)
(* systemd_parse_unit_file returns.                                        *)
(***************************************************************************)
EXTENDS UnitFile, TimeSpan

CONSTANTS
    ServiceSection,  \* "Service"
    Keys,            \* the key names: a record with one field per setting
    TypeNames,       \* service_type_names, in enum order
    KillModeNames,   \* kill_mode_names
    RestartNames,    \* restart_policy_names; its first entry is "no"
    DotService,      \* DOT_SERVICE
    TrueWords,       \* the values strbool reads as true
    Defaults         \* the DEFAULT_* values, a record

VARIABLES
    step,  \* "parse" until service_from_unit_file returns, then "done"
    svc    \* the struct service returned (ok = FALSE for NULL)

cfgVars == <<step, svc>>
allVars == <<vars, cfgVars>>

\* NULL
NullService ==
    [ok |-> FALSE, required |-> <<>>, should |-> <<>>, type |-> 0, kill |-> 0,
     stop |-> 0, restart |-> 0, delay |-> 0, remain |-> FALSE, interval |-> 0,
     burst |-> 0]

\* unit_get_value: the value, if the section has the key
Has(s, k) == <<s, k>> \in DOMAIN unit
Get(s, k) == unit[<<s, k>>]

\* deservicify: the word with its ".service" suffix stripped
Stripped(w) == SubSeq(w, 1, Len(w) - Len(DotService))

\* the loop over a split list: a word without the suffix is removed, the
\* others are stripped in place (next is taken before the removal)
RECURSIVE DeservicifyFrom(_, _)
DeservicifyFrom(ws, i) ==
    IF i > Len(ws) THEN ws
    ELSE IF IsSuffix(DotService, ws[i])
         THEN DeservicifyFrom([ws EXCEPT ![i] = Stripped(ws[i])], i + 1)
         ELSE DeservicifyFrom(RemoveAt(ws, i), i)

\* Requires= or After= as a list: split and deservicified, or empty
DepList(key, split) == IF Has(DepSection, key) THEN DeservicifyFrom(split, 1) ELSE <<>>

\* mutant: after a removal the walk moves past the element that took its place
RECURSIVE DedupSkipNext(_, _, _)
DedupSkipNext(ws, i, dup) ==
    IF i > Len(ws) THEN ws
    ELSE IF ws[i] \in dup THEN DedupSkipNext(RemoveAt(ws, i), i + 1, dup)
    ELSE DedupSkipNext(ws, i + 1, dup)

\* the walk over svc->should removing the entries the dedup table holds
RECURSIVE DedupFrom(_, _, _)
DedupFrom(ws, i, dup) ==
    IF i > Len(ws) THEN ws
    ELSE IF ws[i] \in dup THEN DedupFrom(RemoveAt(ws, i), i, dup)
    ELSE DedupFrom(ws, i + 1, dup)

\* the `for (i = 0; i < N; i++) strcmp` lookups: the index of the name, or
\* 0 when no entry matches (i == N)
Lookup(v, names) ==
    IF \E i \in DOMAIN names : names[i] = v
    THEN CHOOSE i \in DOMAIN names : names[i] = v
    ELSE 0

\* strtoul(value, &end, 10) checked as the code does: a leading '-', no
\* digits, anything after them or ERANGE fail; -1 for failure.  (strtoul
\* would also skip leading blanks and take a sign: the parser leaves no
\* leading blank in a value, and the alphabet has no '+'.)
Burst(v) ==
    IF v = <<>> \/ v[1] = "-" \/ v[1] \notin DOMAIN Digits THEN -1
    ELSE LET m == StrToUMax(v, 1)
         IN IF m.q # Len(v) + 1 \/ m.erange THEN -1 ELSE m.num

\* a time span setting: its default when absent
Span(k, default) == IF Has(ServiceSection, k) THEN TimeSpanFromStr(Get(ServiceSection, k)) ELSE default

\* a named setting: the default index when absent
Named(k, names, default) == IF Has(ServiceSection, k) THEN Lookup(Get(ServiceSection, k), names) ELSE default

\* the body of service_from_unit_file after the parse
ServiceFromUnit ==
    LET required == DepList(Keys.requires, SplitQuoted(IF Has(DepSection, Keys.requires)
                                                      THEN Get(DepSection, Keys.requires) ELSE <<>>))
        should0  == DepList(Keys.after, words)
        should   == IF Len(required) > 0 /\ Len(should0) > 0
                    THEN DedupFrom(should0, 1, Range(required)) ELSE should0
        type     == Named(Keys.type, TypeNames, Defaults.type)
        kill     == Named(Keys.killMode, KillModeNames, Defaults.killMode)
        stop     == Span(Keys.stopTimeout, Defaults.stopTimeout)
        restart  == Named(Keys.restart, RestartNames, Defaults.restart)
        delay    == IF restart # 1 THEN Span(Keys.restartSec, Defaults.delay) ELSE 0
        remain   == Has(ServiceSection, Keys.remain) /\ Get(ServiceSection, Keys.remain) \in TrueWords
        interval == Span(Keys.interval, Defaults.interval)
        burst    == IF Has(ServiceSection, Keys.burst) THEN Burst(Get(ServiceSection, Keys.burst))
                    ELSE Defaults.burst
    IN IF \/ type = 0 \/ kill = 0 \/ stop = TsInvalid \/ restart = 0
          \/ delay = TsInvalid \/ interval = TsInvalid \/ burst = -1
       THEN NullService
       ELSE [ok |-> TRUE, required |-> required, should |-> should, type |-> type,
             kill |-> kill, stop |-> stop, restart |-> restart, delay |-> delay,
             remain |-> remain, interval |-> interval, burst |-> burst]

\* service_from_unit_file returns: NULL when the parse failed, else the
\* settings read from the unit (the After= split of UnitFile's Split step
\* is the one this function makes)
Extract ==
    /\ step = "parse"
    /\ pc \in {"split", "error"}
    /\ step' = "done"
    /\ svc' = IF pc = "error" THEN NullService ELSE ServiceFromUnit
    /\ UNCHANGED vars

ConfigInit == Init /\ step = "parse" /\ svc = NullService

ConfigNext == (Next /\ UNCHANGED cfgVars) \/ Extract

ConfigSpec == ConfigInit /\ [][ConfigNext]_allVars

-----------------------------------------------------------------------------
(* Reference: the settings as the comments of service.c, timespan.c and   *)
(* strbool.c describe them                                                 *)

\* "Required-Start ... for systemd's Requires and Should-Start ... for the
\* rest": the .service words of Requires=, and those of After= that are
\* not required, in their order
RefDeps(key) ==
    IF Has(DepSection, key)
    THEN LET ws == SelectSeq(RefSplit(Get(DepSection, key)), LAMBDA w : IsSuffix(DotService, w))
         IN [i \in DOMAIN ws |-> Stripped(ws[i])]
    ELSE <<>>

RefNamed(k, names, default) ==
    IF ~Has(ServiceSection, k) THEN default
    ELSE IF Get(ServiceSection, k) \in Range(names)
         THEN CHOOSE i \in DOMAIN names : names[i] = Get(ServiceSection, k)
         ELSE 0

RefSpanSetting(k, default) ==
    IF Has(ServiceSection, k) THEN RefTimeSpan(Get(ServiceSection, k)) ELSE default

\* a start limit burst is a decimal number that fits an unsigned long
RefBurst ==
    IF ~Has(ServiceSection, Keys.burst) THEN Defaults.burst
    ELSE LET v == Get(ServiceSection, Keys.burst)
         IN IF v # <<>> /\ \A i \in DOMAIN v : v[i] \in DOMAIN Digits
            THEN LET n == DecValue(v, 1, Len(v) + 1) IN IF n <= UIntMax THEN n ELSE -1
            ELSE -1

RefService ==
    LET required == RefDeps(Keys.requires)
        should   == SelectSeq(RefDeps(Keys.after), LAMBDA w : w \notin Range(required))
        type     == RefNamed(Keys.type, TypeNames, Defaults.type)
        kill     == RefNamed(Keys.killMode, KillModeNames, Defaults.killMode)
        restart  == RefNamed(Keys.restart, RestartNames, Defaults.restart)
        stop     == RefSpanSetting(Keys.stopTimeout, Defaults.stopTimeout)
        delay    == IF restart = 1 THEN 0 ELSE RefSpanSetting(Keys.restartSec, Defaults.delay)
        interval == RefSpanSetting(Keys.interval, Defaults.interval)
    IN IF 0 \in {type, kill, restart} \/ TsInvalid \in {stop, delay, interval} \/ RefBurst = -1
       THEN NullService
       ELSE [ok |-> TRUE, required |-> required, should |-> should, type |-> type,
             kill |-> kill, stop |-> stop, restart |-> restart, delay |-> delay,
             remain |-> Has(ServiceSection, Keys.remain) /\ Get(ServiceSection, Keys.remain) \in TrueWords,
             interval |-> interval, burst |-> RefBurst]

-----------------------------------------------------------------------------
(* Properties                                                               *)

\* service_from_unit_file returns NULL exactly when the parse fails or a
\* setting is invalid, and otherwise the settings the comments promise:
\* Requires= and After= reduced to service names with the After= entries
\* that are also required removed (the in-place walks over both lists and
\* the dedup table), the names looked up, the time spans read as
\* systemd.time describes them, and the burst as a decimal number.
ConfigAgrees ==
    step = "done" =>
        svc = IF pc = "error" THEN NullService ELSE RefService

=============================================================================
