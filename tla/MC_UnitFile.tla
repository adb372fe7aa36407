---------------------------- MODULE MC_UnitFile ----------------------------
(* UnitFile and ServiceConfig instantiated for TLC.  "A" and "B" stand    *)
(* for the letters and digits of the parser's texts; section [A] plays     *)
(* [Unit], where key A plays Requires and key B plays After, and section  *)
(* [B] plays [Service].                                                    *)
EXTENDS ServiceFile, TLC

MCAlnum == {"A", "B", "k", "m", "s", "0", "1", "2",
            "X", "E", "p", "U", "R", "W", "F", "u", "g", "M"}
MCDepSection == <<"A">>
MCDepKey == <<"B">>

\* the lines texts are made of: headers (good and empty), assignments with
\* quotes, blanks and tabs, an empty assignment, one quote inside the other, a continuation, a comment
\* ending with a backslash, a blank line, a line starting with a blank, a
\* key too long for KeySize 3, and a last line without its newline
Lines ==
    { <<"[", "A", "]", "\n">>,
      <<"[", "B", "]", "\n">>,
      <<"[", "]", "\n">>,
      <<"B", "=", "A", "\n">>,
      <<"B", " ", "=", " ", "\"", " ", "A", "\"", "\n">>,
      <<"B", "=", "\n">>,
      <<"B", "=", "\"", "'", "\"", "\n">>,
      <<"B", "=", "A", " ", "\\", "\n">>,
      <<"#", "\\", "\n">>,
      <<"\n">>,
      <<" ", "'", "A", "\n">>,
      <<"A", "=", "A", "\t", " ", "A", "\n">>,
      <<"A", "B", "=", "\n">>,
      <<"B", "=", "A">> }

\* the same, and an assignment with a backslash inside its value
EscapeLines == Lines \cup { <<"B", "=", "A", "\\", "A", "\n">> }

-----------------------------------------------------------------------------
(* Service files.  ".service" is played by "s"; the keys of [Service] are *)
(* A Type, k KillMode, B TimeoutStopSec, m Restart, s RestartSec,          *)
(* 1 RemainAfterExit, 0 StartLimitInterval and 2 StartLimitBurst.          *)

MCServiceSection == <<"B">>
MCKeys == [requires |-> <<"A">>, after |-> <<"B">>, type |-> <<"A">>,
           killMode |-> <<"k">>, stopTimeout |-> <<"B">>, restart |-> <<"m">>,
           restartSec |-> <<"s">>, remain |-> <<"1">>, interval |-> <<"0">>,
           burst |-> <<"2">>]
MCTypeNames == << <<"s">>, <<"k">> >>
MCKillModeNames == << <<"A">>, <<"B">> >>
MCRestartNames == << <<"m">>, <<"s">> >>
MCDotService == <<"s">>
MCTrueWords == { <<"1">> }
MCDefaults == [type |-> 1, killMode |-> 1, restart |-> 1, stopTimeout |-> 20,
               delay |-> 1, interval |-> 8, burst |-> 5]

\* time spans: usec_t of 5 bits (TS_INVALID 31, TS_INFINITY 30); one
\* second is 4, and the units "ms" (1), "s" (4) and "m" (8) keep the order
\* of timespan_units, where "ms" comes before "m"
MCDigits == ("0" :> 0) @@ ("1" :> 1) @@ ("2" :> 2)
MCLetters == {"A", "B", "k", "m", "s"}
MCTimeUnits == << [name |-> <<"m", "s">>, value |-> 1],
                  [name |-> <<"s">>, value |-> 4],
                  [name |-> <<"m">>, value |-> 8] >>
MCInfinity == <<"A", "A">>

\* [Unit] sections: none required, a required service also ordered after
\* twice, a non-service word, a word that is just the suffix, After= alone
UnitParts ==
    { <<"[", "A", "]", "\n">>,
      <<"[", "A", "]", "\n", "A", "=", "A", "s", "\n", "B", "=", "A", "s", " ", "A", "s", "\n">>,
      <<"[", "A", "]", "\n", "A", "=", "A", " ", "B", "s", "\n", "B", "=", "B", "s", " ", "s", "\n">>,
      <<"[", "A", "]", "\n", "B", "=", "B", "s", " ", "A", "s", "\n">>,
      <<"[", "A", "]", "\n", "A", "=", "A", "s", "\n">> }

\* [Service] settings, valid and invalid, with single-digit magnitudes
Settings ==
    { <<"A", "=", "s">>, <<"A", "=", "B">>,
      <<"k", "=", "B">>, <<"k", "=", "s">>,
      <<"B", "=", "1", "m", "s">>, <<"B", "=", "2", "m", "2", "m">>,
      <<"B", "=", "A", "A">>, <<"B", "=", "2", " ", "s">>, <<"B", "=">>,
      <<"B", "=", "2", "A">>, <<"B", "=", "2">>, <<"B", "=", "1", "m", "1", "s">>,
      <<"m", "=", "s">>, <<"m", "=", "m">>, <<"m", "=", "A">>,
      <<"s", "=", "2", "s">>, <<"s", "=", "B">>,
      <<"1", "=", "1">>, <<"1", "=", "A">>,
      <<"2", "=", "2">>, <<"2", "=", "-", "1">>, <<"2", "=", "1", "2">>,
      <<"2", "=", "2", "2", "2">>, <<"2", "=", "2", "A">>,
      <<"0", "=", "1", "s">>, <<"0", "=", "1", "m", " ", "s">> }

\* a [Unit] section, then [Service] with up to two settings
ServiceTexts ==
    { u \o <<"[", "B", "]", "\n">> \o l1 \o l2 :
        u \in UnitParts,
        l1 \in {<<>>} \cup {x \o <<"\n">> : x \in Settings},
        l2 \in {<<>>} \cup {x \o <<"\n">> : x \in Settings} }

-----------------------------------------------------------------------------
(* Commands.  The [Service] keys of command_from_service are X ExecStart, *)
(* E Environment, p PassEnvironment, U UnsetEnvironment, R RootDirectory,  *)
(* W WorkingDirectory, F PIDFile, u User, g Group and M UMask; the         *)
(* variables are P PATH, I PIDFILE, N USER, L LOGNAME, H HOME, S SHELL.   *)

MCCmdKeys == {<<"X">>}
MCSetKeys == [environment |-> <<"E">>, passEnvironment |-> <<"p">>,
              unsetEnvironment |-> <<"U">>, rootDirectory |-> <<"R">>,
              workingDirectory |-> <<"W">>, pidFile |-> <<"F">>, user |-> <<"u">>,
              group |-> <<"g">>, umask |-> <<"M">>]
MCEnvNames == [path |-> <<"P">>, pidfile |-> <<"I">>, user |-> <<"N">>,
               logname |-> <<"L">>, home |-> <<"H">>, shell |-> <<"S">>]

\* setup_environment's PATH, without and with -DHOME=Z
MCDenvs == { <<"P">> :> <<"A", ":", "B">>,
             (<<"P">> :> <<"A", ":", "B">>) @@ (<<"H">> :> <<"Z">>) }
MCUlist == << <<"L">> >>                                  \* -ULOGNAME
MCProcEnv == (<<"H">> :> <<"Y">>) @@ (<<"P">> :> <<"B", ":", ":", "Y">>)
MCRoot == <<>>
MCSelfDir == <<"B">>
MCGroups == {<<"A">>}
MCResolvable == {<<"A">>}
MCDirs == {<<"A">>}
MCUsers == <<"A">> :> [name |-> <<"A">>, dir |-> <<"D">>, shell |-> <<"T">>]

\* command lines: plain, "@" with argv[0], two prefixes, "@" alone, a
\* binary that does not resolve, and an empty one
CmdLines ==
    { <<"X", "=", "A">>, <<"X", "=", "@", "A", " ", "B">>, <<"X", "=", "-", ":", "A">>,
      <<"X", "=", "@", "A">>, <<"X", "=", "Z">>, <<"X", "=">> }

\* the other settings, valid and invalid
CmdSettings ==
    { <<"E", "=", "N", "=", "Q">>, <<"E", "=", "H", "=", "Q", " ", "L">>,
      <<"E", "=", "P", "=", "B", ":", ":", "A">>, <<"E", "=", "I", "=", "Q">>,
      <<"p", "=", "H">>, <<"p", "=", "P">>, <<"p", "=", "Q">>,
      <<"U", "=", "P">>, <<"U", "=", "H">>, <<"U", "=", "I">>,
      <<"R", "=", "A">>, <<"R", "=", "Z">>, <<"W", "=", "A">>, <<"W", "=", "~">>,
      <<"F", "=", "A">>, <<"F", "=", "Z">>, <<"u", "=", "A">>, <<"u", "=", "B">>,
      <<"g", "=", "A">>, <<"g", "=", "B">>,
      <<"M", "=", "2">>, <<"M", "=", "1", "0", "0", "0">>, <<"M", "=", "-", "1">>,
      <<"M", "=", "-", "0">>, <<"M", "=", "2", "A">> }

\* [Service] with a command line and up to two other settings
CommandTexts ==
    { <<"[", "A", "]", "\n", "[", "B", "]", "\n">> \o x \o <<"\n">> \o l1 \o l2 :
        x \in CmdLines,
        l1 \in {<<>>} \cup {y \o <<"\n">> : y \in CmdSettings},
        l2 \in {<<>>} \cup {y \o <<"\n">> : y \in CmdSettings} }

AllTexts == ServiceTexts \cup CommandTexts

-----------------------------------------------------------------------------
(* Init scripts.  "##B" plays "### BEGIN INIT INFO", "##E" "### END INIT  *)
(* INFO", "#p" "# Provides:", ":X" ":<<SYSVKIT" and "X" "SYSVKIT" (which, *)
(* as in the code, ends the start marker); the service is "A".            *)

MCName == <<"A">>
MCBeginInfo == <<"#", "#", "B">>
MCEndInfo == <<"#", "#", "E">>
MCProvides == <<"#", "p">>
MCBeginEmbed == <<":", "X">>
MCEndEmbed == <<"X">>

Ln(l) == l \o <<"\n">>
Opt(S) == {<<>>} \cup {Ln(l) : l \in S}

\* a script is "#!A", then one choice per slot: a Provides line before the
\* block, the block start (or one with a trailing blank), the Provides line
\* (the name, another name, the name as a prefix of a longer one, the name
\* after a tab, a second name), the block end, then a Provides line naming
\* the service or a second block end, the embed start (or a lone end
\* marker), the unit (or an early end marker), and the embed end; the last
\* newline may be missing.  A Provides line naming another service after
\* the block is left out: see the hazard at sysvinit.c:34.
ScriptSlots ==
    << Opt({<<"#", "p", " ", "A">>}),
       Opt({MCBeginInfo, <<"#", "#", "B", " ">>}),
       Opt({<<"#", "p", " ", "A">>, <<"#", "p", "B">>, <<"#", "p", " ", "A", "B">>,
            <<"#", "p", "\t", "A">>, <<"#", "p", "A", " ", "B">>}),
       Opt({MCEndInfo}),
       Opt({<<"#", "p", " ", "A">>, MCEndInfo}),
       Opt({MCBeginEmbed, MCEndEmbed}),
       {<<>>, <<"[", "B", "]", "\n", "X", "=", "A", "\n">>, Ln(MCEndEmbed)},
       Opt({MCEndEmbed}) >>

\* every choice of one entry per slot, put together
RECURSIVE SlotChoices(_)
SlotChoices(slots) ==
    IF slots = <<>> THEN {<<>>}
    ELSE {x \o y : x \in Head(slots), y \in SlotChoices(Tail(slots))}

MCScripts ==
    LET full == {<<"#", "!", "A", "\n">> \o t : t \in SlotChoices(ScriptSlots)}
    IN full \cup {Front(t) : t \in {t \in full : Len(t) > 4}}

=============================================================================
