---------------------------- MODULE ServiceFile ----------------------------
(***************************************************************************)
(* service_from_file (src/src/sysvrun/service.c): the file read is either *)
(* a unit file, handed to service_from_unit_file as it is, or an init     *)
(* script ("#!" first), which sysvinit_parse_init_script                   *)
(* (src/src/sysvrun/sysvinit.c) checks and narrows to its embedded unit    *)
(* file before the same function parses that.  The line searches of        *)
(* src/src/common/text.c are the operators FindLine and NextLine.           *)
(*                                                                         *)
(* The module composes the reading of the file with Command: ReadFile     *)
(* gives the unit parser its text (or fails), and the parse, the           *)
(* extraction and command_from_service follow.  Texts hold no NUL, so the  *)
(* `*p != '\0'` tests of text.c never stop a scan early.                   *)
(***************************************************************************)
EXTENDS Command

CONSTANTS
    Scripts,     \* the init scripts read
    Name,        \* the service name asked for
    BeginInfo,   \* LSB_BEGIN_INIT_INFO
    EndInfo,     \* LSB_END_INIT_INFO
    Provides,    \* LSB_PROVIDES
    BeginEmbed,  \* BEGIN_EMBED
    EndEmbed     \* END_EMBED

VARIABLES
    file,   \* txt in service_from_file: the bytes text_from_file read
    stage,  \* "read" before the file is dispatched, then "parse", or
            \* "rejected" when the script check returned NULL
    errno   \* errno as sysvinit_parse_init_script leaves it

sfVars == <<file, stage, errno>>
fileVars == <<everything, sfVars>>

Files == Texts \cup ExtraTexts \cup Scripts

\* the number of leading characters of t from p on that equal those of str
\* (the `*q == *s` loops)
Common(t, p, str) ==
    CHOOSE n \in 0 .. Len(str) :
        /\ \A k \in 1 .. n : p + k - 1 <= Len(t) /\ t[p + k - 1] = str[k]
        /\ n = Len(str) \/ p + n > Len(t) \/ t[p + n] # str[n + 1]

\* the newline ending the line that q is in, or txt->end
LineEnd(t, q) ==
    CHOOSE j \in q .. Len(t) + 1 :
        /\ j > Len(t) \/ t[j] = NL
        /\ \A k \in q .. j - 1 : t[k] # NL

NoLine == [found |-> FALSE, beg |-> 0, end |-> 0]

\* mutant: the `_equals` searches take a line that only starts with str
RECURSIVE FindLineNoEnd(_, _, _, _)
FindLineNoEnd(t, p, str, exact) ==
    IF p > Len(t) THEN NoLine
    ELSE LET q == p + Common(t, p, str)
             e == LineEnd(t, q)
         IN IF q - p = Len(str)
            THEN [found |-> TRUE, beg |-> p, end |-> e]
            ELSE FindLineNoEnd(t, e + 1, str, exact)

\* the search loop of text_first_line_prefix/_equals from line start p on:
\* a line that starts with str (and, when exact, ends there) is returned;
\* otherwise the scan moves past the newline of the line
RECURSIVE FindLine(_, _, _, _)
FindLine(t, p, str, exact) ==
    IF p > Len(t) THEN NoLine
    ELSE LET q == p + Common(t, p, str)
             e == LineEnd(t, q)
         IN IF q - p = Len(str) /\ (~exact \/ q = e)
            THEN [found |-> TRUE, beg |-> p, end |-> e]
            ELSE FindLine(t, e + 1, str, exact)

\* text_next_line_prefix/_equals: the search from the line after `line`;
\* NULL when `line` was the last one
NextLine(t, line, str, exact) ==
    IF line.end + 1 > Len(t) THEN NoLine ELSE FindLine(t, line.end + 1, str, exact)

\* isblank
Blank(ch) == ch \in Blanks

\* sysvinit_parse_init_script: errno and the embedded unit text
ParseInitScript(t) ==
    LET fail(e) == [ok |-> FALSE, errno |-> e, embed |-> <<>>]
        b  == FindLine(t, 1, BeginInfo, TRUE)
        pv == NextLine(t, b, Provides, FALSE)
        p  == CHOOSE i \in pv.beg + Len(Provides) .. pv.end :
                  /\ i = pv.end \/ ~Blank(t[i])
                  /\ \A k \in pv.beg + Len(Provides) .. i - 1 : Blank(t[k])
        q  == p + Common(t, p, Name)
        e  == NextLine(t, pv, EndInfo, TRUE)
        be == NextLine(t, e, BeginEmbed, TRUE)
        ee == NextLine(t, be, EndEmbed, TRUE)
    IN CASE ~b.found  -> fail("EINVAL")
         [] ~pv.found -> fail("EINVAL")
         [] q - p # Len(Name) \/ ~(q = pv.end \/ Blank(t[q])) -> fail("ENOENT")
         [] ~e.found  -> fail("EINVAL")
         [] ~be.found -> fail("ENOENT")
         [] ~ee.found -> fail("EINVAL")
         [] OTHER     -> [ok |-> TRUE, errno |-> "none",
                          embed |-> SubSeq(t, be.end + 1, ee.beg - 1)]

\* the test of service_from_file for an init script
IsScript(t) == Len(t) > 3 /\ t[1] = "#" /\ t[2] = "!"

\* service_from_file after text_from_file: the unit parser gets the file or
\* the embedded unit file; a failed script check returns NULL at once
ReadFile ==
    /\ stage = "read"
    /\ IF ~IsScript(file)
       THEN /\ stage' = "parse"
            /\ text' = file
            /\ UNCHANGED errno
       ELSE LET r == ParseInitScript(file)
            IN /\ stage' = IF r.ok THEN "parse" ELSE "rejected"
               /\ text' = r.embed
               /\ errno' = r.errno
    /\ UNCHANGED <<file, cur, section, unit, pc, words, cfgVars, cmdVars>>

FileInit ==
    /\ CommandInit
    /\ text = <<>>
    /\ file \in Files
    /\ stage = "read"
    /\ errno = "none"

FileNext ==
    \/ stage = "parse" /\ CommandNext /\ UNCHANGED sfVars
    \/ ReadFile

FileSpec == FileInit /\ [][FileNext]_fileVars

-----------------------------------------------------------------------------
(* Reference: the init script as the comments of sysvinit.c describe it:  *)
(* the Provides line "within LSB comment block", the service name as the   *)
(* first word of its facility list, then the embedded unit file between    *)
(* its start and end lines.                                                 *)

\* the lines of a text, without their newlines
RECURSIVE RefLines(_)
RefLines(t) ==
    IF t = <<>> THEN <<>>
    ELSE LET i == Until(t, NL)
         IN <<SubSeq(t, 1, i - 1)>> \o RefLines(SubSeq(t, i + 1, Len(t)))

\* the index of the first line after line i satisfying P, or 0
RefFirst(ls, i, P(_)) == SelectInSubSeq(ls, i + 1, Len(ls), P)

\* the first blank-separated word of a line
RefFirstWord(l) ==
    LET s == SelectInSeq(l, LAMBDA c : ~Blank(c))
        r == IF s = 0 THEN <<>> ELSE SubSeq(l, s, Len(l))
        n == SelectInSeq(r, Blank)
    IN IF n = 0 THEN r ELSE SubSeq(r, 1, n - 1)

RefInitScript(t) ==
    LET ls   == RefLines(t)
        fail(e) == [ok |-> FALSE, errno |-> e, embed |-> <<>>]
        b    == RefFirst(ls, 0, LAMBDA l : l = BeginInfo)
        e    == RefFirst(ls, b, LAMBDA l : l = EndInfo)
        pv   == RefFirst(ls, b, LAMBDA l : IsPrefix(Provides, l))
        be   == RefFirst(ls, e, LAMBDA l : l = BeginEmbed)
        ee   == RefFirst(ls, be, LAMBDA l : l = EndEmbed)
    IN CASE b = 0 -> fail("EINVAL")
         [] pv = 0 \/ (e # 0 /\ pv > e) -> fail("EINVAL")
         [] RefFirstWord(SubSeq(ls[pv], Len(Provides) + 1, Len(ls[pv]))) # Name -> fail("ENOENT")
         [] e = 0  -> fail("EINVAL")
         [] be = 0 -> fail("ENOENT")
         [] ee = 0 -> fail("EINVAL")
         [] OTHER  -> [ok |-> TRUE, errno |-> "none",
                       embed |-> FlattenSeq([k \in 1 .. ee - be - 1 |-> ls[be + k] \o <<NL>>])]

-----------------------------------------------------------------------------
(* Properties                                                               *)

FileTypeOK ==
    /\ TypeOK
    /\ file \in Files
    /\ stage \in {"read", "parse", "rejected"}
    /\ errno \in {"none", "EINVAL", "ENOENT"}

\* Once service_from_file has dispatched the file, the unit parser holds
\* the file itself when it is a unit file; for an init script it holds
\* exactly the lines between the embed markers that follow the LSB block
\* whose Provides line names the service, and when the script is rejected
\* service_from_file has returned NULL with the errno the reading gives (text_first_line_
\* equals, text_next_line_prefix and text_next_line_equals scanning the
\* buffer character by character, and the name comparison of
\* sysvinit_parse_init_script).
ScriptAgrees ==
    stage # "read" =>
        IF ~IsScript(file) THEN stage = "parse" /\ text = file /\ errno = "none"
        ELSE LET r == RefInitScript(file)
             IN /\ errno = r.errno
                /\ text = r.embed
                /\ stage = IF r.ok THEN "parse" ELSE "rejected"

=============================================================================
