------------------------------- MODULE UnitFile -------------------------------
(***************************************************************************)
(* Reading a unit file: the line loop of systemd_parse_unit_file          *)
(* (src/src/sysvrun/systemd.c), the section/key store it fills through    *)
(* unit_update_value (src/src/common/unit.c), and the splitting of a list  *)
(* value into words by systemd_split_quoted, as service_from_unit_file     *)
(* (src/src/sysvrun/service.c) does for the After= dependencies.           *)
(*                                                                         *)
(* The text is a sequence of characters of a small alphabet.  One step of *)
(* the parser is one pass of its for-loop, i.e. one line (a key-value     *)
(* line takes its continuation lines with it); the inner character loops  *)
(* are the scanning operators below.  The buffer sizes of the code (256,  *)
(* 256 and 1024 bytes) are CONSTANTS so that small texts reach the length *)
(* checks.                                                                 *)
(***************************************************************************)
EXTENDS Integers, Sequences, FiniteSets, SequencesExt, TLC

CONSTANTS
    Alnum,        \* the letters and digits of the alphabet (isalnum)
    Fragments,    \* lines (character sequences) a text is made of
    MaxLines,     \* model bound: fragments per text
    SectionSize,  \* sizeof(section)
    KeySize,      \* sizeof(key)
    ValueSize,    \* sizeof(value)
    DepSection,   \* the section name "Unit"
    DepKey,       \* the key "After"
    ExtraTexts    \* whole texts checked besides those made of Fragments

NL   == "\n"
Tab  == "\t"
Blanks == {" ", Tab}                          \* isblank
CommentStart == {"#", ";"}
Quotes == {"\"", "'"}

\* every character of the text; all but newline and tab are printable
Chars == UNION {{f[i] : i \in DOMAIN f} : f \in Fragments \cup ExtraTexts}

ASSUME NL \notin Alnum /\ Alnum \subseteq Chars

IsKey(ch)         == ch \in Alnum \/ ch = "-"
IsPrint(ch)       == ch \notin {NL, Tab}
IsSectionName(ch) == IsPrint(ch) /\ ch \notin {"[", "]"}
IsValue(ch)       == IsPrint(ch) \/ ch = Tab

\* the texts: up to MaxLines fragments put together
Texts == {FlattenSeq(f) : f \in UNION {[1 .. n -> Fragments] : n \in 0 .. MaxLines}}

VARIABLES
    text,      \* txt->beg .. txt->end
    cur,       \* cur: start of the line being parsed
    section,   \* section: the name of the current section
    unit,      \* the struct unit: <<section, key>> -> value
    pc,        \* "parse", "done" (u returned), "error" (NULL returned), "split"
    words      \* svc->should: the After= value split into words

vars == <<text, cur, section, unit, pc, words>>

NoUnit == [x \in {} |-> <<>>]

Init ==
    /\ text \in Texts \cup ExtraTexts
    /\ cur = 1
    /\ section = <<>>
    /\ unit = NoUnit
    /\ pc = "parse"
    /\ words = <<>>

-----------------------------------------------------------------------------
(* Scanning                                                                 *)

\* the first index from i on whose character is not in S (Len + 1 at the end)
Upto(s, i, S) ==
    CHOOSE j \in i .. Len(s) + 1 :
        /\ j > Len(s) \/ s[j] \notin S
        /\ \A k \in i .. j - 1 : s[k] \in S

\* NORMALIZE_WHITESPACE: a tab becomes a space, a space after a space is
\* dropped
Put(acc, ch) ==
    LET c == IF ch = Tab THEN " " ELSE ch
    IN IF c = " " /\ acc # <<>> /\ Last(acc) = " " THEN acc ELSE Append(acc, c)

\* after a line continuation at the newline r: comment lines that follow
\* are skipped; the result is the end of the last one
\* mutant: comment lines inside a continuation are not skipped
SkipCommentsNone(r) == r

RECURSIVE SkipComments(_)
SkipComments(r) ==
    IF r + 1 <= Len(text) /\ text[r + 1] \in CommentStart
    THEN SkipComments(Upto(text, r + 1, Chars \ {NL}))
    ELSE r

\* the value loop from r: <<index of the first non-value character, value>>
RECURSIVE ScanValue(_, _)
ScanValue(r, acc) ==
    IF r > Len(text) \/ ~IsValue(text[r]) THEN <<r, acc>>
    ELSE IF text[r] = "\\" /\ r + 1 <= Len(text) /\ text[r + 1] = NL
         THEN ScanValue(SkipComments(r + 1) + 1, Put(acc, " "))
         ELSE ScanValue(r + 1, Put(acc, text[r]))

\* trailing space removed
Trim(v) == IF v # <<>> /\ Last(v) = " " THEN Front(v) ELSE v

\* unit_update_value with a non-NULL value: a new key is set; an existing
\* key is replaced, or, when append, gets " " and the value appended
UpdateValue(u, s, k, v, append) ==
    LET x == <<s, k>>
    IN IF append /\ x \in DOMAIN u
       THEN [u EXCEPT ![x] = @ \o <<" ">> \o v]
       ELSE (x :> v) @@ u

-----------------------------------------------------------------------------
(* The line loop                                                            *)

Line == pc = "parse" /\ cur <= Len(text)

\* goto eof / goto error: unit_free, return NULL
Fail ==
    /\ pc' = "error"
    /\ unit' = NoUnit
    /\ UNCHANGED <<text, cur, section, words>>

BlankLine ==
    /\ Line
    /\ text[cur] = NL
    /\ cur' = cur + 1
    /\ UNCHANGED <<text, section, unit, pc, words>>

\* mutant: the next line is taken to start one character after the newline
CommentLinePastNewline ==
    /\ Line
    /\ text[cur] \in CommentStart
    /\ LET p == Upto(text, cur, Chars \ {NL})
       IN IF p <= Len(text)
          THEN /\ cur' = p + 2
               /\ UNCHANGED <<text, section, unit, pc, words>>
          ELSE Fail

\* a comment line must end with a newline
CommentLine ==
    /\ Line
    /\ text[cur] \in CommentStart
    /\ LET p == Upto(text, cur, Chars \ {NL})
       IN IF p <= Len(text)
          THEN /\ cur' = p + 1
               /\ UNCHANGED <<text, section, unit, pc, words>>
          ELSE Fail

\* '[', a nonempty name, ']' and the end of the line
SectionHeader ==
    /\ Line
    /\ text[cur] = "["
    /\ LET q    == Upto(text, cur + 1, {c \in Chars : IsSectionName(c)})
           name == SubSeq(text, cur + 1, q - 1)
       IN IF /\ q <= Len(text)
             /\ name # <<>>
             /\ text[q] = "]"
             /\ q + 1 <= Len(text)
             /\ text[q + 1] = NL
             /\ Len(name) < SectionSize - 1
          THEN /\ section' = name
               /\ cur' = q + 2
               /\ UNCHANGED <<text, unit, pc, words>>
          ELSE Fail

\* key, blanks, '=', blanks, value up to the end of the line, with its
\* continuations; stored with append unless the value is empty
KeyValue ==
    /\ Line
    /\ text[cur] \notin {NL, "["} \cup CommentStart
    /\ LET p   == Upto(text, cur, {c \in Chars : IsKey(c)})
           key == SubSeq(text, cur, p - 1)
           e   == Upto(text, p, Blanks)
           q   == Upto(text, e + 1, Blanks)
           sv  == ScanValue(q, <<>>)
           r   == sv[1]
           v   == Trim(sv[2])
       IN IF /\ p <= Len(text)
             /\ key # <<>>
             /\ e <= Len(text)
             /\ text[e] = "="
             /\ q <= Len(text)
             /\ r <= Len(text)
             /\ Len(key) < KeySize - 1
             /\ Len(v) < ValueSize - 1
             /\ section # <<>>
          THEN /\ unit' = UpdateValue(unit, section, key, v, v # <<>>)
               /\ cur' = r + 1
               /\ UNCHANGED <<text, section, pc, words>>
          ELSE Fail

\* the loop ends at the end of the text: return u
Done ==
    /\ pc = "parse"
    /\ cur > Len(text)
    /\ pc' = "done"
    /\ UNCHANGED <<text, cur, section, unit, words>>

-----------------------------------------------------------------------------
(* Splitting a value into words                                             *)

\* the escape table of systemd.c (its entries for a, b, f, r and v are
\* control characters outside the alphabet); a character without an entry
\* stands for itself, after a warning
EscapeTable ==
    ("\\" :> "\\") @@ ("\"" :> "\"") @@ ("'" :> "'") @@
    ("s" :> " ") @@ ("t" :> Tab) @@ ("n" :> NL)

Escape(c) == IF c \in DOMAIN EscapeTable THEN EscapeTable[c] ELSE c

\* the inner loop of systemd_split_quoted from index p of str, inside
\* quote q ("" for none): <<where the next word starts looking, word>>.
\* An escape reads the character after the backslash and leaves p on it.
RECURSIVE ReadWord(_, _, _, _)

\* mutant: any quote character closes a quoted run
ReadWordAnyQuote(str, p, q, acc) ==
    IF p > Len(str) THEN <<p, acc>>
    ELSE LET ch == str[p] IN
         IF ch \in Quotes
         THEN ReadWord(str, p + 1, IF q = "" THEN ch ELSE "", acc)
         ELSE IF ch \in Blanks /\ q = "" THEN <<p + 1, acc>>
         ELSE ReadWord(str, p + 1, q, Append(acc, ch))

ReadWord(str, p, q, acc) ==
    IF p > Len(str) THEN <<p, acc>>
    ELSE LET ch == str[p] IN
         IF ch \in Quotes /\ (q = "" \/ ch = q)
         THEN ReadWord(str, p + 1, IF q = "" THEN ch ELSE "", acc)
         ELSE IF ch = "\\"
         THEN IF p + 1 > Len(str) THEN <<p + 1, acc>>
              ELSE LET e == Escape(str[p + 1]) IN
                   IF e \in Blanks /\ q = "" THEN <<p + 1, acc>>
                   ELSE ReadWord(str, p + 1, q, Append(acc, e))
         ELSE IF ch \in Blanks /\ q = "" THEN <<p + 1, acc>>
         ELSE ReadWord(str, p + 1, q, Append(acc, ch))

\* the outer loop: skip blanks, stop at the end, else read one word
RECURSIVE SplitFrom(_, _, _)
SplitFrom(str, p, ws) ==
    LET b == Upto(str, p, Blanks)
    IN IF b > Len(str) THEN ws
       ELSE LET w == ReadWord(str, b, "", <<>>)
            IN SplitFrom(str, w[1], Append(ws, w[2]))

SplitQuoted(str) == SplitFrom(str, 1, <<>>)

\* service_from_unit_file: the After= value of [Unit], split into words
Split ==
    /\ pc = "done"
    /\ pc' = "split"
    /\ words' = IF <<DepSection, DepKey>> \in DOMAIN unit
                THEN SplitQuoted(unit[<<DepSection, DepKey>>])
                ELSE <<>>
    /\ UNCHANGED <<text, cur, section, unit>>

Next == BlankLine \/ CommentLine \/ SectionHeader \/ KeyValue \/ Done \/ Split

Spec == Init /\ [][Next]_vars

-----------------------------------------------------------------------------
(* Reference definitions                                                    *)

\* The unit file read line by line, as the comment at the top of systemd.c
\* describes the syntax: comment lines and blank lines are discarded; a
\* section header is '[' name ']'; a key-value line is a key, any blanks,
\* '=', any blanks and the value; a line ending with a backslash has it
\* replaced by a space and the next non-comment line appended; in a value
\* tabs are spaces, runs of spaces are one space and a trailing space is
\* dropped; an empty value replaces, any other value is appended after a
\* space (unit_update_value's comment).  The text must end with a newline.

\* the lines of a newline-terminated text
RECURSIVE LinesOf(_)
LinesOf(t) ==
    IF t = <<>> THEN <<>>
    ELSE LET n == SelectInSeq(t, LAMBDA c : c = NL)
         IN <<SubSeq(t, 1, n - 1)>> \o LinesOf(SubSeq(t, n + 1, Len(t)))

IsComment(l) == l # <<>> /\ l[1] \in CommentStart
Continues(l) == l # <<>> /\ Last(l) = "\\"

\* tabs as spaces, each space that follows a space dropped, and then a
\* trailing space dropped
Normal(raw) ==
    LET t    == [i \in DOMAIN raw |-> IF raw[i] = Tab THEN " " ELSE raw[i]]
        keep == {i \in DOMAIN t : ~(t[i] = " " /\ i > 1 /\ t[i - 1] = " ")}
        sq   == [k \in 1 .. Cardinality(keep) |->
                   t[CHOOSE i \in keep : Cardinality({j \in keep : j <= i}) = k]]
    IN IF sq # <<>> /\ Last(sq) = " " THEN SubSeq(sq, 1, Len(sq) - 1) ELSE sq

RefFail(st) == [st EXCEPT !.ok = FALSE]

\* the assignment of a complete value
RefAssign(st, key, raw) ==
    LET v == Normal(raw)
        x == <<st.sec, key>>
    IN IF Len(key) >= KeySize - 1 \/ Len(v) >= ValueSize - 1 \/ st.sec = <<>>
       THEN RefFail(st)
       ELSE [st EXCEPT !.open = FALSE,
                       !.unit = (x :> IF v # <<>> /\ x \in DOMAIN st.unit
                                      THEN st.unit[x] \o <<" ">> \o v ELSE v)
                                @@ st.unit]

\* the value part of a key-value line: complete, or open for continuation
RefValue(st, key, rest) ==
    IF Continues(rest)
    THEN [st EXCEPT !.open = TRUE, !.key = key, !.raw = Front(rest) \o <<" ">>]
    ELSE RefAssign(st, key, rest)

RefPair(st, l) ==
    LET eq  == SelectInSeq(l, LAMBDA c : c = "=")
        lhs == SubSeq(l, 1, eq - 1)
        kl  == SelectLastInSeq(lhs, LAMBDA c : c \notin Blanks)
        rhs == SubSeq(l, eq + 1, Len(l))
        vs  == SelectInSeq(rhs, LAMBDA c : c \notin Blanks)
    IN IF eq = 0 \/ kl = 0 \/ \E i \in 1 .. kl : ~IsKey(lhs[i])
       THEN RefFail(st)
       ELSE RefValue(st, SubSeq(lhs, 1, kl),
                     IF vs = 0 THEN <<>> ELSE SubSeq(rhs, vs, Len(rhs)))

RefHeader(st, l) ==
    LET name == SubSeq(l, 2, Len(l) - 1)
    IN IF /\ Len(l) >= 3
          /\ Last(l) = "]"
          /\ \A i \in DOMAIN name : IsSectionName(name[i])
          /\ Len(name) < SectionSize - 1
       THEN [st EXCEPT !.sec = name]
       ELSE RefFail(st)

RefLine(st, l) ==
    CASE ~st.ok                       -> st
      [] st.open /\ IsComment(l)      -> st
      [] st.open /\ Continues(l)      -> [st EXCEPT !.raw = @ \o Front(l) \o <<" ">>]
      [] st.open                      -> RefAssign(st, st.key, st.raw \o l)
      [] l = <<>> \/ IsComment(l)     -> st
      [] l[1] = "["                   -> RefHeader(st, l)
      [] OTHER                        -> RefPair(st, l)

RefParse(t) ==
    LET st == FoldLeft(RefLine,
                       [ok |-> TRUE, open |-> FALSE, sec |-> <<>>, key |-> <<>>,
                        raw |-> <<>>, unit |-> NoUnit],
                       LinesOf(t))
        ok == (t = <<>> \/ Last(t) = NL) /\ st.ok /\ ~st.open
    IN [ok |-> ok, unit |-> IF ok THEN st.unit ELSE NoUnit]

\* Word splitting as the comment of systemd_split_quoted describes it,
\* systemd's quoting rules less its listed deviations: a backslash and the
\* character after it are one literal character; outside quotes blanks
\* separate words; a quote opens a quoted run, which the same quote
\* closes, anywhere in a word.

RECURSIVE Lex(_)
Lex(str) ==
    CASE str = <<>>                           -> <<>>
      [] Head(str) = "\\" /\ Len(str) = 1     -> <<>>
      [] Head(str) = "\\"                     ->
             <<[c |-> Escape(str[2]), lit |-> TRUE]>> \o Lex(Tail(Tail(str)))
      [] OTHER -> <<[c |-> Head(str), lit |-> FALSE]>> \o Lex(Tail(str))

RefItem(st, it) ==
    CASE ~it.lit /\ it.c \in Quotes /\ st.q \in {"", it.c} ->
             [st EXCEPT !.q = IF @ = "" THEN it.c ELSE "", !.in = TRUE]
      [] ~it.lit /\ it.c \in Blanks /\ st.q = "" ->
             IF st.in THEN [st EXCEPT !.ws = Append(@, st.w), !.w = <<>>, !.in = FALSE]
             ELSE st
      [] OTHER -> [st EXCEPT !.w = Append(@, it.c), !.in = TRUE]

RefSplit(str) ==
    LET st == FoldLeft(RefItem, [ws |-> <<>>, w |-> <<>>, in |-> FALSE, q |-> ""], Lex(str))
    IN IF st.in THEN Append(st.ws, st.w) ELSE st.ws

-----------------------------------------------------------------------------
(* Properties                                                               *)

TypeOK ==
    /\ text \in Seq(Chars)
    /\ cur \in 1 .. Len(text) + 1
    /\ section \in Seq(Chars)
    /\ \A x \in DOMAIN unit : unit[x] \in Seq(Chars)
    /\ pc \in {"parse", "done", "error", "split"}
    /\ words \in Seq(Seq(Chars))

\* The character-by-character loop of systemd_parse_unit_file (header,
\* comment, key-value and continuation handling, whitespace normalisation,
\* the length checks and unit_update_value's append) accepts exactly the
\* texts the line-by-line reading accepts, and builds the same unit.
ParseAgreesWithLines ==
    pc \in {"done", "split", "error"} =>
        LET ref == RefParse(text)
        IN /\ (pc # "error") = ref.ok
           /\ unit = ref.unit

\* systemd_split_quoted turns the After= value into the words of the
\* reference splitting.
SplitAgrees ==
    pc = "split" =>
        words = IF <<DepSection, DepKey>> \in DOMAIN unit
                THEN RefSplit(unit[<<DepSection, DepKey>>])
                ELSE <<>>

=============================================================================
