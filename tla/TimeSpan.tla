------------------------------- MODULE TimeSpan -------------------------------
(***************************************************************************)
(* timespan_from_str (src/src/common/timespan.c): a systemd time span,    *)
(* such as "2min 30s" or "90", to microseconds.                            *)
(*                                                                         *)
(* A span is a character sequence.  usec_t is an unsigned integer of       *)
(* Width bits, and TS_INVALID and TS_INFINITY are its two largest values;  *)
(* the unit table keeps the code's order, and a model gives it names and  *)
(* values scaled to the width.  A product that does not fit in Width bits *)
(* wraps, as it does in the code.                                          *)
(***************************************************************************)
EXTENDS Integers, Sequences, SequencesExt

CONSTANTS
    Digits,       \* the digit characters, with their values
    Letters,      \* the letters of the alphabet (isalpha)
    TimeUnits,    \* timespan_units: a sequence of [name, value]
    InfinityStr,  \* INFINITY_STR
    TsSec,        \* TS_SEC
    Width         \* bits of usec_t and uintmax_t

Modulus    == 2 ^ Width
TsInvalid  == Modulus - 1          \* (usec_t)(-1)
TsInfinity == Modulus - 2          \* (usec_t)(-2)
UIntMax    == Modulus - 1          \* UINTMAX_MAX

\* the local isblank of timespan.c, which counts '\n' as blank
SpanBlanks == {" ", "\t", "\n"}

\* the first index from i on, below j, whose character is not in S (j if none)
Skip(s, i, j, S) ==
    CHOOSE k \in i .. j :
        /\ k = j \/ s[k] \notin S
        /\ \A m \in i .. k - 1 : s[m] \in S

\* the value of the decimal digits s[i .. j-1]
DecValue(s, i, j) == FoldLeft(LAMBDA acc, c : 10 * acc + Digits[c], 0, SubSeq(s, i, j - 1))

\* strtoumax(p, &q, 10) with p at a digit: the magnitude (UINTMAX_MAX when
\* it does not fit, with ERANGE), and where the digits end
StrToUMax(s, p) ==
    LET q == Skip(s, p, Len(s) + 1, DOMAIN Digits)
        n == DecValue(s, p, q)
    IN [num |-> IF n > UIntMax THEN UIntMax ELSE n, erange |-> n > UIntMax, q |-> q]

\* the first entry of timespan_units whose name is exactly s[q .. r-1]
\* (strncmp over r - q characters and the name's terminator at r - q)
UnitIndex(s, q, r) ==
    LET hits == {i \in DOMAIN TimeUnits : TimeUnits[i].name = SubSeq(s, q, r - 1)}
    IN IF hits = {} THEN 0 ELSE CHOOSE i \in hits : \A k \in hits : i <= k

\* the "start over" loop: one magnitude, optional blanks, a unit name and
\* optional blanks per pass; the product is taken modulo 2^Width before
\* the overflow test, as `num *= tsu->value` does
RECURSIVE Terms(_, _, _, _)
Terms(s, p, end, ts) ==
    IF p >= end THEN ts
    ELSE IF s[p] \notin DOMAIN Digits THEN TsInvalid
    ELSE LET m == StrToUMax(s, p)
             q == Skip(s, m.q, end, SpanBlanks)
             r == Skip(s, q, end, Letters)
             u == UnitIndex(s, q, r)
             num == (m.num * TimeUnits[u].value) % Modulus
         IN IF m.erange \/ r = q \/ u = 0 THEN TsInvalid
            ELSE IF TsInvalid - ts <= num THEN TsInvalid
            ELSE Terms(s, Skip(s, r, end, SpanBlanks), end, ts + num)

\* timespan_from_str: trim, the empty span, "infinity", the unitless form
\* (a bare magnitude is seconds, multiplied without an overflow test), and
\* otherwise the loop of terms
TimeSpanFromStr(s) ==
    LET p   == Skip(s, 1, Len(s) + 1, SpanBlanks)
        end == IF \E i \in p .. Len(s) : s[i] \notin SpanBlanks
               THEN 1 + CHOOSE i \in p .. Len(s) :
                          s[i] \notin SpanBlanks /\ \A k \in i + 1 .. Len(s) : s[k] \in SpanBlanks
               ELSE p
        digit == p <= Len(s) /\ s[p] \in DOMAIN Digits
        bare == StrToUMax(s, p)
    IN IF end = p THEN TsInvalid
       ELSE IF Len(s) + 1 - p = Len(InfinityStr) /\ SubSeq(s, p, Len(s)) = InfinityStr
            THEN TsInfinity
       ELSE IF digit /\ bare.erange THEN TsInvalid
       ELSE IF digit /\ Skip(s, bare.q, Len(s) + 1, SpanBlanks) = Len(s) + 1
            THEN (bare.num * TsSec) % Modulus
       ELSE Terms(s, p, end, 0)

-----------------------------------------------------------------------------
(* Reference: what a time span means (systemd.time(7), and the function's *)
(* own comment: TS_INVALID on an empty span, a syntax error, or a result  *)
(* that overflows)                                                         *)

Class(c) == IF c \in DOMAIN Digits THEN "digits"
            ELSE IF c \in Letters THEN "word"
            ELSE IF c \in SpanBlanks THEN "blank" ELSE "other"

\* the maximal runs of characters of one class, blanks left out
RECURSIVE Tokens(_)
Tokens(s) ==
    IF s = <<>> THEN <<>>
    ELSE LET k == Skip(s, 1, Len(s) + 1, {c \in Range(s) : Class(c) = Class(s[1])})
             t == [class |-> Class(s[1]), text |-> SubSeq(s, 1, k - 1)]
             rest == Tokens(SubSeq(s, k, Len(s)))
         IN IF t.class = "blank" THEN rest ELSE <<t>> \o rest

UnitValue(name) == TimeUnits[CHOOSE i \in DOMAIN TimeUnits : TimeUnits[i].name = name].value

\* a magnitude-unit pair at every odd position, summed; the sum must stay
\* below TS_INVALID
RefSpan(ts) ==
    LET pairs == Len(ts) \div 2
        ok == /\ Len(ts) % 2 = 0
              /\ \A i \in 1 .. pairs :
                   /\ ts[2 * i - 1].class = "digits"
                   /\ ts[2 * i].class = "word"
                   /\ \E u \in DOMAIN TimeUnits : TimeUnits[u].name = ts[2 * i].text
        total == FoldLeft(LAMBDA acc, i :
                            acc + DecValue(ts[2 * i - 1].text, 1, Len(ts[2 * i - 1].text) + 1)
                                  * UnitValue(ts[2 * i].text),
                          0, [i \in 1 .. pairs |-> i])
    IN IF ok /\ total < TsInvalid THEN total ELSE TsInvalid

RefTimeSpan(s) ==
    LET ts == Tokens(s) IN
    CASE ts = <<>>                                   -> TsInvalid
      [] Len(ts) = 1 /\ ts[1].text = InfinityStr    -> TsInfinity
      [] Len(ts) = 1 /\ ts[1].class = "digits"      ->
            LET n == DecValue(ts[1].text, 1, Len(ts[1].text) + 1) * TsSec
            IN IF n < TsInvalid THEN n ELSE TsInvalid
      [] OTHER                                      -> RefSpan(ts)

=============================================================================
