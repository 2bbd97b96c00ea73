-------------------------- MODULE SparqlFunctions ---------------------------
(***************************************************************************)
(* SPARQL's functions on strings and numbers, as the SQL they compile to   *)
(* computes them, against their definitions. A string is a sequence of     *)
(* characters, a number a multiple of a fraction; NULL is an error.        *)
(***************************************************************************)
EXTENDS Integers, Sequences, FiniteSets, SequencesExt, Inputs

CONSTANTS
    SqlNull,      \* SQL's NULL
    Strings,      \* texts, sequences of characters
    Lexicals,     \* lexical forms: sequences of the characters in LexicalChars
    Patterns,     \* regular expressions: sequences of the characters in RegexChars
    Fraction,     \* parts of a unit a number is a multiple of
    Magnitude     \* bound on numbers, in fractions

LexicalChars == {"+", "0", ".", "e", "x"}
RegexChars == {"^", "$", "\\", ".", "a"}

\* A literal: k is "string", "lang" or "int"; lang the tag of a "lang".
Literal(k, lex, lang) == [k |-> k, lex |-> lex, lang |-> lang]
None_ == Literal(SqlNull, SqlNull, SqlNull)

-----------------------------------------------------------------------------
(* SQLite's functions on text.                                             *)

Smaller(a, b) == IF a < b THEN a ELSE b
Larger(a, b) == IF a > b THEN a ELSE b
\* substr(x, y): from position y, or the last -y characters.
substr2(x, y) == SubSeq(x, IF y > 0 THEN y ELSE IF y = 0 THEN 1 ELSE Larger(1, Len(x) + y + 1), Len(x))
\* substr(x, y, z), y and z not negative: position 0 counts as one.
substr3(x, y, z) == IF y = 0 THEN SubSeq(x, 1, Smaller(z - 1, Len(x))) ELSE SubSeq(x, y, Smaller(y + z - 1, Len(x)))
At(x, y) == {i \in 1 .. Len(x) + 1 : i + Len(y) - 1 <= Len(x) /\ SubSeq(x, i, i + Len(y) - 1) = y}
instr(x, y) == IF At(x, y) = {} THEN 0 ELSE CHOOSE i \in At(x, y) : \A j \in At(x, y) : i <= j

-----------------------------------------------------------------------------
(* Functions on strings.                                                   *)

is_string_like(a) == a.k \in {"string", "lang"}

StrLen(a) == IF is_string_like(a) THEN Len(a.lex) ELSE SqlNull
SubStr(a, start, length) ==
    IF ~is_string_like(a) THEN None_
    ELSE Literal(a.k, IF length = SqlNull THEN substr2(a.lex, start) ELSE substr3(a.lex, start, length), a.lang)

Concat_(as) ==
    LET same == \A i \in DOMAIN as : as[i].k = "lang" /\ as[i].lang = as[1].lang
    IN  IF \E i \in DOMAIN as : ~is_string_like(as[i]) THEN None_
        ELSE Literal(IF same THEN as[1].k ELSE "string", FlattenSeq([i \in DOMAIN as |-> as[i].lex]), IF same THEN as[1].lang ELSE SqlNull)

Tested(a, b, p) == IF is_string_like(a) /\ is_string_like(b) THEN p ELSE SqlNull
Contains_(a, b) == Tested(a, b, instr(a.lex, b.lex) > 0)
StrStarts(a, b) == Tested(a, b, substr3(a.lex, 1, Len(b.lex)) = b.lex)
StrEnds(a, b) == Tested(a, b, Len(b.lex) = 0 \/ substr2(a.lex, -Len(b.lex)) = b.lex)

Compatible_(a, b) == is_string_like(a) /\ (b.k = "string" \/ (b.k = "lang" /\ a.lang = b.lang))
\* What is found keeps the tag of the first argument.
Part(a, b, lex) ==
    IF ~Compatible_(a, b) THEN None_
    ELSE IF instr(a.lex, b.lex) > 0 THEN Literal(a.k, lex, a.lang) ELSE Literal("string", lex, SqlNull)
StrBefore(a, b) ==
    Part(a, b, IF Len(b.lex) = 0 THEN <<>> ELSE IF instr(a.lex, b.lex) > 0 THEN substr3(a.lex, 1, instr(a.lex, b.lex) - 1) ELSE <<>>)
StrAfter(a, b) ==
    Part(a, b, IF Len(b.lex) = 0 THEN a.lex ELSE IF instr(a.lex, b.lex) > 0 THEN substr2(a.lex, instr(a.lex, b.lex) + Len(b.lex)) ELSE <<>>)

-----------------------------------------------------------------------------
(* REGEX with a pattern that only anchors a literal.                       *)

Special == {".", "^", "$"}
simple_regex_step(r, c, last) ==
    IF ~r.simple THEN r
    ELSE IF r.escape THEN [r EXCEPT !.escape = FALSE, !.simple = c \in Special \cup {"\\"}, !.lit = Append(@, c)]
    ELSE IF c = "\\" THEN [r EXCEPT !.escape = TRUE]
    ELSE IF c = "$" /\ last THEN [r EXCEPT !.ends = TRUE]
    ELSE IF c \in Special THEN [r EXCEPT !.simple = FALSE]
    ELSE [r EXCEPT !.lit = Append(@, c)]
simple_regex(pattern) ==
    LET starts == Len(pattern) > 0 /\ pattern[1] = "^"
        rest == IF starts THEN Tail(pattern) ELSE pattern
        r == FoldLeft(LAMBDA acc, i : simple_regex_step(acc, rest[i], i = Len(rest)),
                      [lit |-> <<>>, ends |-> FALSE, escape |-> FALSE, simple |-> TRUE], [i \in DOMAIN rest |-> i])
    IN  [starts |-> starts, lit |-> r.lit, ends |-> r.ends, simple |-> r.simple /\ ~r.escape]

regex(text, s) ==
    CASE s.starts /\ s.ends -> text = s.lit
      [] s.starts /\ ~s.ends -> substr3(text, 1, Len(s.lit)) = s.lit
      [] ~s.starts /\ s.ends -> Len(s.lit) = 0 \/ substr2(text, -Len(s.lit)) = s.lit
      [] OTHER -> instr(text, s.lit) > 0

-----------------------------------------------------------------------------
(* Numbers: n stands for n / Fraction. CAST truncates towards zero.        *)

Cast(n) == IF n >= 0 THEN n \div Fraction ELSE -((-n) \div Fraction)
Below(n, i) == IF n < i * Fraction THEN 1 ELSE 0
Floor(n) == Cast(n) - Below(n, Cast(n))
Ceil(n) == -(Cast(-n) - Below(-n, Cast(-n)))
Round(n) == LET m == n + Fraction \div 2 IN Cast(m) - Below(m, Cast(m))

Digits(s) == \A i \in DOMAIN s : s[i] = "0"
unsigned(t) == IF Len(t) > 0 /\ t[1] = "+" THEN Tail(t) ELSE t
int_lex(t) == unsigned(t) # <<>> /\ Digits(unsigned(t))
dec_lex(t) ==
    LET u == unsigned(t)
    IN  /\ u # <<>> /\ u # <<".">>
        /\ \A i \in DOMAIN u : u[i] \in {"0", "."}
        /\ Cardinality({i \in DOMAIN u : u[i] = "."}) <= 1
dbl_lex(t) ==
    LET e == instr(t, <<"e">>)
    IN  dec_lex(t) \/ (e > 0 /\ dec_lex(SubSeq(t, 1, e - 1)) /\ int_lex(SubSeq(t, e + 1, Len(t))))

-----------------------------------------------------------------------------
(* Laws.                                                                   *)

Literals == {Literal("string", s, SqlNull) : s \in Strings} \cup {Literal("lang", s, l) : s \in Strings, l \in {1, 2}}
            \cup {Literal("int", <<"a">>, SqlNull)}

FunctionInit ==
    \/ \E a, b \in Literals : input = [of |-> "strings", a |-> a, b |-> b]
    \/ \E a \in Literals, i \in 0 .. 4, n \in (0 .. 4) \cup {SqlNull} : input = [of |-> "substring", a |-> a, start |-> i, length |-> n]
    \/ \E p \in Patterns, t \in Strings : input = [of |-> "regex", p |-> p, t |-> t]
    \/ \E n \in (-Magnitude) .. Magnitude : input = [of |-> "number", n |-> n]
    \/ \E t \in Lexicals : input = [of |-> "lexical", t |-> t]

Occurs(y, x, i) == \A j \in DOMAIN y : i + j - 1 \in DOMAIN x /\ x[i + j - 1] = y[j]

\* SUBSTR takes the characters at the positions from start on, length many,
\* of which those outside the string are none: also from position 0, which
\* SQLite's substr treats specially.
SubstringsArePositions ==
    Is("substring") /\ is_string_like(input.a) =>
        LET x == input.a.lex
            r == SubStr(input.a, input.start, input.length)
            taken == {i \in DOMAIN x : i >= input.start /\ (input.length = SqlNull \/ i < input.start + input.length)}
        IN  Len(r.lex) = Cardinality(taken) /\ r.k = input.a.k /\ r.lang = input.a.lang
            /\ \A i \in taken : r.lex[1 + Cardinality({j \in taken : j < i})] = x[i]

\* STRSTARTS, STRENDS and CONTAINS find an occurrence where there is one, the
\* empty string everywhere, and fail on what is not a string.
OccurrencesAreFound ==
    Is("strings") =>
        LET x == input.a.lex
            y == input.b.lex
            strings == is_string_like(input.a) /\ is_string_like(input.b)
            Says(r, p) == r = IF strings THEN p ELSE SqlNull
        IN  /\ Says(Contains_(input.a, input.b), \E i \in 1 .. Len(x) + 1 : Occurs(y, x, i))
            /\ Says(StrStarts(input.a, input.b), Occurs(y, x, 1))
            /\ Says(StrEnds(input.a, input.b), Len(y) <= Len(x) /\ Occurs(y, x, Len(x) - Len(y) + 1))

\* STRBEFORE and STRAFTER cut a string at the first occurrence of another,
\* keep its language tag, give the plain empty string when there is none,
\* and fail when the tags differ.
PartsRejoin ==
    Is("strings") =>
        LET before == StrBefore(input.a, input.b)
            after == StrAfter(input.a, input.b)
            found == Contains_(input.a, input.b)
        IN  IF ~Compatible_(input.a, input.b) THEN before = None_ /\ after = None_
            ELSE IF ~found THEN before = Literal("string", <<>>, SqlNull) /\ after = before
            ELSE /\ before.lex \o input.b.lex \o after.lex = input.a.lex
                 /\ \A i \in 1 .. Len(before.lex) : ~Occurs(input.b.lex, input.a.lex, i)
                 /\ {<<x.k, x.lang>> : x \in {before, after}} = {<<input.a.k, input.a.lang>>}

\* CONCAT tags its result with a language exactly if all arguments have it.
TagsAreShared ==
    Is("strings") /\ is_string_like(input.a) /\ is_string_like(input.b) =>
        LET r == Concat_(<<input.a, input.b>>)
        IN  /\ StrLen(r) = StrLen(input.a) + StrLen(input.b)
            /\ (r.k = "lang") = (input.a.k = "lang" /\ input.b.k = "lang" /\ input.a.lang = input.b.lang)
            /\ r.k = "lang" => r.lang = input.a.lang

\* The literal a pattern stands for, if it is only anchors, literal and
\* escaped characters.
Escaped(p, i) == LET back == {j \in 1 .. i - 1 : \A k \in j .. i - 1 : p[k] = "\\"} IN Cardinality(back) % 2 = 1
Anchor(p, i) == ~Escaped(p, i) /\ ((p[i] = "^" /\ i = 1) \/ (p[i] = "$" /\ i = Len(p)))
Plain_(p) ==
    \A i \in DOMAIN p : /\ ~Escaped(p, i) => Anchor(p, i) \/ p[i] = "a" \/ (p[i] = "\\" /\ i < Len(p))
                        /\ Escaped(p, i) => p[i] # "a"
Meant(p) ==
    LET kept == {i \in DOMAIN p : ~Anchor(p, i) /\ (Escaped(p, i) \/ p[i] # "\\")}
    IN  [n \in 1 .. Cardinality(kept) |-> p[CHOOSE i \in kept : Cardinality({j \in kept : j <= i}) = n]]

\* A REGEX compiled to string comparisons matches what the pattern matches,
\* and only patterns without other operators are compiled so: an escaped
\* anchor is a character (simple_regex).
SimplePatternsMatch ==
    Is("regex") =>
        LET p == input.p
            s == simple_regex(p)
            anchored == Len(p) > 0 /\ p[1] = "^"
            ended == Len(p) > 0 /\ Anchor(p, Len(p)) /\ p[Len(p)] = "$"
            lit == Meant(p)
        IN  /\ s.simple = Plain_(p)
            /\ s.simple => regex(input.t, s) =
                 \E i \in 1 .. Len(input.t) + 1 : /\ Occurs(lit, input.t, i)
                                                  /\ anchored => i = 1
                                                  /\ ended => i + Len(lit) - 1 = Len(input.t)

\* FLOOR, CEIL and ROUND round negative numbers down, up and to the nearest,
\* halves up, though CAST truncates towards zero.
RoundingIsDirected ==
    Is("number") =>
        LET n == input.n
        IN  /\ Floor(n) * Fraction <= n /\ n < (Floor(n) + 1) * Fraction
            /\ (Ceil(n) - 1) * Fraction < n /\ n <= Ceil(n) * Fraction
            /\ 2 * Round(n) * Fraction <= 2 * n + Fraction /\ 2 * n + Fraction < 2 * (Round(n) + 1) * Fraction

\* A string casts to a number exactly if it is a lexical form of one: an
\* optional sign, digits with at most one point, an optional exponent.
CastsAcceptLexicalForms ==
    Is("lexical") =>
        LET t == input.t
            Sign(s) == IF Len(s) > 0 /\ s[1] = "+" THEN 1 ELSE 0
            Int__(s) == Len(s) > Sign(s) /\ \A i \in Sign(s) + 1 .. Len(s) : s[i] = "0"
            Dec_(s) == /\ \E i \in DOMAIN s : s[i] = "0"
                       /\ \E d \in 0 .. Len(s) : \A i \in Sign(s) + 1 .. Len(s) : i # d => s[i] = "0"
                       /\ \E d \in Sign(s) + 1 .. Len(s) : s[d] = "." /\ \A i \in Sign(s) + 1 .. Len(s) : i # d => s[i] = "0"
            Whole(s) == Int__(s) \/ Dec_(s)
        IN  /\ int_lex(t) = Int__(t)
            /\ dec_lex(t) = Whole(t)
            /\ dbl_lex(t) = (Whole(t) \/ \E e \in DOMAIN t : t[e] = "e" /\ Whole(SubSeq(t, 1, e - 1)) /\ Int__(SubSeq(t, e + 1, Len(t))))
=============================================================================
