---------------------------- MODULE TermEncoding ----------------------------
(***************************************************************************)
(* Terms as 64-bit ids: a tag and a payload that is the value of a small   *)
(* canonical integer or boolean and else the hash of a key, the rows that  *)
(* a hash is decoded from, the keys that triple terms are compared and     *)
(* ordered by, and the JSON that terms cross into JavaScript as.           *)
(*                                                                         *)
(* A text is a sequence of character codes. A lexical form keeps what its  *)
(* readers tell apart: a numeral its sign, leading zeros, whole part and   *)
(* tenths, a date its day, second and time zone. A hashed payload is the   *)
(* key itself: xxh3 is taken to have no collisions. Options are sequences  *)
(* of at most one element; so are results, empty for an error.             *)
(***************************************************************************)
EXTENDS Inputs, Integers, Sequences, FiniteSets, SequencesExt

CONSTANTS
    PayloadBits,   \* bits of a payload
    WholeLimit,    \* whole numbers from here on are printed as floats in value keys
    DaySeconds,    \* seconds of a day
    RdfTerms,      \* the terms whose encodings are compared
    JsTerms        \* terms of other RDF/JS libraries

(* Terms.                                                                  *)

\* Characters of datatypes come after the separators, as in every IRI.
XsdString == <<30>>
XsdInteger == <<31>>
XsdInt == <<31, 9>>
XsdDecimal == <<32>>
XsdDouble == <<33>>
XsdBoolean == <<34>>
XsdDateTime == <<35>>
XsdDate == <<36>>
LangString == <<37>>
DirLangString == <<38>>

NoPoint == -1
Word(text) == [form |-> "word", text |-> text]
Numeral(sign, zeros, whole, tenths) == [form |-> "numeral", sign |-> sign, zeros |-> zeros, whole |-> whole, tenths |-> tenths]
Stamp(day, second, zone) == [form |-> "stamp", day |-> day, second |-> second, zone |-> zone]
TrueWord == Word(<<50>>)
FalseWord == Word(<<51>>)
InfWord == Word(<<52>>)

Iri(v) == [type |-> "NamedNode", value |-> v]
Blank(v) == [type |-> "BlankNode", value |-> v]
Lit(lex, dt, lang, dir) == [type |-> "Literal", value |-> lex, datatype |-> dt, language |-> lang, direction |-> dir]
Typed(lex, dt) == Lit(lex, dt, <<>>, <<>>)
TripleTerm(s, p, o) == [type |-> "Quad", subject |-> s, predicate |-> p, object |-> o]
DefaultGraph == [type |-> "DefaultGraph"]

Digit(n) == 10 + n
SignText(sign) == CASE sign = "+" -> <<4>> [] sign = "-" -> <<5>> [] OTHER -> <<>>
\* The characters of a lexical form; its whole part, day and second are one.
TextOf(lex) ==
    CASE lex.form = "word" -> lex.text
      [] lex.form = "numeral" ->
            SignText(lex.sign) \o [i \in 1 .. lex.zeros |-> Digit(0)] \o <<Digit(lex.whole)>>
            \o (IF lex.tenths = NoPoint THEN <<>> ELSE <<6, Digit(lex.tenths)>>)
      [] OTHER -> <<Digit(lex.day), 7, Digit(lex.second)>> \o (IF lex.zone = <<>> THEN <<>> ELSE <<8, 40 + lex.zone[1]>>)

-----------------------------------------------------------------------------
(* Values of lexical forms.                                                *)

\* 1 for the types of integers, up to 4.
numeric_rank(dt) == CASE dt \in {XsdInteger, XsdInt} -> <<1>> [] dt = XsdDecimal -> <<2>> [] dt = XsdDouble -> <<4>> [] OTHER -> <<>>

Infinity == 10000
\* A numeral's value in tenths; SQLite has no NaN.
Tenths(lex) ==
    LET v == 10 * lex.whole + (IF lex.tenths = NoPoint THEN 0 ELSE lex.tenths) IN IF lex.sign = "-" THEN -v ELSE v
parse_xsd_float(lex) ==
    CASE lex = InfWord -> <<Infinity>> [] lex.form = "numeral" -> <<Tenths(lex)>> [] OTHER -> <<>>
\* Is the form what the integer it parses as is printed as?
Canonical(lex) ==
    /\ lex.form = "numeral" /\ lex.tenths = NoPoint /\ lex.zeros = 0
    /\ lex.sign = (IF Tenths(lex) < 0 THEN "-" ELSE "")
boolean_value(lex) ==
    CASE lex \in {TrueWord, Numeral("", 0, 1, NoPoint)} -> <<1>>
      [] lex \in {FalseWord, Numeral("", 0, 0, NoPoint)} -> <<0>>
      [] OTHER -> <<>>
\* No time zone counts as UTC.
timestamp(lex, dt) ==
    IF lex.form # "stamp" \/ dt \notin {XsdDateTime, XsdDate} THEN <<>>
    ELSE <<lex.day * DaySeconds + (IF dt = XsdDate THEN 0 ELSE lex.second) - (IF lex.zone = <<>> THEN 0 ELSE lex.zone[1])>>
timezone_flag(lex, dt) == IF timestamp(lex, dt) = <<>> THEN <<>> ELSE <<IF lex.zone = <<>> THEN 0 ELSE 1>>

-----------------------------------------------------------------------------
(* Ids and rows.                                                           *)

Tag == [Default |-> 0, Iri |-> 1, BlankNode |-> 2, String |-> 3, LangString |-> 4, Typed |-> 5, Integer |-> 6, Boolean |-> 7,
        Triple |-> 9, DirLangString |-> 10]
IntOffset == 2 ^ (PayloadBits - 1)

\* An inline payload is cut to its bits.
make(tag, payload) == [tag |-> tag, payload |-> payload % 2 ^ PayloadBits, key |-> <<>>]
IdNumber(id) == id.tag * 2 ^ PayloadBits + id.payload
\* A mutant: nothing separates the parts of a key.
hashed_joined(tag, parts) == [tag |-> tag, payload |-> 0, key |-> FoldLeft(LAMBDA k, p : k \o p, <<>>, parts)]
\* The parts of the key are separated by a zero.
hashed(tag, parts) ==
    [tag |-> tag, payload |-> 0,
     key |-> FoldLeft(LAMBDA k, i : k \o (IF i > 1 THEN <<0>> ELSE <<>>) \o parts[i], <<>>, [i \in DOMAIN parts |-> i])]

integer_id(v) == IF -IntOffset <= v /\ v < IntOffset THEN <<make(Tag.Integer, v + IntOffset)>> ELSE <<>>

Row(id, lex, dt, lang, dir, num, nt, ts) ==
    [id |-> id, lex |-> lex, dt |-> dt, lang |-> lang, dir |-> dir, num |-> num, nt |-> nt, ts |-> ts]
Plain(id, lex) == Row(id, lex, <<>>, <<>>, <<>>, <<>>, <<>>, <<>>)

encode_literal(l) ==
    LET lex == l.value
        text == TextOf(lex)
        inline == IF l.datatype = XsdInteger /\ Canonical(lex) THEN integer_id(Tenths(lex) \div 10)
                  ELSE IF l.datatype = XsdBoolean /\ lex \in {TrueWord, FalseWord}
                       THEN <<make(Tag.Boolean, boolean_value(lex)[1])>> ELSE <<>>
        stored(id, dt, dir, num, nt, ts) == [id |-> id, row |-> <<Row(id, lex, dt, l.language, dir, num, nt, ts)>>]
        num == IF l.datatype = XsdBoolean THEN boolean_value(lex)
               ELSE IF numeric_rank(l.datatype) # <<>> THEN parse_xsd_float(lex) ELSE <<>>
    IN  CASE l.language # <<>> /\ l.direction # <<>> ->
                stored(hashed(Tag.DirLangString, <<l.language[1], <<l.direction[1]>>, text>>), <<>>, l.direction, <<>>, <<>>, <<>>)
          [] l.language # <<>> /\ l.direction = <<>> ->
                stored(hashed(Tag.LangString, <<l.language[1], text>>), <<>>, <<>>, <<>>, <<>>, <<>>)
          [] l.language = <<>> /\ l.datatype = XsdString -> stored(hashed(Tag.String, <<text>>), <<>>, <<>>, <<>>, <<>>, <<>>)
          [] inline # <<>> -> [id |-> inline[1], row |-> <<>>]
          [] OTHER -> stored(hashed(Tag.Typed, <<l.datatype, text>>), <<l.datatype>>, timezone_flag(lex, l.datatype), num,
                             IF num # <<>> THEN numeric_rank(l.datatype) ELSE <<>>, timestamp(lex, l.datatype))

\* The eight bytes of an id.
Bytes8(id) == <<1000 + id.tag, id.payload>> \o id.key
RECURSIVE term_id(_)
term_id(t) ==
    CASE t.type = "NamedNode" -> hashed(Tag.Iri, <<t.value>>)
      [] t.type = "BlankNode" -> hashed(Tag.BlankNode, <<t.value>>)
      [] t.type = "Literal" -> encode_literal(t).id
      [] OTHER -> hashed(Tag.Triple, <<Bytes8(term_id(t.subject)), Bytes8(term_id(t.predicate)), Bytes8(term_id(t.object))>>)
graph_id(g) == IF g = DefaultGraph THEN make(Tag.Default, 0) ELSE term_id(g)

-----------------------------------------------------------------------------
(* Keys that triple terms are compared by.                                 *)

RECURSIVE value_key(_)
\* Equal for terms of equal values.
value_key(t) ==
    CASE t.type \in {"NamedNode", "BlankNode"} -> <<t.type, term_id(t)>>
      [] t.type = "Quad" -> <<"(", value_key(t.subject), value_key(t.predicate), value_key(t.object)>>
      [] OTHER ->
            LET e == encode_literal(t)
                row == e.row[1]
            IN  CASE e.id.tag = Tag.Integer -> <<"n", e.id.payload - IntOffset>>
                  [] e.id.tag = Tag.Boolean -> <<"B", e.id.payload>>
                  [] e.row # <<>> /\ row.nt # <<>> /\ row.num[1] % 10 = 0 /\ row.num[1] < 10 * WholeLimit /\ -row.num[1] < 10 * WholeLimit ->
                        <<"n", row.num[1] \div 10>>
                  [] e.row # <<>> /\ row.nt # <<>> -> <<"f", row.num[1]>>
                  [] e.row # <<>> /\ row.num # <<>> /\ row.nt = <<>> -> <<"B", row.num[1]>>
                  [] e.row # <<>> /\ row.ts # <<>> -> <<"t", t.datatype, row.dir[1], row.ts[1]>>
                  [] OTHER -> <<"l", e.id>>

\* The bits of a float as a number: the sign, then the magnitude.
SignBit == 2 ^ 15
to_bits(n, negative) == IF negative THEN SignBit - n ELSE n
\* Flipped for negative numbers, the sign set for the others: the order of the numbers.
NumberKey(n, negative) == IF negative THEN (2 * SignBit - 1) - to_bits(n, negative) ELSE to_bits(n, negative) + SignBit

NumberOf(l) ==
    LET e == encode_literal(l)
    IN  IF e.id.tag = Tag.Integer THEN <<10 * (e.id.payload - IntOffset)>>
        ELSE IF e.row # <<>> /\ e.row[1].nt # <<>> THEN e.row[1].num ELSE <<>>
RECURSIVE sort_key(_)
\* A text in the order of the terms.
sort_key(t) ==
    CASE t.type = "BlankNode" -> <<Digit(0)>> \o t.value
      [] t.type = "NamedNode" -> <<Digit(1)>> \o t.value
      [] t.type = "Literal" /\ NumberOf(t) # <<>> ->
            LET n == NumberOf(t)[1] IN <<Digit(2), NumberKey(n, n < 0)>>
      [] t.type = "Literal" /\ NumberOf(t) = <<>> -> <<Digit(3)>> \o TextOf(t.value) \o <<1>> \o t.datatype
      [] OTHER -> <<Digit(4)>> \o sort_key(t.subject) \o <<2>> \o sort_key(t.predicate) \o <<2>> \o sort_key(t.object)

-----------------------------------------------------------------------------
(* What is written, and read back.                                         *)

NoRows == [terms |-> {}, triples |-> {}]
RECURSIVE rows_of(_)
\* EncodedRows::term: the rows a term is decoded from (a set: dedup keeps one of each).
rows_of(t) ==
    CASE t.type = "DefaultGraph" -> NoRows
      [] t.type = "Literal" -> [NoRows EXCEPT !.terms = Range(encode_literal(t).row)]
      [] t.type = "Quad" ->
            LET parts == {rows_of(t.subject), rows_of(t.predicate), rows_of(t.object)}
            IN  [terms |-> UNION {r.terms : r \in parts},
                 triples |-> UNION {r.triples : r \in parts}
                             \cup {[id |-> term_id(t), s |-> term_id(t.subject), p |-> term_id(t.predicate), o |-> term_id(t.object),
                                    vk |-> value_key(t), sk |-> sort_key(t)]}]
      [] OTHER -> [NoRows EXCEPT !.terms = {Plain(term_id(t), Word(t.value))}]

IntegerLexical(v) == Numeral(IF v < 0 THEN "-" ELSE "", 0, IF v < 0 THEN -v ELSE v, NoPoint)
decode_inline(id) ==
    CASE id.tag = Tag.Integer -> <<Typed(IntegerLexical(id.payload - IntOffset), XsdInteger)>>
      [] id.tag = Tag.Boolean -> <<Typed(IF id.payload # 0 THEN TrueWord ELSE FalseWord, XsdBoolean)>>
      [] OTHER -> <<>>
decode_row(id, row) ==
    CASE id.tag = Tag.Iri -> <<Iri(row.lex.text)>>
      [] id.tag = Tag.BlankNode -> <<Blank(row.lex.text)>>
      [] id.tag = Tag.String -> <<Typed(row.lex, XsdString)>>
      [] id.tag = Tag.LangString -> IF row.lang = <<>> THEN <<>> ELSE <<Lit(row.lex, LangString, row.lang, <<>>)>>
      [] id.tag = Tag.DirLangString ->
            IF row.lang = <<>> THEN <<>> ELSE <<Lit(row.lex, DirLangString, row.lang, IF row.dir = <<2>> THEN <<2>> ELSE <<1>>)>>
      [] id.tag = Tag.Typed -> IF row.dt = <<>> THEN <<>> ELSE <<Typed(row.lex, row.dt[1])>>
      [] OTHER -> <<>>
make_triple(s, p, o) ==
    IF s.type \in {"NamedNode", "BlankNode"} /\ p.type = "NamedNode" THEN <<TripleTerm(s, p, o)>> ELSE <<>>
RECURSIVE decode(_, _)
\* The term of an id, from the rows of both tables.
decode(id, rows) ==
    IF decode_inline(id) # <<>> THEN decode_inline(id)
    ELSE IF id.tag = Tag.Default THEN <<DefaultGraph>>
    ELSE IF id.tag = Tag.Triple
         THEN LET found == {r \in rows.triples : r.id = id}
                  r == CHOOSE x \in found : TRUE
                  s == decode(r.s, rows)
                  p == decode(r.p, rows)
                  o == decode(r.o, rows)
              IN  IF found = {} \/ <<>> \in {s, p, o} THEN <<>> ELSE make_triple(s[1], p[1], o[1])
    ELSE LET found == {r \in rows.terms : r.id = id}
         IN  IF found = {} THEN <<>> ELSE decode_row(id, CHOOSE r \in found : TRUE)

-----------------------------------------------------------------------------
(* JSON.                                                                   *)

\* An RDF/JS literal: every field but the value may be absent.
JsLit(lex, dt, lang, dir) == [type |-> "Literal", value |-> lex, datatype |-> dt, language |-> lang, direction |-> dir]
OrDefault(option, x) == IF option = <<>> THEN x ELSE option[1]
NoText == <<>>
NoDirection == 0

RECURSIVE termEquals(_, _)
termEquals(a, b) ==
    /\ a.type = b.type
    /\ CASE a.type = "Literal" -> /\ a.value = b.value /\ OrDefault(a.language, NoText) = OrDefault(b.language, NoText)
                                  /\ OrDefault(a.direction, NoDirection) = OrDefault(b.direction, NoDirection)
                                  /\ OrDefault(a.datatype, XsdString) = OrDefault(b.datatype, XsdString)
         [] a.type = "Quad" -> /\ termEquals(a.subject, b.subject) /\ termEquals(a.predicate, b.predicate)
                               /\ termEquals(a.object, b.object) /\ termEquals(OrDefault(a.graph, DefaultGraph), OrDefault(b.graph, DefaultGraph))
         [] a.type = "DefaultGraph" -> TRUE
         [] OTHER -> a.value = b.value

RECURSIVE toJson(_)
toJson(t) ==
    CASE t.type = "Literal" -> JsLit(t.value, <<OrDefault(t.datatype, XsdString)>>, <<OrDefault(t.language, NoText)>>, <<OrDefault(t.direction, NoDirection)>>)
      [] t.type = "Quad" -> [type |-> "Quad", subject |-> toJson(t.subject), predicate |-> toJson(t.predicate), object |-> toJson(t.object),
                             graph |-> <<toJson(OrDefault(t.graph, DefaultGraph))>>]
      [] OTHER -> t
RECURSIVE fromJson(_)
fromJson(j) ==
    CASE j.type = "Literal" ->
            LET lang == OrDefault(j.language, NoText)
                dir == OrDefault(j.direction, NoDirection)
                default == IF lang = NoText THEN XsdString ELSE IF dir # NoDirection THEN DirLangString ELSE LangString
            IN  JsLit(j.value, <<OrDefault(j.datatype, default)>>, <<lang>>, <<dir>>)
      [] j.type = "Quad" -> [type |-> "Quad", subject |-> fromJson(j.subject), predicate |-> fromJson(j.predicate), object |-> fromJson(j.object),
                             graph |-> <<fromJson(OrDefault(j.graph, DefaultGraph))>>]
      [] OTHER -> j

RECURSIVE term_to_json(_)
term_to_json(t) ==
    CASE t.type = "Literal" -> JsLit(t.value, <<t.datatype>>, <<OrDefault(t.language, NoText)>>, t.direction)
      [] t.type = "Quad" -> [type |-> "Quad", subject |-> term_to_json(t.subject), predicate |-> term_to_json(t.predicate),
                             object |-> term_to_json(t.object), graph |-> <<DefaultGraph>>]
      [] OTHER -> t
RECURSIVE json_to_term(_)
json_to_literal(j) ==
    LET lang == OrDefault(j.language, NoText)
        dir == OrDefault(j.direction, NoDirection)
    IN  IF lang = NoText THEN Typed(j.value, OrDefault(j.datatype, XsdString))
        ELSE IF dir = NoDirection THEN Lit(j.value, LangString, <<lang>>, <<>>) ELSE Lit(j.value, DirLangString, <<lang>>, <<dir>>)
json_to_term(j) ==
    CASE j.type \in {"NamedNode", "BlankNode"} -> <<j>>
      [] j.type = "Literal" -> <<json_to_literal(j)>>
      [] j.type = "Quad" ->
            LET s == json_to_term(j.subject)
                p == json_to_term(j.predicate)
                o == json_to_term(j.object)
            IN  IF <<>> \in {s, p, o} THEN <<>> ELSE make_triple(s[1], p[1], o[1])
      [] OTHER -> <<>>
json_to_graph(g) ==
    IF g = <<>> \/ g[1] = DefaultGraph THEN <<DefaultGraph>>
    ELSE LET t == json_to_term(g[1]) IN IF t # <<>> /\ t[1].type \in {"NamedNode", "BlankNode"} THEN t ELSE <<>>
\* A quad is a triple that is not one term, and the graph it is in.
json_to_quad(j) ==
    LET t == json_to_term([j EXCEPT !.graph = <<>>])
        g == json_to_graph(j.graph)
    IN  IF t = <<>> \/ g = <<>> THEN <<>> ELSE <<[triple |-> t[1], graph |-> g[1]]>>
quad_to_json(q) == [term_to_json(q.triple) EXCEPT !.graph = <<q.graph>>]

EncodingInit ==
    \/ \E t \in RdfTerms : \E u \in RdfTerms : input = [of |-> "terms", t |-> t, u |-> u]
    \/ \E s \in JsTerms, p \in {Iri(<<21>>), Blank(<<21>>)} : \E o \in JsTerms, g \in {<<>>} \cup {<<x>> : x \in JsTerms \cup {DefaultGraph}} :
          input = [of |-> "quad", j |-> [type |-> "Quad", subject |-> s, predicate |-> p, object |-> o, graph |-> g]]

-----------------------------------------------------------------------------
(* Laws.                                                                   *)

Nested(t) == TripleTerm(Iri(<<20>>), Iri(<<21>>), t)
\* A term, written and read back.
Stored(t) == decode(term_id(t), rows_of(t))

\* Whatever is written with the rows of a term is read back as the term, and
\* no other term has its id: canonical integers at both ends of the inline
\* range and just outside, numerals with signs and zeros, keys of several
\* parts, nested triples (encode_literal, EncodedRows, decode_row).
IdsAreTheirTerms ==
    Is("terms") => /\ \A t \in {input.t, Nested(input.t)} : Stored(t) = <<t>>
                   /\ term_id(input.t) = term_id(input.u) => input.t = input.u

\* Inline integers sort by value within the range of their tag, so that
\* range filters on them are scans of ids (integer_id).
InlineIdsSort ==
    Is("terms") => LET a == term_id(input.t)
                       b == term_id(input.u)
                   IN  a.tag = Tag.Integer =>
                           /\ IdNumber(make(Tag.Integer, 0)) <= IdNumber(a) /\ IdNumber(a) < IdNumber(make(Tag.Boolean, 0))
                           /\ b.tag = Tag.Integer => (IdNumber(a) < IdNumber(b) <=> Tenths(input.t.value) < Tenths(input.u.value))

IsNumber(t) == t.type = "Literal" /\ numeric_rank(t.datatype) # <<>> /\ parse_xsd_float(t.value) # <<>>
IsTruth(t) == t.type = "Literal" /\ t.datatype = XsdBoolean /\ boolean_value(t.value) # <<>>
IsTime(t) == t.type = "Literal" /\ t.datatype \in {XsdDateTime, XsdDate} /\ t.value.form = "stamp"
\* SPARQL's =, false where it is an error.
SameValue(a, b) ==
    CASE IsNumber(a) /\ IsNumber(b) -> parse_xsd_float(a.value) = parse_xsd_float(b.value)
      [] IsTruth(a) /\ IsTruth(b) -> boolean_value(a.value) = boolean_value(b.value)
      [] IsTime(a) /\ IsTime(b) -> /\ a.datatype = b.datatype /\ (a.value.zone = <<>>) = (b.value.zone = <<>>)
                                   /\ timestamp(a.value, a.datatype) = timestamp(b.value, b.datatype)
      [] OTHER -> a = b
Short(t) == IsNumber(t) => LET n == parse_xsd_float(t.value)[1] IN n < 10 * WholeLimit /\ -n < 10 * WholeLimit
\* Triple terms have one value key exactly if their components have equal
\* values, up to the whole numbers that are printed as floats (value_key).
ValueKeysAreValues ==
    Is("terms") => (Short(input.t) /\ Short(input.u) =>
                        (value_key(Nested(input.t)) = value_key(Nested(input.u)) <=> SameValue(input.t, input.u)))

\* a < b as texts.
TextLess(a, b) ==
    \/ Len(a) < Len(b) /\ SubSeq(b, 1, Len(a)) = a
    \/ \E i \in DOMAIN a \cap DOMAIN b : a[i] < b[i] /\ \A j \in 1 .. i - 1 : a[j] = b[j]
Kind(t) == CASE t.type = "BlankNode" -> 0 [] t.type = "NamedNode" -> 1 [] IsNumber(t) -> 2 [] t.type = "Literal" -> 3 [] OTHER -> 4
RECURSIVE Before(_, _)
\* The order of ORDER BY.
Before(a, b) ==
    \/ Kind(a) < Kind(b)
    \/ Kind(a) = Kind(b) /\ CASE Kind(a) \in {0, 1} -> TextLess(a.value, b.value)
                              [] Kind(a) = 2 -> parse_xsd_float(a.value)[1] < parse_xsd_float(b.value)[1]
                              [] Kind(a) = 3 -> \/ TextLess(TextOf(a.value), TextOf(b.value))
                                                \/ TextOf(a.value) = TextOf(b.value) /\ TextLess(a.datatype, b.datatype)
                              [] OTHER -> \/ Before(a.subject, b.subject)
                                          \/ a.subject = b.subject /\ Before(a.predicate, b.predicate)
                                          \/ a.subject = b.subject /\ a.predicate = b.predicate /\ Before(a.object, b.object)
\* No character of a literal comes before the separators.
Printable(t) == t.type = "Literal" => \A i \in DOMAIN TextOf(t.value) : TextOf(t.value)[i] > 2
InOrder(keys, a, b) == TextLess(keys[a], keys[b]) <=> Before(a, b)
\* The texts of sort keys are in the order of the terms, also where one
\* component is a prefix of another and below zero (sort_key).
SortKeysSort == Is("terms") /\ Printable(input.t) /\ Printable(input.u) => InOrder([t \in {input.t, input.u} |-> sort_key(t)], input.t, input.u)

Crosses(q, ok, j) ==
    /\ q # <<>> <=> ok
    /\ ok => termEquals(fromJson(quad_to_json([triple |-> Stored(q[1].triple)[1], graph |-> decode(graph_id(q[1].graph), rows_of(q[1].graph))[1]])), j)
\* A term that crosses into the core and back, stored on the way, is the
\* term that JavaScript gave, and quads with other subjects, predicates or
\* graphs than RDF's are refused (toJson, json_to_quad, quad_to_json, fromJson).
JavaScriptKeepsTerms ==
    Is("quad") =>
        LET ok == /\ input.j.subject.type \in {"NamedNode", "BlankNode"} /\ input.j.predicate.type = "NamedNode"
                  /\ input.j.object.type # "Variable" /\ OrDefault(input.j.graph, DefaultGraph).type \in {"NamedNode", "BlankNode", "DefaultGraph"}
        IN  Crosses(json_to_quad(toJson(input.j)), ok, input.j)
=============================================================================
