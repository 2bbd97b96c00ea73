---------------------------- MODULE MCAlgorithms ----------------------------
EXTENDS CypherLaws, CypherMatch, DocumentText, TermEncoding, MCDatalog, CypherProjection, StudioProject

\* Gap skips seconds of 2001-02-28, Overlap repeats some.
MCZoneRules == [Gap     |-> [at |-> 11381 * 8 + 3, before |-> 0, after |-> 2],
                Overlap |-> [at |-> 11381 * 8 + 3, before |-> 2, after |-> 0]]

\* Around 0000-03-01, 1600-03-01, 1900-03-01, 2000-03-01 and 2100-03-01.
MCDays == UNION {(c - 380) .. (c + 380) : c \in {-719468, -135081, -25509, 11017, 47541}}

\* The turns of 1999, 2000, 2004 and 2020, and a leap day.
MCBaseDays == UNION {(c - 8) .. (c + 8) : c \in {10957, 11322, 12783, 18627, 11016}}

Some(ks, vs) == [ks -> vs]
MCOverrides ==
    UNION {Some(ks, {1, 2, 4, 30, 31}) : ks \in {{"month"}, {"day"}, {"month", "day"}, {"week"}, {"dayofweek"},
                                             {"week", "dayofweek"}, {"quarter"}, {"dayofquarter"}}}
    \cup Some({"week"}, {52, 53}) \cup Some({"ordinalday"}, {1, 60, 365, 366})
    \cup {[year |-> y, week |-> w] : y \in {2000, 2004}, w \in {1, 53}}
    \cup {[year |-> y, month |-> m] : y \in {2000, 2001}, m \in {2, 3}}
    \cup {[year |-> y, dayofweek |-> 3] : y \in {2001, 2004}}
    \cup {[year |-> y] : y \in {2001, 2004}}

MCTimeOverrides ==
    UNION {Some(ks, {0, 1, 3}) : ks \in {{"hour"}, {"minute"}, {"second"}, {"minute", "second"}, {"millisecond"},
                                         {"microsecond"}, {"nanosecond"}, {"millisecond", "nanosecond"},
                                         {"millisecond", "microsecond"}, {"microsecond", "nanosecond"}}}

\* 2000-02-28 .. 03-01, 2001-01-29 .. 02-01, 2001-02-26 .. 03-02, 2001-03-28 .. 04-01.
SpanDays == (11015 .. 11017) \cup (11351 .. 11354) \cup (11379 .. 11383) \cup (11409 .. 11413)
MCZones == {[zone |-> "offset", offset |-> 0], [zone |-> "offset", offset |-> -3],
            [zone |-> "Gap", offset |-> 0], [zone |-> "Overlap", offset |-> 0]}
MCPoints ==
    {Date(d) : d \in SpanDays} \cup {LocalDateTime(d, n) : d \in SpanDays, n \in {0, 29}}
    \cup {zoned(d, n, z.zone, z.offset) : d \in SpanDays, n \in {7, 60}, z \in MCZones}
MCTimePoints == {LocalTime(n) : n \in {0, 29, 63}} \cup {Time(n, o) : n \in {0, 29, 63}, o \in {-3, 0, 2}}

MCDurations == {Dur(m, d, n) : m \in {-13, -1, 0, 1, 3}, d \in {-8, 0, 1, 2}, n \in {-70, -16, -1, 0, 9, 32, 129}}
MCDivisors == {-2, 1, 2, 3, 7, 25}
MCLongDurations == {Dur(m, d, n) : m \in {-25, 0, 7, 25, 4097}, d \in {-9, 0, 5000}, n \in {-8191, 0, 4095, 4096, 4097, 20001}}

MCItems == {Null, Int_(1), Int_(2), Float(2)}
MCValues ==
    {Null, NaN, Bool(FALSE), Bool(TRUE), Str(1), Str(2), Node(1), Node(2)}
    \cup {Int_(i) : i \in {-1, 0, 1, 2, 4, 5, 6, 7}}
    \cup {Float(h) : h \in {-2, 1, 2, 4, 10, 12, 14, 16}}
    \cup {Temporal(Date(0)), Temporal(Date(1)), Temporal(LocalTime(3))}
    \cup {Temporal(DateTime(0, 16, "offset", 0)), Temporal(DateTime(0, 24, "offset", 1)), Temporal(DateTime(0, 24, "Gap", 1))}
    \cup {List(<<>>), List(<<Int_(1)>>), List(<<Float(2)>>), List(<<Null>>), List(<<Int_(1), Int_(2)>>), List(<<Str(1)>>)}
    \cup {Map(<<Int_(1)>>), Map(<<Float(2)>>), Map(<<Int_(1), Null>>)}

\* Plain, reified, parallel, looping and opposite relationships.
RelT(a, b) == <<a, "T", b>>
MCMatchGraphs ==
    {{}, {Label(1, "A"), Prop(2, <<"k", 1>>)},
     {Edge(RelT(1, 2)), Edge(<<1, "U", 2>>), Edge(RelT(2, 1)), Label(1, "A")},
     {Edge(RelT(1, 1)), Edge(RelT(1, 2)), Reifies(5, RelT(1, 2)), Prop(5, <<"k", 1>>)},
     {Edge(RelT(1, 2)), Reifies(5, RelT(1, 2)), Reifies(6, RelT(1, 2)), Prop(6, <<"k", 1>>), Label(2, "A")},
     {Edge(RelT(1, 2)), Edge(RelT(2, 3)), Edge(RelT(3, 1)), Label(3, "A"), Prop(3, <<"k", 1>>)}}

AnyN(n) == [var |-> n, labels |-> {}, props |-> {}]
Rel(dir, min, max, named) == [types |-> {"T"}, dir |-> dir, min |-> min, max |-> max, named |-> named, props |-> {}]
Hop1(s, r, e) == [start |-> s, chain |-> <<[rel |-> r, end |-> e]>>]
MCRels ==
    {Rel(dir, b[1], b[2], named) : dir \in {"right", "left", "both"}, named \in BOOLEAN,
        b \in {<<Single, 1>>, <<0, 1>>, <<1, 2>>, <<2, 1>>, <<1, Unbounded>>, <<0, Unbounded>>}}
    \cup {[Rel("both", Single, 1, FALSE) EXCEPT !.types = {}], [Rel("right", 1, 2, FALSE) EXCEPT !.props = {<<"k", 1>>}]}
MCPatterns ==
    {Hop1(AnyN(1), r, e) : r \in MCRels, e \in {AnyN(2), AnyN(1), [AnyN(2) EXCEPT !.labels = {"A"}]}}
    \cup {[start |-> [AnyN(1) EXCEPT !.props = {<<"k", 1>>}], chain |-> <<>>], [start |-> AnyN(1), chain |-> <<>>]}
One == Rel("right", Single, 1, FALSE)
MCClauses ==
    {[parts |-> <<p>>, optional |-> o] : p \in MCPatterns, o \in BOOLEAN}
    \cup {[parts |-> <<Hop1(AnyN(1), One, AnyN(2)), Hop1(AnyN(2), [One EXCEPT !.dir = x, !.named = n], AnyN(3))>>, optional |-> FALSE] :
             x \in {"right", "left", "both"}, n \in BOOLEAN}
    \cup {[parts |-> <<[start |-> AnyN(1), chain |-> <<[rel |-> [One EXCEPT !.named = n], end |-> AnyN(2)],
                                                       [rel |-> [One EXCEPT !.dir = "left"], end |-> AnyN(3)]>>]>>, optional |-> FALSE] :
             n \in BOOLEAN}
MCOuterScopes == {<<>>, <<FALSE>>, <<TRUE>>}

\* A cycle of two, a chain, a shortcut, a loop and parallel edges.
MCPathEdges == {RelT(1, 2), RelT(2, 1), RelT(2, 3), RelT(3, 3), RelT(3, 4), <<1, "U", 3>>, <<1, "U", 2>>}
MCPathTypes == {{}, {"T"}}

MCTexts == UNION {[1 .. n -> {"a", "0", "1", "~", "/", "%", " ", ",", Quote, Backslash}] : n \in {0, 1}}
           \cup {<<c, d>> : c \in {"~", "%", Backslash}, d \in {"0", "1", "2", Quote, Backslash}} \cup {<<"%", "2", "0">>, <<"~", "0", "1">>, <<Quote, ",", Quote>>}

\* Integers at both ends of the inline range, numerals of one value, keys that
\* would be joined into one another, dates of one instant, prefixes.
Letter(n) == Word(<<n>>)
Numbers_ == {Numeral(s, 0, w, NoPoint) : s \in {"", "-"}, w \in {1, 7, 8, 9}} \cup {Numeral("", 0, 0, NoPoint), Numeral("-", 0, 0, 5), Numeral("", 0, 7, 5)}
MCTyped ==
    {Typed(x, dt) : x \in Numbers_, dt \in {XsdInteger, XsdDecimal}}
    \cup {Typed(Numeral("+", 1, 1, NoPoint), XsdInt), Typed(Numeral("", 1, 7, NoPoint), XsdInteger), Typed(Numeral("", 0, 1, 0), XsdDouble),
          Typed(InfWord, XsdDouble), Typed(Letter(60), XsdDouble)}
    \cup {Typed(x, XsdBoolean) : x \in {TrueWord, FalseWord, Letter(60), Numeral("", 0, 1, NoPoint), Numeral("", 0, 0, NoPoint)}}
    \cup {Typed(Stamp(1, s, z), XsdDateTime) : s \in {0, 2}, z \in {<<>>, <<0>>, <<2>>}} \cup {Typed(Stamp(1, 0, z), XsdDate) : z \in {<<>>, <<0>>, <<2>>}}
MCStrings ==
    {Typed(Word(x), dt) : x \in {<<>>, <<60>>, <<60, 61>>, <<31, 0>>}, dt \in {XsdString, <<40>>, <<40, 60>>}} \cup {Typed(Letter(61), <<40>>)}
    \cup {Lit(Word(x), LangString, <<l>>, <<>>) : x \in {<<60>>, <<60, 61>>}, l \in {<<70>>, <<70, 60>>}}
    \cup {Lit(Letter(60), DirLangString, <<<<70>>>>, <<d>>) : d \in {1, 2}}
MCNodes == {Iri(x) : x \in {<<20>>, <<20, 60>>}} \cup {Blank(x) : x \in {<<20>>, <<20, 60>>}}
MCRdfTerms ==
    MCNodes \cup MCTyped \cup MCStrings
    \cup {TripleTerm(s, Iri(q), o) : s \in MCNodes, q \in {<<20>>, <<20, 60>>},
              o \in {Typed(Letter(60), XsdString), TripleTerm(Iri(<<20>>), Iri(<<20>>), Blank(<<20>>))}}
JsQuad(s, o, g) == [type |-> "Quad", subject |-> s, predicate |-> Iri(<<21>>), object |-> o, graph |-> g]
MCJsTerms ==
    {Iri(<<20>>), Blank(<<20>>), [type |-> "Variable", value |-> <<20>>], JsLit(Letter(60), <<>>, <<>>, <<>>),
     JsLit(Letter(60), <<XsdString>>, <<>>, <<>>), JsLit(Letter(60), <<LangString>>, <<<<70>>>>, <<>>),
     JsLit(Letter(60), <<DirLangString>>, <<<<70>>>>, <<2>>), JsLit(Numeral("", 0, 7, NoPoint), <<XsdInteger>>, <<<<>>>>, <<0>>),
     JsQuad(Iri(<<20>>), Iri(<<20>>), <<>>), JsQuad(Iri(<<20>>), JsLit(Letter(60), <<LangString>>, <<<<70>>>>, <<>>), <<DefaultGraph>>)}

-----------------------------------------------------------------------------
(* Cypher queries: data, up to one WITH, and a RETURN, over integers,     *)
(* nulls, nodes and lists. Patterns of one or two nodes over names of      *)
(* every kind.                                                             *)
OneX == LitX(Int_(1))
TwoX == LitX(Int_(2))
Ints(ns) == LitX(List([i \in DOMAIN ns |-> IF ns[i] = 0 THEN Null ELSE Int_(ns[i])]))
As(e, name) == ItemX(e, name, TRUE)
Own(n) == ItemX(VarX(n), n, FALSE)
Asc(e) == <<e, TRUE>>
Desc(e) == <<e, FALSE>>
AggOf(fn, n) == AggX(fn, FALSE, VarX(n))
Lists == LitX(List(<<List(<<Int_(1), Int_(2)>>), List(<<>>), Null>>))

QueryData ==
    {<<Unwind(Ints(<<2, 1, 0, 1>>), "x")>>, <<Unwind(Ints(<<>>), "x")>>, <<Unwind(Ints(<<1, 0>>), "x"), Unwind(Ints(<<2, 1, 0>>), "y")>>,
     <<Unwind(OpX("list", <<OneX, OpX("+", <<OneX, OneX>>)>>), "x")>>, <<MatchNode("x")>>, <<CreateNode("x")>>, <<Unwind(Lists, "l"), Unwind(VarX("l"), "x")>>,
     <<Unwind(Ints(<<2, 1>>), "y"), MatchNode("x")>>}

Withs ==
    {Projection(<<Own("x")>>), [Projection(<<>>) EXCEPT !.star = TRUE, !.where = <<OpX("<", <<VarX("x"), TwoX>>)>>],
     [Projection(<<As(VarX("x"), "a")>>) EXCEPT !.where = <<OpX("not", <<OpX("isnull", <<VarX("x")>>)>>)>>],
     [Projection(<<As(VarX("x"), "a")>>) EXCEPT !.distinct = TRUE, !.where = <<OpX("and", <<OpX("not", <<OpX("=", <<VarX("y"), TwoX>>)>>), OpX("not", <<OpX("isnull", <<VarX("a")>>)>>)>>)>>],
     Projection(<<Own("x"), As(CountStar, "a")>>), Projection(<<As(AggOf("count", "x"), "a"), As(AggOf("avg", "x"), "b")>>), Projection(<<As(AggOf("collect", "x"), "l"), As(AggOf("max", "y"), "a")>>),
     [Projection(<<Own("x")>>) EXCEPT !.distinct = TRUE], [Projection(<<Own("x")>>) EXCEPT !.order = <<Desc(VarX("x"))>>, !.limit = <<TwoX>>],
     [Projection(<<As(OpX("+", <<VarX("x"), OneX>>), "a")>>) EXCEPT !.order = <<Asc(VarX("x"))>>, !.skip = <<OneX>>, !.where = <<OpX("in", <<VarX("a"), Ints(<<2, 3>>)>>)>>],
     [Projection(<<Own("x"), As(AggOf("max", "y"), "a")>>) EXCEPT !.where = <<OpX("=", <<VarX("a"), TwoX>>)>>, !.order = <<Desc(AggOf("max", "y")), Asc(VarX("x"))>>],
     Projection(<<As(OpX("list", <<VarX("x"), OneX>>), "l")>>), Projection(<<As(OpX("coalesce", <<VarX("x"), TwoX>>), "x")>>),
     Projection(<<As(OpX("case", <<OpX("=", <<VarX("x"), OneX>>), VarX("y"), VarX("x")>>), "a"), Own("x")>>),
     Projection(<<Own("x"), As(AggOf("min", "y"), "a"), As(AggOf("max", "y"), "b")>>), Projection(<<As(OpX("+", <<AggOf("sum", "x"), TwoX>>), "a")>>),
     \* Refused: no alias, a variable that is gone, a name twice, nested aggregates, counts.
     Projection(<<ItemX(OpX("+", <<VarX("x"), OneX>>), "a", FALSE)>>), Projection(<<As(VarX("z"), "a")>>), Projection(<<Own("x"), As(OneX, "x")>>),
     Projection(<<As(AggX("sum", FALSE, CountStar), "a")>>), Projection(<<As(OpX("+", <<VarX("x"), CountStar>>), "a")>>),
     [Projection(<<As(CountStar, "a")>>) EXCEPT !.where = <<OpX("=", <<VarX("x"), OneX>>)>>], [Projection(<<Own("x")>>) EXCEPT !.limit = <<VarX("x")>>]}

ReturnsOf(n) ==
    LET item == VarX(n)
    IN  {Projection(<<Own(n)>>), Projection(<<Own(n), As(CountStar, "k")>>),
         [Projection(<<As(item, "k")>>) EXCEPT !.order = <<Asc(VarX("k"))>>], [Projection(<<Own(n)>>) EXCEPT !.order = <<Desc(item)>>, !.limit = <<OneX>>],
         [Projection(<<As(OpX("+", <<item, OneX>>), "k")>>) EXCEPT !.order = <<Desc(OpX("+", <<item, OneX>>))>>, !.skip = <<OneX>>],
         [Projection(<<Own(n)>>) EXCEPT !.distinct = TRUE, !.order = <<Asc(item)>>],
         Projection(<<As(OpX("isnull", <<item>>), "k"), As(OpX("/", <<item, TwoX>>), "b")>>),
         [Projection(<<Own(n), As(AggOf("count", n), "k")>>) EXCEPT !.order = <<Desc(VarX("k")), Asc(item)>>],
         Projection(<<As(AggX("count", TRUE, item), "k"), As(AggOf("sum", n), "b")>>), Projection(<<As(OpX("/", <<AggOf("sum", n), OpX("+", <<AggOf("count", n), OneX>>)>>), "k")>>),
         Projection(<<As(AggOf("avg", n), "k"), As(AggOf("min", n), "b")>>), Projection(<<As(AggOf("max", n), "k"), As(AggOf("collect", n), "b")>>),
         [Projection(<<As(OpX("isnull", <<item>>), "k"), As(AggX("sum", TRUE, item), "b")>>) EXCEPT !.order = <<Asc(VarX("b")), Asc(VarX("k"))>>, !.limit = <<TwoX>>],
         Projection(<<As(CompX("i", item, OpX("<", <<VarX("i"), TwoX>>)), "k")>>), [Projection(<<As(OneX, "k")>>) EXCEPT !.star = TRUE],
         [Projection(<<As(OpX("case", <<OpX("isnull", <<item>>), OneX>>), "k")>>) EXCEPT !.order = <<Asc(OpX("case", <<OpX("isnull", <<item>>), OneX>>)), Asc(item)>>]}
Names_ == {"x", "a", "l"}

MCCypherQueries ==
    {d \o <<Return(r)>> : d \in QueryData, r \in ReturnsOf("x")}
    \cup {d \o <<With(w), Return(r)>> : d \in QueryData, w \in Withs, r \in UNION {ReturnsOf(n) : n \in Names_}}
    \cup {<<Unwind(Ints(<<1>>), "y"), With(Projection(<<Own("y")>>)), MatchNode("x"), With(w), MatchNode("x"), Return(Projection(<<Own("x")>>))>> : w \in Withs}
MCNameOrder == <<"a", "b", "i", "k", "l", "n", "x", "y", "z">>

Vars_ == {<<>>, <<"a">>, <<"b">>}
Rels_ == {[var |-> name, types |-> k[1], long |-> k[2], directed |-> k[3]] : name \in Vars_, k \in {<<1, FALSE, TRUE>>, <<1, FALSE, FALSE>>, <<1, TRUE, TRUE>>, <<2, FALSE, TRUE>>}}
NodesP == {[var |-> name, described |-> d] : name \in Vars_, d \in BOOLEAN}
Patterns_ ==
    {[var |-> p, nodes |-> <<n>>, rels |-> <<>>] : p \in {<<>>, <<"b">>}, n \in NodesP}
    \cup {[var |-> p, nodes |-> <<n, [var |-> name, described |-> FALSE]>>, rels |-> <<r>>] : p \in {<<>>, <<"b">>}, n \in NodesP, name \in Vars_, r \in Rels_}
MCPatternClauses ==
    {[p |-> p, before |-> s, mode |-> m] : p \in Patterns_, s \in {<<>>} \cup {"a" :> k : k \in {"node", "rel", "rels", "path", "any"}}, m \in {"match", "create", "merge"}}

-----------------------------------------------------------------------------
(* Projects of three files, before and after an edit.                      *)
MCPaths == <<"a", "b", "c">>
MCOwlConclusions == (1 :> 21) @@ (12 :> 22) @@ (21 :> 23)

Text(as, triples) == File(as, TRUE, triples, NoRule)
Program_(from, to, runs) == File("Rules", TRUE, {}, [from |-> from, to |-> to, runs |-> runs])
Contents ==
    {Absent, Text("Data", {1}), Text("Data", {1, 2}), File("Data", FALSE, {}, NoRule), Text("Ontology", {3}), Text("Shapes", {4}), Text("Other", {}),
     Text("Shex", {}), Program_(1, 11, TRUE), Program_(2, 12, TRUE), Program_(2, 12, FALSE), Text("ShapeMap", {})}
Started ==
    {[a |-> Text("Data", {1}), b |-> Text("Data", {2}), c |-> Program_(2, 12, TRUE)],
     [a |-> Text("Shapes", {4}), b |-> Text("Data", {1, 2}), c |-> Text("Ontology", {3})],
     [a |-> Program_(1, 11, TRUE), b |-> Program_(2, 12, FALSE), c |-> Text("Data", {1, 2})]}
Graph(files, iri, role, applies) == [files |-> files, iri |-> iri, role |-> role, applies |-> applies]
Layouts ==
    {convention, Broken, Manifest({}, {"c"}, {}, {}, <<Graph({"a", "b"}, "g", "Data", {})>>, Owl),
     Manifest({"a"}, {}, {"c"}, {}, <<Graph({"b"}, "g", "Ontology", {"h"}), Graph({"b", "c"}, "h", "Data", {})>>, ""),
     Manifest({}, {}, {}, {"b"}, <<Graph({"a", "c"}, "g", "Ontology", {})>>, "rdfs")}
Disk(files, manifest) == [files |-> files, manifest |-> manifest]
SomeContents == {Absent, Text("Data", {1}), File("Data", FALSE, {}, NoRule), Program_(2, 12, TRUE), Program_(2, 12, FALSE)}
\* Rules that read each other's conclusions and OWL's, or conclude the same.
RuleFiles == {Absent, Text("Data", {1})} \cup {Program_(t[1], t[2], TRUE) : t \in {<<1, 11>>, <<2, 12>>, <<2, 11>>, <<11, 13>>, <<21, 14>>, <<22, 11>>, <<2, 21>>}}
RuleWorkspaces ==
    {[before |-> Disk([a |-> x, b |-> y, c |-> Text("Data", {1, 2})], convention),
      after  |-> Disk([[a |-> x, b |-> y, c |-> Text("Data", {1, 2})] EXCEPT ![path] = f], convention)] :
        x \in RuleFiles, y \in RuleFiles, path \in {"a", "b", "c"}, f \in RuleFiles \cup {Text("Data", {2})}}
MCWorkspaces ==
    RuleWorkspaces \cup
    {[before |-> Disk(s, l), after |-> Disk([s EXCEPT !["a"] = f1, ![y] = f2], l)] :
        s \in Started, l \in Layouts, y \in {"b", "c"}, f1 \in Contents, f2 \in SomeContents}
    \cup {[before |-> Disk(s, l), after |-> Disk([s EXCEPT !["a"] = f1], k)] : s \in Started, l \in Layouts, k \in Layouts, f1 \in SomeContents}

-----------------------------------------------------------------------------
\* Cypher's values are those of the language: dates, times and durations,
\* equality, order and grouping, aggregates and lists, and the trails,
\* reachable ends and shortest paths that patterns match (temporal.rs,
\* value.rs, eval.rs, lower.rs, exec.rs).
CypherValuesAreRight ==
    /\ DaysFollowTheCalendar /\ DaysAreTheirWeekDates /\ OverridesReadBack /\ ProjectionsKeepComponents
    /\ TruncationFloors /\ SpansReachTheirEnd /\ ForwardSpansAdvance /\ DurationArithmetic
    /\ MostRenderedDurationsParse /\ ZoneChangesKeepTheInstant
    /\ NullsAreUnknown /\ OrderIsTotal /\ EqualValuesShareAKey /\ ExtremesAreExtreme /\ SlicesPartition
    /\ DivisionIsExact /\ PercentilesAreValues /\ RangesAreProgressions
    /\ MatchesAreTrails /\ ReachabilityFindsTheEnds /\ ShortestPathsAreShortest

\* What is encoded can be told apart, sorted and read back: term ids, value
\* and sort keys, terms of JavaScript, and the chunks, types, keys and pages
\* of documents (encoding.rs, terms.rs, jobs.rs).
EncodingsAreFaithful ==
    /\ IdsAreTheirTerms /\ InlineIdsSort /\ ValueKeysAreValues /\ SortKeysSort /\ JavaScriptKeepsTerms
    /\ ChunksAreTheDocument /\ TypesAreFound /\ KeysStayApart /\ PagesVisitEveryKey


Spec == (CypherInit \/ MatchInit \/ PathInit \/ TextInit \/ EncodingInit \/ DatalogInit \/ HostInit \/ ProjectionInit \/ ProjectInit) /\ [][Evaluate]_input
=============================================================================
