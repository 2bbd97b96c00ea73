------------------------------ MODULE MCSparql ------------------------------
EXTENDS SparqlQueries, SparqlFunctions

G(n) == Iri(20 + n)
p_ == Const(Iri(11))
q_ == Const(Iri(12))
I(n) == Const(Iri(n))
Bgp(tps) == [op |-> "bgp", tps |-> tps]
Join_(a, b) == [op |-> "join", left |-> a, right |-> b]
Union_(a, b) == [op |-> "union", left |-> a, right |-> b]
Minus_(a, b) == [op |-> "minus", left |-> a, right |-> b]
True_ == [op |-> "const", t |-> Bool(1)]
Optional_(a, b, e) == [op |-> "leftjoin", left |-> a, right |-> b, e |-> e]
Filter_(a, e) == [op |-> "filter", left |-> a, e |-> e]
Extend_(a, v, e) == [op |-> "extend", left |-> a, v |-> v, e |-> e]
Values_(vars, rows) == [op |-> "values", vars |-> vars, rows |-> rows]
Graph_(g, a) == [op |-> "graph", g |-> g, left |-> a]
Path_(s, p, o) == [op |-> "path", s |-> s, path |-> p, o |-> o]
Project_(a, vars) == [op |-> "project", left |-> a, vars |-> vars]
Distinct_(a) == [op |-> "distinct", left |-> a]
OrderBy_(a, e, desc) == [op |-> "orderby", left |-> a, e |-> e, desc |-> desc]
Slice_(a, n, m) == [op |-> "slice", left |-> a, start |-> n, length |-> m]
Group_(a, vars, aggs) == [op |-> "group", left |-> a, vars |-> vars, aggs |-> aggs]
Agg(v, fn, x, d) == [v |-> v, fn |-> fn, x |-> x, distinct |-> d]

E_(v) == [op |-> "var", v |-> v]
C_(t) == [op |-> "const", t |-> t]
Op(op, a, b) == [op |-> op, a |-> a, b |-> b]
Not_(a) == [op |-> "not", a |-> a]
Exists_(p) == [op |-> "exists", p |-> p]

Link(n) == [op |-> "link", t |-> Iri(n), depth |-> 0]
Of(op, a) == [op |-> op, a |-> a, depth |-> 0]
Seq_(a, b, d) == [op |-> "seq", a |-> a, b |-> b, depth |-> d]
Alt(a, b) == [op |-> "alt", a |-> a, b |-> b, depth |-> 0]

None == Bgp(<<>>)
P12 == Bgp(<<<<Var(1), p_, Var(2)>>>>)
Q23 == Bgp(<<<<Var(2), q_, Var(3)>>>>)
Q13 == Bgp(<<<<Var(1), q_, Var(3)>>>>)
P32 == Bgp(<<<<Var(3), p_, Var(2)>>>>)
PQ == Bgp(<<<<Var(1), p_, Var(2)>>, <<Var(2), q_, Var(3)>>>>)
V1 == Values_({1}, <<1 :> Iri(1), 1 :> Iri(3)>>)
V12 == Values_({1, 2}, <<1 :> Iri(1), (1 :> Iri(2)) @@ (2 :> Int_(1)), 2 :> Iri(2)>>)
Bases == {None, P12, Q23, Q13, P32, PQ, V12}

Binary(a, b) == {Join_(a, b), Union_(a, b), Minus_(a, b), Optional_(a, b, True_)}
Exprs == {Op("=", E_(2), C_(Iri(2))), Op("<", E_(2), C_(Int_(2))), Not_([op |-> "bound", v |-> 3]), Op("=", E_(1), E_(3)),
          Exists_(Q23), Not_(Exists_(P32)), Exists_(Optional_(Q13, P32, True_)), Exists_(Minus_(Q23, P32)), Not_(Exists_(Filter_(Q23, Op("same", E_(3), E_(1))))),
          Op("or", Op("=", E_(3), C_(Iri(1))), Op("<=", E_(2), C_(Dec(1, 0)))), Op("and", [op |-> "bound", v |-> 2], Exists_(Q13)),
          [op |-> "in", a |-> E_(3), list |-> <<Iri(1), Int_(1)>>],
          [op |-> "if", a |-> [op |-> "bound", v |-> 3], b |-> Op("same", E_(1), E_(3)), c |-> Op(">", E_(2), C_(Int_(0)))]}
Unary(a) == {Filter_(a, e) : e \in Exprs} \cup {Extend_(a, 5, E_(3)), Extend_(a, 5, Op("+", E_(2), C_(Int_(1)))), Extend_(a, 5, C_(Iri(1))), Extend_(a, 5, Op("coalesce", E_(3), E_(2)))}

Level1 == UNION {Binary(a, b) : a \in Bases, b \in Bases} \cup UNION {Unary(a) : a \in Bases}
Binaries == UNION {Binary(a, b) : a \in {P12, Q13, V12}, b \in {Q23, P32, Q13, None}}
Level2 == UNION {Binary(a, b) : a \in Binaries, b \in {P32, Q13, V12}} \cup UNION {Binary(b, a) : a \in Binaries, b \in {P12, Q23, V12}}
          \cup UNION {Unary(a) : a \in Binaries}

\* Property paths, alone and after a pattern that binds an end.
Paths == {Link(11), Of("inv", Link(12)), Seq_(Link(11), Link(12), 1), Alt(Link(11), Of("inv", Link(11))), [op |-> "neg", t |-> Iri(11), depth |-> 0]}
Steps == {Link(11), Seq_(Link(11), Link(12), 2), Alt(Link(11), Link(12))}
Closures == {Of(op, a) : op \in {"star", "plus", "opt"}, a \in Steps} \cup {Of("star", Of("opt", Link(12))), Seq_(Of("star", Link(11)), Of("plus", Link(12)), 3)}
PathQueries ==
    {Path_(s, x, o) : s \in {Var(1), I(1)}, x \in Paths \cup Closures, o \in {Var(2), Var(1), I(2)}}
    \cup {Join_(a, Path_(s, x, o)) : a \in {P12, Q13, V12, Optional_(Q13, P12, True_)}, x \in Closures, s \in {Var(1), Var(2)}, o \in {Var(3)}}
    \cup {Join_(Q13, Path_(Var(2), x, Var(3))) : x \in Closures}
    \cup {Filter_(P12, Exists_(Path_(Var(2), x, Var(3)))) : x \in Closures}

\* GRAPH with a constant, a variable, and patterns that read no quad.
GraphBodies == {None, P12, PQ, V12, Optional_(P12, Q23, True_), Union_(P12, Q23), Minus_(P12, Q23), Filter_(P12, Exists_(Q23)), Filter_(P12, Not_(Exists_(Q23))),
                Project_(PQ, {1}), Project_(Bgp(<<<<Var(1), p_, Var(2)>>, <<Var(2), q_, Var(4)>>>>), {1, 2})}
               \cup {Path_(Var(1), x, Var(2)) : x \in Closures}
GraphBlocks == {Graph_(g, a) : g \in {Var(4), I(21), I(23), I(29)}, a \in GraphBodies}
GraphQueries ==
    GraphBlocks \cup UNION {Binary(a, b) : a \in {P12, V12}, b \in {Graph_(g, x) : g \in {Var(4), Var(2), I(21)}, x \in {None, P12, Q23, Optional_(P12, Q23, True_)}}}
    \cup {Filter_(P12, Exists_(Graph_(g, a))) : g \in {Var(4), I(21)}, a \in {P12, Q23, None}}
    \cup {Graph_(Var(4), Join_(a, b)) : a \in {P12, None}, b \in {V1, Q13, Graph_(Var(6), Q23), Graph_(I(22), Q23)}}

\* Subqueries and solution modifiers.
Sources == {P12, PQ, Optional_(P12, Q23, True_), Union_(P12, Q23), V12, Extend_(P12, 5, Op("+", E_(2), C_(Int_(1)))), Optional_(Q13, Extend_(P12, 5, C_(Int_(1))), True_)}
Modified(a) ==
    {Distinct_(Project_(a, vs)) : vs \in {{1}, {2, 5}}} \cup {Project_(Distinct_(Project_(a, {1, 2})), {2})}
    \cup {Project_(OrderBy_(a, E_(v), d), {1, v}) : v \in {2, 5}, d \in BOOLEAN}
    \cup {Distinct_(Project_(OrderBy_(a, E_(2), d), {2})) : d \in BOOLEAN}
    \cup {Slice_(Distinct_(Project_(OrderBy_(a, E_(2), d), {2})), n, 1) : d \in BOOLEAN, n \in {0, 1}}
    \cup {OrderBy_(Slice_(Distinct_(Project_(OrderBy_(a, E_(2), FALSE), {2})), 0, 2), E_(2), TRUE)}
    \cup {Group_(a, vs, <<Agg(6, "count*", 0, FALSE), Agg(7, fn, 2, d)>>) : vs \in {{}, {1}}, fn \in {"count"}, d \in BOOLEAN}
    \cup {Group_(a, vs, <<Agg(7, fn, 2, FALSE)>>) : vs \in {{}, {1}}, fn \in {"sum"}}
    \cup {Filter_(Group_(a, {1}, <<Agg(6, "count*", 0, FALSE)>>), Op("<", E_(6), C_(Int_(2)))),
          Project_(OrderBy_(Group_(a, {2}, <<Agg(6, "count", 1, TRUE)>>), E_(6), TRUE), {2, 6}),
          Group_(Distinct_(Project_(a, {2})), {}, <<Agg(6, "count", 2, FALSE)>>)}
R12 == Bgp(<<<<Var(1), Const(Iri(13)), Var(2)>>>>)
VN == Values_({1, 2}, <<(1 :> Iri(1)) @@ (2 :> Int_(1)), (1 :> Iri(1)) @@ (2 :> Dec(2, 1)), 1 :> Iri(2), (1 :> Iri(3)) @@ (2 :> Int_(3))>>)
Extremes == {Group_(a, vs, <<Agg(6, fn, x, FALSE), Agg(7, "sum", x, FALSE)>>) :
                a \in {Extend_(b, 5, Op("+", E_(2), C_(Int_(1)))) : b \in {R12, VN, Optional_(Q13, R12, True_), Filter_(R12, Op("<", E_(2), C_(Int_(0))))}},
                vs \in {{}, {1}}, fn \in {"min", "max"}, x \in {2, 5}}
Modifiers == UNION {Modified(a) : a \in Sources} \cup Extremes
ModifierQueries ==
    Modifiers
    \cup UNION {Binary(b, a) : b \in {P12, Q13}, a \in {Project_(PQ, {1}), Distinct_(Project_(Union_(P12, Q23), {2})), Group_(P12, {2}, <<Agg(6, "count*", 0, FALSE)>>),
                                                     Slice_(Project_(OrderBy_(P12, E_(1), TRUE), {1}), 0, 1)}}
    \cup {Filter_(P12, Exists_(a)) : a \in {Project_(PQ, {1}), Distinct_(Project_(Q23, {3})), Project_(Q23, {2})}}

\* Operators inside GRAPH, with sides that read the graph and sides that do not.
Q56 == Bgp(<<<<Var(5), q_, Var(6)>>>>)
V7 == Values_({7}, <<7 :> Iri(1)>>)
V4 == Values_({4}, <<4 :> G(1)>>)
Subqueries(a) ==
    {Project_(Group_(a, vs, <<Agg(6, fn, 2, fn = "count")>>), vs \cup {6}) : vs \in {{}, {1}, {4}}, fn \in {"count*", "count"}}
    \cup {Distinct_(Project_(a, vs)) : vs \in {{1}, {1, 4}}} \cup {Slice_(Project_(OrderBy_(a, E_(2), FALSE), vs), 0, 1) : vs \in {{2}, {1, 2}}}
Nestings ==
    UNION {Subqueries(a) : a \in {P12, Union_(P12, Q23), V12}}
    \cup UNION {Binary(a, b) : a \in {P12, V1, V12, None}, b \in {P12, Q56, V12, Q23, None, V7, V4}}
    \cup {Join_(P12, Union_(Q23, V1)), Join_(Q23, Project_(Group_(P12, {2}, <<Agg(6, "count*", 0, FALSE)>>), {2, 6})), Graph_(Var(6), Minus_(P12, Q56)),
          Minus_(Optional_(P12, Q23, True_), Bgp(<<<<Var(3), q_, Var(7)>>>>)), Minus_(Q23, Union_(P12, Q56)), Minus_(P12, Project_(Q23, {2})), Minus_(P12, Project_(Q23, {3})),
          Optional_(P12, Project_(Q23, {2}), True_), Union_(Project_(P12, {1}), Q23), Extend_(P12, 5, E_(4)), Filter_(P12, [op |-> "bound", v |-> 4])}
    \cup {Filter_(a, Exists_(b)) : a \in {P12, V12, Union_(P12, V12)}, b \in {Q23, Q56, V1, Minus_(Q23, Q56), Union_(Q23, V12), Bgp(<<<<Var(2), q_, Var(4)>>>>)}}
NestingQueries == {Graph_(g, a) : g \in {Var(4), I(21)}, a \in Nestings} \cup {Join_(P12, Graph_(g, a)) : g \in {Var(4), Var(1)}, a \in Nestings}
                  \cup {Filter_(P12, Exists_(Graph_(Var(4), a))) : a \in {Minus_(P12, Q23), Union_(P12, Q23), Project_(PQ, {1}), Optional_(P12, Q23, True_)}}

\* Queries that the host evaluates in part.
HostFilter(a) == Filter_(a, [op |-> "in", a |-> E_(2), list |-> <<Iri(2), Int_(1)>>])
PartialQueries ==
    {Graph_(g, HostFilter(a)) : g \in {Var(4), I(21)}, a \in {P12, Optional_(P12, Q23, True_), Minus_(P12, Q23), Graph_(I(22), P12)}}
    \cup UNION {Binary(HostFilter(a), b) : a \in {P12, V12}, b \in {Q23, Optional_(Q13, P32, True_), Graph_(Var(4), P12), Path_(Var(2), Of("star", Link(12)), Var(3))}}
    \cup {Distinct_(Project_(Union_(HostFilter(P12), Q23), {2})), Group_(HostFilter(Union_(P12, Q23)), {1}, <<Agg(6, "count", 2, TRUE)>>)}
MCHostOnly == {"in", "if", "coalesce"}

MCQueries == PartialQueries \cup Bases \cup Level1 \cup Level2 \cup PathQueries \cup GraphQueries \cup NestingQueries \cup ModifierQueries
Zero == DefaultGraph
Q1 == {<<Iri(1), Iri(13), Int_(1), Zero>>, <<Iri(1), Iri(13), Dec(2, 1), Zero>>, <<Iri(2), Iri(13), Int_(3), Zero>>, <<Iri(1), Iri(11), Iri(2), Zero>>, <<Iri(2), Iri(12), Iri(3), Zero>>, <<Iri(3), Iri(11), Iri(2), Zero>>,
       <<Iri(1), Iri(12), Iri(1), Zero>>, <<Iri(2), Iri(11), Int_(1), G(1)>>, <<Iri(1), Iri(11), Iri(2), G(1)>>, <<Iri(2), Iri(12), Iri(1), G(2)>>,
       <<Iri(2), Iri(12), Iri(1), G(1)>>, <<Iri(3), Iri(11), Iri(2), G(2)>>}
Data(named, default, list) == [quads |-> Q1, graphs |-> {G(1), G(2), G(3)}, named |-> named, default |-> default, list |-> list]
MCDatasets == {Data(Null, "zero", {}), Data(Null, "union", {}), Data(Null, "list", {}), Data({G(1), G(2), G(3)}, "list", {G(1), G(2)})}
MCTerms == {Null, Iri(1), Iri(2), Bnode(1), Str(0), Str(1), T("lang", 1, 1), T("lang", 1, 2), T("lang", 2, 1), Int_(0), Int_(1), Dec(1, 0), Dec(1, 1), Dec(2, 0),
            Bool(0), Bool(1), T("date", 1, 0), T("date", 2, 1), T("date", 4, 0), T("date", 3, 1), T("odd", 1, 0), T("odd", 1, 1)}

Texts(chars, n) == UNION {[1 .. k -> chars] : k \in 0 .. n}
MCStrings == Texts({"a", "."}, 3)
MCLexicals == Texts(LexicalChars, 5)
MCPatterns == Texts(RegexChars, 4)

\* A query evaluated by SQL, as a whole or in part, has the solutions of the
\* algebra, in its order (Compiler::pattern, order_keys, Rewriter::rewrite).
AnswersAreTheAlgebras == SolutionsAreTheAlgebras /\ PartialPlansAgree /\ AnswersAreOrdered

\* Expressions evaluated by SQL have the values SPARQL gives them:
\* comparisons, string functions, patterns, rounding and casts (expr.rs).
ExpressionsAreSparqls ==
    /\ ComparisonsAreTheirs /\ SubstringsArePositions /\ OccurrencesAreFound /\ PartsRejoin /\ TagsAreShared
    /\ SimplePatternsMatch /\ RoundingIsDirected /\ CastsAcceptLexicalForms

Spec == (SparqlInit \/ FunctionInit) /\ [][Evaluate]_input
=============================================================================
