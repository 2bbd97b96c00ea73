--------------------------- MODULE SparqlQueries ----------------------------
(***************************************************************************)
(* The recursion of the SPARQL compiler over patterns, expressions and     *)
(* property paths, and what a compiled query answers. A compilation        *)
(* context has the dataset, the graph scope and, in an EXISTS, the rows of *)
(* the enclosing blocks.                                                   *)
(***************************************************************************)
EXTENDS SparqlCompiler

RECURSIVE pattern(_, _), expr(_, _, _, _), path(_, _, _, _), branches(_)

branches(p) == IF p.op = "union" THEN branches(p.left) \o branches(p.right) ELSE <<p>>

\* FILTER rejects an error like a falsehood, so an id decides equality with
\* a term that is its value's only form.
Sargable(e, meta, c) ==
    /\ e.op \in {"=", "same"} /\ e.a.op = "var" /\ e.b.op = "const"
    /\ e.op = "same" \/ e.b.t.k \in {"iri", "string", "lang"}
    /\ LET o == outer_binding(c, e.a.v)
       IN  IF e.a.v \in DOMAIN meta THEN meta[e.a.v].shape = "id" ELSE o # <<>> /\ o[1].meta[e.a.v].shape = "id"
filter_conditions(e, meta, at, c) ==
    IF Sargable(e, meta, c) THEN eq3(var_value(e.a.v, meta, at, c).id, e.b.t) = 1 ELSE ebv(expr(e, meta, at, c)) = 1

exists(p, meta, at, c) ==
    LET Sealed(found) == IF found.stage # Plain \/ ~found.from THEN seal(found) ELSE found
        Found(inner, tested) == Truth(\E i \in DOMAIN inner.rows : \A v \in tested : unify(inner.meta[v], inner.rows[i].at[v], meta[v], at[v]).cond = 1)
        In(inner) == Found(inner, {v \in DOMAIN inner.meta \cap DOMAIN meta : ~inner.meta[v].correlated})
    IN  In(Sealed(pattern(p, [c EXCEPT !.outer = Append(@, [meta |-> meta, at |-> at])])))

expr(e, meta, at, c) ==
    LET Sub(x) == expr(x, meta, at, c)
    IN  CASE e.op = "const" -> from_term(e.t)
          [] e.op = "var" -> var_value(e.v, meta, at, c)
          [] e.op = "or" -> boolean(or3(ebv(Sub(e.a)), ebv(Sub(e.b))))
          [] e.op = "and" -> boolean(and3(ebv(Sub(e.a)), ebv(Sub(e.b))))
          [] e.op = "not" -> boolean(not3(ebv(Sub(e.a))))
          [] e.op \in {"=", "<", "<=", ">", ">="} -> boolean(compare(Sub(e.a), Sub(e.b), e.op))
          [] e.op = "same" -> boolean(same_term(Sub(e.a), Sub(e.b)))
          [] e.op = "in" -> boolean(IF e.list = <<>> THEN (IF Sub(e.a).val = Null THEN Null ELSE 0)
                                    ELSE FoldLeft(LAMBDA r, t : or3(r, compare(Sub(e.a), from_term(t), "=")), 0, e.list))
          [] e.op = "+" -> arith(Sub(e.a), Sub(e.b))
          [] e.op = "bound" -> boolean(Truth(var_value(e.v, meta, at, c).val # Null))
          [] e.op = "if" -> choose(ebv(Sub(e.a)), Sub(e.b), Sub(e.c))
          [] e.op = "coalesce" -> choose(Truth(Sub(e.a).val # Null), Sub(e.a), Sub(e.b))
          [] e.op = "exists" -> boolean(exists(e.p, meta, at, c))

-----------------------------------------------------------------------------
(* Property paths. A walk is <<subject, object, graph>>; without GRAPH ?g  *)
(* all walks are in one graph.                                             *)

Walked(found, a, b, g) ==
    {<<r.at[a].id, r.at[b].id, IF g = 0 THEN DefaultGraph ELSE r.at[g].id>> : r \in Range(found.rows)}

\* Subjects and objects of the active graphs.
node_set(c, within) ==
    LET qs == graph_pos(c)
    IN  {<<q[i], q[i], IF within THEN q[4] ELSE DefaultGraph>> : q \in qs, i \in {1, 3}}
graph_ids(c, within) == IF within THEN {g \in c.db.graphs : Listed(c, g)} ELSE {DefaultGraph}

\* A walk goes on in its own graph.
goes_on(at, w, from, b) == w[at] = b[from] /\ w[3] = b[3]

closure(s, p, o, how, seed, c) ==
    LET within == c.scope.is = "var"
        scope == [c EXCEPT !.scope.v = IF within THEN 97 ELSE 0]
        start == IF seed # <<>> THEN seed ELSE IF s.v = 0 THEN <<{s.t}, 1>> ELSE IF o.v = 0 THEN <<{o.t}, 2>> ELSE <<>>
        zero == IF how = "plus" THEN {} ELSE IF start = <<>> THEN node_set(scope, within) ELSE {<<n, n, g>> : n \in start[1], g \in graph_ids(c, within)}
        forward == start = <<>> \/ start[2] = 1
        Walks(base) ==
            LET one == IF start = <<>> THEN base ELSE {w \in base : w[start[2]] \in start[1]}
                Step(W, i) == W \cup IF forward THEN {<<w[1], b[2], w[3]>> : <<w, b>> \in {x \in W \X base : goes_on(2, x[1], 1, x[2])}}
                                     ELSE {<<b[1], w[2], w[3]>> : <<w, b>> \in {x \in W \X base : goes_on(1, x[1], 2, x[2])}}
            IN  IF how = "opt" THEN one \cup zero ELSE FoldLeft(Step, one \cup zero, [i \in 1 .. Cardinality(base) |-> i])
    IN  Accessed(Block, IF within THEN <<s, o, Var(c.scope.v)>> ELSE <<s, o>>,
                 Listing(Walks(Walked(plain(path(Var(98), p, Var(99), scope)), 98, 99, IF within THEN 97 ELSE 0))), c)

\* A closure joined with a block that binds one of its ends walks from there.
Seed(left, s, o) ==
    LET Bound_(x) == x.v \in DOMAIN left.meta /\ ~left.meta[x.v].nullable /\ left.meta[x.v].shape = "id"
        Ids(x) == {r.at[x.v].id : r \in Range(left.rows)}
    IN  IF left.stage # Plain \/ ~left.from \/ s.v = 0 \/ o.v = 0 THEN <<>>
        ELSE IF Bound_(s) THEN <<Ids(s), 1>> ELSE IF Bound_(o) THEN <<Ids(o), 2>> ELSE <<>>
seeded_path(left, p, c) ==
    IF p.path.op \in {"star", "plus"} /\ Seed(left, p.s, p.o) # <<>>
    THEN closure(p.s, p.path.a, p.o, p.path.op, Seed(left, p.s, p.o), c) ELSE path(p.s, p.path, p.o, c)

path(s, p, o, c) ==
    LET mid == Var(100 + p.depth)
    IN  CASE p.op = "link" -> bgp(<<<<s, Const(p.t), o>>>>, c)
          [] p.op = "inv" -> path(o, p.a, s, c)
          [] p.op = "seq" -> join(path(s, p.a, mid, c), path(mid, p.b, o, c))
          [] p.op = "alt" -> union(<<path(s, p.a, o, c), path(s, p.b, o, c)>>)
          [] p.op = "neg" -> LET Hide(f) == [v \in DOMAIN f \ {96} |-> f[v]]
                                 Hidden(b) == [b EXCEPT !.meta = Hide(@), !.rows = [i \in DOMAIN @ |-> Row(Hide(@[i].at))]]
                             IN  Hidden(Where(quad_access(Block, <<s, Var(96), o>>, c), LAMBDA at : at[96].id # p.t))
          [] OTHER -> closure(s, p.a, o, p.op, <<>>, c)

-----------------------------------------------------------------------------
(* Patterns.                                                               *)

\* A variable only the right side of an OPTIONAL binds.
\* A mutant: it is taken to be bound.
optional_bound(m) == m
optional(m) == [m EXCEPT !.nullable = TRUE]

left_join_plain(a, b, e, c) ==
    LET both == DOMAIN a.meta \cap DOMAIN b.meta
        new == DOMAIN b.meta \ both
        meta == [v \in both |-> IF a.meta[v].nullable THEN [UnifiedBinding(a.meta[v], b.meta[v]) EXCEPT !.nullable = TRUE] ELSE a.meta[v]]
                @@ [v \in new |-> optional(b.meta[v])] @@ a.meta
        Cells(r, q) == [v \in both |-> IF a.meta[v].nullable THEN unify(a.meta[v], r.at[v], b.meta[v], q.at[v]).cell ELSE r.at[v]]
                       @@ [v \in new |-> q.at[v]] @@ r.at
        On(r, q) == /\ \A v \in both : unify(a.meta[v], r.at[v], b.meta[v], q.at[v]).cond = 1
                    /\ e.op = "const" \/ ebv(expr(e, meta, Cells(r, q), c)) = 1
        Matches(r) == Each(LAMBDA q : IF On(r, q) THEN <<Row(Cells(r, q))>> ELSE <<>>, b.rows)
        OrNulls(r, found) == IF found = <<>> THEN <<Row([v \in new |-> NullCell] @@ r.at)>> ELSE found
    IN  [a EXCEPT !.from = TRUE, !.meta = meta,
                  !.rows = Each(LAMBDA r : OrNulls(r, Matches(r)), @)]
left_join(x, y, e, c) ==
    LET Sealed(b) == IF ~b.from \/ \E v \in DOMAIN b.meta : b.meta[v].computed THEN seal(b) ELSE b
    IN  left_join_plain(plain(x), Sealed(plain(y)), e, c)

\* Solutions without a common variable are not removed.
overlap(a, at, b, cells) ==
    LET both == DOMAIN a.meta \cap DOMAIN b.meta
    IN  \/ \E v \in both : ~a.meta[v].nullable /\ ~b.meta[v].nullable
        \/ \E v \in both : at[v].val # Null /\ cells[v].val # Null

minus_plain(a, b) ==
    LET both == DOMAIN a.meta \cap DOMAIN b.meta
        Removes(q, at) == /\ \A v \in both : unify(a.meta[v], at[v], b.meta[v], q.at[v]).cond = 1
                          /\ overlap(a, at, b, q.at)
    IN  IF both = {} THEN a ELSE Where(a, LAMBDA at : ~\E i \in DOMAIN b.rows : Removes(b.rows[i], at))
minus(x, y) ==
    LET Sealed(b) == IF b.from THEN b ELSE seal(b)
    IN  minus_plain(plain(x), Sealed(plain(y)))

extend_plain(b, v, e, c) ==
    LET nullable == IF e.op = "var" THEN e.v \notin DOMAIN b.meta \/ b.meta[e.v].nullable ELSE e.op # "const"
        Of(at) == expr(e, b.meta, at, c)
        nulls == [w \in DOMAIN b.meta |-> NullCell]
    IN  [b EXCEPT !.meta = (v :> HeldAs(Of(IF b.rows = <<>> THEN nulls ELSE b.rows[1].at), nullable, e.op # "var")) @@ @,
                  !.rows = [i \in DOMAIN @ |-> Row((v :> HeldCell(Of(@[i].at))) @@ @[i].at)]]
extend(x, v, e, c) == extend_plain(plain(x), v, e, c)

graph(p, c) ==
    IF p.g.v = 0
    THEN Where(plain(pattern(p.left, [c EXCEPT !.scope = [is |-> "fixed", g |-> p.g.t, v |-> 0]])), LAMBDA at : p.g.t \in c.db.graphs)
    ELSE LET Named(b) == IF p.g.v \in DOMAIN b.meta THEN b ELSE join(b, graph_list_block(p.g.v, c))
         IN  Named(pattern(p.left, [c EXCEPT !.scope = [is |-> "var", g |-> DefaultGraph, v |-> p.g.v]]))

orderby(x, e, desc, c) ==
    LET reads == x.stage = Grouped /\ (e.op # "var" \/ (e.v \in DOMAIN x.meta /\ x.meta[e.v].computed))
        Sorted(b) ==
            [b EXCEPT !.stage = Ordered,
                      !.rows = [i \in DOMAIN @ |-> [@[i] EXCEPT !.keys = @ \o order_keys(expr(e, b.meta, b.rows[i].at, c), desc)]]]
    IN  Sorted(IF x.stage > Grouped \/ reads THEN seal(x) ELSE x)

\* DISTINCT and LIMIT apply to what was selected before.
selected_first(b) == IF b.stage >= Distinct THEN seal(b) ELSE b

\* In GRAPH ?g a subquery's own ?g is another variable unless projected: then
\* it is the graph, which an unbound one never is.
projected(b, p, hidden, c) ==
    LET own == c.scope.v
        Cells(f, none) == [v \in p.vars |-> IF v \in DOMAIN f THEN f[v] ELSE none]
        cut == [b EXCEPT !.meta = Cells(@, [Binding EXCEPT !.nullable = TRUE, !.computed = TRUE]),
                         !.rows = [i \in DOMAIN @ |-> [@[i] EXCEPT !.at = Cells(@, NullCell)]]]
        Named(i) == eq3(cut.rows[i].at[own].id, b.rows[i].at[hidden].id) = 1
    IN  IF c.scope.is # "var" \/ hidden \notin DOMAIN b.meta THEN cut
        ELSE IF own \in p.vars /\ cut.meta[own].hasid
        THEN [cut EXCEPT !.wheres = TRUE, !.rows = Each(LAMBDA i : IF Named(i) THEN <<cut.rows[i]>> ELSE <<>>, [i \in DOMAIN cut.rows |-> i])]
        ELSE [cut EXCEPT !.meta = (own :> b.meta[hidden]) @@ @,
                         !.rows = [i \in DOMAIN @ |-> [@[i] EXCEPT !.at = (own :> b.rows[i].at[hidden]) @@ @]]]
project(p, c) ==
    LET hidden == c.scope.v + 300
    IN  projected(selected_first(pattern(p.left, IF c.scope.is = "var" THEN [c EXCEPT !.scope.v = hidden] ELSE c)), p, hidden, c)

pattern(p, c) ==
    CASE p.op = "bgp" -> bgp(p.tps, c)
      [] p.op = "path" -> path(p.s, p.path, p.o, c)
      [] p.op = "join" -> LET After(a) == join(a, IF p.right.op = "path" THEN seeded_path(a, p.right, c) ELSE pattern(p.right, c))
                          IN  After(pattern(p.left, c))
      [] p.op = "leftjoin" -> left_join(pattern(p.left, c), pattern(p.right, c), p.e, c)
      [] p.op = "union" -> LET ps == branches(p) IN union([i \in DOMAIN ps |-> pattern(ps[i], c)])
      [] p.op = "minus" -> minus(pattern(p.left, c), pattern(p.right, [c EXCEPT !.outer = <<>>]))
      [] p.op = "filter" -> LET Filtered(b) == Where(b, LAMBDA at : filter_conditions(p.e, b.meta, at, c)) IN Filtered(plain(pattern(p.left, c)))
      [] p.op = "extend" -> extend(pattern(p.left, c), p.v, p.e, c)
      [] p.op = "values" -> values(p.vars, p.rows)
      [] p.op = "graph" -> graph(p, c)
      [] p.op = "orderby" -> orderby(pattern(p.left, c), p.e, p.desc, c)
      [] p.op = "project" -> project(p, c)
      [] p.op = "distinct" -> distinct(pattern(p.left, c))
      [] p.op = "slice" -> slice(pattern(p.left, c), p.start, p.length)
      [] p.op = "group" -> group(pattern(p.left, c), p.vars, p.aggs, c)

\* What a compiled SELECT answers: ids are resolved, computed values decoded.
answer(b) ==
    LET Decoded(v, cell) == IF b.meta[v].shape = "id" THEN cell.id ELSE cell.val
        Shown(at) == [v \in {w \in DOMAIN at : w < 90 /\ Decoded(w, at[w]) # Null} |-> Decoded(v, at[v])]
        All(rows) == [i \in DOMAIN rows |-> Shown(rows[i])]
    IN  All(Selected(b))
compile_query(p, db) ==
    answer(pattern(p, [db |-> db, scope |-> [is |-> "default", g |-> DefaultGraph, v |-> 0], outer |-> <<>>]))

-----------------------------------------------------------------------------
(* Partial fallback (partial.rs): a query that does not compile as a whole *)
(* is evaluated by the host, but its largest subtrees that do compile are  *)
(* replaced by services that run their SQL. A service answers whatever the *)
(* bindings around it are, once and for all (its rows are memoized), so it *)
(* stands here as the table of its rows.                                   *)
CONSTANT HostOnly   \* operators of expressions that have no SQL

RECURSIVE Hosted(_), expressions_compile(_), in_scope(_)
Hosted(e) ==
    \/ e.op \in HostOnly
    \/ \E f \in {"a", "b", "c"} \cap DOMAIN e : Hosted(e[f])
    \/ e.op = "exists" /\ ~expressions_compile(e.p)
expressions_compile(p) ==
    /\ "e" \in DOMAIN p => ~Hosted(p.e)
    /\ \A f \in {"left", "right"} \cap DOMAIN p : expressions_compile(p[f])

PositionVars(ps) == {ps[i].v : i \in DOMAIN ps} \ {0}
\* on_in_scope_variable of the parser.
in_scope(p) ==
    CASE p.op = "bgp" -> UNION {PositionVars(p.tps[i]) : i \in DOMAIN p.tps}
      [] p.op = "path" -> PositionVars(<<p.s, p.o>>)
      [] p.op \in {"join", "leftjoin", "union"} -> in_scope(p.left) \cup in_scope(p.right)
      [] p.op = "extend" -> in_scope(p.left) \cup {p.v}
      [] p.op = "graph" -> in_scope(p.left) \cup PositionVars(<<p.g>>)
      [] p.op = "group" -> p.vars \cup {p.aggs[i].v : i \in DOMAIN p.aggs}
      [] p.op \in {"project", "values"} -> p.vars
      [] OTHER -> in_scope(p.left)

\* What a service answers: the rows of the subtree, selected by SQL from the query's dataset.
handle(p, db) == compile_query([op |-> "project", left |-> p, vars |-> in_scope(p)], db)
service(p, db) == [op |-> "values", vars |-> in_scope(p), rows |-> handle(p, db)]

RECURSIVE rewrite(_, _, _)
\* Below GRAPH a service would lose the active graph.
rewrite(p, replace, db) ==
    IF replace /\ expressions_compile(p) /\ p.op # "values" /\ ~(p.op = "bgp" /\ p.tps = <<>>) THEN service(p, db)
    ELSE [f \in DOMAIN p |-> IF f \in {"left", "right"} THEN rewrite(p[f], replace /\ p.op # "graph", db) ELSE p[f]]
plan(p, db) == rewrite(p, TRUE, db)

-----------------------------------------------------------------------------
(* GRAPH ?g is compiled to one block for all graphs, in which ?g is a      *)
(* column of the quads read. That is the algebra's evaluation of each      *)
(* graph by itself as long as the rows of different graphs are kept apart. *)

RECURSIVE ExistsIn(_), ReadBy(_), Reads(_), Carries(_), Certain(_), Mentions(_, _), PerGraph(_, _)

\* The patterns that the EXISTS of an expression test.
ExistsIn(e) == IF e.op = "exists" THEN {e.p} ELSE UNION {ExistsIn(e[f]) : f \in {"a", "b", "c"} \cap DOMAIN e}
ExistsOf(p) == IF "e" \in DOMAIN p THEN ExistsIn(p.e) ELSE {}
Parts(p) == {p[f] : f \in {"left", "right"} \cap DOMAIN p}

\* The variables an expression reads outside its EXISTS.
ReadBy(e) == (IF "v" \in DOMAIN e THEN {e.v} ELSE {}) \cup UNION {ReadBy(e[f]) : f \in {"a", "b", "c"} \cap DOMAIN e}

\* Whether rows of p come from a graph, and whether all of them name it.
Reads(p) == CASE p.op = "bgp" -> p.tps # <<>> [] p.op = "path" -> TRUE [] p.op = "graph" -> FALSE [] OTHER -> \E x \in Parts(p) : Reads(x)
Carries(p) == CASE p.op \in {"bgp", "path", "values", "graph"} -> Reads(p)
                [] p.op = "join" -> Carries(p.left) \/ Carries(p.right)
                [] p.op = "union" -> Carries(p.left) /\ Carries(p.right)
                [] OTHER -> Carries(p.left)

\* Variables every solution binds.
Certain(p) == CASE p.op \in {"bgp", "path"} -> in_scope(p)
                [] p.op = "values" -> {v \in p.vars : \A i \in DOMAIN p.rows : v \in DOMAIN p.rows[i]}
                [] p.op = "join" -> Certain(p.left) \cup Certain(p.right)
                [] p.op = "union" -> Certain(p.left) \cap Certain(p.right)
                [] p.op = "project" -> Certain(p.left) \cap p.vars
                [] p.op = "group" -> {}
                [] OTHER -> Certain(p.left)

\* Whether p uses variable g, which a subquery hides unless it projects it.
Mentions(p, g) ==
    \/ g \in in_scope(p)
    \/ "e" \in DOMAIN p /\ g \in ReadBy(p.e)
    \/ p.op # "project" /\ \E x \in Parts(p) \cup ExistsOf(p) : Mentions(x, g)

\* Whether p keeps graphs apart; within says that it is in a GRAPH ?g.
PerGraph(p, within) ==
    /\ \A x \in Parts(p) : PerGraph(x, IF p.op = "graph" THEN p.g.v # 0 ELSE within)
    /\ \A x \in ExistsOf(p) : PerGraph(x, within) /\ (within /\ Reads(x) => Carries(p.left))
    /\ p.op = "graph" /\ p.g.v # 0 /\ Mentions(p.left, p.g.v) => p.left.op \in {"bgp", "path"}
    /\ within =>
          CASE p.op = "leftjoin" -> Reads(p.right) => Carries(p.left)
            [] p.op = "union" -> Carries(p) \/ ~Reads(p)
            [] p.op = "minus" -> Reads(p.right) => Carries(p.left) /\ Certain(p.left) \cap Certain(p.right) # {}
            [] p.op \in {"group", "slice"} -> ~Reads(p)
            [] OTHER -> TRUE

-----------------------------------------------------------------------------
(* What the SPARQL compiler promises: a query answered by SQL has the      *)
(* solutions of the algebra, and SQL's NULL plays the part of an error.    *)
(* The initial states are bounded queries over bounded datasets, and pairs *)
(* of terms.                                                               *)
CONSTANTS Queries, Datasets, Terms

Operators == {"=", "<", "<=", ">", ">="}

SparqlInit ==
    \/ \E p \in Queries, db \in Datasets : input = [of |-> "query", p |-> p, db |-> db]
    \/ \E x, y \in Terms, op \in Operators : input = [of |-> "comparison", x |-> x, y |-> y, op |-> op]

Algebra(p, db) == Evaluated(p, [db |-> db, graph |-> DefaultGraph, sub |-> NoBinding], FALSE)

\* A query compiled to SQL has the solutions of the algebra, each as often:
\* however OPTIONAL, UNION, MINUS, EXISTS, paths, graphs, subqueries and
\* solution modifiers nest, no row is lost to a NULL that stands for an
\* unbound variable, and none is found twice (Compiler::pattern). Excepted
\* are bodies of GRAPH ?g that PerGraph refuses: aggregates and LIMIT, which
\* run across graphs, MINUS of solutions that share only the graph, OPTIONAL,
\* UNION, MINUS and EXISTS beside rows that name no graph, and ?g itself.
SolutionsAreTheAlgebras ==
    Is("query") /\ PerGraph(input.p, FALSE) => SameBag(compile_query(input.p, input.db), Algebra(input.p, input.db))

\* A query that compiles in part has the solutions of the algebra too: a
\* service takes no binding and no graph from around it, yet joins, OPTIONAL,
\* MINUS and GRAPH above it give what they would give over its pattern
\* (Rewriter::rewrite, SqlServices::handle).
PartialPlansAgree ==
    Is("query") /\ PerGraph(input.p, FALSE) /\ ~expressions_compile(input.p) =>
        \A planned \in {plan(input.p, input.db)} : SameBag(Algebra(planned, input.db), Algebra(input.p, input.db))

RECURSIVE OrderedBy(_)
OrderedBy(p) == IF p.op = "orderby" THEN <<p>> ELSE IF p.op \in {"project", "distinct", "slice"} THEN OrderedBy(p.left) ELSE <<>>

\* ORDER BY orders the answer: unbound first, then blank nodes, IRIs, numbers
\* by value and other literals, and in reverse when descending (order_keys),
\* through the subqueries and modifiers around it.
AnswersAreOrdered ==
    Is("query") /\ OrderedBy(input.p) # <<>> =>
        \A o \in {OrderedBy(input.p)[1]}, solutions \in {compile_query(input.p, input.db)} :
            \A i, j \in DOMAIN solutions : i < j /\ o.e.op = "var" =>
                ~(IF o.desc THEN SortsBefore(Bound(solutions[i], o.e.v), Bound(solutions[j], o.e.v))
                  ELSE SortsBefore(Bound(solutions[j], o.e.v), Bound(solutions[i], o.e.v)))

\* Comparing two bound terms in SQL gives what SPARQL gives, an error where
\* they have no common type, whether their types are known when compiling
\* (a constant) or only in the row (compare).
ComparisonsAreTheirs ==
    Is("comparison") /\ input.x # Null /\ input.y # Null =>
        \A a \in {from_id(input.x), from_term(input.x)}, b \in {from_id(input.y), from_term(input.y)} :
            compare(a, b, input.op) = Holds(input.op, input.x, input.y)
=============================================================================
