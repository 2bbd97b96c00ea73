--------------------------- MODULE SparqlCompiler ---------------------------
(***************************************************************************)
(* The compiler from SPARQL to SQL, as what its SQL computes. A block is a *)
(* SELECT under construction: the rows of its FROM and WHERE, how each     *)
(* variable is held in a row, and the solution modifiers collected so far; *)
(* sealing makes it a subquery. A term is held by its id, or by value with *)
(* an id only when one can be computed in SQL; NULL stands for errors and  *)
(* unbound variables.                                                      *)
(***************************************************************************)
EXTENDS SparqlAlgebra, Inputs

-----------------------------------------------------------------------------
(* Values: what the ten SQL fields of a value say, and what is known of    *)
(* its type when compiling.                                                *)

V(hasid, id, val, stat, dec) == [hasid |-> hasid, id |-> id, val |-> val, stat |-> stat, dec |-> dec]
null == V(TRUE, Null, Null, "any", TRUE)
from_id(x) == V(TRUE, x, x, "any", TRUE)
Stats == [iri |-> "iri", bnode |-> "any", string |-> "string", lang |-> "lang", int |-> "numeric",
          dec |-> "numeric", bool |-> "bool", date |-> "date", odd |-> "any"]
from_term(t) == V(TRUE, t, t, Stats[t.k], FALSE)
numeric(num, nt) == V(FALSE, Null, IF num = Null \/ nt = Null THEN Null ELSE IF nt = 1 THEN Int_(num) ELSE Dec(num, 0), "numeric", TRUE)
boolean(b) == V(TRUE, BoolTerm(b), BoolTerm(b), "bool", TRUE)

kind(x) == IF x.val = Null THEN Null ELSE x.val.k
Field(x, ks) == IF x.val # Null /\ x.val.k \in ks THEN x.val.n ELSE Null
num(x) == Field(x, {"int", "dec"})
nt(x) == IF num(x) = Null THEN Null ELSE IF kind(x) = "int" THEN 1 ELSE 2
boolv(x) == Field(x, {"bool"})
ts(x) == Field(x, {"date"})
lex(x) == IF x.val = Null THEN Null ELSE x.val.n

Compare(op, a, b) ==
    IF a = Null \/ b = Null THEN Null
    ELSE Truth(CASE op = "=" -> a = b [] op = "<" -> a < b [] op = "<=" -> a <= b [] op = ">" -> a > b [] op = ">=" -> a >= b)
eq3(a, b) == IF a = Null \/ b = Null THEN Null ELSE Truth(a = b)
Is_(x, ks) == IF x.val = Null THEN Null ELSE Truth(x.val.k \in ks)
given(a) == Truth(a # Null)

\* CASE WHEN .. THEN .. END
Case(branches) ==
    LET taken == SelectSeq(branches, LAMBDA b : b[1] = 1) IN IF taken = <<>> THEN Null ELSE taken[1][2]
When(p, branch) == IF p THEN <<branch>> ELSE <<>>

may(s, want) == s = "any" \/ s = want
same_term(a, b) == IF a.hasid /\ b.hasid THEN eq3(a.id, b.id) ELSE eq3(a.val, b.val)

\* Timestamps with and without a time zone compare outside the window only.
compare_dates(op, a, b) ==
    IF a.val.l = b.val.l THEN Compare(op, ts(a), ts(b))
    ELSE CASE op \in {"<", "<="} -> IF ts(a) + Window < ts(b) THEN 1 ELSE IF ts(a) - Window > ts(b) THEN 0 ELSE Null
           [] op \in {">", ">="} -> IF ts(a) - Window > ts(b) THEN 1 ELSE IF ts(a) + Window < ts(b) THEN 0 ELSE Null
           [] op = "=" -> IF ts(a) - ts(b) > Window \/ ts(b) - ts(a) > Window THEN 0 ELSE Null

\* A mutant: strings and numbers are one type.
compare_lexical(a, b, op) == IF op = "=" THEN same_term(a, b) ELSE Compare(op, lex(a), lex(b))

compare(a, b, op) ==
    LET both(s) == may(a.stat, s) /\ may(b.stat, s)
        known(s) == a.stat = s /\ b.stat = s
    IN  IF known("numeric") THEN Compare(op, num(a), num(b))
        ELSE IF known("string") /\ ~known("numeric") THEN Compare(op, lex(a), lex(b))
        ELSE Case(When(op = "=" /\ a.hasid /\ b.hasid, <<eq3(a.id, b.id), 1>>)
               \o When(both("numeric"), <<and3(given(num(a)), given(num(b))), Compare(op, num(a), num(b))>>)
               \o When(both("string"), <<and3(Is_(a, {"string"}), Is_(b, {"string"})), Compare(op, lex(a), lex(b))>>)
               \o When(both("date"), <<and3(given(ts(a)), given(ts(b))), IF given(ts(a)) = 1 /\ given(ts(b)) = 1 THEN compare_dates(op, a, b) ELSE Null>>)
               \o When(both("bool"), <<and3(given(boolv(a)), given(boolv(b))), Compare(op, boolv(a), boolv(b))>>)
               \o When(op # "=" /\ both("lang"),
                       <<and3(Is_(a, {"lang"}), and3(Is_(b, {"lang"}), IF a.val = Null \/ b.val = Null THEN Null ELSE Truth(a.val.l = b.val.l))),
                         Compare(op, lex(a), lex(b))>>)
               \o When(op = "=" /\ ~(a.hasid /\ b.hasid), <<same_term(a, b), 1>>)
               \o When(op = "=" /\ both("lang"), <<and3(Is_(a, {"lang"}), Is_(b, {"lang"})), eq3(a.val, b.val)>>)
               \o When(op = "=", <<or3(Is_(a, {"iri", "bnode"}), Is_(b, {"iri", "bnode"})), 0>>))

arith(a, b) ==
    IF num(a) = Null \/ num(b) = Null THEN numeric(Null, Null)
    ELSE numeric(num(a) + num(b), IF nt(a) > nt(b) THEN nt(a) ELSE nt(b))

ebv(x) ==
    CASE x.stat = "bool" -> boolv(x)
      [] x.stat = "numeric" -> IF num(x) = Null THEN Null ELSE Truth(num(x) # 0)
      [] x.stat = "string" -> IF lex(x) = Null THEN Null ELSE Truth(lex(x) # 0)
      [] x.stat \in {"iri", "lang", "date"} -> Null
      [] x.stat = "any" -> Case(<<<<given(boolv(x)), boolv(x)>>,
                                  <<given(num(x)), IF num(x) = Null THEN Null ELSE Truth(num(x) # 0)>>,
                                  <<Is_(x, {"string"}), IF lex(x) = Null THEN Null ELSE Truth(lex(x) # 0)>>>>)

choose(c, a, b) ==
    LET pick(x, y) == IF c = Null THEN Null ELSE IF c = 1 THEN x ELSE y
    IN  V(a.hasid /\ b.hasid, IF a.hasid /\ b.hasid THEN pick(a.id, b.id) ELSE Null, pick(a.val, b.val),
          IF a.stat = b.stat THEN a.stat ELSE "any", a.dec /\ b.dec)

-----------------------------------------------------------------------------
(* Bindings and blocks. A cell is what a row holds of a variable.          *)

Cell(x) == [id |-> IF x.hasid THEN x.id ELSE Null, val |-> x.val]
NullCell == Cell(null)
Binding == [shape |-> "id", hasid |-> TRUE, nullable |-> FALSE, computed |-> FALSE, correlated |-> FALSE, stat |-> "any", dec |-> TRUE]
Held(m, cell) == V(m.hasid, cell.id, cell.val, m.stat, m.dec)
\* How the value x of an expression is held.
HeldAs(x, nullable, computed) ==
    IF x.hasid /\ x.dec THEN [Binding EXCEPT !.nullable = nullable, !.computed = computed]
    ELSE [Binding EXCEPT !.shape = "val", !.hasid = x.hasid, !.nullable = nullable, !.computed = computed, !.stat = x.stat, !.dec = x.dec]
HeldCell(x) == IF x.hasid /\ x.dec THEN Cell(from_id(x.id)) ELSE Cell(x)

Plain == 0
Grouped == 1
Ordered == 2
Distinct == 3
Sliced == 4
Block == [from |-> FALSE, wheres |-> FALSE, meta |-> NoBinding, rows |-> <<[at |-> NoBinding, keys |-> <<>>]>>,
          stage |-> Plain, distinct |-> FALSE, limit |-> Null, offset |-> 0]
is_unit(b) == ~b.from /\ ~b.wheres /\ DOMAIN b.meta = {}

\* SELECT DISTINCT .. ORDER BY .. LIMIT .. OFFSET, over the columns of b.
KeysBefore(x, y) == \E i \in 1 .. Len(x) : x[i] < y[i] /\ \A j \in 1 .. i - 1 : x[j] = y[j]
Selected(b) ==
    LET first == [i \in DOMAIN b.rows |-> \A j \in 1 .. i - 1 : b.rows[j].at # b.rows[i].at]
        kept == IF b.distinct THEN Each(LAMBDA i : IF first[i] THEN <<b.rows[i]>> ELSE <<>>, [i \in DOMAIN b.rows |-> i]) ELSE b.rows
        Until(n) == IF b.limit = Null \/ b.offset + b.limit > n THEN n ELSE b.offset + b.limit
        Slice(sorted) == [i \in 1 .. Until(Len(sorted)) - b.offset |-> sorted[b.offset + i].at]
    IN  Slice(SortSeq(kept, LAMBDA x, y : KeysBefore(x.keys, y.keys)))

seal(b) ==
    LET Rows(out) == [i \in DOMAIN out |-> [at |-> out[i], keys |-> <<>>]]
    IN  [Block EXCEPT !.from = TRUE, !.meta = [v \in DOMAIN b.meta |-> [b.meta[v] EXCEPT !.computed = FALSE, !.correlated = FALSE]],
                      !.rows = Rows(Selected(b))]
plain(b) == IF b.stage = Plain THEN b ELSE seal(b)

IsNull(cell) == Truth(cell.val = Null)

\* Whether two bindings of one variable agree, and the binding they become.
unify(m, x, n, y) ==
    LET a == Held(m, x)
        b == Held(n, y)
        eq == IF m.hasid /\ n.hasid THEN eq3(x.id, y.id) ELSE same_term(a, b)
        both == choose(Truth(a.val # Null), a, b)
    IN  IF ~m.nullable /\ ~n.nullable THEN [cond |-> eq, cell |-> x]
        ELSE [cond |-> or3(eq, or3(IsNull(x), IsNull(y))), cell |-> IF m.shape = "id" /\ n.shape = "id" /\ x.id = Null THEN y ELSE IF m.shape = "id" /\ n.shape = "id" THEN x ELSE Cell(both)]
UnifiedBinding(m, n) ==
    IF ~m.nullable /\ ~n.nullable THEN m
    ELSE LET x == choose(1, Held(m, NullCell), Held(n, NullCell))
         IN  [shape |-> IF m.shape = "id" /\ n.shape = "id" THEN "id" ELSE "val", hasid |-> x.hasid, nullable |-> m.nullable /\ n.nullable,
              computed |-> TRUE, correlated |-> m.correlated \/ n.correlated, stat |-> x.stat, dec |-> x.dec]

outer_binding(c, v) == LET seen == SelectSeq(c.outer, LAMBDA o : v \in DOMAIN o.meta) IN IF seen = <<>> THEN <<>> ELSE <<seen[Len(seen)]>>

var_value(v, meta, at, c) ==
    IF v \in DOMAIN meta THEN Held(meta[v], at[v])
    ELSE LET o == outer_binding(c, v) IN IF o = <<>> THEN null ELSE Held(o[1].meta[v], o[1].at[v])

-----------------------------------------------------------------------------
(* Quads.                                                                  *)

\* An unbound variable of the enclosing pattern agrees with everything.
agrees(x, m, cell) == unify(Binding, Cell(from_id(x)), m, cell).cond

\* A column x bound to a position of a pattern.
bind_pos(acc, pos, x, c) ==
    LET known == pos.v \in DOMAIN acc.meta
        o == outer_binding(c, pos.v)
        cond == IF pos.v = 0 THEN eq3(x, pos.t)
                ELSE IF known THEN or3(IF acc.meta[pos.v].hasid THEN eq3(x, acc.at[pos.v].id) ELSE eq3(x, acc.at[pos.v].val),
                                       Truth(acc.meta[pos.v].nullable /\ acc.at[pos.v].val = Null))
                ELSE IF o = <<>> THEN 1 ELSE agrees(x, o[1].meta[pos.v], o[1].at[pos.v])
    IN  [ok |-> acc.ok /\ cond = 1,
         at |-> IF pos.v = 0 \/ known THEN acc.at ELSE (pos.v :> Cell(from_id(x))) @@ acc.at,
         meta |-> IF pos.v = 0 \/ known THEN acc.meta ELSE (pos.v :> [Binding EXCEPT !.correlated = o # <<>>]) @@ acc.meta]

\* The row with the columns xs bound to the positions ps, in order.
BindAll(row, meta, ps, xs, c) ==
    FoldLeft(LAMBDA acc, i : bind_pos(acc, ps[i], xs[i], c), [ok |-> TRUE, at |-> row.at, meta |-> meta], [i \in DOMAIN ps |-> i])
Accessed(b, ps, relation, c) ==
    LET vs == {ps[i].v : i \in DOMAIN ps} \ ({0} \cup DOMAIN b.meta)
    IN  [b EXCEPT !.from = TRUE, !.wheres = TRUE,
                  !.meta = [v \in vs |-> [Binding EXCEPT !.correlated = outer_binding(c, v) # <<>>]] @@ b.meta,
                  !.rows = Each(LAMBDA row : Each(LAMBDA xs : LET r == BindAll(row, b.meta, ps, xs, c)
                                                              IN  IF r.ok THEN <<[at |-> r.at, keys |-> <<>>]>> ELSE <<>>, relation), b.rows)]

\* The quads a scope reads: of the default graph, each triple once.
Listed(c, g) == c.db.named = Null \/ g \in c.db.named
Before(g, h) == g.n < h.n
graph_pos(c) ==
    LET Q == c.db.quads
        merged == IF c.db.default = "union" THEN {q[4] : q \in Q} ELSE c.db.list
    IN  CASE c.scope.is = "fixed" -> {q \in Q : q[4] = c.scope.g /\ Listed(c, q[4])}
          [] c.scope.is = "var" -> {q \in Q : q[4] # DefaultGraph /\ Listed(c, q[4])}
          [] c.scope.is = "default" /\ c.db.default = "zero" -> {q \in Q : q[4] = DefaultGraph}
          [] c.scope.is = "default" -> {q \in Q : q[4] \in merged /\ ~\E d \in Q : d[1] = q[1] /\ d[2] = q[2] /\ d[3] = q[3] /\ d[4] \in merged /\ Before(d[4], q[4])}

quad_access(b, tp, c) ==
    LET within == c.scope.is = "var"
    IN  Accessed(b, IF within THEN <<tp[1], tp[2], tp[3], Var(c.scope.v)>> ELSE tp,
                 Listing({IF within THEN q ELSE <<q[1], q[2], q[3]>> : q \in graph_pos(c)}), c)

\* Triple patterns in the planner's order: connected ones first.
order(tps, pre) ==
    LET VarsOf(i) == {tps[i][j].v : j \in 1 .. 3} \ {0}
        Next_(acc) ==
            LET left == (DOMAIN tps) \ ToSet(acc)
                bound == pre \cup UNION {VarsOf(i) : i \in ToSet(acc)}
                linked == {i \in left : VarsOf(i) \cap bound # {}}
                candidates == IF linked = {} \/ (acc = <<>> /\ bound = {}) THEN left ELSE linked
                Cost(i) == Cardinality({j \in 1 .. 3 : tps[i][j].v # 0 /\ tps[i][j].v \notin bound})
            IN  CHOOSE i \in candidates : \A j \in candidates : Cost(i) < Cost(j) \/ (Cost(i) = Cost(j) /\ i <= j)
    IN  FoldLeft(LAMBDA acc, i : Append(acc, Next_(acc)), <<>>, tps)

bgp(tps, c) == FoldLeft(LAMBDA b, i : quad_access(b, tps[i], c), Block, order(tps, UNION {DOMAIN c.outer[i].meta : i \in DOMAIN c.outer}))

-----------------------------------------------------------------------------
(* Operators over blocks.                                                  *)

Row(at) == [at |-> at, keys |-> <<>>]
Where(b, Holds_(_)) == [b EXCEPT !.wheres = TRUE, !.rows = SelectSeq(@, LAMBDA r : Holds_(r.at))]

join_plain(a, b) ==
    LET both == DOMAIN a.meta \cap DOMAIN b.meta
        One(r, q) == [v \in both |-> unify(a.meta[v], r.at[v], b.meta[v], q.at[v])]
        Unified(r, q, u) == IF \A v \in both : u[v].cond = 1 THEN <<Row([v \in both |-> u[v].cell] @@ r.at @@ q.at)>> ELSE <<>>
    IN  IF is_unit(a) THEN b ELSE IF is_unit(b) THEN a
        ELSE [a EXCEPT !.from = a.from \/ b.from, !.wheres = a.wheres \/ b.wheres \/ both # {},
                       !.meta = [v \in both |-> UnifiedBinding(a.meta[v], b.meta[v])] @@ a.meta @@ b.meta,
                       !.rows = Each(LAMBDA r : Each(LAMBDA q : Unified(r, q, One(r, q)), b.rows), a.rows)]
join(x, y) == join_plain(plain(x), plain(y))

\* A variable bound in the branches with bindings ms, of n branches: held by
\* value if one computes it, unbound in the branches that lack it.
union_binding(ms, n) ==
    LET val == \E i \in DOMAIN ms : ms[i].shape = "val"
    IN  [Binding EXCEPT !.shape = IF val THEN "val" ELSE "id", !.dec = ~val,
                        !.nullable = Len(ms) < n \/ \E i \in DOMAIN ms : ms[i].nullable]

union_plain(bs) ==
    LET vars == UNION {DOMAIN bs[i].meta : i \in DOMAIN bs}
        In(v) == {i \in DOMAIN bs : v \in DOMAIN bs[i].meta}
        Merged_(v) == union_binding(LET is == Listing(In(v)) IN [k \in DOMAIN is |-> bs[is[k]].meta[v]], Len(bs))
        Of(i, r) == Row([v \in vars |-> IF i \in In(v) THEN r.at[v] ELSE NullCell])
    IN  [Block EXCEPT !.from = TRUE, !.meta = [v \in vars |-> Merged_(v)],
                      !.rows = Concat([i \in DOMAIN bs |-> [j \in DOMAIN bs[i].rows |-> Of(i, bs[i].rows[j])]])]
union(blocks) == union_plain([i \in DOMAIN blocks |-> plain(blocks[i])])

values(vars, solutions) ==
    LET Lacks(v) == \E i \in DOMAIN solutions : v \notin DOMAIN solutions[i]
    IN  IF vars = {} THEN [Block EXCEPT !.from = Len(solutions) > 1, !.wheres = solutions = <<>>, !.rows = [i \in DOMAIN solutions |-> Row(NoBinding)]]
        ELSE [Block EXCEPT !.from = solutions # <<>>, !.wheres = solutions = <<>>,
                           !.meta = [v \in vars |-> IF solutions = <<>> THEN [Binding EXCEPT !.nullable = TRUE, !.computed = TRUE]
                                                     ELSE [Binding EXCEPT !.shape = "val", !.nullable = Lacks(v), !.dec = FALSE]],
                           !.rows = [i \in DOMAIN solutions |-> Row([v \in vars |-> IF v \in DOMAIN solutions[i] THEN Cell(from_term(solutions[i][v])) ELSE NullCell])]]

graph_list_block(v, c) ==
    [Block EXCEPT !.from = TRUE, !.wheres = c.db.named # Null, !.meta = v :> Binding,
                  !.rows = LET gs == Listing({g \in c.db.graphs : Listed(c, g)}) IN [i \in DOMAIN gs |-> Row(v :> Cell(from_id(gs[i])))]]

\* Sort keys: unbound, blank nodes, IRIs, numbers, other literals. NULL sorts first.
Lowest == -99
order_keys(x, desc) ==
    LET of(a) == IF a = Null THEN Lowest ELSE a
        keys == IF x.stat = "numeric" THEN <<Truth(x.val # Null), of(num(x))>>
                ELSE IF x.stat = "string" THEN <<Truth(x.val # Null), of(lex(x))>>
                ELSE <<IF x.val = Null THEN 0 ELSE IF kind(x) = "bnode" THEN 1 ELSE IF kind(x) = "iri" THEN 2 ELSE 3,
                       Truth(num(x) = Null), of(num(x)), of(lex(x))>>
    IN  [i \in DOMAIN keys |-> IF desc THEN -keys[i] ELSE keys[i]]

\* MIN and MAX: numbers and dates before lexical forms.
sort_key(x) ==
    IF num(x) # Null THEN <<0, num(x)>> ELSE IF ts(x) # Null THEN <<0, ts(x)>> ELSE <<1, lex(x)>>

\* The value of an aggregate over the values xs of its argument.
aggregate(a, xs, n) ==
    LET some == SelectSeq(xs, LAMBDA x : x.val # Null)
        nums == SelectSeq(xs, LAMBDA x : num(x) # Null)
        different == {IF x.hasid /\ x.dec THEN x.id ELSE x.val : x \in Range(some)}
        rank == IF nums = <<>> THEN 1 ELSE IF \E i \in DOMAIN nums : nt(nums[i]) = 2 THEN 2 ELSE 1
        total == FoldLeft(LAMBDA r, x : r + num(x), 0, nums)
        Extreme(sign) == CHOOSE x \in Range(some) : \A y \in Range(some) :
                            ~KeysBefore([i \in 1 .. 2 |-> sign * sort_key(y)[i]], [i \in 1 .. 2 |-> sign * sort_key(x)[i]])
    IN  CASE a.fn = "count*" -> from_id(Int_(n))
          [] a.fn = "count" -> from_id(Int_(IF a.distinct THEN Cardinality(different) ELSE Len(some)))
          [] a.fn = "sum" -> numeric(IF Len(some) = Len(nums) THEN total ELSE Null, rank)
          [] a.fn = "min" -> IF some = <<>> THEN null ELSE Extreme(1)
          [] a.fn = "max" -> IF some = <<>> THEN null ELSE Extreme(-1)

AggregateBinding(a, x) ==
    IF a.fn \in {"count*", "count"} THEN [Binding EXCEPT !.nullable = TRUE, !.computed = TRUE]
    ELSE HeldAs(IF a.fn = "sum" THEN numeric(Null, Null) ELSE x, TRUE, TRUE)

\* A variable the pattern does not bind is a key that is always unbound.
group_plain(b, vars, aggs, c) ==
    LET Key(r) == [v \in vars |-> IF v \in DOMAIN b.meta THEN r.at[v] ELSE NullCell]
        keys == IF vars = {} THEN <<NoBinding>> ELSE Deduped([i \in DOMAIN b.rows |-> Key(b.rows[i])])
        Argument(a, at) == IF a.fn = "count*" THEN null ELSE var_value(a.x, b.meta, at, c)
        Value_(a, rows) == aggregate(a, [i \in DOMAIN rows |-> Argument(a, rows[i].at)], Len(rows))
        Of(k) == LET rows == SelectSeq(b.rows, LAMBDA r : Key(r) = k)
                 IN  Row(FoldLeft(LAMBDA at, a : (a.v :> HeldCell(Value_(a, rows))) @@ at, k, aggs))
    IN  [b EXCEPT !.stage = Grouped, !.rows = [i \in DOMAIN keys |-> Of(keys[i])],
                  !.meta = FoldLeft(LAMBDA m, a : (a.v :> AggregateBinding(a, Argument(a, [v \in DOMAIN b.meta |-> NullCell]))) @@ m,
                                    [v \in vars |-> IF v \in DOMAIN b.meta THEN b.meta[v] ELSE [Binding EXCEPT !.nullable = TRUE, !.computed = TRUE]], aggs)]
group(inner, vars, aggs, c) == group_plain(plain(inner), vars, aggs, c)

distinct(x) == LET b == IF x.stage >= Distinct THEN seal(x) ELSE x IN [b EXCEPT !.distinct = TRUE, !.stage = Distinct]
slice(x, start, length) ==
    LET b == IF x.stage = Sliced THEN seal(x) ELSE x IN [b EXCEPT !.offset = start, !.limit = length, !.stage = Sliced]
=============================================================================
