-------------------------- MODULE CypherProjection --------------------------
(***************************************************************************)
(* Cypher queries of several clauses: the checks before planning, the plan *)
(* that gives the first clauses to SQL and the rest to the interpreter,    *)
(* and both ways to project, group, order and page rows.  A row maps the   *)
(* names in scope to values; in SQL a null is an unbound variable.         *)
(***************************************************************************)
EXTENDS CypherValues, Inputs

CONSTANTS
    CypherQueries,   \* sequences of clauses
    PatternClauses,  \* clauses with one pattern, and the scopes they are checked in
    NameOrder        \* every name, in the order of names

(* Syntax.                                                                 *)

VarX(n) == [op |-> "var", n |-> n]
LitX(v) == [op |-> "const", v |-> v]
CountStar == [op |-> "count(*)"]
OpX(op, args) == [op |-> op, args |-> args]
AggX(fn, distinct, arg) == [op |-> fn, args |-> <<arg>>, distinct |-> distinct]
\* [n IN list WHERE filter]
CompX(n, list, filter) == [op |-> "comp", n |-> n, args |-> <<list, filter>>]

ItemX(e, name, aliased) == [e |-> e, name |-> name, aliased |-> aliased]
Projection(items) == [distinct |-> FALSE, star |-> FALSE, items |-> items, order |-> <<>>, skip |-> <<>>, limit |-> <<>>, where |-> <<>>]
Unwind(e, alias) == [c |-> "unwind", e |-> e, alias |-> alias]
With(p) == [c |-> "with", p |-> p]
Return(p) == [c |-> "return", p |-> p]
\* MATCH and CREATE of one node, the graph having the nodes of the instance.
MatchNode(n) == [c |-> "match", n |-> n]
CreateNode(n) == [c |-> "create", n |-> n]
GraphNodes == <<Node(1), Node(2)>>

Kids(e) == IF e.op \in {"var", "const", "count(*)"} THEN <<>> ELSE e.args
WithKids(e, kids) == IF kids = <<>> THEN e ELSE [e EXCEPT !.args = kids]
RECURSIVE walk(_)
walk(e) == {e} \cup UNION {walk(Kids(e)[i]) : i \in DOMAIN Kids(e)}
is_aggregate(op) == op \in {"count", "sum", "avg", "min", "max", "collect"}
has_aggregate(e) == \E x \in walk(e) : is_aggregate(x.op) \/ x.op = "count(*)"
VarsX(e) == {x.n : x \in {y \in walk(e) : y.op = "var"}}
RECURSIVE map_vars(_, _)
\* Variables outside comprehensions, replaced.
map_vars(e, by) ==
    CASE e.op = "var"  -> IF e.n \in DOMAIN by THEN by[e.n] ELSE e
      [] e.op = "comp" -> e
      [] OTHER         -> WithKids(e, [i \in DOMAIN Kids(e) |-> map_vars(Kids(e)[i], by)])
RECURSIVE replace_subexprs(_, _)
\* Expressions equal to a target, replaced by the variable of its item.
replace_subexprs(e, items) ==
    LET found == {i \in DOMAIN items : items[i].e = e}
    IN  CASE found # {}    -> VarX(items[Min(found)].name)
          [] e.op = "comp" -> e
          [] OTHER         -> WithKids(e, [i \in DOMAIN Kids(e) |-> replace_subexprs(Kids(e)[i], items)])

Failures == {"error", "misuse"}
Failed(v) == v.t \in Failures
\* A variable that is not defined, or an aggregate out of place.
Misuse == [t |-> "misuse"]
FirstFailed(vs) == vs[Min({i \in DOMAIN vs : Failed(vs[i])})]
AnyFailed(vs) == \E i \in DOMAIN vs : Failed(vs[i])

-----------------------------------------------------------------------------
(* Evaluation of expressions by the interpreter.                           *)

truthy(v) == v.t \in {"null", "bool"}
TruthOf(v) == IF v.t = "null" THEN <<>> ELSE <<v.v>>
binary_values(op, x, y) ==
    CASE op = "="        -> OrNull(cypher_eq(x, y))
      [] op = "<"        -> IF Null \in {x, y} \/ cypher_cmp(x, y) = <<>> THEN Null ELSE Bool(cypher_cmp(x, y)[1] = -1)
      [] op = "in"       -> IF y = Null THEN Null ELSE IF y.t # "list" THEN Error ELSE OrNull(In(x, y.v))
      [] Null \in {x, y} -> Null
      [] x.t = "int" /\ y.t = "int" -> arith_int(op, x.v, y.v)
      [] OTHER           -> Error
RECURSIVE eval(_, _)
eval(e, row) ==
    LET vals == [i \in DOMAIN Kids(e) |-> eval(Kids(e)[i], row)]
        inner(item) == (e.n :> item) @@ row
    IN  CASE e.op = "var"      -> IF e.n \in DOMAIN row THEN row[e.n] ELSE Misuse
          [] e.op = "const"    -> e.v
          [] has_aggregate(e) /\ (is_aggregate(e.op) \/ e.op = "count(*)") -> Misuse
          [] e.op = "comp"     ->
                LET list == eval(e.args[1], row)
                    keeps == [i \in DOMAIN list.v |-> eval(e.args[2], inner(list.v[i]))]
                IN  CASE Failed(list) \/ list = Null -> list
                      [] list.t # "list" -> Error
                      [] AnyFailed(keeps) -> FirstFailed(keeps)
                      [] \E i \in DOMAIN keeps : ~truthy(keeps[i]) -> Error
                      [] OTHER -> List(FoldLeft(LAMBDA out, i : IF keeps[i] = Bool(TRUE) THEN Append(out, list.v[i]) ELSE out,
                                                <<>>, [i \in DOMAIN keeps |-> i]))
          [] e.op = "case"     ->
                CASE Failed(vals[1]) -> vals[1]
                  [] ~truthy(vals[1]) -> Error
                  [] vals[1] = Bool(TRUE) -> vals[2]
                  [] OTHER -> IF Len(vals) = 3 THEN vals[3] ELSE Null
          [] e.op = "and"      ->
                CASE Failed(vals[1]) -> vals[1]
                  [] ~truthy(vals[1]) -> Error
                  [] vals[1] = Bool(FALSE) -> vals[1]
                  [] Failed(vals[2]) -> vals[2]
                  [] ~truthy(vals[2]) -> Error
                  [] OTHER -> OrNull(And(TruthOf(vals[1]), TruthOf(vals[2])))
          [] AnyFailed(vals)   -> FirstFailed(vals)
          [] e.op = "list"     -> List(vals)
          [] e.op = "isnull"   -> Bool(vals[1] = Null)
          [] e.op = "not"      -> IF truthy(vals[1]) THEN OrNull(Not(TruthOf(vals[1]))) ELSE Error
          [] e.op = "coalesce" -> FoldLeft(LAMBDA out, v : IF out = Null THEN v ELSE out, Null, vals)
          [] OTHER             -> binary_values(e.op, vals[1], vals[2])

-----------------------------------------------------------------------------
(* The checks before planning. A scope maps names to kinds; "any" is the   *)
(* kind of a value that is not known to be an entity.                      *)

literal_non_bool(e) == (e.op = "const" /\ e.v.t \in {"int", "float", "string", "list"}) \/ e.op = "list"
RECURSIVE expr_ok(_, _, _)
\* ctx is "value", or "aggregate" inside an aggregate.
expr_ok(e, scope, ctx) ==
    CASE e.op = "var"       -> e.n \in DOMAIN scope
      [] e.op = "const"     -> TRUE
      [] e.op = "count(*)"  -> ctx # "aggregate"
      [] e.op = "comp"      -> expr_ok(e.args[1], scope, ctx) /\ expr_ok(e.args[2], (e.n :> "any") @@ scope, "value")
      [] is_aggregate(e.op) -> ctx # "aggregate" /\ expr_ok(e.args[1], scope, "aggregate")
      [] OTHER              -> /\ e.op \in {"not", "and"} => \A i \in DOMAIN e.args : ~literal_non_bool(e.args[i])
                               /\ \A i \in DOMAIN e.args : expr_ok(e.args[i], scope, ctx)
constant_count(e) == e = <<>> \/ (VarsX(e[1]) = {} /\ ~(e[1].op = "const" /\ (e[1].v.t = "float" \/ (e[1].v.t = "int" /\ e[1].v.v < 0))))
RECURSIVE outside_aggregates(_, _)
\* The variables an item reads outside its aggregates and the grouping keys.
outside_aggregates(e, keys) ==
    IF e \in keys \/ is_aggregate(e.op) \/ e.op \in {"count(*)", "comp"} THEN {}
    ELSE IF e.op = "var" THEN {e.n} ELSE UNION {outside_aggregates(Kids(e)[i], keys) : i \in DOMAIN Kids(e)}
RECURSIVE replace_projected(_, _)
replace_projected(e, items) ==
    IF \E i \in DOMAIN items : items[i].e = e THEN LitX(Null)
    ELSE IF e.op \in {"list", "comp", "case", "isnull"} \/ is_aggregate(e.op) THEN e
    ELSE WithKids(e, [i \in DOMAIN Kids(e) |-> replace_projected(Kids(e)[i], items)])
\* Outside its aggregates an item reads grouping keys only.
reads_keys_only(items) ==
    LET keys == {it.e : it \in {x \in Range(items) : ~has_aggregate(x.e)}}
    IN  \A i \in DOMAIN items : has_aggregate(items[i].e) => outside_aggregates(items[i].e, keys) \subseteq {k.n : k \in {x \in keys : x.op = "var"}}
aggregating(items) == \E i \in DOMAIN items : has_aggregate(items[i].e)
\* The scope after a projection, or nothing.
checked_projection(p, scope, is_with) ==
    LET named == [n \in {p.items[i].name : i \in DOMAIN p.items} |->
                     LET e == p.items[CHOOSE i \in DOMAIN p.items : p.items[i].name = n].e IN IF e.op = "var" /\ e.n \in DOMAIN scope THEN scope[e.n] ELSE "any"]
        out == IF p.star THEN named @@ scope ELSE named
        combined == out @@ scope
        ok == /\ \A i \in DOMAIN p.items : /\ expr_ok(p.items[i].e, scope, "value")
                                           /\ is_with => p.items[i].aliased \/ p.items[i].e.op = "var"
                                           /\ \A j \in DOMAIN p.items : p.items[i].name = p.items[j].name => i = j
              /\ aggregating(p.items) => reads_keys_only(p.items)
              /\ \A i \in DOMAIN p.order : expr_ok(replace_projected(p.order[i][1], p.items), combined, "value")
              /\ constant_count(p.skip) /\ constant_count(p.limit)
              /\ p.where # <<>> => expr_ok(p.where[1], IF aggregating(p.items) THEN out ELSE combined, "value")
    IN  IF ok THEN <<out>> ELSE <<>>
\* The scope after a clause, or nothing.
checked(clause, scope, last) ==
    CASE clause.c = "unwind" -> IF expr_ok(clause.e, scope, "value") /\ clause.alias \notin DOMAIN scope THEN <<(clause.alias :> "any") @@ scope>> ELSE <<>>
      [] clause.c = "match"  -> IF clause.n \notin DOMAIN scope \/ scope[clause.n] \in {"any", "node"} THEN <<scope @@ (clause.n :> "node")>> ELSE <<>>
      [] clause.c = "create" -> IF clause.n \in DOMAIN scope THEN <<>> ELSE <<(clause.n :> "node") @@ scope>>
      [] clause.c = "with"   -> checked_projection(clause.p, scope, TRUE)
      [] clause.c = "return" -> IF last THEN checked_projection(clause.p, scope, FALSE) ELSE <<>>
\* The scopes of a query's clauses, as far as they are accepted.
single(clauses) ==
    FoldLeft(LAMBDA scopes, i :
                 IF Len(scopes) # i \/ (clauses[i].c = "match" /\ i > 1 /\ clauses[i - 1].c = "create") THEN scopes
                 ELSE scopes \o checked(clauses[i], scopes[i], i = Len(clauses)),
             <<<<>>>>, [i \in DOMAIN clauses |-> i])
validate(clauses) == Len(single(clauses)) = Len(clauses) + 1

-----------------------------------------------------------------------------
(* Patterns. A pattern has a path variable, nodes and, between them,       *)
(* relationships; a variable is a sequence of at most one name.            *)

bind(scope, name, k) == IF name \in DOMAIN scope /\ scope[name] \notin {"any", k} THEN <<>> ELSE <<scope @@ (name :> k)>>
\* A step of the checks on a scope that is still accepted.
Then(scopes, ok, name, k) == IF scopes = <<>> \/ ~ok THEN <<>> ELSE IF name = <<>> THEN scopes ELSE bind(scopes[1], name[1], k)
Known(before, name) == name # <<>> /\ name[1] \in DOMAIN before
KindIn(before, name, kinds) == Known(before, name) /\ before[name[1]] \in kinds
bind_pattern(p, before, mode) ==
    LET node(s, n) == Then(s, /\ ~(mode # "match" /\ Known(before, n.var) /\ (p.rels = <<>> \/ n.described))
                              /\ ~KindIn(before, n.var, {"rel", "path", "rels"}), n.var, "node")
        rel(s, r) == Then(s, /\ mode # "match" => r.types = 1 /\ ~r.long /\ ~Known(before, r.var) /\ (mode = "create" => r.directed)
                             /\ ~KindIn(before, r.var, {"node", "path"}), r.var, IF r.long THEN "rels" ELSE "rel")
        bound == FoldLeft(rel, FoldLeft(node, <<before>>, p.nodes), p.rels)
    IN  IF bound = <<>> \/ Known(before, p.var) THEN <<>> ELSE IF p.var = <<>> THEN bound ELSE <<(p.var[1] :> "path") @@ bound[1]>>

-----------------------------------------------------------------------------
(* A projection by the interpreter. Its result has rows, or a failure.     *)

Answer(rows) == [fail |-> "", rows |-> rows]
Refused(v) == [fail |-> v.t, rows |-> <<>>]
NamesIn(set) == SelectSeq(NameOrder, LAMBDA n : n \in set)
\* The items of a projection, the star's first.
all_items(p, scope) == (IF p.star THEN LET ns == NamesIn(scope) IN [i \in DOMAIN ns |-> ItemX(VarX(ns[i]), ns[i], FALSE)] ELSE <<>>) \o p.items
ItemNames(items) == [i \in DOMAIN items |-> items[i].name]
RowOf(items, vals) == [n \in Range(ItemNames(items)) |-> vals[CHOOSE i \in DOMAIN items : items[i].name = n]]
KeyOf(row, names) == [i \in DOMAIN names |-> group_key(row[names[i]])]
\* The first of the elements that have one key.
Firsts(seq, Key(_)) == FoldLeft(LAMBDA out, x : IF \E i \in DOMAIN out : Key(out[i]) = Key(x) THEN out ELSE Append(out, x), <<>>, seq)

\* A running aggregate over the values of a group.
finish(fn, vals) ==
    LET vs == SelectSeq(vals, LAMBDA v : v # Null)
        sum == FoldLeft(LAMBDA n, v : n + v.v, 0, vs)
        numeric == \A i \in DOMAIN vs : vs[i].t = "int"
    IN  CASE fn = "count"   -> Int_(Len(vs))
          [] fn = "collect" -> List(vs)
          [] fn = "min"     -> Extreme(vs, -1)
          [] fn = "max"     -> Extreme(vs, 1)
          [] ~numeric       -> Error
          [] fn = "sum"     -> Checked(sum)
          [] OTHER          -> IF vs = <<>> THEN Null ELSE Float((2 * sum) \div Len(vs))
\* The value of one aggregate over the rows of a group.
aggregated(e, rows) ==
    LET vals == [i \in DOMAIN rows |-> IF e.op = "count(*)" THEN Bool(TRUE) ELSE eval(e.args[1], rows[i])]
    IN  IF AnyFailed(vals) THEN FirstFailed(vals)
        ELSE IF e.op = "count(*)" THEN finish("count", vals)
        ELSE finish(e.op, IF e.distinct THEN Firsts(vals, group_key) ELSE vals)
RECURSIVE extract_aggregates(_, _)
\* An item over a group: its aggregates have become constants.
extract_aggregates(e, rows) ==
    CASE is_aggregate(e.op) \/ e.op = "count(*)" -> LitX(aggregated(e, rows))
      [] e.op = "comp"   -> [e EXCEPT !.args[1] = extract_aggregates(@, rows)]
      [] e.op = "isnull" -> e
      [] OTHER           -> WithKids(e, [i \in DOMAIN Kids(e) |-> extract_aggregates(Kids(e)[i], rows)])
\* Pairs of a projected row and the row that ORDER BY and an early WHERE read,
\* unless some value failed.
Pairs(rows, env) ==
    LET bad == {v \in UNION {Range(rows[i]) : i \in DOMAIN rows} : Failed(v)}
    IN  IF bad # {} THEN Refused(CHOOSE v \in bad : TRUE) ELSE Answer([i \in DOMAIN rows |-> <<rows[i], env[i]>>])
Evaluated(items, rows) == [i \in DOMAIN rows |-> RowOf(items, [j \in DOMAIN items |-> eval(items[j].e, rows[i])])]
ungrouped(projected, rows) == Pairs(projected, [i \in DOMAIN rows |-> projected[i] @@ rows[i]])
Itself(rows) == Pairs(rows, rows)
\* The positions of the rows of each group, in the order of their first row.
Groups(keyrows, names) ==
    LET firsts == Firsts([i \in DOMAIN keyrows |-> i], LAMBDA i : KeyOf(keyrows[i], names))
    IN  [g \in DOMAIN firsts |-> SelectSeq([i \in DOMAIN keyrows |-> i], LAMBDA i : KeyOf(keyrows[i], names) = KeyOf(keyrows[firsts[g]], names))]
\* The row of a group, whose grouping keys are in env.
GroupRow(items, rows, env) == RowOf(items, [i \in DOMAIN items |-> IF has_aggregate(items[i].e) THEN eval(extract_aggregates(items[i].e, rows), env) ELSE env[items[i].name]])
grouped_by(items, rows, keyrows, groups) ==
    CASE \E i \in DOMAIN keyrows : AnyFailed(keyrows[i]) -> Refused(CHOOSE v \in UNION {Range(keyrows[i]) : i \in DOMAIN keyrows} : Failed(v))
      [] rows = <<>> /\ \A i \in DOMAIN items : has_aggregate(items[i].e) -> Itself(<<GroupRow(items, <<>>, <<>>)>>)
      [] OTHER -> Itself([g \in DOMAIN groups |-> GroupRow(items, [i \in DOMAIN groups[g] |-> rows[groups[g][i]]], keyrows[groups[g][1]])])
grouped_on(items, keys, rows, keyrows) == grouped_by(items, rows, keyrows, Groups(keyrows, ItemNames(keys)))
grouped(items, keys, rows) == grouped_on(items, keys, rows, Evaluated(keys, rows))

\* Stable insertion in an order of rows: -1, 0 or 1.
Sorted(seq, Cmp(_, _)) ==
    FoldLeft(LAMBDA out, x : LET before == {i \in DOMAIN out : Cmp(out[i], x) <= 0}
                             IN  SubSeq(out, 1, Cardinality(before)) \o <<x>> \o SubSeq(out, Cardinality(before) + 1, Len(out)), <<>>, seq)
\* The first difference of two lists of sort keys.
KeysCompare(order_, a, b, Cmp(_, _)) ==
    FoldLeft(LAMBDA o, i : IF o # 0 THEN o ELSE IF order_[i][2] THEN Cmp(a[i], b[i]) ELSE -Cmp(a[i], b[i]), 0, [i \in DOMAIN order_ |-> i])
\* What SKIP and LIMIT leave.
Paged(rows, p) ==
    LET from == IF p.skip = <<>> THEN 0 ELSE p.skip[1].v.v
        left == SubSeq(rows, from + 1, Len(rows))
    IN  IF p.limit = <<>> THEN left ELSE SubSeq(left, 1, Least(p.limit[1].v.v, Len(left)))
BadCount(e) == e # <<>> /\ ~(e[1].op = "const" /\ e[1].v.t = "int" /\ e[1].v.v >= 0)
\* WHERE reads names that the projection drops, and runs before DISTINCT.
early_where(p, names, agg) == p.where # <<>> /\ ~agg /\ p.skip = <<>> /\ p.limit = <<>> /\ ~(VarsX(p.where[1]) \subseteq names)

KeptBy(a, truths) ==
    LET bad == {j \in DOMAIN truths : Failed(truths[j]) \/ ~truthy(truths[j])}
        at == SelectSeq([j \in DOMAIN truths |-> j], LAMBDA j : truths[j] = Bool(TRUE))
    IN  IF bad # {} THEN Refused(IF Failed(truths[Min(bad)]) THEN truths[Min(bad)] ELSE Error)
        ELSE [a EXCEPT !.rows = [j \in DOMAIN at |-> @[at[j]]]]
\* WHERE over pairs: position i of the pair is the row it reads.
Filtered(a, where, i) == IF a.fail # "" \/ where = <<>> THEN a ELSE KeptBy(a, [j \in DOMAIN a.rows |-> eval(where[1], a.rows[j][i])])
Once(a, distinct, names) == IF distinct /\ a.fail = "" THEN [a EXCEPT !.rows = Firsts(@, LAMBDA x : KeyOf(x[1], names))] ELSE a
SortedBy(a, order_, keys) ==
    LET bad == {j \in DOMAIN keys : AnyFailed(keys[j])}
        by == Sorted([j \in DOMAIN keys |-> j], LAMBDA j, k : KeysCompare(order_, keys[j], keys[k], order))
    IN  IF bad # {} THEN Refused(FirstFailed(keys[Min(bad)])) ELSE [a EXCEPT !.rows = [j \in DOMAIN by |-> a.rows[by[j]]]]
Ordered(a, p, items) ==
    IF a.fail # "" \/ p.order = <<>> THEN a
    ELSE SortedBy(a, p.order, [j \in DOMAIN a.rows |-> [i \in DOMAIN p.order |-> eval(replace_subexprs(p.order[i][1], items), a.rows[j][2])]])
Cut(a, p) == CASE a.fail # "" -> a [] BadCount(p.skip) \/ BadCount(p.limit) -> Refused(Misuse) [] OTHER -> [a EXCEPT !.rows = Paged(@, p)]
\* The clauses of a projection after its items.
finished(p, items, names, early, a) ==
    Filtered(Cut(Ordered(Once(Filtered(a, IF early THEN p.where ELSE <<>>, 2), p.distinct, names), p, items), p),
             IF early THEN <<>> ELSE p.where, 1)
project_items(p, items, rows) ==
    finished(p, items, ItemNames(items), early_where(p, Range(ItemNames(items)), aggregating(items)),
             IF aggregating(items) THEN grouped(items, SelectSeq(items, LAMBDA it : ~has_aggregate(it.e)), rows)
             ELSE ungrouped(Evaluated(items, rows), rows))
FirstsOf(a) == [a EXCEPT !.rows = [i \in DOMAIN @ |-> @[i][1]]]
project(rows, p) == FirstsOf(project_items(p, all_items(p, UNION {DOMAIN r : r \in Range(rows)}), rows))

\* What UNWIND lists.
Elements(v) == CASE v = Null -> <<>> [] v.t = "list" -> v.v [] OTHER -> <<v>>
\* A clause by the interpreter.
Unwound(alias, rows, lists) ==
    IF AnyFailed(lists) THEN Refused(FirstFailed(lists))
    ELSE Answer(FoldLeft(LAMBDA out, i : out \o [j \in DOMAIN Elements(lists[i]) |-> (alias :> Elements(lists[i])[j]) @@ rows[i]], <<>>, [i \in DOMAIN rows |-> i]))
exec_clause(clause, rows) ==
    CASE clause.c \in {"with", "return"} -> project(rows, clause.p)
      [] clause.c = "create" -> Answer([i \in DOMAIN rows |-> (clause.n :> Node(Len(GraphNodes) + i)) @@ rows[i]])
      [] clause.c = "unwind" -> Unwound(clause.alias, rows, [i \in DOMAIN rows |-> eval(clause.e, rows[i])])


-----------------------------------------------------------------------------
(* The same projections as SQL. Lowering accepts an expression (""), or    *)
(* refuses it as "unsupported", for the interpreter, or as "semantic", for *)
(* the caller. What is an error to the interpreter is a null to SQL.       *)

RECURSIVE is_constant(_)
is_constant(e) == e.op = "const" \/ (e.op = "list" /\ \A i \in DOMAIN e.args : is_constant(e.args[i]))
RECURSIVE constant(_)
\* The value of a constant expression.
constant(e) == IF e.op = "const" THEN e.v ELSE List([i \in DOMAIN e.args |-> constant(e.args[i])])
ConstantList(e) == is_constant(e) /\ constant(e).t = "list"
FirstError(errors) == FoldLeft(LAMBDA out, x : IF out = "" THEN x ELSE out, "", errors)
\* Lowers to a variable, which is all that IS NULL can test.
ToVariable(e) == e.op = "var" \/ e = LitX(Null)
RECURSIVE lower_err(_, _)
lower_err(e, scope) ==
    LET kids == [i \in DOMAIN Kids(e) |-> lower_err(Kids(e)[i], scope)]
    IN  CASE is_constant(e)        -> IF ConstantList(e) THEN "unsupported" ELSE ""
          [] e.op = "var"          -> IF e.n \in scope THEN "" ELSE "semantic"
          [] is_aggregate(e.op)    -> "semantic"
          [] e.op \in {"count(*)", "list", "comp"} -> "unsupported"
          [] e.op = "isnull"       -> FirstError(<<kids[1], IF ToVariable(e.args[1]) THEN "" ELSE "unsupported">>)
          [] e.op = "in"           -> FirstError(<<kids[1], IF ConstantList(e.args[2]) THEN "" ELSE "unsupported">>)
          [] e.op = "case"         -> IF Len(kids) = 3 THEN FirstError(<<kids[3], kids[1], kids[2]>>) ELSE "unsupported"
          [] OTHER                 -> FirstError(kids)
RECURSIVE agg_rewrite_err(_, _)
agg_rewrite_err(e, scope) ==
    CASE e.op = "count(*)"        -> ""
      [] e.op = "collect"         -> "unsupported"
      [] is_aggregate(e.op)       -> lower_err(e.args[1], scope)
      [] e.op \in {"+", "-", "*", "/", "=", "<"} -> FirstError([i \in DOMAIN e.args |-> agg_rewrite_err(e.args[i], scope)])
      [] ~has_aggregate(e)        -> IF is_constant(e) /\ ~ConstantList(e) /\ e # LitX(Null) THEN "" ELSE "unsupported"
      [] OTHER                    -> "unsupported"

OrSqlNull(v) == IF Failed(v) THEN Null ELSE v
\* Integers divide with truncation: the quotient is cast to an integer.
div_expr(x, y) == IF Null \in {x, y} \/ y = Int_(0) THEN Null ELSE Int_(IF y.v > 0 THEN Quot(x.v, y.v) ELSE -Quot(x.v, -y.v))
RECURSIVE SqlEval(_, _)
SqlEval(e, row) ==
    LET vals == [i \in DOMAIN Kids(e) |-> SqlEval(Kids(e)[i], row)]
    IN  CASE e.op = "var"      -> row[e.n]
          [] e.op = "const"    -> e.v
          [] e.op = "isnull"   -> Bool(vals[1] = Null)
          [] e.op = "not"      -> OrNull(Not(TruthOf(vals[1])))
          [] e.op = "and"      -> OrNull(And(TruthOf(vals[1]), TruthOf(vals[2])))
          [] e.op = "in"       -> LET items == SelectSeq(constant(e.args[2]).v, LAMBDA v : v # Null)
                                  IN  IF vals[1] = Null THEN Null ELSE Bool(\E i \in DOMAIN items : cypher_eq(vals[1], items[i]) = <<TRUE>>)
          [] e.op = "case"     -> IF vals[1] = Bool(TRUE) THEN vals[2] ELSE vals[3]
          [] e.op = "coalesce" -> FoldLeft(LAMBDA out, v : IF out = Null THEN v ELSE out, Null, vals)
          [] e.op = "/"        -> div_expr(vals[1], vals[2])
          [] OTHER             -> OrSqlNull(binary_values(e.op, vals[1], vals[2]))

\* SPARQL's aggregates: unbound values do not count, AVG of nothing is 0.
SparqlAggregate(fn, vs) ==
    LET sum == FoldLeft(LAMBDA n, v : n + v.v, 0, vs)
    IN  CASE fn = "count" -> Int_(Len(vs))
          [] fn = "sum"   -> OrSqlNull(Checked(sum))
          [] fn = "avg"   -> IF vs = <<>> THEN Int_(0) ELSE Float((2 * sum) \div Len(vs))
          [] fn = "min"   -> Extreme(vs, -1)
          [] fn = "max"   -> Extreme(vs, 1)
SqlAggregateOf(e, values) ==
    LET vs == IF e.distinct THEN Firsts(values, group_key) ELSE values
    IN  IF e.op = "avg" /\ vs = <<>> THEN Null ELSE SparqlAggregate(e.op, vs)
sql_aggregate(e, rows) ==
    IF e.op = "count(*)" THEN Int_(Len(rows))
    ELSE SqlAggregateOf(e, SelectSeq([i \in DOMAIN rows |-> SqlEval(e.args[1], rows[i])], LAMBDA v : v # Null))
RECURSIVE agg_rewrite(_, _)
agg_rewrite(e, rows) ==
    IF is_aggregate(e.op) \/ e.op = "count(*)" THEN LitX(sql_aggregate(e, rows))
    ELSE WithKids(e, [i \in DOMAIN Kids(e) |-> agg_rewrite(Kids(e)[i], rows)])
SqlEvaluated(items, rows) == [i \in DOMAIN rows |-> RowOf(items, [j \in DOMAIN items |-> SqlEval(items[j].e, rows[i])])]
SqlGroupRow(items, rows, key) == RowOf(items, [i \in DOMAIN items |-> IF has_aggregate(items[i].e) THEN SqlEval(agg_rewrite(items[i].e, rows), <<>>) ELSE key[items[i].name]])
\* GROUP BY; without keys there is one group.
sql_grouped(items, rows, keyrows) ==
    IF \A i \in DOMAIN items : has_aggregate(items[i].e) THEN <<SqlGroupRow(items, rows, <<>>)>>
    ELSE LET firsts == Firsts([i \in DOMAIN keyrows |-> i], LAMBDA i : keyrows[i])
             of(g) == SelectSeq([i \in DOMAIN keyrows |-> i], LAMBDA i : keyrows[i] = keyrows[firsts[g]])
         IN  [g \in DOMAIN firsts |-> LET at == of(g) IN SqlGroupRow(items, [i \in DOMAIN at |-> rows[at[i]]], keyrows[firsts[g]])]

\* Whether the key is unbound, then the key.
SqlOrder(x, y) == IF (x = Null) # (y = Null) THEN (IF y = Null THEN -1 ELSE 1) ELSE IF x = Null THEN 0 ELSE order(x, y)

\* Counts min() and max() over all items.
MinMaxes(items) == FoldLeft(LAMBDA n, it : n + Cardinality({x \in walk(it.e) : x.op \in {"min", "max"}}), 0, items)
count_err(e) == IF BadCount(e) THEN "semantic" ELSE ""
\* Why a projection does not become SQL, if it does not.
projection_err(p, scope) ==
    LET items == all_items(p, scope)
        names == Range(ItemNames(items))
        agg == aggregating(items)
        early == early_where(p, names, agg)
        sort == [i \in DOMAIN p.order |-> replace_subexprs(p.order[i][1], items)]
    IN  FirstError(<<IF MinMaxes(items) > 1 THEN "unsupported" ELSE "">>
                   \o [i \in DOMAIN items |-> IF has_aggregate(items[i].e) THEN agg_rewrite_err(items[i].e, scope) ELSE lower_err(items[i].e, scope)]
                   \o (IF early THEN <<lower_err(p.where[1], names \cup scope)>> ELSE <<>>)
                   \o [i \in DOMAIN sort |-> lower_err(sort[i], IF agg THEN names ELSE names \cup scope)]
                   \o <<count_err(p.skip), count_err(p.limit)>>
                   \o (IF p.where # <<>> /\ ~early THEN <<lower_err(p.where[1], names)>> ELSE <<>>))
SqlWhere(pairs, where, i) == IF where = <<>> THEN pairs ELSE SelectSeq(pairs, LAMBDA x : SqlEval(where[1], x[i]) = Bool(TRUE))
SqlSorted(pairs, p, items) ==
    LET keyed == [j \in DOMAIN pairs |-> <<pairs[j], [i \in DOMAIN p.order |-> SqlEval(replace_subexprs(p.order[i][1], items), pairs[j][2])]>>]
        sorted == Sorted(keyed, LAMBDA a, b : KeysCompare(p.order, a[2], b[2], SqlOrder))
    IN  [j \in DOMAIN pairs |-> sorted[j][1]]
SqlDistinct(pairs, distinct) == IF distinct THEN Firsts(pairs, LAMBDA x : x[1]) ELSE pairs
SqlPairs(projected, rows, agg) == [i \in DOMAIN projected |-> <<projected[i], IF agg THEN projected[i] ELSE projected[i] @@ rows[i]>>]
\* An early WHERE, ORDER BY, the projected columns, DISTINCT, the slice, WHERE.
sql_finished(p, items, early, pairs) ==
    SqlWhere(Paged(SqlDistinct(SqlSorted(SqlWhere(pairs, IF early THEN p.where ELSE <<>>, 2), p, items), p.distinct), p), IF early THEN <<>> ELSE p.where, 1)
sql_items(p, items, rows) ==
    sql_finished(p, items, early_where(p, Range(ItemNames(items)), aggregating(items)),
                 SqlPairs(IF aggregating(items) THEN sql_grouped(items, rows, SqlEvaluated(SelectSeq(items, LAMBDA it : ~has_aggregate(it.e)), rows)) ELSE SqlEvaluated(items, rows),
                          rows, aggregating(items)))
FirstRows(pairs) == [i \in DOMAIN pairs |-> pairs[i][1]]
projection(rows, p, scope) == FirstRows(sql_items(p, all_items(p, scope), rows))

-----------------------------------------------------------------------------
(* The plan. Clauses become SQL until the first that cannot; the rest runs *)
(* in the interpreter on the rows of the query so far.                     *)

Crossed(rows, name, items) == FoldLeft(LAMBDA out, r : out \o [i \in DOMAIN items |-> (name :> items[i]) @@ r], <<>>, rows)
\* A pattern of one node: every node, or the node that is already bound.
Matched(rows, n) ==
    IF rows # <<>> /\ n \in DOMAIN rows[1] THEN SelectSeq(rows, LAMBDA r : r[n] # Null) ELSE Crossed(rows, n, GraphNodes)
\* The elements of a constant that a VALUES table can hold.
unwind_values(e) == is_constant(e) /\ \A i \in DOMAIN Elements(constant(e)) : Elements(constant(e))[i].t # "list"
\* ORDER BY, SKIP and LIMIT of a plain RETURN, over the variables it reads.
sort_only(p) ==
    LET aliased == {i \in DOMAIN p.items : p.items[i].aliased}
        by == [n \in {p.items[i].name : i \in aliased} |-> p.items[CHOOSE i \in aliased : p.items[i].name = n].e]
    IN  [Projection(<<>>) EXCEPT !.star = TRUE, !.skip = p.skip, !.limit = p.limit,
                            !.order = [i \in DOMAIN p.order |-> <<map_vars(p.order[i][1], by), p.order[i][2]>>]]
Sorts(p) == p.order # <<>> \/ p.skip # <<>> \/ p.limit # <<>>
Unsorted(p) == [p EXCEPT !.order = <<>>, !.skip = <<>>, !.limit = <<>>]
Aggregates(p) == p.distinct \/ aggregating(p.items)

Planned(in_sql, fail, rows, scope) == [in_sql |-> in_sql, fail |-> fail, rows |-> rows, scope |-> scope]
Ran(a) == Planned(FALSE, a.fail, a.rows, {})
\* A RETURN without aggregation: SQL orders and pages, the interpreter projects.
InParts(clause, plan) == plan.in_sql /\ clause.c = "return" /\ ~Aggregates(clause.p)
ForSql(clause, plan) == IF InParts(clause, plan) THEN sort_only(clause.p) ELSE clause.p
LowerErr(clause, plan) ==
    IF plan.in_sql /\ clause.c \in {"with", "return"} /\ (InParts(clause, plan) => Sorts(clause.p)) THEN projection_err(ForSql(clause, plan), plan.scope) ELSE ""
SqlRows(clause, plan, p, err) ==
    IF plan.in_sql /\ err = "" /\ clause.c \in {"with", "return"} /\ (InParts(clause, plan) => Sorts(clause.p))
    THEN projection(plan.rows, p, plan.scope) ELSE plan.rows
\* The clause goes to SQL if it can; refused as unsupported, to the interpreter.
plan_projection(clause, plan, p, err, rows) ==
    LET in_sql == plan.in_sql /\ err = "" /\ clause.c \in {"with", "return"}
    IN  CASE err = "semantic" -> Planned(FALSE, "semantic", <<>>, {})
          [] in_sql /\ ~InParts(clause, plan) -> Planned(TRUE, "", rows, Range(ItemNames(all_items(p, plan.scope))))
          [] OTHER -> Ran(exec_clause(IF in_sql THEN [clause EXCEPT !.p = Unsorted(@)] ELSE clause, rows))
plan_lowered(clause, plan, p, err) == plan_projection(clause, plan, p, err, SqlRows(clause, plan, p, err))
plan_clause(clause, plan) ==
    CASE plan.fail # "" -> plan
      [] clause.c = "match" -> IF plan.in_sql THEN Planned(TRUE, "", Matched(plan.rows, clause.n), plan.scope \cup {clause.n})
                               ELSE Planned(FALSE, "unsupported", <<>>, {})
      [] plan.in_sql /\ clause.c = "unwind" /\ unwind_values(clause.e) ->
            Planned(TRUE, "", Crossed(plan.rows, clause.alias, Elements(constant(clause.e))), plan.scope \cup {clause.alias})
      [] OTHER -> plan_lowered(clause, plan, IF clause.c \in {"with", "return"} THEN ForSql(clause, plan) ELSE Projection(<<>>), LowerErr(clause, plan))
plan_single(clauses) == FoldLeft(LAMBDA plan, c : plan_clause(c, plan), Planned(TRUE, "", <<<<>>>>, {}), clauses)

\* What Cypher defines: each clause maps the rows of the one before it.
Interpreted(clauses) ==
    FoldLeft(LAMBDA a, c : IF a.fail # "" THEN a ELSE IF c.c = "match" THEN Answer(Matched(a.rows, c.n)) ELSE exec_clause(c, a.rows),
             Answer(<<<<>>>>), clauses)

-----------------------------------------------------------------------------
\* A query is an input with what the checks, the plan and Cypher make of it.
ProjectionInit ==
    \/ \E q \in CypherQueries :
           input = [of |-> "projection", last |-> q[Len(q)].p, scopes |-> single(q), valid |-> validate(q), plan |-> plan_single(q), ref |-> Interpreted(q)]
    \/ \E x \in PatternClauses : input = [of |-> "pattern", p |-> x.p, before |-> x.before, mode |-> x.mode]

SameBag(a, b) == Len(a) = Len(b) /\ \A x \in Range(a) : Cardinality({i \in DOMAIN a : a[i] = x}) = Cardinality({i \in DOMAIN b : b[i] = x})
\* The last projection orders by every name that it returns.
FullyOrdered(p) == p.items # <<>> /\ ~p.star /\ {p.items[i].name : i \in DOMAIN p.items} \subseteq UNION {VarsX(p.order[i][1]) : i \in DOMAIN p.order}

\* A plan that is not refused as unsupported has the rows of the reference.
Agree(last, plan, ref) ==
    ref.fail = "" /\ plan.fail # "unsupported" =>
        plan.fail = "" /\ SameBag(plan.rows, ref.rows) /\ (FullyOrdered(last) => plan.rows = ref.rows)
\* However many clauses become SQL, a query that the checks accept and Cypher
\* can evaluate has Cypher's rows: nulls group, sort and aggregate alike on
\* both sides of the boundary, aliases and dropped variables are read in
\* ORDER BY and WHERE alike, and pages are taken of the same order.
PlansAgree ==
    Is("projection") /\ input.valid => Agree(input.last, input.plan, input.ref)

\* The rows of a plan have the names of the last scope.
Defined(plan, scopes) == plan.fail \notin {"misuse", "semantic"} /\ \A i \in DOMAIN plan.rows : DOMAIN plan.rows[i] = DOMAIN scopes[Len(scopes)]
\* A query that the checks accept reads no variable that is not there, has no
\* aggregate where none is allowed, wherever it runs, and its rows have the
\* names that the checks found.
ValidQueriesAreDefined == Is("projection") /\ input.valid => Defined(input.plan, input.scopes)

NodeVars(p) == {n.var[1] : n \in {x \in Range(p.nodes) : x.var # <<>>}}
RelVars_(p, long) == {r.var[1] : r \in {x \in Range(p.rels) : x.var # <<>> /\ x.long = long}}
\* A pattern that is accepted uses every variable as one kind of thing, the
\* kind it had before if it had a known one, and writing patterns bind only
\* new relationships.
ValidPatternsBind ==
    Is("pattern") =>
        LET bound == bind_pattern(input.p, input.before, input.mode)
            as == <<NodeVars(input.p), RelVars_(input.p, FALSE), RelVars_(input.p, TRUE)>>
            kinds == <<"node", "rel", "rels">>
            Loose(v) == <<v>> = input.p.var \/ KindIn(input.before, <<v>>, {"any"})
        IN  bound # <<>> =>
            /\ \A i \in 1..3 : \A v \in as[i] : Loose(v) \/ (bound[1][v] = kinds[i] /\ (Known(input.before, <<v>>) => input.before[v] = kinds[i]))
            /\ DOMAIN bound[1] = DOMAIN input.before \cup as[1] \cup as[2] \cup as[3] \cup Range(input.p.var)
            /\ input.mode # "match" => (as[2] \cup as[3]) \cap DOMAIN input.before = {}
=============================================================================
