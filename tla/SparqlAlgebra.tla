--------------------------- MODULE SparqlAlgebra ----------------------------
(***************************************************************************)
(* SPARQL: terms, the algebra of graph patterns, and its evaluation as the *)
(* recommendation defines it. A solution is a function from variables to   *)
(* terms, a bag of solutions a sequence, an error or an unbound variable   *)
(* Null. This is what the SQL of SparqlCompiler is measured against.       *)
(***************************************************************************)
EXTENDS Integers, Sequences, FiniteSets, FiniteSetsExt, SequencesExt

CONSTANTS
    Null,     \* SQL's NULL, an error, an unbound variable
    Window    \* half the range of time zones, in units of a timestamp

\* n is the value, l tells apart terms of one value: the lexical forms of a
\* decimal, the language of a string, whether a date has a time zone.
T(k, n, l) == [k |-> k, n |-> n, l |-> l]
Iri(n) == T("iri", n, 0)
Bnode(n) == T("bnode", n, 0)
Str(n) == T("string", n, 0)     \* Str(0) is the empty string
Int_(n) == T("int", n, 0)
Dec(n, l) == T("dec", n, l)
Bool(b) == T("bool", b, 0)
DefaultGraph == T("none", 0, 0)

Truth(p) == IF p THEN 1 ELSE 0
not3(a) == IF a = Null THEN Null ELSE 1 - a
and3(a, b) == IF a = 0 \/ b = 0 THEN 0 ELSE IF a = Null \/ b = Null THEN Null ELSE 1
or3(a, b) == not3(and3(not3(a), not3(b)))
Least(S, before(_, _)) == CHOOSE x \in S : \A y \in S : x = y \/ before(x, y)

IsNum(t) == t # Null /\ t.k \in {"int", "dec"}

\* "less", "greater", "equal", or Null where the time zones decide.
DateOrder(a, b) ==
    LET shifts == IF a.l = b.l THEN {0} ELSE (-Window) .. Window
    IN  IF \A d \in shifts : a.n + d < b.n THEN "less"
        ELSE IF \A d \in shifts : a.n + d > b.n THEN "greater"
        ELSE IF a.l = b.l THEN "equal" ELSE Null

OrderOf(a, b) == IF a.n < b.n THEN "less" ELSE IF a.n > b.n THEN "greater" ELSE "equal"

\* How two terms compare: by value where their types have one, else Null.
Comparison(a, b) ==
    IF a = Null \/ b = Null THEN Null
    ELSE IF IsNum(a) /\ IsNum(b) THEN OrderOf(a, b)
    ELSE IF a.k = b.k /\ a.k \in {"string", "bool"} THEN OrderOf(a, b)
    ELSE IF a.k = "lang" /\ b.k = "lang" /\ a.l = b.l THEN OrderOf(a, b)
    ELSE IF a.k = "date" /\ b.k = "date" THEN DateOrder(a, b)
    ELSE Null

\* a = b: terms without a common type differ unless both are literals.
Equals(a, b) ==
    IF a = Null \/ b = Null THEN Null
    ELSE IF a = b THEN 1
    ELSE IF Comparison(a, b) # Null THEN Truth(Comparison(a, b) = "equal")
    ELSE IF {a.k, b.k} \cap {"iri", "bnode"} # {} \/ {a.k, b.k} = {"lang"} THEN 0 ELSE Null

Holds(op, a, b) ==
    IF op = "=" THEN Equals(a, b)
    ELSE IF Comparison(a, b) = Null THEN Null
    ELSE Truth(Comparison(a, b) \in CASE op = "<" -> {"less"} [] op = "<=" -> {"less", "equal"}
                                      [] op = ">" -> {"greater"} [] op = ">=" -> {"greater", "equal"})

\* The effective boolean value.
Ebv(t) ==
    IF t = Null \/ t.k \notin {"bool", "int", "dec", "string"} THEN Null ELSE Truth(t.n # 0)

BoolTerm(b) == IF b = Null THEN Null ELSE Bool(b)

-----------------------------------------------------------------------------
(* Patterns are records; field op says which. A position of a triple       *)
(* pattern is a variable (v > 0) or a term (v = 0).                        *)

Var(v) == [v |-> v, t |-> DefaultGraph]
Const(t) == [v |-> 0, t |-> t]

\* The elements of a finite set, in some order.
Listing(S) == FoldSet(LAMBDA x, s : Append(s, x), <<>>, S)

Concat(ss) == FoldLeft(LAMBDA acc, s : acc \o s, <<>>, ss)
Each(Op(_), s) == Concat([i \in 1 .. Len(s) |-> Op(s[i])])
Count(s, x) == Cardinality({i \in 1 .. Len(s) : s[i] = x})
SameBag(s, t) == Len(s) = Len(t) /\ \A i \in 1 .. Len(s) : Count(s, s[i]) = Count(t, s[i])
Deduped(s) == Each(LAMBDA i : IF \E j \in 1 .. i - 1 : s[j] = s[i] THEN <<>> ELSE <<s[i]>>, [i \in 1 .. Len(s) |-> i])

Compatible(m, n) == \A v \in DOMAIN m \cap DOMAIN n : m[v] = n[v]
Only(m, vs) == [v \in DOMAIN m \cap vs |-> m[v]]
Bound(m, v) == IF v \in DOMAIN m THEN m[v] ELSE Null
NoBinding == [v \in {} |-> Null]

\* The solution, if any, of matching positions ps with the terms ts.
Matched(ps, ts) ==
    LET is == 1 .. Len(ps)
        vs == {ps[i].v : i \in is} \ {0}
    IN  IF /\ \A i \in is : ps[i].v = 0 => ps[i].t = ts[i]
           /\ \A i, j \in is : ps[i].v = ps[j].v /\ ps[i].v # 0 => ts[i] = ts[j]
        THEN <<[v \in vs |-> ts[CHOOSE i \in is : ps[i].v = v]]>> ELSE <<>>

\* The triples of the active graph; the default graph merges some graphs.
Merged(db) == IF db.default = "union" THEN {q[4] : q \in db.quads} \cup {DefaultGraph}
              ELSE IF db.default = "zero" THEN {DefaultGraph} ELSE db.list
Active(c) == {<<q[1], q[2], q[3]>> : q \in {x \in c.db.quads : x[4] \in (IF c.graph = DefaultGraph THEN Merged(c.db) ELSE {c.graph})}}

\* How solutions are ordered: unbound, blank nodes, IRIs, numbers by value,
\* other literals by lexical form, datatype and language.
Ranks == [bnode |-> 1, iri |-> 2, int |-> 3, dec |-> 3, string |-> 4, bool |-> 4, lang |-> 4, date |-> 4, odd |-> 4]
Rank(t) == IF t = Null THEN 0 ELSE Ranks[t.k]
SortsBefore(a, b) == \/ Rank(a) < Rank(b)
                     \/ Rank(a) = Rank(b) /\ a # Null /\ b # Null /\ a.n < b.n

RECURSIVE Evaluated(_, _, _), Value(_, _, _), PathSolutions(_, _, _, _)

\* The value of expression e in solution m; EXISTS sees m as a substitution.
Value(e, m, c) ==
    CASE e.op = "var" -> IF e.v \in DOMAIN m THEN m[e.v] ELSE Bound(c.sub, e.v)
      [] e.op = "const" -> e.t
      [] e.op \in {"=", "<", "<=", ">", ">="} -> BoolTerm(Holds(e.op, Value(e.a, m, c), Value(e.b, m, c)))
      [] e.op = "same" -> LET x == Value(e.a, m, c) y == Value(e.b, m, c) IN IF x = Null \/ y = Null THEN Null ELSE Bool(Truth(x = y))
      [] e.op = "not" -> BoolTerm(not3(Ebv(Value(e.a, m, c))))
      [] e.op = "and" -> BoolTerm(and3(Ebv(Value(e.a, m, c)), Ebv(Value(e.b, m, c))))
      [] e.op = "or" -> BoolTerm(or3(Ebv(Value(e.a, m, c)), Ebv(Value(e.b, m, c))))
      [] e.op = "bound" -> Bool(Truth(Value([op |-> "var", v |-> e.v], m, c) # Null))
      [] e.op = "+" -> LET x == Value(e.a, m, c) y == Value(e.b, m, c)
                       IN  IF ~(IsNum(x) /\ IsNum(y)) THEN Null
                           ELSE IF x.k = "dec" \/ y.k = "dec" THEN Dec(x.n + y.n, 0) ELSE Int_(x.n + y.n)
      [] e.op = "if" -> LET x == Ebv(Value(e.a, m, c)) IN IF x = Null THEN Null ELSE IF x = 1 THEN Value(e.b, m, c) ELSE Value(e.c, m, c)
      [] e.op = "coalesce" -> LET x == Value(e.a, m, c) IN IF x # Null THEN x ELSE Value(e.b, m, c)
      [] e.op = "in" -> BoolTerm(FoldLeft(LAMBDA r, x : or3(r, Equals(Value(e.a, m, c), x)),
                                          IF Value(e.a, m, c) = Null THEN Null ELSE 0, e.list))
      [] e.op = "exists" -> LET d == [c EXCEPT !.sub = m @@ c.sub]
                            IN  Bool(Truth(\E i \in DOMAIN Evaluated(e.p, d, TRUE) : Compatible(Evaluated(e.p, d, TRUE)[i], d.sub)))

Joined(s, t) == Each(LAMBDA m : Each(LAMBDA n : IF Compatible(m, n) THEN <<m @@ n>> ELSE <<>>, t), s)

\* A closure relates the nodes of the graph and the constants of the pattern.
Reached(R, N) ==
    LET From(x) == FoldLeft(LAMBDA S, i : S \cup {e[2] : e \in {d \in R : d[1] = x \/ d[1] \in S}}, {}, [i \in 1 .. Cardinality(N) |-> i])
    IN  UNION {{<<x, y>> : y \in From(x)} : x \in N}
PathSolutions(s, p, o, c) ==
    LET E == Active(c)
        consts == {x.t : x \in {y \in {s, o} : y.v = 0}}
        N == {t[1] : t \in E} \cup {t[3] : t \in E} \cup consts
        inner == PathSolutions(Var(98), p.a, Var(99), c)
        R == {<<inner[i][98], inner[i][99]>> : i \in DOMAIN inner}
        pairs == CASE p.op = "star" -> Reached(R, N) \cup {<<x, x>> : x \in N}
                   [] p.op = "plus" -> Reached(R, N)
                   [] p.op = "opt" -> R \cup {<<x, x>> : x \in N}
        mid == Var(100 + p.depth)
    IN  CASE p.op = "link" -> Each(LAMBDA t : Matched(<<s, Const(p.t), o>>, t), Listing(E))
          [] p.op = "neg" -> Each(LAMBDA t : IF t[2] = p.t THEN <<>> ELSE Matched(<<s, o>>, <<t[1], t[3]>>), Listing(E))
          [] p.op = "inv" -> PathSolutions(o, p.a, s, c)
          [] p.op = "seq" -> LET found == Joined(PathSolutions(s, p.a, mid, c), PathSolutions(mid, p.b, o, c))
                             IN  [i \in DOMAIN found |-> Only(found[i], {s.v, o.v})]
          [] p.op = "alt" -> PathSolutions(s, p.a, o, c) \o PathSolutions(s, p.b, o, c)
          [] OTHER -> Each(LAMBDA x : Matched(<<s, o>>, x), Listing(pairs))

\* The value of an aggregate over the solutions of a group.
Aggregated(a, ms) ==
    LET all == Each(LAMBDA m : IF Bound(m, a.x) = Null THEN <<>> ELSE <<m[a.x]>>, ms)
        xs == IF a.distinct THEN Deduped(all) ELSE all
        sum == FoldLeft(LAMBDA r, x : r + x.n, 0, xs)
    IN  CASE a.fn = "count*" -> Int_(Len(ms))
          [] a.fn = "count" -> Int_(Len(xs))
          [] a.fn = "sum" -> IF \E i \in DOMAIN xs : ~IsNum(xs[i]) THEN Null
                             ELSE IF \E i \in DOMAIN xs : xs[i].k = "dec" THEN Dec(sum, 0) ELSE Int_(sum)
          [] a.fn = "min" -> IF xs = <<>> THEN Null ELSE Least({xs[i] : i \in DOMAIN xs}, SortsBefore)
          [] a.fn = "max" -> IF xs = <<>> THEN Null ELSE Least({xs[i] : i \in DOMAIN xs}, LAMBDA x, y : SortsBefore(y, x))

Put(m, v, x) == IF x = Null THEN m ELSE (v :> x) @@ m

\* The solutions of pattern p; under EXISTS the substitution restricts the
\* basic patterns.
Evaluated(p, c, exists) ==
    CASE p.op = "bgp" ->
            LET found == FoldLeft(LAMBDA s, tp : Joined(s, Each(LAMBDA t : Matched(tp, t), Listing(Active(c)))), <<NoBinding>>, p.tps)
            IN  IF exists THEN SelectSeq(found, LAMBDA m : Compatible(m, c.sub)) ELSE found
      [] p.op = "path" -> PathSolutions(p.s, p.path, p.o, c)
      [] p.op = "join" -> Joined(Evaluated(p.left, c, exists), Evaluated(p.right, c, exists))
      [] p.op = "union" -> Evaluated(p.left, c, exists) \o Evaluated(p.right, c, exists)
      [] p.op = "leftjoin" ->
            LET right == Evaluated(p.right, c, exists)
                Kept(m) == SelectSeq(Joined(<<m>>, right), LAMBDA n : p.e.op = "const" \/ Ebv(Value(p.e, n, c)) = 1)
            IN  Each(LAMBDA m : IF Kept(m) = <<>> THEN <<m>> ELSE Kept(m), Evaluated(p.left, c, exists))
      [] p.op = "minus" ->
            LET right == Evaluated(p.right, [c EXCEPT !.sub = NoBinding], FALSE)
            IN  SelectSeq(Evaluated(p.left, c, exists), LAMBDA m : \A i \in DOMAIN right :
                    ~Compatible(m, right[i]) \/ DOMAIN m \cap DOMAIN right[i] = {})
      [] p.op = "filter" -> SelectSeq(Evaluated(p.left, c, exists), LAMBDA m : Ebv(Value(p.e, m, c)) = 1)
      [] p.op = "extend" -> LET s == Evaluated(p.left, c, exists) IN [i \in DOMAIN s |-> Put(s[i], p.v, Value(p.e, s[i], c))]
      [] p.op = "values" -> p.rows
      [] p.op = "graph" -> IF p.g.v = 0 THEN (IF p.g.t \in c.db.graphs THEN Evaluated(p.left, [c EXCEPT !.graph = p.g.t], exists) ELSE <<>>)
                           ELSE Each(LAMBDA g : Joined(Evaluated(p.left, [c EXCEPT !.graph = g], exists), <<p.g.v :> g>>), Listing(c.db.graphs))
      [] p.op = "project" -> LET s == Evaluated(p.left, c, exists) IN [i \in DOMAIN s |-> Only(s[i], p.vars)]
      [] p.op = "distinct" -> Deduped(Evaluated(p.left, c, exists))
      [] p.op = "orderby" -> SortSeq(Evaluated(p.left, c, exists), LAMBDA m, n :
                                 IF p.desc THEN SortsBefore(Value(p.e, n, c), Value(p.e, m, c)) ELSE SortsBefore(Value(p.e, m, c), Value(p.e, n, c)))
      [] p.op = "slice" -> LET s == Evaluated(p.left, c, exists) IN SubSeq(s, p.start + 1, IF p.start + p.length < Len(s) THEN p.start + p.length ELSE Len(s))
      [] p.op = "group" ->
            LET s == Evaluated(p.left, c, exists)
                keys == IF p.vars = {} THEN <<NoBinding>> ELSE Deduped([i \in DOMAIN s |-> Only(s[i], p.vars)])
            IN  [i \in DOMAIN keys |-> FoldLeft(LAMBDA m, a : Put(m, a.v, Aggregated(a, SelectSeq(s, LAMBDA n : Only(n, p.vars) = keys[i]))),
                                               keys[i], p.aggs)]
=============================================================================
