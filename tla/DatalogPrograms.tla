-------------------------- MODULE DatalogPrograms ---------------------------
(***************************************************************************)
(* Datalog programs: the checks that a program passes, its strata, and the *)
(* SQL that each stratum becomes, a common table expression, one recursive *)
(* member or rounds of insertions, measured against the model that the     *)
(* rules have. A relation is a set of rows, a row a sequence of terms.     *)
(***************************************************************************)
EXTENDS Inputs, Integers, Sequences, FiniteSets, FiniteSetsExt, SequencesExt

CONSTANTS
    Programs,       \* programs: sequences of rules
    Stores,         \* sets of quads <<s, p, o, g>>
    GraphSizes,     \* numbers of predicates of dependency graphs
    Unknown         \* SQL's NULL

(* Syntax.                                                                 *)

Var(v) == [k |-> "var", x |-> v]
Const(t) == [k |-> "const", t |-> t]
Any_ == [k |-> "any", x |-> 0]
Agg(fn, v) == [k |-> fn, x |-> v]
AggFns == {"count", "max"}
\* Item kinds: "atom", "not", and "if" for a constraint.
Atom(p, args) == [k |-> "atom", pred |-> p, args |-> args]
NotAtom(p, args) == [k |-> "not", pred |-> p, args |-> args]
If(e) == [k |-> "if", e |-> e]
Rule(p, args, body) == [head |-> p, args |-> args, body |-> body]

TypePredicate == "type"
DefaultGraph_ == 0
ArgVars(args) == {args[i].x : i \in {j \in DOMAIN args : args[j].k = "var"}}
\* Which items of a body are of one kind.
OfKind(rule, kind) == SelectSeq(rule.body, LAMBDA item : item.k = kind)
positive(rule) == OfKind(rule, "atom")
negated_(rule) == OfKind(rule, "not")
constraints(rule) == OfKind(rule, "if")
aggregates(rule) == \E i \in DOMAIN rule.args : rule.args[i].k \in AggFns
Heads(program) == {program[i].head : i \in DOMAIN program}
rules_for(program, p) == SelectSeq(program, LAMBDA r : r.head = p)

-----------------------------------------------------------------------------
(* Constraints: an expression becomes SQL that produces a term's id, a     *)
(* number or a boolean. A term is an inline integer or a stored literal    *)
(* with or without a number.                                               *)

Term(k, n) == [k |-> k, n |-> n]
Integer(n) == Term("int", n)
Decimal(n) == Term("decimal", n)
TextNo(n) == Term("text", n)
TrueTerm == Term("bool", 1)
Class(iri) == Term(iri, 0)

VarE(v) == [op |-> "var", x |-> v]
ConstE(t) == [op |-> "const", t |-> t]
Op1(op, a) == [op |-> op, a |-> a]
Op2(op, a, b) == [op |-> op, a |-> a, b |-> b]

Id(t) == [kind |-> "id", t |-> t, n |-> 0]
Num(n) == [kind |-> "num", t |-> TrueTerm, n |-> n]
Bool_(n) == [kind |-> "bool", t |-> TrueTerm, n |-> n]

Truth_(p) == IF p THEN 1 ELSE 0
not_3(a) == IF a = Unknown THEN Unknown ELSE 1 - a
and_3(a, b) == IF a = 0 \/ b = 0 THEN 0 ELSE IF Unknown \in {a, b} THEN Unknown ELSE 1
\* The value of an inline id, or of the row of a stored term.
numeric(t) == IF t.k \in {"int", "decimal"} THEN t.n ELSE Unknown
as_num(v) == IF v.kind = "id" THEN numeric(v.t) ELSE v.n
as_bool(v) ==
    CASE v.kind = "id" -> Truth_(v.t = TrueTerm)
      [] v.kind = "num" -> IF v.n = Unknown THEN Unknown ELSE Truth_(v.n # 0)
      [] OTHER -> v.n
Compare(op, a, b) ==
    IF Unknown \in {a, b} THEN Unknown
    ELSE Truth_(CASE op = "=" -> a = b [] op = "!=" -> a # b [] op = "<" -> a < b [] op = "<=" -> a <= b [] op = ">" -> a > b [] OTHER -> a >= b)
Arithmetic(op, a, b) == IF Unknown \in {a, b} THEN Unknown ELSE CASE op = "+" -> a + b [] op = "-" -> a - b [] OTHER -> a * b
RECURSIVE expr(_, _)
\* A number of the program is a value; two terms are equal if their ids are.
expr(e, env) ==
    CASE e.op = "var" -> Id(env[e.x])
      [] e.op = "const" -> IF numeric(e.t) # Unknown THEN Num(e.t.n) ELSE Id(e.t)
      [] e.op = "neg" -> Num(LET n == as_num(expr(e.a, env)) IN IF n = Unknown THEN Unknown ELSE -n)
      [] e.op = "not" -> Bool_(not_3(as_bool(expr(e.a, env))))
      [] e.op = "and" -> Bool_(and_3(as_bool(expr(e.a, env)), as_bool(expr(e.b, env))))
      [] e.op = "or" -> Bool_(not_3(and_3(not_3(as_bool(expr(e.a, env))), not_3(as_bool(expr(e.b, env))))))
      [] e.op \in {"+", "-", "*"} -> Num(Arithmetic(e.op, as_num(expr(e.a, env)), as_num(expr(e.b, env))))
      [] OTHER ->
            LET l == expr(e.a, env)
                r == expr(e.b, env)
            IN  IF e.op \in {"=", "!="} /\ l.kind = "id" /\ r.kind = "id" THEN Bool_(Truth_((l.t = r.t) = (e.op = "=")))
                ELSE Bool_(Compare(e.op, as_num(l), as_num(r)))
Satisfied(item, env) == as_bool(expr(item.e, env)) = 1
RECURSIVE expr_vars(_)
expr_vars(e) ==
    CASE e.op = "var" -> {e.x}
      [] e.op = "const" -> {}
      [] e.op = "call" -> UNION {expr_vars(e.args[i]) : i \in DOMAIN e.args}
      [] e.op \in {"neg", "not"} -> expr_vars(e.a)
      [] OTHER -> expr_vars(e.a) \cup expr_vars(e.b)

-----------------------------------------------------------------------------
(* The checks.                                                             *)

Uses(program) == UNION {{<<item.pred, Len(item.args)>> : item \in Range(positive(program[i])) \cup Range(negated_(program[i]))} : i \in DOMAIN program}
arity(program, p) == Len(rules_for(program, p)[1].args)
\* A relation that rules define has one arity; one of the store has two columns, or one for a class.
ArityAgrees(program) ==
    /\ \A i, j \in DOMAIN program : program[i].head = program[j].head => Len(program[i].args) = Len(program[j].args)
    /\ \A u \in Uses(program) : IF u[1] \in Heads(program) THEN u[2] = arity(program, u[1])
                                ELSE u[2] \in (IF u[1] = "triple" THEN {3, 4} ELSE {1, 2})
Bound(rule) == UNION {ArgVars(a.args) : a \in Range(positive(rule))}
check_safety(program) ==
    \A i \in DOMAIN program :
        LET rule == program[i]
        IN  /\ {rule.args[j].x : j \in {k \in DOMAIN rule.args : rule.args[k].k \in AggFns \cup {"var"}}} \subseteq Bound(rule)
            /\ UNION {ArgVars(a.args) : a \in Range(negated_(rule))} \subseteq Bound(rule)
            /\ UNION {expr_vars(c.e) : c \in Range(constraints(rule))} \subseteq Bound(rule)

\* The order of Dep: the stronger of two dependencies stands.
Positive == 1
Negative == 2
Aggregating == 3
\* The predicates in the order of their first rules, and how each depends on the others.
nodes_of(program) == FoldLeft(LAMBDA out, r : IF r.head \in Range(out) THEN out ELSE Append(out, r.head), <<>>, program)
dependency_graph(program) ==
    LET nodes == nodes_of(program)
        deps(v, w) == UNION {{CASE item.k = "not" -> Negative [] aggregates(r) -> Aggregating [] OTHER -> Positive :
                                 item \in {x \in Range(positive(r)) \cup Range(negated_(r)) : x.pred = nodes[w]}} :
                             r \in Range(rules_for(program, nodes[v]))}
        found == {e \in (DOMAIN nodes) \X (DOMAIN nodes) : deps(e[1], e[2]) # {}}
    IN  [e \in found |-> Max(deps(e[1], e[2]))]

-----------------------------------------------------------------------------
(* Strongly connected components (Tarjan). A node is not visited while its *)
(* index is 0.                                                             *)

MinOf(a, b) == IF a < b THEN a ELSE b
LowOfSeen(st, v, w) == IF w \in Range(st.stack) THEN MinOf(st.low[v], st.index[w]) ELSE st.low[v]
\* The stack from v to its top, as a component in the order of the nodes.
Popped(st, v) ==
    LET at == CHOOSE i \in DOMAIN st.stack : st.stack[i] = v
        component == {st.stack[i] : i \in at .. Len(st.stack)}
    IN  [st EXCEPT !.stack = SubSeq(st.stack, 1, at - 1), !.out = Append(@, SetToSortSeq(component, <))]
Pushed(st, v) == [st EXCEPT !.index[v] = st.next, !.low[v] = st.next, !.next = @ + 1, !.stack = Append(@, v)]
RECURSIVE strongconnect(_, _, _)
strongconnect(st, v, succ) ==
    LET end == FoldLeft(LAMBDA s, w : IF s.index[w] = 0
                                      THEN LET s1 == strongconnect(s, w, succ) IN [s1 EXCEPT !.low[v] = MinOf(@, s1.low[w])]
                                      ELSE [s EXCEPT !.low[v] = LowOfSeen(s, v, w)],
                        Pushed(st, v), succ[v])
    IN  IF end.index[v] = end.low[v] THEN Popped(end, v) ELSE end
tarjan(n, edges) ==
    LET succ == [v \in 1 .. n |-> SetToSortSeq({w \in 1 .. n : <<v, w>> \in edges}, <)]
        start == [index |-> [v \in 1 .. n |-> 0], low |-> [v \in 1 .. n |-> 0], stack |-> <<>>, next |-> 1, out |-> <<>>]
    IN  FoldLeft(LAMBDA st, v : IF st.index[v] = 0 THEN strongconnect(st, v, succ) ELSE st, start, [v \in 1 .. n |-> v]).out
component_of(sccs, v) == CHOOSE c \in DOMAIN sccs : v \in Range(sccs[c])

\* No component needs one of its relations to be complete.
check_stratification(sccs, deps) ==
    \A e \in DOMAIN deps : deps[e] # Positive => component_of(sccs, e[1]) # component_of(sccs, e[2])
\* Of the components whose dependencies are all out, the first.
topological(sccs, edges) ==
    LET needs(c) == {component_of(sccs, e[2]) : e \in {x \in edges : component_of(sccs, x[1]) = c}} \ {c}
        next(out) == {c \in DOMAIN sccs \ Range(out) : needs(c) \subseteq Range(out)}
    IN  FoldLeft(LAMBDA out, i : IF next(out) = {} THEN out ELSE Append(out, Min(next(out))), <<>>, sccs)
RecursiveAtoms(program, preds) ==
    {Cardinality({i \in DOMAIN positive(r) : positive(r)[i].pred \in preds}) : r \in {x \in Range(program) : x.head \in preds}}
\* How a component is evaluated.
shape_of(program, preds) ==
    LET counts == RecursiveAtoms(program, preds)
    IN  CASE counts \subseteq {0} -> "NonRecursive"
          [] \E n \in counts : n > 1 -> "NonLinear"
          [] Cardinality(preds) > 1 -> "LinearMutual"
          [] OTHER -> "Linear"

analyse(program) ==
    LET nodes == nodes_of(program)
        deps == dependency_graph(program)
        sccs == tarjan(Len(nodes), DOMAIN deps)
        order == topological(sccs, DOMAIN deps)
        preds(i) == [j \in DOMAIN sccs[order[i]] |-> nodes[sccs[order[i]][j]]]
    IN  IF ~ArityAgrees(program) THEN [error |-> "Arity", strata |-> <<>>]
        ELSE IF ~check_safety(program) THEN [error |-> "Unsafe", strata |-> <<>>]
        ELSE IF ~check_stratification(sccs, deps) THEN [error |-> "Unstratified", strata |-> <<>>]
        ELSE [error |-> "", strata |-> [i \in DOMAIN order |-> [preds |-> preds(i), shape |-> shape_of(program, Range(preds(i)))]]]

-----------------------------------------------------------------------------
(* One rule. rels are the relations that rules define so far.              *)

\* The rows an atom reads: of the relation, or of the quads.
source_of(atom, rels, quads, union) ==
    LET here == {q \in quads : union \/ q[4] = DefaultGraph_}
    IN  CASE atom.pred \in DOMAIN rels -> rels[atom.pred]
          [] atom.pred = "triple" /\ Len(atom.args) = 3 -> {<<q[1], q[2], q[3]>> : q \in here}
          [] atom.pred = "triple" /\ Len(atom.args) = 4 -> quads
          [] Len(atom.args) = 1 -> {<<q[1]>> : q \in {x \in here : x[2] = TypePredicate /\ x[3] = Class(atom.pred)}}
          [] OTHER -> {<<q[1], q[3]>> : q \in {x \in here : x[2] = atom.pred}}
\* Does a row agree with the constants, the bindings so far and itself?
RowMatches(args, row, env) ==
    \A i \in DOMAIN args : /\ args[i].k = "const" => row[i] = args[i].t
                           /\ args[i].k = "var" => /\ args[i].x \in DOMAIN env => row[i] = env[args[i].x]
                                                   /\ \A j \in DOMAIN args : args[j].k = "var" /\ args[j].x = args[i].x => row[j] = row[i]
Extended(args, row, env) ==
    [v \in DOMAIN env \cup ArgVars(args) |-> IF v \in DOMAIN env THEN env[v] ELSE row[CHOOSE i \in DOMAIN args : args[i].k = "var" /\ args[i].x = v]]
bind_atom(atom, rows, envs) == UNION {{Extended(atom.args, row, env) : row \in {x \in rows : RowMatches(atom.args, x, env)}} : env \in envs}
\* Every variable of a negated atom is bound.
negated(atom, rows, env) == ~\E row \in rows : RowMatches(atom.args, row, env)

Projected(rule, env) == [i \in DOMAIN rule.args |-> IF rule.args[i].k = "var" THEN env[rule.args[i].x] ELSE rule.args[i].t]
\* The rows of one group of bindings.
aggregate(rule, group) ==
    [i \in DOMAIN rule.args |->
        LET a == rule.args[i]
        IN  CASE a.k = "count" -> Integer(Cardinality(group))
              [] a.k = "max" /\ group = {} -> Unknown
              [] a.k = "max" /\ group # {} -> CHOOSE t \in {env[a.x] : env \in group} : \A env \in group : env[a.x].n <= t.n
              [] OTHER -> Projected(rule, CHOOSE env \in group : TRUE)[i]]
\* The rows of a rule, each positive atom of which reads the rows given for it.
rule_select(rule, rows, rels, quads, union) ==
    LET bound == FoldLeft(LAMBDA envs, i : bind_atom(positive(rule)[i], rows[i], envs), {<<>>}, [i \in DOMAIN positive(rule) |-> i])
        kept == {env \in bound : /\ \A a \in Range(negated_(rule)) : negated(a, source_of(a, rels, quads, union), env)
                                 /\ \A c \in Range(constraints(rule)) : Satisfied(c, env)}
        grouped == \E i \in DOMAIN rule.args : rule.args[i].k \notin AggFns
        key(env) == [i \in {j \in DOMAIN rule.args : rule.args[j].k \notin AggFns} |-> Projected(rule, env)[i]]
    IN  IF ~aggregates(rule) THEN {Projected(rule, env) : env \in kept}
        ELSE IF grouped THEN {aggregate(rule, {env \in kept : key(env) = k}) : k \in {key(env) : env \in kept}}
        ELSE {aggregate(rule, kept)}
\* ... each of which reads its source.
Selected(rule, rels, quads, union) ==
    rule_select(rule, [i \in DOMAIN positive(rule) |-> source_of(positive(rule)[i], rels, quads, union)], rels, quads, union)

-----------------------------------------------------------------------------
(* One stratum.                                                            *)

recursive(rule, preds) == \E a \in Range(positive(rule)) : a.pred \in preds
\* The terms of a predicate: those that seed the recursion come first.
rule_selects(program, p, preds) ==
    SelectSeq(rules_for(program, p), LAMBDA r : ~recursive(r, preds)) \o SelectSeq(rules_for(program, p), LAMBDA r : recursive(r, preds))
\* The terms of a component's member, predicate by predicate.
arms(program, preds) == FoldLeft(LAMBDA out, p : out \o rule_selects(program, p, Range(preds)), <<>>, preds)
\* What SQLite takes as a recursive member: at least one term without a
\* reference to the member, and none after one that has it.
IsMember(terms, preds) ==
    terms # <<>> /\ ~recursive(terms[1], preds) /\ \A i \in 2 .. Len(terms) : recursive(terms[i - 1], preds) => recursive(terms[i], preds)
\* The rows that the terms of a recursive member give for one row of its queue.
Advanced(terms, preds, tagged, rels, quads, union) ==
    UNION {{[pred |-> r.head, row |-> x] :
               x \in rule_select(r, [i \in DOMAIN positive(r) |->
                                        LET a == positive(r)[i]
                                        IN  IF a.pred \notin preds THEN source_of(a, rels, quads, union)
                                            ELSE IF a.pred = tagged.pred THEN {tagged.row} ELSE {}], rels, quads, union)} :
           r \in {x \in Range(terms) : recursive(x, preds)}}
RECURSIVE Drained(_, _, _, _, _)
\* The queue of a recursive member: a row is read once, new rows join.
Drained(terms, preds, seen, queue, ctx) ==
    IF queue = {} THEN seen
    ELSE LET tagged == CHOOSE t \in queue : TRUE
             new == Advanced(terms, preds, tagged, ctx.rels, ctx.quads, ctx.union) \ seen
         IN  Drained(terms, preds, seen \cup new, (queue \ {tagged}) \cup new, ctx)
member(terms, preds, ctx) ==
    LET seeds == UNION {{[pred |-> r.head, row |-> x] : x \in Selected(r, ctx.rels, ctx.quads, ctx.union)} :
                        r \in {x \in Range(terms) : ~recursive(x, preds)}}
    IN  Drained(terms, preds, seeds, seeds, ctx)

\* Inserted into the work table by one statement after the other.
inserted(rules, rels, ctx) ==
    FoldLeft(LAMBDA work, r : [work EXCEPT ![r.head] = @ \cup Selected(r, work @@ ctx.rels, ctx.quads, ctx.union)], rels, rules)
RECURSIVE Rounds(_, _, _)
Rounds(step, work, ctx) == LET next == inserted(step, work, ctx) IN IF next = work THEN work ELSE Rounds(step, next, ctx)
\* The predicates of a component that is iterated, seeded and then grown.
fixpoint(program, preds, ctx) ==
    LET rules == FoldLeft(LAMBDA out, p : out \o rules_for(program, p), <<>>, preds)
        seed == SelectSeq(rules, LAMBDA r : ~recursive(r, Range(preds)))
        step == SelectSeq(rules, LAMBDA r : recursive(r, Range(preds)))
    IN  Rounds(step, inserted(seed, [p \in Range(preds) |-> {}], ctx), ctx)

\* The relations of a stratum.
stratum(program, s, ctx) ==
    LET terms == arms(program, s.preds)
        preds == Range(s.preds)
        rows == member(terms, preds, ctx)
    IN  CASE s.shape = "NonRecursive" -> [p \in preds |-> UNION {Selected(r, ctx.rels, ctx.quads, ctx.union) : r \in Range(rules_for(program, p))}]
          [] s.shape = "NonLinear" -> fixpoint(program, s.preds, ctx)
          [] OTHER -> [p \in preds |-> {t.row : t \in {x \in rows : x.pred = p}}]
\* Every relation, the strata in their order.
compile_for(program, strata, quads, union) ==
    FoldLeft(LAMBDA rels, s : stratum(program, s, [rels |-> rels, quads |-> quads, union |-> union]) @@ rels, <<>>, strata)
\* Does SQLite take the members of the strata?
Compiles(program, strata) ==
    \A i \in DOMAIN strata : strata[i].shape \in {"Linear", "LinearMutual"} => IsMember(arms(program, strata[i].preds), Range(strata[i].preds))

-----------------------------------------------------------------------------
(* What programs mean.                                                     *)

RECURSIVE Fixed(_, _, _, _)
\* The least relations that the rules of some predicates give over others.
Fixed(rules, rels, quads, union) ==
    LET next == [p \in DOMAIN rels |-> rels[p] \cup UNION {Selected(r, rels, quads, union) : r \in {x \in rules : x.head = p}}]
    IN  IF next = rels THEN rels ELSE Fixed(rules, next, quads, union)
\* Levels: a predicate is above those it depends on other than positively.
RECURSIVE Levels(_, _)
Levels(deps, level) ==
    LET next == [v \in DOMAIN level |-> Max({level[v]} \cup {level[e[2]] + (IF deps[e] = Positive THEN 0 ELSE 1) : e \in {x \in DOMAIN deps : x[1] = v}})]
    IN  IF next = level THEN level ELSE Levels(deps, next)
\* The model of a stratified program, level by level.
PerfectModel(program, quads, union) ==
    LET nodes == nodes_of(program)
        level == Levels(dependency_graph(program), [v \in DOMAIN nodes |-> 0])
        of(n) == {r \in Range(program) : \E v \in DOMAIN nodes : nodes[v] = r.head /\ level[v] = n}
    IN  FoldLeft(LAMBDA rels, n : Fixed(of(n), rels, quads, union), [p \in Heads(program) |-> {}], [n \in 1 .. Len(nodes) + 1 |-> n - 1])

DatalogInit ==
    \/ \E n \in GraphSizes : \E deps \in UNION {[es -> {Positive, Negative}] : es \in SUBSET ((1 .. n) \X (1 .. n))} :
          input = [of |-> "dependencies", n |-> n, deps |-> deps]
    \/ \E p \in Programs, quads \in Stores, union \in BOOLEAN :
          input = [of |-> "program", p |-> p, quads |-> quads, union |-> union]

RECURSIVE Reaching(_, _)
\* The nodes that edges lead to from a set of nodes.
Reaching(edges, from) ==
    LET next == from \cup {e[2] : e \in {x \in edges : x[1] \in from}} IN IF next = from THEN from ELSE Reaching(edges, next)

\* The components are the sets of predicates that depend on one another,
\* each of which comes after everything it depends on, and a program is
\* refused exactly if a negated or aggregated predicate depends on the head
\* that uses it (tarjan, topological, check_stratification).
StrataAreStratified ==
    Is("dependencies") =>
        LET edges == DOMAIN input.deps
            sccs == tarjan(input.n, edges)
            order == topological(sccs, edges)
            reach == [v \in 1 .. input.n |-> Reaching(edges, {v})]
            place(v) == CHOOSE i \in DOMAIN order : v \in Range(sccs[order[i]])
        IN  /\ {Range(sccs[c]) : c \in DOMAIN sccs} = {{w \in 1 .. input.n : w \in reach[v] /\ v \in reach[w]} : v \in 1 .. input.n}
            /\ Len(order) = Len(sccs)
            /\ \A e \in edges : place(e[2]) <= place(e[1])
            /\ check_stratification(sccs, input.deps) <=> \A e \in edges : input.deps[e] = Negative => e[1] \notin reach[e[2]]

HasItsModel(analysis, p, quads, union) ==
    analysis.error = "" /\ Compiles(p, analysis.strata) => compile_for(p, analysis.strata, quads, union) = PerfectModel(p, quads, union)
\* Whatever a program that passes the checks and that SQLite takes is
\* compiled to, each relation has the rows that the rules have in the
\* model of the program: recursive members that read one row at a time,
\* tagged members of several predicates and rounds of insertions
\* (analyse, compile_for, union_of_rules, mutual, fixpoint).
ProgramsHaveTheirModel ==
    Is("program") => HasItsModel(analyse(input.p), input.p, input.quads, input.union)

\* A mutually recursive component is evaluated: whatever passes the checks
\* becomes a statement that SQLite takes (mutual).
ComponentsCompile == Is("program") => (analyse(input.p).error = "" => Compiles(input.p, analyse(input.p).strata))
=============================================================================
