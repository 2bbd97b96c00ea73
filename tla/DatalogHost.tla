---------------------------- MODULE DatalogHost -----------------------------
(***************************************************************************)
(* Datalog rules that call functions of the application. SQL cannot call   *)
(* them: the part of such a rule without calls runs as an auxiliary rule,  *)
(* the calls run in Rust on each of its rows, and the rows that are left   *)
(* replace the rule as facts. Measured against the program in which each   *)
(* function is one more relation of the store.                             *)
(***************************************************************************)
EXTENDS DatalogPrograms, Functions

CONSTANTS
    HostFunctions,  \* what the registered functions give, name -> <<term>> -> term
    Iris,           \* function names that are IRIs, registered or not
    HostPrograms,   \* records of rules and a goal
    OrderPrograms,  \* sequences of rules whose order is looked at
    NumberExprs,    \* expressions without calls
    NumberEnvs      \* bindings of their variables to numbers

\* A call; x tells the calls of a program apart.
CallE(f, args, x) == [op |-> "call", f |-> f, args |-> args, x |-> x]
GoalOf(atom, filters) == [atom |-> atom, constraints |-> filters]
FalseTerm == Term("bool", 0)
\* An expression or a row that ends the program with an error.
CallFailed == Term("failed", 0)

-----------------------------------------------------------------------------
(* Which rules and items are evaluated in Rust.                            *)

RECURSIVE walk_calls(_)
walk_calls(e) ==
    CASE e.op \in {"var", "const"} -> {}
      [] e.op = "call" -> {e} \cup UNION {walk_calls(e.args[i]) : i \in DOMAIN e.args}
      [] e.op \in {"neg", "not"} -> walk_calls(e.a)
      [] OTHER -> walk_calls(e.a) \cup walk_calls(e.b)
calls_host(e) == \E c \in walk_calls(e) : c.f \in Iris
is_host_atom(item) == item.k # "if" /\ item.pred \in DOMAIN HostFunctions
is_host_rule(rule) ==
    \E item \in Range(rule.body) : (item.k = "atom" /\ is_host_atom(item)) \/ (item.k = "if" /\ calls_host(item.e))

\* Why a program that calls functions is refused, "" if it is not.
uses_host_functions(p) ==
    LET exprs == UNION {{c.e : c \in Range(constraints(r))} : r \in Range(p.rules)} \cup Range(p.goal.constraints)
        named == {c.f : c \in UNION {walk_calls(e) : e \in exprs}} \cap Iris
    IN  CASE ~named \subseteq DOMAIN HostFunctions -> "unknown function"
          [] \E r \in Range(p.rules) : \E a \in Range(negated_(r)) : is_host_atom(a) -> "negated call"
          [] OTHER -> ""

\* The variables that the store binds, and the items that it evaluates.
StoreAtoms(rule) == SelectSeq(positive(rule), LAMBDA a : ~is_host_atom(a))
sql_bound(rule) == UNION {ArgVars(a.args) : a \in Range(StoreAtoms(rule))}
is_sql_item(item, rule) ==
    CASE item.k = "atom" -> ~is_host_atom(item)
      [] item.k = "not" -> TRUE
      [] OTHER -> ~calls_host(item.e) /\ expr_vars(item.e) \subseteq sql_bound(rule)
SqlItems(rule) == SelectSeq(rule.body, LAMBDA item : is_sql_item(item, rule))
RustItems(rule) == SelectSeq(rule.body, LAMBDA item : ~is_sql_item(item, rule))

-----------------------------------------------------------------------------
(* The order of the rules that call functions.                             *)

\* The derived relations that a body reads, directly and in the end.
body_preds(rules, rule) == {item.pred : item \in Range(positive(rule)) \cup Range(negated_(rule))} \cap Heads(rules)
RECURSIVE closure(_, _)
closure(rules, preds) ==
    LET next == preds \cup UNION {body_preds(rules, r) : r \in {x \in Range(rules) : x.head \in preds}}
    IN  IF next = preds THEN preds ELSE closure(rules, next)
HostDeps(rules) == [i \in {j \in DOMAIN rules : is_host_rule(rules[j])} |-> closure(rules, body_preds(rules, rules[i]))]
\* Of the rules left, the first that reads no head of another one is next.
Queue(rules, deps) ==
    LET ready(left) == {i \in left : ~\E j \in left \ {i} : rules[j].head \in deps[i]}
        left(out) == DOMAIN deps \ Range(out)
    IN  FoldLeft(LAMBDA out, n : IF ready(left(out)) = {} THEN out ELSE Append(out, Min(ready(left(out)))), <<>>, rules)
\* The error and the queue of a new job.
NewJob(rules, deps) ==
    LET wrong == {i \in DOMAIN deps : aggregates(rules[i]) \/ rules[i].head \in deps[i]}
        queue == Queue(rules, deps)
    IN  CASE wrong # {} -> [error |-> IF aggregates(rules[Min(wrong)]) THEN "aggregates" ELSE "recursive", queue |-> <<>>]
          [] Len(queue) # Cardinality(DOMAIN deps) -> [error |-> "cycle", queue |-> <<>>]
          [] OTHER -> [error |-> "", queue |-> queue]

-----------------------------------------------------------------------------
(* Expressions in Rust: a term, Unknown for an evaluation error that drops *)
(* the row, or CallFailed.                                                     *)

HostCall(f, args) == IF args \in DOMAIN HostFunctions[f] THEN HostFunctions[f][args] ELSE Unknown
num_term(n, integer) == IF integer THEN Integer(n) ELSE Decimal(n)
\* The empty string is text 0.
ebv(t) == IF t.k \in {"bool", "int", "decimal", "text"} THEN Truth_(t.n # 0) ELSE Unknown
same(a, b) == IF numeric(a) # Unknown /\ numeric(b) # Unknown THEN a.n = b.n ELSE a = b
BoolTerm(p) == IF p THEN TrueTerm ELSE FalseTerm
Comparable(a, b) == (numeric(a) # Unknown /\ numeric(b) # Unknown) \/ (a.k = b.k /\ a.k \in {"bool", "text"})
\* Numbers by value, literals of one datatype by their text.
Comparison(op, a, b) == IF Comparable(a, b) THEN BoolTerm(Compare(op, a.n, b.n) = 1) ELSE Unknown
binary(op, a, b) ==
    CASE op \in {"and", "or"} ->
            IF Unknown \in {ebv(a), ebv(b)} THEN Unknown
            ELSE BoolTerm(IF op = "and" THEN ebv(a) = 1 /\ ebv(b) = 1 ELSE ebv(a) = 1 \/ ebv(b) = 1)
      [] op \in {"=", "!="} -> BoolTerm(same(a, b) = (op = "="))
      [] op \in {"<", "<=", ">", ">="} -> Comparison(op, a, b)
      [] Unknown \in {numeric(a), numeric(b)} -> Unknown
      [] OTHER -> num_term(Arithmetic(op, a.n, b.n), a.k = "int" /\ b.k = "int")
RECURSIVE eval_(_, _)
eval_(e, env) ==
    LET arg(i) == eval_(e.args[i], env)
        stops == {i \in DOMAIN e.args : arg(i) \in {Unknown, CallFailed}}
        operands == {eval_(e.a, env), eval_(e.b, env)}
        value == eval_(e.a, env)
    IN  CASE e.op = "var" -> IF e.x \in DOMAIN env THEN env[e.x] ELSE CallFailed
          [] e.op = "const" -> e.t
          [] e.op = "call" -> CASE e.f \notin DOMAIN HostFunctions -> CallFailed
                                [] stops # {} -> arg(Min(stops))
                                [] OTHER -> HostCall(e.f, [i \in DOMAIN e.args |-> arg(i)])
          [] e.op \in {"not", "neg"} -> CASE value \in {Unknown, CallFailed} -> value
                                          [] e.op = "not" -> IF ebv(value) = Unknown THEN Unknown ELSE BoolTerm(ebv(value) = 0)
                                          [] OTHER -> IF numeric(value) = Unknown THEN Unknown ELSE num_term(-value.n, value.k = "int")
          [] OTHER -> CASE CallFailed \in operands -> CallFailed
                        [] Unknown \in operands -> Unknown
                        [] OTHER -> binary(e.op, eval_(e.a, env), eval_(e.b, env))

-----------------------------------------------------------------------------
(* The calls on one row: "kept" with its bindings, "dropped" or "failed".  *)

Kept(env) == [row |-> "kept", env |-> env]
Dropped == [row |-> "dropped", env |-> <<>>]
FailedRow == [row |-> "failed", env |-> <<>>]
KeptIf(p, env) == IF p THEN Kept(env) ELSE Dropped
\* A variable that is bound is compared with the result, another one takes it.
Bind(v, t, env) == IF v \in DOMAIN env THEN KeptIf(same(t, env[v]), env) ELSE Kept((v :> t) @@ env)
\* The last argument of several is the result; a single one is tested.
RunAtom(a, env) ==
    LET inputs == IF Len(a.args) = 1 THEN a.args ELSE Front(a.args)
        unbound == \E i \in DOMAIN inputs : inputs[i].k = "any" \/ (inputs[i].k = "var" /\ inputs[i].x \notin DOMAIN env)
        result == HostCall(a.pred, [i \in DOMAIN inputs |-> IF inputs[i].k = "const" THEN inputs[i].t ELSE env[inputs[i].x]])
        output == Last(a.args)
    IN  CASE unbound -> FailedRow
          [] result = Unknown -> Dropped
          [] Len(a.args) = 1 -> KeptIf(ebv(result) = 1, env)
          [] output.k = "any" -> Kept(env)
          [] output.k = "const" -> KeptIf(same(result, output.t), env)
          [] OTHER -> Bind(output.x, result, env)
\* An equation with a variable that is not bound yet binds it.
RunConstraint(e, env) ==
    LET free(x) == x.op = "var" /\ x.x \notin DOMAIN env
        assigns == e.op = "=" /\ (free(e.a) \/ free(e.b))
        target == IF free(e.a) THEN e.a.x ELSE e.b.x
        value == IF assigns THEN eval_(IF free(e.a) THEN e.b ELSE e.a, env) ELSE eval_(e, env)
    IN  CASE value = CallFailed -> FailedRow
          [] value = Unknown -> Dropped
          [] assigns -> Bind(target, value, env)
          [] OTHER -> KeptIf(ebv(value) = 1, env)
run_items(items, env) ==
    FoldLeft(LAMBDA st, item : IF st.row # "kept" THEN st
                               ELSE IF item.k = "atom" THEN RunAtom(item, st.env) ELSE RunConstraint(item.e, st.env),
             Kept(env), items)

-----------------------------------------------------------------------------
(* A job: a run for each rule that calls functions, then one for the goal. *)

fact(head, row) == Rule(head, [i \in DOMAIN row |-> Const(row[i])], <<>>)
\* Keeps the relation defined and derives nothing.
empty_relation(rule) == Rule(rule.head, [i \in DOMAIN rule.args |-> Const(TextNo(0))], <<If(ConstE(FalseTerm))>>)
\* The facts that a rule derives from rows, or an error.
apply(rule, envs) ==
    LET results == {run_items(RustItems(rule), env) : env \in envs}
        kept == {r.env : r \in {x \in results : x.row = "kept"}}
        defined(env) == \A i \in DOMAIN rule.args : rule.args[i].k = "const" \/ (rule.args[i].k = "var" /\ rule.args[i].x \in DOMAIN env)
        rows == {Projected(rule, env) : env \in kept}
    IN  CASE FailedRow \in results \/ ~\A env \in kept : defined(env) -> [error |-> "call", facts |-> <<>>]
          [] rows = {} -> [error |-> "", facts |-> <<empty_relation(rule)>>]
          [] OTHER -> [error |-> "", facts |-> FoldSet(LAMBDA row, out : Append(out, fact(rule.head, row)), <<>>, rows)]

\* The rules with those resolved replaced by their facts and those still queued left out.
resolved_program(rules, facts, queue) ==
    FoldLeft(LAMBDA out, i : CASE i \in DOMAIN facts -> out \o facts[i] [] i \in Range(queue) -> out [] OTHER -> Append(out, rules[i]),
             <<>>, [i \in DOMAIN rules |-> i])
\* The bindings of a goal's variables in a program that is compiled and run.
goal_select(goal, rels, quads, union) ==
    {env \in bind_atom(goal.atom, source_of(goal.atom, rels, quads, union), {<<>>}) : \A c \in Range(goal.constraints) : Satisfied(If(c), env)}
AnsweredBy(analysis, rules, goal, quads, union) ==
    CASE analysis.error # "" -> [error |-> analysis.error, rows |-> {}]
      [] ~Compiles(rules, analysis.strata) -> [error |-> "sql", rows |-> {}]
      [] OTHER -> [error |-> "", rows |-> goal_select(goal, compile_for(rules, analysis.strata, quads, union), quads, union)]
Answered(rules, goal, quads, union) == AnsweredBy(analyse(rules), rules, goal, quads, union)
\* The auxiliary rule of a rule that calls functions, over the relations it needs.
AuxRun(rule, columns, base, quads, union) ==
    LET aux == Rule("__host_rule", columns, SqlItems(rule))
        needed == closure(base, body_preds(base, aux))
    IN  Answered(Append(SelectSeq(base, LAMBDA r : r.head \in needed), aux), GoalOf(Atom("__host_rule", columns), <<>>), quads, union)
Replaced(st, applied) == [error |-> applied.error, queue |-> Tail(st.queue), facts |-> (Head(st.queue) :> applied.facts) @@ st.facts]
AfterRun(st, run, rule) == IF run.error # "" THEN [st EXCEPT !.error = run.error] ELSE Replaced(st, apply(rule, run.rows))
\* The next rule of the queue; one that reads nothing runs once, over no bindings.
Resolve(st, rules, quads, union) ==
    LET rule == rules[Head(st.queue)]
        vars == SetToSortSeq(sql_bound(rule), <)
    IN  AfterRun(st, IF vars = <<>> THEN [error |-> "", rows |-> {<<>>}]
                     ELSE AuxRun(rule, [j \in DOMAIN vars |-> Var(vars[j])], resolved_program(rules, st.facts, st.queue), quads, union), rule)
\* A goal's calls filter its rows.
finish_(result, filters) ==
    LET ran == [env \in result.rows |-> run_items([i \in DOMAIN filters |-> If(filters[i])], env)]
    IN  IF FailedRow \in Range(ran) THEN [error |-> "call", rows |-> {}]
        ELSE [result EXCEPT !.rows = {env \in @ : ran[env].row = "kept"}]
\* The run of the goal, once every rule is resolved.
FinalRun(p, end, quads, union) ==
    LET filters == SelectSeq(p.goal.constraints, calls_host)
        goal == GoalOf(p.goal.atom, SelectSeq(p.goal.constraints, LAMBDA c : ~calls_host(c)))
    IN  IF end.error # "" THEN [error |-> end.error, rows |-> {}]
        ELSE finish_(Answered(resolved_program(p.rules, end.facts, <<>>), goal, quads, union), filters)
step_inner(p, job, quads, union) ==
    IF job.error # "" THEN [error |-> job.error, rows |-> {}]
    ELSE FinalRun(p, FoldLeft(LAMBDA st, n : IF st.error # "" THEN st ELSE Resolve(st, p.rules, quads, union),
                              [error |-> "", queue |-> job.queue, facts |-> <<>>], job.queue), quads, union)
prepare_program(p, quads, union) ==
    IF uses_host_functions(p) # "" THEN [error |-> uses_host_functions(p), rows |-> {}]
    ELSE step_inner(p, NewJob(p.rules, HostDeps(p.rules)), quads, union)

-----------------------------------------------------------------------------
(* What such programs mean: a function is a relation of its argument and   *)
(* its result, a test the class of what passes it.                         *)

FunctionQuads ==
    UNION {{<<a[1], f, HostFunctions[f][a], DefaultGraph_>> : a \in DOMAIN HostFunctions[f]} : f \in DOMAIN HostFunctions}
    \cup UNION {{<<a[1], TypePredicate, Class(f), DefaultGraph_>> : a \in {x \in DOMAIN HostFunctions[f] : ebv(HostFunctions[f][x]) = 1}} :
                f \in DOMAIN HostFunctions}
TermQuads(quads) ==
    {<<t, TypePredicate, Class("Term"), DefaultGraph_>> : t \in {q[1] : q \in quads \cup FunctionQuads} \cup {q[3] : q \in quads \cup FunctionQuads}}
RECURSIVE WithoutCalls(_)
\* Each call as the variable of its result.
WithoutCalls(e) ==
    CASE e.op \in {"var", "const"} -> e
      [] e.op = "call" -> VarE(e.x)
      [] e.op \in {"neg", "not"} -> [e EXCEPT !.a = WithoutCalls(@)]
      [] OTHER -> [e EXCEPT !.a = WithoutCalls(@), !.b = WithoutCalls(@)]
ArgOf(e) == CASE e.op = "const" -> Const(e.t) [] OTHER -> Var(e.x)
CallAtoms(e) == FoldSet(LAMBDA c, out : Append(out, Atom(c.f, <<ArgOf(c.args[1]), Var(c.x)>>)), <<>>, walk_calls(e))
\* Variables that only constraints bind range over the terms.
Ranged(vars) == FoldSet(LAMBDA v, out : Append(out, Atom("Term", <<Var(v)>>)), <<>>, vars)
AsRelations(rule) ==
    LET items == FoldLeft(LAMBDA out, item : out \o (IF item.k = "if" THEN CallAtoms(item.e) \o <<If(WithoutCalls(item.e))>> ELSE <<item>>), <<>>, rule.body)
        plain == [rule EXCEPT !.body = items]
        free == UNION {expr_vars(c.e) : c \in Range(constraints(plain))} \ Bound(plain)
    IN  [plain EXCEPT !.body = @ \o Ranged(free)]
Meaning(p, quads, union) ==
    LET rules == [i \in DOMAIN p.rules |-> AsRelations(p.rules[i])]
        asked == Rule("?", <<>>, FoldLeft(LAMBDA out, c : out \o CallAtoms(c) \o <<If(WithoutCalls(c))>>, <<p.goal.atom>>, p.goal.constraints))
        goal == [asked EXCEPT !.args = LET vs == SetToSortSeq(ArgVars(p.goal.atom.args), <) IN [i \in DOMAIN vs |-> Var(vs[i])]]
        full == quads \cup FunctionQuads \cup TermQuads(quads)
    IN  PerfectModel(Append(rules, goal), full, union)["?"]

HostInit ==
    \/ \E p \in HostPrograms, quads \in Stores, union \in BOOLEAN : input = [of |-> "host program", p |-> p, quads |-> quads, union |-> union]
    \/ \E rules \in OrderPrograms : input = [of |-> "host order", rules |-> rules]
    \/ \E e \in NumberExprs, env \in NumberEnvs : input = [of |-> "numbers", e |-> e, env |-> env]

\* A rule whose calls run without a row ignores the items that would give one.
ReadsItsItems(rule) == sql_bound(rule) # {} \/ SqlItems(rule) = <<>>
AsRow(env) == LET vs == SetToSortSeq(DOMAIN env, <) IN [i \in DOMAIN vs |-> env[vs[i]]]
Answers(result, p, quads, union) == result.error = "" => {AsRow(env) : env \in result.rows} = Meaning(p, quads, union)
\* Rules that call functions give later rules, negation, aggregates and the
\* goal the rows they would if each function were a relation of the store,
\* wherever their calls stand and whatever they bind (HostJob, split, apply,
\* run_items, finish).
FunctionsAreRelations ==
    Is("host program") /\ (\A r \in Range(input.p.rules) : is_host_rule(r) => ReadsItsItems(r))
        => Answers(prepare_program(input.p, input.quads, input.union), input.p, input.quads, input.union)

\* A program is refused exactly if a rule that calls a function aggregates
\* or depends on its own head; otherwise every such rule has its turn, after
\* those whose heads it reads, however indirectly (HostJob::new).
CallsRunInOrder ==
    Is("host order") =>
        LET rules == input.rules
            edges == {e \in (DOMAIN rules) \X (DOMAIN rules) : rules[e[2]].head \in body_preds(rules, rules[e[1]])}
            reads == [i \in DOMAIN rules |-> Reaching(edges, {e[2] : e \in {x \in edges : x[1] = i}})]
            host == {i \in DOMAIN rules : is_host_rule(rules[i])}
            job == NewJob(rules, HostDeps(rules))
            place(i) == CHOOSE n \in DOMAIN job.queue : job.queue[n] = i
        IN  /\ job.error # "" <=> \E i \in host : aggregates(rules[i]) \/ \E j \in reads[i] : rules[j].head = rules[i].head
            /\ job.error # "cycle"
            /\ job.error = "" => /\ Range(job.queue) = host /\ Len(job.queue) = Cardinality(host)
                                 /\ \A i, j \in host : j \in reads[i] => place(j) < place(i)

\* A constraint on numbers keeps the same rows in Rust, next to a call, as
\* in SQL without one (host::eval, sql::expr).
RustAgreesWithSql ==
    Is("numbers") => (Satisfied(If(input.e), input.env) <=> LET t == eval_(input.e, input.env) IN t # Unknown /\ ebv(t) = 1)
=============================================================================
