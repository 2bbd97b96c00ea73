----------------------------- MODULE MCDatalog ------------------------------
EXTENDS DatalogHost

X == Var(1)
Y == Var(2)
Z == Var(3)
EdgeA(a, b) == Atom("e", <<a, b>>)
ReachA(a, b) == Atom("r", <<a, b>>)

\* Reachability, written linearly and not.
StepR == Rule("r", <<X, Y>>, <<EdgeA(X, Y)>>)
LinearR == Rule("r", <<X, Z>>, <<ReachA(X, Y), EdgeA(Y, Z)>>)
ClosedR == Rule("r", <<X, Z>>, <<ReachA(X, Y), ReachA(Y, Z)>>)
\* Even and odd distances from a start.
EvenR == Rule("even", <<X>>, <<Atom("Zero", <<X>>)>>)
EvenNextR == Rule("even", <<X>>, <<EdgeA(Y, X), Atom("odd", <<Y>>)>>)
OddNextR == Rule("odd", <<X>>, <<EdgeA(Y, X), Atom("even", <<Y>>)>>)
OddOneR == Rule("odd", <<X>>, <<EdgeA(X, Const(Integer(1)))>>)
\* Negation, constraints, aggregates, quads and facts.
FarR == Rule("far", <<X, Y>>, <<EdgeA(X, Any_), EdgeA(Any_, Y), NotAtom("r", <<X, Y>>)>>)
LoopR == Rule("loop", <<X>>, <<ReachA(X, X), If(Op2("<", VarE(1), ConstE(Integer(2))))>>)
CountsR == Rule("n", <<X, Agg("count", 2)>>, <<ReachA(X, Y)>>)
TopR == Rule("m", <<Agg("max", 2)>>, <<Atom("n", <<X, Y>>)>>)
AllR == Rule("t", <<X, Y>>, <<Atom("triple", <<X, Any_, Y, Any_>>)>>)
OwnR == Rule("t", <<X, Y>>, <<Atom("triple", <<X, Const("e"), Y>>)>>)
SameR ==
    LET next == Op2("+", VarE(1), ConstE(Integer(1)))
    IN  Rule("s", <<X, Y>>, <<ReachA(X, Y), If(Op2("or", Op2("=", VarE(1), VarE(2)), Op1("not", Op2("<=", next, VarE(2)))))>>)
PairsR == Rule("b", <<X, Y>>, <<Atom("b", <<X, Z>>), ReachA(Z, Y)>>)
SeedB == Rule("b", <<X, Y>>, <<ReachA(Y, X)>>)
BackR == Rule("r", <<X, Y>>, <<Atom("b", <<X, Y>>), EdgeA(X, Y)>>)
FactE == Rule("e", <<Const(Integer(1)), Const(Integer(2))>>, <<>>)
TurnedE == Rule("e", <<Y, X>>, <<Atom("t", <<X, Y>>)>>)

MCPrograms ==
    {<<StepR, LinearR>>, <<LinearR, StepR>>, <<StepR, ClosedR>>, <<StepR, ClosedR, LinearR>>,
     <<EvenR, EvenNextR, OddNextR>>, <<OddNextR, EvenR, EvenNextR>>, <<EvenR, EvenNextR, OddNextR, OddOneR>>, <<OddOneR, EvenR, EvenNextR, OddNextR>>,
     <<StepR, ClosedR, FarR>>, <<FarR, StepR, LinearR>>, <<StepR, LinearR, LoopR>>, <<TopR, CountsR, StepR, LinearR>>,
     <<CountsR, StepR, ClosedR, TopR, FarR>>, <<AllR>>, <<OwnR>>, <<SameR, StepR, LinearR>>,
     <<StepR, SeedB, PairsR, LinearR>>, <<StepR, SeedB, BackR>>, <<StepR, SeedB, PairsR, BackR>>, <<FactE, StepR, LinearR>>, <<FactE, TurnedE, OwnR>>}
    \* Refused: unstratified, unsafe, of two arities.
    \cup {<<Rule("p", <<X>>, <<Atom("Zero", <<X>>), NotAtom("p", <<X>>)>>)>>, <<Rule("p", <<X, Agg("count", 2)>>, <<Atom("p", <<X, Y>>)>>)>>,
          <<Rule("p", <<X, Y>>, <<Atom("Zero", <<X>>)>>)>>, <<StepR, Rule("r", <<X>>, <<EdgeA(X, X)>>)>>}

EdgeQ(a, b, g) == <<Integer(a), "e", Integer(b), g>>
ZeroQ(a, g) == <<Integer(a), TypePredicate, Class("Zero"), g>>
MCStores ==
    {{}, {EdgeQ(1, 2, 0), EdgeQ(2, 3, 0), ZeroQ(1, 0)},
     {EdgeQ(1, 2, 0), EdgeQ(2, 1, 0), EdgeQ(2, 3, 0), EdgeQ(3, 1, 1), ZeroQ(2, 0)},
     {EdgeQ(1, 1, 0), EdgeQ(1, 2, 0), EdgeQ(2, 3, 0), EdgeQ(3, 4, 0), EdgeQ(4, 1, 1), ZeroQ(1, 0), ZeroQ(2, 1)},
     {<<Decimal(1), "e", Integer(1), 0>>, <<Integer(1), "e", Decimal(1), 0>>, <<TextNo(1), "e", Integer(2), 0>>}}

-----------------------------------------------------------------------------
(* Programs that call host functions. *)
\* The next number, a name for a number, a test; nothing for what they do not take.
Succ_ == [a \in {<<Integer(n)>> : n \in 1 .. 3} |-> Integer(a[1].n + 1)]
Label_ == [a \in {<<Integer(n)>> : n \in 1 .. 4} |-> TextNo(a[1].n \div 2)]
Small_ == [a \in {<<Integer(n)>> : n \in 1 .. 4} |-> Term("bool", IF a[1].n < 3 THEN 1 ELSE 0)]
MCHostFunctions == [succ |-> Succ_, label |-> Label_, small |-> Small_]
MCIris == {"succ", "label", "small", "missing"}

SuccE(e, x) == CallE("succ", <<e>>, x)
EqE(a, b) == If(Op2("=", a, b))
SuccA(a, b) == Atom("succ", <<a, b>>)
\* Calls as atoms and in constraints, before and after what binds their arguments.
NextR == Rule("next", <<X, Y>>, <<EdgeA(X, Z), SuccA(Z, Y)>>)
StepsR == Rule("next", <<X, Y>>, <<EdgeA(X, Y), SuccA(X, Y)>>)
TwiceR == Rule("next", <<X, Y>>, <<EdgeA(X, Any_), EqE(VarE(2), SuccE(SuccE(VarE(1), 11), 12))>>)
PlusR == Rule("next", <<X, Y>>, <<EdgeA(X, Any_), EqE(SuccE(VarE(1), 11), VarE(3)), EqE(VarE(2), Op2("*", VarE(3), ConstE(Integer(1))))>>)
SameTwiceR == Rule("next", <<X, Y>>, <<EdgeA(X, Any_), SuccA(X, Y), SuccA(Y, Z), If(Op2(">=", SuccE(VarE(1), 11), VarE(2))), Atom("small", <<X>>)>>)
EarlyR == Rule("next", <<X, Y>>, <<SuccA(X, Y), EdgeA(X, Any_)>>)
LateR == Rule("next", <<X, Y>>, <<EdgeA(X, Any_), If(Op2(">", VarE(2), ConstE(Integer(1)))), SuccA(X, Y)>>)
TwoR == Rule("next", <<X, Y>>, <<EdgeA(X, Any_), SuccA(X, Const(Integer(2))), EqE(VarE(2), ConstE(Integer(4)))>>)
AnyR == Rule("next", <<X, X>>, <<EdgeA(X, Y), SuccA(Y, Any_), NotAtom("r", <<Y, X>>)>>)
OnceR == Rule("next", <<X, Y>>, <<SuccA(Const(Integer(1)), X), SuccA(X, Y)>>)
GroundR == Rule("next", <<Y, Y>>, <<EdgeA(Const(Integer(1)), Any_), SuccA(Const(Integer(1)), Y)>>)
AfterNextR == Rule("r", <<X, Y>>, <<Atom("next", <<X, Y>>)>>)
NamedR == Rule("named", <<X, Y>>, <<ReachA(X, Any_), Atom("label", <<X, Y>>)>>)
UnnamedR == Rule("odd", <<X>>, <<EdgeA(X, Any_), NotAtom("next", <<X, X>>), NotAtom("named", <<X, Const(TextNo(0))>>)>>)
CountNextR == Rule("n", <<X, Agg("count", 2)>>, <<Atom("next", <<X, Y>>)>>)
RefusedRs ==
    {Rule("next", <<X, Agg("count", 2)>>, <<EdgeA(X, Y), SuccA(X, Y)>>), Rule("next", <<X, Y>>, <<Atom("next", <<X, Z>>), SuccA(Z, Y)>>),
     Rule("next", <<X, Y>>, <<EdgeA(X, Y), NotAtom("succ", <<X, Y>>)>>), Rule("next", <<X, Y>>, <<EdgeA(X, Any_), SuccA(Any_, Y)>>),
     Rule("next", <<X, Y>>, <<EdgeA(X, Any_), EqE(VarE(2), CallE("missing", <<VarE(1)>>, 11))>>),
     Rule("next", <<X, Y>>, <<EdgeA(X, Any_), EqE(VarE(2), Op2("+", SuccE(VarE(1), 11), CallE("STRLEN", <<VarE(1)>>, 12)))>>),
     Rule("next", <<X, Z>>, <<EdgeA(X, Any_), SuccA(X, Y)>>)}
NextRs == {NextR, StepsR, TwiceR, PlusR, SameTwiceR, EarlyR, LateR, TwoR, AnyR, OnceR, GroundR} \cup RefusedRs
Asked(p, fs) == GoalOf(Atom(p, <<X, Y>>), fs)
MCHostPrograms ==
    {[rules |-> <<x, StepR>>, goal |-> Asked("next", <<>>)] : x \in NextRs}
    \cup {[rules |-> <<NamedR, LinearR, AfterNextR, x>>, goal |-> Asked(g, <<>>)] : x \in {NextR, StepsR, TwiceR}, g \in {"named", "r"}}
    \cup {[rules |-> <<UnnamedR, CountNextR, NamedR, NextR, StepsR, StepR>>, goal |-> g] : g \in {Asked("n", <<>>), GoalOf(Atom("odd", <<X>>), <<>>)}}
    \cup {[rules |-> <<StepR, NextR>>, goal |-> Asked(g, <<Op2("<", VarE(1), VarE(2)), Op2("<", SuccE(VarE(1), 11), ConstE(Integer(4)))>>)] : g \in {"r", "next"}}
    \cup {[rules |-> <<StepR>>, goal |-> GoalOf(ReachA(X, Any_), <<CallE("small", <<VarE(1)>>, 11)>>)]}

\* Rules that read one relation, with a call or without.
OrderRules == {Rule(h, <<X>>, <<Atom(b, <<X>>)>> \o call) : h \in {"a", "b", "c"}, b \in {"a", "b", "c", "Zero"}, call \in {<<>>, <<Atom("small", <<X>>)>>}}
MCOrderPrograms == [1 .. 2 -> OrderRules] \cup [1 .. 3 -> OrderRules] \cup {<<Rule("a", <<Agg("count", 1)>>, <<Atom("b", <<X>>), Atom("small", <<X>>)>>)>>}

Operands == {VarE(1), VarE(2), ConstE(Integer(0)), ConstE(Integer(2))}
Sums == Operands \cup {Op2(op, a, b) : op \in {"+", "-", "*"}, a \in Operands, b \in Operands} \cup {Op1("neg", VarE(1))}
Tests == {Op2(op, a, b) : op \in {"=", "!=", "<", "<=", ">", ">="}, a \in Sums, b \in {VarE(2), ConstE(Integer(2))}}
MCNumberExprs == Tests \cup {Op1("not", t) : t \in Tests} \cup {Op2(op, Op2("=", VarE(1), VarE(2)), t) : op \in {"and", "or"}, t \in Tests}
MCNumberEnvs == {<<Integer(a), Integer(b)>> : a, b \in {-1, 0, 2}}

DatalogSpec == DatalogInit /\ [][Evaluate]_input
=============================================================================
