--------------------------- MODULE MCCypherWrites ---------------------------
EXTENDS CypherWrites

N(v) == [var |-> v, labels |-> {}, props |-> {}]
L(v) == [N(v) EXCEPT !.labels = {"L"}]
Pat(s, r, ps, e) == [start |-> s, chain |-> <<[var |-> r, type |-> "T", props |-> ps, end |-> e]>>]
One(np) == [start |-> np, chain |-> <<>>]

Create(p) == [op |-> "create", pattern |-> p]
MergeC(p, c, m) == [op |-> "merge", pattern |-> p, onCreate |-> c, onMatch |-> m]
Del(v, detach) == [op |-> "delete", var |-> v, detach |-> detach]
SetK(v, vs, replace) == [op |-> "props", var |-> v, map |-> ("k" :> vs), replace |-> replace]
LabelC(v, add) == [op |-> "label", var |-> v, label |-> "L", add |-> add]
Clear(v) == [op |-> "props", var |-> v, map |-> <<>>, replace |-> TRUE]

\* Clauses on a and b alone, and those that need r.
NodeClauses ==
    {Create(One([L("n") EXCEPT !.props = {<<"k", 1>>}])), Create(Pat(N("a"), "x", {}, N("b"))),
     Create(Pat(N("a"), "y", {<<"k", 2>>}, N("n"))), MergeC(Pat(N("a"), "x", {}, N("b")), <<>>, <<SetK("x", {1}, FALSE)>>),
     MergeC(One(L("m")), <<SetK("m", {1}, FALSE)>>, <<LabelC("a", TRUE)>>),
     Del("a", TRUE), Del("a", FALSE), SetK("a", {1}, FALSE), LabelC("a", TRUE), LabelC("a", FALSE), Clear("a")}
RelClauses == {Del("r", FALSE), SetK("r", {1}, FALSE), SetK("r", {}, FALSE), Clear("r")}

Tails(cs) == {<<c>> : c \in cs} \cup {<<c, d>> : c \in cs, d \in cs}
MergesOnce(stmt) == \A i, j \in DOMAIN stmt.tail : stmt.tail[i].op = "merge" /\ stmt.tail[j].op = "merge" => i = j

Asked ==
    {s \in [match : {<<>>, <<One(N("a"))>>}, tail : Tails(NodeClauses)]
         \cup [match : {<<Pat(N("a"), "r", {}, N("b"))>>}, tail : Tails(NodeClauses \cup RelClauses)] : MergesOnce(s)}

Marked(ns) == {Label(n, Resource) : n \in ns}
T(a, b) == <<a, "T", b>>
Reified(r, t) == {Edge(t), Reifies(r, t)}
Graphs ==
    {{}, Marked({1}) \cup {Label(1, "L"), Prop(1, <<"k", 1>>)},
     {Label(1, "L"), Label(2, "M"), Prop(2, <<"k", 1>>), Prop(2, <<"k", 2>>)},
     Marked({1, 2}) \cup {Edge(T(1, 2))},
     {Edge(T(1, 1)), Label(1, "L"), Prop(1, <<"k", 2>>)},
     Reified(5, T(1, 1)) \cup {Prop(5, <<"k", 1>>)},
     {Edge(T(1, 2)), Edge(T(2, 1))},
     Marked({1, 2}) \cup Reified(5, T(1, 2)) \cup {Prop(5, <<"k", 2>>)},
     Reified(5, T(1, 2)) \cup Reified(6, T(1, 2)) \cup {Prop(5, <<"k", 1>>)},
     {Edge(T(1, 2)), Label(2, "L"), Prop(2, <<"k", 1>>)} \cup Reified(5, T(2, 3)) \cup {Prop(5, <<"k", 1>>)}}

Guards == {[label |-> "L", key |-> "k", datatype |-> "int", min |-> 1, max |-> 1]}
IntOf(v) == "int"
=============================================================================
