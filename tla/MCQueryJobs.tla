---------------------------- MODULE MCQueryJobs ----------------------------
(***************************************************************************)
(* QueryJobs for TLC: two blank nodes that refer to each other, a triple   *)
(* term within a triple term, and one query of every form.                 *)
(***************************************************************************)
EXTENDS QueryJobs

MCIdOrder == <<"a", "b1", "b2", "g", "l", "n", "p", "t1", "t2">>
MCKind == [a |-> "iri", b1 |-> "blank", b2 |-> "blank", g |-> "iri", l |-> "literal", n |-> "inline", p |-> "iri", t1 |-> "triple", t2 |-> "triple"]
MCParts == [t1 |-> <<"a", "p", "l">>, t2 |-> <<"b1", "p", "t1">>]
MCVariables == {"?s", "?p", "?o"}

Query(form, where) == [form |-> form, where |-> where, and |-> <<>>, union |-> FALSE, values |-> {}, template |-> {}]
MCQueries ==
    {Query("select", <<"?s", "?p", "?o">>), [Query("select", <<"?s", "p", "?o">>) EXCEPT !.union = TRUE],
     Query("ask", <<"?s", "p", "b2">>), Query("scan", <<"?s", "?p", "?o">>), Query("graphs", <<"?s", "?p", "?o">>),
     Query("describe", <<"?s", "p", "b1">>), [Query("describe", <<"a", "p", "?o">>) EXCEPT !.values = {"?o"}, !.union = TRUE],
     [Query("construct", <<"?s", "p", "?o">>) EXCEPT !.template = {<<"?s", "p", "_:x">>, <<"_:x", "?o", "?s">>, <<"?o", "p", "_:x">>, <<"?p", "p", "a">>}],
     [Query("fallback", <<"?s", "p", "?o">>) EXCEPT !.and = <<"?o", "p", "?p">>, !.union = TRUE]}

Plain(s, o) == <<s, "p", o, DefaultGraph>>
MCInitial == {Plain("a", "b1"), Plain("b1", "b2"), <<"b1", "p", "t2", "g">>}
MCInserts == {{Plain("b2", "b1")}, {Plain("b2", "l"), Plain("a", "n")}}
MCDocuments == {<<Plain("a", "n")>>, <<Plain("a", "n"), Plain("b2", "l"), Plain("a", "t1"), <<"b1", "p", "t2", "g">>, <<"l", "p", "b2", "g">>>>}
=============================================================================
