-------------------------- MODULE MCDerivedTables ---------------------------
(* Instances of DerivedTables. *)
EXTENDS DerivedTables

CONSTANTS t1, t2

MCNodes == {"A", "B", "C", "p", "q", "r", "a", "b", "c", "S", "P", "g", "h", "o"}
MCLiterals == {"true", "false", "0", "1", "2", "2.1", "text", "dim1", "dim2", "e1", "e2", "long", "http:o"}
MCBlanks == {"_:l", "_:m"}
MCRank == [x \in MCNodes \cup MCLiterals \cup MCBlanks |->
    CHOOSE i \in 1..40 : x = <<"0", "1", "2", "2.1", "A", "B", "C", "P", "S", "_:l", "_:m", "a", "b", "c", "dim1", "dim2", "e1", "e2", "false", "g", "h",
                               "http:o", "long", "o", "p", "q", "r", "text", "true", "", "", "", "", "", "", "", "", "", "", "">>[i]]
MCIntOf == [x \in {"0", "1", "2"} |-> CASE x = "0" -> 0 [] x = "1" -> 1 [] x = "2" -> 2]
MCDim == [x \in {"e1", "e2", "long"} |-> IF x = "long" THEN 2 ELSE 1]
MCDistance == [x \in {<<"e1", "e1">>, <<"e2", "e2">>, <<"e1", "e2">>, <<"e2", "e1">>, <<"long", "long">>} |-> IF x[1] = x[2] THEN 0 ELSE 1]

Reg(g, role, to, active) == entry_quads(Entry(g, role, to, active, {}, {}))
In(g, triples) == {<<x[1], x[2], x[3], g>> : x \in triples}
Taxonomy == {<<"A", SubClass, "B">>, <<"p", "rdfs:domain", "A">>, <<"q", "rdfs:range", "C">>}
Properties == {<<"p", SubProperty, "q">>, <<"q", "owl:inverseOf", "r">>, <<"r", Type, "owl:TransitiveProperty">>}
Facts == {<<"a", "p", "b">>, <<"b", "p", "c">>, <<"c", Type, "A">>}
Walked == {<<"p", Type, "owl:TransitiveProperty">>, <<"p", "owl:equivalentProperty", "q">>}
Shape == {<<"S", "sh:targetClass", "A">>, <<"S", "sh:property", "P">>, <<"P", "sh:path", "p">>, <<"P", "sh:minCount", "1">>, <<"P", "sh:in", "_:l">>,
          <<"_:l", "rdf:first", "e1">>}
Embedded == {<<"a", "q", "e1">>, <<"b", "q", "e2">>, <<"b", "q", "e1">>, <<"a", Type, "A">>}
Dense == VectorIndex("x", "q", 1, "oxl:Cosine", "oxl:Float32", {"A"})
Sparse == VectorIndex("X", "q", 1, "oxl:Jaccard", "oxl:SparseFloat32", {})

MCDatasets == {
    In(Default, Taxonomy \cup Properties \cup Facts),
    In("g", Taxonomy) \cup In("o", Properties) \cup In("h", Facts) \cup In(Default, Facts) \cup Reg("g", "ontology", {}, TRUE)
        \cup Reg("o", "ontology", {"h"}, TRUE),
    In("g", Walked \cup {<<"g", "owl:imports", "http:o">>}) \cup In("h", Facts) \cup In(Default, Facts) \cup In("o", Taxonomy)
        \cup Reg("g", "ontology", {"h"}, TRUE)
        \cup entry_quads(Entry("o", "ontology", {"g"}, TRUE, {"r"}, {})) \cup {<<"g", "oxl:imports", "r", Registry>>},
    In(Default, Shape) \cup In("g", {<<"S", "sh:targetClass", "B">>, <<"P", "sh:minCount", "2">>}) \cup system_quads,
    In("g", {<<"p", "owl:inverseOf", "q">>, <<"r", "owl:inverseOf", "q">>, <<"q", Type, "owl:SymmetricProperty">>, <<"r", "rdfs:range", "A">>,
             <<"A", "owl:equivalentClass", "B">>})
        \cup In("g", {<<"a", "p", "text">>, <<"a", "r", "b">>}) \cup Reg("o", "shacl", {}, FALSE) \cup system_quads,
    In("g", Taxonomy) \cup In("o", Properties) \cup In(Default, Facts) \cup Reg("o", "ontology", {Default}, TRUE)
        \cup (Reg("g", "ontology", {Default}, TRUE) \ {<<"g", "oxl:active", "true", Registry>>}) \cup {<<"g", "oxl:active", "0", Registry>>},
    In(Default, Embedded) \cup to_quads(Dense),
    In("h", Embedded) \cup to_quads(Sparse) \cup {<<"oxilite:vector/x", "oxl:property", "q", Vectors>>}}

MCWritten == {
    In("g", {<<"A", SubClass, "C">>}), In("h", {<<"c", "p", "a">>}), In("g", {<<"p", Type, "owl:SymmetricProperty">>}),
    In("g", {<<"g", "owl:imports", "o">>}), In(Default, {<<"P", "sh:minCount", "2">>}), In(Default, {<<"_:l", "rdf:first", "e2">>}),
    In("h", {<<"c", "q", "e1">>}), In(Default, {<<"b", "q", "long">>}),
    In(Vectors, {<<"oxilite:vector/x", "oxl:dimensions", "dim2">>}), {<<"g", "oxl:active", "0", Registry>>}}
MCUpdates == {
    <<Modify(<<Var, SubClass, Var, Var>>, <<Var, "owl:equivalentClass", Var, Var>>)>>,
    <<Modify(<<Var, Type, Var, Var>>, None)>>, <<Modify(<<Var, Type, Var, "g">>, None)>>,
    <<Modify(<<Var, Type, "A", Var>>, <<Var, Type, "owl:TransitiveProperty", Var>>)>>,
    <<Modify(<<Var, "oxl:property", Var, Var>>, <<Var, "oxl:property", "p", Var>>)>>,
    <<Modify(<<Var, "oxl:metric", Var, Var>>, None), Modify(<<Var, "oxl:elementType", Var, Var>>, None)>>,
    <<Modify(<<Var, "oxl:appliesTo", Var, Var>>, <<Var, "oxl:appliesTo", DEFAULT_GRAPH, Var>>)>>,
    <<Modify(<<Var, "p", Var, Var>>, <<Var, "q", Var, Var>>)>>,
    <<InsertData(In(Default, {<<"c", "q", "long">>})), DeleteData(In(Default, {<<"c", "q", "long">>}))>>,
    <<DeleteData(In(Vectors, {<<"oxilite:vector/x", "rdf:type", "oxl:VectorIndex">>}))>>,
    <<InsertData(to_quads(VectorIndex("x", "p", 1, "oxl:Cosine", "oxl:Float32", {})))>>,
    <<Clear("g")>>}
MCIndexes == {Sparse, VectorIndex("x", "q", 1, "oxl:Cosine", "oxl:Float32", {}), VectorIndex("x", "p", 1, "oxl:Cosine", "oxl:Float32", {})}
MCRegistrations == {Entry("g", "ontology", {}, TRUE, {}, {"o"}), Entry(Default, "shacl", {}, TRUE, {}, {})}
Permuted == Permutations({t1, t2})
=============================================================================
