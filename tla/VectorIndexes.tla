--------------------------- MODULE VectorIndexes ----------------------------
(***************************************************************************)
(* Vector indexes (vector.rs): their definitions, quads of the graph       *)
(* "oxilite:vectors", the tables they are realised as, kept by triggers,   *)
(* and the fingerprints that say how each table was built. Tables and      *)
(* fingerprints go by names in lower case.                                 *)
(***************************************************************************)
EXTENDS SchemaRegistry, SequencesExt

CONSTANTS
    Dim,          \* the length of each literal that is an array of numbers
    Distance      \* Distance[a, b]: how far two embeddings are

Vectors == "oxilite:vectors"
None == <<>>
Present(x) == x # None

\* Indexes in the order of their IRIs.
IndexNames == <<"X", "x">>
index_iri(name) == CASE name = "X" -> "oxilite:vector/X" [] name = "x" -> "oxilite:vector/x"
lower(name) == "x"
TableNames == {lower(IndexNames[i]) : i \in DOMAIN IndexNames}

dimension(t) == IF t \in DOMAIN Dim THEN Dim[t] ELSE -1
Dimensions == [dim1 |-> 1, dim2 |-> 2]
dims_literal(n) == CHOOSE l \in DOMAIN Dimensions : Dimensions[l] = n

\* A definition: class is a set of at most one.
VectorIndex(name, property, dimensions, metric, element_type, cls) ==
    [name |-> name, property |-> property, dimensions |-> dimensions, metric |-> metric, element_type |-> element_type, class |-> cls]
validate(d) == d.dimensions > 0 /\ (d.metric = "oxl:Jaccard" <=> d.element_type = "oxl:SparseFloat32")
fingerprint(d) == <<d.property, d.dimensions, d.metric, d.element_type, d.class>>
to_quads(d) ==
    LET Q(p, o) == <<index_iri(d.name), p, o, Vectors>>
    IN  {Q("rdf:type", "oxl:VectorIndex"), Q("oxl:property", d.property), Q("oxl:dimensions", dims_literal(d.dimensions)),
         Q("oxl:metric", d.metric), Q("oxl:elementType", d.element_type)} \cup {Q("oxl:class", c) : c \in d.class}

\* The definition of an index by its properties, if it is a valid one.
definition(name, props) ==
    LET Of(p) == {x[2] : x \in {y \in props : y[1] = p}}
        Several == \E p \in {"oxl:property", "oxl:dimensions", "oxl:metric", "oxl:elementType", "oxl:class"} : Cardinality(Of(p)) > 1
        One(p, default) == IF Of(p) = {} THEN default ELSE CHOOSE o \in Of(p) : TRUE
        metric == One("oxl:metric", "oxl:Cosine")
        d == VectorIndex(name, One("oxl:property", "?"), IF Of("oxl:dimensions") = {} THEN 0 ELSE Dimensions[One("oxl:dimensions", "?")], metric,
                         One("oxl:elementType", IF metric = "oxl:Jaccard" THEN "oxl:SparseFloat32" ELSE "oxl:Float32"), Of("oxl:class"))
    IN  IF ~Several /\ Of("oxl:property") # {} /\ (\A o \in Of("oxl:property") \cup Of("oxl:class") : IsIri(o))
           /\ Of("oxl:dimensions") \subseteq DOMAIN Dimensions /\ validate(d)
        THEN {d} ELSE {}

\* The valid definitions; of two with one table, the first in order.
definitions(quads) ==
    LET Props(s) == {<<q[2], q[3]>> : q \in {r \in quads : r[4] = Vectors /\ r[1] = s}}
        Defined(name) == IF <<"rdf:type", "oxl:VectorIndex">> \in Props(index_iri(name)) THEN definition(name, Props(index_iri(name))) ELSE {}
    IN  UNION {{d \in Defined(IndexNames[i]) : \A j \in 1..(i - 1) : lower(IndexNames[j]) = lower(d.name) => Defined(IndexNames[j]) = {}}
               : i \in DOMAIN IndexNames}

-----------------------------------------------------------------------------
(* The file: tables, a table with its triggers' property and dimensions    *)
(* and its rows <<s, o, g>>, and meta, the fingerprints. A request that    *)
(* fails changes nothing: the state is then Failed.                        *)

Failed == [failed |-> TRUE]
Ok(f) == f # Failed
File(tables, meta) == [tables |-> tables, meta |-> meta]
Table(property, dims, rows) == [property |-> property, dims |-> dims, rows |-> rows]

\* What the triggers do as the quads of a store change.
triggers(vec, old, new) ==
    LET Mine(t, qs) == {q \in qs : q[2] = t.property}
        Built == {n \in TableNames : Present(vec.tables[n])}
    IN  IF \E n \in Built : \E q \in Mine(vec.tables[n][1], new \ old) : dimension(q[3]) # vec.tables[n][1].dims THEN Failed
        ELSE File([n \in TableNames |-> IF n \notin Built THEN None
                    ELSE LET t == vec.tables[n][1]
                         IN  <<[t EXCEPT !.rows = (@ \ {<<q[1], q[3], q[4]>> : q \in Mine(t, old \ new)})
                                                  \cup {<<q[1], q[3], q[4]>> : q \in Mine(t, new \ old)}]>>], vec.meta)

drop_statements(vec, name) == File([vec.tables EXCEPT ![name] = None], [vec.meta EXCEPT ![name] = None])

\* The table and the triggers of a name are left as they are if they exist.
create_statements(vec, quads, d) ==
    LET n == lower(d.name)
        mine == {q \in quads : q[2] = d.property}
        t == IF Present(vec.tables[n]) THEN vec.tables[n][1] ELSE Table(d.property, d.dimensions, {})
    IN  IF \E q \in mine : dimension(q[3]) # d.dimensions THEN Failed
        ELSE File([vec.tables EXCEPT ![n] = <<[t EXCEPT !.rows = @ \cup {<<q[1], q[3], q[4]>> : q \in mine}]>>],
                  [vec.meta EXCEPT ![n] = <<fingerprint(d)>>])

is_built(d, built) == built[lower(d.name)] = <<fingerprint(d)>>

\* Builds the table of a definition, of what is believed to be built.
rebuild(vec, quads, d, built) ==
    create_statements(IF Present(built[lower(d.name)]) THEN drop_statements(vec, lower(d.name)) ELSE vec, quads, d)

\* What one request of a synchronization does, planned from definitions and
\* fingerprints read earlier.
sync_statements(vec, quads, defs, built) ==
    LET orphans == {n \in TableNames : Present(built[n]) /\ ~\E d \in defs : lower(d.name) = n}
        dropped == FoldSet(LAMBDA n, v : drop_statements(v, n), vec, orphans)
        todo == {d \in defs : ~is_built(d, built)}
    IN  FoldSet(LAMBDA d, v : IF Ok(v) THEN rebuild(v, quads, d, built) ELSE v, dropped, todo)
nothing_to_sync(defs, built) ==
    /\ \A n \in TableNames : Present(built[n]) => \E d \in defs : lower(d.name) = n
    /\ \A d \in defs : is_built(d, built)

-----------------------------------------------------------------------------
(* Search: the k nodes nearest to an embedding, <<distance, node>>, as the *)
(* statement selects them. Nodes and distances are in the order of Order.  *)

\* The k first of a set of pairs, of which any may be taken where they tie.
Firsts(S, k, Less(_, _)) ==
    {T \in SUBSET S : Cardinality(T) = (IF k < Cardinality(S) THEN k ELSE Cardinality(S)) /\ \A x \in T, y \in S \ T : ~Less(y, x)}
knn_sql(rows, quads, d, q, k, Order) ==
    LET at == {<<Distance[r[2], q], r>> : r \in rows}
        candidates == {x \in at : \A c \in d.class : \E t \in quads : t[1] = x[2][1] /\ t[2] = "rdf:type" /\ t[3] = c}
        inner == IF d.element_type = "oxl:SparseFloat32" /\ d.class = {} THEN Firsts(candidates, k, LAMBDA x, y : x[1] < y[1]) ELSE {candidates}
        grouped(S) == {<<Min({x[1] : x \in {y \in S : y[2][1] = s}}), s>> : s \in {x[2][1] : x \in S}}
        Less(x, y) == x[1] < y[1] \/ (x[1] = y[1] /\ Order[x[2]] < Order[y[2]])
    IN  UNION {Firsts(grouped(S), k, Less) : S \in inner}
=============================================================================
