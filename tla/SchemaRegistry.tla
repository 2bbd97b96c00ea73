--------------------------- MODULE SchemaRegistry ---------------------------
(***************************************************************************)
(* The schema registry (registry.rs): which graphs hold ontologies and     *)
(* shapes, and the graphs each one applies to, as quads <<s, p, o, g>> of  *)
(* the system graph "oxilite:schema". Here are the SPARQL updates the      *)
(* registry operations are, and its two readers: the one in Rust that      *)
(* lists registrations, and the SQL fragments that scope the caches.       *)
(***************************************************************************)
EXTENDS Integers, Sequences, FiniteSets, FiniteSetsExt, TLC

CONSTANTS
    Nodes,        \* IRIs that name graphs, classes, properties and things
    Literals,     \* literal terms
    Blanks        \* blank nodes

Registry == "oxilite:schema"
Vocabulary == "oxilite:vocabulary"
SYSTEM_GRAPHS == {Registry, Vocabulary}
Default == "default"
DEFAULT_GRAPH == "oxl:DefaultGraph"
ALL_GRAPHS == "oxl:AllGraphs"
SYSTEM_GRAPH == "oxl:SystemGraph"

SchemaRole == {"ontology", "shacl", "shex"}
class(role) == CASE role = "ontology" -> "oxl:OntologyGraph" [] role = "shacl" -> "oxl:ShapesGraph" [] role = "shex" -> "oxl:ShExGraph"

IsLiteral(t) == t \in Literals
IsBlank(t) == t \in Blanks
IsIri(t) == ~IsLiteral(t) /\ ~IsBlank(t)
\* The two lexical forms of an xsd:boolean false.
is_false(t) == t \in {"false", "0"}

graph_node(g) == IF g = Default THEN DEFAULT_GRAPH ELSE g
graph_of(n) == IF n = DEFAULT_GRAPH THEN Default ELSE n

\* A registration.
Entry(graph, role, applies_to, active, iri, imports) ==
    [graph |-> graph, role |-> role, applies_to |-> applies_to, active |-> active, iri |-> iri, imports |-> imports]

targets_of(applies_to) == IF applies_to = {} THEN {ALL_GRAPHS} ELSE {graph_node(g) : g \in applies_to}

entry_quads(e) ==
    LET node == graph_node(e.graph)
        Q(p, os) == {<<node, p, o, Registry>> : o \in os}
    IN  Q("rdf:type", {class(e.role)}) \cup Q("oxl:active", {IF e.active THEN "true" ELSE "false"})
        \cup Q("oxl:appliesTo", targets_of(e.applies_to)) \cup Q("oxl:ontologyIri", e.iri) \cup Q("oxl:imports", e.imports)

-----------------------------------------------------------------------------
(* The updates: sequences of operations that Update carries out.           *)

Var == "?"
\* DELETE WHERE { GRAPH registry { node ?p ?o } }
describe_delete(node) == [op |-> "modify", delete |-> <<node, Var, Var, Registry>>, insert |-> <<>>]
InsertData(data) == [op |-> "insert", data |-> data]
DeleteData(data) == [op |-> "delete", data |-> data]
Modify(delete, insert) == [op |-> "modify", delete |-> delete, insert |-> insert]
Clear(g) == [op |-> "clear", graph |-> g]
\* Replaces the values of a property of a node that has a type.
Rewrite(node, p, values) == [op |-> "rewrite", node |-> node, p |-> p, values |-> values]

register_update(e) == <<describe_delete(graph_node(e.graph)), InsertData(entry_quads(e))>>
remap_update(g, applies_to) == <<Rewrite(graph_node(g), "oxl:appliesTo", targets_of(applies_to))>>
set_active_update(g, active) == <<Rewrite(graph_node(g), "oxl:active", {IF active THEN "true" ELSE "false"})>>
unregister_update(g) == <<describe_delete(graph_node(g))>>
drop_update(g) == <<describe_delete(graph_node(g)), Clear(g)>>

\* The descriptions of the system graphs, and one axiom of the vocabulary.
system_quads ==
    {<<"oxl:OntologyGraph", "rdfs:subClassOf", "oxl:SchemaGraph", Vocabulary>>,
     <<Registry, "rdf:type", SYSTEM_GRAPH, Registry>>, <<Vocabulary, "rdf:type", SYSTEM_GRAPH, Registry>>,
     <<Vocabulary, "oxl:appliesTo", Registry, Registry>>, <<Vocabulary, "oxl:version", "2.1", Registry>>}
system_graphs_update ==
    <<Clear(Vocabulary), describe_delete(Registry), describe_delete(Vocabulary), InsertData(system_quads)>>
system_graphs_ready(quads) == <<Vocabulary, "oxl:version", "2.1", Registry>> \in quads
registered(quads, g) == \E q \in quads : q[1] = graph_node(g) /\ q[2] = "rdf:type" /\ q[4] = Registry

-----------------------------------------------------------------------------
(* The reader in Rust.                                                     *)

entries_from_rows(quads) ==
    LET rows == {q \in quads : q[4] = Registry /\ IsIri(q[1])}
        Of(n, p) == {q[3] : q \in {r \in rows : r[1] = n /\ r[2] = p}}
        roles(n) == {role \in SchemaRole : class(role) \in Of(n, "rdf:type")}
        targets(n) == {o \in Of(n, "oxl:appliesTo") : IsIri(o)}
    IN  {Entry(graph_of(q[1]), role,
               IF ALL_GRAPHS \in targets(q[1]) THEN {} ELSE {graph_of(t) : t \in targets(q[1])},
               ~\E o \in Of(q[1], "oxl:active") : is_false(o),
               {o \in Of(q[1], "oxl:ontologyIri") : IsIri(o)},
               {o \in Of(q[1], "oxl:imports") \cup Of(q[1], "owl:imports") : IsIri(o)})
            : <<q, role>> \in {<<r, x>> \in rows \X SchemaRole : x \in roles(r[1])}}

applies(e, target) == e.applies_to = {} \/ target \in e.applies_to
\* The active schema graphs of a role that apply to a graph.
applying(entries, target, role) ==
    {e.graph : e \in {x \in entries : x.role = role /\ x.active /\ applies(x, target)}}

\* What the registry's shapes forbid: <<node, problem>>.
RegistrationProps == {"oxl:appliesTo", "oxl:active", "oxl:ontologyIri", "oxl:imports", "owl:imports", "oxl:version"}
problems(quads) ==
    LET rows == {q \in quads : q[4] = Registry}
        values(n, p) == {q[3] : q \in {r \in rows : r[1] = n /\ r[2] = p}}
        typed(n) == values(n, "rdf:type") \cap ({class(r) : r \in SchemaRole} \cup {SYSTEM_GRAPH}) # {}
        described(n) == \E q \in rows : q[1] = n /\ q[2] \in RegistrationProps
        Wrong(n) == (IF IsBlank(n) THEN {<<"blank", "">>} ELSE {})
                    \cup (IF ~typed(n) THEN {<<"untyped", "">>} ELSE {})
                    \cup {<<"several", p>> : p \in {x \in {"oxl:active", "oxl:ontologyIri", "oxl:version"} : Cardinality(values(n, x)) > 1}}
                    \cup {<<"no IRI", p>> : p \in {x \in {"oxl:appliesTo", "oxl:ontologyIri", "oxl:imports", "owl:imports"} : \E o \in values(n, x) : ~IsIri(o)}}
                    \cup (IF \E o \in values(n, "oxl:active") : o \notin {"true", "false", "1", "0"} THEN {<<"not boolean", "oxl:active">>} ELSE {})
    IN  UNION {{<<n, w>> : w \in Wrong(n)} : n \in {q[1] : q \in {r \in rows : typed(r[1]) \/ described(r[1])}}}

-----------------------------------------------------------------------------
(* The reader in SQL.                                                      *)

role_nodes(quads, role) == {q[1] : q \in {r \in quads : r[4] = Registry /\ r[2] = "rdf:type" /\ r[3] = class(role)}}
active_nodes(quads, role) ==
    {n \in role_nodes(quads, role) : ~\E q \in quads : q[4] = Registry /\ q[1] = n /\ q[2] = "oxl:active" /\ is_false(q[3])}

\* May the quads of graph g contribute to a role?
scope(quads, role, g) ==
    \/ role_nodes(quads, role) = {} /\ g \notin SYSTEM_GRAPHS
    \/ g \in {graph_of(n) : n \in active_nodes(quads, role)}

\* Graphs and the scopes their axioms count in: what is mapped, then what it
\* imports, transitively.
RECURSIVE reg_map(_, _)
reg_map(map, edges) ==
    LET more == map \cup {<<e[2], m[2]>> : <<m, e>> \in {<<x, y>> \in map \X edges : x[1] = y[1]}}
    IN  IF more = map THEN map ELSE reg_map(more, edges)

\* A mutant: an ontology for all graphs is not one for a mapped graph.
direct_unmixed(global, specific) ==
    {<<graph_of(n), ALL_GRAPHS>> : n \in global} \cup {<<graph_of(s[1]), s[2]>> : s \in specific}
direct(global, specific) ==
    {<<graph_of(n), ALL_GRAPHS>> : n \in global}
    \cup {<<graph_of(n), s[2]>> : <<n, s>> \in global \X specific}
    \cup {<<graph_of(s[1]), s[2]>> : s \in specific}

\* Ontology axioms, <<s, p, o, scope>>.
ontology_axioms(quads) ==
    LET reg == {q \in quads : q[4] = Registry}
        act == active_nodes(quads, "ontology")
        targets == {<<q[1], graph_of(q[3])>> : q \in {r \in reg : r[2] = "oxl:appliesTo" /\ r[3] # ALL_GRAPHS}}
        to_all == {q[1] : q \in {r \in reg : r[2] = "oxl:appliesTo" /\ r[3] = ALL_GRAPHS}}
        global == {n \in act : n \notin {t[1] : t \in targets} \/ n \in to_all}
        specific == {t \in targets : t[1] \in act}
        imports == {<<graph_of(q[1]), q[3]>> : q \in {r \in reg : r[2] \in {"oxl:imports", "owl:imports"}}}
                   \cup {<<q[4], q[3]>> : q \in {r \in quads : r[2] = "owl:imports" /\ r[4] \in {graph_of(n) : n \in act}}}
        named == {<<n, graph_of(n)>> : n \in act} \cup {<<q[3], graph_of(q[1])>> : q \in {r \in reg : r[2] = "oxl:ontologyIri" /\ r[1] \in act}}
        edges == {<<i[1], n[2]>> : <<i, n>> \in {<<x, y>> \in imports \X named : x[2] = y[1]}}
        map == reg_map(direct(global, specific), edges)
    IN  {<<q[1], q[2], q[3], m[2]>> : <<q, m>> \in {<<x, y>> \in quads \X map : x[4] = y[1]}}
        \cup (IF role_nodes(quads, "ontology") # {} THEN {}
              ELSE {<<q[1], q[2], q[3], ALL_GRAPHS>> : q \in {r \in quads : r[4] \notin SYSTEM_GRAPHS}})

-----------------------------------------------------------------------------
(* The compiled SHACL shape index (shapes.rs): the property shapes of the  *)
(* registered shapes graphs, merged by target class and path. A constraint *)
(* that is not declared is the empty set, a declared one a singleton.      *)
CONSTANTS
    Rank,         \* the place of each lexical form in SQLite's order of texts
    IntOf         \* the integer each integer literal denotes

ShapePredicates == {"sh:targetClass", "sh:property", "sh:path", "sh:datatype", "sh:minCount", "sh:maxCount", "sh:pattern",
                    "sh:class", "sh:node", "sh:in"}
is_shape_iri(p) == p \in ShapePredicates
is_shape_quad(q) == q[4] = Registry \/ is_shape_iri(q[2])

int_value(t) == IF t \in DOMAIN IntOf THEN {IntOf[t]} ELSE {}
\* The cells of the list that starts at a node.
RECURSIVE Cells(_, _)
Cells(cells, sq) ==
    LET more == cells \cup {q[3] : q \in {r \in sq : r[1] \in cells /\ r[2] = "rdf:rest"}}
    IN  IF more = cells THEN cells ELSE Cells(more, sq)

\* MAX of SQL over the declared values: the greatest, if any.
MaxBy(S, Op(_)) == IF S = {} THEN {} ELSE {CHOOSE x \in S : \A y \in S : Op(y) <= Op(x)}

scoped(quads) == {q \in quads : scope(quads, "shacl", q[4])}

refresh_statements(quads) ==
    LET sq == scoped(quads)
        Of(n, p) == {q[3] : q \in {r \in sq : r[1] = n /\ r[2] = p}}
        ps == UNION {UNION {{<<t[3], pr, pa>> : pa \in Of(pr, "sh:path")} : pr \in Of(t[1], "sh:property")} : t \in {q \in sq : q[2] = "sh:targetClass"}}
        merged(target, path) == {x[2] : x \in {y \in ps : y[1] = target /\ y[3] = path}}
        Lex(S, p) == MaxBy(UNION {Of(n, p) : n \in S}, LAMBDA t : Rank[t])
        Count(S, p) == MaxBy(UNION {UNION {int_value(t) : t \in Of(n, p)} : n \in S}, LAMBDA i : i)
        Row(target, path) ==
            LET S == merged(target, path)
            IN  [target |-> target, path |-> path, datatype |-> Lex(S, "sh:datatype"), min |-> Count(S, "sh:minCount"),
                 max |-> Count(S, "sh:maxCount"), pattern |-> Lex(S, "sh:pattern"),
                 relationship |-> \E n \in S : Of(n, "sh:class") \cup Of(n, "sh:node") # {}]
    IN  [index |-> {Row(x[1], x[3]) : x \in ps},
         in    |-> UNION {UNION {{<<x[1], x[3], v>> : v \in Of(c, "rdf:first")} : c \in Cells(Of(x[2], "sh:in"), sq)} : x \in ps}]

NoShapes == [index |-> {}, in |-> {}]
=============================================================================
