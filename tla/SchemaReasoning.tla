-------------------------- MODULE SchemaReasoning ---------------------------
(***************************************************************************)
(* Query-time reasoning (reason.rs): the table tbox_closure of the schema, *)
(* rows <<kind, scope, sub, sup>>, and the derived tables of entailed      *)
(* quads that patterns read with it.                                       *)
(***************************************************************************)
EXTENDS SchemaRegistry

Type == "rdf:type"
SubClass == "rdfs:subClassOf"
SubProperty == "rdfs:subPropertyOf"
SchemaPredicates == {SubClass, SubProperty, "rdfs:domain", "rdfs:range", "owl:equivalentClass", "owl:equivalentProperty", "owl:inverseOf"}
is_axiom_class(o) == o \in {"owl:SymmetricProperty", "owl:TransitiveProperty"}
is_schema_iri(p) == p \in SchemaPredicates \cup {"owl:imports"}
is_schema_quad(q) == q[4] = Registry \/ is_schema_iri(q[2]) \/ (q[2] = Type /\ is_axiom_class(q[3]))

non_literal(t) == ~IsLiteral(t)

\* Paths of edges <<k, a, b, d>>: of one scope, directions added modulo 2.
RECURSIVE Paths(_, _)
Paths(c, e) ==
    LET more == c \cup {<<x[1], x[2], y[3], (x[4] + y[4]) % 2>> : <<x, y>> \in {<<u, v>> \in c \X e : u[1] = v[1] /\ v[2] = u[3]}}
    IN  IF more = c THEN c ELSE Paths(more, e)

property_edges(ax, owl) ==
    LET Of(p) == {a \in ax : a[2] = p}
        same == {<<a[4], a[1], a[3], 0>> : a \in Of(SubProperty) \cup Of("owl:equivalentProperty")}
                \cup {<<a[4], a[3], a[1], 0>> : a \in Of("owl:equivalentProperty")}
    IN  IF ~owl THEN same
        ELSE same \cup {<<a[4], a[1], a[3], 1>> : a \in Of("owl:inverseOf")} \cup {<<a[4], a[3], a[1], 1>> : a \in Of("owl:inverseOf")}
             \cup {<<a[4], a[1], a[1], 1>> : a \in {x \in Of(Type) : x[3] = "owl:SymmetricProperty"}}

class_edges(ax) ==
    LET Of(p) == {a \in ax : a[2] = p}
    IN  {<<a[4], a[1], a[3], 0>> : a \in Of(SubClass) \cup Of("owl:equivalentClass")}
        \cup {<<a[4], a[3], a[1], 0>> : a \in Of("owl:equivalentClass")}

\* Properties whose subjects or objects an axiom types, with the classes.
typed_rows(kind, props, axioms, above) ==
    {<<kind, pq[1], pq[2], cd[3]>> : <<pq, x, cd>> \in
        {<<u, v, w>> \in props \X axioms \X above : v[1] = u[3] /\ v[4] = u[1] /\ w[2] = v[3] /\ w[1] = u[1]}}

closure_rows(ax, classes, props, owl) ==
    LET Of(p) == {a \in ax : a[2] = p}
        dom_rng == Of("rdfs:domain") \cup Of("rdfs:range")
        above == {<<a[4], a[3], a[3]>> : a \in dom_rng} \cup {<<c[1], c[2], c[3]>> : c \in classes}
        subs(rows) == {<<a[4], a[1], a[1]>> : a \in dom_rng} \cup {<<c[1], c[2], c[3]>> : c \in rows}
        typed(kind, ps, axiom) == typed_rows(kind, ps, Of(axiom), above)
        same == {c \in owl : c[4] = 0}
        inverse == {<<c[1], c[2], c[3]>> : c \in {x \in owl : x[4] = 1}}
    IN  {<<"class", c[1], c[2], c[3]>> : c \in classes}
        \cup {<<"property", c[1], c[2], c[3]>> : c \in props}
        \cup {<<IF c[4] = 0 THEN "same" ELSE "inverse", c[1], c[2], c[3]>> : c \in owl}
        \cup {<<"transitive", a[4], a[1], a[1]>> : a \in {x \in Of(Type) : x[3] = "owl:TransitiveProperty"}}
        \cup typed("subject", subs(props), "rdfs:domain") \cup typed("object", subs(props), "rdfs:range")
        \cup typed("owl subject", subs(same), "rdfs:domain") \cup typed("owl subject", inverse, "rdfs:range")
        \cup typed("owl object", subs(same), "rdfs:range") \cup typed("owl object", inverse, "rdfs:domain")

closure_statements(quads) ==
    LET Closure(edges) == Paths(edges, edges)
        Of(ax) == closure_rows(ax, {c \in Closure(class_edges(ax)) : c[2] # c[3]},
                               {c \in Closure(property_edges(ax, FALSE)) : c[2] # c[3]},
                               {c \in Closure(property_edges(ax, TRUE)) : c[4] = 1 \/ c[2] # c[3]})
    IN  Of(ontology_axioms(quads))

transitive_statement(tbox) == {r[3] : r \in {x \in tbox : x[1] = "transitive"}}
scopes_statement(tbox) == {r[2] : r \in {x \in tbox : x[2] # ALL_GRAPHS}}

-----------------------------------------------------------------------------
(* The derived tables. An entailment holds the regime, and what is kept in *)
(* memory of the closure.                                                  *)

scope_of(ent, g) == IF g \in ent.scopes THEN g ELSE ALL_GRAPHS
kinds(ent) == IF ent.reasoning = "owl" THEN [same |-> "same", subj |-> "owl subject", obj |-> "owl object"]
              ELSE [same |-> "property", subj |-> "subject", obj |-> "object"]

\* Rows of the closure for the quads of a graph.
Rows(tbox, ent, kind, g) == {r \in tbox : r[1] = kind /\ r[2] = scope_of(ent, g)}

type_arms(tbox, base, ent) ==
    UNION {{<<x[1], Type, c[4], x[4]>> : c \in {r \in Rows(tbox, ent, "class", x[4]) : x[2] = Type /\ r[3] = x[3]}}
           \cup {<<x[1], Type, c[4], x[4]>> : c \in {r \in Rows(tbox, ent, kinds(ent).subj, x[4]) : r[3] = x[2]}}
           \cup {<<x[3], Type, c[4], x[4]>> : c \in {r \in Rows(tbox, ent, kinds(ent).obj, x[4]) : r[3] = x[2] /\ non_literal(x[3])}}
           : x \in base}

\* Quads entailed by properties' axioms, without transitivity.
same_arms(tbox, base, ent) ==
    UNION {{<<x[1], c[4], x[3], x[4]>> : c \in {r \in Rows(tbox, ent, kinds(ent).same, x[4]) : r[3] = x[2]}} : x \in base}
    \cup (IF ent.reasoning # "owl" THEN {}
          ELSE UNION {{<<x[3], c[4], x[1], x[4]>> : c \in {r \in Rows(tbox, ent, "inverse", x[4]) : r[3] = x[2] /\ non_literal(x[3])}} : x \in base})

schema_arms(tbox) ==
    {<<r[3], SubClass, r[4], Default>> : r \in {x \in tbox : x[1] = "class"}}
    \cup {<<r[3], SubProperty, r[4], Default>> : r \in {x \in tbox : x[1] = "property"}}

prop_arms(tbox, base, ent, p) == {x \in base \cup same_arms(tbox, base, ent) \cup schema_arms(tbox) : x[2] = p}

\* Walks u, within a graph.
RECURSIVE Walk(_, _)
Walk(r, u) ==
    LET more == r \cup {<<x[1], x[2], y[3], x[4]>> : <<x, y>> \in {<<v, w>> \in r \X u : w[1] = v[3] /\ w[4] = v[4]}}
    IN  IF more = r THEN r ELSE Walk(more, u)

declared(tbox, ent, p, g) == \E r \in tbox : r[1] = "transitive" /\ r[3] = p /\ r[2] = scope_of(ent, g)
transitive(tbox, base, ent, p) ==
    LET arms == prop_arms(tbox, base, ent, p)
        u == IF ent.scopes = {} THEN arms ELSE {z \in arms : declared(tbox, ent, p, z[4])}
    IN  (arms \ u) \cup Walk(u, u)

\* The entailed quads that match a property, or Var.
source(tbox, base, ent, p) ==
    IF ent.reasoning = "none" THEN {x \in base : p \in {Var, x[2]}}
    ELSE IF p = Type THEN {x \in base : x[2] = Type} \cup type_arms(tbox, base, ent)
    ELSE IF p # Var THEN IF ent.reasoning = "owl" /\ p \in ent.transitive THEN transitive(tbox, base, ent, p) ELSE prop_arms(tbox, base, ent, p)
    ELSE base \cup same_arms(tbox, base, ent) \cup schema_arms(tbox) \cup type_arms(tbox, base, ent)
         \cup (IF ent.reasoning = "owl" THEN UNION {transitive(tbox, base, ent, q) : q \in ent.transitive} ELSE {})

-----------------------------------------------------------------------------
(* What the ontologies of a graph entail, by the rules of RDFS and of the  *)
(* OWL property axioms, one rule application at a time. Facts and axioms   *)
(* are triples; a literal may be the subject of an intermediate one.       *)

\* The active ontologies for a graph: those that apply to it, and what they
\* import, as the reader in Rust tells it.
RECURSIVE Importing(_, _, _)
Importing(S, entries, quads) ==
    LET active == {e \in entries : e.role = "ontology" /\ e.active}
        Imported(e) == e.imports \cup {q[3] : q \in {r \in quads : r[2] = "owl:imports" /\ r[4] = e.graph}}
        more == S \cup {f.graph : f \in {x \in active : \E e \in active : e.graph \in S /\ ({graph_node(x.graph)} \cup x.iri) \cap Imported(e) # {}}}
    IN  IF more = S THEN S ELSE Importing(more, entries, quads)
Ontologies(quads, g) ==
    LET entries == entries_from_rows(quads)
    IN  IF \E e \in entries : e.role = "ontology" THEN Importing(applying(entries, g, "ontology"), entries, quads)
        ELSE {q[4] : q \in quads} \ SYSTEM_GRAPHS
Axioms(quads, g) == LET gs == Ontologies(quads, g) IN {<<q[1], q[2], q[3]>> : q \in {r \in quads : r[4] \in gs}}

Entailing(facts, ax, owl, walks) ==
    LET Given(s, p, o) == <<s, p, o>> \in ax
        Below(a, b, sub, eq) == Given(a, sub, b) \/ Given(a, eq, b) \/ Given(b, eq, a)
        From(x) ==
            {<<x[1], q, x[3]>> : q \in {b \in Nodes : Below(x[2], b, SubProperty, "owl:equivalentProperty")}}
            \cup (IF x[2] = Type THEN {<<x[1], Type, c>> : c \in {b \in Nodes : Below(x[3], b, SubClass, "owl:equivalentClass")}} ELSE {})
            \cup {<<x[1], Type, c>> : c \in {b \in Nodes : Given(x[2], "rdfs:domain", b)}}
            \cup {<<x[3], Type, c>> : c \in {b \in Nodes : Given(x[2], "rdfs:range", b)}}
            \cup (IF ~owl THEN {}
                  ELSE {<<x[3], q, x[1]>> : q \in {b \in Nodes : Given(x[2], "owl:inverseOf", b) \/ Given(b, "owl:inverseOf", x[2])
                                                                 \/ (b = x[2] /\ Given(b, Type, "owl:SymmetricProperty"))}})
            \cup (IF ~walks \/ ~Given(x[2], Type, "owl:TransitiveProperty") THEN {}
                  ELSE {<<x[1], x[2], y[3]>> : y \in {z \in facts : z[1] = x[3] /\ z[2] = x[2]}})
    IN  facts \cup UNION {From(x) : x \in facts}
RECURSIVE Entailed(_, _, _, _)
Entailed(facts, ax, owl, walks) ==
    LET more == Entailing(facts, ax, owl, walks) IN IF more = facts THEN facts ELSE Entailed(more, ax, owl, walks)
Statable(triples) == {x \in triples : non_literal(x[1])}
=============================================================================
