--------------------------- MODULE PropertyGraph ----------------------------
(***************************************************************************)
(* The property graph Cypher sees in a set of triples: labels are types,   *)
(* properties are literals, a relationship is a triple, and parallel       *)
(* relationships or relationships with properties carry a reifier each.    *)
(***************************************************************************)
EXTENDS Naturals, Sequences, FiniteSets, SequencesExt, TLC

\* The reifier of a relationship that has none.
None == 0

\* rdfs:Resource, the type that marks nodes created by Cypher.
Resource == "Resource"

\* Triples, by what their object is; the second component is the subject.
\* A property is a <<key, value>> pair, an edge a <<start, type, end>> triple.
Label(n, l) == <<"type", n, l>>
Prop(x, p) == <<"prop", x, p>>
Edge(t) == <<"edge", t[1], t>>
Reifies(r, t) == <<"reifies", r, t>>

Triples(d) == {q[3] : q \in {e \in d : e[1] = "edge"}}
AllReifiers(d) == {q[2] : q \in {e \in d : e[1] = "reifies"}}
ReifiersOf(d, t) == {q[2] : q \in {e \in d : e = Reifies(e[2], t)}}
LabelsOf(d, n) == {q[3] : q \in {e \in d : e[1] = "type" /\ e[2] = n}} \ {Resource}
PropsOf(d, x) == {q[3] : q \in {e \in d : e[1] = "prop" /\ e[2] = x}}

\* Subjects that are not reifiers, and the ends of relationships.
Nodes(d) == ({q[2] : q \in d} \cup {t[3] : t \in Triples(d)}) \ AllReifiers(d)

\* The identities of the relationships of a triple: its reifiers, or itself.
RidsOf(d, t) ==
    IF t \notin Triples(d) THEN {} ELSE IF ReifiersOf(d, t) = {} THEN {None} ELSE ReifiersOf(d, t)

-----------------------------------------------------------------------------
(***************************************************************************)
(* Patterns.  A node pattern has a variable, labels and properties; a      *)
(* pattern is a node pattern and at most one relationship to another.      *)
(* Rows map variables to values.                                           *)
(***************************************************************************)
NodeV(n) == [is |-> "node", id |-> n]
RelV(t, r) == [is |-> "rel", t |-> t, rid |-> r]
NullV == [is |-> "null"]
IsNode(row, v) == v \in DOMAIN row /\ row[v].is = "node"

Put(f, x, y) == (x :> y) @@ f
Without(f, S) == [x \in DOMAIN f \ S |-> f[x]]

pattern_vars(p) == {p.start.var} \cup UNION {{r.var, r.end.var} : r \in ToSet(p.chain)}

\* Every subject with the labels and properties, reifiers too; without any,
\* the nodes.
Described(d, np) ==
    IF np.labels \cup np.props = {} THEN Nodes(d)
    ELSE {n \in {q[2] : q \in d} : np.labels \subseteq LabelsOf(d, n) /\ np.props \subseteq PropsOf(d, n)}

\* A variable that is null matches nothing.
Ends(d, np, row) ==
    IF np.var \notin DOMAIN row THEN Described(d, np)
    ELSE IF IsNode(row, np.var) THEN {n \in {row[np.var].id} :
        np.labels \subseteq LabelsOf(d, n) /\ np.props \subseteq PropsOf(d, n)} ELSE {}

\* Properties are looked up on the reifier, which must then exist.
Hops(d, rel, s, o) ==
    LET rids == RidsOf(d, <<s, rel.type, o>>)
    IN  IF rel.props = {} THEN rids ELSE {r \in rids \ {None} : rel.props \subseteq PropsOf(d, r)}

Matches(d, p, row) ==
    IF p.chain = <<>> THEN {Put(row, p.start.var, NodeV(n)) : n \in Ends(d, p.start, row)}
    ELSE LET rel == p.chain[1]
         IN  UNION {{Put(Put(Put(row, p.start.var, NodeV(s)), rel.end.var, NodeV(o)),
                         rel.var, RelV(<<s, rel.type, o>>, r)) : r \in Hops(d, rel, s, o)} :
                    s \in Ends(d, p.start, row), o \in Ends(d, rel.end, row)}
=============================================================================
