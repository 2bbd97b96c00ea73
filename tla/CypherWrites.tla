---------------------------- MODULE CypherWrites ----------------------------
(***************************************************************************)
(* A writing Cypher statement as its job runs it: one query, a read of the *)
(* entities it bound, the clauses evaluated in memory, two reads that      *)
(* settle which relationships exist and which need a reifier, and one      *)
(* atomic write.                                                           *)
(***************************************************************************)
EXTENDS PropertyGraph

CONSTANTS
    Statements,     \* [match, tail]: patterns, then clauses
    Stored,         \* the graphs a store may start with
    Shapes,         \* [label, key, datatype, min, max]; datatype "any" is none
    DatatypeOf(_),  \* of a property value
    FirstId,        \* ids below are in use in Stored
    MaxStatements

ASSUME IdAssumption == FirstId \in Nat \ {None}

VARIABLES
    db,      \* the triples of the default graph
    minted,  \* the last id a job made up
    job,     \* the statement that runs, or ran last
    runs     \* statements started

vars == <<db, minted, job, runs>>

-----------------------------------------------------------------------------
(***************************************************************************)
(* The state of a graph a statement changes in memory (GraphState).        *)
(***************************************************************************)
NoEntity == [labels |-> {}, props |-> {}, deleted |-> FALSE]
EntityOf(map, x) == IF x \in DOMAIN map THEN map[x] ELSE NoEntity
NoStats == [nodesCreated |-> 0, nodesDeleted |-> 0, relsCreated |-> 0, relsDeleted |-> 0]
NoGraph ==
    [nodes |-> <<>>, rels |-> <<>>, createdNodes |-> {}, createdRels |-> <<>>, reified |-> <<>>,
     dropped |-> {}, nodeDeletes |-> <<>>, relDeletes |-> <<>>, touched |-> {},
     ins |-> {}, del |-> {}, merged |-> <<>>, stats |-> NoStats]

\* The last change of a triple wins.
Set(g, qs) == [g EXCEPT !.ins = @ \cup qs, !.del = @ \ qs]
Unset(g, qs) == [g EXCEPT !.del = @ \cup qs, !.ins = @ \ qs]

Provisional(g) == {c.rid : c \in ToSet(g.createdRels)}

\* A relationship value finds the reifier its triple got in this statement.
RidOf(g, v) == IF v.rid = None /\ v.t \in DOMAIN g.reified THEN g.reified[v.t] ELSE v.rid
Refresh(g, row) ==
    [x \in DOMAIN row |->
        IF x # "matched" /\ row[x].is = "rel" THEN RelV(row[x].t, RidOf(g, row[x])) ELSE row[x]]

\* The entities the rows bind, with what the store holds of them.
Materialized(d, rows) ==
    LET values == UNION {{r[x] : x \in DOMAIN r \ {"matched"}} : r \in ToSet(rows)}
    IN  [NoGraph EXCEPT
            !.nodes = [n \in {v.id : v \in {w \in values : w.is = "node"}} |->
                          [NoEntity EXCEPT !.labels = LabelsOf(d, n), !.props = PropsOf(d, n)]],
            !.rels = [r \in {v.rid : v \in {w \in values : w.is = "rel"}} \ {None} |->
                          [NoEntity EXCEPT !.props = PropsOf(d, r)]]]

-----------------------------------------------------------------------------
(***************************************************************************)
(* Clauses.  A step x has the graph g, a row, the last id and err.         *)
(***************************************************************************)
CreateNode(x, np) ==
    LET id == x.minted + 1
    IN  IF np.var \in DOMAIN x.row
        THEN [x EXCEPT !.id = IF IsNode(x.row, np.var) THEN x.row[np.var].id ELSE None,
                       !.err = @ \/ ~IsNode(x.row, np.var) \/ np.labels # {} \/ np.props # {}]
        ELSE [x EXCEPT
                !.id = id, !.minted = id, !.row = Put(@, np.var, NodeV(id)),
                !.g = [Set(@, {Label(id, l) : l \in np.labels \cup {Resource}} \cup {Prop(id, p) : p \in np.props})
                         EXCEPT !.nodes = Put(@, id, [NoEntity EXCEPT !.labels = np.labels, !.props = np.props]),
                                !.createdNodes = @ \cup {id}, !.touched = @ \cup {id},
                                !.stats.nodesCreated = @ + 1]]

CreateRel(end, rel, t, rid) ==
    [end EXCEPT
        !.err = @ \/ rel.var \in DOMAIN end.row, !.minted = rid, !.row = Put(@, rel.var, RelV(t, rid)),
        !.g = [@ EXCEPT !.rels = Put(@, rid, [NoEntity EXCEPT !.props = rel.props]),
                        !.createdRels = Append(@, [t |-> t, rid |-> rid, dropped |-> FALSE]),
                        !.stats.relsCreated = @ + 1]]

CreatePart(x, p) ==
    LET Between(start, rel, end) == CreateRel(end, rel, <<start.id, rel.type, end.id>>, end.minted + 1)
        From(start) ==
            IF p.chain = <<>> THEN start ELSE Between(start, p.chain[1], CreateNode(start, p.chain[1].end))
    IN  From(CreateNode(x, p.start))

\* Properties of a relationship need a reifier.
Target(x, var) ==
    LET v == x.row[var]
        id == x.minted + 1
    IN  IF v.is = "node" THEN [x EXCEPT !.id = v.id]
        ELSE IF RidOf(x.g, v) # None THEN [x EXCEPT !.id = RidOf(x.g, v)]
        ELSE [x EXCEPT !.id = id, !.minted = id,
                       !.g = [Set(@, {Reifies(id, v.t)}) EXCEPT !.reified = Put(@, v.t, id),
                                                               !.rels = Put(@, id, NoEntity)]]

\* Values of key become new (a set of at most one).  What a created
\* relationship has is written when its reifier is.
SetProp(g, x, isRel, key, new) ==
    LET e == EntityOf(IF isRel THEN g.rels ELSE g.nodes, x)
        old == {p \in e.props : p[1] = key}
        f == [e EXCEPT !.props = (@ \ old) \cup new]
        h == IF isRel THEN [g EXCEPT !.rels = Put(@, x, f)]
             ELSE [g EXCEPT !.nodes = Put(@, x, f), !.touched = @ \cup {x}]
    IN  IF x \in Provisional(g) THEN h ELSE Set(Unset(h, {Prop(x, p) : p \in old}), {Prop(x, p) : p \in new})

\* SET x.k = v, x += {..} and REMOVE x.k give keys values; x = {..} also takes
\* the other keys away.
SetProps(x, it) ==
    LET y == Target(x, it.var)
        isRel == x.row[it.var].is = "rel"
        old == {p[1] : p \in EntityOf(IF isRel THEN y.g.rels ELSE y.g.nodes, y.id).props}
        gone == IF it.replace THEN old \ DOMAIN it.map ELSE {}
        Give(g, k) == SetProp(g, y.id, isRel, k, IF k \in gone THEN {} ELSE {<<k, v>> : v \in it.map[k]})
    IN  [y EXCEPT !.g = FoldLeft(Give, @, SetToSeq(gone) \o SetToSeq(DOMAIN it.map))]

\* Labels are added or removed one at a time.
SetLabel(x, it) ==
    LET n == x.row[it.var].id
        e == EntityOf(x.g.nodes, n)
        q == {Label(n, it.label)}
        f == [e EXCEPT !.labels = IF it.add THEN @ \cup {it.label} ELSE @ \ {it.label}]
        g == [x.g EXCEPT !.nodes = Put(@, n, f), !.touched = @ \cup {n}]
    IN  [x EXCEPT !.g = IF it.add THEN Set(g, q) ELSE Unset(g, q)]

\* set_item and remove_item.
SetItem(x, it) ==
    LET Refreshed(y) == [y EXCEPT !.row = Refresh(y.g, @)]
    IN  Refreshed(
            CASE x.err \/ it.var \notin DOMAIN x.row -> [x EXCEPT !.err = TRUE]
              [] x.row[it.var].is = "null" -> x
              [] it.op = "props" -> SetProps(x, it)
              [] it.op = "label" /\ x.row[it.var].is = "node" -> SetLabel(x, it)
              [] OTHER -> [x EXCEPT !.err = TRUE])

\* A mutant: a relationship that two rows delete is counted twice.
DeleteEachTime(x, c) ==
    LET v == x.row[c.var]
    IN  IF v.is # "rel" THEN x
        ELSE [x EXCEPT !.g.relDeletes = Append(@, [t |-> v.t, rid |-> RidOf(x.g, v)]), !.g.stats.relsDeleted = @ + 1]

\* Deletions are only noted; created relationships are dropped at once.
Delete(x, c) ==
    LET v == x.row[c.var]
        g == x.g
        d == [t |-> v.t, rid |-> RidOf(g, v)]
        Drop(r) == IF r.rid = v.rid THEN [r EXCEPT !.dropped = TRUE] ELSE r
        once == \E r \in ToSet(g.createdRels) : r.rid = v.rid /\ ~r.dropped
    IN  CASE v.is = "null" -> x
          [] v.is = "node" ->
                IF EntityOf(g.nodes, v.id).deleted THEN x
                ELSE [x EXCEPT !.g.nodes = Put(@, v.id, [EntityOf(@, v.id) EXCEPT !.deleted = TRUE]),
                               !.g.nodeDeletes = Append(@, [node |-> v.id, detach |-> c.detach])]
          [] v.is = "rel" /\ v.rid \in Provisional(g) ->
                [x EXCEPT !.g.createdRels = [i \in DOMAIN @ |-> Drop(@[i])],
                          !.g.stats.relsDeleted = @ + (IF once THEN 1 ELSE 0)]
          [] OTHER ->
                IF d \in ToSet(g.relDeletes) THEN x
                ELSE [x EXCEPT !.g.relDeletes = Append(@, d), !.g.stats.relsDeleted = @ + 1]

\* Bound nodes are named, new ones described.
NodeKey(row, np) ==
    IF IsNode(row, np.var) THEN [id |-> row[np.var].id, labels |-> {}, props |-> {}]
    ELSE [id |-> None, labels |-> np.labels, props |-> np.props]
merge_key(p, row) ==
    <<NodeKey(row, p.start)>> \o [i \in DOMAIN p.chain |-> <<p.chain[i].type, p.chain[i].props, NodeKey(row, p.chain[i].end)>>]

\* A pattern matches what the query found (unless a node of it was deleted
\* since), else what the statement created for the same key, else is created.
Merge(x, c) ==
    LET pv == pattern_vars(c.pattern)
        found == "matched" \in DOMAIN x.row /\ x.row.matched
        stale == \E v \in pv : IsNode(x.row, v) /\ EntityOf(x.g.nodes, x.row[v].id).deleted
        row == Without(x.row, {"matched"} \cup {v \in pv \cap DOMAIN x.row : (found /\ stale) \/ x.row[v].is = "null"})
        key == merge_key(c.pattern, row)
        Remember(z) == [z EXCEPT !.g.merged = Put(@, key, [v \in pv |-> z.row[v]])]
    IN  IF found /\ ~stale THEN FoldLeft(SetItem, [x EXCEPT !.row = Without(x.row, {"matched"})], c.onMatch)
        ELSE IF key \in DOMAIN x.g.merged
        THEN FoldLeft(SetItem, [x EXCEPT !.row = Refresh(x.g, x.g.merged[key] @@ row)], c.onMatch)
        ELSE Remember(FoldLeft(SetItem, CreatePart([x EXCEPT !.row = row], c.pattern), c.onCreate))

ClauseOn(x, c) ==
    CASE x.err -> x
      [] c.op = "create" -> CreatePart(x, c.pattern)
      [] c.op = "merge" -> Merge(x, c)
      [] c.op = "delete" -> IF c.var \in DOMAIN x.row THEN Delete(x, c) ELSE [x EXCEPT !.err = TRUE]
      [] OTHER -> SetItem(x, c)

\* Each clause runs over all rows before the next one.
Clause(s, c) ==
    LET After(rows, x) == [g |-> x.g, rows |-> Append(rows, x.row), minted |-> x.minted, err |-> x.err]
        OnRow(acc, row) ==
            After(acc.rows, ClauseOn([g |-> acc.g, row |-> row, minted |-> acc.minted, err |-> acc.err, id |-> None], c))
    IN  FoldLeft(OnRow, [s EXCEPT !.rows = <<>>], [i \in DOMAIN s.rows |-> Refresh(s.g, s.rows[i])])

RunPart(g, rows, stmt) ==
    LET Refreshed(s) == [s EXCEPT !.rows = [i \in DOMAIN @ |-> Refresh(s.g, @[i])]]
    IN  Refreshed(FoldLeft(Clause, [g |-> g, rows |-> rows, minted |-> minted, err |-> FALSE], stmt.tail))

-----------------------------------------------------------------------------
(***************************************************************************)
(* The query.  A MERGE that reads no variable of an earlier clause of the  *)
(* tail is looked up by the query, as an optional match.                   *)
(***************************************************************************)
TailVars(stmt, i) ==
    UNION {pattern_vars(stmt.tail[k].pattern) : k \in {j \in 1 .. i - 1 : stmt.tail[j].op \in {"create", "merge"}}}
LookedUp(stmt) ==
    SelectSeq([i \in DOMAIN stmt.tail |-> <<stmt.tail[i], i>>],
              LAMBDA c : c[1].op = "merge" /\ pattern_vars(c[1].pattern) \cap TailVars(stmt, c[2]) = {})

Optional(d, p, row) ==
    LET found == Matches(d, p, row)
        nulls == [v \in pattern_vars(p) \ DOMAIN row |-> NullV]
    IN  IF found = {} THEN {Put(nulls @@ row, "matched", FALSE)} ELSE {Put(r, "matched", TRUE) : r \in found}

Solutions(d, stmt) ==
    LET Join(rows, p) == UNION {Matches(d, p, r) : r \in rows}
        LeftJoin(rows, c) == UNION {Optional(d, c[1].pattern, r) : r \in rows}
    IN  FoldLeft(LeftJoin, FoldLeft(Join, {<<>>}, stmt.match), LookedUp(stmt))

-----------------------------------------------------------------------------
(***************************************************************************)
(* The fix-up: what the store holds around deleted nodes and created       *)
(* relationships (first read), and the reifiers of the triples concerned   *)
(* (second read).                                                          *)
(***************************************************************************)
has_writes(g) == g.ins # {} \/ g.del # {} \/ g.createdRels # <<>> \/ g.nodeDeletes # <<>> \/ g.relDeletes # <<>>

Live(g) == {c \in ToSet(g.createdRels) : ~c.dropped}
DeletedNodes(g) == {n.node : n \in ToSet(g.nodeDeletes)}

NoFix == [incident |-> {}, existing |-> {}, reifiers |-> <<>>, quads |-> <<>>]

Fix1(d, g) ==
    LET dels == DeletedNodes(g) \ g.createdNodes
        incident == {q \in d : q[2] \in dels \/ (q[1] = "edge" /\ q[3][3] \in dels)}
        probed == {c.t : c \in {e \in Live(g) : {e.t[1], e.t[3]} \cap g.createdNodes = {}}}
    IN  [NoFix EXCEPT !.incident = incident, !.existing = Triples(incident) \cup (Triples(d) \cap probed)]

fix_triples(g, fix) == {c.t : c \in Live(g)} \cup {r.t : r \in ToSet(g.relDeletes)} \cup Triples(fix.incident)

Fix2(d, g, fix) ==
    LET ts == fix_triples(g, fix)
        rs == UNION {ReifiersOf(d, t) : t \in ts}
    IN  [fix EXCEPT !.reifiers = [t \in ts |-> ReifiersOf(d, t)], !.quads = [r \in rs |-> {q \in d : q[2] = r}]]

ReifiersIn(fix, t) == IF t \in DOMAIN fix.reifiers THEN fix.reifiers[t] ELSE {}
QuadsOf(fix, rids) == UNION {fix.quads[r] : r \in rids \cap DOMAIN fix.quads}

\* a has the graph g, the reifiers deleted so far in rids, and err.
DeleteRels(g, fix) ==
    LET reified == {r \in ToSet(g.relDeletes) : r.rid # None}
        rids == {r.rid : r \in reified}
    IN  [g |-> Unset(g, QuadsOf(fix, rids) \cup {Reifies(r.rid, r.t) : r \in reified}
                        \cup {Edge(r.t) : r \in ToSet(g.relDeletes) \ reified}),
         rids |-> rids, err |-> FALSE]

\* A mutant: the reifiers of the node's relationships stay.
DeleteNodeOnly(fix, a, nd) ==
    LET incident == {q \in fix.incident : q[2] = nd.node \/ (q[1] = "edge" /\ q[3][3] = nd.node)}
    IN  IF nd.detach THEN [a EXCEPT !.g = Unset(@, incident)] ELSE [a EXCEPT !.err = TRUE]

\* A node that still has relationships is only deleted with DETACH.
DeleteNode(fix, a, nd) ==
    LET n == nd.node
        g == a.g
        created == {c \in Live(g) : n \in {c.t[1], c.t[3]}}
        incident == {q \in fix.incident : q[2] = n \/ (q[1] = "edge" /\ q[3][3] = n)}
        plainDeletes == {r.t : r \in {e \in ToSet(g.relDeletes) : e.rid = None}}
        Already(t) == \/ t \in plainDeletes
                      \/ ReifiersIn(fix, t) # {} /\ ReifiersIn(fix, t) \subseteq a.rids
                      \/ t[3] \in DeletedNodes(g) /\ t[1] = n /\ nd.detach
        fresh == {t \in Triples(incident) : ~Already(t)}
        rids == UNION {ReifiersIn(fix, t) : t \in Triples(incident)}
        Drop(c) == IF c \in created THEN [c EXCEPT !.dropped = TRUE] ELSE c
        h == [g EXCEPT !.createdRels = [i \in DOMAIN @ |-> Drop(@[i])], !.stats.nodesDeleted = @ + 1]
    IN  IF a.err THEN a
        ELSE IF ~nd.detach /\ created # {} THEN [a EXCEPT !.err = TRUE]
        ELSE IF n \in g.createdNodes THEN [a EXCEPT !.g = Unset(h, {q \in g.ins : q[2] = n})]
        ELSE IF ~nd.detach /\ fresh # {} THEN [a EXCEPT !.err = TRUE]
        ELSE [a EXCEPT !.g = [Unset(h, incident \cup QuadsOf(fix, rids)) EXCEPT !.stats.relsDeleted = @ + Cardinality(fresh)],
                       !.rids = @ \cup rids]

\* A triple goes with its last reifier, unless the statement created it anew.
DeleteTriples(fix, a) ==
    LET g == a.g
        last == {r.t : r \in {e \in ToSet(g.relDeletes) : e.rid # None /\ ReifiersIn(fix, e.t) \subseteq a.rids}}
    IN  [a EXCEPT !.g = Unset(g, {Edge(t) : t \in last \ {c.t : c \in Live(g)}})]

\* A single relationship without properties is just its triple; otherwise
\* every relationship of the triple gets a reifier, the stored one too.
CreateRels(fix, a, t) ==
    LET cs == {c \in Live(a.g) : c.t = t}
        exists == t \in fix.existing /\ Edge(t) \notin a.g.del
        plain == ~exists /\ Cardinality(cs) = 1 /\ \A c \in cs : EntityOf(a.g.rels, c.rid).props = {}
        asserted == Set(a.g, {Edge(t)})
        alone == exists /\ ReifiersIn(fix, t) \subseteq a.rids /\ t \notin DOMAIN a.g.reified
        old == a.minted + 1
        g == IF alone THEN [Set(asserted, {Reifies(old, t)}) EXCEPT !.reified = Put(@, t, old)] ELSE asserted
    IN  IF plain THEN [a EXCEPT !.g = [asserted EXCEPT !.dropped = @ \cup {c.rid : c \in cs}]]
        ELSE [a EXCEPT !.minted = IF alone THEN old ELSE @,
                       !.g = Set(g, {Reifies(c.rid, t) : c \in cs}
                                    \cup UNION {{Prop(c.rid, p) : p \in EntityOf(g.rels, c.rid).props} : c \in cs})]

\* The guards of the shapes that target a node's labels; a minimum is only
\* looked at together with a datatype.
Conforms(e) ==
    \A s \in {s \in Shapes : s.label \in e.labels} :
        LET values == {p[2] : p \in {q \in e.props : q[1] = s.key}}
        IN  /\ s.datatype # "any" => (\A v \in values : DatatypeOf(v) = s.datatype) /\ Cardinality(values) >= s.min
            /\ Cardinality(values) <= s.max

ApplyFixup(g, fix) ==
    LET OnNode(a, nd) == DeleteNode(fix, a, nd)
        OnTriple(a, t) == CreateRels(fix, a, t)
        Unused(c) == {r.rid : r \in {e \in ToSet(c.g.createdRels) : e.dropped}}
        Creating(c) ==
            FoldLeft(OnTriple, [g |-> [c.g EXCEPT !.dropped = Unused(c)], rids |-> c.rids, err |-> c.err, minted |-> minted],
                     SetToSeq({x.t : x \in Live(c.g)}))
        Conform(h) == \A n \in h.touched : EntityOf(h.nodes, n).deleted \/ Conforms(EntityOf(h.nodes, n))
        Checked(e) == [e EXCEPT !.err = @ \/ ~Conform(e.g)]
    IN  Checked(Creating(DeleteTriples(fix, FoldLeft(OnNode, DeleteRels(g, fix), g.nodeDeletes))))

-----------------------------------------------------------------------------
(***************************************************************************)
(* The job: one action per request.                                        *)
(***************************************************************************)
Idle == [at |-> "idle"]
Init ==
    /\ db \in Stored
    /\ minted = FirstId - 1
    /\ job = Idle
    /\ runs = 0

\* The state of a job that goes on to its next request.
Goes(at, rows, g, fix) == job' = [job EXCEPT !.at = at, !.rows = rows, !.g = g, !.fix = fix]

Start(stmt) ==
    /\ job.at \in {"idle", "failed", "done"} /\ runs < MaxStatements
    /\ job' = [at |-> "query", stmt |-> stmt, rows |-> <<>>, g |-> NoGraph, fix |-> NoFix, before |-> db]
    /\ runs' = runs + 1
    /\ UNCHANGED <<db, minted>>

\* The rows come in any order.
Query ==
    /\ job.at = "query"
    /\ \E rows \in SetToSeqs(Solutions(db, job.stmt)) : Goes("materialize", rows, NoGraph, NoFix)
    /\ UNCHANGED <<db, minted, runs>>

\* The clauses run as soon as the entities are read.
Materialize ==
    /\ job.at = "materialize"
    /\ \E r \in {RunPart(Materialized(db, job.rows), job.rows, job.stmt)} :
           /\ minted' = IF r.err THEN minted ELSE r.minted
           /\ Goes(IF r.err THEN "failed" ELSE IF has_writes(r.g) THEN "fixup1" ELSE "done", r.rows, r.g, NoFix)
    /\ UNCHANGED <<db, runs>>

Fixup1 ==
    /\ job.at = "fixup1"
    /\ Goes("fixup2", job.rows, job.g, Fix1(db, job.g))
    /\ UNCHANGED <<db, minted, runs>>

Fixup2 ==
    /\ job.at = "fixup2"
    /\ \E fix \in {Fix2(db, job.g, job.fix)} : \E e \in {ApplyFixup(job.g, fix)} :
           /\ minted' = IF e.err THEN minted ELSE e.minted
           /\ Goes(IF e.err THEN "failed" ELSE IF e.g.ins \cup e.g.del = {} THEN "done" ELSE "write", job.rows, e.g, fix)
    /\ UNCHANGED <<db, runs>>

\* Values returned lose the reifiers that were not needed and gain those
\* that were (patch_reifiers).
Patched(g, rows) ==
    LET Patch(v) == IF v.is = "rel" THEN RelV(v.t, RidOf(g, IF v.rid \in g.dropped THEN RelV(v.t, None) ELSE v)) ELSE v
    IN  [i \in DOMAIN rows |-> [x \in DOMAIN rows[i] |-> Patch(rows[i][x])]]

Write ==
    /\ job.at = "write"
    /\ db' = (db \ job.g.del) \cup job.g.ins
    /\ Goes("done", Patched(job.g, job.rows), job.g, job.fix)
    /\ UNCHANGED <<minted, runs>>

Next ==
    \/ \E stmt \in Statements : Start(stmt)
    \/ Query \/ Materialize \/ Fixup1 \/ Fixup2 \/ Write

Spec == Init /\ [][Next]_vars

-----------------------------------------------------------------------------
(***************************************************************************)
(* What a statement promises once it is done.                              *)
(***************************************************************************)
Done == job.at = "done"
Gone == DeletedNodes(job.g)
TouchesGone(t) == {t[1], t[3]} \cap Gone # {}

\* Relationships, by triple and reifier.
Rels(d) == UNION {{RelV(t, r) : r \in RidsOf(d, t)} : t \in Triples(d)}
Deleted(v) == TouchesGone(v.t) \/ \E r \in ToSet(job.g.relDeletes) : r.t = v.t /\ r.rid = v.rid
Kept(t) == {v \in Rels(job.before) : v.t = t /\ ~Deleted(v)}
Created(t) == {c \in Live(job.g) : c.t = t}

\* A statement that also changed what it deleted: properties or labels of a
\* deleted node, or a reifier and properties for a deleted relationship.
ChangedAndDeleted ==
    \/ \E q \in job.g.ins :
          q[1] \in {"type", "prop"} /\ q[2] \in Gone \cup {v.rid : v \in {w \in Rels(job.before) : Deleted(w)}}
    \/ \E t \in DOMAIN job.g.reified : TouchesGone(t) \/ \E r \in ToSet(job.g.relDeletes) : r.t = t
Ended == Done /\ ~ChangedAndDeleted

\* The only relationship of a triple deleted, another one created.
Replaced(t) == Kept(t) = {} /\ t \in Triples(job.before) /\ Created(t) # {}

\* Triples, by kind, of known nodes and reifiers.
TypeOK ==
    /\ \A q \in db : q[1] \in {"type", "prop", "edge", "reifies"} /\ q[2] \in 1 .. minted
    /\ minted \in Nat /\ runs \in 0 .. MaxStatements
    /\ job.at \in {"idle", "query", "materialize", "fixup1", "fixup2", "write", "done", "failed"}

\* A statement leaves the nodes it deleted nowhere in the graph, and adds none
\* but those it created: no reifier, label or property left behind makes a
\* node of its own (apply_fixup; node_enumeration takes every subject).
NodesAreThoseExpected ==
    Ended =>
        /\ Nodes(db) \subseteq (Nodes(job.before) \cup job.g.createdNodes) \ Gone
        /\ job.g.createdNodes \ Gone \subseteq Nodes(db)
        /\ \A n \in Nodes(job.before) \ Gone : Label(n, Resource) \in job.before => n \in Nodes(db)

\* Between the same nodes there are as many relationships of a type as there
\* were, less those deleted, plus those created, whichever of them carry
\* reifiers (apply_fixup reifies when one becomes several, and drops the
\* triple with its last reifier).
RelationshipsAreCounted ==
    Ended =>
        \A t \in Triples(db) \cup Triples(job.before) \cup {c.t : c \in Live(job.g)} :
            ~Replaced(t) => Cardinality(RidsOf(db, t)) = Cardinality(Kept(t)) + Cardinality(Created(t))

\* The counters of a statement that detaches nothing tell how the number of
\* relationships changed.
CountersTellTheChange ==
    Ended /\ (\A n \in ToSet(job.g.nodeDeletes) : ~n.detach)
         /\ (\A t \in Triples(job.before) : ~Replaced(t)) =>
        Cardinality(Rels(db)) + job.g.stats.relsDeleted = Cardinality(Rels(job.before)) + job.g.stats.relsCreated

\* What a statement returns of a node or relationship is what the next
\* statement reads: the values of the in-memory graph, with the reifiers the
\* fix-up added and dropped (patch_reifiers).
ReturnedValuesAreStored ==
    Ended => \A i \in DOMAIN job.rows : \A x \in DOMAIN job.rows[i] \ {"matched"} :
        LET v == job.rows[i][x]
            e == EntityOf(job.g.nodes, v.id)
        IN  /\ v.is = "node" /\ v.id \notin Gone => e.labels = LabelsOf(db, v.id) /\ e.props = PropsOf(db, v.id)
            /\ v.is = "rel" /\ ~Deleted(v) /\ ~(\E c \in ToSet(job.g.createdRels) : c.dropped /\ c.rid = v.rid) =>
                 /\ v \in Rels(db)
                 /\ v.rid # None => EntityOf(job.g.rels, v.rid).props = PropsOf(db, v.rid)

\* No reifier outlives its triple: relationships with properties are deleted
\* whole, also with their nodes.
ReifiersHaveTheirTriple ==
    Ended => \A q \in db : q[1] = "reifies" => q[3] \in Triples(db)

\* No statement makes a node break the shapes of its labels, in the store and
\* not only in memory; nodes loaded against them may stay as they are.
ConformingNodesStaySo ==
    LET AsStored(d, n) == Conforms([NoEntity EXCEPT !.labels = LabelsOf(d, n), !.props = PropsOf(d, n)])
    IN  Ended => \A n \in Nodes(db) : AsStored(job.before, n) => AsStored(db, n)

\* A write statement does what it reports: it leaves the nodes and the
\* relationships that its clauses ask for, counts them, and returns values the
\* next statement reads as they are (apply_fixup, patch_reifiers).
StatementsDoAsTheySay ==
    TypeOK /\ NodesAreThoseExpected /\ RelationshipsAreCounted /\ CountersTellTheChange /\ ReturnedValuesAreStored

\* A statement keeps the property graph well formed in the store: no reifier
\* without its triple, no node newly against its shapes (apply_fixup, validate).
GraphsStayWellFormed == ReifiersHaveTheirTriple /\ ConformingNodesStaySo
=============================================================================
