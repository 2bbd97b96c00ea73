--------------------------- MODULE DerivedTables ----------------------------
(***************************************************************************)
(* What a store derives from its quads and keeps: in the file the closure  *)
(* of the schema, the shape index and the tables of the vector indexes; in *)
(* memory the facts its planner reads, shared by the threads that use the  *)
(* store. Each request of a call is a step of its own.                     *)
(***************************************************************************)
EXTENDS SchemaReasoning, VectorIndexes

CONSTANTS
    Threads,
    MaxCalls,     \* how many calls a behaviour makes
    Datasets,     \* what the file holds first
    Written,      \* sets of quads that calls insert, remove and load
    Updates,      \* SPARQL updates
    NewIndexes,   \* vector indexes that calls create
    Registrations,
    Graphs        \* graphs that calls clear, remove and change the registration of

VARIABLES
    quads, tbox, shapes, vec,   \* the file
    facts,        \* Stats of the store: what the last reload read
    job,          \* each thread's steps to do, what it read, and the index it changes
    calls,
    \* How the file came to be as it is, for the properties:
    lag,          \* caches a bulk load, or a change of a list, has left behind
    drift,        \* index definitions changed by a call that builds no tables, or a failed build
    overwritten,  \* facts were replaced by facts read before them
    crossed       \* tables were built after what the plan was made from changed

file == <<quads, tbox, shapes, vec>>
ghosts == <<lag, drift, overwritten, crossed>>
vars == <<file, facts, job, calls, ghosts>>

Stats == [transitive |-> transitive_statement(tbox), scopes |-> scopes_statement(tbox), defs |-> definitions(quads), built |-> vec.meta]
\* Do facts say what the file's closure and fingerprints are?
Current(f) == [f EXCEPT !.defs = {}] = [Stats EXCEPT !.defs = {}]
Reload == <<"read", "set">>
Idle(t) == job[t].todo = <<>>
Next_(t, step) == job[t].todo # <<>> /\ Head(job[t].todo) = step
Unread == [transitive |-> {}, scopes |-> {}, defs |-> {}, built |-> [n \in TableNames |-> None]]
Do(t, todo) == job' = [job EXCEPT ![t] = [todo |-> todo, seen |-> Unread, index |-> {}]]
Done(t) == Do(t, Tail(job[t].todo))

-----------------------------------------------------------------------------
(* Which updates change a cache. A pattern's Var stands for any term.      *)

Touches(u, Data(_), Pattern(_)) ==
    \E i \in DOMAIN u :
        CASE u[i].op \in {"insert", "delete"} -> \E q \in u[i].data : Data(q)
          [] u[i].op = "modify" -> \E q \in {u[i].delete, u[i].insert} : q # None /\ Pattern(q)
          [] u[i].op = "rewrite" -> Pattern(<<u[i].node, u[i].p, Var, Registry>>)
          [] u[i].op = "clear" -> TRUE
in_vocabulary(t) == t \in {"oxl:appliesTo", "oxl:active", "oxl:ontologyIri", "oxl:imports", "oxl:version", "oxl:property", "oxl:dimensions",
                           "oxl:metric", "oxl:elementType", "oxl:class", "oxl:VectorIndex", SYSTEM_GRAPH} \cup {class(r) : r \in SchemaRole}
vocabulary_triple(p, o, more) == p = Var \/ (p = Type /\ (o = Var \/ in_vocabulary(o))) \/ in_vocabulary(p) \/ p \in more
update_touches_registry(u) ==
    Touches(u, LAMBDA q : q[4] = Registry, LAMBDA q : q[4] = Registry \/ (q[4] = Var /\ vocabulary_triple(q[2], q[3], {"owl:imports"})))
touches_axioms(u) ==
    Touches(u, LAMBDA q : is_schema_iri(q[2]) \/ (q[2] = Type /\ is_axiom_class(q[3])),
               LAMBDA q : q[2] = Var \/ is_schema_iri(q[2]) \/ (q[2] = Type /\ (q[3] = Var \/ is_axiom_class(q[3]))))
\* A mutant: a class that the WHERE clause binds is no axiom.
update_touches_constants(u) ==
    update_touches_registry(u) \/ Touches(u, LAMBDA q : is_schema_quad(q), LAMBDA q : is_schema_quad(q))
update_touches_schema(u) == update_touches_registry(u) \/ touches_axioms(u)
update_touches_shapes(u) == update_touches_registry(u) \/ Touches(u, LAMBDA q : is_shape_iri(q[2]), LAMBDA q : q[2] = Var \/ is_shape_iri(q[2]))
update_touches_vectors(u) ==
    Touches(u, LAMBDA q : q[4] = Vectors, LAMBDA q : q[4] = Vectors \/ (q[4] = Var /\ vocabulary_triple(q[2], q[3], {})))

-----------------------------------------------------------------------------
(* A request: its statements change the quads, with the triggers, then the *)
(* caches are rebuilt; or one fails and nothing changes.                   *)

At(qs, v) == [quads |-> qs, vec |-> v]
\* A statement that leaves the quads new.
Statement(st, new) == IF Ok(st.vec) THEN At(new, triggers(st.vec, st.quads, new)) ELSE st

Matches(q, pattern) == \A i \in 1..4 : pattern[i] = q[i] \/ (pattern[i] = Var /\ (i = 4 => q[i] # Default))
Filled(template, q) == [i \in 1..4 |-> IF template[i] = Var THEN q[i] ELSE template[i]]
Operation(st, op) ==
    LET matched == {q \in st.quads : Matches(q, op.delete)}
        old == {q \in st.quads : q[1] = op.node /\ q[2] = op.p /\ q[4] = Registry}
        typed == \E q \in st.quads : q[1] = op.node /\ q[2] = Type /\ q[4] = Registry
    IN  CASE op.op = "insert" -> Statement(st, st.quads \cup op.data)
          [] op.op = "delete" -> Statement(st, st.quads \ op.data)
          [] op.op = "clear" -> Statement(st, {q \in st.quads : q[4] # op.graph})
          [] op.op = "modify" -> Statement(Statement(st, st.quads \ matched),
                                           (st.quads \ matched) \cup IF op.insert = None THEN {} ELSE {Filled(op.insert, q) : q \in matched})
          [] op.op = "rewrite" -> IF typed THEN Statement(st, (st.quads \ old) \cup {<<op.node, op.p, v, Registry>> : v \in op.values}) ELSE st

\* The caches that a write leaves behind: the index of shapes does not follow lists.
Behind(new, closure, shape) ==
    (lag \ ((IF closure THEN {"tbox"} ELSE {}) \cup (IF shape THEN {"shapes", "lists"} ELSE {})))
    \cup (IF ~shape /\ \E q \in (new \ quads) \cup (quads \ new) : q[2] \in {"rdf:first", "rdf:rest"} THEN {"lists"} ELSE {})

Commit(t, st, closure, shape, todo) ==
    IF Ok(st.vec)
    THEN /\ quads' = st.quads /\ vec' = st.vec
         /\ tbox' = (IF closure THEN closure_statements(st.quads) ELSE tbox)
         /\ shapes' = (IF shape THEN refresh_statements(st.quads) ELSE shapes)
         /\ lag' = Behind(st.quads, closure, shape)
         /\ Do(t, todo)
    ELSE Do(t, <<>>) /\ UNCHANGED <<file, lag>>
Call(t) == Idle(t) /\ calls < MaxCalls /\ calls' = calls + 1
Drifts(new) == drift' = (drift \/ \E q \in (new \ quads) \cup (quads \ new) : q[4] = Vectors)

-----------------------------------------------------------------------------
(* Quads, one by one and in bulk.                                          *)

Refreshes(qs, t, new, after) ==
    LET schema == \E q \in qs : is_schema_quad(q)
        shape == \E q \in qs : is_shape_quad(q)
    IN  Commit(t, Statement(At(quads, vec), new), schema, shape, IF schema THEN after ELSE <<>>)
InsertQuads(t, qs) ==
    /\ Call(t) /\ Refreshes(qs, t, quads \cup qs, Reload) /\ Drifts(quads \cup qs)
    /\ UNCHANGED <<facts, overwritten, crossed>>
RemoveQuads(t, qs) ==
    /\ Call(t) /\ Refreshes(qs, t, quads \ qs, Reload) /\ Drifts(quads \ qs)
    /\ UNCHANGED <<facts, overwritten, crossed>>

\* A chunk of a bulk load, after which come more or the commit.
LoadChunk(t, qs) ==
    /\ calls < MaxCalls /\ calls' = calls + 1
    /\ Idle(t) \/ Next_(t, "commit")
    /\ LET st == Statement(At(quads, vec), quads \cup qs)
       IN  IF Ok(st.vec)
           THEN /\ quads' = st.quads /\ vec' = st.vec /\ Do(t, <<"commit">>)
                /\ lag' = lag \cup {"tbox", "shapes", "lists"}
                /\ UNCHANGED <<tbox, shapes>>
           ELSE Do(t, <<>>) /\ UNCHANGED <<file, lag>>
    /\ Drifts(quads \cup qs)
    /\ UNCHANGED <<facts, overwritten, crossed>>
CommitLoad(t) ==
    /\ Next_(t, "commit") /\ Commit(t, At(quads, vec), TRUE, TRUE, Reload)
    /\ UNCHANGED <<facts, calls, drift, overwritten, crossed>>
\* The loader is dropped without a commit.
DropLoader(t) == Next_(t, "commit") /\ Do(t, <<>>) /\ UNCHANGED <<file, facts, calls, ghosts>>
Optimize(t) ==
    /\ Call(t) /\ Commit(t, At(quads, vec), TRUE, TRUE, Reload)
    /\ UNCHANGED <<facts, drift, overwritten, crossed>>

-----------------------------------------------------------------------------
(* Updates and the registry.                                               *)

Update(t, u) ==
    /\ Call(t)
    /\ LET vectors == update_touches_vectors(u)
           schema == update_touches_schema(u)
       IN  Commit(t, FoldLeft(Operation, At(quads, vec), u), schema, update_touches_shapes(u),
                  IF vectors THEN Reload \o Reload \o <<"plan">> ELSE IF schema THEN Reload ELSE <<>>)
    /\ UNCHANGED <<facts, drift, overwritten, crossed>>

RegisterSchemaGraph(t, e) == Update(t, register_update(e))
\* A request of its own asks for the registration first; one that has gone
\* by then leaves the update with nothing to change.
SetSchemaGraphTargets(t, g, to) == registered(quads, g) /\ Update(t, remap_update(g, to))
SetSchemaGraphActive(t, g, active) == registered(quads, g) /\ Update(t, set_active_update(g, active))
UnregisterSchemaGraph(t, g) == registered(quads, g) /\ Update(t, unregister_update(g))
DropSchemaGraph(t, g) == Update(t, drop_update(g))
InstallSystemGraphs(t) == ~system_graphs_ready(quads) /\ Update(t, system_graphs_update)

ClearGraph(t, g) ==
    LET new == {q \in quads : q[4] # g}
    IN  /\ Call(t) /\ Commit(t, Statement(At(quads, vec), new), TRUE, TRUE, Reload) /\ Drifts(new)
        /\ UNCHANGED <<facts, overwritten, crossed>>
RemoveNamedGraph(t, g) ==
    LET new == {q \in quads : q[4] # g /\ ~(q[4] = Registry /\ q[1] = g)}
    IN  /\ Call(t) /\ g # Default /\ Commit(t, Statement(At(quads, vec), new), TRUE, TRUE, Reload) /\ Drifts(new)
        /\ UNCHANGED <<facts, overwritten, crossed>>
Clear_(t) ==
    /\ Call(t)
    /\ quads' = {} /\ tbox' = {} /\ shapes' = NoShapes /\ vec' = triggers(vec, quads, {})
    /\ lag' = {} /\ Drifts({}) /\ Do(t, Reload)
    /\ UNCHANGED <<facts, overwritten, crossed>>

-----------------------------------------------------------------------------
(* Reloading the facts, in two steps, and the calls on vector indexes.     *)

ReadStats(t) ==
    /\ Next_(t, "read")
    /\ job' = [job EXCEPT ![t].todo = Tail(@), ![t].seen = Stats]
    /\ UNCHANGED <<file, facts, calls, ghosts>>
SetStats(t) ==
    /\ Next_(t, "set")
    /\ facts' = job[t].seen
    /\ overwritten' = (overwritten \/ (Current(facts) /\ ~Current(job[t].seen)) \/ (Stats.defs = facts.defs /\ Stats.defs # job[t].seen.defs))
    /\ Done(t)
    /\ UNCHANGED <<file, calls, lag, drift, crossed>>

\* vector_indexes(), and the first step of sync_vector_indexes().
VectorIndexes_(t) == Call(t) /\ Do(t, Reload) /\ UNCHANGED <<file, facts, ghosts>>
SyncVectorIndexes(t) == Call(t) /\ Do(t, Reload \o <<"plan">>) /\ UNCHANGED <<file, facts, ghosts>>
PlanSync(t) ==
    /\ Next_(t, "plan")
    /\ IF nothing_to_sync(facts.defs, facts.built) THEN Done(t) /\ drift' = (drift /\ facts.defs # definitions(quads))
       ELSE job' = [job EXCEPT ![t].todo = <<"sync">>, ![t].seen = facts] /\ UNCHANGED drift
    /\ UNCHANGED <<file, facts, calls, lag, overwritten, crossed>>
\* Were the tables changed since a plan was made?
Crossing(t) == crossed' = (crossed \/ job[t].seen.built # vec.meta)
ExecuteSync(t) ==
    /\ Next_(t, "sync")
    /\ LET v == sync_statements(vec, quads, job[t].seen.defs, job[t].seen.built)
       IN  /\ Commit(t, At(quads, v), FALSE, FALSE, Reload)
           /\ drift' = IF Ok(v) THEN drift /\ job[t].seen.defs # definitions(quads) ELSE TRUE
    /\ crossed' = (crossed \/ job[t].seen.built # vec.meta \/ job[t].seen.defs # definitions(quads))
    /\ UNCHANGED <<facts, calls, overwritten>>

CreateVectorIndex(t, d) ==
    /\ Call(t)
    /\ ~\E x \in facts.defs : lower(x.name) = lower(d.name)
    /\ \A q \in quads : q[2] = d.property => dimension(q[3]) = d.dimensions
    /\ job' = [job EXCEPT ![t].todo = <<"create">>, ![t].seen = facts, ![t].index = {d}]
    /\ UNCHANGED <<file, facts, ghosts>>
\* Triples that already describe the index's IRI can make its definition
\* invalid: the table is built all the same.
ExecuteCreate(t) ==
    /\ Next_(t, "create")
    /\ \E d \in job[t].index :
        LET st == Statement(At(quads, vec), quads \cup to_quads(d))
            v == IF Present(job[t].seen.built[lower(d.name)]) THEN drop_statements(st.vec, lower(d.name)) ELSE st.vec
        IN  /\ Commit(t, At(st.quads, create_statements(v, st.quads, d)), FALSE, FALSE, Reload)
            /\ drift' = (drift \/ d \notin definitions(st.quads))
    /\ Crossing(t)
    /\ UNCHANGED <<facts, calls, overwritten>>
DropVectorIndex(t, name) ==
    /\ Call(t)
    /\ \E d \in facts.defs : lower(d.name) = lower(name) /\ job' = [job EXCEPT ![t].todo = <<"drop">>, ![t].seen = facts, ![t].index = {d}]
    /\ UNCHANGED <<file, facts, ghosts>>
ExecuteDrop(t) ==
    /\ Next_(t, "drop")
    /\ \E d \in job[t].index :
        LET st == Statement(At(quads, vec), {q \in quads : ~(q[4] = Vectors /\ q[1] = index_iri(d.name))})
        IN  Commit(t, At(st.quads, drop_statements(st.vec, lower(d.name))), FALSE, FALSE, Reload)
    /\ Crossing(t)
    /\ UNCHANGED <<facts, calls, drift, overwritten>>

Init ==
    /\ quads \in Datasets
    /\ tbox = closure_statements(quads) /\ shapes = refresh_statements(quads)
    \* As opening the store leaves it: what is defined is built.
    /\ LET none == File([n \in TableNames |-> None], [n \in TableNames |-> None])
           built == sync_statements(none, quads, definitions(quads), none.meta)
       IN  vec = IF Ok(built) THEN built ELSE none
    /\ facts = Stats
    /\ job = [t \in Threads |-> [todo |-> <<>>, seen |-> Unread, index |-> {}]]
    /\ calls = 0
    /\ lag = {} /\ drift = ~nothing_to_sync(facts.defs, facts.built) /\ overwritten = FALSE /\ crossed = FALSE

Next == \E t \in Threads :
    \/ \E qs \in Written : InsertQuads(t, qs) \/ RemoveQuads(t, qs) \/ LoadChunk(t, qs)
    \/ CommitLoad(t) \/ DropLoader(t) \/ Optimize(t)
    \/ \E u \in Updates : Update(t, u)
    \/ \E e \in Registrations : RegisterSchemaGraph(t, e)
    \/ \E g \in Graphs :
        \/ SetSchemaGraphTargets(t, g, {Default}) \/ \E active \in BOOLEAN : SetSchemaGraphActive(t, g, active)
        \/ UnregisterSchemaGraph(t, g) \/ DropSchemaGraph(t, g) \/ ClearGraph(t, g) \/ RemoveNamedGraph(t, g)
    \/ InstallSystemGraphs(t) \/ Clear_(t)
    \/ ReadStats(t) \/ SetStats(t)
    \/ VectorIndexes_(t) \/ SyncVectorIndexes(t) \/ PlanSync(t) \/ ExecuteSync(t)
    \/ (\E d \in NewIndexes : CreateVectorIndex(t, d)) \/ ExecuteCreate(t)
    \/ (\E i \in DOMAIN IndexNames : DropVectorIndex(t, IndexNames[i])) \/ ExecuteDrop(t)
Spec == Init /\ [][Next]_vars

AllIdle == \A t \in Threads : Idle(t)

-----------------------------------------------------------------------------
(* Properties.                                                             *)

\* The registry is one whose readers mean the same: valid by its own shapes,
\* with no system graph registered.
Sound == problems(quads) = {} /\ \A e \in entries_from_rows(quads) : e.graph \notin SYSTEM_GRAPHS

\* The closure and the shape index are always what the quads say: every
\* write that can change them is recognised and rebuilds them in its own
\* request (schema_refresh_for, update_touches_schema, update_touches_shapes).
\* Excepted, until the next rebuild, are the chunks of a bulk load, and for
\* the values of sh:in changes inside a list.
CachesAreCurrent ==
    LET now == refresh_statements(quads)
    IN  /\ "tbox" \in lag \/ tbox = closure_statements(quads)
        /\ "shapes" \in lag \/ shapes.index = now.index
        /\ "lists" \in lag \/ shapes = now

\* Once no call is under way, the facts in memory are those of the file's
\* closure and tables (after_write, reload_stats), unless a reload has put
\* older facts over newer ones: two reloads read and set without a lock.
FactsAreCurrent == (AllIdle /\ ~overwritten /\ "tbox" \notin lag) => Current(facts)

\* The answers of query-time reasoning are those of the ontologies for each
\* graph: all that the rules of RDFS, or with OWL the property axioms, entail
\* from the graph's own quads without transitivity, and nothing they do not
\* entail with it. A pattern that names its property gets the same quads as
\* one that does not.
EntailmentsAreTheirs ==
    (AllIdle /\ Sound /\ "tbox" \notin lag /\ Current(facts)) =>
        \A reasoning \in {"rdfs", "owl"} :
            LET ent == [reasoning |-> reasoning, transitive |-> facts.transitive, scopes |-> facts.scopes]
                all == source(tbox, quads, ent, Var)
                owl == reasoning = "owl"
                Other(p) == p \notin {SubClass, SubProperty}
            IN  /\ \A g \in {q[4] : q \in quads} :
                    LET given == {<<q[1], q[2], q[3]>> : q \in {r \in quads : r[4] = g}}
                        ax == Axioms(quads, g)
                        answers == {<<q[1], q[2], q[3]>> : q \in {r \in all : r[4] = g /\ Other(r[2])}}
                    IN  /\ {x \in Statable(Entailed(given, ax, owl, FALSE)) : Other(x[2])} \subseteq answers
                        /\ answers \subseteq Statable(Entailed(given, ax, owl, owl))
                /\ \A p \in {q[2] : q \in all} : source(tbox, quads, ent, p) = {q \in all : q[2] = p}

\* The reader of registrations in Rust and the scopes in SQL agree on the
\* graphs that contribute to each role, of a valid registry.
ReadersAgree ==
    Sound =>
        LET entries == entries_from_rows(quads)
        IN  \A role \in SchemaRole : \A g \in {q[4] : q \in quads} :
                scope(quads, role, g) <=> IF \E e \in entries : e.role = role
                                          THEN \E e \in entries : e.role = role /\ e.active /\ e.graph = g
                                          ELSE g \notin SYSTEM_GRAPHS

\* A table is what its fingerprint says: one row for each value of the
\* indexed property in the store, with triggers for that property and those
\* dimensions. Only a request planned before another changed the tables can
\* leave it otherwise.
FingerprintsAreTrue ==
    ~crossed => \A n \in TableNames : Present(vec.meta[n]) =>
        LET print == vec.meta[n][1]
        IN  vec.tables[n] = <<Table(print[1], print[2], {<<q[1], q[3], q[4]>> : q \in {r \in quads : r[2] = print[1]}})>>

\* Once no call is under way, the tables are those of the definitions: an
\* update that can change a definition is recognised, and followed by a
\* synchronization. Excepted are definitions written by calls that do not
\* synchronize, a synchronization that failed, and the races above.
DefinitionsAreBuilt == (AllIdle /\ ~drift /\ ~crossed /\ ~overwritten) => nothing_to_sync(definitions(quads), vec.meta)

\* A search of a built index finds nodes at their least distance, none of
\* the others nearer, and k of them if there are k; fewer only of a sparse
\* index, whose rows are limited before they are grouped by node.
NearestAreNearest ==
    \A d \in {x \in definitions(quads) : is_built(x, vec.meta) /\ ~crossed} :
        LET embedded == {q \in quads : q[2] = d.property}
            able == {q \in embedded : \A c \in d.class : \E t \in quads : t[1] = q[1] /\ t[2] = Type /\ t[3] = c}
            all == {q[1] : q \in able}
            Least(s, v) == Min({Distance[q[3], v] : q \in {x \in able : x[1] = s}})
        IN  \A v \in {x \in DOMAIN Dim : Dim[x] = d.dimensions}, k \in 1..2 :
                \A found \in knn_sql(vec.tables[lower(d.name)][1].rows, quads, d, v, k, Rank) :
                    LET nodes == {x[2] : x \in found}
                    IN  /\ nodes \subseteq all /\ \A x \in found : x[1] = Least(x[2], v)
                        /\ \A s \in all \ nodes, x \in found : Least(s, v) >= x[1]
                        /\ (d.element_type # "oxl:SparseFloat32" \/ d.class # {}) => Cardinality(nodes) = Min({k, Cardinality(all)})

\* What the store keeps besides the quads follows them, through updates, bulk
\* loads and failures of several threads: the closure and shape tables, the
\* facts in memory, and the vector tables with their fingerprints
\* (after_write, schema_refresh_for, sync_vectors).
DerivedTablesFollow == CachesAreCurrent /\ FactsAreCurrent /\ FingerprintsAreTrue /\ DefinitionsAreBuilt

\* What is read from the derived tables is what the quads mean: entailments,
\* registrations, nearest neighbours (Entailment::source, entries_from_rows,
\* knn_sql).
DerivedAnswersAreTrue == EntailmentsAreTheirs /\ ReadersAgree /\ NearestAreNearest
=============================================================================
