------------------------------ MODULE QueryJobs -----------------------------
(***************************************************************************)
(* Query execution as step machines (query.rs, resolve.rs, ops.rs,         *)
(* fallback.rs, async_store.rs). A job hands out read requests and resumes *)
(* with their responses; the statements of a read request are not run in   *)
(* one transaction, so other handles write between any two of them. The    *)
(* main statement answers with ids; ids are looked up in batches, triple   *)
(* terms in as many rounds as they are nested; DESCRIBE follows blank      *)
(* nodes, one request per hop; the fallback evaluator sends a request per  *)
(* pattern and per term. Meanwhile documents are loaded in chunks.         *)
(***************************************************************************)
EXTENDS Naturals, Sequences, FiniteSets, SequencesExt, FiniteSetsExt

CONSTANTS
    IdOrder,      \* the ids of terms, in their order
    Kind,         \* of an id: "iri", "blank", "literal", "inline" or "triple"
    Parts,        \* of a triple term: the ids of its subject, predicate and object
    Variables,    \* names of query variables
    Queries,      \* the queries that are asked
    Initial,      \* the quads stored at first
    Inserts,      \* sets of quads that are inserted
    Documents,    \* sequences of quads that are loaded
    CHUNK,        \* ids per lookup (400 in the code)
    LoadChunk,    \* quads per chunk at first (2000 in the code)
    RowsPerStatement, \* rows that fit max_sql_len
    max_statements,
    MaxWrites     \* bound: writes of other handles

VARIABLES db, job, load, writes
vars == <<db, job, load, writes>>

DefaultGraph == "default"
Ids == ToSet(IdOrder)
\* The elements of a finite set, in some order, and ids in theirs.
Listing(S) == FoldSet(LAMBDA x, s : Append(s, x), <<>>, S)
InOrder(S) == SelectSeq(IdOrder, LAMBDA i : i \in S)
PartsOf(i) == ToSet(Parts[i])
\* What a term needs to be stored: its own row and those of its parts.
Needs[i \in Ids] == IF Kind[i] = "inline" THEN {} ELSE IF Kind[i] = "triple" THEN {i} \cup UNION {Needs[p] : p \in PartsOf(i)} ELSE {i}
NeedsOf(quads) == UNION {UNION {Needs[q[n]] : n \in {m \in 1 .. 4 : q[m] # DefaultGraph}} : q \in quads}

chunks(s, n) == [k \in 1 .. (Len(s) + n - 1) \div n |-> SubSeq(s, (k - 1) * n + 1, IF k * n > Len(s) THEN Len(s) ELSE k * n)]

-----------------------------------------------------------------------------
(* What a query means, given the quads.                                    *)

Active(q, quads) == {x \in quads : q.union \/ x[4] = DefaultGraph}
Binds(pattern, x) ==
    \A i, k \in 1 .. 3 : (pattern[i] \in Variables \/ pattern[i] = x[i]) /\ (pattern[i] = pattern[k] => x[i] = x[k])
RowOf(pattern, x) == [v \in {pattern[i] : i \in 1 .. 3} \cap Variables |-> x[CHOOSE i \in 1 .. 3 : pattern[i] = v]]
Match(pattern, quads) == {RowOf(pattern, x) : x \in {y \in quads : Binds(pattern, y)}}
Instance(pattern, row) == [i \in 1 .. 3 |-> IF pattern[i] \in DOMAIN row THEN row[pattern[i]] ELSE pattern[i]]
Merge(a, b) == [v \in DOMAIN a \cup DOMAIN b |-> IF v \in DOMAIN a THEN a[v] ELSE b[v]]
\* The main SQL statement: a pattern, and another one where there are two.
Solutions(q, quads) ==
    LET first == Match(q.where, Active(q, quads))
    IN  IF q.and = <<>> THEN first
        ELSE UNION {{Merge(r, s) : s \in Match(Instance(q.and, r), Active(q, quads))} : r \in first}

-----------------------------------------------------------------------------
(* Resolving ids (TermResolver).                                           *)

Idle == [phase |-> "idle", q |-> <<>>, stmts |-> <<>>, got |-> {}, rows |-> {}, known |-> {}, pending |-> {}, triples |-> {},
         done |-> {}, quads |-> {}, tasks |-> <<>>, output |-> {}, error |-> FALSE, lo |-> {}, hi |-> {}, at |-> {}, cleared |-> FALSE]

want(j, id) ==
    IF id = DefaultGraph \/ id \in j.known \/ id \in j.triples THEN j
    ELSE IF Kind[id] = "inline" THEN [j EXCEPT !.known = @ \cup {id}]
    ELSE [j EXCEPT !.pending = @ \cup {id}]
wants(j, ids) == FoldLeft(want, j, InOrder(ids \ {DefaultGraph}))

\* The next lookups: terms first, then triple terms.
request(j) ==
    LET triples == {i \in j.pending : Kind[i] = "triple"}
        Lookups(of, ids) == LET c == chunks(InOrder(ids), CHUNK) IN [k \in DOMAIN c |-> [of |-> of, ids |-> ToSet(c[k])]]
    IN  [j EXCEPT !.stmts = Lookups("terms", j.pending \ triples) \o Lookups("triples", triples), !.pending = {}, !.got = {}]

\* A mutant: one pass only.
assemble_once(known, triples) == known \cup {t \in triples : PartsOf(t) \subseteq known}
\* Triple terms whose parts are known, and those made of them in turn.
assemble(known, triples) ==
    LET Pass[n \in 0 .. Cardinality(triples)] == IF n = 0 THEN known ELSE Pass[n - 1] \cup {t \in triples : PartsOf(t) \subseteq Pass[n - 1]}
    IN  Pass[Cardinality(triples)]
absorb(j) ==
    LET terms == {i \in j.got : Kind[i] # "triple"}
        read == FoldLeft(LAMBDA a, t : wants([a EXCEPT !.triples = @ \cup {t}], PartsOf(t)),
                         [j EXCEPT !.known = @ \cup terms], InOrder(j.got \ terms))
    IN  [read EXCEPT !.known = assemble(read.known, read.triples), !.triples = @ \ assemble(read.known, read.triples), !.got = {}]

\* get: an inline id needs no row.
Resolved(j, id) == id = DefaultGraph \/ id \in j.known \/ Kind[id] = "inline"

-----------------------------------------------------------------------------
(* What a job returns.                                                     *)

Fails(j) == [j EXCEPT !.phase = "done", !.error = TRUE, !.stmts = <<>>, !.tasks = <<>>]
Returns(j, out) == [j EXCEPT !.phase = "done", !.output = out, !.stmts = <<>>]

\* The term of a template in a row; blank nodes of the template are made
\* once per row, numbered here as they are made.
Term_(t, row, bnodes) == IF t \in DOMAIN bnodes THEN <<"new", bnodes[t]>> ELSE IF t \in DOMAIN row THEN <<"id", row[t]>> ELSE <<"id", t>>
\* A triple with an unbound variable, a literal or triple as subject, or a predicate that is no IRI is left out.
Valid(t, row) ==
    /\ \A i \in 1 .. 3 : t[i] \in Variables => t[i] \in DOMAIN row
    /\ t[1] \in DOMAIN row => Kind[row[t[1]]] \in {"iri", "blank"}
    /\ t[2] \in DOMAIN row => Kind[row[t[2]]] = "iri"
BlanksOf(template, row) == {t[i] : <<t, i>> \in {<<t, i>> \in template \X {1, 3} : t[i] \notin Variables /\ t[i] \notin Ids}}
instantiate(template, row, made) ==
    {[i \in 1 .. 3 |-> Term_(t[i], row, [b \in BlanksOf(template, row) |-> made])] : t \in {x \in template : Valid(x, row)}}

CellIds(j) == UNION {{r[v] : v \in DOMAIN r \ j.q.values} : r \in j.rows}
\* A scan decodes its rows.
finish_scan(j) == IF \E id \in CellIds(j) : ~Resolved(j, id) THEN Fails(j) ELSE Returns(j, j.rows)
finish(j) ==
    IF j.q.form \in {"scan", "graphs"} THEN finish_scan(j)
    ELSE IF \E id \in CellIds(j) : ~Resolved(j, id) THEN Fails(j)
    ELSE CASE j.q.form = "construct" ->
                 LET rows == Listing(j.rows) IN Returns(j, UNION {instantiate(j.q.template, rows[n], n) : n \in DOMAIN rows})
           [] j.q.form = "describe" -> Returns(j, {t \in j.quads : \A i \in 1 .. 3 : Resolved(j, t[i])})
           [] OTHER -> Returns(j, j.rows)

-----------------------------------------------------------------------------
(* DESCRIBE.                                                               *)

\* A mutant: what was described already is described again.
describe_request_again(j, ids) ==
    LET c == chunks(InOrder({i \in ids : Kind[i] \in {"iri", "blank"}}), CHUNK)
    IN  [j EXCEPT !.stmts = [k \in DOMAIN c |-> [of |-> "describe", ids |-> ToSet(c[k])]], !.got = {}]
describe_request(j, ids) ==
    LET new == {i \in ids : Kind[i] \in {"iri", "blank"}} \ j.done
        c == chunks(InOrder(new), CHUNK)
    IN  [j EXCEPT !.stmts = [k \in DOMAIN c |-> [of |-> "describe", ids |-> ToSet(c[k])]], !.got = {}, !.done = @ \cup new]

\* Computed values are described as well: their ids are hashes.
DescribedIds(j) == UNION {{r[v] : v \in DOMAIN r} : r \in j.rows}
Executing(j) == j.stmts # <<>>
after_resolution(j) ==
    LET r == request(j)
        d == describe_request([j EXCEPT !.phase = "describe"], DescribedIds(j))
    IN  IF j.pending # {} THEN r
        ELSE IF j.q.form = "describe" /\ j.phase = "resolving" /\ Executing(d) THEN d
        ELSE finish(j)
\* Concise bounded description: blank-node objects are followed.
after_describe(j) ==
    LET objects == UNION {{t[1], t[2], t[3]} : t \in j.got}
        read == wants([j EXCEPT !.quads = @ \cup j.got], objects)
        more == describe_request(read, {o \in {t[3] : t \in j.got} : Kind[o] = "blank"})
        resolving == [read EXCEPT !.phase = "describe resolving", !.got = {}]
    IN  IF Executing(more) THEN more ELSE IF read.pending # {} THEN request(resolving) ELSE finish(resolving)

-----------------------------------------------------------------------------
(* The fallback evaluator: patterns one at a time, terms as solutions are  *)
(* handed out; a cached lookup reads the parts of a triple term in turn.   *)

Outer == [of |-> "outer"]
Inner(row) == [of |-> "inner", row |-> row]
Lookup(id) == [of |-> "term", id |-> id]
TermsOfRow(r) == [n \in 1 .. Len(InOrder({r[v] : v \in DOMAIN r})) |-> Lookup(InOrder({r[v] : v \in DOMAIN r})[n])]
\* Tasks that need no request: terms that are cached or inline, and triple terms whose parts are.
RECURSIVE next_task(_)
next_task(j) ==
    IF j.tasks = <<>> THEN Returns(j, j.rows)
    ELSE LET t == Head(j.tasks)
             rest == [j EXCEPT !.tasks = Tail(@), !.stmts = <<>>, !.got = {}]
         IN  IF t.of = "term" /\ Resolved(j, t.id) THEN next_task(rest)
             ELSE IF t.of = "term" /\ t.id \in j.triples /\ PartsOf(t.id) \subseteq {p \in Ids : Resolved(j, p)}
                  THEN next_task([rest EXCEPT !.known = @ \cup {t.id}])
             ELSE [j EXCEPT !.stmts = <<t>>, !.got = {}]
Answered(j, t, rest) ==
    CASE t.of = "outer" -> next_task([rest EXCEPT !.tasks = Listing({Inner(r) : r \in j.got}) \o @])
      [] t.of = "inner" ->
             LET found == {Merge(t.row, r) : r \in j.got}
             IN  next_task([rest EXCEPT !.rows = @ \cup found, !.tasks = FlattenSeq([n \in DOMAIN Listing(found) |-> TermsOfRow(Listing(found)[n])]) \o @])
      [] OTHER ->
             IF j.got = {} THEN Fails(j)
             ELSE IF Kind[t.id] = "triple"
                  THEN next_task([rest EXCEPT !.triples = @ \cup {t.id},
                                              !.tasks = [i \in 1 .. 3 |-> Lookup(Parts[t.id][i])] \o <<t>> \o @])
                  ELSE next_task([rest EXCEPT !.known = @ \cup {t.id}])

-----------------------------------------------------------------------------
(* Requests. A statement reads what is stored at that moment.              *)

\* The quads of a pattern in any graph, and the named graphs.
scan_job(pattern, quads) == {[s |-> x[1], p |-> x[2], o |-> x[3], g |-> x[4]] : x \in {y \in quads : Binds(pattern, y)}}
named_graphs_job(graphs) == {[g |-> g] : g \in graphs}
answer(d, q, st) ==
    CASE st.of = "main" -> Solutions(q, d.quads)
      [] st.of = "scan" -> scan_job(q.where, d.quads)
      [] st.of = "graphs" -> named_graphs_job(d.graphs)
      [] st.of = "terms" -> st.ids \cap d.terms
      [] st.of = "triples" -> st.ids \cap d.terms
      [] st.of = "describe" -> {<<x[1], x[2], x[3]>> : x \in {y \in Active(q, d.quads) : y[1] \in st.ids}}
      [] st.of = "outer" -> Match(q.where, Active(q, d.quads))
      [] st.of = "inner" -> Match(Instance(q.and, st.row), Active(q, d.quads))
      [] st.of = "term" -> {st.id} \cap d.terms

\* QueryJob::step, ScanJob::step and Graphs::step: what a job does with a response.
step(j) ==
    CASE j.phase = "main" ->
             IF j.q.form = "ask" THEN Returns(j, {r \in {"yes"} : j.got # {}})
             ELSE LET rows == [j EXCEPT !.rows = j.got, !.phase = "resolving", !.got = {}] IN after_resolution(wants(rows, CellIds(rows)))
      [] j.phase = "resolving" -> after_resolution(absorb(j))
      [] j.phase = "describe" -> after_describe(j)
      [] j.phase = "describe resolving" -> LET read == absorb(j) IN IF read.pending # {} THEN request(read) ELSE finish(read)
      [] j.phase = "fallback" -> Answered(j, Head(j.tasks), [j EXCEPT !.tasks = Tail(@)])

\* The constants of a query are known from the start.
Constants(q) == {q.where[i] : i \in 1 .. 3} \cap Ids
Start(q) ==
    /\ job.phase \in {"idle", "done"}
    /\ LET first == [Idle EXCEPT !.q = q, !.lo = db.quads, !.hi = db.quads, !.known = IF q.form \in {"scan", "graphs"} THEN {} ELSE Constants(q)]
       IN  job' = IF q.form = "fallback" THEN next_task([first EXCEPT !.phase = "fallback", !.tasks = <<Outer>>])
                  ELSE [first EXCEPT !.phase = "main", !.stmts = <<[of |-> IF q.form \in {"scan", "graphs"} THEN q.form ELSE "main"]>>]
    /\ UNCHANGED <<db, load, writes>>
Running == job.phase \notin {"idle", "done"}
\* A statement is executed; with the last one of a request the job goes on.
Execute ==
    /\ Running
    /\ \E rows \in {answer(db, job.q, Head(job.stmts))} :
       \E read \in {[job EXCEPT !.got = @ \cup rows, !.stmts = Tail(@), !.at = IF job.phase = "main" THEN db.quads ELSE @]} :
          job' = IF read.stmts = <<>> THEN step(read) ELSE read
    /\ UNCHANGED <<db, load, writes>>

-----------------------------------------------------------------------------
(* Writes of other handles.                                                *)

Inserted(d, quads) ==
    [quads |-> d.quads \cup quads, terms |-> d.terms \cup NeedsOf(quads), graphs |-> d.graphs \cup ({q[4] : q \in quads} \ {DefaultGraph})]
Wrote(new) ==
    /\ db' = new
    /\ job' = [job EXCEPT !.lo = @ \cap new.quads, !.hi = @ \cup new.quads]
Write == writes < MaxWrites /\ writes' = writes + 1

Insert(quads) == Write /\ Wrote(Inserted(db, quads)) /\ UNCHANGED load
Delete(q) == Write /\ q \in db.quads /\ Wrote([db EXCEPT !.quads = @ \ {q}]) /\ load' = [load EXCEPT !.whole = FALSE]
\* clear() empties the term tables as well.
Clear ==
    /\ Write /\ db' = [quads |-> {}, terms |-> {}, graphs |-> {}]
    /\ job' = [job EXCEPT !.lo = {}, !.cleared = TRUE]
    /\ load' = [load EXCEPT !.whole = FALSE]

-----------------------------------------------------------------------------
(* Loading documents (AsyncStore).                                         *)

NoLoad == [doc |-> <<>>, start |-> 0, chunk |-> LoadChunk, phase |-> "idle", sent |-> 0, whole |-> TRUE]
\* insert_request: statements for terms, triple terms, graphs and quads, each of the rows that fit.
Statements(rows) == (rows + RowsPerStatement - 1) \div RowsPerStatement
insert_request(quads) ==
    LET needs == NeedsOf(ToSet(quads))
        triples == {i \in needs : Kind[i] = "triple"}
    IN  Statements(Cardinality(needs \ triples)) + Statements(Cardinality(triples))
        + Statements(Cardinality({quads[n][4] : n \in DOMAIN quads} \ {DefaultGraph})) + Statements(Len(quads))

\* Atomic, or refused when it does not fit one request.
load_from_reader(doc) ==
    /\ load.phase = "idle" /\ Write /\ insert_request(doc) <= max_statements
    /\ Wrote(Inserted(db, ToSet(doc)))
    /\ UNCHANGED load

bulk_load(doc) ==
    /\ load.phase = "idle" /\ Write
    /\ load' = [NoLoad EXCEPT !.doc = doc, !.phase = "loading"]
    /\ UNCHANGED <<db, job>>
End(l) == IF l.start + l.chunk > Len(l.doc) THEN Len(l.doc) ELSE l.start + l.chunk
\* A chunk of n statements is sent, or halved when that is too many.
LoadNext(l, n) ==
    IF n > max_statements /\ l.chunk > 1 THEN [l EXCEPT !.chunk = @ \div 2, !.sent = 0]
    ELSE [l EXCEPT !.start = End(l), !.sent = n]
LoadStep ==
    /\ load.phase = "loading"
    /\ LET part == SubSeq(load.doc, load.start + 1, End(load))
       IN  \E l \in {LoadNext(load, insert_request(part))} :
              /\ load' = [l EXCEPT !.phase = IF l.start = Len(l.doc) THEN "idle" ELSE "loading"]
              /\ IF l.sent > 0 THEN Wrote(Inserted(db, ToSet(part))) ELSE UNCHANGED <<db, job>>
    /\ UNCHANGED writes
\* A request fails: the chunks before it stay.
LoadFails ==
    /\ load.phase = "loading"
    /\ load' = NoLoad
    /\ UNCHANGED <<db, job, writes>>

-----------------------------------------------------------------------------
Init ==
    /\ db = Inserted([quads |-> {}, terms |-> {}, graphs |-> {}], Initial)
    /\ job = Idle
    /\ load = NoLoad
    /\ writes = 0
Next ==
    \/ \E q \in Queries : Start(q)
    \/ Execute
    \/ \E s \in Inserts : Insert(s)
    \/ \E q \in db.quads : Delete(q)
    \/ Clear
    \/ \E d \in Documents : load_from_reader(d) \/ bulk_load(d)
    \/ LoadStep
    \/ LoadFails
\* A request that was sent is answered: weak fairness, with the actions' guards for ENABLED.
Fairness == ([]<>~Running \/ []<><<Execute>>_vars) /\ ([]<>(load.phase # "loading") \/ []<><<LoadStep>>_vars)
Spec == Init /\ [][Next]_vars /\ Fairness

-----------------------------------------------------------------------------
(* Properties.                                                             *)

TypeOK ==
    /\ db.quads \subseteq Ids \X Ids \X Ids \X (Ids \cup {DefaultGraph}) /\ db.terms \subseteq Ids /\ NeedsOf(db.quads) \subseteq db.terms
    /\ job.known \cup job.pending \cup job.triples \cup job.done \subseteq Ids /\ job.pending \cap job.known = {}
    /\ Running <=> job.stmts # <<>>
    /\ load.start \in 0 .. Len(load.doc) /\ writes \in 0 .. MaxWrites

Done == job.phase = "done" /\ ~job.error

\* Every id that a job read can be decoded, whatever the other handles wrote
\* since, unless the store was cleared: quads are removed without their
\* terms, and triple terms are looked up until their innermost parts are
\* known (TermResolver, SqlDataset::lookup).
FailuresNeedAClear == job.error => job.cleared

\* The triples that describe resources: theirs, and those of the blank nodes
\* that these mention.
Described(quads, starts) ==
    LET Follow(S, i) == S \cup {x[3] : x \in {y \in quads : y[1] \in S /\ Kind[y[3]] = "blank"}}
        reached == FoldLeft(Follow, {i \in starts : Kind[i] \in {"iri", "blank"}}, IdOrder)
    IN  {<<x[1], x[2], x[3]>> : x \in {y \in quads : y[1] \in reached}}
Answer(j, quads) ==
    CASE j.q.form = "ask" -> {r \in {"yes"} : Solutions(j.q, quads) # {}}
      [] j.q.form = "scan" -> scan_job(j.q.where, quads)
      [] j.q.form = "describe" -> Described(Active(j.q, quads), DescribedIds(j))
      [] OTHER -> Solutions(j.q, quads)
\* A job's answer holds what follows from the quads that were stored all the
\* time, and nothing that does not follow from those stored at some time,
\* although its statements read the store at different moments (QueryJob,
\* ScanJob, the fallback evaluator).
AnswersAreBounded ==
    (Done /\ job.q.form \notin {"construct", "graphs"}) => Answer(job, job.lo) \subseteq job.output /\ job.output \subseteq Answer(job, job.hi)

\* CONSTRUCT makes the blank nodes of its template anew for every solution
\* of the moment of its main statement, and keeps the valid triples.
TemplatesAreInstances ==
    (Done /\ job.q.form = "construct") =>
        LET rows == Solutions(job.q, job.at)
            Blank(t) == \E i \in 1 .. 3 : t[i][1] = "new"
            \* What one solution adds, and what mentions one blank node that was made, the node's number aside.
            Added(r) == {[i \in 1 .. 3 |-> Term_(t[i], r, [b \in BlanksOf(job.q.template, r) |-> 0])] : t \in {x \in job.q.template : Valid(x, r)}}
            About(n) == {[i \in 1 .. 3 |-> IF t[i] = <<"new", n>> THEN <<"new", 0>> ELSE t[i]] : t \in {x \in job.output : \E i \in 1 .. 3 : x[i] = <<"new", n>>}}
            Numbers == {t[i][2] : <<t, i>> \in {<<t, i>> \in job.output \X (1 .. 3) : t[i][1] = "new"}}
            Blanks(r) == {t \in Added(r) : Blank(t)}
        IN  /\ {t \in job.output : ~Blank(t)} = UNION {{t \in Added(r) : ~Blank(t)} : r \in rows}
            /\ {Blanks(r) : r \in rows} \ {{}} = {About(n) : n \in Numbers}
            /\ \A r \in rows : Blanks(r) # {} => Cardinality({q \in rows : Blanks(q) = Blanks(r)}) = Cardinality({n \in Numbers : About(n) = Blanks(r)})

\* A document that is loaded in chunks is loaded from its start without
\* gaps, and whole when the load returns (bulk_load).
LoadsAreWhole == load.whole => ToSet(SubSeq(load.doc, 1, load.start)) \subseteq db.quads
\* No request has more statements than the backend takes, but for a single
\* quad that needs more.
RequestsFit == load.sent > max_statements => load.chunk = 1

\* Every job and every load ends, also when blank nodes refer to one another.
JobsEnd == (Running ~> ~Running) /\ (load.phase = "loading" ~> load.phase = "idle")

\* A job of several requests answers as if the store had stood still between
\* some two moments of it, and a load is whole and within the limits of the
\* backend (QueryJob, TermResolver, bulk_load).
JobsAnswerTheStore ==
    TypeOK /\ FailuresNeedAClear /\ AnswersAreBounded /\ TemplatesAreInstances /\ LoadsAreWhole /\ RequestsFit
=============================================================================
