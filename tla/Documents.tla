----------------------------- MODULE Documents ------------------------------
(***************************************************************************)
(* JSON-LD documents of a store: the row of each document, the graphs it   *)
(* owns, the contexts kept for it, and the jobs of several handles that    *)
(* write, rebuild and check documents. A job executes one request at a     *)
(* time; between its requests other handles execute theirs.                *)
(***************************************************************************)
EXTENDS Integers, Sequences, FiniteSets, SequencesExt

CONSTANTS
    Handles,
    OptionSets,      \* the options handles may be opened with: functions of the handle
    ContextIris, Bundled, Remote,   \* IRIs, and what the first loader and the network have for them
    Iris,            \* keys that are IRIs
    Rank,            \* the order of keys
    Batches,         \* what puts write: sequences of [doc, key]
    Presentations,   \* presentations and the credentials they embed: [doc, credentials]
    Edits,           \* quads that SPARQL updates insert and delete
    Saved,           \* <<iri, context>> that calls persist
    MAX_CONTEXT_ROUNDS, CHECK_PAGE, MaxStatements, MaxCalls

VARIABLES
    options,
    db,        \* the tables: [quads, graphs, terms, owned, docs, contexts]
    job,       \* what each handle is doing
    report,    \* what each handle's last call told it, and what it should have
    calls,
    \* How the tables came to be as they are, for the properties:
    made,      \* the quads each stored document was converted to
    users,     \* quads inserted by updates
    touched,   \* graphs not only one document has written to
    contested, \* graphs that two documents of one write define
    crossed,   \* a write replaced another version than it had read
    respelled  \* contexts that stored documents may use were changed

ghosts == <<made, users, touched, contested, crossed, respelled>>
vars == <<options, db, job, report, calls, ghosts>>

Keys == DOMAIN Rank
None == <<>>
NoName == ""     \* no key, no context, or no further page
Default == <<"default">>
\* The texts of contexts that the options, the loaders and the calls have.
Texts == {None} \cup {Bundled[i] : i \in ContextIris} \cup {Remote[i] : i \in ContextIris} \cup {<<s[2]>> : s \in Saved}
         \cup UNION {{f[h].contexts[i] : h \in Handles, i \in ContextIris} : f \in OptionSets}

\* Keys are ordered and not empty; what a context imports is a context.
ASSUME KeysAssumption ==
    /\ IsFiniteSet(Keys) /\ NoName \notin Keys /\ Rank \in [Keys -> Nat] /\ \A k, l \in Keys : Rank[k] = Rank[l] => k = l
    /\ CHECK_PAGE \in Nat \ {0}
ASSUME ContextsAssumption ==
    /\ \A t \in Texts \ {None} : t[1].imports \in ContextIris \cup {NoName}
    /\ IsFiniteSet(ContextIris) /\ \A s \in Saved : s[1] \in ContextIris
    /\ \A f \in OptionSets, h \in Handles : f[h].contexts \in [ContextIris -> Texts]

-----------------------------------------------------------------------------
(* Keys, graphs and conversion. A document is a record: its id, the hash   *)
(* of its text, the context it names, whether it is valid, the triples of  *)
(* its default graph and those of the graphs it defines.                   *)

owns_target(o) == o.graph \in {"key", "template"}
key_for(o, doc, explicit) ==
    LET found == CASE o.key = "id" -> doc.id [] o.key = "hash" -> doc.hash [] o.key = "explicit" -> NoName
    IN  IF explicit # NoName THEN explicit ELSE IF found # NoName THEN found ELSE IF o.on_missing_key = "hash" THEN doc.hash ELSE NoName
graph_for(o, key) ==
    CASE o.graph = "key" -> IF key \in Iris THEN <<"iri", key>> ELSE None
      [] o.graph = "template" -> <<"template", key>>
      [] o.graph = "fixed" -> <<"iri", "fixed">>
      [] o.graph = "default" -> Default

\* Processing loads a context and the ones it imports, until one that neither
\* the job nor the first loader has. A term is defined by one of them.
Text(known, o, i) == IF known[i] # None THEN known[i] ELSE IF o.bundled THEN Bundled[i] ELSE None
Closed(known, o, iri, S) ==
    iri \in S \cup {NoName} /\ \A i \in S : Text(known, o, i) # None => Text(known, o, i)[1].imports \in S \cup {NoName}
Loaded(known, o, iri) ==
    CHOOSE S \in SUBSET ContextIris : /\ Closed(known, o, iri, S)
                                      /\ \A T \in SUBSET ContextIris : Closed(known, o, iri, T) => S \subseteq T
ChainLoader(known, o, iri) ==
    LET loaded == Loaded(known, o, iri)
    IN  [misses |-> {i \in loaded : Text(known, o, i) = None},
         names |-> {Text(known, o, i)[1].name : i \in {x \in loaded : Text(known, o, x) # None}} \ {NoName}]

\* Labels of blank nodes are made from the document's key; generalized RDF
\* is not stored.
node(x, key) == IF x \in {"_:0", "_:1"} THEN <<"blank", key, x>> ELSE <<"iri", x>>
Quad(t, key, names, g) == <<node(t[1], key), IF t[2] = "name" THEN CHOOSE n \in names : TRUE ELSE t[2], node(t[3], key), g>>
Kept(t) == t[2] # "_:p"
convert(doc, key, target, known, o) ==
    LET loaded == ChainLoader(known, o, doc.context)
        nested == {n \in doc.nested : Kept(n[2])}
    IN  IF loaded.misses # {} THEN [result |-> "missing", misses |-> loaded.misses, quads |-> {}, nested |-> {}]
        ELSE IF ~doc.valid THEN [result |-> "error", misses |-> {}, quads |-> {}, nested |-> {}]
        ELSE [result |-> "done", misses |-> {},
              quads |-> {Quad(t, key, loaded.names, target) : t \in {x \in doc.plain : Kept(x)}}
                        \cup {Quad(n[2], key, loaded.names, node(n[1], key)) : n \in nested},
              nested |-> {node(n[1], key) : n \in nested}]
Unconverted == [result |-> "new", misses |-> {}, quads |-> {}, nested |-> {}]

-----------------------------------------------------------------------------
(* The statements of a write.                                              *)

\* What is put has a position in its batch; an old version has its key.
Idle == [kind |-> "none", phase |-> "idle", puts |-> <<>>, removes |-> {}, old |-> <<>>, known |-> [i \in ContextIris |-> None],
         fetched |-> {}, asking |-> {}, queried |-> {}, rounds |-> 0, stale |-> {},
         key |-> NoName, after |-> NoName, queue |-> {}, current |-> None, drifts |-> {}]

put_keys(j) == {j.puts[i].key : i \in DOMAIN j.puts}
all_keys(j) == put_keys(j) \cup j.removes
forgotten(j) == j.removes \ put_keys(j)
put_quads(j) == UNION {j.puts[i].conv.quads : i \in DOMAIN j.puts}
old_ids(j) == UNION {{q \in j.old[k].conv.quads : q[4] = j.old[k].target} : k \in DOMAIN j.old}
\* The graphs that a put will own, if no put before it does: claims.
Claimable(p, o) == (p.conv.nested \cup (IF owns_target(o) THEN {p.target} ELSE {})) \ {Default}
claims(j, o) ==
    {c \in put_keys(j) \X UNION {Claimable(j.puts[i], o) : i \in DOMAIN j.puts} :
        \E i \in DOMAIN j.puts : /\ c[1] = j.puts[i].key /\ c[2] \in Claimable(j.puts[i], o)
                                 /\ \A n \in DOMAIN j.puts : n < i => c[2] \notin Claimable(j.puts[n], o)}
claimed(j, o) == {c[2] : c \in claims(j, o)}

St(op, x) == [op |-> op, x |-> x]
Each(op, S) == [n \in 1 .. Cardinality(S) |-> St(op, SetToSeq(S)[n])]
prefix(j) ==
    LET keys == SetToSeq(all_keys(j))
    IN  [n \in 1 .. 3 * Cardinality(all_keys(j)) |-> St(<<"clear", "ungraph", "disown">>[((n - 1) % 3) + 1], keys[(n - 1) \div 3 + 1])]
        \o (IF old_ids(j) = {} THEN <<>> ELSE <<St("delete", old_ids(j))>>)
inserts(j, o) ==
    LET graphs == {q[4] : q \in put_quads(j)}
    IN  (IF graphs \cup claimed(j, o) = {} THEN <<>> ELSE <<St("terms", graphs \cup claimed(j, o))>>)
        \o (IF put_quads(j) = {} THEN <<>> ELSE <<St("graphs", graphs \ {Default}), St("insert", put_quads(j))>>)
owning(j, o) == IF claims(j, o) = {} THEN <<>> ELSE <<St("graphs", claimed(j, o)), St("own", claims(j, o))>>
documents(j) == Each("document", put_keys(j))
suffix(j, o) == owning(j, o) \o documents(j) \o Each("forget", forgotten(j)) \o Each("context", j.fetched)
write_statements(j, o) == prefix(j) \o inserts(j, o) \o suffix(j, o)
\* Where the response says whether the row of a key was deleted.
removed_at(j, o) ==
    LET before == Len(prefix(j)) + Len(inserts(j, o))
        rank(k) == CHOOSE n \in 1 .. Cardinality(forgotten(j)) : SetToSeq(forgotten(j))[n] = k
    IN  [k \in forgotten(j) |-> before + Len(owning(j, o)) + Len(documents(j)) + rank(k)]

Owned(d, k) == {g \in DOMAIN d.owned : d.owned[g] = k}
Gone(d, j) == UNION {Owned(d, k) : k \in all_keys(j)}
\* Rows that a statement of a removal changes.
changes(d, st) ==
    CASE st.op = "forget" -> Len(d.docs[st.x])
      [] st.op = "disown" -> Cardinality(Owned(d, st.x))
      [] OTHER -> 1

Row(j, k) == LET p == j.puts[CHOOSE i \in DOMAIN j.puts : j.puts[i].key = k] IN [key |-> k, doc |-> p.doc, target |-> p.target]
written(d, j, o) ==
    LET gone == Gone(d, j)
        kept == DOMAIN d.owned \ gone
        graphs == {q[4] : q \in put_quads(j)} \cup claimed(j, o)
    IN  [quads |-> ({q \in d.quads : q[4] \notin gone} \ old_ids(j)) \cup put_quads(j),
         graphs |-> (d.graphs \ gone) \cup (graphs \ {Default}),
         terms |-> d.terms \cup graphs,
         owned |-> [g \in kept \cup claimed(j, o) |-> IF g \in kept THEN d.owned[g] ELSE (CHOOSE c \in claims(j, o) : c[2] = g)[1]],
         docs |-> [k \in Keys |-> IF k \in put_keys(j) THEN <<Row(j, k)>> ELSE IF k \in j.removes THEN None ELSE d.docs[k]],
         contexts |-> [i \in ContextIris |-> IF i \in j.fetched THEN j.known[i] ELSE d.contexts[i]]]
\* A mutant: without the constraint.
GraphOwned_never(d, j, o) == FALSE
\* UNIQUE(g): a graph that another document owns fails the request.
GraphOwned(d, j, o) == \E c \in claims(j, o) : c[2] \in DOMAIN d.owned /\ d.owned[c[2]] \notin all_keys(j)

-----------------------------------------------------------------------------
(* The steps of a write: what a job does with the response it has.         *)

ask(j, misses) == [j EXCEPT !.phase = "contexts", !.asking = misses, !.queried = @ \cup misses, !.rounds = @ + 1]
\* What is not converted yet is; an old version that no longer converts is
\* replaced without the exact delete.
Try(v, known, o) == IF v.conv.result \in {"done", "error"} THEN v ELSE [v EXCEPT !.conv = convert(v.doc, v.key, v.target, known, o)]
Excuse(v) == IF v.conv.result = "error" THEN [v EXCEPT !.conv = [Unconverted EXCEPT !.result = "done"]] ELSE v
Attempt(j, o) == [j EXCEPT !.puts = [i \in DOMAIN j.puts |-> Try(j.puts[i], j.known, o)],
                           !.old = [k \in DOMAIN j.old |-> Excuse(Try(j.old[k], j.known, o))]]
Missing(n) == UNION ({n.puts[i].conv.misses : i \in DOMAIN n.puts} \cup {n.old[k].conv.misses : k \in DOMAIN n.old})
Attempted(n, o) ==
    IF \E i \in DOMAIN n.puts : n.puts[i].conv.result = "error" THEN Idle
    ELSE IF Missing(n) = {} THEN [n EXCEPT !.phase = "write"]
    ELSE IF n.rounds + 1 > MAX_CONTEXT_ROUNDS THEN Idle
    ELSE IF Missing(n) \ n.queried # {} THEN ask(n, Missing(n) \ n.queried)
    ELSE IF ~o.fetch THEN Idle
    ELSE [n EXCEPT !.phase = "fetch", !.asking = Missing(n), !.rounds = @ + 1]
resolve(j, o) == Attempted(Attempt(j, o), o)

\* WriteJob::new and its first step.
start_write(j, o) == IF ~owns_target(o) /\ all_keys(j) # {} THEN [j EXCEPT !.phase = "read_old"] ELSE resolve(j, o)
\* The last version of a key wins.
Prepare(batch, o) ==
    LET key(i) == key_for(o, batch[i].doc, batch[i].key)
    IN  [i \in {n \in DOMAIN batch : \A m \in DOMAIN batch : m > n => key(m) # key(n)} |->
            [key |-> key(i), target |-> IF key(i) = NoName THEN None ELSE graph_for(o, key(i)), doc |-> batch[i].doc, conv |-> Unconverted]]
Refused(puts) == \E i \in DOMAIN puts : puts[i].target = None
WriteJob(kind, batch, removes, o) ==
    LET puts == Prepare(batch, o)
    IN  IF Refused(puts) THEN Idle ELSE start_write([Idle EXCEPT !.kind = kind, !.puts = puts, !.removes = removes, !.known = o.contexts], o)

Call(h) == job[h].phase = "idle" /\ calls < MaxCalls /\ calls' = calls + 1
Becomes(h, j) == job' = [job EXCEPT ![h] = j]
Reading == UNCHANGED <<options, db, report, calls, ghosts>>

Put(h, batch) ==
    /\ Call(h) /\ Becomes(h, WriteJob("put", batch, {}, options[h]))
    /\ UNCHANGED <<options, db, report, ghosts>>
Remove_(h, k) ==
    /\ Call(h) /\ Becomes(h, WriteJob("remove", <<>>, {k}, options[h]))
    /\ UNCHANGED <<options, db, report, ghosts>>

\* A presentation first, then the credentials it embeds that are not enveloped, each with its key.
presentation_inputs(o, p) ==
    LET embedded == IF o.embed THEN SelectSeq(p.credentials, LAMBDA c : ~c.enveloped) ELSE <<>>
        In(doc) == [doc |-> doc, key |-> key_for(o, doc, NoName)]
    IN  <<In(p.doc)>> \o [i \in DOMAIN embedded |-> In(embedded[i].doc)]
\* What is put has a key that may be one of a document, and names a context.
Inputs(batch, o) == /\ DOMAIN batch \subseteq Nat
                    /\ \A i \in DOMAIN batch : /\ key_for(o, batch[i].doc, batch[i].key) \in Keys \cup {NoName}
                                              /\ batch[i].doc.context \in ContextIris \cup {NoName}
ASSUME InputsAssumption ==
    \A f \in OptionSets, h \in Handles : /\ \A b \in Batches : Inputs(b, f[h])
                                         /\ \A p \in Presentations : Inputs(presentation_inputs(f[h], p), f[h])
PutPresentation(h, p) ==
    /\ Call(h) /\ Becomes(h, WriteJob("put", presentation_inputs(options[h], p), {}, options[h]))
    /\ UNCHANGED <<options, db, report, ghosts>>

ReadOld(h) ==
    /\ job[h].phase = "read_old"
    /\ LET stored == {k \in all_keys(job[h]) : db.docs[k] # None /\ graph_for(options[h], k) # None}
           old == [k \in stored |-> [key |-> k, target |-> graph_for(options[h], k), doc |-> db.docs[k][1].doc, conv |-> Unconverted]]
       IN  \E j \in {resolve([job[h] EXCEPT !.old = old, !.stale = {}], options[h])} : Becomes(h, j)
    /\ Reading
ReadContexts(h) ==
    /\ job[h].phase = "contexts" /\ job[h].kind # "check"
    /\ LET known == [i \in ContextIris |-> IF i \in job[h].asking /\ db.contexts[i] # None THEN db.contexts[i] ELSE job[h].known[i]]
       IN  \E j \in {resolve([job[h] EXCEPT !.known = known], options[h])} : Becomes(h, j)
    /\ Reading
\* A mutant: what cannot be fetched is looked up again, the rounds anew.
Fetch_again(h) ==
    /\ job[h].phase = "fetch"
    /\ Becomes(h, IF \E i \in job[h].asking : Remote[i] = None THEN [job[h] EXCEPT !.phase = "contexts", !.rounds = 0]
                  ELSE resolve([job[h] EXCEPT !.known = [i \in ContextIris |-> IF i \in job[h].asking THEN Remote[i] ELSE @[i]],
                                              !.fetched = IF options[h].cache_fetched THEN @ \cup job[h].asking ELSE @], options[h]))
    /\ Reading
Fetch(h) ==
    /\ job[h].phase = "fetch"
    /\ Becomes(h, IF \E i \in job[h].asking : Remote[i] = None THEN Idle
                  ELSE resolve([job[h] EXCEPT !.known = [i \in ContextIris |-> IF i \in job[h].asking THEN Remote[i] ELSE @[i]],
                                              !.fetched = IF options[h].cache_fetched THEN @ \cup job[h].asking ELSE @], options[h]))
    /\ Reading

-----------------------------------------------------------------------------
(* Committing, and what it means for the other jobs and the properties.    *)

\* The other jobs that have read what changes now.
Notice(h, changed, new) ==
    job' = [g \in Handles |-> IF g = h THEN new ELSE IF job[g].phase = "idle" THEN job[g] ELSE [job[g] EXCEPT !.stale = @ \cup changed]]
Everything == Keys \cup {NoName}

\* Does a document differ from a conversion of its text, as the tables are?
Fresh(d, k, o) == convert(d.docs[k][1].doc, k, d.docs[k][1].target, [i \in ContextIris |-> IF o.contexts[i] # None THEN o.contexts[i]
                            ELSE IF o.bundled /\ Bundled[i] # None THEN Bundled[i] ELSE d.contexts[i]], o)
Differs(d, k, fresh) ==
    /\ fresh.result = "done"
    /\ \/ \E g \in Owned(d, k) : {q \in d.quads : q[4] = g} # {q \in fresh.quads : q[4] = g}
       \/ ~fresh.quads \subseteq d.quads
Drifted(d, k, o) == graph_for(o, k) # d.docs[k][1].target \/ Differs(d, k, Fresh(d, k, o))

\* What is known of a removal, and of a rebuild: does the document still
\* differ, when no graph that it takes held quads of others?
Removed(d, j, o, st) == [of |-> "removed", said |-> {k \in forgotten(j) : changes(d, st[removed_at(j, o)[k]]) > 0},
                         true |-> {k \in forgotten(j) : d.docs[k] # None}, clean |-> TRUE]
Taken(d, j, o) == {g \in claimed(j, o) \ DOMAIN d.owned : \E q \in d.quads : q[4] = g}
Rebuilt(d, j, o, new) == [of |-> "rebuilt", said |-> {}, true |-> {k \in all_keys(j) : Drifted(new, k, o)},
                          clean |-> j.stale = {} /\ Taken(d, j, o) = {}]
Nothing == [of |-> "nothing", said |-> {}, true |-> {}, clean |-> TRUE]
\* The graphs of a write that two of its documents define.
Defines(p, g) == g \in p.conv.nested \cup {p.target}
Twice(j, o) == {g \in claimed(j, o) : \E i, n \in DOMAIN j.puts : i # n /\ Defines(j.puts[i], g) /\ Defines(j.puts[n], g)}

Write(h) ==
    LET j == job[h]
        o == options[h]
        gone == Gone(db, j)
        \* Within a transaction, a change since its first read fails the write.
        busy == o.interactive /\ ~owns_target(o) /\ j.kind # "rebuild" /\ j.stale # {}
    IN  /\ j.phase = "write"
        /\ \E new \in {written(db, j, o)}, st \in {write_statements(j, o)} :
           IF Len(st) > MaxStatements \/ GraphOwned(db, j, o) \/ busy
           THEN Becomes(h, Idle) /\ UNCHANGED <<db, report, ghosts>>
           ELSE /\ db' = new
                /\ Notice(h, all_keys(j) \cup (IF j.fetched = {} THEN {} ELSE {NoName}), Idle)
                /\ report' = [report EXCEPT ![h] = IF j.kind = "remove" THEN Removed(db, j, o, st) ELSE IF j.kind = "rebuild" THEN Rebuilt(db, j, o, new) ELSE Nothing]
                /\ made' = [k \in Keys |-> IF k \in all_keys(j) THEN UNION {j.puts[i].conv.quads : i \in {n \in DOMAIN j.puts : j.puts[n].key = k}} ELSE made[k]]
                /\ users' = {q \in users : q[4] \notin gone} \ old_ids(j)
                \* A graph that held quads when it was claimed, that two puts define, that a
                \* put writes to without owning it, or that an old version is deleted from.
                /\ touched' = (touched \ (gone \ {q[4] : q \in users})) \cup Taken(db, j, o) \cup Twice(j, o)
                              \cup ({q[4] : q \in put_quads(j) \cup old_ids(j)} \ claimed(j, o))
                /\ contested' = (contested \ gone) \cup Twice(j, o)
                /\ crossed' = (crossed \/ j.stale \cap all_keys(j) # {})
                /\ UNCHANGED respelled
        /\ UNCHANGED <<options, calls>>

\* A request fails: nothing changes, and the job ends with an error.
Fail(h) ==
    /\ job[h].phase # "idle"
    /\ Becomes(h, Idle)
    /\ Reading

-----------------------------------------------------------------------------
(* Rebuild.                                                                *)

Rebuild(h, k) ==
    /\ Call(h) /\ Becomes(h, [Idle EXCEPT !.kind = "rebuild", !.phase = "read_row", !.key = k])
    /\ UNCHANGED <<options, db, report, ghosts>>
\* A row whose graph has no term does not decode.
Readable(d, k) == d.docs[k][1].target = Default \/ d.docs[k][1].target \in d.terms
ReadRow(h) ==
    /\ job[h].phase = "read_row"
    /\ LET k == job[h].key
       IN  Becomes(h, IF db.docs[k] = None \/ ~Readable(db, k) THEN Idle
                      ELSE WriteJob("rebuild", <<[doc |-> db.docs[k][1].doc, key |-> k]>>, {}, options[h]))
    /\ Reading

-----------------------------------------------------------------------------
(* Check.                                                                  *)

Check(h) ==
    /\ Call(h) /\ Becomes(h, [Idle EXCEPT !.kind = "check", !.phase = "contexts", !.known = options[h].contexts])
    /\ UNCHANGED <<options, db, report, ghosts>>
CheckContexts(h) ==
    /\ job[h].phase = "contexts" /\ job[h].kind = "check"
    /\ Becomes(h, [job[h] EXCEPT !.phase = "page", !.stale = {}, !.known = [i \in ContextIris |-> IF @[i] # None THEN @[i] ELSE db.contexts[i]]])
    /\ Reading

\* Contexts that were persisted do not hide those of the first loader.
Unshadowed == \A h \in Handles, i \in ContextIris : options[h].bundled /\ db.contexts[i] # None => Bundled[i] = None
Stored(d) == {k \in Keys : d.docs[k] # None}
Before(k, l) == Rank[k] < Rank[l]

\* The queue is worked off in the order of keys; the first document whose
\* quads must be read is the current one. One that does not convert ends the check.
Irreproducible(row) == row.conv.result = "irreproducible"
Asks(row) == ~Irreproducible(row) /\ (row.owned # {} \/ row.conv.quads # {} \/ row.conv.result # "done")
next(j) ==
    LET asking == {row \in j.queue : Asks(row)}
        first == CHOOSE row \in asking : \A x \in asking : ~Before(x.key, row.key)
        rest == IF asking = {} THEN {} ELSE {row \in j.queue : Before(first.key, row.key)}
        passed == {row \in j.queue \ rest : Irreproducible(row)}
        n == [j EXCEPT !.drifts = @ \cup {row.key : row \in passed}, !.queue = rest]
    IN  IF asking = {} THEN [n EXCEPT !.phase = IF j.after # NoName THEN "page" ELSE "done"]
        ELSE IF first.conv.result # "done" THEN Idle
        ELSE [n EXCEPT !.phase = "quads", !.current = <<first>>]
CheckDone(h, j) ==
    IF j.phase = "done"
    THEN /\ Becomes(h, Idle)
         /\ report' = [report EXCEPT ![h] = [of |-> "checked", said |-> j.drifts, true |-> {k \in Stored(db) : Drifted(db, k, options[h])},
                                             clean |-> j.stale = {} /\ Unshadowed]]
    ELSE Becomes(h, j) /\ UNCHANGED report
Checked(row, known, o) == IF graph_for(o, row.key) # row.target THEN [Unconverted EXCEPT !.result = "irreproducible"]
                          ELSE convert(row.doc, row.key, row.target, known, o)
\* SELECT ... WHERE key > after ORDER BY key LIMIT CHECK_PAGE.
More(d, after) == {k \in Stored(d) : after = NoName \/ Before(after, k)}
Page(more) == {k \in more : Cardinality({l \in more : Before(l, k)}) < CHECK_PAGE}
PageEnd(page) == IF Cardinality(page) = CHECK_PAGE THEN CHOOSE k \in page : \A l \in page : ~Before(k, l) ELSE NoName
PageRow(d, k, known, o) == [key |-> k, owned |-> Owned(d, k), conv |-> Checked(d.docs[k][1], known, o)]
ReadPage(h) ==
    /\ job[h].phase = "page"
    /\ LET page == Page(More(db, job[h].after))
       IN  \E j \in {next([job[h] EXCEPT !.queue = {PageRow(db, k, job[h].known, options[h]) : k \in page}, !.after = PageEnd(page)])} : CheckDone(h, j)
    /\ UNCHANGED <<options, db, calls, ghosts>>
differs(row, expected, quads) ==
    \/ {q \in expected : q[4] \in row.owned} # {q \in quads : q[4] \in row.owned}
    \/ ~{q \in expected : q[4] \notin row.owned} \subseteq quads
CheckQuads(h) ==
    /\ job[h].phase = "quads"
    /\ LET row == job[h].current[1]
           bad == differs(row, row.conv.quads, db.quads)
       IN  \E j \in {next([job[h] EXCEPT !.current = None, !.drifts = @ \cup (IF bad THEN {row.key} ELSE {})])} : CheckDone(h, j)
    /\ UNCHANGED <<options, db, calls, ghosts>>

-----------------------------------------------------------------------------
(* Other calls on the store, each one request.                             *)

Other(h, new, changed) ==
    /\ Call(h) /\ db' = new /\ Notice(h, changed, Idle)
    /\ UNCHANGED <<options, report>>
InsertQuad(h, q) ==
    /\ Other(h, [db EXCEPT !.quads = @ \cup {q}, !.graphs = @ \cup ({q[4]} \ {Default}), !.terms = @ \cup {q[4]}], {NoName})
    /\ users' = users \cup {q} /\ touched' = touched \cup {q[4]}
    /\ UNCHANGED <<made, contested, crossed, respelled>>
DeleteQuad(h, q) ==
    /\ Other(h, [db EXCEPT !.quads = @ \ {q}], {NoName})
    /\ users' = users \ {q} /\ touched' = touched \cup {q[4]}
    /\ UNCHANGED <<made, contested, crossed, respelled>>
PutContext(h, iri, text) ==
    /\ Other(h, [db EXCEPT !.contexts = [@ EXCEPT ![iri] = <<text>>]], {NoName})
    /\ respelled' = (respelled \/ {db.contexts[iri], Remote[iri]} \ {None, <<text>>} # {})
    /\ UNCHANGED <<made, users, touched, contested, crossed>>
RemoveContext(h, iri) ==
    /\ Other(h, [db EXCEPT !.contexts = [@ EXCEPT ![iri] = None]], {NoName})
    /\ respelled' = (respelled \/ db.contexts[iri] # None)
    /\ UNCHANGED <<made, users, touched, contested, crossed>>
\* clear() empties the core tables, not those of documents.
ClearStore(h) ==
    /\ Other(h, [db EXCEPT !.quads = {}, !.graphs = {}, !.terms = {}], Everything)
    /\ users' = {} /\ touched' = touched \cup DOMAIN db.owned \cup {q[4] : q \in db.quads}
    /\ UNCHANGED <<made, contested, crossed, respelled>>

Init ==
    /\ options \in OptionSets
    /\ db = [quads |-> {}, graphs |-> {}, terms |-> {}, owned |-> <<>>, docs |-> [k \in Keys |-> None], contexts |-> [i \in ContextIris |-> None]]
    /\ job = [h \in Handles |-> Idle]
    /\ report = [h \in Handles |-> Nothing]
    /\ calls = 0
    /\ made = [k \in Keys |-> {}] /\ users = {} /\ touched = {} /\ contested = {} /\ crossed = FALSE /\ respelled = FALSE

Step(h) == ReadOld(h) \/ ReadContexts(h) \/ Fetch(h) \/ Write(h) \/ ReadRow(h) \/ CheckContexts(h) \/ ReadPage(h) \/ CheckQuads(h)
Next == \E h \in Handles :
    \/ Step(h) \/ Fail(h) \/ Check(h) \/ ClearStore(h)
    \/ \E b \in Batches : Put(h, b)
    \/ \E p \in Presentations : PutPresentation(h, p)
    \/ \E k \in Keys : Remove_(h, k) \/ Rebuild(h, k)
    \/ \E q \in Edits : InsertQuad(h, q) \/ DeleteQuad(h, q)
    \/ \E s \in Saved : PutContext(h, s[1], s[2]) \/ RemoveContext(h, s[1])
\* The driver of a job executes its requests until the job ends: weak
\* fairness of its steps, one of which is enabled until then.
Spec == Init /\ [][Next]_vars /\ \A h \in Handles : ([]<>(job[h].phase = "idle") \/ []<><<Step(h)>>_vars)

-----------------------------------------------------------------------------
(* Properties.                                                             *)

InGraph(S, g) == {q \in S : q[4] = g}
\* Do the handles convert alike, and put documents in the same graphs?
Uniform == \A g, h \in Handles : options[g].graph = options[h].graph /\ options[g].contexts = options[h].contexts /\ options[g].bundled = options[h].bundled

\* A graph that a document owns holds what the stored version of the
\* document was converted to: no version, and no other document, leaves a
\* quad there or takes one away, whatever writes of several handles meet
\* (WriteJob::write, UNIQUE(g)). Excepted are graphs that others write to
\* as well: updates, documents of one batch that define the same graph, and
\* writes that delete an old version from it without owning it.
GraphsAreTheirDocuments ==
    \A g \in DOMAIN db.owned \ touched : db.owned[g] \in Stored(db) /\ InGraph(db.quads, g) = InGraph(made[db.owned[g]], g)

\* Documents that share a graph leave no triple there when they are replaced
\* or removed: what it holds is stated by a stored document, or was inserted
\* by an update. The previous version is read and converted again, so this
\* needs that no other write came between the read and the write (which a
\* transaction refuses), that contexts did not change meanwhile, and that
\* all handles use the same options. Excepted are the graphs that two
\* documents of one batch define: the first owns them, so what the second
\* wrote there stays when it goes.
ReplacedTriplesGo ==
    (Uniform /\ ~crossed /\ ~respelled) => \A q \in db.quads : q \in users \/ q[4] \in contested \/ \E k \in Stored(db) : q \in made[k]

\* A removal tells whether the document was stored: the response is read at
\* the place of the statement that deletes its row (removed_at).
RemovalsAreReported == \A h \in Handles : report[h].of = "removed" => report[h].said = report[h].true

\* A check that no write disturbs reports exactly the documents whose graphs
\* differ from a conversion of their text, page after page, unless persisted
\* contexts hide those of the first loader (CheckJob).
ChecksAreExact == \A h \in Handles : (report[h].of = "checked" /\ report[h].clean) => report[h].said = report[h].true

\* After a rebuild that no write disturbs, and that takes no graph which
\* held quads of others, the document's graphs are those of its text again
\* (RebuildJob).
RebuildsRepair == \A h \in Handles : (report[h].of = "rebuilt" /\ report[h].clean) => report[h].true = {}

\* Every job ends: contexts are asked for once, and loaded in a bounded
\* number of rounds (MAX_CONTEXT_ROUNDS).
JobsEnd == \A h \in Handles : job[h].phase # "idle" ~> job[h].phase = "idle"

\* Documents and the quads converted from them agree, whatever writes, checks
\* and rebuilds of several handles meet (WriteJob, CheckJob, RebuildJob).
DocumentsAreTheirQuads ==
    GraphsAreTheirDocuments /\ ReplacedTriplesGo /\ RemovalsAreReported /\ ChecksAreExact /\ RebuildsRepair
=============================================================================
