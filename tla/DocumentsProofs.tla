--------------------------- MODULE DocumentsProofs --------------------------
(***************************************************************************)
(* What documents and their quads keep, whatever the handles, the options, *)
(* the documents, the contexts and the number of calls.                    *)
(***************************************************************************)
EXTENDS Documents, FiniteSetTheorems, WellFoundedInduction, TLAPS

-----------------------------------------------------------------------------
(* The inductive invariant. d is the tables, r says whether contexts were  *)
(* respelled, f is the options and m the quads that documents were         *)
(* converted to.                                                           *)

Knowns == [ContextIris -> Texts]
DocOk(doc) == doc.context \in ContextIris \cup {NoName}

\* The contexts that a job with options o may have to ask for.
Opened(o) == {i \in ContextIris : o.contexts[i] = None /\ ~(o.bundled /\ Bundled[i] # None)}

\* What a job may know: the contexts of its options and, of those it asked
\* for, the one text that is in use as long as none is respelled.
Canon(d, i) == IF Remote[i] # None THEN Remote[i] ELSE d.contexts[i]
Seen(d, r, known, o) ==
    /\ known \in Knowns
    /\ \A i \in ContextIris \ Opened(o) : known[i] = o.contexts[i]
    /\ ~r => \A i \in Opened(o) : known[i] \in {None, Canon(d, i)}

\* Versions and what they are converted to, with what is known now.
VersionFields == {"key", "target", "doc", "conv"}
Results == {"new", "missing", "done", "error"}
Conversion(v, known, o) == convert(v.doc, v.key, v.target, known, o)
VersionOk(v, o) == /\ DOMAIN v = VersionFields /\ v.key \in Keys /\ DocOk(v.doc) /\ v.target = graph_for(o, v.key)
                   /\ v.conv.result \in Results
PutOk(v, known, o) == /\ VersionOk(v, o) /\ v.target # None
                      /\ v.conv.result = "done" => v.conv = Conversion(v, known, o)
OldOk(v, known, o) == /\ VersionOk(v, o) /\ v.conv.result # "error"
                      /\ v.conv.result = "done" => v.conv.misses = {} /\ (v.conv = Conversion(v, known, o) \/ Conversion(v, known, o).result = "error")

\* A write: what it has converted and fetched.
WriteOk(d, r, j, o) ==
    /\ j.kind \in {"put", "remove", "rebuild"}
    /\ Seen(d, r, j.known, o)
    /\ DOMAIN j.puts \subseteq Nat /\ \A i \in DOMAIN j.puts : PutOk(j.puts[i], j.known, o)
    /\ \A i, n \in DOMAIN j.puts : j.puts[i].key = j.puts[n].key => i = n
    /\ j.removes \subseteq Keys
    /\ DOMAIN j.old \subseteq all_keys(j) /\ \A k \in DOMAIN j.old : j.old[k].key = k /\ OldOk(j.old[k], j.known, o)
    /\ j.fetched \subseteq Opened(o) /\ \A i \in j.fetched : j.known[i] = Remote[i] /\ Remote[i] # None
    /\ j.kind = "rebuild" => j.removes = {} /\ \A i, n \in DOMAIN j.puts : i = n
\* What its phases have established.
PhaseOk(j, o) ==
    /\ j.queried \subseteq ContextIris
    /\ j.phase \in {"contexts", "fetch"} => \A i \in j.asking : i \in Opened(o) /\ j.known[i] = None
    /\ j.phase = "fetch" => j.asking \subseteq j.queried
    /\ j.phase = "write" => /\ \A i \in DOMAIN j.puts : j.puts[i].conv.result = "done"
                            /\ \A k \in DOMAIN j.old : j.old[k].conv.result = "done"
    /\ j.phase = "read_old" => j.known = o.contexts /\ j.queried = {}

\* What it has read is still so, if nothing was written meanwhile.
KnownOk(d, j, o) ==
    \A i \in Opened(o) : j.known[i] # None => j.known[i] = d.contexts[i] \/ (d.contexts[i] = None /\ j.known[i] = Remote[i])
QueriedOk(d, j) == \A i \in j.queried : (j.phase = "contexts" /\ i \in j.asking) \/ j.known[i] # None \/ d.contexts[i] = None
OldsOk(d, j, o) ==
    \A k \in all_keys(j) \ j.stale : (d.docs[k] # None /\ graph_for(o, k) # None) => k \in DOMAIN j.old /\ j.old[k].doc = d.docs[k][1].doc
ReadOk(d, j, o) ==
    /\ j.stale = {} => KnownOk(d, j, o) /\ QueriedOk(d, j)
    /\ (j.phase # "read_old" /\ ~owns_target(o)) => OldsOk(d, j, o)

\* A check: which documents it has compared, and with what.
Converted(d, k, known, o) == convert(d.docs[k][1].doc, k, d.docs[k][1].target, known, o)
Bad(d, k, known, o) == graph_for(o, k) # d.docs[k][1].target \/ Differs(d, k, Converted(d, k, known, o))
Scope(d, after) == {k \in Stored(d) : after = NoName \/ ~Before(after, k)}
RowKeys(rows) == {row.key : row \in rows}
RowsOk(d, rows, known, o, after) == \A row \in rows : row = PageRow(d, row.key, known, o) /\ row.key \in Scope(d, after)
Compared(d, keys, known, o) == {k \in keys : Bad(d, k, known, o)}
CheckKnows(d, o) == [i \in ContextIris |-> IF o.contexts[i] # None THEN o.contexts[i] ELSE d.contexts[i]]
PageOk(d, j, o) == j.drifts = Compared(d, IF j.after = NoName THEN {} ELSE Scope(d, j.after), j.known, o)
QuadsOk(d, j, o) ==
    LET row == j.current[1]
    IN  /\ RowsOk(d, j.queue \cup {row}, j.known, o, j.after)
        /\ row.conv.result = "done" /\ row.key \notin RowKeys(j.queue)
        /\ j.drifts = Compared(d, Scope(d, j.after) \ RowKeys(j.queue \cup {row}), j.known, o)
CheckOk(d, j, o) ==
    /\ j.phase = "contexts" => j.known = o.contexts /\ j.drifts = {} /\ j.after = NoName
    /\ j.phase \in {"page", "quads"} => j.after \in Keys \cup {NoName}
    /\ j.phase \in {"page", "quads"} /\ j.stale = {} => j.known = CheckKnows(d, o)
    /\ j.phase = "page" /\ j.stale = {} => PageOk(d, j, o)
    /\ j.phase = "quads" /\ j.stale = {} => QuadsOk(d, j, o)

Fields == {"kind", "phase", "puts", "removes", "old", "known", "fetched", "asking", "queried", "rounds", "stale",
           "key", "after", "queue", "current", "drifts"}
Writing(j) == j.kind # "check" /\ j.phase \in {"read_old", "contexts", "fetch", "write"}
Checking(j) == j.kind = "check" /\ j.phase \in {"contexts", "page", "quads"}
JobOk(d, r, j, o) ==
    /\ DOMAIN j = Fields
    /\ \/ j.phase = "idle"
       \/ j.phase = "read_row" /\ j.key \in Keys
       \/ Writing(j) /\ WriteOk(d, r, j, o) /\ PhaseOk(j, o) /\ ReadOk(d, j, o)
       \/ Checking(j) /\ CheckOk(d, j, o)
Jobs == job = [h \in Handles |-> job[h]] /\ \A h \in Handles : JobOk(db, respelled, job[h], options[h])

\* The tables.
TablesOk(d, r) ==
    /\ d = [quads |-> d.quads, graphs |-> d.graphs, terms |-> d.terms, owned |-> d.owned, docs |-> d.docs, contexts |-> d.contexts]
    /\ d.owned = [g \in DOMAIN d.owned |-> d.owned[g]] /\ \A g \in DOMAIN d.owned : d.owned[g] \in Keys
    /\ d.docs = [k \in Keys |-> d.docs[k]]
    /\ d.contexts \in Knowns
    /\ ~r => \A i \in ContextIris : Remote[i] # None => d.contexts[i] \in {None, Remote[i]}
Tables == options \in OptionSets /\ respelled \in BOOLEAN /\ crossed \in BOOLEAN /\ TablesOk(db, respelled)

\* A document's row, and how its quads were made.
Made(d, r, quads, k, known, o) ==
    LET row == d.docs[k][1]
    IN  /\ Seen(d, r, known, o) /\ row.target = graph_for(o, k)
        /\ Converted(d, k, known, o).result = "done" /\ quads = Converted(d, k, known, o).quads
RowOk(d, r, f, quads, k) ==
    /\ d.docs[k] = <<d.docs[k][1]>> /\ d.docs[k][1].key = k /\ DocOk(d.docs[k][1].doc) /\ d.docs[k][1].target # None
    /\ \E h \in Handles, known \in Knowns : Made(d, r, quads, k, known, f[h])
Rows == made = [k \in Keys |-> made[k]] /\ \A k \in Stored(db) : RowOk(db, respelled, options, made[k], k)

\* Where a quad that a document is converted to can be found again.
Sharing == \A h \in Handles : ~owns_target(options[h])
Home(d, q, k, sharing) == (q[4] \in DOMAIN d.owned /\ d.owned[q[4]] = k) \/ (q[4] = d.docs[k][1].target /\ sharing)
Homes == (Uniform /\ ~crossed /\ ~respelled) =>
             \A q \in db.quads : q \in users \/ q[4] \in contested \/ \E k \in Stored(db) : q \in made[k] /\ Home(db, q, k, Sharing)

Reports == report = [h \in Handles |-> report[h]] /\ RemovalsAreReported /\ ChecksAreExact /\ RebuildsRepair

IInv == Tables /\ Rows /\ Jobs /\ Homes /\ GraphsAreTheirDocuments /\ Reports

-----------------------------------------------------------------------------
(* The statements of a write.                                              *)

\* SetToSeq lists every element of a finite set.
LEMMA Listing ==
    ASSUME NEW S, IsFiniteSet(S)
    PROVE  /\ Cardinality(S) \in Nat /\ SetToSeq(S) \in [1 .. Cardinality(S) -> S]
           /\ \A x \in S : \E n \in 1 .. Cardinality(S) : SetToSeq(S)[n] = x
<1>1. PICK bij \in Bijection(1 .. Cardinality(S), S) : TRUE
  BY FS_CardinalityType DEF ExistsBijection
<1>2. bij \in [1 .. Cardinality(S) -> S] /\ IsInjective(bij)
  BY <1>1 DEF Bijection, Injection, IsInjective
<1>3. SetToSeq(S) \in [1 .. Cardinality(S) -> S] /\ IsInjective(SetToSeq(S))
  BY <1>2 DEF SetToSeq
<1>4. Cardinality(S) \in Nat
  BY FS_CardinalityType
<1>5. ASSUME NEW x \in S, \A n \in 1 .. Cardinality(S) : SetToSeq(S)[n] # x PROVE FALSE
  <2>1. SetToSeq(S) \in [1 .. Cardinality(S) -> S \ {x}]
    BY <1>3, <1>5
  <2>2. IsFiniteSet(S \ {x}) /\ Cardinality(S \ {x}) = Cardinality(S) - 1
    BY <1>5, FS_RemoveElement
  <2>3. IsFiniteSet(1 .. Cardinality(S)) /\ Cardinality(1 .. Cardinality(S)) = Cardinality(S)
    BY <1>4, FS_Interval
  <2>4. \E a, b \in 1 .. Cardinality(S) : a # b /\ SetToSeq(S)[a] = SetToSeq(S)[b]
    <3> DEFINE D == 1 .. Cardinality(S)
               R == S \ {x}
               f == SetToSeq(S)
    <3>1. IsFiniteSet(D) /\ IsFiniteSet(R) /\ Cardinality(R) < Cardinality(D) /\ f \in [D -> R]
      BY <1>4, <2>1, <2>2, <2>3
    <3> HIDE DEF D, R, f
    <3>2. \E a, b \in D : a # b /\ f[a] = f[b]
      BY <3>1, FS_PigeonHole
    <3> QED BY <3>2 DEF D, f
  <2> QED BY <1>3, <2>1, <2>4 DEF IsInjective
<1> QED BY <1>3, <1>4, <1>5

\* A function on 1 .. m is a sequence of the members of any set that has them.
LEMMA Tabulated ==
    ASSUME NEW T, NEW m \in Nat, NEW s, s = [n \in 1 .. m |-> s[n]], \A n \in 1 .. m : s[n] \in T
    PROVE  s \in Seq(T) /\ Len(s) = m
OBVIOUS

\* The statements listed for the members of a finite set.
LEMMA EachLists ==
    ASSUME NEW S, IsFiniteSet(S), NEW op
    PROVE  /\ Cardinality(S) \in Nat /\ Each(op, S) = [n \in 1 .. Cardinality(S) |-> Each(op, S)[n]]
           /\ \A n \in 1 .. Cardinality(S) : Each(op, S)[n] = St(op, SetToSeq(S)[n])
BY Listing DEF Each

\* The place that removed_at computes is that of the statement which deletes
\* the row.
LEMMA RemovedAtIsRight ==
    ASSUME NEW j, NEW o, IsFiniteSet(put_keys(j)), IsFiniteSet(j.removes), IsFiniteSet(j.fetched), NEW k \in forgotten(j)
    PROVE  write_statements(j, o)[removed_at(j, o)[k]] = St("forget", k)
<1> DEFINE keys == 3 * Cardinality(all_keys(j))
           first == [n \in 1 .. keys |-> St(<<"clear", "ungraph", "disown">>[((n - 1) % 3) + 1], SetToSeq(all_keys(j))[(n - 1) \div 3 + 1])]
           second == IF old_ids(j) = {} THEN <<>> ELSE <<St("delete", old_ids(j))>>
           graphs == {q[4] : q \in put_quads(j)}
           third == IF graphs \cup claimed(j, o) = {} THEN <<>> ELSE <<St("terms", graphs \cup claimed(j, o))>>
           fourth == IF put_quads(j) = {} THEN <<>> ELSE <<St("graphs", graphs \ {Default}), St("insert", put_quads(j))>>
           docs == documents(j)
           rows == Each("forget", forgotten(j))
           texts == Each("context", j.fetched)
           T == {first[n] : n \in 1 .. keys} \cup {St("delete", old_ids(j)), St("terms", graphs \cup claimed(j, o)),
                   St("graphs", graphs \ {Default}), St("insert", put_quads(j)), St("graphs", claimed(j, o)), St("own", claims(j, o))}
                \cup {docs[n] : n \in 1 .. Cardinality(put_keys(j))} \cup {rows[n] : n \in 1 .. Cardinality(forgotten(j))}
                \cup {texts[n] : n \in 1 .. Cardinality(j.fetched)}
<1>1. IsFiniteSet(all_keys(j)) /\ IsFiniteSet(forgotten(j))
  BY FS_Union, FS_Difference DEF all_keys, forgotten
<1>2. keys \in Nat
  BY <1>1, FS_CardinalityType
<1>3. first \in Seq(T)
  <2>1. first = [n \in 1 .. keys |-> first[n]] /\ \A n \in 1 .. keys : first[n] \in T
    OBVIOUS
  <2> HIDE DEF first, keys, T
  <2> QED BY <1>2, <2>1, Tabulated
<1>4. second \in Seq(T) /\ third \in Seq(T) /\ fourth \in Seq(T) /\ owning(j, o) \in Seq(T)
  <2> DEFINE a == St("delete", old_ids(j))
             b == St("terms", graphs \cup claimed(j, o))
             c == St("graphs", graphs \ {Default})
             d == St("insert", put_quads(j))
             e == St("graphs", claimed(j, o))
             f == St("own", claims(j, o))
  <2>1. a \in T /\ b \in T /\ c \in T /\ d \in T /\ e \in T /\ f \in T
    OBVIOUS
  <2>2. /\ second \in {<<>>, <<a>>} /\ third \in {<<>>, <<b>>} /\ fourth \in {<<>>, <<c, d>>}
        /\ owning(j, o) \in {<<>>, <<e, f>>}
    BY DEF owning
  <2> HIDE DEF T, a, b, c, d, e, f
  <2>3. <<>> \in Seq(T) /\ <<a>> \in Seq(T) /\ <<b>> \in Seq(T) /\ <<c, d>> \in Seq(T) /\ <<e, f>> \in Seq(T)
    BY <2>1
  <2> HIDE DEF second, third, fourth
  <2> QED BY <2>2, <2>3, Zenon
<1>5. docs \in Seq(T)
  <2>1. /\ Cardinality(put_keys(j)) \in Nat /\ docs = [n \in 1 .. Cardinality(put_keys(j)) |-> docs[n]]
        /\ \A n \in 1 .. Cardinality(put_keys(j)) : docs[n] \in T
    BY EachLists DEF documents
  <2> HIDE DEF docs, T
  <2> QED BY <2>1, Tabulated
<1>6. rows \in Seq(T) /\ Len(rows) = Cardinality(forgotten(j))
  <2>1. /\ Cardinality(forgotten(j)) \in Nat /\ rows = [n \in 1 .. Cardinality(forgotten(j)) |-> rows[n]]
        /\ \A n \in 1 .. Cardinality(forgotten(j)) : rows[n] \in T
    BY <1>1, EachLists
  <2> HIDE DEF rows, T
  <2> QED BY <2>1, Tabulated
<1>7. texts \in Seq(T)
  <2>1. /\ Cardinality(j.fetched) \in Nat /\ texts = [n \in 1 .. Cardinality(j.fetched) |-> texts[n]]
        /\ \A n \in 1 .. Cardinality(j.fetched) : texts[n] \in T
    BY EachLists
  <2> HIDE DEF texts, T
  <2> QED BY <2>1, Tabulated
<1>8. prefix(j) = first \o second /\ inserts(j, o) = third \o fourth
  BY DEF prefix, inserts
<1>9. suffix(j, o) = owning(j, o) \o docs \o rows \o texts
  BY DEF suffix
<1> DEFINE rank == CHOOSE n \in 1 .. Cardinality(forgotten(j)) : SetToSeq(forgotten(j))[n] = k
<1>10. rank \in 1 .. Cardinality(forgotten(j)) /\ SetToSeq(forgotten(j))[rank] = k
  BY <1>1, Listing
<1>11. removed_at(j, o)[k] = Len(prefix(j)) + Len(inserts(j, o)) + Len(owning(j, o)) + Len(docs) + rank
  BY DEF removed_at
<1>12. rows[rank] = St("forget", k)
  BY <1>1, <1>10, EachLists
<1>13. write_statements(j, o) = prefix(j) \o inserts(j, o) \o suffix(j, o)
  BY DEF write_statements
<1> HIDE DEF first, second, third, fourth, docs, rows, texts, T, rank
<1>14. prefix(j) \in Seq(T) /\ inserts(j, o) \in Seq(T)
  BY <1>3, <1>4, <1>8
<1>15. rank \in 1 .. Len(rows)
  BY <1>6, <1>10
<1> DEFINE before == prefix(j)
           new == inserts(j, o)
           graph_rows == owning(j, o)
<1>16. before \in Seq(T) /\ new \in Seq(T) /\ graph_rows \in Seq(T)
  BY <1>4, <1>14
<1>17. /\ write_statements(j, o) = before \o new \o (graph_rows \o docs \o rows \o texts)
       /\ removed_at(j, o)[k] = Len(before) + Len(new) + Len(graph_rows) + Len(docs) + rank
  BY <1>9, <1>11, <1>13
<1> HIDE DEF before, new, graph_rows
<1> DEFINE u == before \o new
           v == graph_rows \o docs
           w == v \o rows
           x == w \o texts
<1>18. u \in Seq(T) /\ Len(u) = Len(before) + Len(new) /\ v \in Seq(T) /\ Len(v) = Len(graph_rows) + Len(docs)
  BY <1>5, <1>16
<1> HIDE DEF u, v
<1>19. w \in Seq(T) /\ Len(w) = Len(v) + Len(rows) /\ w[Len(v) + rank] = rows[rank]
  <2>1. v \in Seq(T) /\ rows \in Seq(T) /\ rank \in 1 .. Len(rows)
    BY <1>6, <1>15, <1>18
  <2> QED BY <2>1
<1> HIDE DEF w
<1>20. x \in Seq(T) /\ x[Len(v) + rank] = rows[rank] /\ Len(v) + rank \in 1 .. Len(x)
  BY <1>6, <1>7, <1>15, <1>18, <1>19
<1> HIDE DEF x
<1>21. (u \o x)[Len(u) + (Len(v) + rank)] = rows[rank]
  BY <1>18, <1>20
<1>22. /\ write_statements(j, o) = u \o x
       /\ removed_at(j, o)[k] = Len(u) + (Len(v) + rank)
  BY <1>15, <1>16, <1>5, <1>17, <1>18 DEF u, v, w, x
<1> QED BY <1>12, <1>21, <1>22
-----------------------------------------------------------------------------
(* Contexts and conversion.                                                *)

\* A text is one that is in use, and imports a context that is.
LEMMA TextsAreKnown ==
    ASSUME NEW known \in Knowns, NEW o, NEW i \in ContextIris
    PROVE  /\ Text(known, o, i) \in Texts
           /\ Text(known, o, i) # None => Text(known, o, i)[1].imports \in ContextIris \cup {NoName}
<1>1. Text(known, o, i) \in Texts
  BY DEF Text, Knowns, Texts
<1> QED BY <1>1, ContextsAssumption

\* There is a least set of contexts that is closed under imports.
LEMMA LoadedIsLeast ==
    ASSUME NEW known \in Knowns, NEW o, NEW iri \in ContextIris \cup {NoName}
    PROVE  /\ Loaded(known, o, iri) \in SUBSET ContextIris /\ Closed(known, o, iri, Loaded(known, o, iri))
           /\ \A T \in SUBSET ContextIris : Closed(known, o, iri, T) => Loaded(known, o, iri) \subseteq T
<1> DEFINE L == {i \in ContextIris : \A T \in SUBSET ContextIris : Closed(known, o, iri, T) => i \in T}
<1>1. Closed(known, o, iri, L)
  <2>1. iri \in L \cup {NoName}
    BY DEF Closed
  <2>2. ASSUME NEW i \in L, Text(known, o, i) # None PROVE Text(known, o, i)[1].imports \in L \cup {NoName}
    BY <2>2, TextsAreKnown DEF Closed
  <2> QED BY <2>1, <2>2 DEF Closed
<1>2. /\ L \in SUBSET ContextIris
      /\ \A T \in SUBSET ContextIris : Closed(known, o, iri, T) => L \subseteq T
  OBVIOUS
<1> HIDE DEF L
<1> QED BY <1>1, <1>2 DEF Loaded

\* Processing depends on the texts only.
Same(S, a, o, b, p) == \A i \in S : Text(a, o, i) = Text(b, p, i)
\* Equal texts of what either loads load alike.
LEMMA SameTexts ==
    ASSUME NEW o, NEW p, NEW a \in Knowns, NEW b \in Knowns, NEW iri \in ContextIris \cup {NoName},
           Same(Loaded(a, o, iri), a, o, b, p), Same(Loaded(b, p, iri), a, o, b, p)
    PROVE  ChainLoader(a, o, iri) = ChainLoader(b, p, iri)
<1> DEFINE A == Loaded(a, o, iri)
           B == Loaded(b, p, iri)
<1>1. /\ A \in SUBSET ContextIris /\ Closed(a, o, iri, A)
      /\ \A T \in SUBSET ContextIris : Closed(a, o, iri, T) => A \subseteq T
  BY LoadedIsLeast
<1>2. /\ B \in SUBSET ContextIris /\ Closed(b, p, iri, B)
      /\ \A T \in SUBSET ContextIris : Closed(b, p, iri, T) => B \subseteq T
  BY LoadedIsLeast
<1>3. (\A i \in A : Text(a, o, i) = Text(b, p, i)) /\ (\A i \in B : Text(a, o, i) = Text(b, p, i))
  BY DEF Same
<1>4. ASSUME A = B PROVE ChainLoader(a, o, iri) = ChainLoader(b, p, iri)
  BY <1>3, <1>4 DEF ChainLoader
<1> HIDE DEF A, B
<1>5. Closed(b, p, iri, A)
  BY <1>1, <1>3 DEF Closed
<1>6. Closed(a, o, iri, B)
  BY <1>2, <1>3 DEF Closed
<1>7. A = B
  BY <1>1, <1>2, <1>5, <1>6
<1> QED BY <1>4, <1>7

\* Two jobs that miss nothing, and whose texts agree where both have one,
\* load the same contexts.
Agree(a, o, b, p) == \A i \in ContextIris : Text(a, o, i) # None /\ Text(b, p, i) # None => Text(a, o, i) = Text(b, p, i)
\* Two that both have all they load, and agree on what both have, load alike.
LEMMA Agreement ==
    ASSUME NEW o, NEW p, NEW a \in Knowns, NEW b \in Knowns, NEW iri \in ContextIris \cup {NoName}, Agree(a, o, b, p),
           ChainLoader(a, o, iri).misses = {}, ChainLoader(b, p, iri).misses = {}
    PROVE  ChainLoader(a, o, iri) = ChainLoader(b, p, iri)
<1> DEFINE A == Loaded(a, o, iri)
           B == Loaded(b, p, iri)
<1>1. /\ \A i \in A : Text(a, o, i) # None
      /\ \A i \in B : Text(b, p, i) # None
  BY DEF ChainLoader
<1>2. A \in SUBSET ContextIris /\ B \in SUBSET ContextIris /\ Closed(a, o, iri, A) /\ Closed(b, p, iri, B)
  BY LoadedIsLeast
<1>3. \A i \in A \cap B : Text(a, o, i) = Text(b, p, i)
  BY <1>1, <1>2 DEF Agree
<1>4. Closed(a, o, iri, A \cap B) /\ Closed(b, p, iri, A \cap B)
  BY <1>2, <1>3 DEF Closed
<1>5. A \cap B \in SUBSET ContextIris
  BY <1>2
<1>6. A \subseteq A \cap B
  <2>1. \A T \in SUBSET ContextIris : Closed(a, o, iri, T) => A \subseteq T
    BY LoadedIsLeast
  <2> HIDE DEF A, B
  <2> QED BY <1>4, <1>5, <2>1
<1>7. B \subseteq A \cap B
  <2>1. \A T \in SUBSET ContextIris : Closed(b, p, iri, T) => B \subseteq T
    BY LoadedIsLeast
  <2> HIDE DEF A, B
  <2> QED BY <1>4, <1>5, <2>1
<1>8. Same(A, a, o, b, p) /\ Same(B, a, o, b, p)
  BY <1>3, <1>6, <1>7 DEF Same
<1> HIDE DEF A, B
<1>9. Same(Loaded(a, o, iri), a, o, b, p) /\ Same(Loaded(b, p, iri), a, o, b, p)
  BY <1>8 DEF A, B
<1> QED BY <1>9, SameTexts, SMTT(30)

\* What misses nothing stays the same when more is known.
Grows(a, b, o) == \A i \in ContextIris : Text(a, o, i) # None => Text(b, o, i) = Text(a, o, i)
\* What was loaded stays loaded when more is known.
LEMMA Growth ==
    ASSUME NEW a \in Knowns, NEW b \in Knowns, NEW o, NEW iri \in ContextIris \cup {NoName}, Grows(a, b, o), ChainLoader(a, o, iri).misses = {}
    PROVE  ChainLoader(a, o, iri) = ChainLoader(b, o, iri)
<1> DEFINE A == Loaded(a, o, iri)
           B == Loaded(b, o, iri)
<1>1. A \in SUBSET ContextIris /\ B \in SUBSET ContextIris /\ Closed(a, o, iri, A)
  BY LoadedIsLeast
<1>2. \A i \in A : Text(a, o, i) = Text(b, o, i)
  BY <1>1 DEF ChainLoader, Grows
<1>3. Closed(b, o, iri, A)
  BY <1>1, <1>2 DEF Closed
<1>4. B \subseteq A
  BY <1>1, <1>3, LoadedIsLeast
<1>5. Same(A, a, o, b, o) /\ Same(B, a, o, b, o)
  BY <1>2, <1>4 DEF Same
<1>6. ASSUME Same(Loaded(a, o, iri), a, o, b, o), Same(Loaded(b, o, iri), a, o, b, o) PROVE ChainLoader(a, o, iri) = ChainLoader(b, o, iri)
  BY <1>6, SameTexts
<1> QED BY <1>5, <1>6

Finished == {"done", "error"}
\* A conversion misses what loading misses; it puts quads in the target or in
\* the graphs that the document defines, of which none is the default one.
LEMMA Conversions ==
    ASSUME NEW doc, NEW key, NEW target, NEW known, NEW o
    PROVE  LET c == convert(doc, key, target, known, o)
               loaded == ChainLoader(known, o, doc.context)
           IN  /\ c.result \in {"missing", "done", "error"} /\ c.misses = loaded.misses
               /\ c.result \in Finished <=> c.misses = {}
               /\ c.result = "done" => \A q \in c.quads : q[4] \in c.nested \cup {target}
               /\ Default \notin c.nested
<1> DEFINE c == convert(doc, key, target, known, o)
           loaded == ChainLoader(known, o, doc.context)
<1>1. CASE loaded.misses # {}
  BY <1>1 DEF convert, Finished
<1>2. CASE loaded.misses = {} /\ ~doc.valid
  BY <1>2 DEF convert, Finished
<1>3. CASE loaded.misses = {} /\ doc.valid
  <2> DEFINE nested == {n \in doc.nested : Kept(n[2])}
  <2>1. /\ c.result = "done" /\ c.misses = {}
        /\ c.quads = {Quad(t, key, loaded.names, target) : t \in {x \in doc.plain : Kept(x)}}
                     \cup {Quad(n[2], key, loaded.names, node(n[1], key)) : n \in nested}
        /\ c.nested = {node(n[1], key) : n \in nested}
    BY <1>3 DEF convert
  <2>2. \A t, names, g : Quad(t, key, names, g)[4] = g
    BY DEF Quad
  <2>3. ASSUME NEW q \in c.quads PROVE q[4] \in c.nested \cup {target}
    <3>1. CASE \E t \in {x \in doc.plain : Kept(x)} : q = Quad(t, key, loaded.names, target)
      BY <3>1, <2>2
    <3>2. CASE \E n \in nested : q = Quad(n[2], key, loaded.names, node(n[1], key))
      BY <3>2, <2>1, <2>2
    <3> QED BY <2>1, <3>1, <3>2
  <2>4. \A x : node(x, key) # Default
    BY DEF node, Default
  <2>5. Default \notin c.nested
    BY <2>1, <2>4
  <2> QED BY <1>3, <2>1, <2>3, <2>5 DEF Finished
<1> QED BY <1>1, <1>2, <1>3

\* A conversion depends on what is known by what is loaded.
LEMMA SameLoading ==
    ASSUME NEW doc, NEW key, NEW target, NEW a, NEW o, NEW b, NEW p, ChainLoader(a, o, doc.context) = ChainLoader(b, p, doc.context)
    PROVE  convert(doc, key, target, a, o) = convert(doc, key, target, b, p)
BY DEF convert

\* Two conversions that finish, of handles that agree, are the same.
LEMMA SameConversion ==
    ASSUME NEW doc, NEW key, NEW target, NEW a \in Knowns, NEW o, NEW b \in Knowns, NEW p, DocOk(doc), Agree(a, o, b, p),
           convert(doc, key, target, a, o).result \in Finished, convert(doc, key, target, b, p).result \in Finished
    PROVE  convert(doc, key, target, a, o) = convert(doc, key, target, b, p)
<1>1. ChainLoader(a, o, doc.context).misses = {}
  BY Conversions
<1>2. ChainLoader(b, p, doc.context).misses = {}
  BY Conversions
<1>3. ChainLoader(a, o, doc.context) = ChainLoader(b, p, doc.context)
  <2>1. doc.context \in ContextIris \cup {NoName}
    BY DEF DocOk
  <2> QED BY <1>1, <1>2, <2>1, Agreement
<1> QED BY <1>3, SameLoading

\* A conversion that finished is the same when more is known.
LEMMA GrownConversion ==
    ASSUME NEW doc, NEW key, NEW target, NEW a \in Knowns, NEW o, NEW b \in Knowns, DocOk(doc), Grows(a, b, o),
           convert(doc, key, target, a, o).result \in Finished
    PROVE  convert(doc, key, target, a, o) = convert(doc, key, target, b, o)
<1>1. ChainLoader(a, o, doc.context).misses = {}
  BY Conversions
<1>2. ChainLoader(a, o, doc.context) = ChainLoader(b, o, doc.context)
  BY <1>1, Growth DEF DocOk
<1> QED BY <1>2, SameLoading

\* What is asked for is not known, and none of the options.
LEMMA MissesAreOpen ==
    ASSUME NEW doc, NEW key, NEW target, NEW d, NEW r, NEW known, NEW o, DocOk(doc), Seen(d, r, known, o),
           NEW i \in convert(doc, key, target, known, o).misses
    PROVE  i \in Opened(o) /\ known[i] = None
<1>1. i \in ChainLoader(known, o, doc.context).misses /\ known \in Knowns
  BY Conversions DEF Seen
<1>2. i \in ContextIris /\ Text(known, o, i) = None
  BY <1>1, LoadedIsLeast DEF ChainLoader, DocOk
<1>3. known[i] = None /\ ~(o.bundled /\ Bundled[i] # None)
  BY <1>2 DEF Text
<1> QED BY <1>2, <1>3 DEF Seen, Opened

\* Jobs that have seen contexts in use agree.
LEMMA SeenAgree ==
    ASSUME NEW d, NEW a, NEW o, NEW b, NEW p, Seen(d, FALSE, a, o), Seen(d, FALSE, b, p), o.contexts = p.contexts, o.bundled = p.bundled
    PROVE  Agree(a, o, b, p)
<1>1. Opened(o) = Opened(p)
  BY DEF Opened
<1> QED BY <1>1 DEF Agree, Seen, Text, Opened

-----------------------------------------------------------------------------
(* The steps of a write.                                                   *)

\* Trying a version again, with what is known now.
LEMMA Tried ==
    ASSUME NEW v, NEW known, NEW o, VersionOk(v, o)
    PROVE  LET t == Try(v, known, o)
           IN  /\ VersionOk(t, o) /\ t.key = v.key /\ t.target = v.target /\ t.doc = v.doc
               /\ t.conv = v.conv \/ t.conv = Conversion(v, known, o)
               /\ v.conv.result \in Finished => t = v
               /\ v.conv.result \notin Finished => t.conv = Conversion(v, known, o)
<1>1. CASE v.conv.result \in Finished
  BY <1>1 DEF Try, Finished
<1>2. CASE v.conv.result \notin Finished
  <2> DEFINE c == convert(v.doc, v.key, v.target, known, o)
             t == [v EXCEPT !.conv = c]
  <2>1. Try(v, known, o) = t /\ c = Conversion(v, known, o)
    BY <1>2 DEF Try, Finished, Conversion
  <2>2. c.result \in {"missing", "done", "error"}
    BY Conversions
  <2> HIDE DEF c
  <2>3. DOMAIN t = VersionFields /\ t.key = v.key /\ t.target = v.target /\ t.doc = v.doc /\ t.conv = c
    BY DEF VersionOk, VersionFields
  <2> HIDE DEF t
  <2>4. VersionOk(t, o)
    BY <2>2, <2>3 DEF VersionOk, Results
  <2> QED BY <1>2, <2>1, <2>3, <2>4
<1> QED BY <1>1, <1>2

\* What is put, tried.
LEMMA TriedPut ==
    ASSUME NEW d, NEW r, NEW v, NEW known, NEW o, PutOk(v, known, o), Seen(d, r, known, o)
    PROVE  LET t == Try(v, known, o)
           IN  /\ PutOk(t, known, o) /\ t.key = v.key /\ t.target = v.target /\ t.doc = v.doc
               /\ t.conv.result \in {"missing", "done", "error"}
               /\ t.conv.result = "missing" => t.conv.misses # {}
               /\ t.conv.result # "error" => \A i \in t.conv.misses : i \in Opened(o) /\ known[i] = None
<1> DEFINE t == Try(v, known, o)
           c == Conversion(v, known, o)
<1>1. /\ VersionOk(t, o) /\ t.key = v.key /\ t.target = v.target /\ t.doc = v.doc
      /\ v.conv.result \in Finished => t = v
      /\ v.conv.result \notin Finished => t.conv = c
  BY Tried DEF PutOk
<1>2. c = Conversion(t, known, o)
  BY <1>1 DEF Conversion
<1>3. c.result \in {"missing", "done", "error"} /\ (c.result \in Finished <=> c.misses = {})
  BY Conversions DEF Conversion
<1>4. \A i \in c.misses : i \in Opened(o) /\ known[i] = None
  BY MissesAreOpen DEF Conversion, PutOk, VersionOk
<1> HIDE DEF t, c
<1>5. CASE v.conv.result = "error"
  BY <1>1, <1>5 DEF PutOk, Finished, t, c
<1>6. CASE v.conv.result # "error"
  <2>1. t.conv = c
    BY <1>1, <1>2, <1>6 DEF PutOk, Finished, t, c
  <2>2. PutOk(t, known, o)
    BY <1>1, <1>2, <2>1 DEF PutOk
  <2>3. t.conv.result \in {"missing", "done", "error"} /\ (t.conv.result = "missing" => t.conv.misses # {})
    BY <1>3, <2>1 DEF Finished
  <2>4. \A i \in t.conv.misses : i \in Opened(o) /\ known[i] = None
    BY <1>4, <2>1
  <2> QED BY <1>1, <2>2, <2>3, <2>4 DEF t
<1> QED BY <1>5, <1>6

\* An old version, tried; it is excused when it does not convert.
LEMMA TriedOld ==
    ASSUME NEW d, NEW r, NEW v, NEW known, NEW o, OldOk(v, known, o), Seen(d, r, known, o)
    PROVE  LET t == Excuse(Try(v, known, o))
           IN  /\ OldOk(t, known, o) /\ t.key = v.key /\ t.target = v.target /\ t.doc = v.doc
               /\ t.conv.result \in {"missing", "done"}
               /\ t.conv.result = "missing" => t.conv.misses # {}
               /\ \A i \in t.conv.misses : i \in Opened(o) /\ known[i] = None
<1> DEFINE u == Try(v, known, o)
           t == Excuse(u)
           c == Conversion(v, known, o)
<1>1. /\ VersionOk(u, o) /\ u.key = v.key /\ u.target = v.target /\ u.doc = v.doc
      /\ v.conv.result \in Finished => u = v
      /\ v.conv.result \notin Finished => u.conv = c
  BY Tried DEF OldOk
<1>2. c = Conversion(u, known, o)
  BY <1>1 DEF Conversion
<1>3. c.result \in {"missing", "done", "error"} /\ (c.result \in Finished <=> c.misses = {})
  BY Conversions DEF Conversion
<1>4. \A i \in c.misses : i \in Opened(o) /\ known[i] = None
  BY MissesAreOpen DEF Conversion, OldOk, VersionOk
<1> HIDE DEF u, c
<1>5. CASE u.conv.result = "error"
  <2> DEFINE n == [Unconverted EXCEPT !.result = "done"]
  <2>1. n.result = "done" /\ n.misses = {}
    BY DEF Unconverted
  <2> HIDE DEF n
  <2>2. t = [u EXCEPT !.conv = n]
    BY <1>5 DEF Excuse, n
  <2>3. DOMAIN t = VersionFields /\ t.key = u.key /\ t.target = u.target /\ t.doc = u.doc /\ t.conv = n
    BY <1>1, <2>2 DEF VersionOk, VersionFields
  <2> HIDE DEF t
  <2>4. VersionOk(t, o)
    BY <1>1, <2>1, <2>3 DEF VersionOk, Results
  <2>5. Conversion(t, known, o) = c
    BY <1>1, <2>3 DEF Conversion, c
  <2>6. c.result = "error"
    BY <1>1, <1>5 DEF OldOk, Finished
  <2>7. OldOk(t, known, o)
    BY <2>1, <2>3, <2>4, <2>5, <2>6 DEF OldOk
  <2> QED BY <1>1, <2>1, <2>3, <2>7 DEF t, u
<1>6. CASE u.conv.result # "error"
  <2>1. t = u
    BY <1>6 DEF Excuse
  <2> HIDE DEF t
  <2>2. CASE v.conv.result = "done"
    BY <1>1, <2>1, <2>2 DEF OldOk, Finished, t, u
  <2>3. CASE v.conv.result # "done"
    <3>1. u.conv = c
      BY <1>1, <1>6, <2>3 DEF Finished, OldOk
    <3>2. OldOk(t, known, o)
      BY <1>1, <1>2, <1>3, <1>6, <2>1, <3>1 DEF OldOk, Finished
    <3>3. t.conv.result \in {"missing", "done"} /\ (t.conv.result = "missing" => t.conv.misses # {})
      BY <1>3, <1>6, <2>1, <3>1 DEF Finished
    <3>4. \A i \in t.conv.misses : i \in Opened(o) /\ known[i] = None
      BY <1>4, <2>1, <3>1
    <3>5. t.key = v.key /\ t.target = v.target /\ t.doc = v.doc
      BY <1>1, <2>1
    <3> QED BY <3>2, <3>3, <3>4, <3>5 DEF t, u
  <2> QED BY <2>2, <2>3
<1> QED BY <1>5, <1>6

\* An attempt changes conversions only.
Alike(n, j) ==
    /\ DOMAIN n = Fields /\ DOMAIN n.puts = DOMAIN j.puts /\ DOMAIN n.old = DOMAIN j.old
    /\ \A i \in DOMAIN j.puts : n.puts[i].key = j.puts[i].key
    /\ \A k \in DOMAIN j.old : n.old[k].doc = j.old[k].doc
    /\ n.kind = j.kind /\ n.removes = j.removes /\ n.known = j.known /\ n.fetched = j.fetched /\ n.stale = j.stale
\* They write the same keys.
LEMMA AlikeKeys ==
    ASSUME NEW n, NEW j, Alike(n, j)
    PROVE  put_keys(n) = put_keys(j) /\ all_keys(n) = all_keys(j)
<1>1. put_keys(n) = put_keys(j)
  BY DEF Alike, put_keys
<1> QED BY <1>1 DEF Alike, all_keys

\* An attempt keeps what a write is, and misses only what it may ask for.
LEMMA Attempts ==
    ASSUME NEW d, NEW r, NEW j, NEW o, DOMAIN j = Fields, WriteOk(d, r, j, o), NEW n, n = Attempt(j, o),
           \A i \in DOMAIN n.puts : n.puts[i].conv.result # "error"
    PROVE  /\ WriteOk(d, r, n, o) /\ Alike(n, j) /\ n.queried = j.queried
           /\ \A i \in Missing(n) : i \in Opened(o) /\ n.known[i] = None
           /\ Missing(n) = {} => /\ \A i \in DOMAIN n.puts : n.puts[i].conv.result = "done"
                                 /\ \A k \in DOMAIN n.old : n.old[k].conv.result = "done"
<1> DEFINE puts == [i \in DOMAIN j.puts |-> Try(j.puts[i], j.known, o)]
           old == [k \in DOMAIN j.old |-> Excuse(Try(j.old[k], j.known, o))]
<1>1. n = [j EXCEPT !.puts = puts, !.old = old]
  BY DEF Attempt
<1>2. DOMAIN puts = DOMAIN j.puts /\ DOMAIN old = DOMAIN j.old
  OBVIOUS
<1>3. Seen(d, r, j.known, o)
  BY DEF WriteOk
<1>4. \A i \in DOMAIN j.puts : /\ PutOk(puts[i], j.known, o) /\ puts[i].key = j.puts[i].key
                               /\ puts[i].conv.result \in {"missing", "done", "error"}
                               /\ puts[i].conv.result = "missing" => puts[i].conv.misses # {}
                               /\ puts[i].conv.result # "error" => \A x \in puts[i].conv.misses : x \in Opened(o) /\ j.known[x] = None
  <2> TAKE i \in DOMAIN j.puts
  <2>1. PutOk(j.puts[i], j.known, o) /\ puts[i] = Try(j.puts[i], j.known, o)
    BY DEF WriteOk
  <2> HIDE DEF puts
  <2> QED BY <1>3, <2>1, TriedPut
<1>5. \A k \in DOMAIN j.old : /\ OldOk(old[k], j.known, o) /\ old[k].key = j.old[k].key /\ old[k].doc = j.old[k].doc
                              /\ old[k].conv.result \in {"missing", "done"}
                              /\ old[k].conv.result = "missing" => old[k].conv.misses # {}
                              /\ \A x \in old[k].conv.misses : x \in Opened(o) /\ j.known[x] = None
  <2> TAKE k \in DOMAIN j.old
  <2>1. OldOk(j.old[k], j.known, o) /\ old[k] = Excuse(Try(j.old[k], j.known, o))
    BY DEF WriteOk
  <2> HIDE DEF old
  <2> QED BY <1>3, <2>1, TriedOld
<1> HIDE DEF puts, old
<1>6. /\ DOMAIN n = Fields /\ n.puts = puts /\ n.old = old /\ n.kind = j.kind /\ n.removes = j.removes /\ n.known = j.known
      /\ n.fetched = j.fetched /\ n.stale = j.stale /\ n.queried = j.queried
  BY <1>1 DEF Fields
<1>7. Alike(n, j)
  BY <1>2, <1>4, <1>5, <1>6 DEF Alike
<1>8. WriteOk(d, r, n, o)
  <2>1. all_keys(n) = all_keys(j)
    BY <1>7, AlikeKeys
  <2>2. /\ DOMAIN n.puts \subseteq Nat /\ \A i \in DOMAIN n.puts : PutOk(n.puts[i], n.known, o)
        /\ \A i, m \in DOMAIN n.puts : n.puts[i].key = n.puts[m].key => i = m
    BY <1>2, <1>4, <1>6 DEF WriteOk
  <2>3. DOMAIN n.old \subseteq all_keys(n) /\ \A k \in DOMAIN n.old : n.old[k].key = k /\ OldOk(n.old[k], n.known, o)
    BY <1>2, <1>5, <1>6, <2>1 DEF WriteOk
  <2>4. n.kind = "rebuild" => n.removes = {} /\ \A i, m \in DOMAIN n.puts : i = m
    BY <1>2, <1>6 DEF WriteOk
  <2> QED BY <1>6, <2>2, <2>3, <2>4 DEF WriteOk
<1>9. \A i \in Missing(n) : i \in Opened(o) /\ n.known[i] = None
  BY <1>2, <1>4, <1>5, <1>6 DEF Missing
<1>10. ASSUME Missing(n) = {} PROVE /\ \A i \in DOMAIN n.puts : n.puts[i].conv.misses = {}
                                    /\ \A k \in DOMAIN n.old : n.old[k].conv.misses = {}
  BY <1>10 DEF Missing
<1>11. Missing(n) = {} => /\ \A i \in DOMAIN n.puts : n.puts[i].conv.result = "done"
                          /\ \A k \in DOMAIN n.old : n.old[k].conv.result = "done"
  BY <1>2, <1>4, <1>5, <1>6, <1>10
<1> QED BY <1>6, <1>7, <1>8, <1>9, <1>11

\* What a job has read, when it has the answers to what it asked.
Answered(d, j, o) ==
    /\ j.queried \subseteq ContextIris
    /\ j.stale = {} => KnownOk(d, j, o) /\ \A i \in j.queried : j.known[i] # None \/ d.contexts[i] = None
    /\ ~owns_target(o) => OldsOk(d, j, o)

\* An idle handle.
LEMMA IdleOk == ASSUME NEW d, NEW r, NEW o PROVE JobOk(d, r, Idle, o)
BY DEF JobOk, Idle, Fields

\* What of a job WriteOk, KnownOk and OldsOk depend on.
SameWork(n, j) ==
    /\ DOMAIN n = Fields /\ n.puts = j.puts /\ n.old = j.old /\ n.kind = j.kind /\ n.removes = j.removes /\ n.known = j.known
    /\ n.fetched = j.fetched /\ n.stale = j.stale
\* Jobs that agree on those.
LEMMA SameWrite ==
    ASSUME NEW d, NEW r, NEW o, NEW n, NEW j, SameWork(n, j)
    PROVE  /\ WriteOk(d, r, j, o) => WriteOk(d, r, n, o)
           /\ KnownOk(d, j, o) => KnownOk(d, n, o)
           /\ OldsOk(d, j, o) => OldsOk(d, n, o)
<1>1. all_keys(n) = all_keys(j)
  BY DEF SameWork, all_keys, put_keys
<1>2. WriteOk(d, r, j, o) => WriteOk(d, r, n, o)
  BY <1>1 DEF SameWork, WriteOk
<1> QED BY <1>1, <1>2 DEF SameWork, KnownOk, OldsOk

\* The step after an answer: it writes, asks for contexts it has not asked for,
\* fetches them, or ends (resolve).
LEMMA Resolves ==
    ASSUME NEW d, NEW r, NEW j, NEW o, DOMAIN j = Fields, WriteOk(d, r, j, o), Answered(d, j, o)
    PROVE  JobOk(d, r, resolve(j, o), o)
<1> DEFINE n == Attempt(j, o)
           next_ == Attempted(n, o)
<1>1. resolve(j, o) = next_
  BY DEF resolve
<1>0. n = Attempt(j, o)
  OBVIOUS
<1> HIDE DEF n
<1>2. CASE \E i \in DOMAIN n.puts : n.puts[i].conv.result = "error"
  BY <1>1, <1>2, IdleOk DEF Attempted
<1>3. CASE ~\E i \in DOMAIN n.puts : n.puts[i].conv.result = "error"
  <2>1. /\ WriteOk(d, r, n, o) /\ Alike(n, j) /\ n.queried = j.queried
        /\ \A i \in Missing(n) : i \in Opened(o) /\ n.known[i] = None
        /\ Missing(n) = {} => /\ \A i \in DOMAIN n.puts : n.puts[i].conv.result = "done"
                              /\ \A k \in DOMAIN n.old : n.old[k].conv.result = "done"
    BY <1>0, <1>3, Attempts
  <2>2. all_keys(n) = all_keys(j)
    BY <2>1, AlikeKeys
  <2>3. (j.stale = {} => KnownOk(d, n, o)) /\ (~owns_target(o) => OldsOk(d, n, o))
    <3>1. j.stale = {} => KnownOk(d, n, o)
      BY <2>1 DEF Answered, KnownOk, Alike
    <3>2. ~owns_target(o) => OldsOk(d, n, o)
      BY <2>1, <2>2 DEF Answered, OldsOk, Alike
    <3> QED BY <3>1, <3>2
  <2>4. j.stale = {} => \A i \in n.queried : n.known[i] # None \/ d.contexts[i] = None
    BY <2>1 DEF Answered, Alike
  <2>5. \/ next_ = Idle
        \/ next_ = [n EXCEPT !.phase = "write"] /\ Missing(n) = {}
        \/ next_ = ask(n, Missing(n) \ n.queried)
        \/ next_ = [n EXCEPT !.phase = "fetch", !.asking = Missing(n), !.rounds = @ + 1] /\ Missing(n) \ n.queried = {}
    BY <1>3 DEF Attempted
  <2> HIDE DEF next_
  <2>6. n.kind \in {"put", "remove", "rebuild"} /\ n.stale = j.stale
    BY <2>1 DEF WriteOk, Alike
  <2>7. CASE next_ = Idle
    BY <1>1, <2>7, IdleOk
  <2>8. CASE next_ = [n EXCEPT !.phase = "write"] /\ Missing(n) = {}
    <3>1. SameWork(next_, n) /\ next_.phase = "write" /\ next_.queried = n.queried
      BY <2>1, <2>8 DEF SameWork, Alike, Fields
    <3>2. WriteOk(d, r, next_, o) /\ (j.stale = {} => KnownOk(d, next_, o)) /\ (~owns_target(o) => OldsOk(d, next_, o))
      BY <2>1, <2>3, <3>1, SameWrite
    <3>3. PhaseOk(next_, o)
      BY <2>1, <2>8, <3>1 DEF PhaseOk, SameWork, Answered
    <3>4. ReadOk(d, next_, o)
      BY <2>4, <2>6, <3>1, <3>2 DEF ReadOk, QueriedOk, SameWork
    <3> QED BY <1>1, <2>6, <3>1, <3>2, <3>3, <3>4 DEF JobOk, Writing, SameWork
  <2>9. CASE next_ = ask(n, Missing(n) \ n.queried)
    <3>1. SameWork(next_, n) /\ next_.phase = "contexts" /\ next_.asking = Missing(n) \ n.queried /\ next_.queried = n.queried \cup (Missing(n) \ n.queried)
      BY <2>1, <2>9 DEF SameWork, Alike, Fields, ask
    <3>2. WriteOk(d, r, next_, o) /\ (j.stale = {} => KnownOk(d, next_, o)) /\ (~owns_target(o) => OldsOk(d, next_, o))
      BY <2>1, <2>3, <3>1, SameWrite
    <3>3. PhaseOk(next_, o)
      BY <2>1, <3>1 DEF PhaseOk, SameWork, Answered, Opened
    <3>4. ReadOk(d, next_, o)
      BY <2>4, <2>6, <3>1, <3>2 DEF ReadOk, QueriedOk, SameWork
    <3> QED BY <1>1, <2>6, <3>1, <3>2, <3>3, <3>4 DEF JobOk, Writing, SameWork
  <2>10. CASE next_ = [n EXCEPT !.phase = "fetch", !.asking = Missing(n), !.rounds = @ + 1] /\ Missing(n) \ n.queried = {}
    <3>1. SameWork(next_, n) /\ next_.phase = "fetch" /\ next_.asking = Missing(n) /\ next_.queried = n.queried
      BY <2>1, <2>10 DEF SameWork, Alike, Fields
    <3>2. WriteOk(d, r, next_, o) /\ (j.stale = {} => KnownOk(d, next_, o)) /\ (~owns_target(o) => OldsOk(d, next_, o))
      BY <2>1, <2>3, <3>1, SameWrite
    <3>3. PhaseOk(next_, o)
      BY <2>1, <2>10, <3>1 DEF PhaseOk, SameWork, Answered
    <3>4. ReadOk(d, next_, o)
      BY <2>4, <2>6, <3>1, <3>2 DEF ReadOk, QueriedOk, SameWork
    <3> QED BY <1>1, <2>6, <3>1, <3>2, <3>3, <3>4 DEF JobOk, Writing, SameWork
  <2> QED BY <2>5, <2>7, <2>8, <2>9, <2>10
<1> QED BY <1>2, <1>3

\* The last version of each key is put (Prepare).
LEMMA Prepares ==
    ASSUME NEW batch, NEW o, NEW known, Inputs(batch, o), ~Refused(Prepare(batch, o))
    PROVE  LET puts == Prepare(batch, o)
           IN  /\ DOMAIN puts \subseteq DOMAIN batch /\ DOMAIN puts \subseteq Nat
               /\ \A i \in DOMAIN puts : PutOk(puts[i], known, o)
               /\ \A i, n \in DOMAIN puts : puts[i].key = puts[n].key => i = n
<1> DEFINE key(i) == key_for(o, batch[i].doc, batch[i].key)
           last == {n \in DOMAIN batch : \A m \in DOMAIN batch : m > n => key(m) # key(n)}
           version(i) == [key |-> key(i), target |-> IF key(i) = NoName THEN None ELSE graph_for(o, key(i)), doc |-> batch[i].doc, conv |-> Unconverted]
           puts == Prepare(batch, o)
<1>1. puts = [i \in last |-> version(i)]
  BY DEF Prepare
<1>2. DOMAIN puts = last /\ last \subseteq DOMAIN batch /\ last \subseteq Nat
  BY <1>1 DEF Inputs
<1>3. ASSUME NEW i \in last PROVE PutOk(puts[i], known, o) /\ puts[i].key = key(i)
  <2>1. puts[i] = version(i) /\ key(i) \in Keys \cup {NoName} /\ DocOk(batch[i].doc) /\ puts[i].target # None
    BY <1>1, <1>2 DEF Inputs, Refused, DocOk
  <2> HIDE DEF puts, key
  <2>2. key(i) # NoName /\ key(i) \in Keys
    BY <2>1
  <2>3. Unconverted.result = "new"
    BY DEF Unconverted
  <2> QED BY <2>1, <2>2, <2>3 DEF PutOk, VersionOk, VersionFields, Results
<1>4. ASSUME NEW i \in last, NEW n \in last, key(i) = key(n) PROVE i = n
  <2>1. ~(i > n) /\ ~(n > i) /\ i \in Nat /\ n \in Nat
    BY <1>2, <1>4
  <2> QED BY <2>1
<1> HIDE DEF puts, last, key
<1>5. \A i \in DOMAIN puts : PutOk(puts[i], known, o)
  BY <1>2, <1>3
<1>6. \A i, n \in DOMAIN puts : puts[i].key = puts[n].key => i = n
  BY <1>2, <1>3, <1>4
<1> QED BY <1>2, <1>5, <1>6 DEF puts

\* A write that begins (WriteJob::new).
LEMMA Starts ==
    ASSUME NEW d, NEW r, NEW kind \in {"put", "remove", "rebuild"}, NEW batch, NEW removes \in SUBSET Keys, NEW o,
           Inputs(batch, o), o.contexts \in Knowns, kind = "rebuild" => removes = {} /\ \A i, n \in DOMAIN batch : i = n
    PROVE  JobOk(d, r, WriteJob(kind, batch, removes, o), o)
<1> DEFINE puts == Prepare(batch, o)
           j == [Idle EXCEPT !.kind = kind, !.puts = puts, !.removes = removes, !.known = o.contexts]
<1>1. CASE Refused(puts)
  BY <1>1, IdleOk DEF WriteJob
<1>2. CASE ~Refused(puts)
  <2>1. WriteJob(kind, batch, removes, o) = start_write(j, o)
    BY <1>2 DEF WriteJob
  <2>2. /\ DOMAIN puts \subseteq DOMAIN batch /\ DOMAIN puts \subseteq Nat /\ \A i \in DOMAIN puts : PutOk(puts[i], o.contexts, o)
        /\ \A i, n \in DOMAIN puts : puts[i].key = puts[n].key => i = n
    BY <1>2, Prepares
  <2> HIDE DEF puts
  <2>3. /\ DOMAIN j = Fields /\ j.kind = kind /\ j.puts = puts /\ j.removes = removes /\ j.known = o.contexts /\ j.old = <<>>
        /\ j.fetched = {} /\ j.queried = {} /\ j.stale = {}
    BY DEF Idle, Fields
  <2> HIDE DEF j
  <2>4. DOMAIN j.old = {}
    BY <2>3
  <2>5. Seen(d, r, j.known, o) /\ \A i \in Opened(o) : j.known[i] = None
    BY <2>3 DEF Seen, Opened
  <2>6. WriteOk(d, r, j, o)
    <3>1. kind = "rebuild" => \A i, n \in DOMAIN puts : i = n
      BY <2>2
    <3> QED BY <2>2, <2>3, <2>4, <2>5, <3>1 DEF WriteOk
  <2>7. KnownOk(d, j, o)
    BY <2>5 DEF KnownOk
  <2>8. CASE ~owns_target(o) /\ all_keys(j) # {}
    <3> DEFINE n == [j EXCEPT !.phase = "read_old"]
    <3>1. start_write(j, o) = n
      BY <2>8 DEF start_write
    <3>2. SameWork(n, j) /\ n.phase = "read_old" /\ n.queried = {}
      BY <2>3 DEF SameWork, Fields
    <3> HIDE DEF n
    <3>3. WriteOk(d, r, n, o) /\ KnownOk(d, n, o)
      BY <2>6, <2>7, <3>2, SameWrite
    <3>4. PhaseOk(n, o) /\ ReadOk(d, n, o)
      BY <2>3, <3>2, <3>3 DEF PhaseOk, ReadOk, QueriedOk, SameWork
    <3> QED BY <2>1, <2>3, <3>1, <3>2, <3>3, <3>4 DEF JobOk, Writing, SameWork
  <2>9. CASE ~(~owns_target(o) /\ all_keys(j) # {})
    <3>1. start_write(j, o) = resolve(j, o)
      BY <2>9 DEF start_write
    <3>2. Answered(d, j, o)
      BY <2>3, <2>7, <2>9 DEF Answered, OldsOk
    <3> QED BY <2>1, <2>3, <2>6, <3>1, <3>2, Resolves
  <2> QED BY <2>8, <2>9
<1> QED BY <1>1, <1>2

\* Keys of a write are keys.
LEMMA WritesHaveKeys ==
    ASSUME NEW d, NEW r, NEW j, NEW o, WriteOk(d, r, j, o)
    PROVE  put_keys(j) \subseteq Keys /\ all_keys(j) \subseteq Keys
<1>1. \A i \in DOMAIN j.puts : j.puts[i].key \in Keys
  BY DEF WriteOk, PutOk, VersionOk
<1>2. put_keys(j) \subseteq Keys
  BY <1>1 DEF put_keys
<1> QED BY <1>2 DEF all_keys, WriteOk

\* The old versions of a job are read at once.
StoredOf(d, j, o) == {k \in all_keys(j) : d.docs[k] # None /\ graph_for(o, k) # None}
OldVersion(d, k, o) == [key |-> k, target |-> graph_for(o, k), doc |-> d.docs[k][1].doc, conv |-> Unconverted]
\* An old version as it is read.
LEMMA OldVersions ==
    ASSUME NEW d, NEW o, NEW known, NEW k \in Stored(d), DocOk(d.docs[k][1].doc)
    PROVE  OldVersion(d, k, o).key = k /\ OldOk(OldVersion(d, k, o), known, o) /\ OldVersion(d, k, o).doc = d.docs[k][1].doc
<1> DEFINE v == OldVersion(d, k, o)
<1>1. /\ DOMAIN v = VersionFields /\ v.key = k /\ v.target = graph_for(o, k) /\ v.doc = d.docs[k][1].doc /\ v.conv.result = "new"
  BY DEF OldVersion, VersionFields, Unconverted
<1> HIDE DEF v
<1>2. VersionOk(v, o)
  BY <1>1 DEF VersionOk, Results, Stored
<1>3. OldOk(v, known, o)
  BY <1>1, <1>2 DEF OldOk
<1> QED BY <1>1, <1>3 DEF v

\* The old versions have been read.
LEMMA ReadsOld ==
    ASSUME NEW d, NEW r, NEW j, NEW o, NEW n, NEW old,
           JobOk(d, r, j, o), j.phase = "read_old", \A k \in Stored(d) : DocOk(d.docs[k][1].doc),
           DOMAIN old = StoredOf(d, j, o), \A k \in DOMAIN old : old[k] = OldVersion(d, k, o),
           DOMAIN n = Fields, n.old = old, n.stale = {}, n.kind = j.kind, n.puts = j.puts, n.removes = j.removes, n.known = j.known,
           n.fetched = j.fetched, n.queried = j.queried
    PROVE  WriteOk(d, r, n, o) /\ Answered(d, n, o)
<1>1. WriteOk(d, r, j, o) /\ PhaseOk(j, o)
  BY DEF JobOk, Checking, Writing
<1>2. j.known = o.contexts /\ j.queried = {}
  BY <1>1 DEF PhaseOk
<1>3. all_keys(n) = all_keys(j)
  BY DEF all_keys, put_keys
<1>4. StoredOf(d, j, o) \subseteq Stored(d) \cap all_keys(j)
  BY <1>1, WritesHaveKeys DEF StoredOf, Stored
<1>5. \A k \in DOMAIN old : old[k].key = k /\ OldOk(old[k], n.known, o) /\ old[k].doc = d.docs[k][1].doc
  <2> TAKE k \in DOMAIN old
  <2>1. k \in Stored(d) /\ old[k] = OldVersion(d, k, o) /\ DocOk(d.docs[k][1].doc)
    BY <1>4
  <2>2. OldVersion(d, k, o).key = k /\ OldOk(OldVersion(d, k, o), n.known, o) /\ OldVersion(d, k, o).doc = d.docs[k][1].doc
    BY <2>1, OldVersions
  <2> QED BY <2>1, <2>2
<1>6. WriteOk(d, r, n, o)
  <2>1. DOMAIN n.old \subseteq all_keys(n) /\ \A k \in DOMAIN n.old : n.old[k].key = k /\ OldOk(n.old[k], n.known, o)
    BY <1>3, <1>4, <1>5
  <2> QED BY <1>1, <2>1 DEF WriteOk
<1>7. KnownOk(d, n, o)
  BY <1>2 DEF KnownOk, Opened
<1>8. OldsOk(d, n, o)
  BY <1>3, <1>5 DEF OldsOk, StoredOf
<1> QED BY <1>2, <1>6, <1>7, <1>8 DEF Answered

\* What was converted stays so when more is known.
LEMMA LearnsPut ==
    ASSUME NEW a \in Knowns, NEW b \in Knowns, NEW o, Grows(a, b, o), NEW v, PutOk(v, a, o)
    PROVE  PutOk(v, b, o)
<1>1. v.conv.result = "done" => Conversion(v, b, o) = Conversion(v, a, o)
  <2> HAVE v.conv.result = "done"
  <2>1. convert(v.doc, v.key, v.target, a, o).result \in Finished /\ DocOk(v.doc)
    BY DEF PutOk, VersionOk, Conversion, Finished
  <2> QED BY <2>1, GrownConversion DEF Conversion
<1> QED BY <1>1 DEF PutOk

\* An old version, when more is known.
LEMMA LearnsOld ==
    ASSUME NEW a \in Knowns, NEW b \in Knowns, NEW o, Grows(a, b, o), NEW v, OldOk(v, a, o)
    PROVE  OldOk(v, b, o)
<1>1. v.conv.result = "done" => Conversion(v, b, o) = Conversion(v, a, o)
  <2> HAVE v.conv.result = "done"
  <2>1. Conversion(v, a, o).result \in Finished /\ DocOk(v.doc)
    BY DEF OldOk, VersionOk, Finished
  <2>2. convert(v.doc, v.key, v.target, a, o).result \in Finished
    BY <2>1 DEF Conversion
  <2> QED BY <2>1, <2>2, GrownConversion DEF Conversion
<1> QED BY <1>1 DEF OldOk

\* The answer to what is asked: texts of contexts, stored or fetched.
LEMMA Learns ==
    ASSUME NEW d, NEW r, NEW j, NEW o, NEW n, NEW known \in Knowns,
           JobOk(d, r, j, o), j.kind # "check", j.phase \in {"contexts", "fetch"},
           \A i \in ContextIris \ j.asking : known[i] = j.known[i],
           ~r => \A i \in j.asking : known[i] \in {None, Canon(d, i)},
           DOMAIN n = Fields, n.known = known, n.old = j.old, n.stale = j.stale, n.kind = j.kind, n.puts = j.puts, n.removes = j.removes,
           n.queried = j.queried, n.fetched \subseteq j.fetched \cup j.asking,
           \A i \in n.fetched \cap j.asking : known[i] = Remote[i] /\ Remote[i] # None,
           \A i \in j.asking : known[i] = d.contexts[i] \/ (known[i] = Remote[i] /\ Remote[i] # None /\ j.phase = "fetch")
    PROVE  WriteOk(d, r, n, o) /\ Answered(d, n, o)
<1>1. /\ WriteOk(d, r, j, o) /\ ReadOk(d, j, o)
      /\ \A i \in j.asking : i \in Opened(o) /\ j.known[i] = None
      /\ j.phase = "fetch" => j.asking \subseteq j.queried
      /\ j.queried \subseteq ContextIris
  BY DEF JobOk, Checking, Writing, PhaseOk
<1>2. Seen(d, r, j.known, o) /\ j.known \in Knowns
  BY <1>1 DEF WriteOk, Seen
<1>3. Opened(o) \subseteq ContextIris /\ \A i \in Opened(o) : ~(o.bundled /\ Bundled[i] # None)
  BY DEF Opened
<1>4. Grows(j.known, known, o)
  BY <1>1, <1>3 DEF Grows, Text
<1>5. Seen(d, r, known, o)
  BY <1>1, <1>2, <1>3 DEF Seen
<1>6. all_keys(n) = all_keys(j)
  BY DEF all_keys, put_keys
<1>7. \A i \in DOMAIN j.puts : PutOk(j.puts[i], known, o)
  BY <1>1, <1>2, <1>4, LearnsPut DEF WriteOk
<1>8. \A k \in DOMAIN j.old : OldOk(j.old[k], known, o)
  BY <1>1, <1>2, <1>4, LearnsOld DEF WriteOk
<1>9. n.fetched \subseteq Opened(o) /\ \A i \in n.fetched : n.known[i] = Remote[i] /\ Remote[i] # None
  <2>1. j.fetched \subseteq Opened(o) /\ \A i \in j.fetched : j.known[i] = Remote[i] /\ Remote[i] # None
    BY <1>1 DEF WriteOk
  <2> QED BY <1>1, <1>3, <2>1
<1>10. WriteOk(d, r, n, o)
  BY <1>1, <1>5, <1>6, <1>7, <1>8, <1>9 DEF WriteOk
<1>11. j.stale = {} => \A i \in j.asking : j.phase = "fetch" => d.contexts[i] = None
  BY <1>1 DEF ReadOk, QueriedOk
<1>12. j.stale = {} => KnownOk(d, n, o)
  BY <1>1, <1>3, <1>11 DEF ReadOk, KnownOk
<1>13. j.stale = {} => \A i \in n.queried : n.known[i] # None \/ d.contexts[i] = None
  <2> SUFFICES ASSUME j.stale = {}, NEW i \in j.queried, n.known[i] = None, d.contexts[i] # None PROVE FALSE
    OBVIOUS
  <2>1. (j.phase = "contexts" /\ i \in j.asking) \/ j.known[i] # None
    BY <1>1 DEF ReadOk, QueriedOk
  <2> QED BY <1>1, <1>11, <2>1
<1>14. ~owns_target(o) => OldsOk(d, n, o)
  BY <1>1, <1>6 DEF ReadOk, OldsOk
<1> QED BY <1>1, <1>10, <1>12, <1>13, <1>14 DEF Answered

-----------------------------------------------------------------------------
(* Pages of keys.                                                          *)

\* Sets of numbers, and so of keys, have a first and a last.
LEMMA LeastNumber ==
    ASSUME NEW S \in SUBSET Nat, S # {}
    PROVE  \E m \in S : \A n \in S : m <= n
<1>1. PICK m \in S : \A n \in S : ~(<<n, m>> \in OpToRel(<, Nat))
  BY NatLessThanWellFounded, WFMin
<1>2. ASSUME NEW n \in S, n < m PROVE FALSE
  <2>1. <<n, m>> \in Nat \X Nat /\ <<n, m>>[1] = n /\ <<n, m>>[2] = m
    OBVIOUS
  <2>2. <<n, m>> \in OpToRel(<, Nat)
    BY <1>2, <2>1 DEF OpToRel
  <2> QED BY <1>1, <2>2
<1>3. ASSUME NEW n \in S PROVE m <= n
  <2>1. m \in Nat /\ n \in Nat
    OBVIOUS
  <2> QED BY <1>2, <2>1
<1> QED BY <1>3

\* The first key of a set.
LEMMA FirstKey ==
    ASSUME NEW S \in SUBSET Keys, S # {}
    PROVE  \E k \in S : \A l \in S : ~Before(l, k)
<1> DEFINE R == {Rank[k] : k \in S}
<1>1. R \in SUBSET Nat /\ R # {}
  BY KeysAssumption
<1>2. PICK m \in R : \A n \in R : m <= n
  BY <1>1, LeastNumber
<1>3. PICK k \in S : Rank[k] = m
  BY <1>2
<1>4. ASSUME NEW l \in S PROVE ~Before(l, k)
  <2>1. Rank[l] \in R /\ Rank[k] \in Nat /\ Rank[l] \in Nat
    BY KeysAssumption
  <2> HIDE DEF R
  <2> QED BY <1>2, <1>3, <2>1 DEF Before
<1> QED BY <1>4

\* The keys of S before and after k.
Earlier(S, k) == {l \in S : Before(l, k)}
Later(S, k) == {l \in S : Before(k, l)}
\* A set of keys is finite.
LEMMA Counted ==
    ASSUME NEW S \in SUBSET Keys
    PROVE  IsFiniteSet(S) /\ Cardinality(S) \in Nat
BY KeysAssumption, FS_Subset, FS_CardinalityType

\* The last key of a set.
LEMMA LastKey ==
    ASSUME NEW S \in SUBSET Keys, S # {}
    PROVE  \E k \in S : \A l \in S : ~Before(k, l)
<1> DEFINE count(k) == Cardinality(Later(S, k))
           R == {count(k) : k \in S}
<1>1. \A k \in S : Later(S, k) \in SUBSET Keys /\ count(k) \in Nat
  BY Counted DEF Later
<1>2. PICK m \in R : \A n \in R : m <= n
  <2>1. R \in SUBSET Nat /\ R # {}
    BY <1>1
  <2> QED BY <2>1, LeastNumber
<1>3. PICK k \in S : m = count(k)
  BY <1>2
<1>4. ASSUME NEW l \in S, Before(k, l) PROVE FALSE
  <2>1. Later(S, l) \in SUBSET Later(S, k) /\ l \in Later(S, k) /\ l \notin Later(S, l)
    BY <1>4, KeysAssumption DEF Later, Before
  <2>2. IsFiniteSet(Later(S, k))
    BY <1>1, Counted
  <2>3. Cardinality(Later(S, l)) <= Cardinality(Later(S, k)) /\ (Cardinality(Later(S, k)) = Cardinality(Later(S, l)) => Later(S, k) = Later(S, l))
    BY <2>1, <2>2, FS_Subset
  <2>4. count(k) <= count(l) /\ count(k) \in Nat /\ count(l) \in Nat
    BY <1>1, <1>2, <1>3
  <2> QED BY <2>1, <2>3, <2>4
<1> QED BY <1>4

\* A key has no more keys before it than a later one.
LEMMA EarlierGrows ==
    ASSUME NEW S \in SUBSET Keys, NEW k \in Keys, NEW l \in Keys, ~Before(l, k)
    PROVE  /\ Earlier(S, k) \in SUBSET Earlier(S, l)
           /\ Cardinality(Earlier(S, k)) \in Nat /\ Cardinality(Earlier(S, l)) \in Nat
           /\ Cardinality(Earlier(S, k)) <= Cardinality(Earlier(S, l))
<1>1. Earlier(S, k) \in SUBSET Earlier(S, l)
  BY KeysAssumption DEF Earlier, Before
<1>2. Earlier(S, l) \in SUBSET Keys /\ Earlier(S, k) \in SUBSET Keys
  BY DEF Earlier
<1>3. /\ IsFiniteSet(Earlier(S, l)) /\ Cardinality(Earlier(S, l)) \in Nat
      /\ Cardinality(Earlier(S, k)) \in Nat
  BY <1>2, Counted
<1> QED BY <1>1, <1>3, FS_Subset

\* A page is the first keys, and full unless it has all of them.
LEMMA Pages ==
    ASSUME NEW more \in SUBSET Keys, NEW page, page = Page(more)
    PROVE  /\ page \in SUBSET more
           /\ PageEnd(page) = NoName => page = more
           /\ PageEnd(page) # NoName => PageEnd(page) \in page /\ page = {k \in more : ~Before(PageEnd(page), k)}
<1>1. page = {k \in more : Cardinality(Earlier(more, k)) < CHECK_PAGE}
  BY DEF Page, Earlier
<1>2. page \in SUBSET more /\ page \in SUBSET Keys /\ CHECK_PAGE \in Nat \ {0} /\ NoName \notin Keys
  BY <1>1, KeysAssumption
<1>3. ASSUME NEW k \in more, NEW l \in page, ~Before(l, k) PROVE k \in page
  <2>1. /\ Cardinality(Earlier(more, k)) \in Nat /\ Cardinality(Earlier(more, l)) \in Nat
        /\ Cardinality(Earlier(more, k)) <= Cardinality(Earlier(more, l))
    BY <1>2, <1>3, EarlierGrows
  <2>2. Cardinality(Earlier(more, l)) < CHECK_PAGE
    BY <1>1
  <2>3. Cardinality(Earlier(more, k)) < CHECK_PAGE
    BY <1>2, <2>1, <2>2
  <2> QED BY <1>1, <2>3
<1>4. CASE Cardinality(page) = CHECK_PAGE
  <2>1. page # {}
    BY <1>2, <1>4, FS_EmptySet
  <2>2. PageEnd(page) \in page /\ \A l \in page : ~Before(PageEnd(page), l)
    BY <1>2, <1>4, <2>1, LastKey DEF PageEnd
  <2> QED BY <1>2, <1>3, <2>2
<1>5. CASE Cardinality(page) # CHECK_PAGE
  <2>1. PageEnd(page) = NoName
    BY <1>5 DEF PageEnd
  <2>2. ASSUME page # more PROVE FALSE
    <3>1. more \ page \in SUBSET Keys /\ more \ page # {}
      BY <1>2, <2>2
    <3>2. PICK k \in more \ page : \A l \in more \ page : ~Before(l, k)
      BY <3>1, FirstKey
    <3>3. Earlier(more, k) \subseteq page
      BY <3>2 DEF Earlier
    <3>4. page \subseteq Earlier(more, k)
      <4> SUFFICES ASSUME NEW l \in page PROVE Before(l, k)
        BY <1>2 DEF Earlier
      <4> QED BY <1>3, <3>2
    <3>5. Cardinality(page) >= CHECK_PAGE
      <4>1. Cardinality(Earlier(more, k)) \in Nat
        BY Counted DEF Earlier
      <4> QED BY <1>1, <1>2, <3>2, <3>3, <3>4, <4>1
    <3>6. page # {}
      BY <1>2, <3>5, FS_EmptySet
    <3>7. PICK e \in page : \A l \in page : ~Before(e, l)
      BY <1>2, <3>6, LastKey
    <3>8. Earlier(more, e) = page \ {e}
      <4>1. Earlier(more, e) \subseteq page \ {e}
        BY <1>2, <1>3, <3>7, KeysAssumption DEF Earlier, Before
      <4>2. page \ {e} \subseteq Earlier(more, e)
        BY <1>2, <3>7, KeysAssumption DEF Earlier, Before
      <4> QED BY <4>1, <4>2
    <3>9. IsFiniteSet(page) /\ Cardinality(page) \in Nat
      BY <1>2, Counted
    <3>10. Cardinality(page \ {e}) = Cardinality(page) - 1
      BY <3>7, <3>9, FS_RemoveElement
    <3>11. Cardinality(page) - 1 < CHECK_PAGE
      BY <1>1, <3>7, <3>8, <3>10
    <3> QED BY <1>2, <1>5, <3>5, <3>9, <3>11
  <2> QED BY <1>2, <2>1, <2>2
<1> QED BY <1>4, <1>5

-----------------------------------------------------------------------------
(* Checks.                                                                 *)

\* What a row of a page tells of its document.
LEMMA RowTells ==
    ASSUME NEW d, NEW k, NEW known, NEW o, NEW row, row = PageRow(d, k, known, o), d.docs[k][1].key = k
    PROVE  /\ row.key = k
           /\ Irreproducible(row) => Bad(d, k, known, o)
           /\ ~Irreproducible(row) /\ ~Asks(row) => ~Bad(d, k, known, o)
           /\ row.conv.result = "done" => (Bad(d, k, known, o) <=> differs(row, row.conv.quads, d.quads))
<1> DEFINE c == Converted(d, k, known, o)
           stored == d.docs[k][1]
<1>1. row.key = k /\ row.owned = Owned(d, k) /\ row.conv = Checked(stored, known, o)
  BY DEF PageRow
<1>2. c.result \in {"missing", "done", "error"} /\ c = convert(stored.doc, stored.key, stored.target, known, o)
  BY Conversions DEF Converted
<1>3. CASE graph_for(o, k) # stored.target
  <2>1. row.conv.result = "irreproducible"
    BY <1>1, <1>3 DEF Checked, Unconverted
  <2> QED BY <1>1, <1>3, <2>1 DEF Irreproducible, Bad
<1>4. CASE graph_for(o, k) = stored.target
  <2>1. row.conv = c
    BY <1>1, <1>2, <1>4 DEF Checked
  <2>2. ~Irreproducible(row)
    BY <1>2, <2>1 DEF Irreproducible
  <2>3. Bad(d, k, known, o) <=> Differs(d, k, c)
    BY <1>4 DEF Bad
  <2> HIDE DEF c, stored
  <2>4. ~Asks(row) => ~Differs(d, k, c)
    BY <1>1, <2>1, <2>2 DEF Asks, Differs
  <2>5. row.conv.result = "done" => (Differs(d, k, c) <=> differs(row, c.quads, d.quads))
    <3>1. (\E g \in row.owned : {q \in d.quads : q[4] = g} # {q \in c.quads : q[4] = g})
             <=> {q \in c.quads : q[4] \in row.owned} # {q \in d.quads : q[4] \in row.owned}
      <4> DEFINE alike(g) == {q \in d.quads : q[4] = g} = {q \in c.quads : q[4] = g}
      <4>1. ASSUME {q \in c.quads : q[4] \in row.owned} = {q \in d.quads : q[4] \in row.owned}, NEW g \in row.owned PROVE alike(g)
        <5>1. \A q : q \in c.quads /\ q[4] \in row.owned <=> q \in d.quads /\ q[4] \in row.owned
          BY <4>1
        <5> QED BY <5>1
      <4>2. ASSUME \A g \in row.owned : alike(g) PROVE {q \in c.quads : q[4] \in row.owned} = {q \in d.quads : q[4] \in row.owned}
        <5>1. \A g \in row.owned : \A q : q \in c.quads /\ q[4] = g <=> q \in d.quads /\ q[4] = g
          BY <4>2
        <5> QED BY <5>1
      <4> QED BY <4>1, <4>2
    <3>2. ASSUME {q \in c.quads : q[4] \in row.owned} = {q \in d.quads : q[4] \in row.owned}
          PROVE  {q \in c.quads : q[4] \notin row.owned} \subseteq d.quads <=> c.quads \subseteq d.quads
      <4>1. \A q : q \in c.quads /\ q[4] \in row.owned <=> q \in d.quads /\ q[4] \in row.owned
        BY <3>2
      <4> QED BY <4>1
    <3> QED BY <1>1, <2>1, <3>1, <3>2 DEF Differs, differs
  <2> QED BY <1>1, <2>1, <2>2, <2>3, <2>4, <2>5
<1> QED BY <1>3, <1>4

\* The next document of the page.
NextShape(n, j) ==
    n = Idle \/ /\ DOMAIN n = Fields /\ n.kind = j.kind /\ n.known = j.known /\ n.stale = j.stale /\ n.after = j.after
                /\ n.phase \in {"page", "done", "quads"} /\ (n.phase = "page" => j.after # NoName) /\ (n.phase = "done" => j.after = NoName)
\* What next changes.
LEMMA NextHasShape ==
    ASSUME NEW j, DOMAIN j = Fields
    PROVE  NextShape(next(j), j)
<1> DEFINE asking == {row \in j.queue : Asks(row)}
           first == CHOOSE row \in asking : \A x \in asking : ~Before(x.key, row.key)
           rest == IF asking = {} THEN {} ELSE {row \in j.queue : Before(first.key, row.key)}
           passed == {row \in j.queue \ rest : Irreproducible(row)}
           drifts == j.drifts \cup {row.key : row \in passed}
           n == [j EXCEPT !.drifts = drifts, !.queue = rest]
<1> HIDE DEF asking, first, rest, drifts
<1>1. /\ DOMAIN n = Fields /\ n.kind = j.kind /\ n.known = j.known /\ n.stale = j.stale /\ n.after = j.after
  BY DEF Fields
<1> HIDE DEF n
<1> DEFINE phase == IF j.after # NoName THEN "page" ELSE "done"
           a == [n EXCEPT !.phase = phase]
           b == [n EXCEPT !.phase = "quads", !.current = <<first>>]
<1>2. phase \in {"page", "done"} /\ (phase = "page" => j.after # NoName) /\ (phase = "done" => j.after = NoName)
  OBVIOUS
<1> HIDE DEF phase
<1>3. NextShape(a, j)
  <2>1. DOMAIN a = Fields /\ a.kind = n.kind /\ a.known = n.known /\ a.stale = n.stale /\ a.after = n.after /\ a.phase = phase
    BY <1>1 DEF Fields
  <2> HIDE DEF a
  <2> QED BY <1>1, <1>2, <2>1 DEF NextShape
<1>4. NextShape(b, j)
  <2>1. DOMAIN b = Fields /\ b.kind = n.kind /\ b.known = n.known /\ b.stale = n.stale /\ b.after = n.after /\ b.phase = "quads"
    BY <1>1 DEF Fields
  <2> HIDE DEF b
  <2> QED BY <1>1, <2>1 DEF NextShape
<1> HIDE DEF a, b
<1>5. next(j) \in {Idle, a, b}
  <2>1. next(j) = IF asking = {} THEN a ELSE IF first.conv.result # "done" THEN Idle ELSE b
    BY <1>1 DEF next, a, b, phase, n, drifts, rest, asking, first
  <2> QED BY <2>1
<1>6. NextShape(Idle, j)
  BY DEF NextShape
<1> QED BY <1>3, <1>4, <1>5, <1>6

\* The documents before the current one have been compared (next).
LEMMA NextCompares ==
    ASSUME NEW d, NEW o, NEW j, DOMAIN j = Fields, \A k \in Stored(d) : d.docs[k][1].key = k,
           RowsOk(d, j.queue, j.known, o, j.after), j.drifts = Compared(d, Scope(d, j.after) \ RowKeys(j.queue), j.known, o)
    PROVE  LET n == next(j)
           IN  \/ n = Idle
               \/ n.phase \in {"page", "done"} /\ n.drifts = Compared(d, Scope(d, j.after), j.known, o)
               \/ n.phase = "quads" /\ QuadsOk(d, n, o)
<1> DEFINE asking == {row \in j.queue : Asks(row)}
           first == CHOOSE row \in asking : \A x \in asking : ~Before(x.key, row.key)
           rest == IF asking = {} THEN {} ELSE {row \in j.queue : Before(first.key, row.key)}
           passed == {row \in j.queue \ rest : Irreproducible(row)}
           drifts == j.drifts \cup {row.key : row \in passed}
           n == [j EXCEPT !.drifts = drifts, !.queue = rest]
           bad(k) == Bad(d, k, j.known, o)
<1>1. next(j) = IF asking = {} THEN [n EXCEPT !.phase = IF j.after # NoName THEN "page" ELSE "done"]
                ELSE IF first.conv.result # "done" THEN Idle ELSE [n EXCEPT !.phase = "quads", !.current = <<first>>]
  <2> HIDE DEF asking, first, rest, drifts
  <2>1. n.after = j.after
    BY DEF Fields
  <2> QED BY <2>1 DEF next, n, drifts, rest, asking, first
<1>2. \A row \in j.queue : /\ row.key \in Scope(d, j.after) /\ row.key \in Keys /\ row = PageRow(d, row.key, j.known, o)
                           /\ Irreproducible(row) => bad(row.key)
                           /\ ~Irreproducible(row) /\ ~Asks(row) => ~bad(row.key)
  <2> TAKE row \in j.queue
  <2>1. row = PageRow(d, row.key, j.known, o) /\ row.key \in Scope(d, j.after)
    BY DEF RowsOk
  <2>2. row.key \in Keys /\ d.docs[row.key][1].key = row.key
    BY <2>1 DEF Scope, Stored
  <2> QED BY <2>1, <2>2, RowTells
<1>3. \A row, x \in j.queue : row.key = x.key => row = x
  BY <1>2
<1>4. drifts = j.drifts \cup {row.key : row \in passed} /\ j.drifts = {k \in Scope(d, j.after) \ RowKeys(j.queue) : bad(k)}
  BY DEF Compared
<1>5. CASE asking = {}
  <2>1. rest = {} /\ \A row \in j.queue : ~Asks(row)
    BY <1>5
  <2> HIDE DEF asking, first, rest
  <2>2. \A row \in j.queue : row \in passed <=> bad(row.key)
    BY <1>2, <2>1
  <2> HIDE DEF passed, bad, drifts
  <2>3. drifts = {k \in Scope(d, j.after) : bad(k)}
    BY <1>2, <1>4, <2>1, <2>2 DEF RowKeys, passed
  <2> DEFINE phase == IF j.after # NoName THEN "page" ELSE "done"
             m == [n EXCEPT !.phase = phase]
  <2>4. phase \in {"page", "done"}
    OBVIOUS
  <2> HIDE DEF phase
  <2>5. m.phase = phase /\ m.drifts = drifts
    BY DEF Fields
  <2> HIDE DEF m
  <2>6. next(j) = m
    BY <1>1, <1>5 DEF m, phase
  <2> QED BY <2>3, <2>4, <2>5, <2>6 DEF Compared, bad
<1>6. CASE asking # {} /\ first.conv.result # "done"
  BY <1>1, <1>6
<1>7. CASE asking # {} /\ first.conv.result = "done"
  <2> DEFINE keys == {row.key : row \in asking}
  <2>1. keys \in SUBSET Keys /\ keys # {}
    BY <1>2, <1>7
  <2>2. PICK least \in keys : \A l \in keys : ~Before(l, least)
    BY <2>1, FirstKey
  <2>3. \E row \in asking : \A x \in asking : ~Before(x.key, row.key)
    BY <2>2
  <2>4. first \in asking /\ \A x \in asking : ~Before(x.key, first.key)
    BY <2>3
  <2>5. rest = {row \in j.queue : Before(first.key, row.key)}
    BY <1>7
  <2>6. first \in j.queue /\ Asks(first) /\ \A x \in j.queue : Asks(x) => ~Before(x.key, first.key)
    BY <2>4
  <2> HIDE DEF asking, first, rest
  <2>7. \A x \in j.queue : x \notin rest => x = first \/ ~Asks(x)
    <3> SUFFICES ASSUME NEW x \in j.queue, x \notin rest, Asks(x) PROVE x = first
      OBVIOUS
    <3>1. ~Before(first.key, x.key) /\ ~Before(x.key, first.key) /\ x.key \in Keys /\ first.key \in Keys
      BY <1>2, <2>5, <2>6
    <3>2. x.key = first.key
      BY <3>1, KeysAssumption DEF Before
    <3> QED BY <1>3, <2>6, <3>2
  <2>8. rest \subseteq j.queue /\ first \notin rest /\ first.key \notin RowKeys(rest)
    <3>1. ~Before(first.key, first.key)
      BY <1>2, <2>6, KeysAssumption DEF Before
    <3>2. first \notin rest /\ rest \subseteq j.queue
      BY <2>5, <3>1
    <3> QED BY <1>3, <2>6, <3>2 DEF RowKeys
  <2>9. \A x \in j.queue : x \notin rest /\ x # first => (x \in passed <=> bad(x.key))
    BY <1>2, <2>7
  <2>10. first \notin passed
    BY <2>6 DEF Asks
  <2>11. RowKeys(rest \cup {first}) = RowKeys(rest) \cup {first.key} /\ RowKeys(rest \cup {first}) \subseteq RowKeys(j.queue)
    BY <2>6, <2>8 DEF RowKeys
  <2>12. passed \subseteq j.queue \ rest
    OBVIOUS
  <2> HIDE DEF passed, bad, drifts
  <2>13. drifts = {k \in Scope(d, j.after) \ RowKeys(rest \cup {first}) : bad(k)}
    <3>1. ASSUME NEW k \in drifts PROVE k \in Scope(d, j.after) \ RowKeys(rest \cup {first}) /\ bad(k)
      <4>1. CASE k \in j.drifts
        BY <1>4, <2>11, <4>1
      <4>2. CASE \E x \in passed : k = x.key
        <5>1. PICK x \in passed : k = x.key
          BY <4>2
        <5>2. x \in j.queue /\ x \notin rest /\ x # first
          BY <2>10, <2>12
        <5>3. bad(k) /\ k \in Scope(d, j.after)
          BY <1>2, <2>9, <5>1, <5>2
        <5>4. k \notin RowKeys(rest) /\ k # first.key
          BY <1>3, <2>6, <2>8, <5>1, <5>2 DEF RowKeys
        <5> QED BY <2>11, <5>3, <5>4
      <4> QED BY <1>4, <3>1, <4>1, <4>2
    <3>2. ASSUME NEW k \in Scope(d, j.after) \ RowKeys(rest \cup {first}), bad(k) PROVE k \in drifts
      <4>1. CASE k \notin RowKeys(j.queue)
        BY <1>4, <3>2, <4>1
      <4>2. CASE k \in RowKeys(j.queue)
        <5>1. PICK x \in j.queue : k = x.key
          BY <4>2 DEF RowKeys
        <5>2. x \notin rest /\ x # first
          BY <2>11, <5>1 DEF RowKeys
        <5> QED BY <1>4, <2>9, <3>2, <5>1, <5>2
      <4> QED BY <4>1, <4>2
    <3> QED BY <3>1, <3>2
  <2> DEFINE m == [n EXCEPT !.phase = "quads", !.current = <<first>>]
  <2>14. m.phase = "quads" /\ m.current[1] = first /\ m.queue = rest /\ m.drifts = drifts /\ m.known = j.known /\ m.after = j.after
    BY DEF Fields
  <2> HIDE DEF m
  <2>15. next(j) = m
    BY <1>1, <1>7 DEF m
  <2>16. RowsOk(d, rest \cup {first}, j.known, o, j.after)
    BY <2>6, <2>8 DEF RowsOk
  <2>17. QuadsOk(d, m, o)
    BY <1>7, <2>8, <2>13, <2>14, <2>16 DEF QuadsOk, Compared, bad
  <2> QED BY <2>14, <2>15, <2>17
<1> QED BY <1>5, <1>6, <1>7

\* A check that goes on is one, and one that is done has compared every
\* document.
LEMMA NextOk ==
    ASSUME NEW d, NEW r, NEW o, NEW j, DOMAIN j = Fields, j.kind = "check", j.after \in Keys \cup {NoName},
           \A k \in Stored(d) : d.docs[k][1].key = k,
           j.stale = {} => /\ j.known = CheckKnows(d, o) /\ RowsOk(d, j.queue, j.known, o, j.after)
                           /\ j.drifts = Compared(d, Scope(d, j.after) \ RowKeys(j.queue), j.known, o),
           NEW n, n = next(j)
    PROVE  /\ n.phase = "done" \/ JobOk(d, r, n, o)
           /\ n.phase = "done" /\ n.stale = {} => n.drifts = Compared(d, Stored(d), n.known, o) /\ n.known = CheckKnows(d, o)
<1>1. NextShape(n, j)
  BY NextHasShape
<1>2. j.stale = {} => \/ n = Idle
                      \/ n.phase \in {"page", "done"} /\ n.drifts = Compared(d, Scope(d, j.after), j.known, o)
                      \/ n.phase = "quads" /\ QuadsOk(d, n, o)
  BY NextCompares
<1>3. Idle.phase = "idle"
  BY DEF Idle
<1>4. CASE n = Idle
  BY <1>3, <1>4, IdleOk
<1>5. CASE n # Idle
  <2>1. /\ DOMAIN n = Fields /\ n.kind = "check" /\ n.known = j.known /\ n.stale = j.stale /\ n.after = j.after
        /\ n.phase \in {"page", "done", "quads"} /\ (n.phase = "page" => j.after # NoName) /\ (n.phase = "done" => j.after = NoName)
    BY <1>1, <1>5 DEF NextShape
  <2>2. n.phase = "done" /\ n.stale = {} => n.drifts = Compared(d, Stored(d), n.known, o) /\ n.known = CheckKnows(d, o)
    <3>1. Scope(d, NoName) = Stored(d)
      BY DEF Scope
    <3> QED BY <1>2, <1>5, <2>1, <3>1
  <2>3. n.phase # "done" => CheckOk(d, n, o)
    BY <1>2, <1>5, <2>1 DEF CheckOk, PageOk
  <2> QED BY <2>1, <2>2, <2>3 DEF JobOk, Checking
<1> QED BY <1>4, <1>5

\* A job that reads a page, and one that compares the quads of a document.
Turned(d, j, o) ==
    LET page == Page(More(d, j.after))
    IN  [j EXCEPT !.queue = {PageRow(d, k, j.known, o) : k \in page}, !.after = PageEnd(page)]
\* A page is read after the documents up to the last of the page before.
LEMMA PageIsRead ==
    ASSUME NEW d, NEW r, NEW o, NEW j, JobOk(d, r, j, o), j.phase = "page", \A k \in Stored(d) : d.docs[k][1].key = k,
           NEW m, m = Turned(d, j, o)
    PROVE  /\ DOMAIN m = Fields /\ m.kind = "check" /\ m.after \in Keys \cup {NoName}
           /\ m.stale = {} => /\ m.known = CheckKnows(d, o) /\ RowsOk(d, m.queue, m.known, o, m.after)
                              /\ m.drifts = Compared(d, Scope(d, m.after) \ RowKeys(m.queue), m.known, o)
<1> DEFINE more == More(d, j.after)
           page == Page(more)
           queue == {PageRow(d, k, j.known, o) : k \in page}
           end == PageEnd(page)
<1>0. page = Page(more) /\ m = [j EXCEPT !.queue = queue, !.after = end]
  BY DEF Turned
<1> HIDE DEF page
<1>1. DOMAIN j = Fields /\ j.kind = "check" /\ CheckOk(d, j, o)
  BY DEF JobOk, Writing, Checking
<1>2. /\ more \in SUBSET Stored(d) /\ Stored(d) \in SUBSET Keys /\ NoName \notin Keys
  BY KeysAssumption DEF More, Stored
<1>3. /\ page \in SUBSET more /\ (end = NoName => page = more) /\ (end # NoName => end \in page /\ page = {k \in more : ~Before(end, k)})
  BY <1>0, <1>2, Pages
<1> HIDE DEF queue, end
<1>4. DOMAIN m = Fields /\ m.kind = "check" /\ m.queue = queue /\ m.after = end /\ m.stale = j.stale /\ m.known = j.known /\ m.drifts = j.drifts
  BY <1>0, <1>1 DEF Fields
<1>5. end \in Keys \cup {NoName}
  BY <1>2, <1>3
<1>6. j.after \in Keys \cup {NoName} /\ (j.stale = {} => j.known = CheckKnows(d, o) /\ PageOk(d, j, o))
  BY <1>1 DEF CheckOk
<1>7. \A k \in page : PageRow(d, k, j.known, o).key = k
  BY DEF PageRow
<1>8. RowKeys(queue) = page
  BY <1>7 DEF RowKeys, queue
<1>9. page \subseteq Scope(d, end)
  BY <1>2, <1>3 DEF Scope
<1>10. RowsOk(d, queue, j.known, o, end)
  BY <1>7, <1>9 DEF RowsOk, queue
<1>11. Scope(d, end) \ page = IF j.after = NoName THEN {} ELSE Scope(d, j.after)
  <2>1. more = {k \in Stored(d) : j.after = NoName \/ Before(j.after, k)}
    BY DEF More
  <2> HIDE DEF more
  <2>2. CASE j.after = NoName
    BY <1>3, <2>1, <2>2 DEF Scope
  <2>3. CASE j.after # NoName /\ end = NoName
    BY <1>3, <2>1, <2>3 DEF Scope
  <2>4. CASE j.after # NoName /\ end # NoName
    <3>1. Before(j.after, end) /\ j.after \in Keys /\ end \in Keys
      BY <1>2, <1>3, <1>6, <2>1, <2>4
    <3>2. \A k \in Stored(d) : ~Before(j.after, k) => ~Before(end, k)
      BY <1>2, <3>1, KeysAssumption DEF Before
    <3> QED BY <1>3, <2>1, <2>4, <3>2 DEF Scope
  <2> QED BY <2>2, <2>3, <2>4
<1> QED BY <1>4, <1>5, <1>6, <1>8, <1>10, <1>11 DEF PageOk

Noted(d, j) ==
    LET row == j.current[1]
    IN  [j EXCEPT !.current = None, !.drifts = @ \cup (IF differs(row, row.conv.quads, d.quads) THEN {row.key} ELSE {})]
\* The quads of the current document are read and compared.
LEMMA QuadsAreRead ==
    ASSUME NEW d, NEW r, NEW o, NEW j, JobOk(d, r, j, o), j.phase = "quads", \A k \in Stored(d) : d.docs[k][1].key = k,
           NEW m, m = Noted(d, j)
    PROVE  /\ DOMAIN m = Fields /\ m.kind = "check" /\ m.after \in Keys \cup {NoName}
           /\ m.stale = {} => /\ m.known = CheckKnows(d, o) /\ RowsOk(d, m.queue, m.known, o, m.after)
                              /\ m.drifts = Compared(d, Scope(d, m.after) \ RowKeys(m.queue), m.known, o)
<1> DEFINE row == j.current[1]
           bad == differs(row, row.conv.quads, d.quads)
           added == IF bad THEN {row.key} ELSE {}
           drifts == j.drifts \cup added
<1>1. DOMAIN j = Fields /\ j.kind = "check" /\ CheckOk(d, j, o)
  BY DEF JobOk, Writing, Checking
<1>2. m = [j EXCEPT !.current = None, !.drifts = drifts]
  BY DEF Noted
<1> HIDE DEF drifts, bad, row
<1>3. DOMAIN m = Fields /\ m.kind = "check" /\ m.queue = j.queue /\ m.after = j.after /\ m.stale = j.stale /\ m.known = j.known /\ m.drifts = drifts
  BY <1>1, <1>2 DEF Fields
<1>4. j.after \in Keys \cup {NoName} /\ (j.stale = {} => j.known = CheckKnows(d, o) /\ QuadsOk(d, j, o))
  BY <1>1 DEF CheckOk
<1>5. ASSUME j.stale = {} PROVE RowsOk(d, j.queue, j.known, o, j.after) /\ drifts = Compared(d, Scope(d, j.after) \ RowKeys(j.queue), j.known, o)
  <2>1. /\ RowsOk(d, j.queue \cup {row}, j.known, o, j.after) /\ row.conv.result = "done" /\ row.key \notin RowKeys(j.queue)
        /\ j.drifts = Compared(d, Scope(d, j.after) \ RowKeys(j.queue \cup {row}), j.known, o)
    BY <1>4, <1>5 DEF QuadsOk, row
  <2>2. row = PageRow(d, row.key, j.known, o) /\ row.key \in Scope(d, j.after) /\ RowsOk(d, j.queue, j.known, o, j.after)
    BY <2>1 DEF RowsOk
  <2>3. d.docs[row.key][1].key = row.key
    BY <2>2 DEF Scope
  <2>4. Bad(d, row.key, j.known, o) <=> bad
    BY <2>1, <2>2, <2>3, RowTells DEF bad
  <2>5. RowKeys(j.queue \cup {row}) = RowKeys(j.queue) \cup {row.key}
    BY DEF RowKeys
  <2>6. drifts = Compared(d, Scope(d, j.after) \ RowKeys(j.queue), j.known, o)
    BY <2>1, <2>2, <2>4, <2>5 DEF Compared, drifts
  <2> QED BY <2>2, <2>6
<1> QED BY <1>3, <1>4, <1>5

-----------------------------------------------------------------------------
(* What a commit means for the other jobs, and for the other documents.    *)

Steady(d, e, r, s) == ~s => ~r /\ \A i \in ContextIris : Canon(d, i) \in {None, Canon(e, i)}
\* What jobs know stays what is in use.
LEMMA SeenStays ==
    ASSUME NEW d, NEW e, NEW r, NEW s, Steady(d, e, r, s), NEW known, NEW o, Seen(d, r, known, o)
    PROVE  Seen(e, s, known, o)
<1>1. ASSUME ~s, NEW i \in Opened(o) PROVE known[i] \in {None, Canon(e, i)}
  BY <1>1 DEF Steady, Seen, Opened
<1> QED BY <1>1 DEF Seen

\* A row that is not written stays what it was.
LEMMA RowStays ==
    ASSUME NEW d, NEW e, NEW r, NEW s, Steady(d, e, r, s), NEW f, NEW quads, NEW k, RowOk(d, r, f, quads, k), e.docs[k] = d.docs[k]
    PROVE  RowOk(e, s, f, quads, k)
<1>1. PICK h \in Handles, known \in Knowns : Made(d, r, quads, k, known, f[h])
  BY DEF RowOk
<1>2. Seen(e, s, known, f[h])
  BY <1>1, SeenStays DEF Made
<1>3. Converted(e, k, known, f[h]) = Converted(d, k, known, f[h])
  BY DEF Converted
<1>4. Made(e, s, quads, k, known, f[h])
  BY <1>1, <1>2, <1>3 DEF Made
<1> QED BY <1>4 DEF RowOk

\* A job notices what was changed.
LEMMA Noticed ==
    ASSUME NEW d, NEW e, NEW r, NEW s, Steady(d, e, r, s), NEW changed, \A k \in Keys \ changed : e.docs[k] = d.docs[k],
           changed = {} => e = d, NEW j, NEW o, JobOk(d, r, j, o), NEW n, n = [j EXCEPT !.stale = @ \cup changed]
    PROVE  JobOk(e, s, n, o)
<1> DEFINE stale == j.stale \cup changed
<1>1. n = [j EXCEPT !.stale = stale] /\ DOMAIN j = Fields
  BY DEF JobOk
<1> HIDE DEF stale
<1>2. /\ DOMAIN n = Fields /\ n.kind = j.kind /\ n.phase = j.phase /\ n.puts = j.puts /\ n.removes = j.removes /\ n.old = j.old
      /\ n.known = j.known /\ n.fetched = j.fetched /\ n.asking = j.asking /\ n.queried = j.queried /\ n.stale = stale
      /\ n.key = j.key /\ n.after = j.after /\ n.queue = j.queue /\ n.current = j.current /\ n.drifts = j.drifts
  BY <1>1 DEF Fields
<1>3. stale = {} => j.stale = {} /\ e = d
  BY DEF stale
<1>4. CASE j.phase = "idle"
  BY <1>2, <1>4 DEF JobOk
<1>5. CASE j.phase = "read_row" /\ j.key \in Keys
  BY <1>2, <1>5 DEF JobOk
<1>6. CASE Writing(j) /\ WriteOk(d, r, j, o) /\ PhaseOk(j, o) /\ ReadOk(d, j, o)
  <2>1. all_keys(n) = all_keys(j) /\ all_keys(j) \subseteq Keys
    BY <1>2, <1>6, WritesHaveKeys DEF all_keys, put_keys
  <2>2. Seen(e, s, n.known, o)
    BY <1>2, <1>6, SeenStays DEF WriteOk
  <2>3. WriteOk(e, s, n, o)
    BY <1>2, <1>6, <2>1, <2>2 DEF WriteOk
  <2>4. PhaseOk(n, o)
    BY <1>2, <1>6 DEF PhaseOk
  <2>5. n.stale = {} => KnownOk(e, n, o) /\ QueriedOk(e, n)
    BY <1>2, <1>3, <1>6 DEF ReadOk, KnownOk, QueriedOk
  <2>6. OldsOk(d, j, o) => OldsOk(e, n, o)
    <3>1. \A k \in all_keys(n) \ n.stale : k \in all_keys(j) \ j.stale /\ e.docs[k] = d.docs[k]
      BY <1>2, <2>1 DEF stale
    <3> QED BY <1>2, <3>1 DEF OldsOk
  <2>7. ReadOk(e, n, o)
    BY <1>2, <1>6, <2>5, <2>6 DEF ReadOk
  <2>8. Writing(n)
    BY <1>2, <1>6 DEF Writing
  <2> QED BY <1>2, <2>3, <2>4, <2>7, <2>8 DEF JobOk
<1>7. CASE Checking(j) /\ CheckOk(d, j, o)
  <2>1. Checking(n)
    BY <1>2, <1>7 DEF Checking
  <2>2. n.stale = {} => j.stale = {} /\ e = d
    BY <1>2, <1>3
  <2>3. PageOk(d, n, o) <=> PageOk(d, j, o)
    BY <1>2 DEF PageOk
  <2>4. QuadsOk(d, n, o) <=> QuadsOk(d, j, o)
    BY <1>2 DEF QuadsOk
  <2>5. CheckOk(e, n, o)
    BY <1>2, <1>7, <2>2, <2>3, <2>4 DEF CheckOk
  <2> QED BY <1>2, <2>1, <2>5 DEF JobOk
<1> QED BY <1>4, <1>5, <1>6, <1>7 DEF JobOk

\* The jobs of the other handles.
LEMMA OthersAreNoticed ==
    ASSUME NEW d, NEW e, NEW r, NEW s, Steady(d, e, r, s), NEW changed, \A k \in Keys \ changed : e.docs[k] = d.docs[k],
           changed = {} => e = d, NEW j, NEW o, JobOk(d, r, j, o)
    PROVE  JobOk(e, s, IF j.phase = "idle" THEN j ELSE [j EXCEPT !.stale = @ \cup changed], o)
<1>1. CASE j.phase = "idle"
  BY <1>1 DEF JobOk
<1>2. CASE j.phase # "idle"
  <2> DEFINE n == [j EXCEPT !.stale = @ \cup changed]
  <2>1. n = [j EXCEPT !.stale = @ \cup changed]
    OBVIOUS
  <2> HIDE DEF n
  <2>2. JobOk(e, s, n, o)
    BY <2>1, Noticed
  <2> QED BY <1>2, <2>2 DEF n
<1> QED BY <1>1, <1>2

-----------------------------------------------------------------------------
(* What a write leaves in the tables.                                      *)

\* What can be claimed is claimed, by the first that can claim it.
LEMMA Claims ==
    ASSUME NEW j, NEW o, DOMAIN j.puts \subseteq Nat
    PROVE  /\ \A i \in DOMAIN j.puts : Claimable(j.puts[i], o) \subseteq claimed(j, o)
           /\ \A g \in claimed(j, o) :
                  LET c == CHOOSE x \in claims(j, o) : x[2] = g
                  IN  c \in claims(j, o) /\ c[2] = g /\ \E i \in DOMAIN j.puts : j.puts[i].key = c[1] /\ g \in Claimable(j.puts[i], o)
<1>1. ASSUME NEW i \in DOMAIN j.puts, NEW g \in Claimable(j.puts[i], o) PROVE g \in claimed(j, o)
  <2> DEFINE S == {n \in DOMAIN j.puts : g \in Claimable(j.puts[n], o)}
  <2>1. S \in SUBSET Nat /\ S # {}
    BY <1>1
  <2>2. PICK n \in S : \A m \in S : n <= m
    BY <2>1, LeastNumber
  <2>3. \A m \in DOMAIN j.puts : m < n => g \notin Claimable(j.puts[m], o)
    <3> SUFFICES ASSUME NEW m \in S, m < n PROVE FALSE
      OBVIOUS
    <3>1. n <= m /\ m \in Nat /\ n \in Nat
      BY <2>1, <2>2
    <3> QED BY <3>1
  <2> DEFINE c == <<j.puts[n].key, g>>
  <2>4. c[1] = j.puts[n].key /\ c[2] = g /\ n \in DOMAIN j.puts /\ g \in Claimable(j.puts[n], o)
    OBVIOUS
  <2>5. c \in put_keys(j) \X UNION {Claimable(j.puts[m], o) : m \in DOMAIN j.puts}
    BY DEF put_keys
  <2> HIDE DEF c, S
  <2>6. c \in claims(j, o)
    BY <2>3, <2>4, <2>5 DEF claims
  <2> QED BY <2>4, <2>6 DEF claimed
<1>2. ASSUME NEW g \in claimed(j, o)
      PROVE  LET c == CHOOSE x \in claims(j, o) : x[2] = g
             IN  c \in claims(j, o) /\ c[2] = g /\ \E i \in DOMAIN j.puts : j.puts[i].key = c[1] /\ g \in Claimable(j.puts[i], o)
  <2> DEFINE c == CHOOSE x \in claims(j, o) : x[2] = g
  <2>1. \E x \in claims(j, o) : x[2] = g
    BY DEF claimed
  <2>2. c \in claims(j, o) /\ c[2] = g
    BY <2>1
  <2> HIDE DEF c
  <2>3. \E i \in DOMAIN j.puts : c[1] = j.puts[i].key /\ c[2] \in Claimable(j.puts[i], o)
    BY <2>2 DEF claims
  <2> QED BY <2>2, <2>3 DEF c
<1> QED BY <1>1, <1>2

\* The row and the quads of what is put.
NewMade(j, k) == UNION {j.puts[i].conv.quads : i \in {n \in DOMAIN j.puts : j.puts[n].key = k}}
\* One version of a key is put, so they are its own.
LEMMA PutRows ==
    ASSUME NEW j, \A i, n \in DOMAIN j.puts : j.puts[i].key = j.puts[n].key => i = n, NEW i \in DOMAIN j.puts
    PROVE  LET p == j.puts[i]
           IN  Row(j, p.key) = [key |-> p.key, doc |-> p.doc, target |-> p.target] /\ NewMade(j, p.key) = p.conv.quads
<1> DEFINE k == j.puts[i].key
<1>1. (CHOOSE n \in DOMAIN j.puts : j.puts[n].key = k) = i
  OBVIOUS
<1>2. {n \in DOMAIN j.puts : j.puts[n].key = k} = {i}
  OBVIOUS
<1>3. NewMade(j, k) = UNION {j.puts[n].conv.quads : n \in {i}}
  BY <1>2 DEF NewMade
<1>4. UNION {j.puts[n].conv.quads : n \in {i}} = j.puts[i].conv.quads
  OBVIOUS
<1> QED BY <1>1, <1>3, <1>4 DEF Row

\* A predicate of the tables that a write leaves.
Wrote(d, e, j, o) ==
    /\ e.quads = ({q \in d.quads : q[4] \notin Gone(d, j)} \ old_ids(j)) \cup put_quads(j)
    /\ DOMAIN e.owned = (DOMAIN d.owned \ Gone(d, j)) \cup claimed(j, o)
    /\ \A g \in DOMAIN d.owned \ Gone(d, j) : e.owned[g] = d.owned[g] /\ d.owned[g] \notin all_keys(j) /\ g \notin claimed(j, o)
    /\ \A g \in claimed(j, o) : \E i \in DOMAIN j.puts : e.owned[g] = j.puts[i].key /\ g \in Claimable(j.puts[i], o)
    /\ \A g \in Gone(d, j) : g \in DOMAIN d.owned /\ d.owned[g] \in all_keys(j)
    /\ \A k \in Keys \ all_keys(j) : e.docs[k] = d.docs[k]
    /\ \A k \in put_keys(j) : e.docs[k] = <<Row(j, k)>>
    /\ Stored(e) = (Stored(d) \ all_keys(j)) \cup put_keys(j)
    /\ \A i \in ContextIris : e.contexts[i] = IF i \in j.fetched THEN j.known[i] ELSE d.contexts[i]

\* The tables after a write that no other document's graph fails.
LEMMA Writes ==
    ASSUME NEW d, NEW r \in BOOLEAN, NEW j, NEW o, TablesOk(d, r), WriteOk(d, r, j, o), ~GraphOwned(d, j, o), NEW e, e = written(d, j, o)
    PROVE  Wrote(d, e, j, o) /\ TablesOk(e, r) /\ Steady(d, e, r, r)
<1> DEFINE gone == Gone(d, j)
           kept == DOMAIN d.owned \ gone
           graphs == {q[4] : q \in put_quads(j)} \cup claimed(j, o)
           owner(g) == (CHOOSE c \in claims(j, o) : c[2] = g)[1]
           owned == [g \in kept \cup claimed(j, o) |-> IF g \in kept THEN d.owned[g] ELSE owner(g)]
           docs == [k \in Keys |-> IF k \in put_keys(j) THEN <<Row(j, k)>> ELSE IF k \in j.removes THEN None ELSE d.docs[k]]
           contexts == [i \in ContextIris |-> IF i \in j.fetched THEN j.known[i] ELSE d.contexts[i]]
           quads == ({q \in d.quads : q[4] \notin gone} \ old_ids(j)) \cup put_quads(j)
<1>1. /\ e = [quads |-> quads, graphs |-> (d.graphs \ gone) \cup (graphs \ {Default}), terms |-> d.terms \cup graphs, owned |-> owned,
              docs |-> docs, contexts |-> contexts]
  BY DEF written
<1>2. e = [quads |-> e.quads, graphs |-> e.graphs, terms |-> e.terms, owned |-> e.owned, docs |-> e.docs, contexts |-> e.contexts]
      /\ e.quads = quads /\ e.owned = owned /\ e.docs = docs /\ e.contexts = contexts
  BY <1>1
<1>3. put_keys(j) \subseteq Keys /\ all_keys(j) \subseteq Keys
  BY WritesHaveKeys
<1>4. \A g \in gone : g \in DOMAIN d.owned /\ d.owned[g] \in all_keys(j)
  BY DEF Gone, Owned
<1>5. \A g \in kept : d.owned[g] \notin all_keys(j)
  BY DEF Gone, Owned
<1>6. \A g \in kept : g \notin claimed(j, o)
  BY <1>5 DEF GraphOwned, claimed
<1>7. \A g \in claimed(j, o) : \E i \in DOMAIN j.puts : owner(g) = j.puts[i].key /\ g \in Claimable(j.puts[i], o)
  BY Claims DEF WriteOk
<1> HIDE DEF gone, owner, kept
<1>8. /\ DOMAIN owned = kept \cup claimed(j, o)
      /\ \A g \in kept : owned[g] = d.owned[g]
      /\ \A g \in claimed(j, o) : owned[g] = owner(g)
      /\ owned = [g \in DOMAIN owned |-> owned[g]]
  BY <1>6
<1> HIDE DEF owned
<1>9. /\ \A k \in Keys \ all_keys(j) : docs[k] = d.docs[k]
      /\ \A k \in put_keys(j) : docs[k] = <<Row(j, k)>>
      /\ \A k \in Keys : docs[k] # None <=> k \in put_keys(j) \/ (k \notin all_keys(j) /\ d.docs[k] # None)
      /\ docs = [k \in Keys |-> docs[k]]
  BY <1>3 DEF all_keys, None
<1> HIDE DEF docs
<1>10. Stored(e) = (Stored(d) \ all_keys(j)) \cup put_keys(j)
  BY <1>2, <1>3, <1>9 DEF Stored
<1>11. \A g \in DOMAIN owned : owned[g] \in Keys
  <2>1. \A g \in claimed(j, o) : owned[g] \in put_keys(j)
    BY <1>7, <1>8 DEF put_keys
  <2>2. \A g \in kept : owned[g] \in Keys
    BY <1>8 DEF TablesOk, kept
  <2> QED BY <1>3, <1>8, <2>1, <2>2
<1>12. contexts \in Knowns /\ \A i \in ContextIris : contexts[i] = IF i \in j.fetched THEN j.known[i] ELSE d.contexts[i]
  BY DEF Knowns, WriteOk, Seen, TablesOk
<1>13. \A i \in j.fetched : j.known[i] = Remote[i] /\ Remote[i] # None
  BY DEF WriteOk
<1> HIDE DEF contexts
<1>14. TablesOk(e, r)
  <2>1. ~r => \A i \in ContextIris : Remote[i] # None => contexts[i] \in {None, Remote[i]}
    BY <1>12, <1>13 DEF TablesOk
  <2> QED BY <1>2, <1>8, <1>9, <1>11, <1>12, <2>1 DEF TablesOk
<1>15. Steady(d, e, r, r)
  BY <1>2, <1>12, <1>13 DEF Steady, Canon
<1>16. Wrote(d, e, j, o)
  BY <1>2, <1>4, <1>5, <1>6, <1>7, <1>8, <1>9, <1>10, <1>12 DEF Wrote, kept, gone
<1> QED BY <1>14, <1>15, <1>16

-----------------------------------------------------------------------------
(* What a write keeps: rows, graphs, quads that are found again, and what  *)
(* it reports.                                                             *)

\* A write of no key and of no context changes nothing.
LEMMA EmptyWrite ==
    ASSUME NEW d, NEW r, NEW j, NEW o, TablesOk(d, r), WriteOk(d, r, j, o), all_keys(j) = {}, j.fetched = {}
    PROVE  written(d, j, o) = d
<1>1. DOMAIN j.puts = {} /\ j.removes = {} /\ DOMAIN j.old = {}
  BY DEF all_keys, put_keys, WriteOk
<1>2. Gone(d, j) = {} /\ put_quads(j) = {} /\ old_ids(j) = {} /\ put_keys(j) = {}
  BY <1>1 DEF Gone, put_quads, old_ids, all_keys, put_keys
<1>3. claims(j, o) = {} /\ claimed(j, o) = {}
  BY <1>1 DEF claims, claimed
<1> DEFINE owned == [g \in (DOMAIN d.owned \ {}) \cup {} |-> IF g \in DOMAIN d.owned \ {} THEN d.owned[g] ELSE (CHOOSE c \in {} : c[2] = g)[1]]
           docs == [k \in Keys |-> IF k \in {} THEN <<Row(j, k)>> ELSE IF k \in {} THEN None ELSE d.docs[k]]
           contexts == [i \in ContextIris |-> IF i \in {} THEN j.known[i] ELSE d.contexts[i]]
<1>4. owned = d.owned
  BY DEF TablesOk
<1>5. docs = d.docs
  BY DEF TablesOk
<1>6. contexts = d.contexts
  BY DEF TablesOk, Knowns
<1>7. written(d, j, o) = [quads |-> ({q \in d.quads : q[4] \notin {}} \ {}) \cup {}, graphs |-> (d.graphs \ {}) \cup (({q[4] : q \in {}} \cup {}) \ {Default}),
                          terms |-> d.terms \cup ({q[4] : q \in {}} \cup {}), owned |-> owned, docs |-> docs, contexts |-> contexts]
  BY <1>1, <1>2, <1>3 DEF written
<1> HIDE DEF owned, docs, contexts
<1>8. /\ ({q \in d.quads : q[4] \notin {}} \ {}) \cup {} = d.quads /\ (d.graphs \ {}) \cup (({q[4] : q \in {}} \cup {}) \ {Default}) = d.graphs
      /\ d.terms \cup ({q[4] : q \in {}} \cup {}) = d.terms
  OBVIOUS
<1>9. written(d, j, o) = [quads |-> d.quads, graphs |-> d.graphs, terms |-> d.terms, owned |-> d.owned, docs |-> d.docs, contexts |-> d.contexts]
  BY <1>4, <1>5, <1>6, <1>7, <1>8
<1> QED BY <1>9 DEF TablesOk

\* What is put is stored with the quads it was converted to.
LEMMA PutsAreMade ==
    ASSUME NEW d, NEW e, NEW r, NEW j, NEW f, NEW h \in Handles, NEW o, o = f[h], WriteOk(d, r, j, o), PhaseOk(j, o), j.phase = "write",
           Wrote(d, e, j, o), Steady(d, e, r, r), NEW k \in put_keys(j)
    PROVE  RowOk(e, r, f, NewMade(j, k), k)
<1>1. PICK i \in DOMAIN j.puts : j.puts[i].key = k
  BY DEF put_keys
<1> DEFINE p == j.puts[i]
<1>2. \A m, n \in DOMAIN j.puts : j.puts[m].key = j.puts[n].key => m = n
  BY DEF WriteOk
<1>3. Row(j, p.key) = [key |-> p.key, doc |-> p.doc, target |-> p.target] /\ NewMade(j, p.key) = p.conv.quads
  BY <1>2, PutRows
<1>4. PutOk(p, j.known, o) /\ p.conv.result = "done"
  BY DEF WriteOk, PhaseOk
<1> HIDE DEF p
<1>5. p.key = k /\ p.conv = Conversion(p, j.known, o) /\ DocOk(p.doc) /\ p.target = graph_for(o, k) /\ p.target # None
  BY <1>1, <1>4 DEF p, PutOk, VersionOk
<1>6. e.docs[k] = <<[key |-> k, doc |-> p.doc, target |-> p.target]>>
  BY <1>3, <1>5 DEF Wrote
<1>7. e.docs[k] = <<e.docs[k][1]>> /\ e.docs[k][1].key = k /\ e.docs[k][1].doc = p.doc /\ e.docs[k][1].target = p.target
  BY <1>6
<1>8. Converted(e, k, j.known, o) = p.conv
  BY <1>5, <1>7 DEF Converted, Conversion
<1>9. Seen(d, r, j.known, o)
  BY DEF WriteOk
<1>10. Seen(e, r, j.known, o) /\ j.known \in Knowns
  <2>1. Seen(e, r, j.known, o)
    BY <1>9, SeenStays
  <2> QED BY <2>1 DEF Seen
<1>11. Made(e, r, NewMade(j, k), k, j.known, o)
  BY <1>3, <1>4, <1>5, <1>7, <1>8, <1>10 DEF Made
<1> QED BY <1>5, <1>7, <1>10, <1>11 DEF RowOk

\* The quads of what is put, and the graphs they are in.
LEMMA PutsDefine ==
    ASSUME NEW d, NEW r, NEW j, NEW o, WriteOk(d, r, j, o), PhaseOk(j, o), j.phase = "write", NEW i \in DOMAIN j.puts
    PROVE  LET p == j.puts[i]
           IN  /\ p.key \in put_keys(j) /\ p.target = graph_for(o, p.key) /\ p.target # None /\ NewMade(j, p.key) = p.conv.quads
               /\ p.conv.quads \subseteq put_quads(j) /\ Default \notin p.conv.nested
               /\ \A q \in p.conv.quads : q[4] \in p.conv.nested \cup {p.target} /\ Defines(p, q[4])
               /\ \A g \in Claimable(p, o) : Defines(p, g)
<1> DEFINE p == j.puts[i]
<1>1. \A m, n \in DOMAIN j.puts : j.puts[m].key = j.puts[n].key => m = n
  BY DEF WriteOk
<1>2. NewMade(j, p.key) = p.conv.quads
  BY <1>1, PutRows
<1>3. PutOk(p, j.known, o) /\ p.conv.result = "done" /\ p.key \in put_keys(j) /\ p.conv.quads \subseteq put_quads(j)
  BY DEF WriteOk, PhaseOk, put_keys, put_quads
<1> HIDE DEF p
<1>4. p.conv = convert(p.doc, p.key, p.target, j.known, o) /\ p.target = graph_for(o, p.key) /\ p.target # None
  BY <1>3 DEF PutOk, VersionOk, Conversion
<1>5. (\A q \in p.conv.quads : q[4] \in p.conv.nested \cup {p.target}) /\ Default \notin p.conv.nested
  BY <1>3, <1>4, Conversions
<1>6. \A g \in Claimable(p, o) : Defines(p, g)
  BY DEF Claimable, Defines
<1>7. \A q \in p.conv.quads : Defines(p, q[4])
  BY <1>5 DEF Defines
<1> QED BY <1>2, <1>3, <1>4, <1>5, <1>6, <1>7 DEF p

\* Which documents' quads the ghosts have after a write.
MadeBy(j, m) == [k \in Keys |-> IF k \in all_keys(j) THEN NewMade(j, k) ELSE m[k]]
TouchedBy(d, j, o, u, t) ==
    (t \ (Gone(d, j) \ {q[4] : q \in u})) \cup Taken(d, j, o) \cup Twice(j, o) \cup ({q[4] : q \in put_quads(j) \cup old_ids(j)} \ claimed(j, o))
Theirs(d, m, t) == \A g \in DOMAIN d.owned \ t : d.owned[g] \in Stored(d) /\ InGraph(d.quads, g) = InGraph(m[d.owned[g]], g)

\* A graph that stays owned is not written to.
LEMMA KeptGraphs ==
    ASSUME NEW d, NEW e, NEW j, NEW o, Wrote(d, e, j, o), NEW m, NEW u, NEW t, Theirs(d, m, t), Stored(d) \in SUBSET Keys,
           NEW g \in DOMAIN d.owned \ Gone(d, j), g \notin TouchedBy(d, j, o, u, t)
    PROVE  e.owned[g] \in Stored(e) /\ InGraph(e.quads, g) = InGraph(MadeBy(j, m)[e.owned[g]], g)
<1> DEFINE k == d.owned[g]
<1>1. e.owned[g] = k /\ k \notin all_keys(j) /\ g \notin claimed(j, o)
  BY DEF Wrote
<1>2. g \notin t /\ \A q \in put_quads(j) \cup old_ids(j) : q[4] # g
  BY <1>1 DEF TouchedBy
<1>3. k \in Stored(d) /\ InGraph(d.quads, g) = InGraph(m[k], g)
  BY <1>2 DEF Theirs
<1> HIDE DEF k
<1>4. k \in Stored(e) /\ k \in Keys
  BY <1>1, <1>3 DEF Wrote
<1>5. MadeBy(j, m)[k] = m[k]
  BY <1>1, <1>4 DEF MadeBy
<1>6. e.quads = ({q \in d.quads : q[4] \notin Gone(d, j)} \ old_ids(j)) \cup put_quads(j)
  BY DEF Wrote
<1>7. InGraph(e.quads, g) = InGraph(d.quads, g)
  BY <1>2, <1>6 DEF InGraph
<1> QED BY <1>1, <1>3, <1>4, <1>5, <1>7

\* A graph that is claimed holds what its owner was converted to.
LEMMA ClaimedGraphs ==
    ASSUME NEW d, NEW e, NEW r, NEW j, NEW o, WriteOk(d, r, j, o), PhaseOk(j, o), j.phase = "write", Wrote(d, e, j, o), NEW m, NEW u, NEW t,
           NEW g \in claimed(j, o), g \notin TouchedBy(d, j, o, u, t)
    PROVE  e.owned[g] \in Stored(e) /\ InGraph(e.quads, g) = InGraph(MadeBy(j, m)[e.owned[g]], g)
<1>1. PICK i \in DOMAIN j.puts : e.owned[g] = j.puts[i].key /\ g \in Claimable(j.puts[i], o)
  BY DEF Wrote
<1> DEFINE k == j.puts[i].key
<1>2. k \in put_keys(j) /\ k \in Keys /\ k \in all_keys(j) /\ NewMade(j, k) = j.puts[i].conv.quads /\ Defines(j.puts[i], g)
  <2>1. k \in put_keys(j) /\ NewMade(j, k) = j.puts[i].conv.quads /\ Defines(j.puts[i], g)
    BY <1>1, PutsDefine
  <2>2. put_keys(j) \subseteq Keys
    BY WritesHaveKeys
  <2> QED BY <2>1, <2>2 DEF all_keys
<1> HIDE DEF k
<1>3. k \in Stored(e)
  BY <1>2 DEF Wrote
<1>4. MadeBy(j, m)[k] = j.puts[i].conv.quads
  BY <1>2 DEF MadeBy
<1>5. e.quads = ({q \in d.quads : q[4] \notin Gone(d, j)} \ old_ids(j)) \cup put_quads(j)
  BY DEF Wrote
<1>6. g \notin Taken(d, j, o) /\ g \notin Twice(j, o)
  BY DEF TouchedBy
<1>7. \A q \in d.quads : q[4] = g => q[4] \in Gone(d, j)
  <2> SUFFICES ASSUME NEW q \in d.quads, q[4] = g PROVE g \in Gone(d, j)
    OBVIOUS
  <2>1. g \in DOMAIN d.owned
    BY <1>6 DEF Taken
  <2> QED BY <2>1 DEF Wrote
<1>8. \A q \in put_quads(j) : q[4] = g => q \in j.puts[i].conv.quads
  <2> SUFFICES ASSUME NEW q \in put_quads(j), q[4] = g PROVE q \in j.puts[i].conv.quads
    OBVIOUS
  <2>1. PICK n \in DOMAIN j.puts : q \in j.puts[n].conv.quads
    BY DEF put_quads
  <2>2. Defines(j.puts[n], g)
    BY <2>1, PutsDefine
  <2>3. n = i
    BY <1>2, <1>6, <2>2 DEF Twice
  <2> QED BY <2>1, <2>3
<1>9. j.puts[i].conv.quads \subseteq put_quads(j)
  BY PutsDefine
<1>10. InGraph(e.quads, g) = InGraph(j.puts[i].conv.quads, g)
  BY <1>5, <1>7, <1>8, <1>9 DEF InGraph
<1> QED BY <1>1, <1>3, <1>4, <1>10 DEF k

\* Owned graphs hold the quads of their documents after a write.
LEMMA GraphsStayTheirs ==
    ASSUME NEW d, NEW e, NEW r, NEW j, NEW o, WriteOk(d, r, j, o), PhaseOk(j, o), j.phase = "write", Wrote(d, e, j, o), NEW m, NEW u, NEW t,
           Theirs(d, m, t)
    PROVE  Theirs(e, MadeBy(j, m), TouchedBy(d, j, o, u, t))
<1> SUFFICES ASSUME NEW g \in DOMAIN e.owned \ TouchedBy(d, j, o, u, t)
             PROVE  e.owned[g] \in Stored(e) /\ InGraph(e.quads, g) = InGraph(MadeBy(j, m)[e.owned[g]], g)
  BY DEF Theirs
<1>1. g \in DOMAIN d.owned \ Gone(d, j) \/ g \in claimed(j, o)
  BY DEF Wrote
<1>2. Stored(d) \in SUBSET Keys
  BY DEF Stored
<1>3. CASE g \in DOMAIN d.owned \ Gone(d, j)
  BY <1>2, <1>3, KeptGraphs
<1>4. CASE g \in claimed(j, o)
  BY <1>4, ClaimedGraphs
<1> QED BY <1>1, <1>3, <1>4

-----------------------------------------------------------------------------
(* Quads that are found again.                                             *)

Found(d, u, c, m, s) == \A q \in d.quads : q \in u \/ q[4] \in c \/ \E k \in Stored(d) : q \in m[k] /\ Home(d, q, k, s)

\* A graph of its own is never the default graph.
LEMMA TargetsAreOwned ==
    ASSUME NEW o, NEW k, owns_target(o), graph_for(o, k) # None
    PROVE  graph_for(o, k) # Default
<1>1. o.graph = "key" => graph_for(o, k) = <<"iri", k>> \/ graph_for(o, k) = None
  BY DEF graph_for
<1>2. o.graph = "template" => graph_for(o, k) = <<"template", k>>
  BY DEF graph_for
<1>3. Len(<<"iri", k>>) = 2 /\ Len(<<"template", k>>) = 2 /\ Len(Default) = 1
  BY DEF Default
<1>4. <<"iri", k>> # Default /\ <<"template", k>> # Default
  BY <1>3
<1> QED BY <1>1, <1>2, <1>4 DEF owns_target

\* A quad of what is put.
LEMMA PutsAreFound ==
    ASSUME NEW d, NEW e, NEW r, NEW j, NEW o, WriteOk(d, r, j, o), PhaseOk(j, o), j.phase = "write", Wrote(d, e, j, o),
           NEW c, NEW m, NEW s, ~owns_target(o) => s, NEW q \in put_quads(j)
    PROVE  q[4] \in (c \ Gone(d, j)) \cup Twice(j, o) \/ \E k \in Stored(e) : q \in MadeBy(j, m)[k] /\ Home(e, q, k, s)
<1>1. PICK i \in DOMAIN j.puts : q \in j.puts[i].conv.quads
  BY DEF put_quads
<1> DEFINE p == j.puts[i]
           k == p.key
<1>2. /\ k \in put_keys(j) /\ p.target = graph_for(o, k) /\ p.target # None /\ NewMade(j, k) = p.conv.quads /\ Default \notin p.conv.nested
      /\ q[4] \in p.conv.nested \cup {p.target} /\ Defines(p, q[4])
  BY <1>1, PutsDefine
<1>3. k \in Keys /\ k \in all_keys(j) /\ k \in Stored(e) /\ e.docs[k] = <<Row(j, k)>>
  <2>1. put_keys(j) \subseteq Keys
    BY WritesHaveKeys
  <2> QED BY <1>2, <2>1 DEF all_keys, Wrote
<1>4. Row(j, k) = [key |-> k, doc |-> p.doc, target |-> p.target]
  <2>1. \A x, n \in DOMAIN j.puts : j.puts[x].key = j.puts[n].key => x = n
    BY DEF WriteOk
  <2> QED BY <2>1, PutRows
<1> HIDE DEF p, k
<1>5. q \in MadeBy(j, m)[k]
  BY <1>1, <1>2, <1>3 DEF MadeBy, p
<1>6. CASE q[4] \in Claimable(p, o)
  <2>1. q[4] \in claimed(j, o)
    BY <1>6, Claims DEF WriteOk, p
  <2>2. PICK n \in DOMAIN j.puts : e.owned[q[4]] = j.puts[n].key /\ q[4] \in Claimable(j.puts[n], o)
    BY <2>1 DEF Wrote
  <2>3. q[4] \in DOMAIN e.owned
    BY <2>1 DEF Wrote
  <2>4. CASE n = i
    BY <1>3, <1>5, <2>2, <2>3, <2>4 DEF Home, k, p
  <2>5. CASE n # i
    <3>1. Defines(j.puts[n], q[4])
      BY <2>2, PutsDefine
    <3>2. q[4] \in Twice(j, o)
      BY <1>2, <2>1, <2>5, <3>1 DEF Twice, p
    <3> QED BY <3>2
  <2> QED BY <2>4, <2>5
<1>7. CASE q[4] \notin Claimable(p, o)
  <2>1. q[4] = p.target /\ ~owns_target(o)
    <3>1. CASE owns_target(o)
      <4>1. p.target # Default
        BY <1>2, <3>1, TargetsAreOwned
      <4> QED BY <1>2, <1>7, <3>1, <4>1 DEF Claimable
    <3>2. CASE ~owns_target(o)
      BY <1>2, <1>7, <3>2 DEF Claimable
    <3> QED BY <3>1, <3>2
  <2>2. e.docs[k][1].target = p.target
    BY <1>3, <1>4
  <2>3. Home(e, q, k, s)
    BY <2>1, <2>2 DEF Home
  <2> QED BY <1>3, <1>5, <2>3
<1> QED BY <1>6, <1>7
Alikes(f, o) == \A h \in Handles : f[h].graph = o.graph /\ f[h].contexts = o.contexts /\ f[h].bundled = o.bundled

\* The quads of an old version that was read as it is stored are those it
\* was converted to.
LEMMA OldsAreFound ==
    ASSUME NEW d, NEW j, NEW o, NEW f, Alikes(f, o), WriteOk(d, FALSE, j, o), PhaseOk(j, o), ReadOk(d, j, o), j.phase = "write",
           NEW m, NEW k \in Stored(d), RowOk(d, FALSE, f, m, k), k \in all_keys(j), k \notin j.stale, ~owns_target(o),
           NEW q \in m, q[4] = d.docs[k][1].target
    PROVE  q \in old_ids(j)
<1> DEFINE row == d.docs[k][1]
<1>1. PICK h \in Handles, known \in Knowns : Made(d, FALSE, m, k, known, f[h])
  BY DEF RowOk
<1>2. DocOk(row.doc) /\ row.target # None
  BY DEF RowOk
<1>3. graph_for(f[h], k) = graph_for(o, k)
  BY DEF Alikes, graph_for
<1>4. /\ Seen(d, FALSE, known, f[h]) /\ row.target = graph_for(o, k)
      /\ convert(row.doc, k, row.target, known, f[h]).result = "done" /\ m = convert(row.doc, k, row.target, known, f[h]).quads
  BY <1>1, <1>3 DEF Made, Converted
<1> HIDE DEF row
<1>5. d.docs[k] # None /\ graph_for(o, k) # None
  BY <1>2, <1>4 DEF Stored
<1>6. OldsOk(d, j, o)
  BY DEF ReadOk
<1>7. k \in DOMAIN j.old /\ j.old[k].doc = row.doc
  BY <1>5, <1>6 DEF OldsOk, row
<1> DEFINE v == j.old[k]
<1>8. v.key = k /\ OldOk(v, j.known, o) /\ v.conv.result = "done"
  BY <1>7 DEF WriteOk, PhaseOk
<1> HIDE DEF v
<1>9. v.target = row.target /\ v.doc = row.doc
  BY <1>4, <1>7, <1>8 DEF v, OldOk, VersionOk
<1> DEFINE a == convert(row.doc, k, row.target, j.known, o)
           b == convert(row.doc, k, row.target, known, f[h])
<1>10. v.conv = a \/ a.result = "error"
  BY <1>8, <1>9 DEF OldOk, Conversion
<1>11. a.result \in Finished
  BY <1>8, <1>10 DEF Finished
<1>12. b.result \in Finished
  BY <1>4 DEF Finished
<1>13. Seen(d, FALSE, j.known, o) /\ j.known \in Knowns /\ o.contexts = f[h].contexts /\ o.bundled = f[h].bundled
  BY DEF WriteOk, Seen, Alikes
<1>14. Agree(j.known, o, known, f[h])
  BY <1>4, <1>13, SeenAgree
<1> HIDE DEF a, b
<1>15. a = b
  BY <1>2, <1>11, <1>12, <1>13, <1>14, SameConversion DEF a, b, row
<1>16. v.conv = a /\ a.quads = m
  BY <1>4, <1>10, <1>15 DEF b
<1> QED BY <1>7, <1>9, <1>16 DEF old_ids, v, row

UsersAfter(d, j, u) == {q \in u : q[4] \notin Gone(d, j)} \ old_ids(j)
ContestedAfter(d, j, o, c) == (c \ Gone(d, j)) \cup Twice(j, o)
\* After a write, every quad is found again, unless two documents of one write
\* define its graph.
LEMMA QuadsStayFound ==
    ASSUME NEW d, NEW e, NEW j, NEW o, NEW f, Alikes(f, o), WriteOk(d, FALSE, j, o), PhaseOk(j, o), ReadOk(d, j, o), j.phase = "write",
           Wrote(d, e, j, o), NEW m, \A k \in Stored(d) : RowOk(d, FALSE, f, m[k], k), j.stale \cap all_keys(j) = {},
           NEW u, NEW c, NEW s, s <=> ~owns_target(o), Found(d, u, c, m, s)
    PROVE  Found(e, UsersAfter(d, j, u), ContestedAfter(d, j, o, c), MadeBy(j, m), s)
<1> DEFINE found == {q \in u : q[4] \notin Gone(d, j)} \ old_ids(j)
           excepted == (c \ Gone(d, j)) \cup Twice(j, o)
<1> SUFFICES ASSUME NEW q \in e.quads
             PROVE  q \in found \/ q[4] \in excepted \/ \E k \in Stored(e) : q \in MadeBy(j, m)[k] /\ Home(e, q, k, s)
  BY DEF Found, UsersAfter, ContestedAfter
<1>1. e.quads = ({x \in d.quads : x[4] \notin Gone(d, j)} \ old_ids(j)) \cup put_quads(j)
  BY DEF Wrote
<1>2. CASE q \in put_quads(j)
  <2>1. q[4] \in excepted \/ \E k \in Stored(e) : q \in MadeBy(j, m)[k] /\ Home(e, q, k, s)
    BY <1>2, PutsAreFound
  <2> QED BY <2>1
<1>3. CASE q \notin put_quads(j)
  <2>1. q \in d.quads /\ q[4] \notin Gone(d, j) /\ q \notin old_ids(j)
    BY <1>1, <1>3
  <2>2. CASE q \in u
    BY <2>1, <2>2
  <2>3. CASE q[4] \in c
    BY <2>1, <2>3
  <2>4. CASE \E k \in Stored(d) : q \in m[k] /\ Home(d, q, k, s)
    <3>1. PICK k \in Stored(d) : q \in m[k] /\ Home(d, q, k, s)
      BY <2>4
    <3>2. k \in Keys
      BY DEF Stored
    <3>3. CASE k \in all_keys(j)
      <4>1. q[4] \notin DOMAIN d.owned \/ d.owned[q[4]] # k
        BY <2>1, <3>3 DEF Gone, Owned
      <4>2. q[4] = d.docs[k][1].target /\ s
        BY <3>1, <4>1 DEF Home
      <4>3. RowOk(d, FALSE, f, m[k], k) /\ k \notin j.stale
        BY <3>3
      <4>4. q \in old_ids(j)
        BY <3>1, <3>3, <4>2, <4>3, OldsAreFound
      <4> QED BY <2>1, <4>4
    <3>4. CASE k \notin all_keys(j)
      <4>1. k \in Stored(e) /\ e.docs[k] = d.docs[k]
        BY <3>2, <3>4 DEF Wrote
      <4>2. MadeBy(j, m)[k] = m[k]
        BY <3>2, <3>4 DEF MadeBy
      <4>3. q[4] \in DOMAIN d.owned => q[4] \in DOMAIN e.owned /\ e.owned[q[4]] = d.owned[q[4]]
        BY <2>1 DEF Wrote
      <4>4. Home(e, q, k, s)
        BY <3>1, <4>1, <4>3 DEF Home
      <4> QED BY <3>1, <4>1, <4>2, <4>4
    <3> QED BY <3>3, <3>4
  <2> QED BY <2>1, <2>2, <2>3, <2>4 DEF Found
<1> QED BY <1>2, <1>3

-----------------------------------------------------------------------------
(* What a write reports.                                                   *)

\* The response is read where the row of the key is deleted (removed_at).
LEMMA RemovalIsTold ==
    ASSUME NEW d, NEW r, NEW j, NEW o, WriteOk(d, r, j, o), NEW f, NEW m, \A k \in Stored(d) : RowOk(d, r, f, m[k], k)
    PROVE  LET t == Removed(d, j, o, write_statements(j, o)) IN t.said = t.true
<1> DEFINE st == write_statements(j, o)
<1>1. put_keys(j) \subseteq Keys /\ j.removes \subseteq Keys /\ j.fetched \subseteq ContextIris /\ IsFiniteSet(Keys) /\ IsFiniteSet(ContextIris)
  <2>1. put_keys(j) \subseteq Keys
    BY WritesHaveKeys
  <2> QED BY <2>1, KeysAssumption, ContextsAssumption DEF WriteOk, Opened
<1>2. IsFiniteSet(put_keys(j)) /\ IsFiniteSet(j.removes) /\ IsFiniteSet(j.fetched)
  BY <1>1, FS_Subset
<1>3. ASSUME NEW k \in forgotten(j) PROVE changes(d, st[removed_at(j, o)[k]]) > 0 <=> d.docs[k] # None
  <2>1. st[removed_at(j, o)[k]] = St("forget", k)
    BY <1>2, RemovedAtIsRight
  <2>2. changes(d, St("forget", k)) = Len(d.docs[k])
    BY DEF changes, St
  <2>3. CASE d.docs[k] = None
    <3>1. Len(d.docs[k]) = 0
      BY <2>3 DEF None
    <3> QED BY <2>1, <2>2, <2>3, <3>1
  <2>4. CASE d.docs[k] # None
    <3>1. k \in Stored(d)
      BY <1>1, <2>4 DEF Stored, forgotten
    <3>2. d.docs[k] = <<d.docs[k][1]>>
      BY <3>1 DEF RowOk
    <3>3. Len(d.docs[k]) = 1
      BY <3>2
    <3> QED BY <2>1, <2>2, <2>4, <3>3
  <2> QED BY <2>3, <2>4
<1> HIDE DEF st
<1>4. {k \in forgotten(j) : changes(d, st[removed_at(j, o)[k]]) > 0} = {k \in forgotten(j) : d.docs[k] # None}
  BY <1>3
<1> QED BY <1>4 DEF Removed, st

\* What a check and a rebuild compare with: the contexts there are now.
Contexts(d, o) == [i \in ContextIris |-> IF o.contexts[i] # None THEN o.contexts[i]
                                         ELSE IF o.bundled /\ Bundled[i] # None THEN Bundled[i] ELSE d.contexts[i]]
\* A conversion of the stored text as the tables are now.
LEMMA FreshConverts ==
    ASSUME NEW d, NEW k, NEW o, d.contexts \in Knowns, o.contexts \in Knowns
    PROVE  /\ Fresh(d, k, o) = Converted(d, k, Contexts(d, o), o) /\ Contexts(d, o) \in Knowns
           /\ \A i \in ContextIris : Contexts(d, o)[i] = IF o.contexts[i] # None THEN o.contexts[i]
                                                          ELSE IF o.bundled /\ Bundled[i] # None THEN Bundled[i] ELSE d.contexts[i]
<1>1. Fresh(d, k, o) = Converted(d, k, Contexts(d, o), o)
  BY DEF Fresh, Converted, Contexts
<1>2. Contexts(d, o) \in Knowns
  BY DEF Contexts, Knowns, Texts
<1> QED BY <1>1, <1>2 DEF Contexts

\* A rebuild that nothing disturbed converted with those.
LEMMA RebuildsAgree ==
    ASSUME NEW d, NEW e, NEW r, NEW j, NEW o, d.contexts \in Knowns, e.contexts \in Knowns, o.contexts \in Knowns,
           WriteOk(d, r, j, o), KnownOk(d, j, o), Wrote(d, e, j, o)
    PROVE  Agree(j.known, o, Contexts(e, o), o)
<1> SUFFICES ASSUME NEW i \in ContextIris, Text(j.known, o, i) # None, Text(Contexts(e, o), o, i) # None
             PROVE  Text(j.known, o, i) = Text(Contexts(e, o), o, i)
  BY DEF Agree
<1> DEFINE c == Contexts(e, o)
<1>1. c[i] = IF o.contexts[i] # None THEN o.contexts[i] ELSE IF o.bundled /\ Bundled[i] # None THEN Bundled[i] ELSE e.contexts[i]
  BY FreshConverts
<1>2. e.contexts[i] = IF i \in j.fetched THEN j.known[i] ELSE d.contexts[i]
  BY DEF Wrote
<1> HIDE DEF c
<1>3. CASE i \notin Opened(o)
  <2>1. j.known[i] = o.contexts[i]
    BY <1>3 DEF WriteOk, Seen
  <2> QED BY <1>1, <1>3, <2>1 DEF Text, Opened, c
<1>4. CASE i \in Opened(o)
  <2>1. o.contexts[i] = None /\ ~(o.bundled /\ Bundled[i] # None) /\ c[i] = e.contexts[i]
    BY <1>1, <1>4 DEF Opened
  <2>2. j.known[i] # None /\ e.contexts[i] # None /\ Text(j.known, o, i) = j.known[i] /\ Text(c, o, i) = e.contexts[i]
    BY <2>1 DEF Text, c
  <2>3. j.known[i] = d.contexts[i] \/ (d.contexts[i] = None /\ j.known[i] = Remote[i])
    BY <1>4, <2>2 DEF KnownOk
  <2> QED BY <1>2, <2>2, <2>3 DEF c
<1> QED BY <1>3, <1>4

\* After a rebuild that nothing disturbed, its document does not differ.
LEMMA RebuildRepairs ==
    ASSUME NEW d, NEW e, NEW r, NEW j, NEW o, d.contexts \in Knowns, e.contexts \in Knowns, o.contexts \in Knowns,
           WriteOk(d, r, j, o), PhaseOk(j, o), ReadOk(d, j, o), j.phase = "write", j.kind = "rebuild", Wrote(d, e, j, o),
           Rebuilt(d, j, o, e).clean
    PROVE  Rebuilt(d, j, o, e).true = {}
<1>1. j.stale = {} /\ Taken(d, j, o) = {}
  BY DEF Rebuilt
<1>2. \A i, n \in DOMAIN j.puts : i = n
  BY DEF WriteOk
<1>3. all_keys(j) = put_keys(j) /\ put_keys(j) \subseteq Keys
  <2>1. j.removes = {}
    BY DEF WriteOk
  <2> QED BY <2>1, WritesHaveKeys DEF all_keys
<1>4. KnownOk(d, j, o)
  BY <1>1 DEF ReadOk
<1>5. ASSUME NEW k \in all_keys(j) PROVE ~Drifted(e, k, o)
  <2>1. PICK i \in DOMAIN j.puts : j.puts[i].key = k
    BY <1>3 DEF put_keys
  <2> DEFINE p == j.puts[i]
             fresh == Fresh(e, k, o)
  <2>2. p.key = k /\ p.target = graph_for(o, k) /\ p.conv.quads \subseteq put_quads(j)
    BY <2>1, PutsDefine
  <2>3. PutOk(p, j.known, o) /\ p.conv.result = "done"
    BY DEF WriteOk, PhaseOk
  <2>4. Row(j, p.key) = [key |-> p.key, doc |-> p.doc, target |-> p.target] /\ e.docs[k] = <<Row(j, k)>>
    <3>1. \A x, n \in DOMAIN j.puts : j.puts[x].key = j.puts[n].key => x = n
      BY <1>2
    <3>2. Row(j, p.key) = [key |-> p.key, doc |-> p.doc, target |-> p.target]
      BY <3>1, PutRows
    <3> QED BY <1>3, <3>2 DEF Wrote
  <2>5. put_quads(j) = p.conv.quads
    BY <1>2 DEF put_quads
  <2> HIDE DEF p
  <2>6. e.docs[k][1].doc = p.doc /\ e.docs[k][1].target = p.target
    BY <2>2, <2>4
  <2>7. fresh = convert(p.doc, k, p.target, Contexts(e, o), o) /\ Contexts(e, o) \in Knowns
    BY <2>6, FreshConverts DEF Converted
  <2>8. p.conv = convert(p.doc, k, p.target, j.known, o) /\ DocOk(p.doc)
    BY <2>2, <2>3 DEF PutOk, VersionOk, Conversion
  <2>9. fresh.result = "done" => fresh = p.conv
    <3> SUFFICES ASSUME fresh.result = "done" PROVE fresh = p.conv
      OBVIOUS
    <3> HIDE DEF fresh
    <3>1. Agree(j.known, o, Contexts(e, o), o)
      BY <1>4, RebuildsAgree
    <3>2. j.known \in Knowns
      BY DEF WriteOk, Seen
    <3>3. convert(p.doc, k, p.target, j.known, o).result \in Finished
      BY <2>3, <2>8 DEF Finished
    <3>4. convert(p.doc, k, p.target, Contexts(e, o), o).result \in Finished
      BY <2>7 DEF Finished
    <3>5. convert(p.doc, k, p.target, j.known, o) = convert(p.doc, k, p.target, Contexts(e, o), o)
      BY <2>7, <2>8, <3>1, <3>2, <3>3, <3>4, SameConversion
    <3> QED BY <2>7, <2>8, <3>5
  <2> HIDE DEF fresh
  <2>10. e.quads = ({q \in d.quads : q[4] \notin Gone(d, j)} \ old_ids(j)) \cup put_quads(j)
    BY DEF Wrote
  <2>11. ASSUME NEW g \in Owned(e, k) PROVE {q \in e.quads : q[4] = g} = {q \in p.conv.quads : q[4] = g}
    <3>1. g \in DOMAIN e.owned /\ e.owned[g] \in all_keys(j)
      BY DEF Owned
    <3>2. g \in claimed(j, o)
      BY <3>1 DEF Wrote
    <3>3. ASSUME NEW q \in d.quads, q[4] = g PROVE q[4] \in Gone(d, j)
      <4>1. g \in DOMAIN d.owned
        BY <1>1, <3>2, <3>3 DEF Taken
      <4> QED BY <3>2, <3>3, <4>1 DEF Wrote
    <3> QED BY <2>5, <2>10, <3>3
  <2>12. fresh.result = "done" => ~Differs(e, k, fresh)
    BY <2>5, <2>9, <2>10, <2>11 DEF Differs
  <2>13. ~Differs(e, k, fresh)
    BY <2>12 DEF Differs
  <2> QED BY <2>2, <2>6, <2>13 DEF Drifted, fresh
<1> QED BY <1>5 DEF Rebuilt

\* A check that nothing disturbed compared with those.
LEMMA ChecksCompare ==
    ASSUME NEW d, NEW o, d.contexts \in Knowns, o.contexts \in Knowns, NEW k, DocOk(d.docs[k][1].doc),
           \A i \in ContextIris : o.bundled /\ d.contexts[i] # None => Bundled[i] = None
    PROVE  Bad(d, k, CheckKnows(d, o), o) <=> Drifted(d, k, o)
<1> DEFINE a == CheckKnows(d, o)
           c == Contexts(d, o)
           doc == d.docs[k][1].doc
           target == d.docs[k][1].target
<1>1. a \in Knowns /\ \A i \in ContextIris : a[i] = IF o.contexts[i] # None THEN o.contexts[i] ELSE d.contexts[i]
  BY DEF CheckKnows, Knowns
<1>2. /\ Fresh(d, k, o) = Converted(d, k, c, o) /\ c \in Knowns
      /\ \A i \in ContextIris : c[i] = IF o.contexts[i] # None THEN o.contexts[i] ELSE IF o.bundled /\ Bundled[i] # None THEN Bundled[i] ELSE d.contexts[i]
  BY FreshConverts
<1> HIDE DEF a, c
<1>3. \A i \in ContextIris : Text(a, o, i) = Text(c, o, i)
  BY <1>1, <1>2 DEF Text
<1>4. doc.context \in ContextIris \cup {NoName}
  BY DEF DocOk
<1> HIDE DEF doc, target
<1>5. Loaded(a, o, doc.context) \in SUBSET ContextIris /\ Loaded(c, o, doc.context) \in SUBSET ContextIris
  BY <1>1, <1>2, <1>4, LoadedIsLeast
<1>6. Same(Loaded(a, o, doc.context), a, o, c, o) /\ Same(Loaded(c, o, doc.context), a, o, c, o)
  BY <1>3, <1>5 DEF Same
<1>7. ChainLoader(a, o, doc.context) = ChainLoader(c, o, doc.context)
  BY <1>1, <1>2, <1>4, <1>6, SameTexts
<1>8. convert(doc, k, target, a, o) = convert(doc, k, target, c, o)
  BY <1>7, SameLoading
<1>9. Converted(d, k, a, o) = Fresh(d, k, o)
  BY <1>2, <1>8 DEF Converted, doc, target
<1> QED BY <1>9 DEF Bad, Drifted, a
-----------------------------------------------------------------------------
(* The steps.                                                              *)

\* Contexts of options and tables are in use.
LEMMA Options ==
    ASSUME Tables, NEW h \in Handles
    PROVE  options[h].contexts \in Knowns /\ db.contexts \in Knowns /\ respelled \in BOOLEAN
BY ContextsAssumption DEF Tables, TablesOk, Knowns

\* Stored documents have their key and name a context.
LEMMA StoredDocuments ==
    ASSUME Rows, NEW k \in Stored(db)
    PROVE  DocOk(db.docs[k][1].doc) /\ db.docs[k][1].key = k /\ k \in Keys
BY DEF Rows, RowOk, Stored

\* A job takes a step, and the tables stay as they are.
LEMMA JobSteps ==
    ASSUME IInv, NEW h \in Handles, NEW n, JobOk(db, respelled, n, options[h]), Becomes(h, n), UNCHANGED <<options, db, ghosts>>
    PROVE  (Tables /\ Rows /\ Jobs /\ Homes /\ GraphsAreTheirDocuments)'
<1> USE DEF ghosts
<1>1. Tables'
  BY DEF IInv, Tables
<1>2. Rows'
  BY DEF IInv, Rows
<1>3. Jobs'
  <2>1. job = [g \in Handles |-> job[g]] /\ \A g \in Handles : JobOk(db, respelled, job[g], options[g])
    BY DEF IInv, Jobs
  <2>2. job' = [job EXCEPT ![h] = n]
    BY DEF Becomes
  <2>3. job' = [g \in Handles |-> IF g = h THEN n ELSE job[g]]
    BY <2>1, <2>2
  <2>4. \A g \in Handles : JobOk(db', respelled', job'[g], options'[g])
    BY <2>1, <2>3
  <2> QED BY <2>3, <2>4 DEF Jobs
<1>4. Homes'
  BY DEF IInv, Homes, Uniform, Sharing
<1>5. GraphsAreTheirDocuments'
  BY DEF IInv, GraphsAreTheirDocuments
<1> QED BY <1>1, <1>2, <1>3, <1>4, <1>5

\* A job takes a step and reports nothing.
LEMMA SilentSteps ==
    ASSUME IInv, NEW h \in Handles, NEW n, JobOk(db, respelled, n, options[h]), Becomes(h, n), UNCHANGED <<options, db, report, ghosts>>
    PROVE  IInv'
<1>1. (Tables /\ Rows /\ Jobs /\ Homes /\ GraphsAreTheirDocuments)'
  BY JobSteps
<1>2. Reports'
  BY DEF IInv, Reports, RemovalsAreReported, ChecksAreExact, RebuildsRepair
<1> QED BY <1>1, <1>2 DEF IInv

\* A put begins (put_documents).
LEMMA PutKeeps ==
    ASSUME IInv, NEW h \in Handles, NEW b, Inputs(b, options[h]), Call(h), Becomes(h, WriteJob("put", b, {}, options[h])),
           UNCHANGED <<options, db, report, ghosts>>
    PROVE  IInv'
<1>1. options[h].contexts \in Knowns
  BY Options DEF IInv
<1>2. {} \in SUBSET Keys
  OBVIOUS
<1>3. JobOk(db, respelled, WriteJob("put", b, {}, options[h]), options[h])
  BY <1>1, <1>2, Starts
<1> QED BY <1>3, SilentSteps

\* A removal begins (remove_document).
LEMMA RemoveKeeps ==
    ASSUME IInv, NEW h \in Handles, NEW k \in Keys, Remove_(h, k)
    PROVE  IInv'
<1>1. options[h].contexts \in Knowns
  BY Options DEF IInv
<1>2. {k} \in SUBSET Keys /\ Inputs(<<>>, options[h])
  <2>1. DOMAIN <<>> = {}
    OBVIOUS
  <2> QED BY <2>1 DEF Inputs
<1>3. JobOk(db, respelled, WriteJob("remove", <<>>, {k}, options[h]), options[h])
  BY <1>1, <1>2, Starts
<1>4. Becomes(h, WriteJob("remove", <<>>, {k}, options[h])) /\ UNCHANGED <<options, db, report, ghosts>>
  BY DEF Remove_
<1> QED BY <1>3, <1>4, SilentSteps

\* The old versions are read.
LEMMA ReadOldKeeps ==
    ASSUME IInv, NEW h \in Handles, ReadOld(h)
    PROVE  IInv'
<1> DEFINE j == job[h]
           o == options[h]
           old == [k \in StoredOf(db, j, o) |-> OldVersion(db, k, o)]
           n == [j EXCEPT !.old = old, !.stale = {}]
<1>1. JobOk(db, respelled, j, o) /\ j.phase = "read_old" /\ DOMAIN j = Fields
  BY DEF IInv, Jobs, ReadOld, JobOk
<1>2. \A k \in Stored(db) : DocOk(db.docs[k][1].doc)
  BY StoredDocuments DEF IInv
<1>3. DOMAIN old = StoredOf(db, j, o) /\ \A k \in DOMAIN old : old[k] = OldVersion(db, k, o)
  OBVIOUS
<1>4. Becomes(h, resolve(n, o)) /\ UNCHANGED <<options, db, report, ghosts>>
  BY DEF ReadOld, Reading, StoredOf, OldVersion
<1> HIDE DEF old
<1>5. /\ DOMAIN n = Fields /\ n.old = old /\ n.stale = {} /\ n.kind = j.kind /\ n.puts = j.puts /\ n.removes = j.removes /\ n.known = j.known
      /\ n.fetched = j.fetched /\ n.queried = j.queried
  BY <1>1 DEF Fields
<1> HIDE DEF n, j, o
<1>6. WriteOk(db, respelled, n, o) /\ Answered(db, n, o)
  BY <1>1, <1>2, <1>3, <1>5, ReadsOld
<1>7. JobOk(db, respelled, resolve(n, o), o)
  BY <1>5, <1>6, Resolves
<1> QED BY <1>4, <1>7, SilentSteps DEF o

\* Persisted contexts are read.
LEMMA ReadContextsKeeps ==
    ASSUME IInv, NEW h \in Handles, ReadContexts(h)
    PROVE  IInv'
<1> DEFINE j == job[h]
           o == options[h]
           known == [i \in ContextIris |-> IF i \in j.asking /\ db.contexts[i] # None THEN db.contexts[i] ELSE j.known[i]]
           n == [j EXCEPT !.known = known]
<1>1. JobOk(db, respelled, j, o) /\ j.phase = "contexts" /\ j.kind # "check" /\ DOMAIN j = Fields
  BY DEF IInv, Jobs, ReadContexts, JobOk
<1>2. Becomes(h, resolve(n, o)) /\ UNCHANGED <<options, db, report, ghosts>>
  BY DEF ReadContexts, Reading
<1>3. db.contexts \in Knowns /\ (~respelled => \A i \in ContextIris : Remote[i] # None => db.contexts[i] \in {None, Remote[i]})
  BY DEF IInv, Tables, TablesOk
<1>4. WriteOk(db, respelled, j, o) /\ PhaseOk(j, o) /\ \A i \in j.asking : i \in Opened(o) /\ i \in ContextIris /\ j.known[i] = None
  BY <1>1 DEF JobOk, Writing, Checking, PhaseOk, Opened
<1>5. known \in Knowns /\ \A i \in ContextIris : known[i] = IF i \in j.asking /\ db.contexts[i] # None THEN db.contexts[i] ELSE j.known[i]
  BY <1>3, <1>4 DEF Knowns, WriteOk, Seen
<1> HIDE DEF known
<1>6. /\ DOMAIN n = Fields /\ n.known = known /\ n.old = j.old /\ n.stale = j.stale /\ n.kind = j.kind /\ n.puts = j.puts
      /\ n.removes = j.removes /\ n.queried = j.queried /\ n.fetched = j.fetched
  BY <1>1 DEF Fields
<1> HIDE DEF n, j, o
<1>7. \A i \in ContextIris \ j.asking : known[i] = j.known[i]
  BY <1>5
<1>8. \A i \in j.asking : known[i] = db.contexts[i]
  BY <1>4, <1>5
<1>9. ~respelled => \A i \in j.asking : known[i] \in {None, Canon(db, i)}
  BY <1>3, <1>4, <1>8 DEF Canon
<1>10. \A i \in n.fetched \cap j.asking : known[i] = Remote[i] /\ Remote[i] # None
  <2> SUFFICES ASSUME NEW i \in j.fetched, i \in j.asking PROVE FALSE
    BY <1>6
  <2>1. j.known[i] = Remote[i] /\ Remote[i] # None
    BY <1>4 DEF WriteOk
  <2> QED BY <1>4, <2>1
<1>11. \A i \in j.asking : known[i] = db.contexts[i] \/ (known[i] = Remote[i] /\ Remote[i] # None /\ j.phase = "fetch")
  BY <1>8
<1>12. n.fetched \subseteq j.fetched \cup j.asking
  BY <1>6
<1>13. WriteOk(db, respelled, n, o) /\ Answered(db, n, o)
  BY <1>1, <1>5, <1>6, <1>7, <1>9, <1>10, <1>11, <1>12, Learns
<1>14. JobOk(db, respelled, resolve(n, o), o)
  BY <1>6, <1>13, Resolves
<1> QED BY <1>2, <1>14, SilentSteps DEF o

\* Contexts are fetched, or the job ends.
LEMMA FetchKeeps ==
    ASSUME IInv, NEW h \in Handles, Fetch(h)
    PROVE  IInv'
<1> DEFINE j == job[h]
           o == options[h]
           known == [i \in ContextIris |-> IF i \in j.asking THEN Remote[i] ELSE j.known[i]]
           fetched == IF o.cache_fetched THEN j.fetched \cup j.asking ELSE j.fetched
           n == [j EXCEPT !.known = known, !.fetched = fetched]
<1>1. JobOk(db, respelled, j, o) /\ j.phase = "fetch" /\ DOMAIN j = Fields
  BY DEF IInv, Jobs, Fetch, JobOk
<1>2. UNCHANGED <<options, db, report, ghosts>>
  BY DEF Fetch, Reading
<1>3. CASE \E i \in j.asking : Remote[i] = None
  <2>1. Becomes(h, Idle)
    BY <1>3 DEF Fetch
  <2> QED BY <1>2, <2>1, IdleOk, SilentSteps
<1>4. CASE ~\E i \in j.asking : Remote[i] = None
  <2>1. n = [j EXCEPT !.known = [i \in ContextIris |-> IF i \in j.asking THEN Remote[i] ELSE @[i]],
                      !.fetched = IF o.cache_fetched THEN @ \cup j.asking ELSE @]
    BY <1>1 DEF Fields
  <2>2. Becomes(h, resolve(n, o))
    BY <1>4, <2>1 DEF Fetch
  <2>3. WriteOk(db, respelled, j, o) /\ j.kind # "check" /\ PhaseOk(j, o) /\ \A i \in j.asking : i \in Opened(o) /\ i \in ContextIris
    BY <1>1 DEF JobOk, Writing, Checking, PhaseOk, Opened
  <2>4. known \in Knowns /\ \A i \in ContextIris : known[i] = IF i \in j.asking THEN Remote[i] ELSE j.known[i]
    BY <2>3 DEF Knowns, WriteOk, Seen, Texts
  <2>5. fetched \subseteq j.fetched \cup j.asking
    OBVIOUS
  <2> HIDE DEF known, fetched
  <2>6. /\ DOMAIN n = Fields /\ n.known = known /\ n.old = j.old /\ n.stale = j.stale /\ n.kind = j.kind /\ n.puts = j.puts
        /\ n.removes = j.removes /\ n.queried = j.queried /\ n.fetched = fetched
    BY <1>1 DEF Fields
  <2> HIDE DEF n, j, o
  <2>7. \A i \in ContextIris \ j.asking : known[i] = j.known[i]
    BY <2>4
  <2>8. \A i \in j.asking : known[i] = Remote[i] /\ Remote[i] # None
    BY <1>4, <2>3, <2>4
  <2>9. ~respelled => \A i \in j.asking : known[i] \in {None, Canon(db, i)}
    BY <2>8 DEF Canon
  <2>10. \A i \in n.fetched \cap j.asking : known[i] = Remote[i] /\ Remote[i] # None
    BY <2>8
  <2>11. \A i \in j.asking : known[i] = db.contexts[i] \/ (known[i] = Remote[i] /\ Remote[i] # None /\ j.phase = "fetch")
    BY <1>1, <2>8
  <2>12. WriteOk(db, respelled, n, o) /\ Answered(db, n, o)
    BY <1>1, <2>3, <2>4, <2>5, <2>6, <2>7, <2>9, <2>10, <2>11, Learns
  <2>13. JobOk(db, respelled, resolve(n, o), o)
    BY <2>6, <2>12, Resolves
  <2> QED BY <1>2, <2>2, <2>13, SilentSteps DEF o
<1> QED BY <1>3, <1>4

\* A request fails.
LEMMA FailKeeps ==
    ASSUME IInv, NEW h \in Handles, Fail(h)
    PROVE  IInv'
<1>1. Becomes(h, Idle) /\ UNCHANGED <<options, db, report, ghosts>>
  BY DEF Fail, Reading
<1> QED BY <1>1, IdleOk, SilentSteps

\* A rebuild begins (RebuildJob).
LEMMA RebuildKeeps ==
    ASSUME IInv, NEW h \in Handles, NEW k \in Keys, Rebuild(h, k)
    PROVE  IInv'
<1> DEFINE n == [Idle EXCEPT !.kind = "rebuild", !.phase = "read_row", !.key = k]
<1>1. DOMAIN n = Fields /\ n.phase = "read_row" /\ n.key = k
  BY DEF Idle, Fields
<1>2. Becomes(h, n) /\ UNCHANGED <<options, db, report, ghosts>>
  BY DEF Rebuild
<1> HIDE DEF n
<1>3. JobOk(db, respelled, n, options[h])
  BY <1>1 DEF JobOk
<1> QED BY <1>2, <1>3, SilentSteps

\* The row is read, and written again.
LEMMA ReadRowKeeps ==
    ASSUME IInv, NEW h \in Handles, ReadRow(h)
    PROVE  IInv'
<1> DEFINE j == job[h]
           o == options[h]
           k == j.key
           row == db.docs[k][1]
           batch == <<[doc |-> row.doc, key |-> k]>>
<1>1. JobOk(db, respelled, j, o) /\ j.phase = "read_row" /\ UNCHANGED <<options, db, report, ghosts>>
  BY DEF IInv, Jobs, ReadRow, Reading
<1>2. k \in Keys
  BY <1>1 DEF JobOk, Writing, Checking
<1>3. CASE db.docs[k] = None \/ ~Readable(db, k)
  <2>1. Becomes(h, Idle)
    BY <1>3 DEF ReadRow
  <2> QED BY <1>1, <2>1, IdleOk, SilentSteps
<1>4. CASE ~(db.docs[k] = None \/ ~Readable(db, k))
  <2>1. Becomes(h, WriteJob("rebuild", batch, {}, o))
    BY <1>4 DEF ReadRow
  <2>2. DocOk(row.doc)
    BY <1>2, <1>4, StoredDocuments DEF IInv, Stored
  <2>3. DOMAIN batch = {1} /\ batch[1].doc = row.doc /\ batch[1].key = k
    OBVIOUS
  <2> HIDE DEF batch, row, k
  <2>4. key_for(o, row.doc, k) = k
    BY <1>2, KeysAssumption DEF key_for
  <2>5. Inputs(batch, o)
    BY <1>2, <2>2, <2>3, <2>4 DEF Inputs, DocOk
  <2>6. \A i, n \in DOMAIN batch : i = n
    BY <2>3
  <2>7. o.contexts \in Knowns
    BY Options DEF IInv
  <2>8. {} \in SUBSET Keys
    OBVIOUS
  <2>9. JobOk(db, respelled, WriteJob("rebuild", batch, {}, o), o)
    BY <2>5, <2>6, <2>7, <2>8, Starts
  <2> QED BY <1>1, <2>1, <2>9, SilentSteps
<1> QED BY <1>3, <1>4

\* A check begins (CheckJob).
LEMMA CheckKeeps ==
    ASSUME IInv, NEW h \in Handles, Check(h)
    PROVE  IInv'
<1> DEFINE o == options[h]
           n == [Idle EXCEPT !.kind = "check", !.phase = "contexts", !.known = o.contexts]
<1>1. DOMAIN n = Fields /\ n.kind = "check" /\ n.phase = "contexts" /\ n.known = o.contexts /\ n.drifts = {} /\ n.after = NoName
  BY DEF Idle, Fields
<1>2. Becomes(h, n) /\ UNCHANGED <<options, db, report, ghosts>>
  BY DEF Check
<1> HIDE DEF n
<1>3. JobOk(db, respelled, n, o)
  BY <1>1 DEF JobOk, Checking, CheckOk
<1> QED BY <1>2, <1>3, SilentSteps

\* A check reads the contexts; from here on it notices writes.
LEMMA CheckContextsKeeps ==
    ASSUME IInv, NEW h \in Handles, CheckContexts(h)
    PROVE  IInv'
<1> DEFINE j == job[h]
           o == options[h]
           known == [i \in ContextIris |-> IF j.known[i] # None THEN j.known[i] ELSE db.contexts[i]]
           n == [j EXCEPT !.phase = "page", !.stale = {}, !.known = known]
<1>1. JobOk(db, respelled, j, o) /\ j.phase = "contexts" /\ j.kind = "check" /\ DOMAIN j = Fields /\ UNCHANGED <<options, db, report, ghosts>>
  BY DEF IInv, Jobs, CheckContexts, JobOk, Reading
<1>2. j.known = o.contexts /\ j.drifts = {} /\ j.after = NoName
  BY <1>1 DEF JobOk, Writing, CheckOk
<1>3. Becomes(h, n)
  <2>1. n = [j EXCEPT !.phase = "page", !.stale = {}, !.known = [i \in ContextIris |-> IF @[i] # None THEN @[i] ELSE db.contexts[i]]]
    BY <1>1 DEF Fields
  <2> QED BY <2>1 DEF CheckContexts
<1>4. known = CheckKnows(db, o)
  BY <1>2 DEF CheckKnows
<1> HIDE DEF known
<1>5. DOMAIN n = Fields /\ n.kind = "check" /\ n.phase = "page" /\ n.known = known /\ n.drifts = {} /\ n.after = NoName
  BY <1>1, <1>2 DEF Fields
<1> HIDE DEF n
<1>6. PageOk(db, n, o)
  BY <1>5 DEF PageOk, Compared
<1>7. JobOk(db, respelled, n, o)
  BY <1>4, <1>5, <1>6 DEF JobOk, Checking, CheckOk
<1> QED BY <1>1, <1>3, <1>7, SilentSteps

\* A check goes on, or is done and reports.
LEMMA CheckDoneKeeps ==
    ASSUME IInv, NEW h \in Handles, NEW n, CheckDone(h, n), UNCHANGED <<options, db, ghosts>>,
           n.phase = "done" \/ JobOk(db, respelled, n, options[h]),
           n.phase = "done" /\ n.stale = {} => n.drifts = Compared(db, Stored(db), n.known, options[h]) /\ n.known = CheckKnows(db, options[h])
    PROVE  IInv'
<1> DEFINE o == options[h]
<1>1. CASE n.phase # "done"
  BY <1>1, SilentSteps DEF CheckDone
<1>2. CASE n.phase = "done"
  <2> DEFINE t == [of |-> "checked", said |-> n.drifts, true |-> {k \in Stored(db) : Drifted(db, k, o)}, clean |-> n.stale = {} /\ Unshadowed]
  <2>1. Becomes(h, Idle) /\ report' = [report EXCEPT ![h] = t]
    BY <1>2 DEF CheckDone
  <2>2. (Tables /\ Rows /\ Jobs /\ Homes /\ GraphsAreTheirDocuments)'
    BY <2>1, IdleOk, JobSteps
  <2>3. ASSUME t.clean PROVE t.said = t.true
    <3>1. n.stale = {} /\ Unshadowed
      BY <2>3
    <3>2. \A i \in ContextIris : o.bundled /\ db.contexts[i] # None => Bundled[i] = None
      BY <3>1 DEF Unshadowed
    <3>3. db.contexts \in Knowns /\ o.contexts \in Knowns
      BY Options DEF IInv
    <3>4. \A k \in Stored(db) : Bad(db, k, CheckKnows(db, o), o) <=> Drifted(db, k, o)
      <4> SUFFICES ASSUME NEW k \in Stored(db) PROVE Bad(db, k, CheckKnows(db, o), o) <=> Drifted(db, k, o)
        OBVIOUS
      <4>1. DocOk(db.docs[k][1].doc)
        BY StoredDocuments DEF IInv
      <4> HIDE DEF o
      <4> QED BY <3>2, <3>3, <4>1, ChecksCompare
    <3>5. n.drifts = {k \in Stored(db) : Bad(db, k, CheckKnows(db, o), o)}
      BY <1>2, <3>1 DEF Compared
    <3> QED BY <3>4, <3>5
  <2>4. t.of = "checked"
    OBVIOUS
  <2> HIDE DEF t
  <2>5. report = [g \in Handles |-> report[g]] /\ RemovalsAreReported /\ ChecksAreExact /\ RebuildsRepair
    BY DEF IInv, Reports
  <2>6. report' = [g \in Handles |-> IF g = h THEN t ELSE report[g]]
    BY <2>1, <2>5
  <2>7. RemovalsAreReported'
    BY <2>4, <2>5, <2>6 DEF RemovalsAreReported
  <2>8. ChecksAreExact'
    BY <2>3, <2>5, <2>6 DEF ChecksAreExact
  <2>9. RebuildsRepair'
    BY <2>4, <2>5, <2>6 DEF RebuildsRepair
  <2>10. Reports'
    BY <2>6, <2>7, <2>8, <2>9 DEF Reports
  <2> QED BY <2>2, <2>10 DEF IInv
<1> QED BY <1>1, <1>2

\* A check reads a page.
LEMMA ReadPageKeeps ==
    ASSUME IInv, NEW h \in Handles, ReadPage(h)
    PROVE  IInv'
<1> DEFINE j == job[h]
           o == options[h]
           m == Turned(db, j, o)
<1>1. JobOk(db, respelled, j, o) /\ j.phase = "page" /\ UNCHANGED <<options, db, ghosts>> /\ CheckDone(h, next(m))
  BY DEF IInv, Jobs, ReadPage, Turned
<1>2. \A k \in Stored(db) : db.docs[k][1].key = k
  BY StoredDocuments DEF IInv
<1>3. m = Turned(db, j, o)
  OBVIOUS
<1> HIDE DEF m, j, o
<1>4. /\ DOMAIN m = Fields /\ m.kind = "check" /\ m.after \in Keys \cup {NoName}
      /\ m.stale = {} => /\ m.known = CheckKnows(db, o) /\ RowsOk(db, m.queue, m.known, o, m.after)
                         /\ m.drifts = Compared(db, Scope(db, m.after) \ RowKeys(m.queue), m.known, o)
  BY <1>1, <1>2, <1>3, PageIsRead
<1>5. /\ next(m).phase = "done" \/ JobOk(db, respelled, next(m), o)
      /\ next(m).phase = "done" /\ next(m).stale = {} => next(m).drifts = Compared(db, Stored(db), next(m).known, o) /\ next(m).known = CheckKnows(db, o)
  BY <1>2, <1>4, NextOk
<1> QED BY <1>1, <1>5, CheckDoneKeeps DEF o

\* A check reads the quads of a document.
LEMMA CheckQuadsKeeps ==
    ASSUME IInv, NEW h \in Handles, CheckQuads(h)
    PROVE  IInv'
<1> DEFINE j == job[h]
           o == options[h]
           m == Noted(db, j)
<1>1. JobOk(db, respelled, j, o) /\ j.phase = "quads" /\ UNCHANGED <<options, db, ghosts>> /\ CheckDone(h, next(m))
  BY DEF IInv, Jobs, CheckQuads, Noted
<1>2. \A k \in Stored(db) : db.docs[k][1].key = k
  BY StoredDocuments DEF IInv
<1>3. m = Noted(db, j)
  OBVIOUS
<1> HIDE DEF m, j, o
<1>4. /\ DOMAIN m = Fields /\ m.kind = "check" /\ m.after \in Keys \cup {NoName}
      /\ m.stale = {} => /\ m.known = CheckKnows(db, o) /\ RowsOk(db, m.queue, m.known, o, m.after)
                         /\ m.drifts = Compared(db, Scope(db, m.after) \ RowKeys(m.queue), m.known, o)
  BY <1>1, <1>2, <1>3, QuadsAreRead
<1>5. /\ next(m).phase = "done" \/ JobOk(db, respelled, next(m), o)
      /\ next(m).phase = "done" /\ next(m).stale = {} => next(m).drifts = Compared(db, Stored(db), next(m).known, o) /\ next(m).known = CheckKnows(db, o)
  BY <1>2, <1>4, NextOk
<1> QED BY <1>1, <1>5, CheckDoneKeeps DEF o

\* Tables change: the rows and the jobs that were there.
LEMMA CommitsNotify ==
    ASSUME IInv, NEW h \in Handles, NEW changed, Notice(h, changed, Idle), options' = options, respelled' \in BOOLEAN,
           TablesOk(db', respelled'), Steady(db, db', respelled, respelled'), \A k \in Keys \ changed : db'.docs[k] = db.docs[k],
           changed = {} => db' = db
    PROVE  Jobs'
<1>1. job' = [g \in Handles |-> IF g = h THEN Idle ELSE IF job[g].phase = "idle" THEN job[g] ELSE [job[g] EXCEPT !.stale = @ \cup changed]]
  BY DEF Notice
<1>2. job' = [g \in Handles |-> job'[g]]
  BY <1>1
<1>3. ASSUME NEW g \in Handles PROVE JobOk(db', respelled', job'[g], options'[g])
  <2> DEFINE n == IF job[g].phase = "idle" THEN job[g] ELSE [job[g] EXCEPT !.stale = @ \cup changed]
  <2>1. JobOk(db, respelled, job[g], options[g])
    BY DEF IInv, Jobs
  <2>2. JobOk(db', respelled', n, options[g])
    BY <2>1, OthersAreNoticed
  <2>3. job'[g] = IF g = h THEN Idle ELSE n
    BY <1>1
  <2> HIDE DEF n
  <2> QED BY <2>2, <2>3, IdleOk
<1> QED BY <1>2, <1>3 DEF Jobs

\* What a write of a handle commits.
LEMMA CommittedKeeps ==
    ASSUME IInv, NEW h \in Handles, NEW j, j = job[h], NEW o, o = options[h], j.phase = "write", ~GraphOwned(db, j, o),
           db' = written(db, j, o), options' = options, respelled' = respelled,
           Notice(h, all_keys(j) \cup (IF j.fetched = {} THEN {} ELSE {NoName}), Idle),
           made' = MadeBy(j, made), users' = {q \in users : q[4] \notin Gone(db, j)} \ old_ids(j), touched' = TouchedBy(db, j, o, users, touched),
           contested' = (contested \ Gone(db, j)) \cup Twice(j, o), crossed' = (crossed \/ j.stale \cap all_keys(j) # {})
    PROVE  (Tables /\ Rows /\ Jobs /\ Homes /\ GraphsAreTheirDocuments)'
<1> DEFINE changed == all_keys(j) \cup (IF j.fetched = {} THEN {} ELSE {NoName})
<1>1. WriteOk(db, respelled, j, o) /\ PhaseOk(j, o) /\ ReadOk(db, j, o)
  <2>1. JobOk(db, respelled, j, o)
    BY DEF IInv, Jobs
  <2> QED BY <2>1 DEF JobOk, Checking
<1>2. Tables /\ TablesOk(db, respelled) /\ respelled \in BOOLEAN /\ crossed \in BOOLEAN
  BY DEF IInv, Tables
<1>3. Wrote(db, db', j, o) /\ TablesOk(db', respelled) /\ Steady(db, db', respelled, respelled)
  BY <1>1, <1>2, Writes
<1>4. Tables'
  BY <1>2, <1>3 DEF Tables
<1>5. \A k \in Stored(db) : RowOk(db, respelled, options, made[k], k)
  BY DEF IInv, Rows
<1>6. put_keys(j) \subseteq Keys /\ all_keys(j) \subseteq Keys
  BY <1>1, WritesHaveKeys
<1>7. Rows'
  <2>1. made' = [k \in Keys |-> made'[k]] /\ \A k \in Keys : made'[k] = IF k \in all_keys(j) THEN NewMade(j, k) ELSE made[k]
    BY DEF MadeBy
  <2>2. Stored(db') = (Stored(db) \ all_keys(j)) \cup put_keys(j)
    BY <1>3 DEF Wrote
  <2>3. ASSUME NEW k \in Stored(db') PROVE RowOk(db', respelled, options, made'[k], k)
    <3>1. k \in Keys
      BY DEF Stored
    <3>2. CASE k \in put_keys(j)
      <4>1. RowOk(db', respelled, options, NewMade(j, k), k)
        BY <1>1, <1>3, <3>2, PutsAreMade
      <4> QED BY <2>1, <3>1, <3>2, <4>1 DEF all_keys
    <3>3. CASE k \notin put_keys(j)
      <4>1. k \in Stored(db) /\ k \notin all_keys(j)
        BY <2>2, <3>3
      <4>2. db'.docs[k] = db.docs[k]
        BY <1>3, <3>1, <4>1 DEF Wrote
      <4>3. RowOk(db, respelled, options, made[k], k)
        BY <1>5, <4>1
      <4>4. RowOk(db', respelled, options, made[k], k)
        BY <1>3, <4>2, <4>3, RowStays
      <4> QED BY <2>1, <3>1, <4>1, <4>4
    <3> QED BY <3>2, <3>3
  <2> QED BY <2>1, <2>3 DEF Rows
<1>8. Jobs'
  <2>1. \A k \in Keys \ changed : db'.docs[k] = db.docs[k]
    BY <1>3 DEF Wrote
  <2>2. changed = {} => db' = db
    BY <1>1, <1>2, EmptyWrite
  <2>3. Notice(h, changed, Idle)
    OBVIOUS
  <2> HIDE DEF changed
  <2> QED BY <1>2, <1>3, <2>1, <2>2, <2>3, CommitsNotify
<1>9. GraphsAreTheirDocuments'
  <2>1. Theirs(db, made, touched)
    BY DEF IInv, GraphsAreTheirDocuments, Theirs
  <2>2. Theirs(db', made', touched')
    BY <1>1, <1>3, <2>1, GraphsStayTheirs
  <2> QED BY <2>2 DEF GraphsAreTheirDocuments, Theirs
<1>10. Homes'
  <2> SUFFICES ASSUME Uniform', ~crossed', ~respelled' PROVE Found(db', users', contested', made', Sharing')
    BY DEF Homes, Found
  <2>1. Uniform /\ Sharing' = Sharing /\ ~crossed /\ j.stale \cap all_keys(j) = {} /\ respelled = FALSE
    BY <1>2 DEF Uniform, Sharing
  <2>2. Found(db, users, contested, made, Sharing)
    BY <2>1 DEF IInv, Homes, Found
  <2>3. Alikes(options, o)
    BY <2>1 DEF Uniform, Alikes
  <2>4. Sharing <=> ~owns_target(o)
    BY <2>1 DEF Uniform, Sharing, owns_target
  <2>5. WriteOk(db, FALSE, j, o)
    BY <1>1, <2>1
  <2>6. \A k \in Stored(db) : RowOk(db, FALSE, options, made[k], k)
    BY <1>5, <2>1
  <2>7. users' = UsersAfter(db, j, users) /\ contested' = ContestedAfter(db, j, o, contested)
    BY DEF UsersAfter, ContestedAfter
  <2>8. Found(db', UsersAfter(db, j, users), ContestedAfter(db, j, o, contested), MadeBy(j, made), Sharing)
    BY <1>1, <1>3, <2>1, <2>2, <2>3, <2>4, <2>5, <2>6, QuadsStayFound
  <2> QED BY <2>1, <2>7, <2>8
<1> QED BY <1>4, <1>7, <1>8, <1>9, <1>10

\* A write is committed and reported, or fails.
LEMMA WriteKeeps ==
    ASSUME IInv, NEW h \in Handles, Write(h)
    PROVE  IInv'
<1> DEFINE j == job[h]
           o == options[h]
           st == write_statements(j, o)
           t == IF j.kind = "remove" THEN Removed(db, j, o, st) ELSE IF j.kind = "rebuild" THEN Rebuilt(db, j, o, db') ELSE Nothing
<1>1. CASE Becomes(h, Idle) /\ UNCHANGED <<db, report, ghosts>>
  <2>1. options' = options
    BY DEF Write
  <2> QED BY <1>1, <2>1, IdleOk, SilentSteps
<1>2. CASE ~(Becomes(h, Idle) /\ UNCHANGED <<db, report, ghosts>>)
  <2>1. /\ j.phase = "write" /\ ~GraphOwned(db, j, o) /\ db' = written(db, j, o) /\ options' = options /\ respelled' = respelled
        /\ Notice(h, all_keys(j) \cup (IF j.fetched = {} THEN {} ELSE {NoName}), Idle)
        /\ users' = {q \in users : q[4] \notin Gone(db, j)} \ old_ids(j)
        /\ contested' = (contested \ Gone(db, j)) \cup Twice(j, o) /\ crossed' = (crossed \/ j.stale \cap all_keys(j) # {})
    BY <1>2 DEF Write
  <2>2. made' = MadeBy(j, made)
    BY <1>2 DEF Write, MadeBy, NewMade
  <2>3. touched' = TouchedBy(db, j, o, users, touched)
    BY <1>2 DEF Write, TouchedBy
  <2>4. report' = [report EXCEPT ![h] = t]
    BY <1>2 DEF Write
  <2>5. (Tables /\ Rows /\ Jobs /\ Homes /\ GraphsAreTheirDocuments)'
    <3>1. j = job[h] /\ o = options[h]
      OBVIOUS
    <3> HIDE DEF j, o
    <3> QED BY <2>1, <2>2, <2>3, <3>1, CommittedKeeps
  <2>6. WriteOk(db, respelled, j, o) /\ PhaseOk(j, o) /\ ReadOk(db, j, o)
    <3>1. JobOk(db, respelled, j, o)
      BY DEF IInv, Jobs
    <3> QED BY <2>1, <3>1 DEF JobOk, Checking
  <2>7. \A k \in Stored(db) : RowOk(db, respelled, options, made[k], k)
    BY DEF IInv, Rows
  <2>8. /\ t.of \in {"removed", "rebuilt", "nothing"}
        /\ t.of = "removed" => t = Removed(db, j, o, st)
        /\ t.of = "rebuilt" => j.kind = "rebuild" /\ t = Rebuilt(db, j, o, db')
    BY DEF Removed, Rebuilt, Nothing
  <2> HIDE DEF t
  <2>9. t.of = "removed" => t.said = t.true
    <3>1. Removed(db, j, o, st).said = Removed(db, j, o, st).true
      BY <2>6, <2>7, RemovalIsTold
    <3> QED BY <2>8, <3>1
  <2>10. t.of = "rebuilt" /\ t.clean => t.true = {}
    <3> SUFFICES ASSUME t.of = "rebuilt", t.clean PROVE t.true = {}
      OBVIOUS
    <3>1. j.kind = "rebuild" /\ t = Rebuilt(db, j, o, db')
      BY <2>8
    <3>2. o.contexts \in Knowns /\ db.contexts \in Knowns /\ respelled \in BOOLEAN /\ TablesOk(db, respelled)
      BY Options DEF IInv, Tables
    <3>3. Wrote(db, db', j, o) /\ TablesOk(db', respelled)
      BY <2>1, <2>6, <3>2, Writes
    <3>4. db'.contexts \in Knowns
      BY <3>3 DEF TablesOk
    <3>5. Rebuilt(db, j, o, db').clean
      BY <3>1
    <3> HIDE DEF j, o
    <3>6. Rebuilt(db, j, o, db').true = {}
      BY <2>1, <2>6, <3>1, <3>2, <3>3, <3>4, <3>5, RebuildRepairs
    <3> QED BY <3>1, <3>6
  <2>11. report = [g \in Handles |-> report[g]] /\ RemovalsAreReported /\ ChecksAreExact /\ RebuildsRepair
    BY DEF IInv, Reports
  <2>12. report' = [g \in Handles |-> IF g = h THEN t ELSE report[g]]
    BY <2>4, <2>11
  <2>13. RemovalsAreReported'
    BY <2>9, <2>11, <2>12 DEF RemovalsAreReported
  <2>14. ChecksAreExact'
    BY <2>8, <2>11, <2>12 DEF ChecksAreExact
  <2>15. RebuildsRepair'
    BY <2>10, <2>11, <2>12 DEF RebuildsRepair
  <2>16. Reports'
    BY <2>12, <2>13, <2>14, <2>15 DEF Reports
  <2> QED BY <2>5, <2>16 DEF IInv
<1> QED BY <1>1, <1>2

\* Calls that change quads and contexts, and no document.
LEMMA OthersCommit ==
    ASSUME IInv, NEW h \in Handles, NEW new, NEW changed, NoName \in changed, Other(h, new, changed), respelled' \in BOOLEAN,
           TablesOk(new, respelled'), Steady(db, new, respelled, respelled'), new.docs = db.docs, UNCHANGED <<made, crossed>>
    PROVE  (Tables /\ Rows /\ Jobs /\ Reports)'
<1>1. db' = new /\ Notice(h, changed, Idle) /\ UNCHANGED <<options, report>>
  BY DEF Other
<1>2. Tables'
  BY <1>1 DEF IInv, Tables
<1>3. Rows'
  <2>1. made = [k \in Keys |-> made[k]] /\ \A k \in Stored(db) : RowOk(db, respelled, options, made[k], k)
    BY DEF IInv, Rows
  <2>2. Stored(db') = Stored(db)
    BY <1>1 DEF Stored
  <2>3. ASSUME NEW k \in Stored(db) PROVE RowOk(db', respelled', options, made[k], k)
    <3>1. RowOk(db, respelled, options, made[k], k)
      BY <2>1
    <3>2. db'.docs[k] = db.docs[k]
      BY <1>1
    <3> QED BY <1>1, <3>1, <3>2, RowStays
  <2> QED BY <1>1, <2>1, <2>2, <2>3 DEF Rows
<1>4. Jobs'
  <2>1. \A k \in Keys \ changed : db'.docs[k] = db.docs[k]
    BY <1>1
  <2>2. changed # {} /\ TablesOk(db', respelled') /\ Steady(db, db', respelled, respelled')
    BY <1>1
  <2> QED BY <1>1, <2>1, <2>2, CommitsNotify
<1>5. Reports'
  BY <1>1 DEF IInv, Reports, RemovalsAreReported, ChecksAreExact, RebuildsRepair
<1> QED BY <1>2, <1>3, <1>4, <1>5

\* Quads and contexts are replaced by others; the rest of the tables stays.
Replaced(d, quads, graphs, terms) == [d EXCEPT !.quads = quads, !.graphs = graphs, !.terms = terms]
\* Documents, owners and contexts stay.
LEMMA TablesChange ==
    ASSUME NEW d, NEW r, TablesOk(d, r), NEW quads, NEW graphs, NEW terms, NEW new,
           new = Replaced(d, quads, graphs, terms)
    PROVE  /\ TablesOk(new, r) /\ Steady(d, new, r, r) /\ new.quads = quads /\ new.docs = d.docs /\ new.owned = d.owned
           /\ Stored(new) = Stored(d)
<1>1. d = [quads |-> d.quads, graphs |-> d.graphs, terms |-> d.terms, owned |-> d.owned, docs |-> d.docs, contexts |-> d.contexts]
  BY DEF TablesOk
<1>2. new = [quads |-> quads, graphs |-> graphs, terms |-> terms, owned |-> d.owned, docs |-> d.docs, contexts |-> d.contexts]
  BY <1>1 DEF Replaced
<1>3. /\ new.quads = quads /\ new.graphs = graphs /\ new.terms = terms /\ new.owned = d.owned /\ new.docs = d.docs /\ new.contexts = d.contexts
      /\ new = [quads |-> new.quads, graphs |-> new.graphs, terms |-> new.terms, owned |-> new.owned, docs |-> new.docs, contexts |-> new.contexts]
  BY <1>2
<1>4. TablesOk(new, r)
  BY <1>3 DEF TablesOk
<1>5. Steady(d, new, r, r)
  BY <1>3 DEF Steady, Canon
<1> QED BY <1>3, <1>4, <1>5 DEF Stored

\* An update inserts a quad.
LEMMA InsertKeeps ==
    ASSUME IInv, NEW h \in Handles, NEW q, InsertQuad(h, q)
    PROVE  IInv'
<1> DEFINE quads == db.quads \cup {q}
           graphs == db.graphs \cup ({q[4]} \ {Default})
           terms == db.terms \cup {q[4]}
           new == [db EXCEPT !.quads = quads, !.graphs = graphs, !.terms = terms]
<1>1. TablesOk(db, respelled) /\ respelled \in BOOLEAN
  BY DEF IInv, Tables
<1>2. /\ Other(h, new, {NoName}) /\ db' = new /\ UNCHANGED <<options, made, contested, crossed, respelled>>
      /\ users' = users \cup {q} /\ touched' = touched \cup {q[4]}
  BY <1>1 DEF InsertQuad, Other, TablesOk
<1>3. new = Replaced(db, quads, graphs, terms)
  BY DEF Replaced
<1> HIDE DEF new, quads, graphs, terms
<1>4. /\ TablesOk(new, respelled) /\ Steady(db, new, respelled, respelled) /\ new.quads = quads /\ new.docs = db.docs /\ new.owned = db.owned
      /\ Stored(new) = Stored(db)
  BY <1>1, <1>3, TablesChange
<1>5. (Tables /\ Rows /\ Jobs /\ Reports)'
  <2>1. NoName \in {NoName}
    OBVIOUS
  <2> QED BY <1>1, <1>2, <1>4, <2>1, OthersCommit
<1>6. GraphsAreTheirDocuments'
  <2> SUFFICES ASSUME NEW g \in DOMAIN db'.owned \ touched'
               PROVE  db'.owned[g] \in Stored(db') /\ InGraph(db'.quads, g) = InGraph(made'[db'.owned[g]], g)
    BY DEF GraphsAreTheirDocuments
  <2>1. g \in DOMAIN db.owned \ touched /\ g # q[4]
    BY <1>2, <1>4
  <2>2. db.owned[g] \in Stored(db) /\ InGraph(db.quads, g) = InGraph(made[db.owned[g]], g)
    BY <2>1 DEF IInv, GraphsAreTheirDocuments
  <2>3. InGraph(db'.quads, g) = InGraph(db.quads, g)
    BY <1>2, <1>4, <2>1 DEF InGraph, quads
  <2> QED BY <1>2, <1>4, <2>2, <2>3
<1>7. Homes'
  <2> SUFFICES ASSUME Uniform', ~crossed', ~respelled', NEW x \in db'.quads, x \notin users', x[4] \notin contested'
               PROVE  \E k \in Stored(db') : x \in made'[k] /\ Home(db', x, k, Sharing')
    BY DEF Homes
  <2>1. Uniform /\ ~crossed /\ ~respelled /\ Sharing' = Sharing /\ x \in db.quads /\ x \notin users /\ x[4] \notin contested
    BY <1>2, <1>4 DEF Uniform, Sharing, quads
  <2>2. PICK k \in Stored(db) : x \in made[k] /\ Home(db, x, k, Sharing)
    BY <2>1 DEF IInv, Homes
  <2>3. Home(db', x, k, Sharing')
    BY <1>2, <1>4, <2>1, <2>2 DEF Home
  <2> QED BY <1>2, <1>4, <2>2, <2>3
<1> QED BY <1>5, <1>6, <1>7 DEF IInv

\* An update deletes a quad.
LEMMA DeleteKeeps ==
    ASSUME IInv, NEW h \in Handles, NEW q, DeleteQuad(h, q)
    PROVE  IInv'
<1> DEFINE quads == db.quads \ {q}
           graphs == db.graphs
           terms == db.terms
           new == [db EXCEPT !.quads = quads, !.graphs = graphs, !.terms = terms]
<1>1. TablesOk(db, respelled) /\ respelled \in BOOLEAN
  BY DEF IInv, Tables
<1>2. /\ Other(h, new, {NoName}) /\ db' = new /\ UNCHANGED <<options, made, contested, crossed, respelled>>
      /\ users' = users \ {q} /\ touched' = touched \cup {q[4]}
  <2>1. [db EXCEPT !.quads = @ \ {q}] = new
    BY <1>1 DEF TablesOk
  <2> QED BY <2>1 DEF DeleteQuad, Other
<1>3. new = Replaced(db, quads, graphs, terms)
  BY DEF Replaced
<1> HIDE DEF new, quads, graphs, terms
<1>4. /\ TablesOk(new, respelled) /\ Steady(db, new, respelled, respelled) /\ new.quads = quads /\ new.docs = db.docs /\ new.owned = db.owned
      /\ Stored(new) = Stored(db)
  BY <1>1, <1>3, TablesChange
<1>5. (Tables /\ Rows /\ Jobs /\ Reports)'
  <2>1. NoName \in {NoName}
    OBVIOUS
  <2> QED BY <1>1, <1>2, <1>4, <2>1, OthersCommit
<1>6. GraphsAreTheirDocuments'
  <2> SUFFICES ASSUME NEW g \in DOMAIN db'.owned \ touched'
               PROVE  db'.owned[g] \in Stored(db') /\ InGraph(db'.quads, g) = InGraph(made'[db'.owned[g]], g)
    BY DEF GraphsAreTheirDocuments
  <2>1. g \in DOMAIN db.owned \ touched /\ g # q[4]
    BY <1>2, <1>4
  <2>2. db.owned[g] \in Stored(db) /\ InGraph(db.quads, g) = InGraph(made[db.owned[g]], g)
    BY <2>1 DEF IInv, GraphsAreTheirDocuments
  <2>3. InGraph(db'.quads, g) = InGraph(db.quads, g)
    BY <1>2, <1>4, <2>1 DEF InGraph, quads
  <2> QED BY <1>2, <1>4, <2>2, <2>3
<1>7. Homes'
  <2> SUFFICES ASSUME Uniform', ~crossed', ~respelled', NEW x \in db'.quads, x \notin users', x[4] \notin contested'
               PROVE  \E k \in Stored(db') : x \in made'[k] /\ Home(db', x, k, Sharing')
    BY DEF Homes
  <2>1. Uniform /\ ~crossed /\ ~respelled /\ Sharing' = Sharing /\ x \in db.quads /\ x \notin users /\ x[4] \notin contested
    BY <1>2, <1>4 DEF Uniform, Sharing, quads
  <2>2. PICK k \in Stored(db) : x \in made[k] /\ Home(db, x, k, Sharing)
    BY <2>1 DEF IInv, Homes
  <2>3. Home(db', x, k, Sharing')
    BY <1>2, <1>4, <2>1, <2>2 DEF Home
  <2> QED BY <1>2, <1>4, <2>2, <2>3
<1> QED BY <1>5, <1>6, <1>7 DEF IInv

\* The store is cleared: documents stay, and every owned graph is touched.
LEMMA ClearKeeps ==
    ASSUME IInv, NEW h \in Handles, ClearStore(h)
    PROVE  IInv'
<1> DEFINE new == [db EXCEPT !.quads = {}, !.graphs = {}, !.terms = {}]
<1>1. TablesOk(db, respelled) /\ respelled \in BOOLEAN
  BY DEF IInv, Tables
<1>2. /\ Other(h, new, Everything) /\ db' = new /\ UNCHANGED <<options, made, contested, crossed, respelled>>
      /\ DOMAIN db.owned \subseteq touched'
  BY DEF ClearStore, Other
<1>3. new = Replaced(db, {}, {}, {})
  BY DEF Replaced
<1> HIDE DEF new
<1>4. TablesOk(new, respelled) /\ Steady(db, new, respelled, respelled) /\ new.quads = {} /\ new.docs = db.docs /\ new.owned = db.owned
  BY <1>1, <1>3, TablesChange
<1>5. (Tables /\ Rows /\ Jobs /\ Reports)'
  <2>1. NoName \in Everything
    BY DEF Everything
  <2> QED BY <1>1, <1>2, <1>4, <2>1, OthersCommit
<1>6. GraphsAreTheirDocuments'
  BY <1>2, <1>4 DEF GraphsAreTheirDocuments
<1>7. Homes'
  BY <1>2, <1>4 DEF Homes
<1> QED BY <1>5, <1>6, <1>7 DEF IInv

\* Contexts are replaced.
LEMMA ContextsKeep ==
    ASSUME IInv, NEW h \in Handles, NEW contexts \in Knowns, NEW new, new = [db EXCEPT !.contexts = contexts],
           Other(h, new, {NoName}), respelled' \in BOOLEAN, UNCHANGED <<made, users, touched, contested, crossed>>,
           ~respelled' => /\ ~respelled
                          /\ \A i \in ContextIris : Remote[i] # None => contexts[i] \in {None, Remote[i]}
                          /\ \A i \in ContextIris : Remote[i] = None => db.contexts[i] \in {None, contexts[i]}
    PROVE  IInv'
<1>1. TablesOk(db, respelled) /\ db' = new /\ options' = options
  BY DEF IInv, Tables, Other
<1>2. new = [quads |-> db.quads, graphs |-> db.graphs, terms |-> db.terms, owned |-> db.owned, docs |-> db.docs, contexts |-> contexts]
  BY <1>1 DEF TablesOk
<1>3. /\ new.quads = db.quads /\ new.owned = db.owned /\ new.docs = db.docs /\ new.contexts = contexts
      /\ new = [quads |-> new.quads, graphs |-> new.graphs, terms |-> new.terms, owned |-> new.owned, docs |-> new.docs, contexts |-> new.contexts]
  BY <1>2
<1>4. TablesOk(new, respelled')
  BY <1>1, <1>3 DEF TablesOk
<1>5. Steady(db, new, respelled, respelled')
  BY <1>3 DEF Steady, Canon
<1>6. (Tables /\ Rows /\ Jobs /\ Reports)'
  <2>1. NoName \in {NoName}
    OBVIOUS
  <2> QED BY <1>3, <1>4, <1>5, <2>1, OthersCommit
<1>7. Stored(db') = Stored(db)
  BY <1>1, <1>3 DEF Stored
<1>8. GraphsAreTheirDocuments'
  BY <1>1, <1>3, <1>7 DEF IInv, GraphsAreTheirDocuments
<1>9. Homes'
  <2> SUFFICES ASSUME Uniform', ~crossed', ~respelled', NEW x \in db'.quads, x \notin users', x[4] \notin contested'
               PROVE  \E k \in Stored(db') : x \in made'[k] /\ Home(db', x, k, Sharing')
    BY DEF Homes
  <2>1. Uniform /\ ~crossed /\ ~respelled /\ Sharing' = Sharing /\ x \in db.quads /\ x \notin users /\ x[4] \notin contested
    BY <1>1, <1>3 DEF Uniform, Sharing
  <2>2. PICK k \in Stored(db) : x \in made[k] /\ Home(db, x, k, Sharing)
    BY <2>1 DEF IInv, Homes
  <2>3. Home(db', x, k, Sharing')
    BY <1>1, <1>3, <2>1, <2>2 DEF Home
  <2> QED BY <1>7, <2>2, <2>3
<1> QED BY <1>6, <1>8, <1>9 DEF IInv

\* A context is persisted.
LEMMA PutContextKeeps ==
    ASSUME IInv, NEW h \in Handles, NEW s \in Saved, PutContext(h, s[1], s[2])
    PROVE  IInv'
<1> DEFINE iri == s[1]
           text == <<s[2]>>
           contexts == [db.contexts EXCEPT ![iri] = text]
           new == [db EXCEPT !.contexts = contexts]
<1>1. TablesOk(db, respelled) /\ respelled \in BOOLEAN /\ db.contexts \in Knowns
  BY DEF IInv, Tables, TablesOk
<1>2. iri \in ContextIris /\ text \in Texts
  BY ContextsAssumption DEF Texts
<1>3. contexts \in Knowns /\ contexts[iri] = text /\ \A i \in ContextIris \ {iri} : contexts[i] = db.contexts[i]
  BY <1>1, <1>2 DEF Knowns
<1>4. Other(h, new, {NoName}) /\ UNCHANGED <<made, users, touched, contested, crossed>>
      /\ respelled' = (respelled \/ {db.contexts[iri], Remote[iri]} \ {None, text} # {})
  BY DEF PutContext
<1> HIDE DEF contexts, iri, text
<1>5. ~respelled' => /\ ~respelled
                     /\ \A i \in ContextIris : Remote[i] # None => contexts[i] \in {None, Remote[i]}
                     /\ \A i \in ContextIris : Remote[i] = None => db.contexts[i] \in {None, contexts[i]}
  <2> SUFFICES ASSUME ~respelled'
               PROVE  /\ ~respelled
                      /\ \A i \in ContextIris : Remote[i] # None => contexts[i] \in {None, Remote[i]}
                      /\ \A i \in ContextIris : Remote[i] = None => db.contexts[i] \in {None, contexts[i]}
    OBVIOUS
  <2>1. ~respelled /\ db.contexts[iri] \in {None, text} /\ Remote[iri] \in {None, text}
    BY <1>4
  <2>2. \A i \in ContextIris : Remote[i] # None => db.contexts[i] \in {None, Remote[i]}
    BY <1>1, <2>1 DEF TablesOk
  <2> QED BY <1>3, <2>1, <2>2
<1>6. respelled' \in BOOLEAN
  BY <1>1, <1>4
<1> QED BY <1>3, <1>4, <1>5, <1>6, ContextsKeep

\* A persisted context is removed.
LEMMA RemoveContextKeeps ==
    ASSUME IInv, NEW h \in Handles, NEW s \in Saved, RemoveContext(h, s[1])
    PROVE  IInv'
<1> DEFINE iri == s[1]
           contexts == [db.contexts EXCEPT ![iri] = None]
           new == [db EXCEPT !.contexts = contexts]
<1>1. TablesOk(db, respelled) /\ respelled \in BOOLEAN /\ db.contexts \in Knowns
  BY DEF IInv, Tables, TablesOk
<1>2. iri \in ContextIris /\ None \in Texts
  BY ContextsAssumption DEF Texts
<1>3. contexts \in Knowns /\ contexts[iri] = None /\ \A i \in ContextIris \ {iri} : contexts[i] = db.contexts[i]
  BY <1>1, <1>2 DEF Knowns
<1>4. Other(h, new, {NoName}) /\ UNCHANGED <<made, users, touched, contested, crossed>> /\ respelled' = (respelled \/ db.contexts[iri] # None)
  BY DEF RemoveContext
<1> HIDE DEF contexts, iri
<1>5. ~respelled' => /\ ~respelled
                     /\ \A i \in ContextIris : Remote[i] # None => contexts[i] \in {None, Remote[i]}
                     /\ \A i \in ContextIris : Remote[i] = None => db.contexts[i] \in {None, contexts[i]}
  BY <1>1, <1>3, <1>4 DEF TablesOk
<1>6. respelled' \in BOOLEAN
  BY <1>1, <1>4
<1> QED BY <1>3, <1>4, <1>5, <1>6, ContextsKeep
-----------------------------------------------------------------------------
(* The theorem.                                                            *)

\* Nothing is stored, no handle is doing anything, and nothing is told.
LEMMA InitHasIt ==
    ASSUME Init
    PROVE  IInv
<1> DEFINE docs == [k \in Keys |-> None]
           contexts == [i \in ContextIris |-> None]
<1>1. /\ db = [quads |-> {}, graphs |-> {}, terms |-> {}, owned |-> <<>>, docs |-> docs, contexts |-> contexts]
      /\ options \in OptionSets /\ job = [h \in Handles |-> Idle] /\ report = [h \in Handles |-> Nothing]
      /\ made = [k \in Keys |-> {}] /\ users = {} /\ touched = {} /\ contested = {} /\ crossed = FALSE /\ respelled = FALSE
  BY DEF Init
<1>2. docs = [k \in Keys |-> docs[k]] /\ (\A k \in Keys : docs[k] = None) /\ contexts \in Knowns /\ \A i \in ContextIris : contexts[i] = None
  BY DEF Knowns, Texts
<1> HIDE DEF docs, contexts
<1>3. /\ db.quads = {} /\ db.owned = <<>> /\ db.docs = docs /\ db.contexts = contexts
      /\ db = [quads |-> db.quads, graphs |-> db.graphs, terms |-> db.terms, owned |-> db.owned, docs |-> db.docs, contexts |-> db.contexts]
  BY <1>1
<1>4. DOMAIN <<>> = {} /\ <<>> = [g \in {} |-> <<>>[g]]
  OBVIOUS
<1>5. TablesOk(db, FALSE)
  BY <1>2, <1>3, <1>4 DEF TablesOk
<1>6. Tables
  BY <1>1, <1>5 DEF Tables
<1>7. Stored(db) = {}
  BY <1>2, <1>3 DEF Stored
<1>8. Rows
  BY <1>1, <1>7 DEF Rows
<1>9. Jobs
  BY <1>1, IdleOk DEF Jobs
<1>10. Homes
  BY <1>3 DEF Homes
<1>11. GraphsAreTheirDocuments
  BY <1>3, <1>4 DEF GraphsAreTheirDocuments
<1>12. Reports
  <2>1. Nothing.of = "nothing"
    BY DEF Nothing
  <2> QED BY <1>1, <2>1 DEF Reports, RemovalsAreReported, ChecksAreExact, RebuildsRepair
<1> QED BY <1>6, <1>8, <1>9, <1>10, <1>11, <1>12 DEF IInv

\* Every step keeps the invariant.
LEMMA NextKeepsIt ==
    ASSUME IInv, Next
    PROVE  IInv'
<1>1. PICK h \in Handles :
        \/ Step(h) \/ Fail(h) \/ Check(h) \/ ClearStore(h)
        \/ \E b \in Batches : Put(h, b)
        \/ \E p \in Presentations : PutPresentation(h, p)
        \/ \E k \in Keys : Remove_(h, k) \/ Rebuild(h, k)
        \/ \E q \in Edits : InsertQuad(h, q) \/ DeleteQuad(h, q)
        \/ \E s \in Saved : PutContext(h, s[1], s[2]) \/ RemoveContext(h, s[1])
  BY DEF Next
<1>2. options \in OptionSets
  BY DEF IInv, Tables
<1>3. CASE Step(h)
  BY <1>3, ReadOldKeeps, ReadContextsKeeps, FetchKeeps, WriteKeeps, ReadRowKeeps, CheckContextsKeeps, ReadPageKeeps, CheckQuadsKeeps DEF Step
<1>4. CASE Fail(h)
  BY <1>4, FailKeeps
<1>5. CASE Check(h)
  BY <1>5, CheckKeeps
<1>6. CASE ClearStore(h)
  BY <1>6, ClearKeeps
<1>7. CASE \E b \in Batches : Put(h, b)
  <2>1. PICK b \in Batches : Put(h, b)
    BY <1>7
  <2>2. Inputs(b, options[h])
    BY <1>2, InputsAssumption
  <2>3. Call(h) /\ Becomes(h, WriteJob("put", b, {}, options[h])) /\ UNCHANGED <<options, db, report, ghosts>>
    BY <2>1 DEF Put
  <2> QED BY <2>2, <2>3, PutKeeps
<1>8. CASE \E p \in Presentations : PutPresentation(h, p)
  <2>1. PICK p \in Presentations : PutPresentation(h, p)
    BY <1>8
  <2> DEFINE b == presentation_inputs(options[h], p)
  <2>2. Inputs(b, options[h])
    BY <1>2, InputsAssumption
  <2>3. Call(h) /\ Becomes(h, WriteJob("put", b, {}, options[h])) /\ UNCHANGED <<options, db, report, ghosts>>
    BY <2>1 DEF PutPresentation
  <2> HIDE DEF b
  <2> QED BY <2>2, <2>3, PutKeeps
<1>9. CASE \E k \in Keys : Remove_(h, k) \/ Rebuild(h, k)
  BY <1>9, RemoveKeeps, RebuildKeeps
<1>10. CASE \E q \in Edits : InsertQuad(h, q) \/ DeleteQuad(h, q)
  BY <1>10, InsertKeeps, DeleteKeeps
<1>11. CASE \E s \in Saved : PutContext(h, s[1], s[2]) \/ RemoveContext(h, s[1])
  BY <1>11, PutContextKeeps, RemoveContextKeeps
<1> QED BY <1>1, <1>3, <1>4, <1>5, <1>6, <1>7, <1>8, <1>9, <1>10, <1>11

\* So does no step.
LEMMA StutterKeepsIt ==
    ASSUME IInv, UNCHANGED vars
    PROVE  IInv'
<1>1. UNCHANGED <<options, db, job, report, made, users, touched, contested, crossed, respelled>>
  BY DEF vars, ghosts
<1>2. Tables' /\ Rows' /\ Jobs'
  BY <1>1 DEF IInv, Tables, Rows, Jobs
<1>3. Homes' /\ GraphsAreTheirDocuments'
  BY <1>1 DEF IInv, Homes, Uniform, Sharing, GraphsAreTheirDocuments
<1>4. Reports'
  BY <1>1 DEF IInv, Reports, RemovalsAreReported, ChecksAreExact, RebuildsRepair
<1> QED BY <1>2, <1>3, <1>4 DEF IInv

\* The invariant says what the properties say.
LEMMA ItTellsAll ==
    ASSUME IInv
    PROVE  DocumentsAreTheirQuads
<1>1. ReplacedTriplesGo
  BY DEF IInv, Homes, ReplacedTriplesGo
<1>2. GraphsAreTheirDocuments /\ RemovalsAreReported /\ ChecksAreExact /\ RebuildsRepair
  BY DEF IInv, Reports
<1> QED BY <1>1, <1>2 DEF DocumentsAreTheirQuads

\* Documents and the quads converted from them agree, whatever writes, checks
\* and rebuilds of any number of handles meet: a graph that a document owns
\* holds the quads of the stored version, what a replaced or removed version
\* stated goes, a removal tells whether the row was there, a check that
\* nothing disturbs reports exactly the documents that differ, and a rebuild
\* leaves none (WriteJob, CheckJob, RebuildJob).
THEOREM DocumentsStayTheirQuads == Spec => []DocumentsAreTheirQuads
<1>1. Init => IInv
  BY InitHasIt
<1>2. IInv /\ [Next]_vars => IInv'
  BY NextKeepsIt, StutterKeepsIt
<1>3. IInv => DocumentsAreTheirQuads
  BY ItTellsAll
<1> QED BY <1>1, <1>2, <1>3, PTL DEF Spec
=============================================================================
