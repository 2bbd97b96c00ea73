---------------------------- MODULE MCDocuments -----------------------------
(***************************************************************************)
(* Documents for TLC: two handles, three documents and a new version of    *)
(* one of them, contexts that import one another, and the options that     *)
(* make writes differ.                                                     *)
(***************************************************************************)
EXTENDS Documents

NoContexts == [i \in ContextIris |-> None]
c1 == [imports |-> "c2", name |-> ""]
c2 == [imports |-> "", name |-> "nm"]
c2_respelled == [imports |-> "", name |-> "nm2"]

MCHandles == {"h1", "h2"}
MCContextIris == {"c1", "c2"}
MCBundled == [i \in ContextIris |-> IF i = "c2" THEN <<c2>> ELSE None]
MCRemote == [i \in ContextIris |-> IF i = "c1" THEN <<c1>> ELSE None]
MCRank == [k1 |-> 1, k2 |-> 2, k3 |-> 3]
MCIris == {"k1", "k2", "k3"}

Document(id, context, plain, nested) == [id |-> id, hash |-> "k3", context |-> context, valid |-> TRUE, plain |-> plain, nested |-> nested]
d1 == Document("k1", "", {<<"a", "p", "_:0">>, <<"a", "p", "c">>}, {})
d1_next == Document("k1", "", {<<"a", "p", "b">>}, {<<"_:1", <<"a", "p", "b">>>>})
d2 == Document("k2", "c1", {<<"a", "name", "b">>, <<"_:0", "p", "b">>, <<"a", "_:p", "b">>}, {<<"n", <<"a", "p", "b">>>>})
d3 == Document("", "", {<<"_:0", "p", "c">>}, {<<"n", <<"c", "p", "a">>>>})
d3_invalid == [d3 EXCEPT !.valid = FALSE]

In(doc, key) == [doc |-> doc, key |-> key]
MCBatches == {<<In(d1, "")>>, <<In(d1_next, "")>>, <<In(d2, "")>>, <<In(d3, "")>>, <<In(d3_invalid, "k3")>>}
MCPresentations == {[doc |-> d3, credentials |-> <<[doc |-> d1_next, enveloped |-> FALSE], [doc |-> d2, enveloped |-> TRUE], [doc |-> d1, enveloped |-> FALSE]>>]}
MCEdits == {<<<<"iri", "c">>, "p", <<"iri", "b">>, <<"iri", "k1">>>>}
MCSaved == {<<"c1", c1>>, <<"c2", c2_respelled>>}

Options(graph, interactive) ==
    [graph |-> graph, key |-> "id", on_missing_key |-> "error", interactive |-> interactive, contexts |-> NoContexts, bundled |-> TRUE, fetch |-> FALSE, cache_fetched |-> FALSE, embed |-> TRUE]
Both(o) == [h \in MCHandles |-> o]
MCOptionSets ==
    {Both(Options("key", FALSE)), Both(Options("default", FALSE)),
     Both([Options("fixed", TRUE) EXCEPT !.on_missing_key = "hash", !.fetch = TRUE, !.cache_fetched = TRUE]),
     [h1 |-> [Options("template", FALSE) EXCEPT !.key = "hash", !.bundled = FALSE, !.fetch = TRUE],
      h2 |-> [Options("default", TRUE) EXCEPT !.key = "explicit", !.embed = FALSE, !.contexts = [c1 |-> <<c1>>, c2 |-> None]]]}
=============================================================================
