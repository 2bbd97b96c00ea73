---------------------------- MODULE DocumentText ----------------------------
(***************************************************************************)
(* The text that the document tables hold and search: long documents in    *)
(* chunks, arrays of types as JSON, keys in pointers and graph templates,  *)
(* pages of keys. A text is a sequence of characters.                      *)
(***************************************************************************)
EXTENDS Inputs, Integers, Sequences, SequencesExt

CONSTANTS
    Texts,       \* texts of types, keys and pointer tokens
    Widths,      \* bytes of a character
    MaxChunk,    \* bytes of a chunk
    MaxLength    \* characters of a document

(* Chunks.                                                                 *)

Bytes(s) == FoldLeft(LAMBDA n, w : n + w, 0, s)
\* The last boundary between characters that is not past max bytes.
cut(s, max) == CHOOSE n \in 0 .. Len(s) : Bytes(SubSeq(s, 1, n)) <= max /\ \A m \in n + 1 .. Len(s) : Bytes(SubSeq(s, 1, m)) > max
split_chars(s, max) ==
    LET split[n \in 0 .. Len(s)] ==      \* the first n cuts: the chunks, and the rest
            IF n = 0 THEN [out |-> <<>>, rest |-> s]
            ELSE LET b == split[n - 1]
                 IN  IF Bytes(b.rest) > max
                     THEN [out |-> Append(b.out, SubSeq(b.rest, 1, cut(b.rest, max))), rest |-> SubSeq(b.rest, cut(b.rest, max) + 1, Len(b.rest))]
                     ELSE b
        end == split[Len(s)]
    IN  Append(end.out, end.rest)
\* The row after the insertion of the first chunk and the appends of the others.
document_statements(s, max) == FoldLeft(LAMBDA doc, chunk : doc \o chunk, <<>>, split_chars(s, max))

-----------------------------------------------------------------------------
(* Arrays of strings.                                                      *)

Quote == "quote"
Backslash == "backslash"
json_string(s) == <<Quote>> \o FoldLeft(LAMBDA out, c : out \o (IF c \in {Quote, Backslash} THEN <<Backslash, c>> ELSE <<c>>), <<>>, s) \o <<Quote>>
json_array(items) ==
    <<"[">> \o FoldLeft(LAMBDA out, s : out \o (IF out = <<>> THEN <<>> ELSE <<",">>) \o json_string(s), <<>>, items) \o <<"]">>
\* A character of an array read: in says whether it is inside a string, esc after a backslash.
ReadChar(st, c) ==
    CASE st.in /\ st.esc -> [st EXCEPT !.esc = FALSE, !.item = Append(@, c)]
      [] st.in /\ c = Backslash -> [st EXCEPT !.esc = TRUE]
      [] st.in /\ c = Quote -> [st EXCEPT !.in = FALSE, !.items = Append(@, st.item), !.item = <<>>]
      [] ~st.in /\ c = Quote -> [st EXCEPT !.in = TRUE]
      [] st.in -> [st EXCEPT !.item = Append(@, c)]
      [] OTHER -> st
parse_json_array(s) == FoldLeft(ReadChar, [in |-> FALSE, esc |-> FALSE, item |-> <<>>, items |-> <<>>], s).items
\* instr(t, s) > 0
Within(s, t) == \E i \in 0 .. Len(t) - Len(s) : SubSeq(t, i + 1, i + Len(s)) = s
\* find_sql's condition on types: instr of the quoted string.
HasType(items, type) == items # <<>> /\ Within(json_string(type), json_array(items))

-----------------------------------------------------------------------------
(* Keys.                                                                   *)

\* The characters of s with the first of each pair <<"~", d>> replaced by c, from the left.
replace(s, d, c) ==
    LET go[n \in 0 .. Len(s)] ==
            IF n = 0 THEN <<>>
            ELSE IF n >= 2 /\ s[n] = d /\ s[n - 1] = "~" THEN Append(go[n - 2], c) ELSE Append(go[n - 1], s[n])
    IN  go[Len(s)]
pointer_token(s) == replace(replace(s, "1", "/"), "0", "~")
\* RFC 6901's escapes of a member's name.
Escaped(s) == FoldLeft(LAMBDA out, c : out \o (IF c = "~" THEN <<"~", "0">> ELSE IF c = "/" THEN <<"~", "1">> ELSE <<c>>), <<>>, s)

Unreserved(c) == c \in {"a", "0", "1", "2", "5", "~", "/", ","}
Hex(c) == CASE c = " " -> <<"2", "0">> [] c = "%" -> <<"2", "5">> [] c = Quote -> <<"2", "2">> [] c = Backslash -> <<"5", "C">>
percent_encode(s) == FoldLeft(LAMBDA out, c : out \o (IF Unreserved(c) THEN <<c>> ELSE <<"%">> \o Hex(c)), <<>>, s)

-----------------------------------------------------------------------------
(* Pages: keys are numbers, in their order.                                *)

Some_(S) == {<<>>} \cup {<<x>> : x \in S}
Smallest(S, n) == {x \in S : Cardinality({y \in S : y < x}) < n}
\* A document's validity, <<>> for an open end.
Window(from, until) == [from |-> from, until |-> until]
ValidAt(w, t) == (w.from = <<>> \/ w.from[1] <= t) /\ (w.until = <<>> \/ w.until[1] > t)
find_sql(keys, w, at, after, limit) ==
    Smallest({k \in keys : (at = <<>> \/ ValidAt(w[k], at[1])) /\ (after = <<>> \/ k > after[1])}, IF limit > 1 THEN limit ELSE 1)
\* The pages that a reader asks for one after another, until one is empty.
Pages(keys, w, at, limit) ==
    LET page[n \in 0 .. Cardinality(keys)] ==
            IF n = 0 THEN [all |-> <<>>, after |-> <<>>]
            ELSE LET b == page[n - 1]
                     found == find_sql(keys, w, at, b.after, limit)
                 IN  [all |-> Append(b.all, found),
                      after |-> IF found = {} THEN b.after ELSE <<CHOOSE k \in found : \A j \in found : j <= k>>]
    IN  page[Cardinality(keys)].all

TextInit ==
    \/ \E s \in UNION {[1 .. n -> Widths] : n \in 0 .. MaxLength} : input = [of |-> "document", s |-> s]
    \/ \E s \in Texts, t \in Texts, u \in Texts : input = [of |-> "types", s |-> s, t |-> t, u |-> u]
    \/ \E keys \in SUBSET (1 .. 4), limit \in 0 .. 2, at \in Some_({1}) :
          \E w \in [keys -> {Window(<<>>, <<>>), Window(<<1>>, <<>>), Window(<<2>>, <<>>), Window(<<>>, <<1>>), Window(<<0>>, <<2>>)}] :
              input = [of |-> "keys", keys |-> keys, w |-> w, limit |-> limit, at |-> at]

-----------------------------------------------------------------------------
(* Laws.                                                                   *)

\* A document written in chunks is the document: no chunk is longer than
\* the limit, and the appends give back every character once, in order
\* (document_statements, split_chars).
ChunksAreTheDocument ==
    Is("document") => /\ document_statements(input.s, MaxChunk) = input.s
                      /\ \A i \in DOMAIN split_chars(input.s, MaxChunk) : Bytes(split_chars(input.s, MaxChunk)[i]) <= MaxChunk

\* What a row's JSON array of types reads back as is what was written, and
\* a search for a type finds the rows that have it, and no other as long as
\* no type contains a quote and the one searched is not a comma (json_array, parse_json_array, find_sql).
TypesAreFound ==
    Is("types") =>
        LET items == <<input.s, input.t>>
            plain == \A i \in 1 .. 2 : Quote \notin {items[i][j] : j \in DOMAIN items[i]}
        IN  /\ parse_json_array(json_array(items)) = items
            /\ input.u \in {input.s, input.t} => HasType(items, input.u)
            /\ plain /\ input.u # <<",">> /\ HasType(items, input.u) => input.u \in {input.s, input.t}

\* A pointer's token names the member whose name was escaped into it, and
\* different keys never get the same graph from a template: each document
\* owns its graph (pointer, percent_encode).
KeysStayApart ==
    Is("types") => /\ pointer_token(Escaped(input.s)) = input.s
                   /\ percent_encode(input.s) = percent_encode(input.t) => input.s = input.t

\* Reading page after page visits every document that is valid at the
\* instant asked for once, in the order of the keys (find_sql, list_job).
PagesVisitEveryKey ==
    Is("keys") =>
        LET pages == Pages(input.keys, input.w, input.at, input.limit)
        IN  /\ UNION {pages[i] : i \in DOMAIN pages} = {k \in input.keys : input.at = <<>> \/ ValidAt(input.w[k], input.at[1])}
            /\ \A i, j \in DOMAIN pages : i < j => \A k \in pages[i], l \in pages[j] : k < l
=============================================================================
