---------------------------- MODULE CypherMatch -----------------------------
(***************************************************************************)
(* MATCH and OPTIONAL MATCH as they are lowered to SPARQL: alternatives by *)
(* length, each evaluated on its own, joined with the rows so far, with    *)
(* the filters an alternative cannot evaluate itself applied afterwards.   *)
(* Against it, matching as Cypher defines it: trails in a property graph.  *)
(***************************************************************************)
EXTENDS PropertyGraph, Inputs

CONSTANTS
    MatchGraphs,   \* sets of triples
    Clauses,       \* [parts, optional]: see Links
    OuterScopes,   \* of the earlier clauses: variable -> may it be null
    VarLengthCap   \* var_length_cap, the length of unbounded patterns

\* Variables are numbers; -v stands for the copy of v that a pattern compares
\* with a v that may be null.  A node pattern is [var, labels, props]; a
\* relationship pattern is [types, dir, min, max, named, props], min = Single
\* if it has no length, max = Unbounded if it has no upper bound.
Single == 99
Unbounded == 98

\* What a hop that does not look its reifier up has for it.
Unread == -1

-----------------------------------------------------------------------------
(***************************************************************************)
(* Patterns, flattened.                                                    *)
(***************************************************************************)
FoldParts(f(_), parts) == FoldLeft(LAMBDA acc, p : acc \o f(p), <<>>, parts)

NodePatterns(parts) == FoldParts(LAMBDA p : <<p.start>> \o [i \in DOMAIN p.chain |-> p.chain[i].end], parts)
Links(parts) ==
    FoldParts(LAMBDA p : [i \in DOMAIN p.chain |->
        [from |-> IF i = 1 THEN p.start.var ELSE p.chain[i - 1].end.var, rel |-> p.chain[i].rel, to |-> p.chain[i].end.var]],
              parts)
VarsOf(parts) == {np.var : np \in ToSet(NodePatterns(parts))}

\* Unbounded and unnamed: reachability instead of trails.
IsReach(rel) ==
    rel.min \in {0, 1} /\ rel.max = Unbounded /\ ~rel.named /\ rel.props = {} /\ rel.dir # "both"

\* A reachability link stands for itself, marked by length Unbounded.
Lengths(rel) ==
    CASE rel.min = Single -> {1}
      [] IsReach(rel) -> {Unbounded}
      [] OTHER -> rel.min .. (IF rel.max = Unbounded THEN VarLengthCap ELSE rel.max)

-----------------------------------------------------------------------------
(***************************************************************************)
(* Hops.  side tells the two directions of an undirected pattern apart.    *)
(***************************************************************************)
OfType(d, rel, s, o) == {t \in Triples(d) : t[1] = s /\ t[3] = o /\ (rel.types = {} \/ t[2] \in rel.types)}

\* Properties need the reifier; a named relationship reads it if there is one.
ReadRids(d, rel, uniq, t) ==
    IF rel.props # {} THEN {r \in ReifiersOf(d, t) : rel.props \subseteq PropsOf(d, r)}
    ELSE IF rel.named \/ uniq THEN RidsOf(d, t) ELSE {Unread}

hop_triple(d, rel, uniq, s, o, side) ==
    UNION {{[t |-> t, rid |-> r, side |-> side] : r \in ReadRids(d, rel, uniq, t)} : t \in OfType(d, rel, s, o)}

\* A mutant: a loop matches an undirected pattern in both directions.
RelHopsLoopTwice(d, rel, uniq, a, b) ==
    (IF rel.dir = "left" THEN {} ELSE hop_triple(d, rel, uniq, a, b, 1))
    \cup (IF rel.dir = "right" THEN {} ELSE hop_triple(d, rel, uniq, b, a, 2))

\* A loop matches an undirected pattern once.
RelHops(d, rel, uniq, a, b) ==
    (IF rel.dir = "left" THEN {} ELSE hop_triple(d, rel, uniq, a, b, 1))
    \cup (IF rel.dir = "right" \/ (rel.dir = "both" /\ a = b) THEN {} ELSE hop_triple(d, rel, uniq, b, a, 2))

\* Parallel relationships differ by reifier, if both were looked up.
same_edge(a, b) == a.t = b.t /\ (a.rid = Unread \/ b.rid = Unread \/ a.rid = b.rid)

IsTrail(hops) == \A i, j \in DOMAIN hops : i < j => ~same_edge(hops[i], hops[j])

\* The walks of length k from a to b, as sequences of hops.
Walks(d, rel, uniq, k, a, b) ==
    LET Step(ws, i) ==
            UNION {UNION {{[hops |-> Append(w.hops, h), at |-> n] : h \in RelHops(d, rel, uniq, w.at, n)} :
                          n \in IF i = k THEN {b} ELSE Nodes(d)} : w \in ws}
    IN  {w.hops : w \in FoldLeft(Step, {[hops |-> <<>>, at |-> a]}, [i \in 1 .. k |-> i])}

\* Property paths: one or more steps, or zero or more, which relates every
\* subject of the graph to itself (and every literal and label, left out here).
Reach(d, rel) ==
    LET step(S) == {n \in Nodes(d) : \E m \in S : OfType(d, rel, IF rel.dir = "left" THEN n ELSE m, IF rel.dir = "left" THEN m ELSE n) # {}}
        From(n) == FoldLeft(LAMBDA S, i : S \cup step(S), step({n}), [i \in 1 .. Cardinality(Nodes(d)) |-> i])
        terms == Nodes(d) \cup {q[2] : q \in d}
    IN  {e \in terms \X terms : e[2] \in From(e[1]) \/ (rel.min = 0 /\ e[1] = e[2])}

-----------------------------------------------------------------------------
(***************************************************************************)
(* One alternative: a length for every link.  Nodes no triple binds are    *)
(* enumerated if this clause introduced them; what an earlier clause bound *)
(* and no triple mentions is not bound in the alternative.                 *)
(***************************************************************************)
Slot(scope, v) == IF v \in DOMAIN scope /\ scope[v] THEN -v ELSE v

InTriples(scope, parts, ks) ==
    {Slot(scope, np.var) : np \in {x \in ToSet(NodePatterns(parts)) : x.labels \cup x.props # {}}}
    \cup UNION {{Slot(scope, Links(parts)[i].from), Slot(scope, Links(parts)[i].to)} : i \in {j \in DOMAIN ks : ks[j] # 0}}
Introduced(scope, parts) == {Slot(scope, v) : v \in {w \in VarsOf(parts) : w \notin DOMAIN scope \/ scope[w]}}
BoundIn(scope, parts, ks) == InTriples(scope, parts, ks) \cup Introduced(scope, parts)

Inner(d, scope, parts, ks, uniq) ==
    LET links == Links(parts)
        inTriples == InTriples(scope, parts, ks)
        terms == Nodes(d) \cup {q[2] : q \in d}
        Fits(row) ==
            /\ \A v \in DOMAIN row \ inTriples : row[v] \in Nodes(d)
            /\ \A np \in ToSet(NodePatterns(parts)) :
                  np.labels \cup np.props # {} =>
                      LET n == row[Slot(scope, np.var)] IN np.labels \subseteq LabelsOf(d, n) /\ np.props \subseteq PropsOf(d, n)
        \* The hops of the first i links.
        HopsOf(row) ==
            LET Extend(acc, i) ==
                    LET k == ks[i]
                        a == row[Slot(scope, links[i].from)]
                        b == row[Slot(scope, links[i].to)]
                    IN  CASE k = 0 -> acc
                          [] k = Unbounded -> IF <<a, b>> \in Reach(d, links[i].rel) THEN acc ELSE {}
                          [] OTHER -> {h \o w : h \in acc, w \in Walks(d, links[i].rel, uniq, k, a, b)}
            IN  FoldLeft(Extend, {<<>>}, [i \in DOMAIN ks |-> i])
        rows == {row \in [BoundIn(scope, parts, ks) -> terms] : Fits(row)}
    IN  UNION {{[row |-> row, hops |-> h, ks |-> ks] : h \in {g \in HopsOf(row) : IsTrail(g)}} : row \in rows}

\* Filters on what the alternative does not bind, once it is joined with the
\* outer row u: a copy must equal its original (null never does), and a link
\* of length 0 has one end.
JoinsWith(scope, parts, u, x) ==
    LET Val(v) == IF Slot(scope, v) \in DOMAIN x.row THEN x.row[Slot(scope, v)] ELSE u[v]
    IN  /\ \A v \in DOMAIN scope \cap VarsOf(parts) :
              Slot(scope, v) \in DOMAIN x.row => u[v] # None /\ u[v] = x.row[Slot(scope, v)]
        /\ \A i \in DOMAIN x.ks : x.ks[i] = 0 => Val(Links(parts)[i].from) = Val(Links(parts)[i].to)

\* The alternatives: a length for every link.
KeySeqs(parts) ==
    LET links == Links(parts)
    IN  {ks \in [DOMAIN links -> UNION {Lengths(links[i].rel) : i \in DOMAIN links}] :
            \A i \in DOMAIN links : ks[i] \in Lengths(links[i].rel)}

\* What the clause makes of an outer row: rows over all variables, and hops.
match_patterns(d, scope, parts, uniq, u) ==
    UNION {{[row |-> [v \in DOMAIN u \cup VarsOf(parts) |-> IF v \in DOMAIN u THEN u[v] ELSE x.row[v]], hops |-> x.hops, ks |-> x.ks] :
               x \in {y \in Inner(d, scope, parts, ks, uniq) : JoinsWith(scope, parts, u, y)}} : ks \in KeySeqs(parts)}

\* OPTIONAL MATCH keeps a row nothing matches, with nulls.
left_join(found, parts, u) ==
    IF found # {} THEN found
    ELSE {[row |-> [v \in DOMAIN u \cup VarsOf(parts) |-> IF v \in DOMAIN u THEN u[v] ELSE None], hops |-> <<>>, ks |-> <<>>]}

Lowered(d, scope, c, uniq, u) ==
    LET found == match_patterns(d, scope, c.parts, uniq, u)
    IN  IF c.optional THEN left_join(found, c.parts, u) ELSE found

-----------------------------------------------------------------------------
(***************************************************************************)
(* The reference: node variables are nodes, relationship patterns are      *)
(* walks over relationships, no relationship is used twice in a clause.    *)
(***************************************************************************)
RefHops(d, rel, a, b) ==
    {h \in UNION {{[t |-> t, rid |-> r] : r \in RidsOf(d, t)} : t \in Triples(d)} :
        /\ rel.types = {} \/ h.t[2] \in rel.types
        /\ rel.props \subseteq (IF h.rid = None THEN {} ELSE PropsOf(d, h.rid))
        /\ \/ rel.dir # "left" /\ h.t[1] = a /\ h.t[3] = b
           \/ rel.dir # "right" /\ h.t[1] = b /\ h.t[3] = a}

RefWalks(d, rel, k, a, b) ==
    LET ways == {ns \in [1 .. k + 1 -> Nodes(d)] : ns[1] = a /\ ns[k + 1] = b}
        all == UNION {RefHops(d, rel, m, n) : m \in Nodes(d), n \in Nodes(d)}
    IN  UNION {{h \in [1 .. k -> all] : \A i \in 1 .. k : h[i] \in RefHops(d, rel, ns[i], ns[i + 1])} : ns \in ways}

RefMatches(d, c, u) ==
    LET links == Links(c.parts)
        vars == VarsOf(c.parts) \cup DOMAIN u
        Fits(row) ==
            /\ \A v \in DOMAIN u : row[v] = u[v]
            /\ \A np \in ToSet(NodePatterns(c.parts)) :
                  /\ row[np.var] # None
                  /\ np.labels \subseteq LabelsOf(d, row[np.var]) /\ np.props \subseteq PropsOf(d, row[np.var])
        HopsOf(row, ks) ==
            FoldLeft(LAMBDA acc, i : {h \o w : h \in acc, w \in RefWalks(d, links[i].rel, ks[i], row[links[i].from], row[links[i].to])},
                     {<<>>}, [i \in DOMAIN ks |-> i])
        rows == {row \in [vars -> Nodes(d) \cup {None}] : Fits(row)}
        found == UNION {{[row |-> e[1], hops |-> h, ks |-> e[2]] : h \in {g \in HopsOf(e[1], e[2]) : IsInjective(g)}} :
                        e \in rows \X KeySeqs(c.parts)}
    IN  IF c.optional THEN left_join(found, c.parts, u) ELSE found

-----------------------------------------------------------------------------
OuterRows(d, scope) == {u \in [DOMAIN scope -> Nodes(d) \cup {None}] : \A v \in DOMAIN scope : ~scope[v] => u[v] # None}

MatchInit ==
    \E d \in MatchGraphs, c \in Clauses, scope \in OuterScopes, uniq \in BOOLEAN : \E u \in OuterRows(d, scope) :
        input = [of |-> "match", d |-> d, c |-> c, scope |-> scope, uniq |-> uniq, u |-> u]

HasReach(c) == \E l \in ToSet(Links(c.parts)) : IsReach(l.rel)
Parallel(d) == \E t \in Triples(d) : Cardinality(ReifiersOf(d, t)) > 1
AllNamed(c) == \A l \in ToSet(Links(c.parts)) : l.rel.named \/ l.rel.props # {}

\* A node pattern with properties and no label that takes a reifier for a node.
ReifierAsNode(d, c) ==
    \E np \in ToSet(NodePatterns(c.parts)) : np.props # {} /\ Described(d, np) \cap AllReifiers(d) # {}

\* Lowering finds each match once: alternatives by length and direction,
\* loops, reified and plain relationships, null and reused variables, and
\* lengths of zero all give exactly the trails Cypher defines.  Relationships
\* that are not looked up are only told apart by their triple, so the claim
\* is for graphs without parallel ones or for patterns that look them up.
MatchesAreTrails ==
    Is("match") /\ ~HasReach(input.c) /\ ~ReifierAsNode(input.d, input.c)
                /\ (input.uniq \/ AllNamed(input.c) \/ ~Parallel(input.d)) =>
        LET found == Lowered(input.d, input.scope, input.c, input.uniq, input.u)
            ref == RefMatches(input.d, input.c, input.u)
            Seen(x) == [x EXCEPT !.hops = [i \in DOMAIN @ |-> @[i].t]]
        IN  Cardinality(found) = Cardinality(ref) /\ {Seen(x) : x \in found} = {Seen(x) : x \in ref}

\* Unbounded unnamed patterns relate the same ends as the trails they replace,
\* in one row per pair of ends.  With length zero a reifier also reaches itself.
ReachabilityFindsTheEnds ==
    Is("match") /\ HasReach(input.c) /\ (AllReifiers(input.d) = {} \/ input.c.parts[1].chain[1].rel.min = 1) =>
        LET found == Lowered(input.d, input.scope, input.c, input.uniq, input.u)
            one == input.c.parts[1].chain[1].rel
            longest == Cardinality(Triples(input.d))
            bounded == [input.c EXCEPT !.parts[1].chain[1].rel = [one EXCEPT !.max = longest]]
        IN  {x.row : x \in found} = {x.row : x \in RefMatches(input.d, bounded, input.u)}

-----------------------------------------------------------------------------
(* shortestPath and allShortestPaths: a breadth-first search, one request  *)
(* per level, that records for every node reached the level and the edges  *)
(* it was first reached by, and paths read back from those.                *)
CONSTANTS
    PathEdges,   \* the edges graphs are made of, <<start, type, end>>
    PathTypes,   \* the types of a pattern
    MaxHops      \* upper bounds of patterns

EndsOf(E) == UNION {{e[1], e[3]} : e \in E}

\* The neighbours of x, with the edge; a loop counts in its own direction only.
adj(E, spec, x) ==
    LET types == {e \in E : spec.types = {} \/ e[2] \in spec.types}
    IN  (IF spec.dir = "left" THEN {} ELSE {<<e[3], e>> : e \in {f \in types : f[1] = x}})
        \cup (IF spec.dir = "right" THEN {} ELSE {<<e[1], e>> : e \in {f \in types : f[3] = x /\ f[1] # x}})

\* parents[y] has the level y was reached at and its edges from the level
\* before: all of them, or the first.
start_bfs(spec) ==
    [parents |-> [y \in {spec.from} |-> [level |-> 0, edges |-> {}]], frontier |-> {spec.from},
     level |-> 0, done |-> spec.min = 0 /\ spec.from = spec.to]

bfs_step(E, spec, b) ==
    LET level == b.level + 1
        new == {a[1] : a \in UNION {adj(E, spec, x) : x \in b.frontier}} \ DOMAIN b.parents
        into == [y \in new |-> {<<x, e>> \in b.frontier \X E : <<y, e>> \in adj(E, spec, x)}]
        Kept(S) == IF spec.all THEN S ELSE {CHOOSE p \in S : TRUE}
    IN  [parents |-> [y \in DOMAIN b.parents \cup new |-> IF y \in new THEN [level |-> level, edges |-> Kept(into[y])] ELSE b.parents[y]],
         frontier |-> new, level |-> level, done |-> spec.to \in new]

\* Levels are requested until the target is reached, nothing new is, or the
\* pattern allows no more.
Search(E, spec) ==
    FoldLeft(LAMBDA b, i : IF b.done \/ b.frontier = {} THEN b ELSE bfs_step(E, spec, b), start_bfs(spec), [i \in 1 .. spec.max |-> i])

\* The paths from the source to n by the recorded edges, as sequences of edges.
unfold(parents, spec) ==
    LET Back(ps, i) == UNION {{[at |-> pe[1], edges |-> <<pe[2]>> \o p.edges] :
                                  pe \in {x \in parents[p.at].edges : x[2] \notin ToSet(p.edges)}} : p \in ps}
        found == FoldLeft(Back, {[at |-> spec.to, edges |-> <<>>]}, [i \in 1 .. parents[spec.to].level |-> i])
    IN  {p.edges : p \in {q \in found : q.at = spec.from}}

\* What a row with these ends gets.
Found(E, spec) ==
    LET b == Search(E, spec)
    IN  IF spec.min = 0 /\ spec.from = spec.to THEN {<<>>}
        ELSE IF b.done THEN unfold(b.parents, spec) ELSE {}

-----------------------------------------------------------------------------
\* The walks of length k between two nodes, as sequences of edges.
PathWalks(E, spec, k) ==
    LET Step(ws, i) == UNION {{[at |-> a[1], edges |-> Append(w.edges, a[2])] : a \in adj(E, spec, w.at)} : w \in ws}
    IN  {w.edges : w \in {v \in FoldLeft(Step, {[at |-> spec.from, edges |-> <<>>]}, [i \in 1 .. k |-> i]) : v.at = spec.to}}

PathInit ==
    \E E \in SUBSET PathEdges, from \in EndsOf(PathEdges), to \in EndsOf(PathEdges), dir \in {"right", "left", "both"},
       min \in {0, 1}, max \in MaxHops, all \in BOOLEAN, types \in PathTypes :
        input = [of |-> "path", E |-> E,
                 spec |-> [from |-> from, to |-> to, dir |-> dir, min |-> min, max |-> max, all |-> all, types |-> types]]

\* allShortestPaths finds every walk of the least length there is between two
\* nodes, and shortestPath exactly one of them, within the bounds of the
\* pattern; a node has no path to itself but the empty one.
ShortestPathsAreShortest ==
    Is("path") =>
        LET spec == input.spec
            found == Found(input.E, spec)
            lengths == {k \in spec.min .. spec.max : PathWalks(input.E, spec, k) # {}}
            shortest == IF lengths = {} THEN {} ELSE PathWalks(input.E, spec, CHOOSE k \in lengths : \A l \in lengths : k <= l)
        IN  IF spec.from = spec.to /\ spec.min = 1 THEN found = {}
            ELSE IF spec.all THEN found = shortest
            ELSE found \subseteq shortest /\ Cardinality(found) = IF shortest = {} THEN 0 ELSE 1
=============================================================================
