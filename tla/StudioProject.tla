--------------------------- MODULE StudioProject ----------------------------
(***************************************************************************)
(* The project of the studio: the files of a workspace in a scratch store, *)
(* each in the graph that the manifest or the conventions give it, shapes  *)
(* and rules kept aside, conclusions materialized by producer. A change on *)
(* disk reloads only the graphs of the files named.                        *)
(***************************************************************************)
EXTENDS Inputs, Integers, Sequences, FiniteSetsExt, SequencesExt, Functions

CONSTANTS
    Paths,          \* the paths of a workspace in their order, a sequence
    Workspaces,     \* pairs of what is on disk before and after an edit
    OwlConclusions, \* what OWL 2 RL concludes from a triple: triple -> triple
    Settings        \* profiles chosen in the editor

\* A file: what its text says it is, whether it parses, its triples, and for
\* a rule the triple it reads, the one it concludes, and whether it runs.
File(as, parses, triples, rule) == [as |-> as, parses |-> parses, triples |-> triples, rule |-> rule]
NoRule == [from |-> 0, to |-> 0, runs |-> FALSE]
Absent == File("absent", FALSE, {}, NoRule)
RdfRoles == {"Data", "Ontology", "Shapes"}
LoadedRoles == {"Data", "Ontology"}
ShapeRoles == {"Shapes", "Shex", "ShapeMap"}
\* A manifest names files; convention is the layout without one.
Manifest(shapes, rules, shex, maps, graphs, profile) ==
    [kind |-> "manifest", shapes |-> shapes, rules |-> rules, shex |-> shex, maps |-> maps, graphs |-> graphs, profile |-> profile]
convention == [Manifest({}, {}, {}, {}, <<>>, "") EXCEPT !.kind = "convention"]
Broken == [convention EXCEPT !.kind = "broken"]
Owl == "owl2rl"

-----------------------------------------------------------------------------
(* Layout.                                                                 *)

Assignment(role, graph) == [role |-> role, graph |-> graph]
Unassigned == Assignment("none", "")
\* The role and graph of a file: by the manifest alone, or by its text.
assign(layout, path, file) ==
    LET graphs == SelectSeq(layout.graphs, LAMBDA g : path \in g.files)
    IN  CASE layout.kind = "convention" -> IF file.as = "Other" THEN Unassigned ELSE Assignment(file.as, path)
          [] path \in layout.shapes -> Assignment("Shapes", path)
          [] path \in layout.rules -> Assignment("Rules", path)
          [] path \in layout.shex -> Assignment("Shex", path)
          [] path \in layout.maps -> Assignment("ShapeMap", path)
          [] graphs # <<>> -> Assignment(graphs[1].role, graphs[1].iri)
          [] OTHER -> Unassigned
assignment(p, path, disk) == IF disk.files[path] = Absent THEN Unassigned ELSE assign(p.layout, path, disk.files[path])
read_layout(p, disk) == [p EXCEPT !.layout = IF disk.manifest = Broken THEN convention ELSE disk.manifest, !.layout_error = (disk.manifest = Broken)]
profile(p) == IF p.layout.profile # "" THEN p.layout.profile ELSE p.setting

-----------------------------------------------------------------------------
(* Loading a file.                                                         *)

Parses(role, file) == file.parses /\ (IF role \in RdfRoles THEN file.as \in RdfRoles ELSE file.as = role)
load_path(p, path, disk) ==
    LET file == disk.files[path]
        a == assignment(p, path, disk)
        ok == a.role = "ShapeMap" \/ Parses(a.role, file)
        entry == [path |-> path, role |-> a.role, graph |-> a.graph,
                  triples |-> IF a.role \in RdfRoles /\ ok THEN Cardinality(file.triples) ELSE 0, error |-> ~ok]
        kept == IF ok \/ a.role = "Shex" THEN [p.aside EXCEPT ![a.role] = @ @@ (path :> file)] ELSE p.aside
        at == [p EXCEPT !.files = Append(@, entry), !.index = IF a.role \in RdfRoles \cup {"Shex"} THEN @ @@ (path :> file) ELSE @]
    IN  CASE a = Unassigned -> p
          [] a.role \in LoadedRoles -> [at EXCEPT !.store = @ \cup (IF ok THEN file.triples \X {a.graph} ELSE {})]
          [] OTHER -> [at EXCEPT !.aside = kept]

\* The graphs of the manifest's ontologies, registered for the graphs they apply to.
register_ontologies(p) ==
    IF p.layout.kind = "convention" THEN p
    ELSE [p EXCEPT !.registered = @ \cup {[graph |-> g.iri, applies |-> g.applies] : g \in {x \in Range(p.layout.graphs) : x.role = "Ontology"}}]

-----------------------------------------------------------------------------
(* Reasoning. An inference is claimed by the producer that concluded it    *)
(* first: inferred holds <<producer, triple>>.                             *)

Inferred(p) == {s[2] : s \in p.inferred}
Holding(p) == {q[1] : q \in p.store} \cup Inferred(p)
RECURSIVE Concluded(_, _)
\* What OWL concludes from triples and its own conclusions.
Concluded(from, out) ==
    LET next == {OwlConclusions[t] : t \in (from \cup out) \cap DOMAIN OwlConclusions}
    IN  IF next \subseteq out THEN out ELSE Concluded(from, out \cup next)
clear_inferences_of(p, producers) == [p EXCEPT !.inferred = {s \in @ : s[1] \notin producers}]
Claim(p, producer, triples) == [p EXCEPT !.inferred = @ \cup ({producer} \X (triples \ Inferred(p)))]
materialize(p) == LET q == clear_inferences_of(p, {Owl}) IN Claim(q, Owl, Concluded(Holding(q), {}))
\* One rule file, under its path: what it concludes, from the inferences of
\* the others too, replaces what it had concluded.
MaterializeRule(p, path) ==
    LET rule == p.aside["Rules"][path].rule
        kept == clear_inferences_of(p, {path})
    IN  IF rule.runs THEN [Claim(kept, path, IF rule.from \in Holding(kept) THEN {rule.to} ELSE {}) EXCEPT !.producers = @ \cup {path}]
        ELSE [kept EXCEPT !.errors = @ \cup {path}]
AfterRules(p, old) == [clear_inferences_of(p, old \ p.producers) EXCEPT !.owl = (profile(p) = Owl)]
AgainAfterRules(p) == IF p.owl /\ p.producers # {} THEN materialize(p) ELSE p
reason(p) ==
    LET started == IF profile(p) = Owl THEN materialize(p) ELSE IF p.owl THEN clear_inferences_of(p, {Owl}) ELSE p
        rules == SelectSeq(Paths, LAMBDA path : path \in DOMAIN p.aside["Rules"])
    IN  AgainAfterRules(AfterRules(FoldLeft(MaterializeRule, [started EXCEPT !.errors = {}, !.producers = {}], rules), p.producers))

-----------------------------------------------------------------------------
(* Loading everything, and what changed.                                   *)

Empty(setting) ==
    [layout |-> convention, layout_error |-> FALSE, setting |-> setting, files |-> <<>>, index |-> <<>>,
     aside |-> [r \in ShapeRoles \cup {"Rules"} |-> <<>>], store |-> {}, registered |-> {}, inferred |-> {}, producers |-> {}, owl |-> FALSE, errors |-> {}]
\* The files on disk in the order of their paths, over an empty store.
load_all(p, disk) ==
    reason(register_ontologies(FoldLeft(LAMBDA q, path : load_path(q, path, disk), read_layout(Empty(p.setting), disk), Paths)))
reload(p, disk) == load_all(p, disk)

\* The graphs that changed files belonged to or now belong to.
RolesOf(p, path, disk) == {<<f.role, f.graph>> : f \in {x \in Range(p.files) : x.path = path}} \cup {<<a.role, a.graph>> : a \in {assignment(p, path, disk)}}
ChangedGraphs(roles) == {x[2] : x \in {y \in roles : y[1] \in LoadedRoles}}
\* The changed files, and every other file of a graph that is cleared.
Refilled(p, changed, graphs) == changed \cup {f.path : f \in {x \in Range(p.files) : x.graph \in graphs /\ x.role \in LoadedRoles}}
WithoutFiles(p, gone, graphs) ==
    [p EXCEPT !.files = SelectSeq(@, LAMBDA f : f.path \notin gone), !.index = [x \in DOMAIN @ \ gone |-> @[x]],
              !.aside = [r \in DOMAIN @ |-> [x \in DOMAIN @[r] \ gone |-> @[r][x]]], !.store = {q \in @ : q[2] \notin graphs}]
Place(path) == CHOOSE i \in DOMAIN Paths : Paths[i] = path
SortedFiles(p) == [p EXCEPT !.files = SortSeq(@, LAMBDA f, g : Place(f.path) < Place(g.path))]
ReloadGraphs(p, changed, roles, disk) ==
    LET graphs == ChangedGraphs(roles)
        again == Refilled(p, changed, graphs)
        loaded == SortedFiles(FoldLeft(LAMBDA q, path : load_path(q, path, disk), WithoutFiles(p, again, graphs), SelectSeq(Paths, LAMBDA path : path \in again)))
    IN  IF graphs # {} THEN reason(register_ontologies(loaded))
        ELSE IF \E x \in roles : x[1] = "Rules" THEN reason(loaded) ELSE loaded
\* A batch names changed files, or the manifest.
reload_paths(p, batch, disk) ==
    IF batch.manifest THEN reload(p, disk)
    ELSE ReloadGraphs(p, batch.files, UNION {RolesOf(p, path, disk) : path \in batch.files}, disk)

ProjectInit ==
    \E w \in Workspaces, setting \in Settings, first \in SUBSET Range(Paths), together \in BOOLEAN :
        LET edited == {path \in Range(Paths) : w.before.files[path] # w.after.files[path]}
        IN  /\ first \subseteq edited
            /\ input = [of |-> "project", w |-> w, old |-> load_all(Empty(setting), w.before), new |-> load_all(Empty(setting), w.after),
                        batches |-> << [files |-> first, manifest |-> together /\ w.before.manifest # w.after.manifest],
                                       [files |-> edited \ first, manifest |-> w.before.manifest # w.after.manifest] >>]

\* With OWL 2 RL, conclusions from the last rules that go are not taken back.
LastRulesGo == profile(input.new) = Owl /\ input.new.producers = {} /\ input.old.producers # {}

\* The rules of a project, with their files.
RulesIn(p) == {<<path, p.aside["Rules"][path].rule>> : path \in DOMAIN p.aside["Rules"]}
\* Rules that may read what a rule concluded before the edit: directly, unless
\* the other one is concluded again before it is read, or through OWL 2 RL,
\* which runs first. And rules that share a conclusion only one of them claims.
RulesMeet ==
    \E x, y \in RulesIn(input.old) \cup RulesIn(input.new) :
        \/ x[2].from = y[2].to /\ ~(Place(y[1]) < Place(x[1]) /\ y[1] \in DOMAIN input.new.aside["Rules"])
        \/ profile(input.new) = Owl /\ x[2].from \in Concluded({y[2].to}, {})
        \/ x[1] # y[1] /\ x[2].to = y[2].to

\* The project after the notifications of the files that were edited.
Reloaded == FoldLeft(LAMBDA p, batch : reload_paths(p, batch, input.w.after), input.old, input.batches)
\* A project without its conclusions.
WithoutConclusions(p) == [p EXCEPT !.inferred = {}]

\* After the notifications of the files that were edited, in whatever
\* batches they came, the project is the one that loading every file gives:
\* the same triples in each graph, shapes, rules, positions and errors, and
\* the same conclusions, also those a rules file draws from an earlier one's
\* or from OWL 2 RL's (reload_paths, load_path, reason). Rules that meet read
\* conclusions of before the edit, and their conclusions may differ.
ReloadsAreComplete ==
    Is("project") => \A p \in {Reloaded} :
        /\ WithoutConclusions(p) = WithoutConclusions(input.new)
        /\ ~LastRulesGo /\ ~RulesMeet => Inferred(p) = Inferred(input.new)
=============================================================================
