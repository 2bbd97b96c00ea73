------------------------------ MODULE D1Driver ------------------------------
(***************************************************************************)
(* A store on Cloudflare D1 (packages/d1, crates/oxilite-wasm): JavaScript *)
(* tasks share one engine.  A call plans its job and hands out its first   *)
(* request without waiting; D1 runs a request as one batch, when it gets   *)
(* to it; the response resumes the job, which hands out the next request   *)
(* or ends.  Tasks interleave at every await, responses arrive in any      *)
(* order, and a request may fail before or after it was applied.           *)
(***************************************************************************)
EXTENDS Naturals, Sequences, FiniteSets

CONSTANTS
    Tasks,        \* the asynchronous tasks of one isolate
    Quads,        \* quads (and the triples of stored documents)
    SchemaQuads,  \* the ones is_schema_quad holds for
    Authors,      \* the authors given to withCommit
    Calls,        \* of a task: the calls it may make
    Budgets       \* bounds: how many calls, withCommit blocks and failures a behaviour has

VARIABLES
    db,           \* the database
    stats,        \* Engine.stats: the VersionState and the reasoning facts it loaded
    info,         \* Engine.info: the author recorded on writes
    ready,        \* the promise that the document tables exist
    task,         \* what each task is doing
    budget        \* the calls, blocks and failures left

\* The calls of the driver, told apart by their operation.
CallRecords ==
    [op : {"add", "delete", "unregister"}, quads : SUBSET Quads] \cup [op : {"clear", "optimize", "query"}]
        \cup [op : {"update"}, del : SUBSET Quads, ins : SUBSET Quads]
        \cup [op : {"bulkLoad"}, chunks : Seq(SUBSET Quads)]
        \cup [op : {"cypher", "put"}, of : SUBSET Quads, ins : SUBSET Quads]
        \cup [op : {"queryAsOf"}, version : Nat] \cup [op : {"diff"}, from : Nat, to : Nat]
        \cup [op : {"setVersioning"}, to : 0 .. 2, allow_loss : BOOLEAN] \cup [op : {"purge"}, q : Quads]

\* A call names finitely many quads, and no other operation than these.
ASSUME QuadsAssumption == IsFiniteSet(Quads)
ASSUME CallsAssumption == \A i \in Tasks : Calls[i] \subseteq CallRecords

(***************************************************************************)
(* History variables, read by no action.                                   *)
(***************************************************************************)
VARIABLES
    epoch,        \* the changes of the level and the schema, which of them stats has seen,
                  \* whether an older answer came last, a request failed, and a change of the
                  \* schema was made by a call that loads nothing after it
    signed,       \* the ticks of writes: who asked for them, who is recorded
    shared,       \* the tasks whose block met a call or a block of another task
    mixed,        \* a write sent to a versioned store was logged under another's tick
    leaked,       \* the quads that a purge left in the log
    outdated      \* a level change was planned from another history than it met

ghosts == <<epoch, signed, shared, mixed, leaked, outdated>>
vars   == <<db, stats, info, ready, task, budget, ghosts>>

Off     == 0
Stamped == 1
Log     == 2
Nobody  == "nobody"
None    == [kind |-> "none"]
PREFIX_LEN == 2
HEAD    == 0    \* the reference; #t is t

-----------------------------------------------------------------------------
(* The database: change_statements, ticks and the log's triggers.          *)

HeadTick(d) == Len(d.ticks)
WithTick(d, kind, author) == [d EXCEPT !.ticks = Append(@, [kind |-> kind, author |-> author])]
VersionOf(d) == [level |-> d.level, history |-> d.history, stamp_column |-> d.column]
FactsOf(d) == d.quads \cap SchemaQuads

\* The quads whose latest change at or before tick t is an addition.
StateAt(d, t) ==
    {q \in Quads : \E e \in d.log : /\ e.q = q /\ e.t <= t /\ e.add
                                    /\ \A f \in d.log : f.q = q /\ f.t <= t => f.t <= e.t}

\* The triggers: a change undoes the opposite change of its own tick.
Logged(d, rows, add) ==
    IF d.history # "live" THEN d
    ELSE LET undone == {e \in d.log : e.q \in rows /\ e.t = HeadTick(d) /\ e.add = ~add}
         IN  [d EXCEPT !.log = (@ \ undone) \cup {[q |-> q, t |-> HeadTick(d), add |-> add] :
                                                  q \in rows \ {e.q : e \in undone}}]
Deleted(d, rows)  == Logged([d EXCEPT !.quads = @ \ rows], rows \cap d.quads, FALSE)
Inserted(d, rows) == Logged([d EXCEPT !.quads = @ \cup rows], rows \ d.quads, TRUE)

StartClock(x) ==
    [db |-> WithTick([x.db EXCEPT !.clock = TRUE, !.column = TRUE, !.level = Stamped], "level", Nobody),
     state |-> [x.state EXCEPT !.level = Stamped, !.stamp_column = TRUE],
     ok |-> x.ok /\ (~x.state.stamp_column => ~x.db.column)]
StartLog(x) ==
    LET resumes == x.state.history = "frozen"
        d == WithTick(x.db, IF resumes THEN "resume" ELSE "genesis", Nobody)
        then == StateAt(x.db, x.db.frozen)
        changes == IF resumes THEN {[q |-> q, t |-> HeadTick(d), add |-> q \in d.quads] : q \in (then \ d.quads) \cup (d.quads \ then)}
                   ELSE {[q |-> q, t |-> HeadTick(d), add |-> TRUE] : q \in d.quads}
    IN  [db |-> [d EXCEPT !.log = @ \cup changes, !.level = Log, !.history = "live", !.table = TRUE],
         state |-> [x.state EXCEPT !.level = Log, !.history = "live"], ok |-> x.ok /\ x.db.clock]
StopLog(x, allow_loss) ==
    LET d == WithTick(x.db, IF allow_loss THEN "dropped" ELSE "freeze", Nobody)
        h == IF allow_loss THEN "none" ELSE "frozen"
    IN  [db |-> [d EXCEPT !.log = IF allow_loss THEN {} ELSE @, !.table = @ /\ ~allow_loss,
                           !.frozen = IF allow_loss THEN @ ELSE HeadTick(d), !.history = h, !.level = Stamped],
         state |-> [x.state EXCEPT !.level = Stamped, !.history = h], ok |-> x.ok /\ x.db.clock]
StopClock(x, allow_loss) ==
    [db |-> IF allow_loss THEN [x.db EXCEPT !.clock = FALSE, !.column = FALSE, !.ticks = <<>>, !.frozen = 0, !.level = Off]
            ELSE WithTick([x.db EXCEPT !.level = Off], "level", Nobody),
     state |-> [x.state EXCEPT !.level = Off, !.stamp_column = @ /\ ~allow_loss],
     ok |-> x.ok /\ (IF allow_loss THEN x.db.column ELSE x.db.clock)]
Move(x, c) ==
    IF x.state.level < c.to THEN IF x.state.level = Off THEN StartClock(x) ELSE StartLog(x)
    ELSE IF x.state.level > c.to THEN IF x.state.level = Log THEN StopLog(x, c.allow_loss) ELSE StopClock(x, c.allow_loss)
    ELSE x

-----------------------------------------------------------------------------
(* Jobs.  A stage is what one request of the job does; the data a request   *)
(* needs from an earlier response is in the task's memory.                  *)

Read    == [kind |-> "read"]
Load    == [kind |-> "stats"]
Refresh == [kind |-> "refresh"]
Write(del, ins) == [kind |-> "write", del |-> del, ins |-> ins]
\* A writing Cypher statement and a document's put: what they write depends
\* on what they read.
Rewrite(of, ins) == [kind |-> "rewrite", of |-> of, ins |-> ins]

reloading(stages, rows) == IF rows \cap SchemaQuads # {} THEN stages \o <<Load>> ELSE stages

\* The requests of a call, planned from the version and the facts the engine
\* remembers; None when planning fails.
add(c)       == reloading(<<Write({}, c.quads)>>, c.quads)
delete(c)    == reloading(<<Write(c.quads, {})>>, c.quads)
update(c)    == reloading(<<Write(c.del, c.ins)>>, c.del \cup c.ins)
clear(c)     == <<Write(Quads, {}), Load>>
bulk_load(c) == [i \in 1 .. Len(c.chunks) |-> Write({}, c.chunks[i])] \o <<Refresh, Load>>
cypher(c)    == reloading(<<Read, Rewrite(c.of, c.ins)>>, c.of \cup c.ins)
optimize(c)  == <<Refresh, Load>>
query(c)     == <<Read>>
query_as_of(c)  == <<[kind |-> "resolve", refs |-> <<c.version>>], [kind |-> "as_of"]>>
diff(c)         == <<[kind |-> "resolve", refs |-> <<c.from, c.to>>], [kind |-> "diff"]>>
set_versioning(c) == (IF stats.version.level = c.to THEN <<>> ELSE <<[kind |-> "level", state |-> stats.version, change |-> c]>>)
                        \o <<Load, [kind |-> "status"]>>
purge(c)     == <<[kind |-> "purge", q |-> c.q, state |-> stats.version, author |-> info]>>
\* Two jobs of one call: the second is made when the first has answered.
guarded(c)   == <<Read, [kind |-> "then", call |-> [op |-> "delete", quads |-> c.quads]]>>
put(c)       == (IF ready = "no" THEN <<[kind |-> "tables"]>> ELSE <<>>) \o <<Read, Rewrite(c.of, c.ins)>>

Plan(c) == CASE c.op = "add" -> add(c) [] c.op = "delete" -> delete(c) [] c.op = "update" -> update(c)
             [] c.op = "clear" -> clear(c) [] c.op = "bulkLoad" -> bulk_load(c) [] c.op = "cypher" -> cypher(c)
             [] c.op = "optimize" -> optimize(c) [] c.op = "query" -> query(c) [] c.op = "queryAsOf" -> query_as_of(c)
             [] c.op = "diff" -> diff(c) [] c.op = "setVersioning" -> set_versioning(c) [] c.op = "purge" -> purge(c)
             [] c.op = "unregister" -> guarded(c) [] c.op = "put" -> put(c)

\* ResolveJob refuses a store that keeps no history, as does a level change
\* that would drop the clock of a frozen log.
Refused(c) == \/ c.op \in {"queryAsOf", "diff"} /\ stats.version.history = "none"
              \/ /\ c.op = "setVersioning" /\ c.to = Off /\ c.allow_loss
                 /\ stats.version.level = Stamped /\ stats.version.history # "none"

\* A level change opens its own ticks; so does a purge.
Bound(c) == c.op \notin {"setVersioning", "purge"}

\* Mutant of prepare: the tick depends on the level when the job was made.
prepare_planned(stage, t) ==
    [stage |-> stage, stamped |-> t.caps >= Stamped, memory |-> t.memory, author |-> info,
     prefix |-> Bound(t.call) /\ stage.kind \in {"write", "rewrite"} /\ t.caps >= Stamped]

\* The request handed out: statements planned with the capabilities the job
\* was made with, and a tick in front when the engine's level now asks for one.
prepare(stage, t) ==
    [stage |-> stage, stamped |-> t.caps >= Stamped, memory |-> t.memory, author |-> info,
     prefix |-> Bound(t.call) /\ stage.kind \in {"write", "rewrite"} /\ stats.version.level >= Stamped]

Idle(author) == [at |-> "settled", block |-> author, outcome |-> "none", count |-> 0, changed |-> 0]
Settled(t, outcome) == [at |-> "settled", block |-> t.block, outcome |-> outcome, count |-> t.count, changed |-> t.changed]

\* The registration is there: its removal is planned from what the engine
\* knows by now.
Then(t) ==
    IF t.stages # <<>> /\ t.stages[1].kind = "then"
    THEN IF t.stages[1].call.quads \subseteq t.memory[1]
         THEN [t EXCEPT !.call = t.stages[1].call, !.stages = Plan(t.stages[1].call), !.caps = stats.version.level]
         ELSE [t EXCEPT !.stages = <<>>]
    ELSE t

\* Job.step hands out the next request, or ends.
Step(i, t) ==
    task' = [task EXCEPT ![i] =
        IF t.stages = <<>> THEN Settled(t, "resolved")
        ELSE [t EXCEPT !.at = "sent", !.request = prepare(t.stages[1], t), !.response = None,
                       !.sent_level = stats.version.level]]

-----------------------------------------------------------------------------
(* What a task does between awaits.                                        *)

\* The tasks that are in a block, or in a call.
Busy == {k \in Tasks : task[k].block # Nobody \/ task[k].at # "settled"}
InBlock == {k \in Tasks : task[k].block # Nobody}
Meet(i, others) == shared' = IF others \ {i} # {} THEN shared \cup {i} \cup others
                             ELSE IF task[i].block = Nobody THEN shared \ {i} ELSE shared

\* Another call is creating the tables.
Waits(c) == c.op = "put" /\ ready = "pending"

Call(i, c) ==
    /\ task[i].at = "settled"
    /\ budget.calls > 0
    /\ budget' = [budget EXCEPT !.calls = @ - 1]
    /\ Meet(i, InBlock)
    /\ LET t == [at |-> "planned", block |-> task[i].block, call |-> c, stages |-> <<>>, caps |-> stats.version.level,
                 request |-> None, response |-> None, pending |-> FALSE, memory |-> <<>>, count |-> 0,
                 sent_level |-> stats.version.level, changed |-> 0]
       IN  IF Refused(c)
           THEN task' = [task EXCEPT ![i] = Settled(t, "rejected")] /\ UNCHANGED ready
           ELSE IF Waits(c)
           THEN task' = [task EXCEPT ![i] = [t EXCEPT !.at = "awaiting"]] /\ UNCHANGED ready
           ELSE IF c.op = "put" /\ ready = "rejected"
           THEN task' = [task EXCEPT ![i] = Settled(t, "rejected")] /\ UNCHANGED ready
           ELSE /\ Step(i, [t EXCEPT !.stages = Plan(c)])
                /\ ready' = IF c.op = "put" /\ ready = "no" THEN "pending" ELSE ready
    /\ UNCHANGED <<db, stats, info, epoch, signed, mixed, leaked, outdated>>

\* await ready: the tables another call creates.
Awaited(i) ==
    /\ task[i].at = "awaiting"
    /\ ready \in {"yes", "rejected"}
    /\ IF ready = "yes" THEN Step(i, [task[i] EXCEPT !.stages = put(task[i].call)])
       ELSE task' = [task EXCEPT ![i] = Settled(task[i], "rejected")]
    /\ UNCHANGED <<db, stats, info, ready, budget, ghosts>>

withCommit(i, a) ==
    /\ task[i].at = "settled" /\ task[i].block = Nobody
    /\ budget.blocks > 0
    /\ budget' = [budget EXCEPT !.blocks = @ - 1]
    /\ info' = a
    /\ task' = [task EXCEPT ![i] = Idle(a)]
    /\ Meet(i, Busy)
    /\ UNCHANGED <<db, stats, ready, epoch, signed, mixed, leaked, outdated>>

\* The finally of withCommit.
endCommit(i) ==
    /\ task[i].at = "settled" /\ task[i].block # Nobody
    /\ info' = Nobody
    /\ task' = [task EXCEPT ![i] = Idle(Nobody)]
    /\ UNCHANGED <<db, stats, ready, budget, ghosts>>

-----------------------------------------------------------------------------
(* D1 runs a request: what it leaves in the database and what it answers.  *)

Answer(d, results) == [db |-> d, ok |-> TRUE, results |-> results, read |-> <<>>]
Fails == [db |-> db, ok |-> FALSE, results |-> <<>>, read |-> <<>>]

RunWrite(del, ins, r) ==
    IF \/ r.prefix /\ ~db.clock
       \/ r.stamped /\ ins # {} /\ ~(db.clock /\ db.column)
    THEN Fails
    ELSE LET d == IF r.prefix THEN WithTick(db, "write", r.author) ELSE db
         IN  Answer(Inserted(Deleted(d, del), ins),
                    (IF r.prefix THEN <<1, 1>> ELSE <<>>)
                        \o <<Cardinality(del \cap db.quads) + Cardinality(ins \ (db.quads \ del))>>)

\* The tick a reference names; the last boundary of the history at it says
\* whether it is recorded.
Resolved(v) == IF v = HEAD THEN HeadTick(db) ELSE v
Boundaries == {b \in 1 .. HeadTick(db) : db.ticks[b].kind \in {"genesis", "freeze", "resume", "dropped"}}
Recorded(t) == /\ t \in 1 .. HeadTick(db)
               /\ \E b \in Boundaries : /\ b <= t /\ \A x \in Boundaries : x <= t => x <= b
                                        /\ \/ db.ticks[b].kind \in {"genesis", "resume"}
                                           \/ db.ticks[b].kind = "freeze" /\ t = b

Run(r) ==
    LET s == r.stage
    IN  CASE s.kind = "write"   -> RunWrite(s.del, s.ins, r)
          [] s.kind = "rewrite" -> RunWrite(s.of \cap r.memory[1], s.ins, r)
          [] s.kind = "read"    -> [Answer(db, <<0>>) EXCEPT !.read = <<db.quads>>]
          [] s.kind = "stats"   -> [Answer(db, <<0>>) EXCEPT !.read = <<[version |-> VersionOf(db), facts |-> FactsOf(db), epoch |-> epoch.db]>>]
          [] s.kind \in {"refresh", "status"} -> Answer(db, <<0>>)
          [] s.kind = "tables"  -> Answer([db EXCEPT !.tables = TRUE], <<0>>)
          [] s.kind = "resolve" -> IF ~db.clock THEN Fails
                                   ELSE IF \E k \in 1 .. Len(s.refs) : ~Recorded(Resolved(s.refs[k])) THEN Answer(db, <<0>>)
                                   ELSE [Answer(db, <<0>>) EXCEPT !.read = [k \in 1 .. Len(s.refs) |-> Resolved(s.refs[k])]]
          [] s.kind = "as_of"   -> IF ~db.table THEN Fails
                                   ELSE [Answer(db, <<0>>) EXCEPT !.read = <<StateAt(db, r.memory[1])>>]
          [] s.kind = "diff"    -> IF ~db.table THEN Fails
                                   ELSE [Answer(db, <<0>>) EXCEPT !.read =
                                            <<StateAt(db, r.memory[2]) \ StateAt(db, r.memory[1]),
                                              StateAt(db, r.memory[1]) \ StateAt(db, r.memory[2])>>]
          [] s.kind = "level"   -> LET x == Move(Move([db |-> db, state |-> s.state, ok |-> TRUE], s.change), s.change)
                                   IN  IF x.ok THEN Answer(x.db, <<0>>) ELSE Fails
          [] s.kind = "purge"   -> LET ticked == s.state.level >= Stamped \/ s.state.stamp_column \/ s.state.history # "none"
                                       d == IF ticked THEN WithTick(db, "purge", s.author) ELSE db
                                   IN  IF (ticked /\ ~db.clock) \/ (s.state.history # "none" /\ ~db.table) THEN Fails
                                       ELSE Answer([d EXCEPT !.quads = @ \ {s.q},
                                                             !.log = IF s.state.history # "none" THEN {e \in @ : e.q # s.q} ELSE @], <<0>>)

\* Documents are read and written in their tables.
NeedsTables(t) == t.call.op = "put" /\ t.request.stage.kind # "tables"

Execute(i) ==
    /\ task[i].at = "sent"
    /\ \E x \in {IF NeedsTables(task[i]) /\ ~db.tables THEN Fails ELSE Run(task[i].request)} :
        LET r == task[i].request
            writes == r.stage.kind \in {"write", "rewrite"}
        IN  /\ db' = x.db
            /\ task' = [task EXCEPT ![i] = [task[i] EXCEPT !.at = "answered", !.response = [ok |-> x.ok, results |-> x.results, read |-> x.read], !.pending = r.prefix,
                                                     !.changed = @ + IF writes /\ x.ok THEN x.results[Len(x.results)] ELSE 0]]
            /\ LET turned == VersionOf(x.db) # VersionOf(db) \/ FactsOf(x.db) # FactsOf(db)
               IN  epoch' = [epoch EXCEPT !.db = IF turned THEN @ + 1 ELSE @, !.failed = @ \/ ~x.ok,
                                          !.bypassed = @ \/ (turned /\ task[i].call.op \in {"put", "purge"})]
            /\ signed' = IF x.ok /\ r.prefix
                         THEN signed \cup {[task |-> i, block |-> task[i].block, author |-> r.author, alone |-> i \notin shared]}
                         ELSE signed
            /\ mixed' = (mixed \/ (x.db.log # db.log /\ writes /\ ~r.prefix /\ task[i].sent_level >= Stamped))
            /\ leaked' = IF x.ok /\ r.stage.kind = "purge" /\ \E e \in x.db.log : e.q = r.stage.q
                         THEN leaked \cup {r.stage.q} ELSE leaked
            /\ outdated' = (outdated \/ (x.ok /\ r.stage.kind = "level" /\ r.stage.state.history # db.history))
    /\ UNCHANGED <<stats, info, ready, budget, shared>>

\* The request fails before it is applied.
Lose(i) ==
    /\ task[i].at = "sent"
    /\ budget.failures > 0
    /\ budget' = [budget EXCEPT !.failures = @ - 1]
    /\ task' = [task EXCEPT ![i] = [@ EXCEPT !.at = "answered", !.response = [ok |-> FALSE, results |-> <<>>, read |-> <<>>]]]
    /\ epoch' = [epoch EXCEPT !.failed = TRUE]
    /\ UNCHANGED <<db, stats, info, ready, signed, shared, mixed, leaked, outdated>>

\* It is applied, and its response is lost.
LoseResponse(i) ==
    /\ task[i].at = "answered" /\ task[i].response.ok
    /\ budget.failures > 0
    /\ budget' = [budget EXCEPT !.failures = @ - 1]
    /\ task' = [task EXCEPT ![i] = [@ EXCEPT !.response = [ok |-> FALSE, results |-> <<>>, read |-> <<>>]]]
    /\ epoch' = [epoch EXCEPT !.failed = TRUE]
    /\ UNCHANGED <<db, stats, info, ready, signed, shared, mixed, leaked, outdated>>

-----------------------------------------------------------------------------
(* The response resumes the job.                                           *)

\* The results of the tick are not the job's.
strip(t) == IF t.pending THEN SubSeq(t.response.results, PREFIX_LEN + 1, Len(t.response.results))
            ELSE t.response.results

Total(s) == LET sum[k \in 0 .. Len(s)] == IF k = 0 THEN 0 ELSE sum[k - 1] + s[k]
            IN  sum[Len(s)]

\* A response that carries no versions says that one is unknown, or not
\* recorded.
Unknown(t) == t.request.stage.kind = "resolve" /\ t.response.read = <<>>
Taken(t) ==
    [t EXCEPT !.stages = Tail(@), !.count = @ + Total(strip(t)), !.pending = FALSE,
              !.memory = IF t.response.read # <<>> /\ t.request.stage.kind # "stats" THEN t.response.read ELSE @]

Resume(i) ==
    /\ task[i].at = "answered" /\ task[i].response.ok
    /\ IF Unknown(task[i]) THEN task' = [task EXCEPT ![i] = Settled(task[i], "rejected")]
       ELSE Step(i, Then(Taken(task[i])))
    /\ IF task[i].request.stage.kind = "stats"
       THEN LET x == task[i].response.read[1]
            IN  /\ stats' = [version |-> x.version, facts |-> x.facts]
                /\ epoch' = [epoch EXCEPT !.stats = x.epoch, !.late = @ \/ x.epoch < epoch.stats]
       ELSE UNCHANGED <<stats, epoch>>
    /\ ready' = IF task[i].request.stage.kind = "tables" THEN "yes" ELSE ready
    /\ UNCHANGED <<db, info, budget, signed, shared, mixed, leaked, outdated>>

\* Mutant of Reject: the calls that wait for the tables are not told.
Reject_alone(i) ==
    /\ task[i].at = "answered" /\ ~task[i].response.ok
    /\ task' = [task EXCEPT ![i] = Settled(task[i], "rejected")]
    /\ UNCHANGED <<db, stats, info, ready, budget, ghosts>>

\* The failure rejects the call; jobs before it stay applied.
Reject(i) ==
    /\ task[i].at = "answered" /\ ~task[i].response.ok
    /\ task' = [task EXCEPT ![i] = Settled(task[i], "rejected")]
    /\ ready' = IF task[i].request.stage.kind = "tables" THEN "rejected" ELSE ready
    /\ UNCHANGED <<db, stats, info, budget, ghosts>>

-----------------------------------------------------------------------------
Init ==
    /\ \E l \in {Off, Log} :
        LET start == [db |-> [level |-> Off, history |-> "none", clock |-> FALSE, column |-> FALSE, ticks |-> <<>>,
                              quads |-> {}, log |-> {}, table |-> FALSE, frozen |-> 0, tables |-> FALSE],
                      state |-> [level |-> Off, history |-> "none", stamp_column |-> FALSE], ok |-> TRUE]
            up == [to |-> l, allow_loss |-> FALSE]
        IN  /\ db = Move(Move(start, up), up).db
            /\ stats = [version |-> VersionOf(db), facts |-> FactsOf(db)]
    /\ info = Nobody
    /\ ready = "no"
    /\ task = [i \in Tasks |-> Idle(Nobody)]
    /\ budget \in Budgets
    /\ epoch = [db |-> 0, stats |-> 0, late |-> FALSE, failed |-> FALSE, bypassed |-> FALSE]
    /\ signed = {} /\ shared = {} /\ mixed = FALSE /\ leaked = {} /\ outdated = FALSE

Next ==
    \E i \in Tasks :
        \/ \E c \in Calls[i] : Call(i, c)
        \/ Awaited(i) \/ Execute(i) \/ Lose(i) \/ LoseResponse(i) \/ Resume(i) \/ Reject(i)
        \/ \E a \in Authors : withCommit(i, a)
        \/ endCommit(i)

\* D1 answers every request, and the event loop runs what is ready.
Fairness == \A i \in Tasks : WF_vars(Awaited(i)) /\ WF_vars(Execute(i)) /\ WF_vars(Resume(i)) /\ WF_vars(Reject(i))

Spec == Init /\ [][Next]_vars /\ Fairness

-----------------------------------------------------------------------------
\* The state of the database, the engine and the tasks is of its type.
TypeOK ==
    /\ db.quads \subseteq Quads /\ db.level \in {Off, Stamped, Log} /\ db.history \in {"none", "live", "frozen"}
    /\ \A e \in db.log : e.q \in Quads /\ e.t \in Nat /\ e.add \in BOOLEAN
    /\ stats.version.level \in {Off, Stamped, Log} /\ stats.facts \subseteq SchemaQuads
    /\ info \in Authors \cup {Nobody} /\ ready \in {"no", "pending", "yes", "rejected"}
    /\ \A i \in Tasks : task[i].at \in {"awaiting", "sent", "answered", "settled"}

\* Whatever changes the level while requests are under way, a call that
\* resolves reports the changes its own statements made: the results of the
\* tick in front of a request are taken from that request's response, and
\* from no other (Job::step, version::strip).
CountsAreTrue ==
    \A i \in Tasks : task[i].at = "settled" /\ task[i].outcome = "resolved" => task[i].count = task[i].changed

\* The log answers for the current state, also for writes that were planned
\* or sent before the level was raised (capture_ddl, change_statements); a
\* purge that did not know of the log is an exception, and so is a level
\* change planned before another one changed the history.
LogIsTheStore ==
    ~outdated => /\ \A e \in db.log : e.t \in 1 .. HeadTick(db)
                 /\ db.history = "live" => StateAt(db, HeadTick(db)) \ leaked = db.quads \ leaked

\* A request sent when the engine knew the store to be versioned opens a
\* tick of its own, though its job was planned before (Job::step, prepare).
WritesOpenTheirTick == ~mixed

\* When no call is under way, the engine remembers the level and the schema
\* of the store, unless a request failed, the answers of two loads came in
\* the other order, or a document's put or a purge, which load nothing,
\* changed the schema (Engine::reloading, stats_job, set_versioning).
EngineIsCurrent ==
    (\A i \in Tasks : task[i].at = "settled") /\ ~epoch.late /\ ~epoch.failed /\ ~epoch.bypassed
        => stats = [version |-> VersionOf(db), facts |-> FactsOf(db)]

\* The ticks of the writes of a withCommit block carry its author, and those
\* of other writes none, when the block met no call and no block of another
\* task (withCommit, set_commit_info).
BlocksSignTheirWrites == \A x \in signed : x.alone => x.author = x.block

\* A document is read and written only once its tables exist: the first call
\* creates them and the others wait for it (jsonldCall).
TablesComeFirst == \A i \in Tasks : task[i].at = "sent" /\ NeedsTables(task[i]) => db.tables

\* Every call settles (D1Store.run).
CallsSettle == \A i \in Tasks : task[i].at \in {"awaiting", "sent", "answered"} ~> task[i].at = "settled"

\* The calls of an isolate that cross one another at every await keep the
\* database, its log and the engine's memory of them together: counts are
\* true, the log is the store, versioned writes open their tick and carry
\* their block's author, and tables come before documents (D1Store.run).
CrossingCallsAreSafe ==
    /\ TypeOK /\ CountsAreTrue /\ LogIsTheStore /\ WritesOpenTheirTick /\ EngineIsCurrent
    /\ BlocksSignTheirWrites /\ TablesComeFirst
=============================================================================
