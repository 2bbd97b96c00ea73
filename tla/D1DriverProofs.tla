--------------------------- MODULE D1DriverProofs ---------------------------
(***************************************************************************)
(* What crossing calls keep, whatever the tasks, the quads, the calls and   *)
(* the number of failures.                                                  *)
(***************************************************************************)
EXTENDS D1Driver, FiniteSetTheorems, SequenceTheorems, TLAPS

-----------------------------------------------------------------------------
(* The inductive invariant.                                                *)

Levels    == {Off, Stamped, Log}
Histories == {"none", "live", "frozen"}
Versions  == [level : Levels, history : Histories, stamp_column : BOOLEAN]
Entries   == [q : Quads, t : Nat, add : BOOLEAN]
TickRecords == [kind : {"level", "genesis", "resume", "dropped", "freeze", "write", "purge"},
                author : Authors \cup {Nobody}]
Databases == [level : Levels, history : Histories, clock : BOOLEAN, column : BOOLEAN,
              ticks : Seq(TickRecords), quads : SUBSET Quads,
              log : SUBSET Entries, table : BOOLEAN, frozen : Nat, tables : BOOLEAN]
Memories  == [version : Versions, facts : SUBSET SchemaQuads]
Loads     == [version : Versions, facts : SUBSET SchemaQuads, epoch : Nat]
Epochs    == [db : Nat, stats : Nat, late : BOOLEAN, failed : BOOLEAN, bypassed : BOOLEAN]

StageRecords ==
    [kind : {"read", "stats", "refresh", "tables", "as_of", "diff", "status"}]
        \cup [kind : {"write"}, del : SUBSET Quads, ins : SUBSET Quads]
        \cup [kind : {"rewrite"}, of : SUBSET Quads, ins : SUBSET Quads]
        \cup [kind : {"resolve"}, refs : Seq(Nat)]
        \cup [kind : {"level"}, state : Versions, change : [op : {"setVersioning"}, to : 0 .. 2, allow_loss : BOOLEAN]]
        \cup [kind : {"purge"}, q : Quads, state : Versions, author : Authors \cup {Nobody}]
        \cup [kind : {"then"}, call : [op : {"delete"}, quads : SUBSET Quads]]

IsWrite(s) == s.kind \in {"write", "rewrite"}

\* The requests that may change what a load returns.
Touches(s) == \/ s.kind = "level"
              \/ s.kind = "write" /\ (s.del \cup s.ins) \cap SchemaQuads # {}
              \/ s.kind = "rewrite" /\ (s.of \cup s.ins) \cap SchemaQuads # {}

\* The changes of level a plan may hold: the clock goes only without a log.
Plannable(state, c) == c.to = Off /\ c.allow_loss /\ state.level = Stamped => state.history = "none"

\* The requests left of a call are the ones of its operation; what may change
\* the level or the schema is followed by a load, but for a put and a purge.
Suits(c, stages, k) ==
    /\ IsWrite(stages[k]) => Bound(c)
    /\ c.op = "put" => stages[k].kind \in {"tables", "read", "rewrite"}
    /\ stages[k].kind = "tables" => c.op = "put"
    /\ stages[k].kind = "purge" => c.op = "purge"
    /\ stages[k].kind = "level" => Plannable(stages[k].state, stages[k].change)
    /\ Touches(stages[k]) /\ c.op \notin {"put", "purge"} => \E j \in 1 .. Len(stages) : j > k /\ stages[j].kind = "stats"
    /\ stages[k].kind \in {"then", "resolve"} => \A j \in 1 .. Len(stages) : stages[j].kind # "stats"
Suited(c, stages) == /\ stages \in Seq(StageRecords)
                     /\ \A k \in 1 .. Len(stages) : Suits(c, stages, k)

\* A record that has exactly these fields.
HasFields(t, fields) == t = [f \in fields |-> t[f]]
CallFields == {"at", "block", "call", "stages", "caps", "request", "response", "pending", "memory", "count",
               "sent_level", "changed"}
SettledFields == {"at", "block", "outcome", "count", "changed"}

Requested(t) ==
    /\ Suited(t.call, t.stages) /\ t.stages # <<>> /\ t.stages[1].kind # "then"
    /\ t.request.stage = t.stages[1] /\ t.request.prefix \in BOOLEAN /\ t.request.author \in Authors \cup {Nobody}
    /\ t.request.prefix => IsWrite(t.request.stage)

TaskShape(t) ==
    \/ t.at = "settled" /\ HasFields(t, SettledFields)
    \/ /\ HasFields(t, CallFields) /\ t.count \in Nat /\ t.changed \in Nat
       /\ \/ t.at = "awaiting" /\ t.call \in CallRecords /\ t.call.op = "put"
          \/ t.at = "sent" /\ Requested(t)
          \/ /\ t.at = "answered" /\ Requested(t) /\ t.response.ok \in BOOLEAN
             /\ t.response.ok => t.pending \in BOOLEAN
             /\ t.response.ok /\ t.request.stage.kind = "stats" => t.response.read[1] \in Loads

Shape ==
    /\ db \in Databases /\ stats \in Memories /\ info \in Authors \cup {Nobody}
    /\ ready \in {"no", "pending", "yes", "rejected"} /\ epoch \in Epochs
    /\ mixed \in BOOLEAN /\ outdated \in BOOLEAN
    /\ task = [i \in Tasks |-> task[i]] /\ \A i \in Tasks : TaskShape(task[i])

\* What a call has counted, and what its statements have changed.
CountOf(t) ==
    /\ t.at = "settled" /\ t.outcome = "resolved" => t.count = t.changed
    /\ t.at \in {"awaiting", "sent"} => t.count = t.changed
    /\ t.at = "answered" /\ t.response.ok =>
           LET n == t.response.results[IF t.pending THEN 3 ELSE 1]
           IN  /\ n \in Nat /\ t.response.results = (IF t.pending THEN <<1, 1, n>> ELSE <<n>>)
               /\ t.changed = t.count + n
Counts == \A i \in Tasks : CountOf(task[i])

\* A write is sent with a tick when the engine knows the store to be versioned.
TickOf(t) == t.at = "sent" /\ IsWrite(t.request.stage) /\ t.sent_level >= Stamped => t.request.prefix
Ticks == ~mixed /\ \A i \in Tasks : TickOf(task[i])

\* The author in force is the one of the block of a task that met no other.
Blocks ==
    /\ info # Nobody => InBlock # {}
    /\ \A i \in Tasks \ shared : /\ i \in Busy => InBlock \subseteq {i}
                                 /\ i \in InBlock => info = task[i].block
                                 /\ task[i].at = "sent" => task[i].request.author = task[i].block
    /\ BlocksSignTheirWrites

\* The tables are there once the promise of them is kept.
TablesOf(t) ==
    /\ t.at = "sent" /\ NeedsTables(t) => db.tables
    /\ t.at = "answered" /\ t.response.ok /\ t.call.op = "put" => db.tables
Tables == (ready = "yes" => db.tables) /\ \A i \in Tasks : TablesOf(task[i])

\* What the engine remembers and what a load returns is the state of their epoch.
Current(x) == x.version = VersionOf(db) /\ x.facts = FactsOf(db)
LoadOf(t) ==
    /\ t.at = "answered" /\ ~t.response.ok => epoch.failed
    /\ t.at = "answered" /\ t.response.ok /\ t.request.stage.kind = "stats" =>
           /\ t.response.read[1].epoch <= epoch.db
           /\ t.response.read[1].epoch = epoch.db => Current(t.response.read[1])
\* A task that will load the current state.
WillLoad(t) ==
    \/ t.at = "sent" /\ \E k \in 1 .. Len(t.stages) : t.stages[k].kind = "stats"
    \/ /\ t.at = "answered" /\ t.response.ok
       /\ \/ \E k \in 2 .. Len(t.stages) : t.stages[k].kind = "stats"
          \/ t.stages[1].kind = "stats" /\ t.response.read[1].epoch = epoch.db
Engine ==
    /\ epoch.stats <= epoch.db
    /\ epoch.stats = epoch.db => Current(stats)
    /\ \A i \in Tasks : LoadOf(task[i])
    /\ epoch.late \/ epoch.failed \/ epoch.bypassed \/ epoch.stats = epoch.db \/ \E i \in Tasks : WillLoad(task[i])

\* The latest change of q at or before t is an addition.
Holds(log, q, t) == \E e \in log : /\ e.q = q /\ e.t <= t /\ e.add
                                   /\ \A f \in log : f.q = q /\ f.t <= t => f.t <= e.t
\* The log of a database, but for the leaked quads.
LogOf(d, gone) ==
    /\ d.history = "none" => d.log = {}
    /\ \A e \in d.log : e.t \in 1 .. HeadTick(d)
    /\ d.history = "live" => HeadTick(d) >= 1
    /\ d.history = "frozen" => d.frozen <= HeadTick(d) /\ \A e \in d.log : e.t <= d.frozen
    /\ d.history = "live" => \A q \in Quads \ gone :
           /\ Holds(d.log, q, HeadTick(d)) <=> q \in d.quads
           /\ \A e \in d.log : e.q = q /\ e.t = HeadTick(d) => (e.add <=> ~Holds(d.log, q, HeadTick(d) - 1))
\* The history is live exactly at the level of the log.
Even(v) == v.history = "live" <=> v.level = Log
VersionsOf(t) ==
    t.at \in {"sent", "answered"} =>
        /\ \A k \in 1 .. Len(t.stages) : t.stages[k].kind = "level" => Even(t.stages[k].state)
        /\ t.at = "answered" /\ t.response.ok /\ t.request.stage.kind = "stats" => Even(t.response.read[1].version)
Logs == ~outdated => /\ LogOf(db, leaked) /\ Even(db) /\ Even(stats.version)
                     /\ \A i \in Tasks : VersionsOf(task[i])

IInv == Shape /\ Counts /\ Ticks /\ Blocks /\ Tables /\ Engine /\ Logs

-----------------------------------------------------------------------------
(* The log.                                                                *)

\* StateAt holds the quads whose latest change is an addition.
LEMMA StateIsHolds ==
    ASSUME NEW d, NEW t, NEW q \in Quads
    PROVE  q \in StateAt(d, t) <=> Holds(d.log, q, t)
BY DEF StateAt, Holds

\* The changes of a quad decide whether it holds.
LEMMA HoldsLocal ==
    ASSUME NEW log, NEW other, NEW q, NEW t, NEW u,
           \A e : (e \in log /\ e.q = q /\ e.t <= t) <=> (e \in other /\ e.q = q /\ e.t <= u)
    PROVE  Holds(log, q, t) <=> Holds(other, q, u)
BY DEF Holds

\* A quad that changed at the last tick of a log holds when it was added then.
LEMMA HoldsAtHead ==
    ASSUME NEW log \in SUBSET Entries, NEW q \in Quads, NEW h \in Nat, \A e \in log : e.t <= h,
           NEW e \in log, e.q = q, e.t = h
    PROVE  /\ e.add => Holds(log, q, h)
           /\ (\A f \in log : f.q = q /\ f.t = h => ~f.add) => ~Holds(log, q, h)
BY DEF Holds, Entries

\* A new tick leaves everything else alone.
SameButTicks(d, e) ==
    /\ e \in Databases /\ HeadTick(e) = HeadTick(d) + 1 /\ HeadTick(d) \in Nat
    /\ e.level = d.level /\ e.history = d.history /\ e.column = d.column /\ e.clock = d.clock
    /\ e.tables = d.tables /\ e.quads = d.quads /\ e.log = d.log /\ e.table = d.table /\ e.frozen = d.frozen

\* That is what WithTick does.
LEMMA TickShape ==
    ASSUME NEW d \in Databases, NEW k, NEW a, [kind |-> k, author |-> a] \in TickRecords, NEW e, e = WithTick(d, k, a)
    PROVE  SameButTicks(d, e)
<1>1. PICK s : s = Append(d.ticks, [kind |-> k, author |-> a])
  OBVIOUS
<1>2. s \in Seq(TickRecords) /\ Len(s) = Len(d.ticks) + 1 /\ Len(d.ticks) \in Nat
  BY <1>1 DEF Databases
<1>3. e = [d EXCEPT !.ticks = s]
  BY <1>1 DEF WithTick
<1> QED BY <1>2, <1>3 DEF SameButTicks, Databases, HeadTick

\* A new tick has no changes yet.
LEMMA TickKeepsLog ==
    ASSUME NEW d \in Databases, NEW gone, LogOf(d, gone), NEW k, NEW a, [kind |-> k, author |-> a] \in TickRecords,
           NEW e, e = WithTick(d, k, a)
    PROVE  LogOf(e, gone)
<1>1. /\ HeadTick(e) = HeadTick(d) + 1 /\ HeadTick(d) \in Nat
      /\ e.history = d.history /\ e.log = d.log /\ e.quads = d.quads /\ e.frozen = d.frozen /\ d.frozen \in Nat
  <2>1. d.frozen \in Nat
    BY DEF Databases
  <2>2. SameButTicks(d, e)
    BY TickShape
  <2> QED BY <2>1, <2>2 DEF SameButTicks
<1>2. PICK h \in Nat : h = HeadTick(d)
  BY <1>1
<1>3. \A x \in d.log : x.t \in 1 .. h
  BY <1>2 DEF LogOf
<1>4. ASSUME NEW q \in Quads PROVE Holds(d.log, q, h + 1) <=> Holds(d.log, q, h)
  <2>1. \A x \in d.log : x.t <= h /\ x.t <= h + 1
    BY <1>3, <1>2
  <2> QED BY <2>1, HoldsLocal
<1>5. h + 1 - 1 = h
  OBVIOUS
<1>6. \A x \in e.log : x.t \in 1 .. h + 1
  BY <1>1, <1>3, <1>2
<1>7. \A x \in e.log : x.t # h + 1
  BY <1>1, <1>3, <1>2
<1>8. e.history = "frozen" => e.frozen <= h + 1
  BY <1>1, <1>2 DEF LogOf
<1> QED BY <1>1, <1>2, <1>4, <1>6, <1>7, <1>8 DEF LogOf

\* The changes of the last tick that a trigger undoes, and the log it leaves.
Undone(d, rows, a) == {e \in d.log : e.q \in rows /\ e.t = HeadTick(d) /\ e.add = ~a}
LogAfter(d, rows, a) ==
    (d.log \ Undone(d, rows, a)) \cup {[q |-> q, t |-> HeadTick(d), add |-> a] : q \in rows \ {e.q : e \in Undone(d, rows, a)}}

\* With a live log, the triggers leave this log.
LEMMA LoggedIs ==
    ASSUME NEW d, d.history = "live", NEW rows, NEW a
    PROVE  Logged(d, rows, a) = [d EXCEPT !.log = LogAfter(d, rows, a)]
BY DEF Logged, LogAfter, Undone

\* The triggers touch the log alone.
SameButLog(d, e) ==
    /\ e \in Databases
    /\ e.level = d.level /\ e.history = d.history /\ e.column = d.column /\ e.clock = d.clock
    /\ e.tables = d.tables /\ e.quads = d.quads /\ e.table = d.table /\ e.ticks = d.ticks /\ e.frozen = d.frozen

\* That is what Logged does.
LEMMA CaptureShape ==
    ASSUME NEW d \in Databases, NEW a \in BOOLEAN, NEW rows \in SUBSET Quads, NEW e, e = Logged(d, rows, a)
    PROVE  SameButLog(d, e)
<1>1. CASE d.history # "live"
  BY <1>1 DEF Logged, SameButLog
<1>2. CASE d.history = "live"
  <2>1. PICK h \in Nat : h = HeadTick(d)
    BY DEF Databases, HeadTick
  <2>2. PICK log : log = LogAfter(d, rows, a)
    OBVIOUS
  <2>4. e = [d EXCEPT !.log = log]
    BY <1>2, <2>2, LoggedIs
  <2>5. log \subseteq Entries
    <3>1. d.log \subseteq Entries
      BY DEF Databases
    <3> QED BY <2>1, <2>2, <3>1 DEF Entries, LogAfter
  <2> QED BY <2>4, <2>5 DEF Databases, SameButLog
<1> QED BY <1>1, <1>2

\* A quad that leaves or enters the store is recorded at the last tick, and
\* what that tick had done to it is undone.
LEMMA CaptureKeepsLog ==
    ASSUME NEW d \in Databases, NEW gone, LogOf(d, gone), NEW add_ \in BOOLEAN, NEW rows \in SUBSET Quads,
           \A q \in rows : (q \in d.quads) <=> ~add_,
           NEW d1 \in Databases, d1.history = d.history, d1.ticks = d.ticks, d1.frozen = d.frozen, d1.log = d.log,
           d1.quads = (IF add_ THEN d.quads \cup rows ELSE d.quads \ rows),
           NEW e, e = Logged(d1, rows, add_)
    PROVE  LogOf(e, gone)
<1>2. /\ d1 \in Databases /\ d1.history = d.history
      /\ d1.ticks = d.ticks /\ d1.frozen = d.frozen /\ d1.log = d.log
      /\ d1.quads = (IF add_ THEN d.quads \cup rows ELSE d.quads \ rows)
  OBVIOUS
<1>4. CASE d.history # "live"
  <2>1. e = d1
    BY <1>2, <1>4 DEF Logged
  <2>2. LogOf(d1, gone)
    BY <1>2, <1>4 DEF LogOf, HeadTick
  <2> QED BY <1>2, <2>1, <2>2
<1>5. CASE d.history = "live"
  <2>1. PICK h \in Nat : h = HeadTick(d) /\ h >= 1
    BY <1>5 DEF Databases, LogOf, HeadTick
  <2>2. HeadTick(d1) = h
    BY <2>1, <1>2 DEF HeadTick
  <2>3. PICK undone : undone = {x \in d.log : x.q \in rows /\ x.t = h /\ x.add = ~add_}
    OBVIOUS
  <2>4. PICK log : log = (d.log \ undone) \cup {[q |-> q, t |-> h, add |-> add_] : q \in rows \ {x.q : x \in undone}}
    OBVIOUS
  <2>5. e = [d1 EXCEPT !.log = log]
    <3>1. undone = Undone(d1, rows, add_)
      BY <1>2, <2>2, <2>3 DEF Undone
    <3>2. log = LogAfter(d1, rows, add_)
      BY <1>2, <2>2, <2>4, <3>1 DEF LogAfter
    <3>3. d1.history = "live"
      BY <1>2, <1>5
    <3> QED BY <3>2, <3>3, LoggedIs
  <2>6. d.log \subseteq Entries
    BY DEF Databases
  <2>7. log \subseteq Entries
    BY <2>1, <2>4, <2>6 DEF Entries
  <2>8. e \in Databases /\ e.log = log /\ e.history = d1.history /\ HeadTick(e) = h /\ e.quads = d1.quads
    BY <1>2, <2>2, <2>5, <2>7 DEF Databases, HeadTick
  <2>9. \A x \in d.log : x.t \in 1 .. h
    BY <2>1 DEF LogOf
  <2>10. \A x \in log : x.t \in 1 .. h
    BY <2>1, <2>4, <2>9
  <2>11. ASSUME NEW q \in Quads \ gone
         PROVE  /\ Holds(log, q, h) <=> q \in d1.quads
                /\ \A x \in log : x.q = q /\ x.t = h => (x.add <=> ~Holds(log, q, h - 1))
    <3>1. /\ Holds(d.log, q, h) <=> q \in d.quads
          /\ \A x \in d.log : x.q = q /\ x.t = h => (x.add <=> ~Holds(d.log, q, h - 1))
      BY <1>5, <2>1 DEF LogOf
    <3>2. \A x : (x \in log /\ x.q = q /\ x.t <= h - 1) <=> (x \in d.log /\ x.q = q /\ x.t <= h - 1)
      <4>1. \A x : x \in log => x \in d.log \/ x.t = h
        BY <2>4
      <4>2. \A x \in d.log : x \notin log => x.t = h
        BY <2>3, <2>4
      <4> QED BY <4>1, <4>2, <2>1
    <3>3. Holds(log, q, h - 1) <=> Holds(d.log, q, h - 1)
      BY <3>2, HoldsLocal
    <3>4. CASE q \notin rows
      <4>1. \A x : (x \in log /\ x.q = q) <=> (x \in d.log /\ x.q = q)
        BY <2>3, <2>4, <3>4
      <4>2. Holds(log, q, h) <=> Holds(d.log, q, h)
        BY <4>1, HoldsLocal
      <4> QED BY <3>1, <3>3, <3>4, <4>1, <4>2, <1>2
    <3>5. CASE q \in rows /\ q \in {x.q : x \in undone}
      <4>1. PICK x \in undone : x.q = q
        BY <3>5
      <4>2. Holds(d.log, q, h - 1) <=> add_
        BY <4>1, <3>1, <2>3
      <4>3. \A y \in log : y.q = q => y.t # h
        BY <2>3, <2>4, <2>6, <3>1, <3>5, <4>2 DEF Entries
      <4>4. Holds(log, q, h) <=> Holds(log, q, h - 1)
        <5>1. \A y : (y \in log /\ y.q = q /\ y.t <= h) <=> (y \in log /\ y.q = q /\ y.t <= h - 1)
          BY <4>3, <2>10, <2>1
        <5> QED BY <5>1, HoldsLocal
      <4>5. q \in d1.quads <=> add_
        BY <1>2, <3>5
      <4> QED BY <3>3, <4>2, <4>3, <4>4, <4>5
    <3>6. CASE q \in rows /\ q \notin {x.q : x \in undone}
      <4>1. \A x \in d.log : x.q = q /\ x.t = h => x.add = add_
        BY <2>3, <2>6, <3>6 DEF Entries
      <4>2. \A x \in d.log : x.q = q => x.t # h
        <5> SUFFICES ASSUME NEW x \in d.log, x.q = q, x.t = h PROVE FALSE
          OBVIOUS
        <5>1. x.add = add_ /\ \A y \in d.log : y.q = q /\ y.t = h => y.add = add_
          BY <4>1
        <5>2. \A y \in d.log : y.t <= h
          BY <2>9, <2>1
        <5>3. Holds(d.log, q, h) <=> add_
          BY <5>1, <5>2, <2>6, HoldsAtHead
        <5> QED BY <5>3, <3>1, <3>6
      <4>3. Holds(d.log, q, h) <=> Holds(d.log, q, h - 1)
        <5>1. \A y : (y \in d.log /\ y.q = q /\ y.t <= h) <=> (y \in d.log /\ y.q = q /\ y.t <= h - 1)
          BY <4>2, <2>9, <2>1
        <5> QED BY <5>1, HoldsLocal
      <4>4. Holds(log, q, h - 1) <=> ~add_
        BY <4>3, <3>1, <3>3, <3>6
      <4>5. PICK x : x = [q |-> q, t |-> h, add |-> add_]
        OBVIOUS
      <4>6. x \in log /\ x.q = q /\ x.t = h /\ x.add = add_
        BY <2>4, <3>6, <4>5
      <4>7. \A y \in log : y.q = q /\ y.t = h => y.add = add_
        BY <2>4, <4>2
      <4>8. \A y \in log : y.t <= h
        BY <2>10, <2>1
      <4>9. Holds(log, q, h) <=> add_
        BY <2>7, <4>6, <4>7, <4>8, HoldsAtHead
      <4>10. q \in d1.quads <=> add_
        BY <1>2, <3>6
      <4> QED BY <4>4, <4>7, <4>9, <4>10
    <3> QED BY <3>4, <3>5, <3>6
  <2>12. LogOf(e, gone)
    <3>1. e.history = "live" /\ e.log = log /\ HeadTick(e) = h /\ e.quads = d1.quads
      BY <1>2, <1>5, <2>8
    <3> HIDE DEF Holds
    <3> QED BY <2>1, <2>10, <2>11, <3>1 DEF LogOf
  <2> QED BY <2>12
<1> QED BY <1>4, <1>5

\* A change of quads keeps the log, and leaves everything else alone.
ChangeKeeps(d, e) ==
    /\ e \in Databases
    /\ e.level = d.level /\ e.history = d.history /\ e.column = d.column /\ e.clock = d.clock
    /\ e.tables = d.tables /\ e.table = d.table /\ e.ticks = d.ticks
    /\ \A gone : LogOf(d, gone) => LogOf(e, gone)

\* A deletion is such a change.
LEMMA DeletedKeeps ==
    ASSUME NEW d \in Databases, NEW rows \in SUBSET Quads, NEW e, e = Deleted(d, rows)
    PROVE  ChangeKeeps(d, e) /\ e.quads = d.quads \ rows
<1>1. PICK d1 : d1 = [d EXCEPT !.quads = @ \ rows]
  OBVIOUS
<1>2. /\ d1 \in Databases /\ d1.level = d.level /\ d1.history = d.history /\ d1.column = d.column /\ d1.clock = d.clock
      /\ d1.tables = d.tables /\ d1.ticks = d.ticks /\ d1.frozen = d.frozen /\ d1.log = d.log /\ d1.table = d.table
      /\ d1.quads = d.quads \ rows
  BY <1>1 DEF Databases
<1>3. PICK some \in SUBSET Quads : some = rows \cap d.quads
  OBVIOUS
<1>4. e = Logged(d1, some, FALSE)
  BY <1>1, <1>3 DEF Deleted
<1>5. d1.quads = d.quads \ some /\ \A q \in some : q \in d.quads
  BY <1>2, <1>3
<1>6. ASSUME NEW gone, LogOf(d, gone) PROVE LogOf(e, gone)
  <2>1. d1.quads = (IF FALSE THEN d.quads \cup some ELSE d.quads \ some) /\ \A q \in some : (q \in d.quads) <=> ~FALSE
    BY <1>5
  <2> QED BY <1>2, <1>4, <1>6, <2>1, CaptureKeepsLog
<1>7. SameButLog(d1, e)
  BY <1>2, <1>4, CaptureShape
<1> QED BY <1>2, <1>6, <1>7 DEF SameButLog, ChangeKeeps

\* So is an insertion.
LEMMA InsertedKeeps ==
    ASSUME NEW d \in Databases, NEW rows \in SUBSET Quads, NEW e, e = Inserted(d, rows)
    PROVE  ChangeKeeps(d, e) /\ e.quads = d.quads \cup rows
<1>1. PICK d1 : d1 = [d EXCEPT !.quads = @ \cup rows]
  OBVIOUS
<1>2. /\ d1 \in Databases /\ d1.level = d.level /\ d1.history = d.history /\ d1.column = d.column /\ d1.clock = d.clock
      /\ d1.tables = d.tables /\ d1.ticks = d.ticks /\ d1.frozen = d.frozen /\ d1.log = d.log /\ d1.table = d.table
      /\ d1.quads = d.quads \cup rows
  BY <1>1 DEF Databases
<1>3. PICK some \in SUBSET Quads : some = rows \ d.quads
  OBVIOUS
<1>4. e = Logged(d1, some, TRUE)
  BY <1>1, <1>3 DEF Inserted
<1>5. d1.quads = d.quads \cup some /\ \A q \in some : q \notin d.quads
  BY <1>2, <1>3
<1>6. ASSUME NEW gone, LogOf(d, gone) PROVE LogOf(e, gone)
  <2>1. d1.quads = (IF TRUE THEN d.quads \cup some ELSE d.quads \ some) /\ \A q \in some : (q \in d.quads) <=> ~TRUE
    BY <1>5
  <2> QED BY <1>2, <1>4, <1>6, <2>1, CaptureKeepsLog
<1>7. SameButLog(d1, e)
  BY <1>2, <1>4, CaptureShape
<1> QED BY <1>2, <1>6, <1>7 DEF SameButLog, ChangeKeeps

-----------------------------------------------------------------------------
(* Level changes.                                                          *)

Moves == [db : Databases, state : Versions, ok : BOOLEAN]

\* A step of a level change: what it leaves of the database, and of the log
\* of a store whose history is the one the change was planned from.
MoveKeeps(x, y) ==
    /\ y \in Moves /\ y.db.tables = x.db.tables /\ y.db.quads = x.db.quads
    /\ x.state.history = x.db.history /\ Even(x.state) /\ Even(x.db) =>
           /\ y.state.history = y.db.history /\ Even(y.state) /\ Even(y.db)
           /\ \A gone : LogOf(x.db, gone) => LogOf(y.db, gone)

\* The clock starts: a tick, and the level.
LEMMA StartClockKeeps ==
    ASSUME NEW x \in Moves, x.state.level # Log
    PROVE  MoveKeeps(x, StartClock(x)) /\ StartClock(x).state.level = Stamped
<1>1. PICK d : d = [x.db EXCEPT !.clock = TRUE, !.column = TRUE, !.level = Stamped]
  OBVIOUS
<1>2. /\ d \in Databases /\ d.history = x.db.history /\ d.quads = x.db.quads /\ d.log = x.db.log /\ d.ticks = x.db.ticks
      /\ d.frozen = x.db.frozen /\ d.tables = x.db.tables
  BY <1>1 DEF Databases, Moves, Levels, Stamped, Off, Log
<1>3. PICK e : e = WithTick(d, "level", Nobody)
  OBVIOUS
<1>4. SameButTicks(d, e) /\ \A gone : LogOf(d, gone) => LogOf(e, gone)
  <2>1. [kind |-> "level", author |-> Nobody] \in TickRecords
    BY DEF TickRecords
  <2> QED BY <1>2, <1>3, <2>1, TickShape, TickKeepsLog
<1>5. ASSUME NEW gone, LogOf(x.db, gone) PROVE LogOf(e, gone)
  <2>1. LogOf(d, gone)
    <3>1. HeadTick(d) = HeadTick(x.db)
      BY <1>2 DEF HeadTick
    <3> QED BY <1>2, <1>5, <3>1 DEF LogOf
  <2> QED BY <1>4, <2>1
<1>6. PICK y : y = StartClock(x)
  OBVIOUS
<1>7. y = [db |-> e, state |-> [x.state EXCEPT !.level = Stamped, !.stamp_column = TRUE],
           ok |-> x.ok /\ (~x.state.stamp_column => ~x.db.column)]
  BY <1>1, <1>3, <1>6 DEF StartClock
<1>8. y.state \in Versions /\ y.state.history = x.state.history /\ y.state.level = Stamped
  BY <1>7 DEF Moves, Versions, Levels, Stamped, Off, Log
<1>9. y.db = e /\ y.ok \in BOOLEAN /\ y \in Moves
  BY <1>4, <1>7, <1>8 DEF Moves, SameButTicks
<1>10. e.level = Stamped
  BY <1>1, <1>4 DEF SameButTicks, Moves, Databases
<1> QED BY <1>2, <1>4, <1>5, <1>6, <1>8, <1>9, <1>10 DEF MoveKeeps, SameButTicks, Even, Stamped, Log

\* The changes the start of a log records: the gap since it froze, or all.
Gap(d, x, h) == {[q |-> q, t |-> h, add |-> q \in d.quads] : q \in (StateAt(x.db, x.db.frozen) \ d.quads) \cup (d.quads \ StateAt(x.db, x.db.frozen))}
Genesis(d, h) == {[q |-> q, t |-> h, add |-> TRUE] : q \in d.quads}

\* Each of them is an entry of the new tick.
LEMMA ChangesOfStart ==
    ASSUME NEW x \in Moves, NEW d \in Databases, NEW h \in Nat
    PROVE  /\ Gap(d, x, h) \subseteq Entries /\ Genesis(d, h) \subseteq Entries
           /\ \A e \in Gap(d, x, h) : e.t = h /\ (e.add <=> e.q \in d.quads)
                                      /\ (e.q \in StateAt(x.db, x.db.frozen) <=> e.q \notin d.quads)
           /\ \A q \in Quads : (q \in StateAt(x.db, x.db.frozen) <=> q \notin d.quads)
                                  => \E e \in Gap(d, x, h) : e.q = q
           /\ \A e \in Genesis(d, h) : e.t = h /\ e.add /\ e.q \in d.quads
           /\ \A q \in d.quads : \E e \in Genesis(d, h) : e.q = q
<1>1. d.quads \subseteq Quads /\ StateAt(x.db, x.db.frozen) \subseteq Quads
  BY DEF Databases, StateAt
<1>2. PICK then : then = StateAt(x.db, x.db.frozen)
  OBVIOUS
<1>3. Gap(d, x, h) = {[q |-> q, t |-> h, add |-> q \in d.quads] : q \in (then \ d.quads) \cup (d.quads \ then)}
  BY <1>2 DEF Gap
<1>4. ASSUME NEW e \in Gap(d, x, h)
      PROVE  e \in Entries /\ e.t = h /\ (e.add <=> e.q \in d.quads) /\ (e.q \in then <=> e.q \notin d.quads)
  <2>1. PICK q \in (then \ d.quads) \cup (d.quads \ then) : e = [q |-> q, t |-> h, add |-> q \in d.quads]
    BY <1>3
  <2>2. PICK b \in BOOLEAN : b <=> q \in d.quads
    OBVIOUS
  <2>3. e = [q |-> q, t |-> h, add |-> b]
    BY <2>1, <2>2
  <2>4. q \in Quads /\ (q \in then <=> q \notin d.quads)
    BY <1>1, <1>2
  <2> QED BY <2>2, <2>3, <2>4 DEF Entries
<1>5. ASSUME NEW q \in Quads, q \in then <=> q \notin d.quads PROVE \E e \in Gap(d, x, h) : e.q = q
  <2>1. [q |-> q, t |-> h, add |-> q \in d.quads] \in Gap(d, x, h)
    BY <1>3, <1>5
  <2> QED BY <2>1
<1>6. ASSUME NEW e \in Genesis(d, h) PROVE e \in Entries /\ e.t = h /\ e.add /\ e.q \in d.quads
  <2>1. PICK q \in d.quads : e = [q |-> q, t |-> h, add |-> TRUE]
    BY DEF Genesis
  <2> QED BY <1>1, <2>1 DEF Entries
<1>7. ASSUME NEW q \in d.quads PROVE \E e \in Genesis(d, h) : e.q = q
  <2>1. [q |-> q, t |-> h, add |-> TRUE] \in Genesis(d, h)
    BY <1>7 DEF Genesis
  <2> QED BY <2>1
<1> QED BY <1>2, <1>4, <1>5, <1>6, <1>7

\* The log starts: the changes it records make it the store.
LEMMA StartLogKeeps ==
    ASSUME NEW x \in Moves, x.state.level # Log
    PROVE  MoveKeeps(x, StartLog(x)) /\ StartLog(x).state.level = Log
<1>1. PICK d : d = WithTick(x.db, IF x.state.history = "frozen" THEN "resume" ELSE "genesis", Nobody)
  OBVIOUS
<1>2. x.db \in Databases /\ x.state \in Versions /\ x.ok \in BOOLEAN
  BY DEF Moves
<1>3. SameButTicks(x.db, d) /\ \A gone : LogOf(x.db, gone) => LogOf(d, gone)
  <2>1. [kind |-> IF x.state.history = "frozen" THEN "resume" ELSE "genesis", author |-> Nobody] \in TickRecords
    BY DEF TickRecords
  <2> QED BY <1>1, <1>2, <2>1, TickShape, TickKeepsLog
<1>4. PICK h \in Nat : h = HeadTick(d) /\ h >= 1 /\ h - 1 = HeadTick(x.db)
  BY <1>3 DEF SameButTicks
<1>5. PICK changes : changes = IF x.state.history = "frozen" THEN Gap(d, x, h) ELSE Genesis(d, h)
  OBVIOUS
<1>6. d \in Databases /\ d.quads \subseteq Quads /\ d.log \subseteq Entries
  BY <1>3 DEF SameButTicks, Databases
<1>7. changes \subseteq Entries
  BY <1>2, <1>4, <1>5, <1>6, ChangesOfStart
<1>8. PICK e : e = [d EXCEPT !.log = @ \cup changes, !.level = Log, !.history = "live", !.table = TRUE]
  OBVIOUS
<1>9. /\ e \in Databases /\ e.quads = d.quads /\ e.tables = d.tables /\ e.log = d.log \cup changes /\ e.history = "live"
      /\ e.ticks = d.ticks
  BY <1>6, <1>7, <1>8 DEF Databases, Levels, Histories, Off, Stamped, Log
<1>10. HeadTick(e) = h
  BY <1>4, <1>9 DEF HeadTick
<1>11. ASSUME NEW gone, LogOf(x.db, gone), x.state.history = x.db.history, Even(x.state)
       PROVE  LogOf(e, gone)
  <2>1. \A f \in d.log : f.t \in 1 .. h - 1
    BY <1>3, <1>4, <1>11 DEF LogOf, SameButTicks
  <2>2. \A f \in changes : f.t = h
    BY <1>2, <1>4, <1>5, <1>6, ChangesOfStart
  <2>3. \A f \in e.log : f.t \in 1 .. h
    BY <1>4, <1>9, <2>1, <2>2
  <2>4. ASSUME NEW q \in Quads
        PROVE  /\ Holds(e.log, q, h) <=> q \in e.quads
               /\ \A f \in e.log : f.q = q /\ f.t = h => (f.add <=> ~Holds(e.log, q, h - 1))
    <3>1. \A f : (f \in e.log /\ f.q = q /\ f.t <= h - 1) <=> (f \in d.log /\ f.q = q /\ f.t <= h - 1)
      BY <1>4, <1>9, <2>1, <2>2
    <3>2. Holds(e.log, q, h - 1) <=> Holds(d.log, q, h - 1)
      BY <3>1, HoldsLocal
    <3>3. \A f \in e.log : f.t = h => f \in changes
      BY <1>4, <1>9, <2>1
    <3>4. CASE x.state.history = "frozen"
      <4>1. \A f \in d.log : f.t <= x.db.frozen
        BY <1>3, <1>11, <3>4 DEF LogOf, SameButTicks
      <4>2. x.db.frozen <= h - 1 /\ x.db.frozen \in Nat
        BY <1>2, <1>4, <1>11, <3>4 DEF LogOf, Databases
      <4>3. \A f : (f \in d.log /\ f.q = q /\ f.t <= h - 1) <=> (f \in x.db.log /\ f.q = q /\ f.t <= x.db.frozen)
        BY <1>3, <1>4, <2>1, <4>1, <4>2 DEF SameButTicks
      <4>4. Holds(d.log, q, h - 1) <=> q \in StateAt(x.db, x.db.frozen)
        BY <4>3, HoldsLocal, StateIsHolds
      <4>5. changes = Gap(d, x, h)
        BY <1>5, <3>4
      <4>6. /\ \A f \in changes : f.t = h /\ (f.add <=> f.q \in d.quads)
                                      /\ (f.q \in StateAt(x.db, x.db.frozen) <=> f.q \notin d.quads)
            /\ (q \in StateAt(x.db, x.db.frozen) <=> q \notin d.quads) => \E f \in changes : f.q = q
        BY <1>2, <1>4, <1>6, <4>5, ChangesOfStart
      <4>7. CASE q \in StateAt(x.db, x.db.frozen) <=> q \notin d.quads
        <5>1. PICK f \in changes : f.q = q
          BY <4>6, <4>7
        <5>2. f \in e.log /\ f.t = h /\ (f.add <=> q \in d.quads)
          BY <1>9, <4>6, <5>1
        <5>3. \A g \in e.log : g.q = q /\ g.t = h => (g.add <=> q \in d.quads)
          BY <3>3, <4>6
        <5>4. e.log \in SUBSET Entries /\ \A g \in e.log : g.t <= h
          BY <1>6, <1>7, <1>9, <1>4, <2>3
        <5>5. Holds(e.log, q, h) <=> q \in d.quads
          BY <5>1, <5>2, <5>3, <5>4, HoldsAtHead
        <5> QED BY <1>9, <3>2, <4>4, <4>7, <5>3, <5>5
      <4>8. CASE ~(q \in StateAt(x.db, x.db.frozen) <=> q \notin d.quads)
        <5>1. \A f \in e.log : f.q = q => f.t # h
          BY <3>3, <4>6, <4>8
        <5>2. \A f : (f \in e.log /\ f.q = q /\ f.t <= h) <=> (f \in e.log /\ f.q = q /\ f.t <= h - 1)
          BY <5>1, <2>3, <1>4
        <5>3. Holds(e.log, q, h) <=> Holds(e.log, q, h - 1)
          BY <5>2, HoldsLocal
        <5> QED BY <1>9, <3>2, <4>4, <4>8, <5>1, <5>3
      <4> QED BY <4>7, <4>8
    <3>5. CASE x.state.history = "none"
      <4>1. d.log = {}
        BY <1>3, <1>11, <3>5 DEF LogOf, SameButTicks
      <4>2. ~Holds(d.log, q, h - 1)
        BY <4>1 DEF Holds
      <4>3. changes = Genesis(d, h)
        BY <1>5, <3>5
      <4>4. /\ \A f \in changes : f.t = h /\ f.add /\ f.q \in d.quads
            /\ q \in d.quads => \E f \in changes : f.q = q
        BY <1>2, <1>4, <1>6, <4>3, ChangesOfStart
      <4>5. e.log = changes
        BY <1>9, <4>1
      <4>6. Holds(e.log, q, h) <=> q \in d.quads
        BY <4>4, <4>5, <1>4 DEF Holds
      <4> QED BY <1>9, <3>2, <4>2, <4>4, <4>5, <4>6
    <3>6. CASE x.state.history = "live"
      BY <1>11, <3>6 DEF Even
    <3> QED BY <1>2, <3>4, <3>5, <3>6 DEF Versions, Histories
  <2>5. e.history = "live"
    BY <1>9
  <2> HIDE DEF Holds
  <2> QED BY <1>4, <1>10, <2>3, <2>4, <2>5 DEF LogOf
<1>12. PICK y : y = StartLog(x)
  OBVIOUS
<1>13. y = [db |-> e, state |-> [x.state EXCEPT !.level = Log, !.history = "live"], ok |-> x.ok /\ x.db.clock]
  <2>1. changes = (IF x.state.history = "frozen"
                   THEN {[q |-> q, t |-> HeadTick(d), add |-> q \in d.quads] : q \in (StateAt(x.db, x.db.frozen) \ d.quads) \cup (d.quads \ StateAt(x.db, x.db.frozen))}
                   ELSE {[q |-> q, t |-> HeadTick(d), add |-> TRUE] : q \in d.quads})
    BY <1>4, <1>5 DEF Gap, Genesis
  <2> QED BY <1>1, <1>8, <1>12, <2>1 DEF StartLog
<1>14. y.state \in Versions /\ y.state.history = "live" /\ y.state.level = Log
  BY <1>2, <1>13 DEF Versions, Levels, Histories, Stamped, Off, Log
<1>15. y.db = e /\ y.ok \in BOOLEAN /\ y \in Moves
  <2>1. x.db.clock \in BOOLEAN
    BY <1>2 DEF Databases
  <2> QED BY <1>2, <1>9, <1>13, <1>14, <2>1 DEF Moves
<1>16. e.level = Log
  BY <1>6, <1>8 DEF Databases
<1> QED BY <1>3, <1>9, <1>11, <1>12, <1>14, <1>15, <1>16 DEF MoveKeeps, SameButTicks, Even

\* The log freezes, or is dropped with everything in it.
LEMMA StopLogKeeps ==
    ASSUME NEW x \in Moves, NEW loss \in BOOLEAN
    PROVE  /\ MoveKeeps(x, StopLog(x, loss)) /\ StopLog(x, loss).state.level = Stamped
           /\ loss => StopLog(x, loss).state.history = "none"
<1>1. PICK d : d = WithTick(x.db, IF loss THEN "dropped" ELSE "freeze", Nobody)
  OBVIOUS
<1>2. x.db \in Databases /\ x.state \in Versions /\ x.ok \in BOOLEAN
  BY DEF Moves
<1>3. SameButTicks(x.db, d) /\ \A gone : LogOf(x.db, gone) => LogOf(d, gone)
  <2>1. [kind |-> IF loss THEN "dropped" ELSE "freeze", author |-> Nobody] \in TickRecords
    BY DEF TickRecords
  <2> QED BY <1>1, <1>2, <2>1, TickShape, TickKeepsLog
<1>4. PICK h \in Nat : h = HeadTick(d)
  BY <1>3 DEF SameButTicks
<1>5. PICK e : e = [d EXCEPT !.log = IF loss THEN {} ELSE @, !.table = @ /\ ~loss,
                             !.frozen = IF loss THEN @ ELSE HeadTick(d),
                             !.history = IF loss THEN "none" ELSE "frozen", !.level = Stamped]
  OBVIOUS
<1>6. d \in Databases
  BY <1>3 DEF SameButTicks
<1>7. /\ e \in Databases /\ e.quads = d.quads /\ e.tables = d.tables /\ e.ticks = d.ticks /\ e.level = Stamped
      /\ e.history = (IF loss THEN "none" ELSE "frozen") /\ e.log = (IF loss THEN {} ELSE d.log)
      /\ ~loss => e.frozen = h
  BY <1>4, <1>5, <1>6 DEF Databases, Levels, Histories, Off, Stamped, Log
<1>8. ASSUME NEW gone, LogOf(x.db, gone) PROVE LogOf(e, gone)
  <2>1. \A f \in d.log : f.t \in 1 .. h
    BY <1>3, <1>4, <1>8 DEF LogOf
  <2>2. HeadTick(e) = h
    BY <1>4, <1>7 DEF HeadTick
  <2>3. CASE loss
    BY <1>7, <2>2, <2>3 DEF LogOf
  <2>4. CASE ~loss
    BY <1>4, <1>7, <2>1, <2>2, <2>4 DEF LogOf
  <2> QED BY <2>3, <2>4
<1>9. PICK y : y = StopLog(x, loss)
  OBVIOUS
<1>10. y = [db |-> e, state |-> [x.state EXCEPT !.level = Stamped, !.history = IF loss THEN "none" ELSE "frozen"],
            ok |-> x.ok /\ x.db.clock]
  BY <1>1, <1>5, <1>9 DEF StopLog
<1>11. /\ y.state \in Versions /\ y.state.level = Stamped
       /\ y.state.history = (IF loss THEN "none" ELSE "frozen")
  BY <1>2, <1>10 DEF Versions, Levels, Histories, Off, Stamped, Log
<1>12. y.db = e /\ y \in Moves
  <2>1. x.db.clock \in BOOLEAN
    BY <1>2 DEF Databases
  <2> QED BY <1>2, <1>7, <1>10, <1>11, <2>1 DEF Moves
<1> QED BY <1>3, <1>7, <1>8, <1>9, <1>11, <1>12 DEF MoveKeeps, SameButTicks, Even, Stamped, Log

\* The clock stops; it goes away only when no log is left.
LEMMA StopClockKeeps ==
    ASSUME NEW x \in Moves, NEW loss \in BOOLEAN, x.state.level = Stamped, loss => x.state.history = "none"
    PROVE  MoveKeeps(x, StopClock(x, loss)) /\ StopClock(x, loss).state.level = Off
<1>1. x.db \in Databases /\ x.state \in Versions /\ x.ok \in BOOLEAN /\ x.db.clock \in BOOLEAN /\ x.db.column \in BOOLEAN
  BY DEF Moves, Databases
<1>2. PICK y : y = StopClock(x, loss)
  OBVIOUS
<1>3. PICK e : e = IF loss THEN [x.db EXCEPT !.clock = FALSE, !.column = FALSE, !.ticks = <<>>, !.frozen = 0, !.level = Off]
                   ELSE WithTick([x.db EXCEPT !.level = Off], "level", Nobody)
  OBVIOUS
<1>4. y = [db |-> e, state |-> [x.state EXCEPT !.level = Off, !.stamp_column = @ /\ ~loss],
           ok |-> x.ok /\ (IF loss THEN x.db.column ELSE x.db.clock)]
  BY <1>2, <1>3 DEF StopClock
<1>5. y.state \in Versions /\ y.state.level = Off /\ y.state.history = x.state.history
  BY <1>1, <1>4 DEF Versions, Levels, Histories, Off, Stamped, Log
<1>6. /\ e \in Databases /\ e.quads = x.db.quads /\ e.tables = x.db.tables /\ e.history = x.db.history /\ e.level = Off
      /\ x.state.history = x.db.history => \A gone : LogOf(x.db, gone) => LogOf(e, gone)
  <2>1. CASE loss
    <3>1. /\ e \in Databases /\ e.quads = x.db.quads /\ e.tables = x.db.tables /\ e.history = x.db.history /\ e.level = Off
          /\ e.log = x.db.log /\ e.ticks = <<>>
      <4>1. <<>> \in Seq(TickRecords)
        OBVIOUS
      <4> QED BY <1>1, <1>3, <2>1, <4>1 DEF Databases, Levels, Off, Stamped, Log
    <3>2. ASSUME x.state.history = x.db.history, NEW gone, LogOf(x.db, gone) PROVE LogOf(e, gone)
      BY <2>1, <3>1, <3>2 DEF LogOf
    <3> QED BY <3>1, <3>2
  <2>2. CASE ~loss
    <3>1. PICK d : d = [x.db EXCEPT !.level = Off]
      OBVIOUS
    <3>2. /\ d \in Databases /\ d.history = x.db.history /\ d.quads = x.db.quads /\ d.log = x.db.log /\ d.ticks = x.db.ticks
          /\ d.frozen = x.db.frozen /\ d.tables = x.db.tables /\ d.level = Off
      BY <1>1, <3>1 DEF Databases, Levels, Stamped, Off, Log
    <3>3. SameButTicks(d, e) /\ \A gone : LogOf(d, gone) => LogOf(e, gone)
      <4>1. [kind |-> "level", author |-> Nobody] \in TickRecords
        BY DEF TickRecords
      <4>2. e = WithTick(d, "level", Nobody)
        BY <1>3, <2>2, <3>1
      <4> QED BY <3>2, <4>1, <4>2, TickShape, TickKeepsLog
    <3>4. ASSUME NEW gone, LogOf(x.db, gone) PROVE LogOf(d, gone)
      <4>1. HeadTick(d) = HeadTick(x.db)
        BY <3>2 DEF HeadTick
      <4> QED BY <3>2, <3>4, <4>1 DEF LogOf
    <3> QED BY <3>2, <3>3, <3>4 DEF SameButTicks
  <2> QED BY <2>1, <2>2
<1>7. y.db = e /\ y \in Moves
  BY <1>1, <1>4, <1>5, <1>6 DEF Moves
<1> QED BY <1>2, <1>5, <1>6, <1>7 DEF MoveKeeps, Even, Off, Stamped, Log

\* One move of a level change, of any kind.
LEMMA MoveKeepsAll ==
    ASSUME NEW x \in Moves, NEW c, c.to \in 0 .. 2, c.allow_loss \in BOOLEAN, Plannable(x.state, c)
    PROVE  MoveKeeps(x, Move(x, c)) /\ Plannable(Move(x, c).state, c)
<1>1. x.state.level \in {0, 1, 2}
  BY DEF Moves, Versions, Levels, Off, Stamped, Log
<1>2. CASE x.state.level < c.to /\ x.state.level = Off
  <2>1. Move(x, c) = StartClock(x)
    BY <1>2 DEF Move
  <2> QED BY <1>2, <2>1, StartClockKeeps DEF Plannable, Off, Log
<1>3. CASE x.state.level < c.to /\ x.state.level # Off
  <2>1. Move(x, c) = StartLog(x)
    BY <1>3 DEF Move
  <2>2. x.state.level # Log
    BY <1>1, <1>3 DEF Log
  <2> QED BY <2>1, <2>2, StartLogKeeps DEF Plannable, Stamped, Log
<1>4. CASE x.state.level > c.to /\ x.state.level = Log
  <2>1. Move(x, c) = StopLog(x, c.allow_loss)
    BY <1>1, <1>4 DEF Move, Off, Log
  <2> QED BY <2>1, StopLogKeeps DEF Plannable
<1>5. CASE x.state.level > c.to /\ x.state.level # Log
  <2>1. Move(x, c) = StopClock(x, c.allow_loss)
    BY <1>1, <1>5 DEF Move, Off, Log
  <2>2. x.state.level = Stamped /\ c.to = Off
    BY <1>1, <1>5 DEF Stamped, Off, Log
  <2> QED BY <2>1, <2>2, StopClockKeeps DEF Plannable, Off, Stamped
<1>6. CASE x.state.level = c.to
  <2>1. Move(x, c) = x
    BY <1>1, <1>6 DEF Move
  <2> QED BY <2>1 DEF MoveKeeps
<1> QED BY <1>1, <1>2, <1>3, <1>4, <1>5, <1>6

\* Both moves of a level change.
LEMMA LevelChangeKeeps ==
    ASSUME NEW x \in Moves, NEW c, c.to \in 0 .. 2, c.allow_loss \in BOOLEAN, Plannable(x.state, c)
    PROVE  MoveKeeps(x, Move(Move(x, c), c))
<1>1. PICK y : y = Move(x, c)
  OBVIOUS
<1>2. MoveKeeps(x, y) /\ Plannable(y.state, c)
  BY <1>1, MoveKeepsAll
<1>3. y \in Moves
  BY <1>2 DEF MoveKeeps
<1>4. MoveKeeps(y, Move(y, c))
  BY <1>2, <1>3, MoveKeepsAll
<1> QED BY <1>1, <1>2, <1>4 DEF MoveKeeps

-----------------------------------------------------------------------------
(* What a request leaves and answers.                                      *)

\* A request as a task sends it.
Requests(r) ==
    /\ r.stage \in StageRecords /\ r.stage.kind # "then" /\ r.prefix \in BOOLEAN /\ r.author \in Authors \cup {Nobody}
    /\ r.prefix => IsWrite(r.stage)
    /\ r.stage.kind = "level" => Plannable(r.stage.state, r.stage.change)

\* The quads that a purge has left in the log after a request.
LeakedAfter(r, x) == IF x.ok /\ r.stage.kind = "purge" /\ \E e \in x.db.log : e.q = r.stage.q
                     THEN leaked \cup {r.stage.q} ELSE leaked

\* A level change planned from the history it meets.
Timely(r) == r.stage.kind = "level" => r.stage.state.history = db.history /\ Even(r.stage.state)

RunKeeps(r, x) ==
    /\ x.db \in Databases /\ x.ok \in BOOLEAN /\ (~x.ok => x.db = db)
    /\ x.ok /\ IsWrite(r.stage) =>
           LET n == x.results[IF r.prefix THEN 3 ELSE 1]
           IN  n \in Nat /\ x.results = (IF r.prefix THEN <<1, 1, n>> ELSE <<n>>)
    /\ x.ok /\ ~IsWrite(r.stage) => x.results = <<0>>
    /\ x.ok /\ r.stage.kind = "stats" =>
           x.read[1] = [version |-> VersionOf(db), facts |-> FactsOf(db), epoch |-> epoch.db]
    /\ db.tables => x.db.tables
    /\ x.ok /\ r.stage.kind = "tables" => x.db.tables
    /\ VersionOf(x.db) # VersionOf(db) => r.stage.kind = "level"
    /\ FactsOf(x.db) # FactsOf(db) => Touches(r.stage) \/ r.stage.kind = "purge"
    /\ Timely(r) /\ Even(db) => /\ Even(x.db)
                                /\ LogOf(db, leaked) => LogOf(x.db, LeakedAfter(r, x))

\* A request that is refused leaves everything as it was.
LEMMA RefusalKeeps ==
    ASSUME db \in Databases, NEW r
    PROVE  RunKeeps(r, Fails)
<1>1. PICK x : x = Fails
  OBVIOUS
<1>2. x.db = db /\ x.ok = FALSE
  BY <1>1 DEF Fails
<1>3. LeakedAfter(r, x) = leaked
  BY <1>2 DEF LeakedAfter
<1> QED BY <1>1, <1>2, <1>3 DEF RunKeeps

\* A request that only reads answers with one result.
LEMMA ReadKeeps ==
    ASSUME db \in Databases, NEW r, ~IsWrite(r.stage), r.stage.kind \notin {"level", "purge", "tables"},
           NEW x, x.db = db, x.ok = TRUE, x.results = << 0 >>,
           r.stage.kind = "stats" => x.read[1] = [version |-> VersionOf(db), facts |-> FactsOf(db), epoch |-> epoch.db]
    PROVE  RunKeeps(r, x)
<1>1. LeakedAfter(r, x) = leaked
  BY DEF LeakedAfter
<1> QED BY <1>1 DEF RunKeeps

\* The requests that only read.
LEMMA RunReads ==
    ASSUME db \in Databases, NEW r, Requests(r),
           r.stage.kind \in {"read", "stats", "refresh", "status", "resolve", "as_of", "diff"}
    PROVE  RunKeeps(r, Run(r))
<1>1. ~IsWrite(r.stage) /\ r.stage.kind \notin {"level", "purge", "tables"}
  BY DEF IsWrite
<1>2. PICK x : x = Run(r)
  OBVIOUS
<1>3. ASSUME NEW rs PROVE /\ Answer(db, <<0>>).db = db /\ Answer(db, <<0>>).ok = TRUE /\ Answer(db, <<0>>).results = <<0>>
                         /\ [Answer(db, <<0>>) EXCEPT !.read = rs].db = db
                         /\ [Answer(db, <<0>>) EXCEPT !.read = rs].ok = TRUE
                         /\ [Answer(db, <<0>>) EXCEPT !.read = rs].results = <<0>>
                         /\ [Answer(db, <<0>>) EXCEPT !.read = rs].read = rs
  BY DEF Answer
<1>4. x = Fails \/ (x.db = db /\ x.ok = TRUE /\ x.results = <<0>>)
  <2>1. CASE r.stage.kind = "read"
    BY <1>2, <1>3, <2>1 DEF Run
  <2>2. CASE r.stage.kind = "stats"
    BY <1>2, <1>3, <2>2 DEF Run
  <2>3. CASE r.stage.kind \in {"refresh", "status"}
    BY <1>2, <1>3, <2>3 DEF Run
  <2>4. CASE r.stage.kind = "resolve"
    BY <1>2, <1>3, <2>4 DEF Run
  <2>5. CASE r.stage.kind = "as_of"
    BY <1>2, <1>3, <2>5 DEF Run
  <2>6. CASE r.stage.kind = "diff"
    BY <1>2, <1>3, <2>6 DEF Run
  <2> QED BY <2>1, <2>2, <2>3, <2>4, <2>5, <2>6
<1>5. r.stage.kind = "stats" => x.read[1] = [version |-> VersionOf(db), facts |-> FactsOf(db), epoch |-> epoch.db]
  <2> SUFFICES ASSUME r.stage.kind = "stats"
               PROVE  x.read[1] = [version |-> VersionOf(db), facts |-> FactsOf(db), epoch |-> epoch.db]
    OBVIOUS
  <2>1. PICK a : a = [version |-> VersionOf(db), facts |-> FactsOf(db), epoch |-> epoch.db]
    OBVIOUS
  <2>2. x = [Answer(db, <<0>>) EXCEPT !.read = <<a>>]
    BY <1>2, <2>1 DEF Run
  <2>3. x.read = <<a>>
    BY <1>3, <2>2
  <2> QED BY <2>1, <2>3
<1>6. CASE x = Fails
  BY <1>2, <1>6, RefusalKeeps
<1>7. CASE x.db = db /\ x.ok = TRUE /\ x.results = <<0>>
  BY <1>1, <1>2, <1>5, <1>7, ReadKeeps
<1> QED BY <1>4, <1>6, <1>7

\* The tables are created.
LEMMA RunTables ==
    ASSUME db \in Databases, NEW r, r.stage.kind = "tables"
    PROVE  RunKeeps(r, Run(r))
<1>1. PICK x : x = Run(r)
  OBVIOUS
<1>2. PICK d : d = [db EXCEPT !.tables = TRUE]
  OBVIOUS
<1>3. x = [db |-> d, ok |-> TRUE, results |-> <<0>>, read |-> <<>>]
  BY <1>1, <1>2 DEF Run, Answer
<1>4. /\ d \in Databases /\ d.tables /\ d.history = db.history /\ d.level = db.level /\ d.column = db.column
      /\ d.quads = db.quads /\ d.log = db.log /\ d.ticks = db.ticks /\ d.frozen = db.frozen
  BY <1>2 DEF Databases
<1>5. LeakedAfter(r, x) = leaked /\ ~IsWrite(r.stage)
  BY DEF LeakedAfter, IsWrite
<1>6. LogOf(db, leaked) => LogOf(d, leaked)
  <2>1. HeadTick(d) = HeadTick(db)
    BY <1>4 DEF HeadTick
  <2> QED BY <1>4, <2>1 DEF LogOf
<1>7. VersionOf(d) = VersionOf(db) /\ FactsOf(d) = FactsOf(db) /\ (Even(db) => Even(d))
  BY <1>4 DEF VersionOf, FactsOf, Even
<1>8. x.db = d /\ x.ok = TRUE /\ x.results = <<0>>
  BY <1>3
<1> QED BY <1>1, <1>4, <1>5, <1>6, <1>7, <1>8 DEF RunKeeps

\* The counts of finite sets are numbers.
LEMMA CountsOfQuads ==
    ASSUME NEW a \in SUBSET Quads, NEW b \in SUBSET Quads
    PROVE  Cardinality(a) + Cardinality(b) \in Nat
<1>1. IsFiniteSet(a) /\ IsFiniteSet(b)
  BY QuadsAssumption, FS_Subset
<1>2. Cardinality(a) \in Nat /\ Cardinality(b) \in Nat
  BY <1>1, FS_CardinalityType
<1> QED BY <1>2

\* The results of a tick and of the write after it.
LEMMA ResultsOfTick ==
    ASSUME NEW n \in Nat
    PROVE  <<1, 1>> \o <<n>> = <<1, 1, n>>
<1>1. PICK s \in Seq(Nat) : s = <<1, 1>> /\ Len(s) = 2 /\ s[1] = 1 /\ s[2] = 1
  <2>1. <<1, 1>> \in Seq(Nat) /\ Len(<<1, 1>>) = 2 /\ <<1, 1>>[1] = 1 /\ <<1, 1>>[2] = 1
    OBVIOUS
  <2> QED BY <2>1
<1>2. PICK t \in Seq(Nat) : t = <<n>> /\ Len(t) = 1 /\ t[1] = n
  <2>1. <<n>> \in Seq(Nat) /\ Len(<<n>>) = 1 /\ <<n>>[1] = n
    OBVIOUS
  <2> QED BY <2>1
<1>3. PICK u \in Seq(Nat) : u = <<1, 1, n>> /\ Len(u) = 3 /\ u[1] = 1 /\ u[2] = 1 /\ u[3] = n
  <2>1. <<1, 1, n>> \in Seq(Nat) /\ Len(<<1, 1, n>>) = 3 /\ <<1, 1, n>>[1] = 1 /\ <<1, 1, n>>[2] = 1 /\ <<1, 1, n>>[3] = n
    OBVIOUS
  <2> QED BY <2>1
<1>4. s \o t \in Seq(Nat) /\ Len(s \o t) = 3 /\ (s \o t)[1] = 1 /\ (s \o t)[2] = 1 /\ (s \o t)[3] = n
  BY <1>1, <1>2, ConcatProperties
<1>5. \A i \in 1 .. 3 : i = 1 \/ i = 2 \/ i = 3
  OBVIOUS
<1>6. \A i \in 1 .. 3 : (s \o t)[i] = u[i]
  BY <1>3, <1>4, <1>5
<1>7. s \o t = u
  BY <1>3, <1>4, <1>6, SeqEqual
<1> QED BY <1>1, <1>2, <1>3, <1>7

\* A write, in front of it the tick when one is asked for.
LEMMA WriteKeeps ==
    ASSUME db \in Databases, NEW r, Requests(r), IsWrite(r.stage), NEW del \in SUBSET Quads, NEW ins \in SUBSET Quads,
           ~Touches(r.stage) => (del \cup ins) \cap SchemaQuads = {}
    PROVE  RunKeeps(r, RunWrite(del, ins, r))
<1>1. PICK x : x = RunWrite(del, ins, r)
  OBVIOUS
<1>2. CASE \/ r.prefix /\ ~db.clock
           \/ r.stamped /\ ins # {} /\ ~(db.clock /\ db.column)
  <2>1. x = Fails
    BY <1>1, <1>2 DEF RunWrite
  <2> QED BY <1>1, <2>1, RefusalKeeps
<1>3. CASE ~(\/ r.prefix /\ ~db.clock
             \/ r.stamped /\ ins # {} /\ ~(db.clock /\ db.column))
  <2>1. PICK d : d = IF r.prefix THEN WithTick(db, "write", r.author) ELSE db
    OBVIOUS
  <2>2. PICK m : m = Deleted(d, del)
    OBVIOUS
  <2>3. PICK e : e = Inserted(m, ins)
    OBVIOUS
  <2>4. PICK n : n = Cardinality(del \cap db.quads) + Cardinality(ins \ (db.quads \ del))
    OBVIOUS
  <2>5. x = Answer(e, (IF r.prefix THEN <<1, 1>> ELSE <<>>) \o <<n>>)
    BY <1>1, <1>3, <2>1, <2>2, <2>3, <2>4 DEF RunWrite
  <2>6. /\ d \in Databases /\ d.history = db.history /\ d.level = db.level /\ d.column = db.column /\ d.tables = db.tables
        /\ d.quads = db.quads /\ (LogOf(db, leaked) => LogOf(d, leaked))
    <3>1. CASE r.prefix
      <4>1. [kind |-> "write", author |-> r.author] \in TickRecords
        BY DEF TickRecords, Requests
      <4>2. d = WithTick(db, "write", r.author)
        BY <2>1, <3>1
      <4>3. SameButTicks(db, d) /\ (LogOf(db, leaked) => LogOf(d, leaked))
        BY <4>1, <4>2, TickShape, TickKeepsLog
      <4> QED BY <4>3 DEF SameButTicks
    <3>2. CASE ~r.prefix
      BY <2>1, <3>2
    <3> QED BY <3>1, <3>2
  <2>7. ChangeKeeps(d, m) /\ m.quads = d.quads \ del
    BY <2>2, <2>6, DeletedKeeps
  <2>8. m \in Databases
    BY <2>7 DEF ChangeKeeps
  <2>9. ChangeKeeps(m, e) /\ e.quads = m.quads \cup ins
    BY <2>3, <2>8, InsertedKeeps
  <2>10. /\ e \in Databases /\ e.history = db.history /\ e.level = db.level /\ e.column = db.column /\ e.tables = db.tables
         /\ LogOf(db, leaked) => LogOf(e, leaked)
    BY <2>6, <2>7, <2>9 DEF ChangeKeeps
  <2>11. e.quads = (db.quads \ del) \cup ins
    BY <2>6, <2>7, <2>9
  <2>12. VersionOf(e) = VersionOf(db) /\ (Even(db) => Even(e))
    BY <2>10 DEF VersionOf, Even
  <2>13. FactsOf(e) # FactsOf(db) => Touches(r.stage)
    BY <2>11 DEF FactsOf
  <2>14. n \in Nat
    BY <2>4, CountsOfQuads
  <2>15. x.db = e /\ x.ok = TRUE /\ x.results = (IF r.prefix THEN <<1, 1>> ELSE <<>>) \o <<n>>
    BY <2>5 DEF Answer
  <2>16. x.results = (IF r.prefix THEN <<1, 1, n>> ELSE <<n>>) /\ x.results[IF r.prefix THEN 3 ELSE 1] = n
    <3>1. CASE r.prefix
      <4>2. <<1, 1>> \o <<n>> = <<1, 1, n>>
        BY <2>14, ResultsOfTick
      <4>3. x.results = <<1, 1, n>>
        BY <2>15, <3>1, <4>2
      <4> QED BY <3>1, <4>3
    <3>2. CASE ~r.prefix
      BY <2>15, <3>2
    <3> QED BY <3>1, <3>2 DEF Requests
  <2>17. LeakedAfter(r, x) = leaked /\ r.stage.kind \notin {"stats", "tables", "purge"}
    BY DEF LeakedAfter, IsWrite
  <2> QED BY <1>1, <2>10, <2>12, <2>13, <2>14, <2>15, <2>16, <2>17 DEF RunKeeps
<1> QED BY <1>2, <1>3

\* The writes, planned and of what was read.
LEMMA RunWrites ==
    ASSUME db \in Databases, NEW r, Requests(r), IsWrite(r.stage)
    PROVE  RunKeeps(r, Run(r))
<1>1. CASE r.stage.kind = "write"
  <2>1. r.stage.del \subseteq Quads /\ r.stage.ins \subseteq Quads
    BY <1>1 DEF Requests, StageRecords
  <2>2. Run(r) = RunWrite(r.stage.del, r.stage.ins, r)
    BY <1>1 DEF Run
  <2>3. ~Touches(r.stage) => (r.stage.del \cup r.stage.ins) \cap SchemaQuads = {}
    BY <1>1 DEF Touches
  <2> QED BY <2>1, <2>2, <2>3, WriteKeeps
<1>2. CASE r.stage.kind = "rewrite"
  <2>1. r.stage.of \cap r.memory[1] \subseteq Quads /\ r.stage.ins \subseteq Quads
    BY <1>2 DEF Requests, StageRecords
  <2>2. Run(r) = RunWrite(r.stage.of \cap r.memory[1], r.stage.ins, r)
    BY <1>2 DEF Run
  <2>3. ~Touches(r.stage) => ((r.stage.of \cap r.memory[1]) \cup r.stage.ins) \cap SchemaQuads = {}
    BY <1>2 DEF Touches
  <2> QED BY <2>1, <2>2, <2>3, WriteKeeps
<1> QED BY <1>1, <1>2 DEF IsWrite

\* A change of the level.
LEMMA RunLevel ==
    ASSUME db \in Databases, NEW r, Requests(r), r.stage.kind = "level"
    PROVE  RunKeeps(r, Run(r))
<1>1. PICK x : x = [db |-> db, state |-> r.stage.state, ok |-> TRUE]
  OBVIOUS
<1>2. PICK y : y = Move(Move(x, r.stage.change), r.stage.change)
  OBVIOUS
<1>3. PICK a : a = Run(r)
  OBVIOUS
<1>4. a = IF y.ok THEN Answer(y.db, <<0>>) ELSE Fails
  BY <1>1, <1>2, <1>3 DEF Run
<1>5. r.stage.state \in Versions /\ r.stage.change.to \in 0 .. 2 /\ r.stage.change.allow_loss \in BOOLEAN
  BY DEF Requests, StageRecords
<1>6. x \in Moves /\ x.state = r.stage.state /\ x.db = db
  BY <1>1, <1>5 DEF Moves
<1>7. MoveKeeps(x, y)
  BY <1>2, <1>5, <1>6, LevelChangeKeeps DEF Requests
<1>8. CASE ~y.ok
  BY <1>3, <1>4, <1>8, RefusalKeeps
<1>9. CASE y.ok
  <2>1. a.db = y.db /\ a.ok = TRUE /\ a.results = <<0>>
    BY <1>4, <1>9 DEF Answer
  <2>2. y.db \in Databases
    BY <1>7 DEF MoveKeeps, Moves
  <2>3. LeakedAfter(r, a) = leaked /\ ~IsWrite(r.stage) /\ Touches(r.stage)
    BY DEF LeakedAfter, IsWrite, Touches
  <2>4. Timely(r) /\ Even(db) => Even(y.db) /\ (LogOf(db, leaked) => LogOf(y.db, leaked))
    BY <1>6, <1>7 DEF MoveKeeps, Timely
  <2>5. y.db.tables = db.tables
    BY <1>6, <1>7 DEF MoveKeeps
  <2> QED BY <1>3, <2>1, <2>2, <2>3, <2>4, <2>5 DEF RunKeeps
<1> QED BY <1>8, <1>9

\* A purge removes a quad from the store, and from the log it knows of.
LEMMA RunPurge ==
    ASSUME db \in Databases, NEW r, Requests(r), r.stage.kind = "purge"
    PROVE  RunKeeps(r, Run(r))
<1>1. PICK x : x = Run(r)
  OBVIOUS
<1>2. PICK ticked \in BOOLEAN : ticked <=> (r.stage.state.level >= Stamped \/ r.stage.state.stamp_column \/ r.stage.state.history # "none")
  OBVIOUS
<1>3. PICK known \in BOOLEAN : known <=> r.stage.state.history # "none"
  OBVIOUS
<1>4. PICK d : d = IF ticked THEN WithTick(db, "purge", r.stage.author) ELSE db
  OBVIOUS
<1>5. PICK e : e = [d EXCEPT !.quads = @ \ {r.stage.q}, !.log = IF known THEN {f \in @ : f.q # r.stage.q} ELSE @]
  OBVIOUS
<1>6. x = IF (ticked /\ ~db.clock) \/ (known /\ ~db.table) THEN Fails ELSE Answer(e, <<0>>)
  BY <1>1, <1>2, <1>3, <1>4, <1>5 DEF Run
<1>7. /\ d \in Databases /\ d.history = db.history /\ d.level = db.level /\ d.column = db.column /\ d.tables = db.tables
      /\ d.quads = db.quads /\ (LogOf(db, leaked) => LogOf(d, leaked))
  <2>1. CASE ticked
    <3>1. [kind |-> "purge", author |-> r.stage.author] \in TickRecords
      BY DEF TickRecords, Requests, StageRecords
    <3>2. d = WithTick(db, "purge", r.stage.author)
      BY <1>4, <2>1
    <3>3. SameButTicks(db, d) /\ (LogOf(db, leaked) => LogOf(d, leaked))
      BY <3>1, <3>2, TickShape, TickKeepsLog
    <3> QED BY <3>3 DEF SameButTicks
  <2>2. CASE ~ticked
    BY <1>4, <2>2
  <2> QED BY <2>1, <2>2
<1>8. PICK log : log = IF known THEN {f \in d.log : f.q # r.stage.q} ELSE d.log
  OBVIOUS
<1>9. /\ e \in Databases /\ e.history = d.history /\ e.level = d.level /\ e.column = d.column /\ e.tables = d.tables
      /\ e.quads = d.quads \ {r.stage.q} /\ e.log = log /\ e.ticks = d.ticks /\ e.frozen = d.frozen
  <2>1. e = [d EXCEPT !.quads = @ \ {r.stage.q}, !.log = log]
    BY <1>5, <1>8
  <2>2. log \subseteq d.log /\ d.log \subseteq Entries
    BY <1>7, <1>8 DEF Databases
  <2> QED BY <1>7, <2>1, <2>2 DEF Databases
<1>10. CASE (ticked /\ ~db.clock) \/ (known /\ ~db.table)
  BY <1>1, <1>6, <1>10, RefusalKeeps
<1>11. CASE ~((ticked /\ ~db.clock) \/ (known /\ ~db.table))
  <2>1. x.db = e /\ x.ok = TRUE /\ x.results = <<0>>
    BY <1>6, <1>11 DEF Answer
  <2>2. VersionOf(e) = VersionOf(db) /\ (Even(db) => Even(e))
    BY <1>7, <1>9 DEF VersionOf, Even
  <2>3. PICK gone : gone = LeakedAfter(r, x)
    OBVIOUS
  <2>4. ASSUME LogOf(d, leaked) PROVE LogOf(e, gone)
    <3>1. leaked \subseteq gone /\ ((\E f \in log : f.q = r.stage.q) => r.stage.q \in gone)
      BY <1>9, <2>1, <2>3 DEF LeakedAfter
    <3>2. HeadTick(e) = HeadTick(d)
      BY <1>9 DEF HeadTick
    <3>3. PICK h \in Nat : h = HeadTick(d)
      BY <1>7 DEF HeadTick, Databases
    <3>4. ASSUME NEW q \in Quads \ gone, e.history = "live"
          PROVE  /\ Holds(log, q, h) <=> q \in e.quads
                 /\ \A f \in log : f.q = q /\ f.t = h => (f.add <=> ~Holds(log, q, h - 1))
      <4>1. CASE q = r.stage.q
        <5>1. \A f \in log : f.q # q
          BY <3>1, <3>4, <4>1
        <5> QED BY <1>9, <4>1, <5>1 DEF Holds
      <4>2. CASE q # r.stage.q
        <5>1. \A f : (f \in log /\ f.q = q) <=> (f \in d.log /\ f.q = q)
          BY <1>8, <4>2
        <5>2. (Holds(log, q, h) <=> Holds(d.log, q, h)) /\ (Holds(log, q, h - 1) <=> Holds(d.log, q, h - 1))
          BY <5>1, HoldsLocal
        <5>3. /\ Holds(d.log, q, h) <=> q \in d.quads
              /\ \A f \in d.log : f.q = q /\ f.t = h => (f.add <=> ~Holds(d.log, q, h - 1))
          BY <1>9, <2>4, <3>1, <3>3, <3>4 DEF LogOf
        <5> QED BY <1>9, <4>2, <5>1, <5>2, <5>3
      <4> QED BY <4>1, <4>2
    <3>5. log \subseteq d.log
      BY <1>8
    <3> HIDE DEF Holds
    <3> QED BY <1>9, <2>4, <3>2, <3>3, <3>4, <3>5 DEF LogOf
  <2>5. ~IsWrite(r.stage)
    BY DEF IsWrite
  <2> QED BY <1>1, <1>7, <1>9, <2>1, <2>2, <2>3, <2>4, <2>5 DEF RunKeeps
<1> QED BY <1>10, <1>11

\* Whatever a task asks for.
LEMMA RunKeepsAll ==
    ASSUME db \in Databases, NEW r, Requests(r)
    PROVE  RunKeeps(r, Run(r))
<1>1. \/ r.stage.kind \in {"read", "stats", "refresh", "status", "resolve", "as_of", "diff"}
      \/ IsWrite(r.stage) \/ r.stage.kind \in {"tables", "level", "purge"}
  BY DEF Requests, StageRecords, IsWrite
<1> QED BY <1>1, RunReads, RunWrites, RunTables, RunLevel, RunPurge

-----------------------------------------------------------------------------
(* The requests of a call.                                                 *)

\* The positions of a short sequence.
LEMMA Positions ==
    /\ \A k \in 1 .. 1 : k = 1
    /\ \A k \in 1 .. 2 : k = 1 \/ k = 2
    /\ \A k \in 1 .. 3 : k = 1 \/ k = 2 \/ k = 3
OBVIOUS

\* Short sequences of a set.
LEMMA Tuples ==
    ASSUME NEW S, NEW a \in S, NEW b \in S, NEW c \in S, NEW d \in S
    PROVE  /\ <<a>> \in Seq(S) /\ <<a, b>> \in Seq(S) /\ <<a, b, c>> \in Seq(S) /\ <<a, b, c, d>> \in Seq(S)
OBVIOUS

\* Two short sequences put together, element by element.
LEMMA ShortSequences ==
    ASSUME NEW S, NEW a \in S, NEW b \in S, NEW c \in S
    PROVE  /\ <<a>> \o <<b>> = <<a, b>>
           /\ <<>> \o <<b, c>> = <<b, c>>
<1>1. PICK s \in Seq(S) : s = <<a>> /\ Len(s) = 1 /\ s[1] = a
  <2>1. <<a>> \in Seq(S) /\ Len(<<a>>) = 1 /\ <<a>>[1] = a
    OBVIOUS
  <2> QED BY <2>1
<1>2. PICK t \in Seq(S) : t = <<b>> /\ Len(t) = 1 /\ t[1] = b
  <2>1. <<b>> \in Seq(S) /\ Len(<<b>>) = 1 /\ <<b>>[1] = b
    OBVIOUS
  <2> QED BY <2>1
<1>4. PICK v \in Seq(S) : v = <<a, b>> /\ Len(v) = 2 /\ v[1] = a /\ v[2] = b
  <2>1. <<a, b>> \in Seq(S) /\ Len(<<a, b>>) = 2 /\ <<a, b>>[1] = a /\ <<a, b>>[2] = b
    OBVIOUS
  <2> QED BY <2>1
<1>5. PICK w \in Seq(S) : w = <<b, c>> /\ Len(w) = 2 /\ w[1] = b /\ w[2] = c
  <2>1. <<b, c>> \in Seq(S) /\ Len(<<b, c>>) = 2 /\ <<b, c>>[1] = b /\ <<b, c>>[2] = c
    OBVIOUS
  <2> QED BY <2>1
<1>7. s \o t = v
  <2>1. s \o t \in Seq(S) /\ Len(s \o t) = 2 /\ (s \o t)[1] = a /\ (s \o t)[2] = b
    BY <1>1, <1>2, ConcatProperties
  <2>2. \A i \in 1 .. 2 : (s \o t)[i] = v[i]
    BY <1>4, <2>1, Positions
  <2> QED BY <1>4, <2>1, <2>2, SeqEqual
<1>10. <<>> \o w = w
  BY ConcatEmptySeq
<1> QED BY <1>1, <1>2, <1>4, <1>5, <1>7, <1>10

\* A pair and one more.
LEMMA PairAndOne ==
    ASSUME NEW S, NEW a \in S, NEW b \in S, NEW c \in S
    PROVE  <<a, b>> \o <<c>> = <<a, b, c>>
<1>1. PICK v \in Seq(S) : v = <<a, b>> /\ Len(v) = 2 /\ v[1] = a /\ v[2] = b
  <2>1. <<a, b>> \in Seq(S) /\ Len(<<a, b>>) = 2 /\ <<a, b>>[1] = a /\ <<a, b>>[2] = b
    OBVIOUS
  <2> QED BY <2>1
<1>2. PICK u \in Seq(S) : u = <<c>> /\ Len(u) = 1 /\ u[1] = c
  <2>1. <<c>> \in Seq(S) /\ Len(<<c>>) = 1 /\ <<c>>[1] = c
    OBVIOUS
  <2> QED BY <2>1
<1>3. PICK x \in Seq(S) : x = <<a, b, c>> /\ Len(x) = 3 /\ x[1] = a /\ x[2] = b /\ x[3] = c
  <2>1. <<a, b, c>> \in Seq(S) /\ Len(<<a, b, c>>) = 3 /\ <<a, b, c>>[1] = a /\ <<a, b, c>>[2] = b /\ <<a, b, c>>[3] = c
    OBVIOUS
  <2> QED BY <2>1
<1>4. v \o u \in Seq(S) /\ Len(v \o u) = 3 /\ (v \o u)[1] = a /\ (v \o u)[2] = b /\ (v \o u)[3] = c
  BY <1>1, <1>2, ConcatProperties
<1>5. \A i \in 1 .. 3 : (v \o u)[i] = x[i]
  BY <1>3, <1>4, Positions
<1>6. v \o u = x
  BY <1>3, <1>4, <1>5, SeqEqual
<1> QED BY <1>1, <1>2, <1>3, <1>6

\* One and a pair.
LEMMA OneAndPair ==
    ASSUME NEW S, NEW a \in S, NEW b \in S, NEW c \in S
    PROVE  <<a>> \o <<b, c>> = <<a, b, c>>
<1>1. PICK v \in Seq(S) : v = <<a>> /\ Len(v) = 1 /\ v[1] = a
  <2>1. <<a>> \in Seq(S) /\ Len(<<a>>) = 1 /\ <<a>>[1] = a
    OBVIOUS
  <2> QED BY <2>1
<1>2. PICK u \in Seq(S) : u = <<b, c>> /\ Len(u) = 2 /\ u[1] = b /\ u[2] = c
  <2>1. <<b, c>> \in Seq(S) /\ Len(<<b, c>>) = 2 /\ <<b, c>>[1] = b /\ <<b, c>>[2] = c
    OBVIOUS
  <2> QED BY <2>1
<1>3. PICK x \in Seq(S) : x = <<a, b, c>> /\ Len(x) = 3 /\ x[1] = a /\ x[2] = b /\ x[3] = c
  <2>1. <<a, b, c>> \in Seq(S) /\ Len(<<a, b, c>>) = 3 /\ <<a, b, c>>[1] = a /\ <<a, b, c>>[2] = b /\ <<a, b, c>>[3] = c
    OBVIOUS
  <2> QED BY <2>1
<1>4. v \o u \in Seq(S) /\ Len(v \o u) = 3 /\ (v \o u)[1] = a /\ (v \o u)[2] = b /\ (v \o u)[3] = c
  BY <1>1, <1>2, ConcatProperties
<1>5. \A i \in 1 .. 3 : (v \o u)[i] = x[i]
  BY <1>3, <1>4, Positions
<1>6. v \o u = x
  BY <1>3, <1>4, <1>5, SeqEqual
<1> QED BY <1>1, <1>2, <1>3, <1>6

\* A plan that may be sent: its version is the one the engine remembers.
Planned(c, s) == /\ Suited(c, s) /\ s # <<>> /\ s[1].kind # "then"
                 /\ \A k \in 1 .. Len(s) : s[k].kind = "level" => s[k].state = stats.version

\* What makes a plan one that may be sent.
LEMMA PlannedIs ==
    ASSUME NEW c, NEW s \in Seq(StageRecords), Len(s) >= 1, s[1].kind # "then",
           \A k \in 1 .. Len(s) : Suits(c, s, k) /\ (s[k].kind = "level" => s[k].state = stats.version)
    PROVE  Planned(c, s)
BY DEF Planned, Suited

\* A request of a call's operation, whatever follows it.
Fits(c, x) ==
    /\ x \in StageRecords
    /\ IsWrite(x) => Bound(c)
    /\ c.op = "put" => x.kind \in {"tables", "read", "rewrite"}
    /\ x.kind = "tables" => c.op = "put"
    /\ x.kind = "purge" => c.op = "purge"
    /\ x.kind = "level" => Plannable(x.state, x.change) /\ x.state = stats.version

\* A plan without a load that touches nothing, or of a put or a purge.
LEMMA PlansWithoutLoad ==
    ASSUME NEW c, NEW s \in Seq(StageRecords), Len(s) >= 1, s[1].kind # "then",
           \A k \in 1 .. Len(s) : Fits(c, s[k]) /\ s[k].kind # "stats" /\ (Touches(s[k]) => c.op \in {"put", "purge"})
    PROVE  Planned(c, s)
BY PlannedIs DEF Fits, Suits

\* A plan with a load behind what touches the schema or the level.
LEMMA PlansWithLoad ==
    ASSUME NEW c, NEW s \in Seq(StageRecords), NEW j \in 1 .. Len(s), s[j].kind = "stats",
           \A k \in 1 .. Len(s) : Fits(c, s[k]) /\ s[k].kind \notin {"then", "resolve"} /\ (k >= j => ~Touches(s[k]))
    PROVE  Planned(c, s)
<1>1. Len(s) \in Nat /\ Len(s) >= 1 /\ j \in Nat
  OBVIOUS
<1>2. s[1].kind # "then"
  BY <1>1
<1>3. ASSUME NEW k \in 1 .. Len(s), Touches(s[k]) PROVE j > k
  BY <1>1, <1>3
<1>4. \A k \in 1 .. Len(s) : Suits(c, s, k) /\ (s[k].kind = "level" => s[k].state = stats.version)
  BY <1>3 DEF Fits, Suits
<1> QED BY <1>1, <1>2, <1>4, PlannedIs

\* Plans of one request, and of two and three without a load.
LEMMA ShortPlans ==
    ASSUME NEW c, NEW x, NEW y, NEW z, Fits(c, x), Fits(c, y), Fits(c, z), x.kind # "then",
           \A v \in {x, y, z} : v.kind # "stats" /\ (Touches(v) => c.op \in {"put", "purge"})
    PROVE  Planned(c, <<x>>) /\ Planned(c, <<x, y>>) /\ Planned(c, <<x, y, z>>)
<1>1. x \in StageRecords /\ y \in StageRecords /\ z \in StageRecords
  BY DEF Fits
<1>2. PICK s \in Seq(StageRecords) : s = <<x>> /\ Len(s) = 1 /\ s[1] = x
  <2>1. <<x>> \in Seq(StageRecords) /\ Len(<<x>>) = 1 /\ <<x>>[1] = x
    BY <1>1, Tuples
  <2> QED BY <2>1
<1>3. PICK t \in Seq(StageRecords) : t = <<x, y>> /\ Len(t) = 2 /\ t[1] = x /\ t[2] = y
  <2>1. <<x, y>> \in Seq(StageRecords) /\ Len(<<x, y>>) = 2 /\ <<x, y>>[1] = x /\ <<x, y>>[2] = y
    BY <1>1, Tuples
  <2> QED BY <2>1
<1>4. PICK u \in Seq(StageRecords) : u = <<x, y, z>> /\ Len(u) = 3 /\ u[1] = x /\ u[2] = y /\ u[3] = z
  <2>1. <<x, y, z>> \in Seq(StageRecords) /\ Len(<<x, y, z>>) = 3
        /\ <<x, y, z>>[1] = x /\ <<x, y, z>>[2] = y /\ <<x, y, z>>[3] = z
    BY <1>1, Tuples
  <2> QED BY <2>1
<1>5. /\ \A k \in 1 .. Len(s) : s[k] \in {x, y, z}
      /\ \A k \in 1 .. Len(t) : t[k] \in {x, y, z}
      /\ \A k \in 1 .. Len(u) : u[k] \in {x, y, z}
  BY <1>2, <1>3, <1>4, Positions
<1>6. \A v \in {x, y, z} : Fits(c, v) /\ v.kind # "stats" /\ (Touches(v) => c.op \in {"put", "purge"})
  OBVIOUS
<1>7. Len(s) >= 1 /\ Len(t) >= 1 /\ Len(u) >= 1 /\ s[1].kind # "then" /\ t[1].kind # "then" /\ u[1].kind # "then"
  BY <1>2, <1>3, <1>4
<1>8. Planned(c, s) /\ Planned(c, t) /\ Planned(c, u)
  BY <1>5, <1>6, <1>7, PlansWithoutLoad
<1> QED BY <1>2, <1>3, <1>4, <1>8

\* Plans of two and three requests that load at the end, or before the status.
LEMMA LoadPlans ==
    ASSUME NEW c, NEW x, NEW y, NEW l, Fits(c, x), Fits(c, y), Fits(c, l), l.kind = "stats",
           \A v \in {x, y} : v.kind \notin {"then", "resolve"}
    PROVE  /\ Planned(c, <<x, l>>) /\ Planned(c, <<x, y, l>>)
           /\ ~Touches(y) => Planned(c, <<l, y>>) /\ Planned(c, <<x, l, y>>)
<1>1. x \in StageRecords /\ y \in StageRecords /\ l \in StageRecords /\ ~Touches(l)
  BY DEF Fits, Touches
<1>2. PICK s \in Seq(StageRecords) : s = <<x, l>> /\ Len(s) = 2 /\ s[1] = x /\ s[2] = l
  <2>1. <<x, l>> \in Seq(StageRecords) /\ Len(<<x, l>>) = 2 /\ <<x, l>>[1] = x /\ <<x, l>>[2] = l
    BY <1>1, Tuples
  <2> QED BY <2>1
<1>3. PICK t \in Seq(StageRecords) : t = <<x, y, l>> /\ Len(t) = 3 /\ t[1] = x /\ t[2] = y /\ t[3] = l
  <2>1. <<x, y, l>> \in Seq(StageRecords) /\ Len(<<x, y, l>>) = 3
        /\ <<x, y, l>>[1] = x /\ <<x, y, l>>[2] = y /\ <<x, y, l>>[3] = l
    BY <1>1, Tuples
  <2> QED BY <2>1
<1>4. PICK u \in Seq(StageRecords) : u = <<l, y>> /\ Len(u) = 2 /\ u[1] = l /\ u[2] = y
  <2>1. <<l, y>> \in Seq(StageRecords) /\ Len(<<l, y>>) = 2 /\ <<l, y>>[1] = l /\ <<l, y>>[2] = y
    BY <1>1, Tuples
  <2> QED BY <2>1
<1>5. PICK w \in Seq(StageRecords) : w = <<x, l, y>> /\ Len(w) = 3 /\ w[1] = x /\ w[2] = l /\ w[3] = y
  <2>1. <<x, l, y>> \in Seq(StageRecords) /\ Len(<<x, l, y>>) = 3
        /\ <<x, l, y>>[1] = x /\ <<x, l, y>>[2] = l /\ <<x, l, y>>[3] = y
    BY <1>1, Tuples
  <2> QED BY <2>1
<1>6. \A v \in {x, y, l} : Fits(c, v) /\ v.kind \notin {"then", "resolve"}
  OBVIOUS
<1>7. Planned(c, s)
  <2>1. \A k \in 1 .. Len(s) : s[k] \in {x, y, l} /\ (k >= 2 => ~Touches(s[k]))
    BY <1>1, <1>2, Positions
  <2>2. 2 \in 1 .. Len(s) /\ s[2].kind = "stats"
    BY <1>2
  <2> QED BY <1>6, <2>1, <2>2, PlansWithLoad
<1>8. Planned(c, t)
  <2>1. \A k \in 1 .. Len(t) : t[k] \in {x, y, l} /\ (k >= 3 => ~Touches(t[k]))
    BY <1>1, <1>3, Positions
  <2>2. 3 \in 1 .. Len(t) /\ t[3].kind = "stats"
    BY <1>3
  <2> QED BY <1>6, <2>1, <2>2, PlansWithLoad
<1>9. ASSUME ~Touches(y) PROVE Planned(c, u) /\ Planned(c, w)
  <2>1. \A k \in 1 .. Len(u) : u[k] \in {x, y, l} /\ (k >= 1 => ~Touches(u[k]))
    BY <1>1, <1>4, <1>9, Positions
  <2>2. 1 \in 1 .. Len(u) /\ u[1].kind = "stats"
    BY <1>4
  <2>3. \A k \in 1 .. Len(w) : w[k] \in {x, y, l} /\ (k >= 2 => ~Touches(w[k]))
    BY <1>1, <1>5, <1>9, Positions
  <2>4. 2 \in 1 .. Len(w) /\ w[2].kind = "stats"
    BY <1>5
  <2> QED BY <1>6, <2>1, <2>2, <2>3, <2>4, PlansWithLoad
<1> QED BY <1>2, <1>3, <1>4, <1>5, <1>7, <1>8, <1>9

\* The load fits every call but a put.
LEMMA LoadFits ==
    ASSUME NEW c, c.op # "put"
    PROVE  Fits(c, Load) /\ Load.kind = "stats"
<1>1. PICK l : l = [kind |-> "stats"]
  OBVIOUS
<1>2. l \in StageRecords /\ l.kind = "stats"
  BY <1>1 DEF StageRecords
<1> QED BY <1>1, <1>2 DEF Load, Fits, IsWrite

\* A plan that loads again when it touches the schema.
LEMMA ReloadingPlans ==
    ASSUME NEW c, c.op # "put", NEW x, NEW y, Fits(c, x), Fits(c, y), NEW rows,
           \A v \in {x, y} : v.kind \notin {"then", "resolve", "stats"} /\ (Touches(v) => rows \cap SchemaQuads # {})
    PROVE  Planned(c, reloading(<<x>>, rows)) /\ Planned(c, reloading(<<x, y>>, rows))
<1>1. PICK l : l = Load
  OBVIOUS
<1>2. Fits(c, l) /\ l.kind = "stats"
  BY <1>1, LoadFits
<1>3. x \in StageRecords /\ y \in StageRecords /\ l \in StageRecords
  BY <1>2 DEF Fits
<1>4. CASE rows \cap SchemaQuads # {}
  <2>1. reloading(<<x>>, rows) = <<x>> \o <<l>> /\ reloading(<<x, y>>, rows) = <<x, y>> \o <<l>>
    BY <1>1, <1>4 DEF reloading
  <2>2. <<x>> \o <<l>> = <<x, l>>
    BY <1>3, ShortSequences
  <2>4. <<x, y>> \o <<l>> = <<x, y, l>>
    BY <1>3, PairAndOne
  <2>5. Planned(c, <<x, l>>) /\ Planned(c, <<x, y, l>>)
    BY <1>2, LoadPlans
  <2> QED BY <2>1, <2>2, <2>4, <2>5
<1>5. CASE rows \cap SchemaQuads = {}
  <2>1. reloading(<<x>>, rows) = <<x>> /\ reloading(<<x, y>>, rows) = <<x, y>>
    BY <1>5 DEF reloading
  <2>2. Planned(c, <<x>>) /\ Planned(c, <<x, y>>)
    BY <1>5, ShortPlans
  <2> QED BY <2>1, <2>2
<1> QED BY <1>4, <1>5

\* A write of some quads, of a call that is no put.
LEMMA WriteFits ==
    ASSUME NEW c, c.op # "put", Bound(c), NEW a \in SUBSET Quads, NEW b \in SUBSET Quads
    PROVE  Fits(c, Write(a, b)) /\ Write(a, b).kind = "write" /\ (Touches(Write(a, b)) => (a \cup b) \cap SchemaQuads # {})
<1>1. PICK w : w = [kind |-> "write", del |-> a, ins |-> b]
  OBVIOUS
<1>2. w \in StageRecords /\ w.kind = "write" /\ w.del = a /\ w.ins = b
  BY <1>1 DEF StageRecords
<1> QED BY <1>1, <1>2 DEF Write, Fits, Touches

\* A rewrite of some quads.
LEMMA RewriteFits ==
    ASSUME NEW c, Bound(c), NEW a \in SUBSET Quads, NEW b \in SUBSET Quads
    PROVE  Fits(c, Rewrite(a, b)) /\ Rewrite(a, b).kind = "rewrite" /\ (Touches(Rewrite(a, b)) => (a \cup b) \cap SchemaQuads # {})
<1>1. PICK w : w = [kind |-> "rewrite", of |-> a, ins |-> b]
  OBVIOUS
<1>2. w \in StageRecords /\ w.kind = "rewrite" /\ w.of = a /\ w.ins = b
  BY <1>1 DEF StageRecords
<1> QED BY <1>1, <1>2 DEF Rewrite, Fits, Touches

\* A read fits every call.
LEMMA ReadFits ==
    ASSUME NEW c
    PROVE  Fits(c, Read) /\ Read.kind = "read" /\ ~Touches(Read)
<1>1. PICK w : w = [kind |-> "read"]
  OBVIOUS
<1>2. w \in StageRecords /\ w.kind = "read"
  BY <1>1 DEF StageRecords
<1> QED BY <1>1, <1>2 DEF Read, Fits, Touches, IsWrite

\* A stage that carries nothing and touches nothing.
LEMMA PlainFits ==
    ASSUME NEW c, c.op # "put", NEW k \in {"refresh", "as_of", "diff", "status"}
    PROVE  Fits(c, [kind |-> k]) /\ [kind |-> k].kind = k /\ ~Touches([kind |-> k])
<1>1. PICK w : w = [kind |-> k]
  OBVIOUS
<1>2. w \in StageRecords /\ w.kind = k
  BY <1>1 DEF StageRecords
<1> QED BY <1>1, <1>2 DEF Fits, Touches, IsWrite

\* The plans of calls that write and load again.
LEMMA WritingPlans ==
    ASSUME NEW c, c \in CallRecords, c.op \in {"add", "delete", "update", "clear", "cypher"}
    PROVE  Planned(c, Plan(c))
<1>1. Bound(c) /\ c.op # "put"
  BY DEF Bound
<1>2. CASE c.op = "add"
  <2>1. c.quads \in SUBSET Quads /\ {} \in SUBSET Quads /\ c.quads \cup {} = c.quads /\ {} \cup c.quads = c.quads
    BY <1>2 DEF CallRecords
  <2>2. PICK w : w = Write({}, c.quads)
    OBVIOUS
  <2>3. Fits(c, w) /\ w.kind = "write" /\ (Touches(w) => c.quads \cap SchemaQuads # {})
    BY <1>1, <2>1, <2>2, WriteFits
  <2>4. Planned(c, reloading(<<w>>, c.quads))
    BY <1>1, <2>3, ReloadingPlans
  <2> QED BY <1>2, <2>2, <2>4 DEF Plan, add
<1>3. CASE c.op = "delete"
  <2>1. c.quads \in SUBSET Quads /\ {} \in SUBSET Quads /\ c.quads \cup {} = c.quads
    BY <1>3 DEF CallRecords
  <2>2. PICK w : w = Write(c.quads, {})
    OBVIOUS
  <2>3. Fits(c, w) /\ w.kind = "write" /\ (Touches(w) => c.quads \cap SchemaQuads # {})
    BY <1>1, <2>1, <2>2, WriteFits
  <2>4. Planned(c, reloading(<<w>>, c.quads))
    BY <1>1, <2>3, ReloadingPlans
  <2> QED BY <1>3, <2>2, <2>4 DEF Plan, delete
<1>4. CASE c.op = "update"
  <2>1. c.del \in SUBSET Quads /\ c.ins \in SUBSET Quads
    BY <1>4 DEF CallRecords
  <2>2. PICK w : w = Write(c.del, c.ins)
    OBVIOUS
  <2>3. Fits(c, w) /\ w.kind = "write" /\ (Touches(w) => (c.del \cup c.ins) \cap SchemaQuads # {})
    BY <1>1, <2>1, <2>2, WriteFits
  <2>4. Planned(c, reloading(<<w>>, c.del \cup c.ins))
    BY <1>1, <2>3, ReloadingPlans
  <2> QED BY <1>4, <2>2, <2>4 DEF Plan, update
<1>5. CASE c.op = "clear"
  <2>1. PICK w : w = Write(Quads, {})
    OBVIOUS
  <2>2. Fits(c, w) /\ w.kind = "write"
    BY <1>1, <2>1, WriteFits
  <2>3. PICK l : l = Load
    OBVIOUS
  <2>4. Planned(c, <<w, l>>)
    BY <1>1, <2>2, <2>3, LoadFits, LoadPlans
  <2> QED BY <1>5, <2>1, <2>3, <2>4 DEF Plan, clear
<1>6. CASE c.op = "cypher"
  <2>1. c.of \in SUBSET Quads /\ c.ins \in SUBSET Quads
    BY <1>6 DEF CallRecords
  <2>2. PICK w : w = Rewrite(c.of, c.ins)
    OBVIOUS
  <2>3. Fits(c, w) /\ w.kind = "rewrite" /\ (Touches(w) => (c.of \cup c.ins) \cap SchemaQuads # {})
    BY <1>1, <2>1, <2>2, RewriteFits
  <2>4. PICK r : r = Read
    OBVIOUS
  <2>5. Fits(c, r) /\ r.kind = "read" /\ ~Touches(r)
    BY <2>4, ReadFits
  <2>6. Planned(c, reloading(<<r, w>>, c.of \cup c.ins))
    BY <1>1, <2>3, <2>5, ReloadingPlans
  <2> QED BY <1>6, <2>2, <2>4, <2>6 DEF Plan, cypher
<1> QED BY <1>2, <1>3, <1>4, <1>5, <1>6

\* The plan of a bulk load: its chunks, what refreshes the statistics, a load.
LEMMA BulkLoadPlans ==
    ASSUME NEW c, c \in CallRecords, c.op = "bulkLoad"
    PROVE  Planned(c, Plan(c))
<1>1. Bound(c) /\ c.op # "put" /\ c.chunks \in Seq(SUBSET Quads)
  BY DEF Bound, CallRecords
<1>2. PICK n \in Nat : n = Len(c.chunks)
  BY <1>1
<1>3. PICK s : s = [i \in 1 .. n |-> Write({}, c.chunks[i])]
  OBVIOUS
<1>4. \A i \in 1 .. n : Fits(c, s[i]) /\ s[i].kind = "write"
  <2> SUFFICES ASSUME NEW i \in 1 .. n PROVE Fits(c, s[i]) /\ s[i].kind = "write"
    OBVIOUS
  <2>1. s[i] = Write({}, c.chunks[i])
    BY <1>3
  <2>2. c.chunks[i] \in SUBSET Quads /\ {} \in SUBSET Quads
    BY <1>1, <1>2
  <2> QED BY <1>1, <2>1, <2>2, WriteFits
<1>5. s \in Seq(StageRecords) /\ Len(s) = n
  <2>1. \A i \in 1 .. n : s[i] \in StageRecords
    BY <1>4 DEF Fits
  <2>2. s \in [1 .. n -> StageRecords]
    BY <1>3, <2>1
  <2> QED BY <1>2, <2>2
<1>6. PICK f : f = Refresh
  OBVIOUS
<1>7. Fits(c, f) /\ f.kind = "refresh" /\ ~Touches(f)
  BY <1>1, <1>6, PlainFits DEF Refresh
<1>8. PICK l : l = Load
  OBVIOUS
<1>9. Fits(c, l) /\ l.kind = "stats" /\ ~Touches(l)
  <2>1. Fits(c, l) /\ l.kind = "stats"
    BY <1>1, <1>8, LoadFits
  <2> QED BY <2>1 DEF Touches
<1>10. PICK w : w = <<f, l>>
  OBVIOUS
<1>11. w \in Seq(StageRecords) /\ Len(w) = 2 /\ w[1] = f /\ w[2] = l
  <2>1. f \in StageRecords /\ l \in StageRecords
    BY <1>7, <1>9 DEF Fits
  <2> QED BY <1>10, <2>1, Tuples
<1>12. PICK p : p = s \o w
  OBVIOUS
<1>13. /\ p \in Seq(StageRecords) /\ Len(p) = n + 2
       /\ \A i \in 1 .. n : p[i] = s[i]
       /\ p[n + 1] = f /\ p[n + 2] = l
  <2>1. p \in Seq(StageRecords) /\ Len(p) = n + 2
    <3>1. p \in Seq(StageRecords) /\ Len(p) = Len(s) + Len(w)
      BY <1>5, <1>11, <1>12, ConcatProperties
    <3> QED BY <1>2, <1>5, <1>11, <3>1
  <2>2. \A i \in 1 .. n : p[i] = s[i]
    BY <1>2, <1>5, <1>11, <1>12, ConcatProperties
  <2>3. p[n + 1] = w[1] /\ p[n + 2] = w[2]
    <3>1. \A k \in 1 .. Len(s) + Len(w) : k > Len(s) => p[k] = w[k - Len(s)]
      BY <1>5, <1>11, <1>12, ConcatProperties
    <3>2. n + 1 \in 1 .. n + 2 /\ n + 2 \in 1 .. n + 2 /\ n + 1 > n /\ n + 2 > n /\ (n + 1) - n = 1 /\ (n + 2) - n = 2
      BY <1>2
    <3> QED BY <1>5, <1>11, <3>1, <3>2
  <2> QED BY <1>11, <2>1, <2>2, <2>3
<1>14. \A k \in 1 .. Len(p) : Fits(c, p[k]) /\ p[k].kind \notin {"then", "resolve"} /\ (k >= n + 2 => ~Touches(p[k]))
  <2> SUFFICES ASSUME NEW k \in 1 .. Len(p)
               PROVE  Fits(c, p[k]) /\ p[k].kind \notin {"then", "resolve"} /\ (k >= n + 2 => ~Touches(p[k]))
    OBVIOUS
  <2>1. k \in 1 .. n \/ k = n + 1 \/ k = n + 2
    BY <1>2, <1>13
  <2>2. CASE k \in 1 .. n
    BY <1>2, <1>4, <1>13, <2>2
  <2>3. CASE k = n + 1
    BY <1>7, <1>13, <2>3
  <2>4. CASE k = n + 2
    BY <1>9, <1>13, <2>4
  <2> QED BY <2>1, <2>2, <2>3, <2>4
<1>15. n + 2 \in 1 .. Len(p) /\ p[n + 2].kind = "stats"
  BY <1>2, <1>9, <1>13
<1>16. Planned(c, p)
  BY <1>13, <1>14, <1>15, PlansWithLoad
<1> QED BY <1>2, <1>3, <1>6, <1>8, <1>10, <1>12, <1>16 DEF Plan, bulk_load

\* The plans of calls that read, and of the ones that refresh the statistics.
LEMMA ReadingPlans ==
    ASSUME NEW c, c \in CallRecords, c.op \in {"optimize", "query", "queryAsOf", "diff"}
    PROVE  Planned(c, Plan(c))
<1>1. Bound(c) /\ c.op # "put"
  BY DEF Bound
<1>2. CASE c.op = "optimize"
  <2>1. PICK f : f = Refresh
    OBVIOUS
  <2>2. Fits(c, f) /\ f.kind = "refresh"
    BY <1>1, <2>1, PlainFits DEF Refresh
  <2>3. PICK l : l = Load
    OBVIOUS
  <2>4. Planned(c, <<f, l>>)
    BY <1>1, <2>2, <2>3, LoadFits, LoadPlans
  <2> QED BY <1>2, <2>1, <2>3, <2>4 DEF Plan, optimize
<1>3. CASE c.op = "query"
  <2>1. PICK r : r = Read
    OBVIOUS
  <2>2. Fits(c, r) /\ r.kind = "read" /\ ~Touches(r)
    BY <2>1, ReadFits
  <2>3. Planned(c, <<r>>)
    BY <2>2, ShortPlans
  <2> QED BY <1>3, <2>1, <2>3 DEF Plan, query
<1>4. ASSUME NEW refs \in Seq(Nat), NEW x, x = [kind |-> "resolve", refs |-> refs]
      PROVE  Fits(c, x) /\ x.kind = "resolve" /\ ~Touches(x)
  <2>1. x \in StageRecords /\ x.kind = "resolve"
    BY <1>4 DEF StageRecords
  <2> QED BY <1>1, <2>1 DEF Fits, IsWrite, Touches
<1>5. CASE c.op = "queryAsOf"
  <2>1. <<c.version>> \in Seq(Nat)
    BY <1>5 DEF CallRecords
  <2>2. PICK x : x = [kind |-> "resolve", refs |-> <<c.version>>]
    OBVIOUS
  <2>3. PICK y : y = [kind |-> "as_of"]
    OBVIOUS
  <2>4. Fits(c, x) /\ x.kind = "resolve" /\ ~Touches(x)
    BY <1>4, <2>1, <2>2
  <2>5. Fits(c, y) /\ y.kind = "as_of" /\ ~Touches(y)
    BY <1>1, <2>3, PlainFits
  <2>6. Planned(c, <<x, y>>)
    BY <2>4, <2>5, ShortPlans
  <2> QED BY <1>5, <2>2, <2>3, <2>6 DEF Plan, query_as_of
<1>6. CASE c.op = "diff"
  <2>1. <<c.from, c.to>> \in Seq(Nat)
    BY <1>6 DEF CallRecords
  <2>2. PICK x : x = [kind |-> "resolve", refs |-> <<c.from, c.to>>]
    OBVIOUS
  <2>3. PICK y : y = [kind |-> "diff"]
    OBVIOUS
  <2>4. Fits(c, x) /\ x.kind = "resolve" /\ ~Touches(x)
    BY <1>4, <2>1, <2>2
  <2>5. Fits(c, y) /\ y.kind = "diff" /\ ~Touches(y)
    BY <1>1, <2>3, PlainFits
  <2>6. Planned(c, <<x, y>>)
    BY <2>4, <2>5, ShortPlans
  <2> QED BY <1>6, <2>2, <2>3, <2>6 DEF Plan, diff
<1> QED BY <1>2, <1>3, <1>5, <1>6

\* The plan of a level change: the change itself, a load and the status.
LEMMA LevelPlans ==
    ASSUME stats \in Memories, NEW c, c \in CallRecords, c.op = "setVersioning", ~Refused(c)
    PROVE  Planned(c, Plan(c))
<1>1. c.op # "put" /\ c \in [op : {"setVersioning"}, to : 0 .. 2, allow_loss : BOOLEAN] /\ c.to \in 0 .. 2
  BY DEF CallRecords
<1>2. stats.version \in Versions
  BY DEF Memories
<1>3. Plannable(stats.version, c)
  BY DEF Refused, Plannable
<1>4. PICK x : x = [kind |-> "level", state |-> stats.version, change |-> c]
  OBVIOUS
<1>5. x \in StageRecords /\ x.kind = "level" /\ x.state = stats.version /\ x.change = c
  BY <1>1, <1>2, <1>4 DEF StageRecords
<1>6. Fits(c, x)
  BY <1>1, <1>3, <1>5 DEF Fits, IsWrite
<1>7. PICK l : l = Load
  OBVIOUS
<1>8. Fits(c, l) /\ l.kind = "stats"
  BY <1>1, <1>7, LoadFits
<1>9. PICK y : y = [kind |-> "status"]
  OBVIOUS
<1>10. Fits(c, y) /\ y.kind = "status" /\ ~Touches(y)
  BY <1>1, <1>9, PlainFits
<1>11. Planned(c, <<l, y>>) /\ Planned(c, <<x, l, y>>)
  BY <1>5, <1>6, <1>8, <1>10, LoadPlans
<1>12. x \in StageRecords /\ l \in StageRecords /\ y \in StageRecords
  BY <1>6, <1>8, <1>10 DEF Fits
<1>13. <<x>> \o <<l, y>> = <<x, l, y>>
  BY <1>12, OneAndPair
<1>14. <<>> \o <<l, y>> = <<l, y>>
  BY <1>12, ShortSequences
<1>15. Plan(c) = (IF stats.version.level = c.to THEN <<>> ELSE <<x>>) \o <<l, y>>
  BY <1>4, <1>7, <1>9 DEF Plan, set_versioning
<1>16. CASE stats.version.level = c.to
  <2>1. Plan(c) = <<l, y>>
    BY <1>14, <1>15, <1>16
  <2> QED BY <1>11, <2>1
<1>17. CASE stats.version.level # c.to
  <2>1. Plan(c) = <<x, l, y>>
    BY <1>13, <1>15, <1>17
  <2> QED BY <1>11, <2>1
<1> QED BY <1>16, <1>17

\* The plan of a purge: one batch.
LEMMA PurgePlans ==
    ASSUME stats \in Memories, info \in Authors \cup {Nobody}, NEW c, c \in CallRecords, c.op = "purge"
    PROVE  Planned(c, Plan(c))
<1>1. c.q \in Quads /\ stats.version \in Versions
  BY DEF CallRecords, Memories
<1>2. PICK x : x = [kind |-> "purge", q |-> c.q, state |-> stats.version, author |-> info]
  OBVIOUS
<1>3. x \in StageRecords /\ x.kind = "purge"
  BY <1>1, <1>2 DEF StageRecords
<1>4. Fits(c, x) /\ ~Touches(x)
  BY <1>3 DEF Fits, IsWrite, Touches
<1>5. Planned(c, <<x>>)
  BY <1>3, <1>4, ShortPlans
<1> QED BY <1>2, <1>5 DEF Plan, purge

\* The plan of an unregister: a read, and a removal planned later.
LEMMA GuardedPlans ==
    ASSUME NEW c, c \in CallRecords, c.op = "unregister"
    PROVE  Planned(c, Plan(c))
<1>1. c.quads \in SUBSET Quads
  BY DEF CallRecords
<1>2. PICK d : d = [op |-> "delete", quads |-> c.quads]
  OBVIOUS
<1>3. PICK y : y = [kind |-> "then", call |-> d]
  OBVIOUS
<1>4. y \in StageRecords /\ y.kind = "then"
  BY <1>1, <1>2, <1>3 DEF StageRecords
<1>5. Fits(c, y) /\ ~Touches(y)
  BY <1>4 DEF Fits, IsWrite, Touches
<1>6. PICK r : r = Read
  OBVIOUS
<1>7. Fits(c, r) /\ r.kind = "read" /\ ~Touches(r)
  BY <1>6, ReadFits
<1>8. Planned(c, <<r, y>>)
  BY <1>4, <1>5, <1>7, ShortPlans
<1> QED BY <1>2, <1>3, <1>6, <1>8 DEF Plan, guarded

\* The plan of a document's put; the tables come first when nobody made them.
LEMMA PutPlans ==
    ASSUME NEW c, c \in CallRecords, c.op = "put"
    PROVE  Planned(c, put(c)) /\ (ready = "no" => put(c)[1].kind = "tables")
<1>1. c.of \in SUBSET Quads /\ c.ins \in SUBSET Quads /\ Bound(c)
  BY DEF CallRecords, Bound
<1>2. PICK w : w = Rewrite(c.of, c.ins)
  OBVIOUS
<1>3. Fits(c, w) /\ w.kind = "rewrite"
  BY <1>1, <1>2, RewriteFits
<1>4. PICK r : r = Read
  OBVIOUS
<1>5. Fits(c, r) /\ r.kind = "read" /\ ~Touches(r)
  BY <1>4, ReadFits
<1>6. PICK x : x = [kind |-> "tables"]
  OBVIOUS
<1>7. x \in StageRecords /\ x.kind = "tables"
  BY <1>6 DEF StageRecords
<1>8. Fits(c, x)
  BY <1>7 DEF Fits, IsWrite
<1>9. Planned(c, <<r, w>>)
  BY <1>3, <1>5, ShortPlans
<1>10. Planned(c, <<x, r, w>>)
  BY <1>3, <1>5, <1>7, <1>8, ShortPlans
<1>11. x \in StageRecords /\ r \in StageRecords /\ w \in StageRecords
  BY <1>3, <1>5, <1>8 DEF Fits
<1>12. <<x>> \o <<r, w>> = <<x, r, w>>
  BY <1>11, OneAndPair
<1>13. <<>> \o <<r, w>> = <<r, w>>
  BY <1>11, ShortSequences
<1>14. put(c) = (IF ready = "no" THEN <<x>> ELSE <<>>) \o <<r, w>>
  BY <1>2, <1>4, <1>6 DEF put
<1>15. CASE ready = "no"
  <2>1. put(c) = <<x, r, w>>
    BY <1>12, <1>14, <1>15
  <2>2. <<x, r, w>>[1] = x
    OBVIOUS
  <2> QED BY <1>7, <1>10, <2>1, <2>2
<1>16. CASE ready # "no"
  <2>1. put(c) = <<r, w>>
    BY <1>13, <1>14, <1>16
  <2> QED BY <1>9, <1>16, <2>1
<1> QED BY <1>15, <1>16

\* Every call's plan may be sent.
LEMMA PlanIsPlanned ==
    ASSUME stats \in Memories, info \in Authors \cup {Nobody}, NEW c, c \in CallRecords, ~Refused(c)
    PROVE  Planned(c, Plan(c)) /\ (c.op = "put" => Plan(c) = put(c))
<1>1. c.op = "put" => Plan(c) = put(c)
  BY DEF Plan
<1>2. c.op \in {"add", "delete", "update", "clear", "cypher", "bulkLoad", "optimize", "query", "queryAsOf", "diff",
               "setVersioning", "purge", "unregister", "put"}
  BY DEF CallRecords
<1> QED BY <1>1, <1>2, WritingPlans, BulkLoadPlans, ReadingPlans, LevelPlans, PurgePlans, GuardedPlans, PutPlans

-----------------------------------------------------------------------------
(* What a step of a task leaves.                                           *)

\* Only this task changes.
Becomes(i, u) == /\ task'[i] = u /\ \A k \in Tasks \ {i} : task'[k] = task[k]
                 /\ task' = [k \in Tasks |-> task'[k]]

\* An assignment to one task is one.
LEMMA OneTask ==
    ASSUME task = [k \in Tasks |-> task[k]], NEW i \in Tasks, NEW u, task' = [task EXCEPT ![i] = u]
    PROVE  Becomes(i, u)
BY DEF Becomes

\* The task after Job.step.
StepTo(t) ==
    IF t.stages = <<>> THEN Settled(t, "resolved")
    ELSE [t EXCEPT !.at = "sent", !.request = prepare(t.stages[1], t), !.response = None,
                   !.sent_level = stats.version.level]

\* A task with requests left, before it steps.
Ready(t) ==
    /\ HasFields(t, CallFields) /\ t.count \in Nat /\ t.changed \in Nat
    /\ Suited(t.call, t.stages) /\ (t.stages # <<>> => t.stages[1].kind # "then")

\* A settled task.
Ended(t, outcome, u) ==
    /\ u.at = "settled" /\ HasFields(u, SettledFields) /\ u.block = t.block /\ u.outcome = outcome
    /\ u.count = t.count /\ u.changed = t.changed

\* A task whose next request is on its way.
Sent(t, u) ==
    /\ u.at = "sent" /\ HasFields(u, CallFields) /\ Requested(u)
    /\ u.stages = t.stages /\ u.call = t.call /\ u.block = t.block /\ u.count = t.count /\ u.changed = t.changed
    /\ u.request.author = info /\ u.sent_level = stats.version.level
    /\ TickOf(u)

\* A call that ends.
LEMMA SettledIs ==
    ASSUME NEW t, NEW o
    PROVE  Ended(t, o, Settled(t, o))
BY DEF Settled, Ended, HasFields, SettledFields

\* A step ends the call or sends its next request.
LEMMA StepIs ==
    ASSUME stats \in Memories, info \in Authors \cup {Nobody}, NEW t, Ready(t)
    PROVE  IF t.stages = <<>> THEN Ended(t, "resolved", StepTo(t)) ELSE Sent(t, StepTo(t))
<1>1. CASE t.stages = <<>>
  BY <1>1, SettledIs DEF StepTo
<1>2. CASE t.stages # <<>>
  <2>1. PICK r : r = prepare(t.stages[1], t)
    OBVIOUS
  <2>2. PICK u : u = [t EXCEPT !.at = "sent", !.request = r, !.response = None, !.sent_level = stats.version.level]
    OBVIOUS
  <2>3. StepTo(t) = u
    BY <1>2, <2>1, <2>2 DEF StepTo
  <2>4. /\ u.at = "sent" /\ HasFields(u, CallFields) /\ u.request = r /\ u.sent_level = stats.version.level
        /\ u.stages = t.stages /\ u.call = t.call /\ u.block = t.block /\ u.count = t.count /\ u.changed = t.changed
    BY <2>2 DEF Ready, HasFields, CallFields
  <2>5. /\ r.stage = t.stages[1] /\ r.author = info
        /\ r.prefix = (Bound(t.call) /\ t.stages[1].kind \in {"write", "rewrite"} /\ stats.version.level >= Stamped)
    BY <2>1 DEF prepare
  <2>6. Len(t.stages) \in Nat /\ Len(t.stages) >= 1 /\ t.stages[1] \in StageRecords
    BY <1>2 DEF Ready, Suited
  <2>7. Suits(t.call, t.stages, 1)
    BY <2>6 DEF Ready, Suited
  <2>8. IsWrite(r.stage) => Bound(t.call)
    BY <2>5, <2>7 DEF Suits
  <2>9. /\ r.prefix \in BOOLEAN /\ (r.prefix => IsWrite(r.stage))
        /\ IsWrite(r.stage) /\ stats.version.level >= Stamped => r.prefix
    BY <2>5, <2>8 DEF IsWrite
  <2>10. Requested(u)
    BY <1>2, <2>4, <2>5, <2>9 DEF Requested, Ready
  <2>11. TickOf(u)
    BY <2>4, <2>9 DEF TickOf
  <2>12. Sent(t, u)
    BY <2>4, <2>5, <2>10, <2>11 DEF Sent
  <2> QED BY <1>2, <2>3, <2>12
<1> QED BY <1>1, <1>2

-----------------------------------------------------------------------------
(* The count of a response.                                                *)

\* The total of one result.
LEMMA TotalOfOne ==
    ASSUME NEW n \in Nat
    PROVE  Total(<<n>>) = n
<1>1. PICK s \in Seq(Nat) : s = <<n>> /\ Len(s) = 1 /\ s[1] = n
  <2>1. <<n>> \in Seq(Nat) /\ Len(<<n>>) = 1 /\ <<n>>[1] = n
    OBVIOUS
  <2> QED BY <2>1
<1> DEFINE Sums(f) == f = [k \in 0 .. Len(s) |-> IF k = 0 THEN 0 ELSE f[k - 1] + s[k]]
<1>2. PICK g : g = [k \in 0 .. 1 |-> IF k = 0 THEN 0 ELSE n]
  OBVIOUS
<1>3. Sums(g)
  <2>1. g[0] = 0 /\ g[1] = n
    BY <1>2
  <2>2. \A k \in 0 .. 1 : k = 0 \/ k = 1
    OBVIOUS
  <2>3. \A k \in 0 .. 1 : g[k] = IF k = 0 THEN 0 ELSE g[k - 1] + s[k]
    BY <1>1, <2>1, <2>2
  <2> QED BY <1>1, <1>2, <2>3
<1>4. PICK h : h = CHOOSE f : Sums(f)
  OBVIOUS
<1>5. Sums(h)
  <2> HIDE DEF Sums
  <2> QED BY <1>3, <1>4
<1>6. h[0] = 0 /\ h[1] = n
  <2>1. h[0] = 0
    BY <1>1, <1>5
  <2>2. h[1] = h[0] + n
    BY <1>1, <1>5
  <2> QED BY <2>1, <2>2
<1>7. Total(s) = h[Len(s)]
  BY <1>4 DEF Total
<1> QED BY <1>1, <1>6, <1>7

\* The results of the tick are taken off.
LEMMA StripIs ==
    ASSUME NEW t, CountOf(t), t.at = "answered", t.response.ok, t.pending \in BOOLEAN
    PROVE  Total(strip(t)) \in Nat /\ t.changed = t.count + Total(strip(t))
<1>1. PICK n \in Nat : t.response.results = (IF t.pending THEN <<1, 1, n>> ELSE <<n>>) /\ t.changed = t.count + n
  BY DEF CountOf
<1>2. PICK s : s = t.response.results
  OBVIOUS
<1>3. strip(t) = <<n>>
  <2>1. CASE t.pending
    <3>1. s \in Seq(Nat) /\ Len(s) = 3 /\ s[3] = n
      <4>1. <<1, 1, n>> \in Seq(Nat) /\ Len(<<1, 1, n>>) = 3 /\ <<1, 1, n>>[3] = n
        OBVIOUS
      <4> QED BY <1>1, <1>2, <2>1, <4>1
    <3>2. PICK u \in Seq(Nat) : u = <<n>> /\ Len(u) = 1 /\ u[1] = n
      <4>1. <<n>> \in Seq(Nat) /\ Len(<<n>>) = 1 /\ <<n>>[1] = n
        OBVIOUS
      <4> QED BY <4>1
    <3>3. PICK v \in Seq(Nat) : v = SubSeq(s, 3, 3) /\ Len(v) = 1 /\ v[1] = n
      <4>1. SubSeq(s, 3, 3) \in Seq(Nat) /\ Len(SubSeq(s, 3, 3)) = 1 /\ SubSeq(s, 3, 3)[1] = n
        BY <3>1
      <4> QED BY <4>1
    <3>4. \A k \in 1 .. 1 : v[k] = u[k]
      BY <3>2, <3>3, Positions
    <3>5. v = u
      BY <3>2, <3>3, <3>4, SeqEqual
    <3>6. strip(t) = SubSeq(s, 3, 3)
      BY <1>2, <2>1, <3>1 DEF strip, PREFIX_LEN
    <3> QED BY <3>2, <3>3, <3>5, <3>6
  <2>2. CASE ~t.pending
    BY <1>1, <2>2 DEF strip
  <2> QED BY <2>1, <2>2
<1>4. Total(strip(t)) = n
  BY <1>3, TotalOfOne
<1> QED BY <1>1, <1>4

\* What is left of a call's requests once the first is answered.
LEMMA TailSuits ==
    ASSUME NEW c, NEW s, Suited(c, s), s # <<>>
    PROVE  /\ Suited(c, Tail(s)) /\ Len(Tail(s)) = Len(s) - 1
           /\ \A k \in 1 .. Len(Tail(s)) : k + 1 \in 2 .. Len(s) /\ Tail(s)[k] = s[k + 1]
<1>1. s \in Seq(StageRecords) /\ Len(s) \in Nat /\ Len(s) >= 1
  BY DEF Suited
<1>2. PICK r : r = Tail(s)
  OBVIOUS
<1>3. r \in Seq(StageRecords) /\ Len(r) = Len(s) - 1 /\ \A k \in 1 .. Len(r) : r[k] = s[k + 1]
  BY <1>1, <1>2
<1>4. \A k \in 1 .. Len(r) : k + 1 \in 2 .. Len(s) /\ k + 1 \in 1 .. Len(s)
  BY <1>1, <1>3
<1>5. ASSUME NEW k \in 1 .. Len(r) PROVE Suits(c, r, k)
  <2>1. Suits(c, s, k + 1) /\ r[k] = s[k + 1] /\ k \in Nat
    BY <1>3, <1>4 DEF Suited
  <2>2. ASSUME NEW j \in 1 .. Len(s), j > k + 1 PROVE j - 1 \in 1 .. Len(r) /\ j - 1 > k /\ r[j - 1] = s[j]
    <3>1. j - 1 \in 1 .. Len(r) /\ j - 1 > k /\ (j - 1) + 1 = j
      BY <1>1, <1>3, <2>1, <2>2
    <3> QED BY <1>3, <3>1
  <2>3. (\E j \in 1 .. Len(s) : j > k + 1 /\ s[j].kind = "stats") => \E j \in 1 .. Len(r) : j > k /\ r[j].kind = "stats"
    BY <2>2
  <2>4. (\A j \in 1 .. Len(s) : s[j].kind # "stats") => \A j \in 1 .. Len(r) : r[j].kind # "stats"
    BY <1>3, <1>4
  <2> QED BY <2>1, <2>3, <2>4 DEF Suits
<1> QED BY <1>2, <1>3, <1>4, <1>5 DEF Suited

-----------------------------------------------------------------------------
(* What the steps between awaits leave of the task that takes them.        *)

\* The task goes on to a state that is in order, or ends.
InOrder(t) ==
    /\ t.at \in {"settled", "awaiting", "sent"} /\ TaskShape(t) /\ CountOf(t) /\ TickOf(t)
    /\ t.at = "sent" => t.request.author = info /\ (NeedsTables(t) => db.tables)
    /\ ~outdated => VersionsOf(t)
Goes(i, u) == Becomes(i, u) /\ u.block = task[i].block /\ InOrder(u)

\* A call that ends with nothing left to count is in order.
LEMMA EndedInOrder ==
    ASSUME NEW t, NEW o, NEW u, Ended(t, o, u), o = "resolved" => t.count = t.changed
    PROVE  InOrder(u)
<1>1. TaskShape(u)
  BY DEF Ended, TaskShape
<1>2. CountOf(u) /\ TickOf(u) /\ VersionsOf(u)
  BY DEF Ended, CountOf, TickOf, VersionsOf
<1> QED BY <1>1, <1>2 DEF InOrder, Ended

\* A request on its way is in order.
LEMMA SentInOrder ==
    ASSUME NEW t, NEW u, Sent(t, u), t.count \in Nat, t.count = t.changed, NeedsTables(u) => db.tables,
           ~outdated => \A k \in 1 .. Len(u.stages) : u.stages[k].kind = "level" => Even(u.stages[k].state)
    PROVE  InOrder(u)
<1>1. TaskShape(u)
  BY DEF Sent, TaskShape
<1>2. CountOf(u) /\ TickOf(u) /\ (~outdated => VersionsOf(u))
  BY DEF Sent, CountOf, TickOf, VersionsOf
<1> QED BY <1>1, <1>2 DEF InOrder, Sent

\* A plan is ready to be sent.
LEMMA PlannedReady ==
    ASSUME NEW t, HasFields(t, CallFields), t.count \in Nat, t.changed \in Nat, Planned(t.call, t.stages)
    PROVE  Ready(t) /\ t.stages # <<>>
BY DEF Ready, Planned

\* A plan made now is sent in order.
LEMMA PlanInOrder ==
    ASSUME IInv, NEW t, HasFields(t, CallFields), t.count \in Nat, t.count = t.changed, Planned(t.call, t.stages),
           t.call.op = "put" => db.tables \/ t.stages[1].kind = "tables"
    PROVE  Sent(t, StepTo(t)) /\ InOrder(StepTo(t))
<1>1. PICK u : u = StepTo(t)
  OBVIOUS
<1>2. stats \in Memories /\ info \in Authors \cup {Nobody}
  BY DEF IInv, Shape
<1>3. Sent(t, u)
  BY <1>1, <1>2, PlannedReady, StepIs
<1>4. u.request.stage = t.stages[1] /\ u.call = t.call /\ u.stages = t.stages
  BY <1>3 DEF Sent, Requested
<1>5. NeedsTables(u) => db.tables
  BY <1>4 DEF NeedsTables
<1>6. ~outdated => \A k \in 1 .. Len(u.stages) : u.stages[k].kind = "level" => Even(u.stages[k].state)
  BY <1>4 DEF IInv, Logs, Planned
<1>7. InOrder(u)
  BY <1>3, <1>5, <1>6, SentInOrder
<1> QED BY <1>1, <1>3, <1>7

\* A call.
LEMMA CallGoes ==
    ASSUME IInv, NEW i \in Tasks, NEW c \in Calls[i], Call(i, c)
    PROVE  /\ \E u : Goes(i, u)
           /\ ready' \in {ready, "pending"}
<1>1. c \in CallRecords
  BY CallsAssumption
<1>2. PICK t : t = [at |-> "planned", block |-> task[i].block, call |-> c, stages |-> <<>>, caps |-> stats.version.level,
                 request |-> None, response |-> None, pending |-> FALSE, memory |-> <<>>, count |-> 0,
                 sent_level |-> stats.version.level, changed |-> 0]
  OBVIOUS
<1>3. /\ HasFields(t, CallFields) /\ t.count = 0 /\ t.changed = 0 /\ t.block = task[i].block /\ t.call = c
  BY <1>2 DEF HasFields, CallFields
<1>4. task = [k \in Tasks |-> task[k]] /\ stats \in Memories /\ info \in Authors \cup {Nobody}
      /\ ready \in {"no", "pending", "yes", "rejected"}
  BY DEF IInv, Shape
<1>5. \/ Refused(c) /\ task' = [task EXCEPT ![i] = Settled(t, "rejected")] /\ ready' = ready
      \/ ~Refused(c) /\ Waits(c) /\ task' = [task EXCEPT ![i] = [t EXCEPT !.at = "awaiting"]] /\ ready' = ready
      \/ ~Refused(c) /\ ~Waits(c) /\ (c.op = "put" /\ ready = "rejected") /\ task' = [task EXCEPT ![i] = Settled(t, "rejected")] /\ ready' = ready
      \/ ~Refused(c) /\ ~Waits(c) /\ ~(c.op = "put" /\ ready = "rejected") /\ Step(i, [t EXCEPT !.stages = Plan(c)])
         /\ ready' = IF c.op = "put" /\ ready = "no" THEN "pending" ELSE ready
  BY <1>2 DEF Call
<1>6. ready' \in {ready, "pending"}
  BY <1>5
<1>7. CASE task' = [task EXCEPT ![i] = Settled(t, "rejected")]
  <2>1. Becomes(i, Settled(t, "rejected"))
    BY <1>4, <1>7, OneTask
  <2>2. PICK u : u = Settled(t, "rejected")
    OBVIOUS
  <2>3. Ended(t, "rejected", u)
    BY <2>2, SettledIs
  <2>4. InOrder(u)
    BY <2>3, EndedInOrder
  <2>5. u.block = task[i].block
    BY <1>3, <2>3 DEF Ended
  <2> QED BY <1>6, <2>1, <2>2, <2>4, <2>5 DEF Goes
<1>8. CASE Waits(c) /\ task' = [task EXCEPT ![i] = [t EXCEPT !.at = "awaiting"]]
  <2>1. PICK u : u = [t EXCEPT !.at = "awaiting"]
    OBVIOUS
  <2>2. u.at = "awaiting" /\ HasFields(u, CallFields) /\ u.count = 0 /\ u.changed = 0 /\ u.block = task[i].block /\ u.call = c
    BY <1>3, <2>1 DEF HasFields, CallFields
  <2>3. c.op = "put"
    BY <1>8 DEF Waits
  <2>4. TaskShape(u) /\ CountOf(u) /\ TickOf(u) /\ VersionsOf(u)
    BY <1>1, <2>2, <2>3 DEF TaskShape, CountOf, TickOf, VersionsOf
  <2>5. InOrder(u)
    BY <2>2, <2>4 DEF InOrder
  <2>6. Becomes(i, u)
    BY <1>4, <1>8, <2>1, OneTask
  <2> QED BY <1>6, <2>2, <2>5, <2>6 DEF Goes
<1>9. CASE ~Refused(c) /\ ~Waits(c) /\ ~(c.op = "put" /\ ready = "rejected") /\ Step(i, [t EXCEPT !.stages = Plan(c)])
  <2>1. PICK p : p = [t EXCEPT !.stages = Plan(c)]
    OBVIOUS
  <2>2. HasFields(p, CallFields) /\ p.count = 0 /\ p.changed = 0 /\ p.block = task[i].block /\ p.call = c /\ p.stages = Plan(c)
    BY <1>3, <2>1 DEF HasFields, CallFields
  <2>3. Planned(c, Plan(c)) /\ (c.op = "put" => Plan(c) = put(c))
    BY <1>1, <1>4, <1>9, PlanIsPlanned
  <2>4. c.op = "put" => ready \in {"no", "yes"}
    BY <1>4, <1>9 DEF Waits
  <2>5. c.op = "put" => db.tables \/ Plan(c)[1].kind = "tables"
    BY <1>1, <2>3, <2>4, PutPlans DEF IInv, Tables
  <2>6. Sent(p, StepTo(p)) /\ InOrder(StepTo(p))
    BY <2>2, <2>3, <2>5, PlanInOrder
  <2>7. StepTo(p).block = task[i].block
    BY <2>2, <2>6 DEF Sent
  <2>8. task' = [task EXCEPT ![i] = StepTo(p)]
    BY <1>9, <2>1 DEF Step, StepTo
  <2>9. Becomes(i, StepTo(p))
    BY <1>4, <2>8, OneTask
  <2> QED BY <1>6, <2>6, <2>7, <2>9 DEF Goes
<1> QED BY <1>5, <1>7, <1>8, <1>9

\* The end of a wait for the tables.
LEMMA AwaitedGoes ==
    ASSUME IInv, NEW i \in Tasks, Awaited(i)
    PROVE  \E u : Goes(i, u)
<1>1. PICK t : t = task[i]
  OBVIOUS
<1>2. t.at = "awaiting" /\ HasFields(t, CallFields) /\ t.count \in Nat /\ t.changed \in Nat /\ t.call \in CallRecords /\ t.call.op = "put"
  BY <1>1 DEF Awaited, IInv, Shape, TaskShape
<1>3. t.count = t.changed
  BY <1>1, <1>2 DEF IInv, Counts, CountOf
<1>4. task = [k \in Tasks |-> task[k]] /\ stats \in Memories /\ info \in Authors \cup {Nobody}
  BY DEF IInv, Shape
<1>5. CASE ready = "yes"
  <2>1. PICK p : p = [t EXCEPT !.stages = put(t.call)]
    OBVIOUS
  <2>2. HasFields(p, CallFields) /\ p.count = t.count /\ p.changed = t.changed /\ p.block = t.block /\ p.call = t.call /\ p.stages = put(t.call)
    BY <1>2, <2>1 DEF HasFields, CallFields
  <2>3. Planned(t.call, put(t.call))
    BY <1>2, PutPlans
  <2>4. db.tables
    BY <1>5 DEF IInv, Tables
  <2>5. Sent(p, StepTo(p)) /\ InOrder(StepTo(p))
    BY <1>2, <1>3, <2>2, <2>3, <2>4, PlanInOrder
  <2>6. StepTo(p).block = task[i].block
    BY <1>1, <2>2, <2>5 DEF Sent
  <2>7. task' = [task EXCEPT ![i] = StepTo(p)]
    BY <1>1, <1>5, <2>1 DEF Awaited, Step, StepTo
  <2>8. Becomes(i, StepTo(p))
    BY <1>4, <2>7, OneTask
  <2> QED BY <2>5, <2>6, <2>8 DEF Goes
<1>6. CASE ready # "yes"
  <2>1. task' = [task EXCEPT ![i] = Settled(t, "rejected")]
    BY <1>1, <1>6 DEF Awaited
  <2>2. PICK u : u = Settled(t, "rejected")
    OBVIOUS
  <2>3. Becomes(i, u)
    BY <1>4, <2>1, <2>2, OneTask
  <2>4. Ended(t, "rejected", u)
    BY <2>2, SettledIs
  <2>5. InOrder(u)
    BY <2>4, EndedInOrder
  <2>6. u.block = task[i].block
    BY <1>1, <2>4 DEF Ended
  <2> QED BY <2>3, <2>5, <2>6 DEF Goes
<1> QED BY <1>5, <1>6

\* The failure of a request.
LEMMA RejectGoes ==
    ASSUME IInv, NEW i \in Tasks, Reject(i)
    PROVE  (\E u : Goes(i, u)) /\ ready' \in {ready, "rejected"}
<1>1. task' = [task EXCEPT ![i] = Settled(task[i], "rejected")] /\ task = [k \in Tasks |-> task[k]]
      /\ ready' \in {ready, "rejected"}
  BY DEF Reject, IInv, Shape
<1>2. PICK u : u = Settled(task[i], "rejected")
  OBVIOUS
<1>3. Becomes(i, u)
  BY <1>1, <1>2, OneTask
<1>4. Ended(task[i], "rejected", u)
  BY <1>2, SettledIs
<1>5. InOrder(u)
  BY <1>4, EndedInOrder
<1>6. u.block = task[i].block
  BY <1>4 DEF Ended
<1> QED BY <1>1, <1>3, <1>5, <1>6 DEF Goes

\* A task that still has a load to make.
StillLoads(t) == \E k \in 2 .. Len(t.stages) : t.stages[k].kind = "stats"
LoadsNext(u) == u.at = "sent" /\ \E k \in 1 .. Len(u.stages) : u.stages[k].kind = "stats"

\* What is known of a task whose request was answered.
Answered(t) ==
    /\ t.at = "answered" /\ HasFields(t, CallFields) /\ t.count \in Nat /\ t.changed \in Nat /\ Requested(t)
    /\ (~outdated => VersionsOf(t)) /\ (t.response.ok => CountOf(t) /\ t.pending \in BOOLEAN)
    /\ t.response.ok /\ t.call.op = "put" => db.tables
    /\ Len(t.stages) \in Nat /\ Len(t.stages) >= 1 /\ Suits(t.call, t.stages, 1)

\* The invariant gives all of it.
LEMMA AnsweredIs ==
    ASSUME IInv, NEW i \in Tasks, task[i].at = "answered"
    PROVE  Answered(task[i])
<1>1. PICK t : t = task[i]
  OBVIOUS
<1>2. t.at = "answered" /\ HasFields(t, CallFields) /\ t.count \in Nat /\ t.changed \in Nat /\ Requested(t)
      /\ (t.response.ok => t.pending \in BOOLEAN)
  BY <1>1 DEF IInv, Shape, TaskShape
<1>3. (~outdated => VersionsOf(t)) /\ CountOf(t) /\ (t.response.ok /\ t.call.op = "put" => db.tables)
  BY <1>1, <1>2 DEF IInv, Logs, Counts, Tables, TablesOf
<1>4. Len(t.stages) \in Nat /\ Len(t.stages) >= 1
  BY <1>2 DEF Requested, Suited
<1>5. Suits(t.call, t.stages, 1)
  BY <1>2, <1>4 DEF Requested, Suited
<1> QED BY <1>1, <1>2, <1>3, <1>4, <1>5 DEF Answered

\* The task once the response is taken.
LEMMA TakenIs ==
    ASSUME NEW t, Answered(t), t.response.ok, NEW q, q = Taken(t)
    PROVE  /\ HasFields(q, CallFields) /\ q.count \in Nat /\ q.count = q.changed /\ q.block = t.block /\ q.call = t.call
           /\ q.stages = Tail(t.stages) /\ Suited(t.call, Tail(t.stages))
<1>1. Total(strip(t)) \in Nat /\ t.changed = t.count + Total(strip(t))
  BY StripIs DEF Answered
<1>2. PICK n \in Nat : n = Total(strip(t)) /\ t.changed = t.count + n
  BY <1>1
<1>3. PICK m : m = IF t.response.read # <<>> /\ t.request.stage.kind # "stats" THEN t.response.read ELSE t.memory
  OBVIOUS
<1>4. PICK s : s = Tail(t.stages)
  OBVIOUS
<1>5. q = [t EXCEPT !.stages = Tail(@), !.count = @ + n, !.pending = FALSE, !.memory = m]
  BY <1>2, <1>3 DEF Taken
<1>6. HasFields(q, CallFields) /\ q.count = t.count + n /\ q.changed = t.changed /\ q.block = t.block /\ q.call = t.call
      /\ q.stages = Tail(t.stages)
  BY <1>5 DEF Answered, HasFields, CallFields
<1>7. Suited(t.call, Tail(t.stages))
  BY TailSuits DEF Answered, Requested
<1>8. q.count \in Nat /\ q.count = q.changed
  BY <1>2, <1>6 DEF Answered
<1> QED BY <1>6, <1>7, <1>8

\* The removal of a registration is planned once it is known to be there.
LEMMA ThenGoes ==
    ASSUME IInv, NEW t, Answered(t), t.response.ok, NEW q, q = Taken(t), NEW p, p = Then(q),
           q.stages # <<>>, q.stages[1].kind = "then"
    PROVE  InOrder(StepTo(p)) /\ StepTo(p).block = t.block /\ ~StillLoads(t)
<1>1. /\ HasFields(q, CallFields) /\ q.count \in Nat /\ q.count = q.changed /\ q.block = t.block /\ q.call = t.call
      /\ q.stages = Tail(t.stages) /\ Suited(t.call, Tail(t.stages))
  BY TakenIs
<1>2. /\ Len(Tail(t.stages)) = Len(t.stages) - 1
      /\ \A k \in 1 .. Len(Tail(t.stages)) : k + 1 \in 2 .. Len(t.stages) /\ Tail(t.stages)[k] = t.stages[k + 1]
  BY TailSuits DEF Answered, Requested
<1>3. Len(q.stages) \in Nat /\ Len(q.stages) >= 1 /\ q.stages[1] \in StageRecords
  BY <1>1 DEF Suited
<1>4. \A k \in 1 .. Len(q.stages) : q.stages[k].kind # "stats"
  BY <1>1, <1>3 DEF Suited, Suits
<1>5. ~StillLoads(t)
  <2> SUFFICES ASSUME NEW k \in 2 .. Len(t.stages), t.stages[k].kind = "stats" PROVE FALSE
    BY DEF StillLoads
  <2>1. k - 1 \in 1 .. Len(q.stages) /\ (k - 1) + 1 = k
    BY <1>1, <1>2 DEF Answered
  <2>2. q.stages[k - 1] = t.stages[k]
    BY <1>1, <1>2, <2>1
  <2> QED BY <1>4, <2>1, <2>2
<1>6. PICK c : c = q.stages[1].call
  OBVIOUS
<1>7. c \in CallRecords /\ c.op = "delete" /\ ~Refused(c)
  <2>1. c \in [op : {"delete"}, quads : SUBSET Quads]
    BY <1>3, <1>6 DEF StageRecords
  <2>2. c \in CallRecords /\ c.op = "delete"
    BY <2>1 DEF CallRecords
  <2> QED BY <2>2 DEF Refused
<1>8. stats \in Memories /\ info \in Authors \cup {Nobody}
  BY DEF IInv, Shape
<1>9. CASE p = [q EXCEPT !.call = c, !.stages = Plan(c), !.caps = stats.version.level]
  <2>1. HasFields(p, CallFields) /\ p.count = q.count /\ p.changed = q.changed /\ p.block = t.block /\ p.call = c /\ p.stages = Plan(c)
    BY <1>1, <1>9 DEF HasFields, CallFields
  <2>2. Planned(c, Plan(c))
    BY <1>7, <1>8, PlanIsPlanned
  <2>3. Sent(p, StepTo(p)) /\ InOrder(StepTo(p))
    BY <1>1, <1>7, <2>1, <2>2, PlanInOrder
  <2>4. StepTo(p).block = t.block
    BY <2>1, <2>3 DEF Sent
  <2> QED BY <1>5, <2>3, <2>4
<1>10. CASE p = [q EXCEPT !.stages = <<>>]
  <2>1. p.count = q.count /\ p.changed = q.changed /\ p.block = t.block /\ p.stages = <<>>
    BY <1>1, <1>10 DEF HasFields, CallFields
  <2>2. StepTo(p) = Settled(p, "resolved")
    BY <2>1 DEF StepTo
  <2>3. Ended(p, "resolved", StepTo(p))
    BY <2>2, SettledIs
  <2>4. InOrder(StepTo(p))
    BY <1>1, <2>1, <2>3, EndedInOrder
  <2> QED BY <1>5, <2>1, <2>3, <2>4 DEF Ended
<1> QED BY <1>6, <1>9, <1>10 DEF Then

\* A call whose next request is planned already.
LEMMA TailGoes ==
    ASSUME IInv, NEW t, Answered(t), t.response.ok, NEW q, q = Taken(t),
           ~(q.stages # <<>> /\ q.stages[1].kind = "then")
    PROVE  InOrder(StepTo(q)) /\ StepTo(q).block = t.block /\ (StillLoads(t) => LoadsNext(StepTo(q)))
<1>1. /\ HasFields(q, CallFields) /\ q.count \in Nat /\ q.count = q.changed /\ q.block = t.block /\ q.call = t.call
      /\ q.stages = Tail(t.stages) /\ Suited(t.call, Tail(t.stages))
  BY TakenIs
<1>2. /\ Len(Tail(t.stages)) = Len(t.stages) - 1
      /\ \A k \in 1 .. Len(Tail(t.stages)) : k + 1 \in 2 .. Len(t.stages) /\ Tail(t.stages)[k] = t.stages[k + 1]
  BY TailSuits DEF Answered, Requested
<1>3. PICK u : u = StepTo(q)
  OBVIOUS
<1>4. Ready(q)
  BY <1>1 DEF Ready
<1>5. IF q.stages = <<>> THEN Ended(q, "resolved", u) ELSE Sent(q, u)
  BY <1>3, <1>4, StepIs DEF IInv, Shape
<1>6. CASE q.stages = <<>>
  <2>1. Ended(q, "resolved", u)
    BY <1>5, <1>6
  <2>2. InOrder(u)
    BY <1>1, <2>1, EndedInOrder
  <2>3. ~StillLoads(t)
    <3>1. Len(Tail(t.stages)) = Len(<<>>)
      BY <1>1, <1>6
    <3>2. Len(<<>>) = 0
      OBVIOUS
    <3>3. Len(t.stages) \in Nat /\ Len(t.stages) - 1 = 0
      BY <1>2, <3>1, <3>2 DEF Answered
    <3>4. Len(t.stages) = 1
      BY <3>3
    <3>5. \A k \in 2 .. 1 : FALSE
      OBVIOUS
    <3> QED BY <3>4, <3>5 DEF StillLoads
  <2> QED BY <1>1, <1>3, <2>1, <2>2, <2>3 DEF Ended
<1>7. CASE q.stages # <<>>
  <2>1. Sent(q, u)
    BY <1>5, <1>7
  <2>2. u.stages = Tail(t.stages) /\ u.call = t.call /\ u.at = "sent"
    BY <1>1, <2>1 DEF Sent
  <2>3. NeedsTables(u) => db.tables
    BY <2>2 DEF NeedsTables, Answered
  <2>4. ~outdated => \A k \in 1 .. Len(u.stages) : u.stages[k].kind = "level" => Even(u.stages[k].state)
    <3> SUFFICES ASSUME ~outdated, NEW k \in 1 .. Len(u.stages), u.stages[k].kind = "level" PROVE Even(u.stages[k].state)
      OBVIOUS
    <3>1. k + 1 \in 2 .. Len(t.stages) /\ u.stages[k] = t.stages[k + 1]
      BY <1>2, <2>2
    <3>2. k + 1 \in 1 .. Len(t.stages)
      BY <3>1 DEF Answered
    <3> QED BY <3>1, <3>2 DEF Answered, VersionsOf
  <2>5. InOrder(u)
    BY <1>1, <2>1, <2>3, <2>4, SentInOrder
  <2>6. StillLoads(t) => LoadsNext(u)
    <3> SUFFICES ASSUME NEW k \in 2 .. Len(t.stages), t.stages[k].kind = "stats" PROVE LoadsNext(u)
      BY DEF StillLoads
    <3>1. k - 1 \in 1 .. Len(u.stages) /\ (k - 1) + 1 = k
      BY <1>2, <2>2 DEF Answered
    <3>2. u.stages[k - 1] = t.stages[k]
      BY <1>2, <2>2, <3>1
    <3> QED BY <2>2, <3>1, <3>2 DEF LoadsNext
  <2> QED BY <1>1, <1>3, <2>1, <2>5, <2>6 DEF Sent
<1> QED BY <1>6, <1>7

\* A response resumes its job.
LEMMA ResumeGoes ==
    ASSUME IInv, NEW i \in Tasks, Resume(i)
    PROVE  \E u : Goes(i, u) /\ (StillLoads(task[i]) => LoadsNext(u))
<1>1. PICK t : t = task[i]
  OBVIOUS
<1>2. t.at = "answered" /\ t.response.ok
  BY <1>1 DEF Resume
<1>3. Answered(t)
  BY <1>1, <1>2, AnsweredIs
<1>4. task = [k \in Tasks |-> task[k]]
  BY DEF IInv, Shape
<1>5. CASE Unknown(t)
  <2>1. task' = [task EXCEPT ![i] = Settled(t, "rejected")]
    BY <1>1, <1>5 DEF Resume
  <2>2. PICK u : u = Settled(t, "rejected")
    OBVIOUS
  <2>3. Becomes(i, u)
    BY <1>4, <2>1, <2>2, OneTask
  <2>4. Ended(t, "rejected", u)
    BY <2>2, SettledIs
  <2>5. InOrder(u)
    BY <2>4, EndedInOrder
  <2>6. u.block = task[i].block
    BY <1>1, <2>4 DEF Ended
  <2>7. ~StillLoads(t)
    <3>1. t.stages[1].kind = "resolve"
      BY <1>3, <1>5 DEF Unknown, Answered, Requested
    <3>2. \A k \in 1 .. Len(t.stages) : t.stages[k].kind # "stats"
      BY <1>3, <3>1 DEF Answered, Suits
    <3> QED BY <1>3, <3>2 DEF StillLoads, Answered
  <2> QED BY <1>1, <2>3, <2>5, <2>6, <2>7 DEF Goes
<1>6. CASE ~Unknown(t)
  <2>1. PICK q : q = Taken(t)
    OBVIOUS
  <2>2. PICK p : p = Then(q)
    OBVIOUS
  <2>3. task' = [task EXCEPT ![i] = StepTo(p)]
    BY <1>1, <1>6, <2>1, <2>2 DEF Resume, Step, StepTo
  <2>4. PICK u : u = StepTo(p)
    OBVIOUS
  <2>5. Becomes(i, u)
    BY <1>4, <2>3, <2>4, OneTask
  <2>6. InOrder(u) /\ u.block = t.block /\ (StillLoads(t) => LoadsNext(u))
    <3>1. CASE q.stages # <<>> /\ q.stages[1].kind = "then"
      BY <1>2, <1>3, <2>1, <2>2, <2>4, <3>1, ThenGoes
    <3>2. CASE ~(q.stages # <<>> /\ q.stages[1].kind = "then")
      <4>1. p = q
        BY <2>2, <3>2 DEF Then
      <4> QED BY <1>2, <1>3, <2>1, <2>4, <3>2, <4>1, TailGoes
    <3> QED BY <3>1, <3>2
  <2> QED BY <1>1, <2>5, <2>6 DEF Goes
<1> QED BY <1>5, <1>6

-----------------------------------------------------------------------------
(* What these steps keep.                                                  *)

\* Counts, ticks, tables, the log and the shape of the tasks, when the task
\* is in order and the database is left alone.
LEMMA GoesKeeps ==
    ASSUME IInv, NEW i \in Tasks, NEW u, Becomes(i, u), InOrder(u),
           db' = db, mixed' = mixed, outdated' = outdated, leaked' = leaked,
           ready' = "yes" => db.tables, ~outdated => Even(stats'.version)
    PROVE  Counts' /\ Ticks' /\ Tables' /\ Logs' /\ \A k \in Tasks : TaskShape(task'[k])
<1>1. \A k \in Tasks : task'[k] = u \/ task'[k] = task[k]
  BY DEF Becomes
<1>2. Counts'
  <2>1. CountOf(u) /\ \A k \in Tasks : CountOf(task[k])
    BY DEF InOrder, IInv, Counts
  <2>2. \A k \in Tasks : CountOf(task'[k])
    BY <1>1, <2>1
  <2> QED BY <2>2 DEF Counts
<1>3. Ticks'
  <2>1. TickOf(u) /\ ~mixed /\ \A k \in Tasks : TickOf(task[k])
    BY DEF InOrder, IInv, Ticks
  <2>2. \A k \in Tasks : TickOf(task'[k])
    BY <1>1, <2>1
  <2> QED BY <2>1, <2>2 DEF Ticks
<1>4. Tables'
  <2>1. TablesOf(u) /\ \A k \in Tasks : TablesOf(task[k])
    BY DEF InOrder, IInv, Tables, TablesOf
  <2>2. \A k \in Tasks : TablesOf(task'[k])
    BY <1>1, <2>1
  <2>3. \A k \in Tasks : TablesOf(task[k])'
    BY <2>2 DEF TablesOf
  <2> QED BY <2>3 DEF Tables
<1>5. Logs'
  <2> SUFFICES ASSUME ~outdated
               PROVE  LogOf(db', leaked') /\ Even(db') /\ Even(stats'.version) /\ \A k \in Tasks : VersionsOf(task'[k])
    BY DEF Logs, LogOf
  <2>1. LogOf(db, leaked) /\ Even(db) /\ VersionsOf(u) /\ \A k \in Tasks : VersionsOf(task[k])
    BY DEF InOrder, IInv, Logs
  <2>2. \A k \in Tasks : VersionsOf(task'[k])
    BY <1>1, <2>1
  <2> QED BY <2>1, <2>2
<1>6. \A k \in Tasks : TaskShape(task'[k])
  <2>1. TaskShape(u) /\ \A k \in Tasks : TaskShape(task[k])
    BY DEF InOrder, IInv, Shape
  <2> QED BY <1>1, <2>1
<1> QED BY <1>2, <1>3, <1>4, <1>5, <1>6

\* The engine's memory, when it is left alone by a task that loads nothing.
LEMMA EngineStays ==
    ASSUME IInv, NEW i \in Tasks, NEW u, Becomes(i, u), u.at # "answered", WillLoad(task[i]) => LoadsNext(u),
           db' = db, stats' = stats, epoch' = epoch
    PROVE  Engine'
<1>1. \A x : Current(x)' <=> Current(x)
  BY DEF Current, VersionOf, FactsOf
<1>2. \A k \in Tasks : task'[k] = u \/ task'[k] = task[k]
  BY DEF Becomes
<1>3. epoch'.stats <= epoch'.db /\ (epoch'.stats = epoch'.db => Current(stats)')
  <2>1. epoch.stats <= epoch.db /\ (epoch.stats = epoch.db => Current(stats))
    BY DEF IInv, Engine
  <2> QED BY <2>1 DEF Current, VersionOf, FactsOf
<1>4. \A k \in Tasks : LoadOf(task[k])'
  <2> SUFFICES ASSUME NEW k \in Tasks PROVE LoadOf(task[k])'
    OBVIOUS
  <2>1. CASE task'[k] = u
    BY <2>1 DEF LoadOf
  <2>2. CASE task'[k] = task[k]
    <3>1. LoadOf(task[k])
      BY DEF IInv, Engine
    <3> QED BY <2>2, <3>1 DEF LoadOf, Current, VersionOf, FactsOf
  <2> QED BY <1>2, <2>1, <2>2
<1>5. epoch'.late \/ epoch'.failed \/ epoch'.bypassed \/ epoch'.stats = epoch'.db \/ \E k \in Tasks : WillLoad(task[k])'
  <2> SUFFICES ASSUME NEW k \in Tasks, WillLoad(task[k]) PROVE \E j \in Tasks : WillLoad(task[j])'
    BY DEF IInv, Engine
  <2>1. CASE k = i
    <3>1. LoadsNext(u) /\ task'[i] = u
      BY <2>1 DEF Becomes
    <3>2. WillLoad(task[i])'
      BY <3>1 DEF WillLoad, LoadsNext
    <3> QED BY <3>2
  <2>2. CASE k # i
    <3>1. task'[k] = task[k]
      BY <2>2 DEF Becomes
    <3>2. WillLoad(task[k])'
      BY <3>1 DEF WillLoad
    <3> QED BY <3>2
  <2> QED BY <2>1, <2>2
<1> QED BY <1>3, <1>4, <1>5 DEF Engine

\* A task that keeps its block leaves the tasks in blocks the same.
LEMMA SameBlocks ==
    ASSUME NEW i \in Tasks, NEW u, Becomes(i, u), u.block = task[i].block
    PROVE  /\ InBlock' = InBlock /\ \A k \in Tasks : task'[k].block = task[k].block
           /\ \A k \in Tasks \ {i} : k \in Busy' <=> k \in Busy
BY DEF Becomes, InBlock, Busy

\* The author in force stays the block's, for a task under way that goes on.
LEMMA BlocksStay ==
    ASSUME IInv, NEW i \in Tasks, NEW u, Goes(i, u), task[i].at # "settled", info' = info, shared' = shared, signed' = signed
    PROVE  Blocks'
<1>1. /\ InBlock' = InBlock /\ \A k \in Tasks : task'[k].block = task[k].block
      /\ \A k \in Tasks \ {i} : k \in Busy' <=> k \in Busy
  BY SameBlocks DEF Goes
<1>2. i \in Busy
  BY DEF Busy
<1>3. ASSUME NEW k \in Tasks \ shared PROVE k \in Busy' => InBlock' \subseteq {k}
  BY <1>1, <1>2 DEF IInv, Blocks
<1>4. ASSUME NEW k \in Tasks \ shared PROVE k \in InBlock' => info' = task'[k].block
  BY <1>1 DEF IInv, Blocks
<1>5. ASSUME NEW k \in Tasks \ shared PROVE task'[k].at = "sent" => task'[k].request.author = task'[k].block
  <2>1. CASE k # i
    BY <1>5, <2>1 DEF IInv, Blocks, Goes, Becomes
  <2>2. CASE k = i
    <3>1. InBlock \subseteq {i} /\ (i \in InBlock => info = task[i].block) /\ (info # Nobody => InBlock # {})
      BY <1>2, <1>5, <2>2 DEF IInv, Blocks
    <3>2. info = task[i].block
      BY <3>1 DEF InBlock
    <3>3. task'[i] = u /\ u.block = task[i].block /\ (u.at = "sent" => u.request.author = info)
      BY DEF Goes, Becomes, InOrder
    <3> QED BY <2>2, <3>2, <3>3
  <2> QED BY <2>1, <2>2
<1>6. info' # Nobody => InBlock' # {}
  BY <1>1 DEF IInv, Blocks
<1>7. BlocksSignTheirWrites'
  BY DEF IInv, Blocks, BlocksSignTheirWrites
<1> QED BY <1>3, <1>4, <1>5, <1>6, <1>7 DEF Blocks

\* A call meets the tasks that are in blocks.
LEMMA CallKeepsBlocks ==
    ASSUME IInv, NEW i \in Tasks, NEW u, Goes(i, u), task[i].at = "settled", info' = info, Meet(i, InBlock), signed' = signed
    PROVE  Blocks'
<1>1. /\ InBlock' = InBlock /\ \A k \in Tasks : task'[k].block = task[k].block
      /\ \A k \in Tasks \ {i} : k \in Busy' <=> k \in Busy
  BY SameBlocks DEF Goes
<1>2. \A k \in Tasks \ {i} : task'[k] = task[k]
  BY DEF Goes, Becomes
<1>3. task'[i] = u /\ u.block = task[i].block /\ (u.at = "sent" => u.request.author = info)
  BY DEF Goes, Becomes, InOrder
<1>4. \A k \in Tasks \ shared : /\ k \in Busy => InBlock \subseteq {k}
                                /\ k \in InBlock => info = task[k].block
                                /\ task[k].at = "sent" => task[k].request.author = task[k].block
  BY DEF IInv, Blocks
<1>5. info # Nobody => InBlock # {}
  BY DEF IInv, Blocks
<1>6. \A k \in Tasks : k \in InBlock <=> task[k].block # Nobody
  BY DEF InBlock
<1>7. \A k \in Tasks \ shared' : /\ k \in Busy' => InBlock' \subseteq {k}
                                 /\ k \in InBlock' => info' = task'[k].block
                                 /\ task'[k].at = "sent" => task'[k].request.author = task'[k].block
  <2>1. CASE InBlock \ {i} # {}
    <3>1. shared' = shared \cup {i} \cup InBlock
      BY <2>1 DEF Meet
    <3> QED BY <1>1, <1>2, <1>4, <3>1
  <2>2. CASE InBlock \ {i} = {} /\ task[i].block = Nobody
    <3>1. shared' = shared \ {i}
      BY <2>2 DEF Meet
    <3>2. InBlock = {} /\ info = Nobody
      BY <1>5, <1>6, <2>2
    <3> QED BY <1>1, <1>2, <1>3, <1>4, <2>2, <3>1, <3>2
  <2>3. CASE InBlock \ {i} = {} /\ task[i].block # Nobody
    <3>1. shared' = shared
      BY <2>3 DEF Meet
    <3>2. InBlock = {i}
      BY <1>6, <2>3
    <3> QED BY <1>1, <1>2, <1>3, <1>4, <3>1, <3>2
  <2> QED BY <2>1, <2>2, <2>3
<1>8. BlocksSignTheirWrites'
  BY DEF IInv, Blocks, BlocksSignTheirWrites
<1> QED BY <1>1, <1>5, <1>7, <1>8 DEF Blocks

\* The shape is kept where everything but the tasks and the promise stays.
LEMMA ShapeStays ==
    ASSUME IInv, NEW i \in Tasks, NEW u, Becomes(i, u), \A k \in Tasks : TaskShape(task'[k]),
           db' = db, stats' \in Memories, info' \in Authors \cup {Nobody}, ready' \in {"no", "pending", "yes", "rejected"},
           epoch' \in Epochs, mixed' = mixed, outdated' = outdated
    PROVE  Shape'
<1>1. /\ db \in Databases /\ mixed \in BOOLEAN /\ outdated \in BOOLEAN
      /\ task' = [k \in Tasks |-> task'[k]]
  BY DEF IInv, Shape, Becomes
<1>2. db' \in Databases /\ mixed' \in BOOLEAN /\ outdated' \in BOOLEAN
  BY <1>1
<1> QED BY <1>1, <1>2 DEF Shape

\* A task that is settled, or waits, loads nothing.
LEMMA NoLoad ==
    ASSUME NEW t, t.at \in {"settled", "awaiting"} \/ (t.at = "answered" /\ ~t.response.ok)
    PROVE  ~WillLoad(t)
BY DEF WillLoad

\* A call keeps the invariant.
LEMMA CallKeeps ==
    ASSUME IInv, NEW i \in Tasks, NEW c \in Calls[i], Call(i, c)
    PROVE  IInv'
<1>1. PICK u : Goes(i, u)
  BY CallGoes
<1>2. ready' \in {ready, "pending"}
  BY CallGoes
<1>3. /\ db' = db /\ stats' = stats /\ info' = info /\ epoch' = epoch /\ signed' = signed /\ mixed' = mixed /\ leaked' = leaked
      /\ outdated' = outdated /\ task[i].at = "settled" /\ Meet(i, InBlock)
  BY DEF Call
<1>4. Becomes(i, u) /\ InOrder(u) /\ u.at # "answered"
  BY <1>1 DEF Goes, InOrder
<1>5. ready' = "yes" => db.tables
  BY <1>2 DEF IInv, Tables
<1>6. ~outdated => Even(stats'.version)
  BY <1>3 DEF IInv, Logs
<1>7. Counts' /\ Ticks' /\ Tables' /\ Logs' /\ \A k \in Tasks : TaskShape(task'[k])
  BY <1>3, <1>4, <1>5, <1>6, GoesKeeps
<1>8. Engine'
  BY <1>3, <1>4, NoLoad, EngineStays
<1>9. Blocks'
  BY <1>1, <1>3, CallKeepsBlocks
<1>10. Shape'
  <2>1. /\ stats \in Memories /\ info \in Authors \cup {Nobody} /\ epoch \in Epochs
        /\ ready \in {"no", "pending", "yes", "rejected"}
    BY DEF IInv, Shape
  <2> QED BY <1>2, <1>3, <1>4, <1>7, <2>1, ShapeStays
<1> QED BY <1>7, <1>8, <1>9, <1>10 DEF IInv

\* The end of a wait keeps the invariant.
LEMMA AwaitedKeeps ==
    ASSUME IInv, NEW i \in Tasks, Awaited(i)
    PROVE  IInv'
<1>1. PICK u : Goes(i, u)
  BY AwaitedGoes
<1>2. /\ db' = db /\ stats' = stats /\ info' = info /\ ready' = ready /\ epoch' = epoch /\ signed' = signed /\ shared' = shared
      /\ mixed' = mixed /\ leaked' = leaked /\ outdated' = outdated /\ task[i].at = "awaiting"
  BY DEF Awaited, ghosts
<1>3. Becomes(i, u) /\ InOrder(u) /\ u.at # "answered"
  BY <1>1 DEF Goes, InOrder
<1>4. ready' = "yes" => db.tables
  BY <1>2 DEF IInv, Tables
<1>5. ~outdated => Even(stats'.version)
  BY <1>2 DEF IInv, Logs
<1>6. Counts' /\ Ticks' /\ Tables' /\ Logs' /\ \A k \in Tasks : TaskShape(task'[k])
  BY <1>2, <1>3, <1>4, <1>5, GoesKeeps
<1>7. Engine'
  BY <1>2, <1>3, NoLoad, EngineStays
<1>8. Blocks'
  BY <1>1, <1>2, BlocksStay
<1>9. Shape'
  <2>1. /\ stats \in Memories /\ info \in Authors \cup {Nobody} /\ epoch \in Epochs
        /\ ready \in {"no", "pending", "yes", "rejected"}
    BY DEF IInv, Shape
  <2> QED BY <1>2, <1>3, <1>6, <2>1, ShapeStays
<1> QED BY <1>6, <1>7, <1>8, <1>9 DEF IInv

\* A rejection keeps the invariant.
LEMMA RejectKeeps ==
    ASSUME IInv, NEW i \in Tasks, Reject(i)
    PROVE  IInv'
<1>1. PICK u : Goes(i, u)
  BY RejectGoes
<1>2. ready' \in {ready, "rejected"}
  BY RejectGoes
<1>3. /\ db' = db /\ stats' = stats /\ info' = info /\ epoch' = epoch /\ signed' = signed /\ shared' = shared
      /\ mixed' = mixed /\ leaked' = leaked /\ outdated' = outdated /\ task[i].at = "answered" /\ ~task[i].response.ok
  BY DEF Reject, ghosts
<1>4. Becomes(i, u) /\ InOrder(u) /\ u.at # "answered"
  BY <1>1 DEF Goes, InOrder
<1>5. ready' = "yes" => db.tables
  BY <1>2 DEF IInv, Tables
<1>6. ~outdated => Even(stats'.version)
  BY <1>3 DEF IInv, Logs
<1>7. Counts' /\ Ticks' /\ Tables' /\ Logs' /\ \A k \in Tasks : TaskShape(task'[k])
  BY <1>3, <1>4, <1>5, <1>6, GoesKeeps
<1>8. Engine'
  BY <1>3, <1>4, NoLoad, EngineStays
<1>9. Blocks'
  BY <1>1, <1>3, BlocksStay
<1>10. Shape'
  <2>1. /\ stats \in Memories /\ info \in Authors \cup {Nobody} /\ epoch \in Epochs
        /\ ready \in {"no", "pending", "yes", "rejected"}
    BY DEF IInv, Shape
  <2> QED BY <1>2, <1>3, <1>4, <1>7, <2>1, ShapeStays
<1> QED BY <1>7, <1>8, <1>9, <1>10 DEF IInv

\* An idle task is in order.
LEMMA IdleInOrder ==
    ASSUME NEW a
    PROVE  InOrder(Idle(a)) /\ Idle(a).at = "settled" /\ Idle(a).block = a
<1>1. PICK u : u = Idle(a)
  OBVIOUS
<1>2. u.at = "settled" /\ HasFields(u, SettledFields) /\ u.outcome = "none" /\ u.block = a
  BY <1>1 DEF Idle, HasFields, SettledFields
<1>3. TaskShape(u) /\ CountOf(u) /\ TickOf(u) /\ VersionsOf(u)
  BY <1>2 DEF TaskShape, CountOf, TickOf, VersionsOf
<1> QED BY <1>1, <1>2, <1>3 DEF InOrder

\* The start and the end of a block leave everything but the author, the
\* blocks and the tasks they met.
LEMMA BlockEdgeKeeps ==
    ASSUME IInv, NEW i \in Tasks, NEW a \in Authors \cup {Nobody}, task[i].at = "settled",
           task' = [task EXCEPT ![i] = Idle(a)], info' = a, Blocks', ready' = ready,
           db' = db, stats' = stats, epoch' = epoch, mixed' = mixed, leaked' = leaked, outdated' = outdated
    PROVE  IInv'
<1>1. PICK u : u = Idle(a)
  OBVIOUS
<1>2. Becomes(i, u)
  BY <1>1, OneTask DEF IInv, Shape
<1>3. InOrder(u) /\ u.at # "answered"
  BY <1>1, IdleInOrder
<1>4. ready' = "yes" => db.tables
  BY DEF IInv, Tables
<1>5. ~outdated => Even(stats'.version)
  BY DEF IInv, Logs
<1>6. Counts' /\ Ticks' /\ Tables' /\ Logs' /\ \A k \in Tasks : TaskShape(task'[k])
  BY <1>2, <1>3, <1>4, <1>5, GoesKeeps
<1>7. Engine'
  BY <1>2, <1>3, NoLoad, EngineStays
<1>8. Shape'
  <2>1. stats \in Memories /\ epoch \in Epochs /\ ready \in {"no", "pending", "yes", "rejected"}
    BY DEF IInv, Shape
  <2> QED BY <1>2, <1>6, <2>1, ShapeStays
<1> QED BY <1>6, <1>7, <1>8 DEF IInv

\* withCommit keeps the invariant.
LEMMA WithCommitKeeps ==
    ASSUME IInv, NEW i \in Tasks, NEW a \in Authors, withCommit(i, a)
    PROVE  IInv'
<1>1. /\ task[i].at = "settled" /\ task[i].block = Nobody /\ info' = a /\ task' = [task EXCEPT ![i] = Idle(a)] /\ Meet(i, Busy)
      /\ db' = db /\ stats' = stats /\ ready' = ready /\ epoch' = epoch /\ signed' = signed /\ mixed' = mixed
      /\ leaked' = leaked /\ outdated' = outdated
  BY DEF withCommit
<1>2. Becomes(i, Idle(a))
  BY <1>1, OneTask DEF IInv, Shape
<1>3. PICK u : u = Idle(a)
  OBVIOUS
<1>4. task'[i] = u /\ u.at = "settled" /\ u.block = a /\ \A k \in Tasks \ {i} : task'[k] = task[k]
  BY <1>2, <1>3, IdleInOrder DEF Becomes
<1>5. i \notin Busy
  BY <1>1 DEF Busy
<1>6. \A k \in Tasks \ {i} : (k \in Busy' <=> k \in Busy) /\ (k \in InBlock' => k \in Busy) /\ (task'[k].at = "sent" => k \in Busy)
  BY <1>4 DEF Busy, InBlock
<1>7. InBlock' \subseteq Tasks
  BY DEF InBlock
<1>8. \A k \in Tasks \ shared' : /\ k \in Busy' => InBlock' \subseteq {k}
                                 /\ k \in InBlock' => info' = task'[k].block
                                 /\ task'[k].at = "sent" => task'[k].request.author = task'[k].block
  <2>1. CASE Busy \ {i} # {}
    <3>1. shared' = shared \cup {i} \cup Busy
      BY <1>1, <2>1 DEF Meet
    <3> QED BY <1>6, <3>1
  <2>2. CASE Busy \ {i} = {}
    <3>1. InBlock' \subseteq {i}
      BY <1>6, <1>7, <2>2
    <3> QED BY <1>1, <1>4, <1>6, <2>2, <3>1
  <2> QED BY <2>1, <2>2
<1>9. info' # Nobody => InBlock' # {}
  BY <1>1, <1>4 DEF InBlock
<1>10. BlocksSignTheirWrites'
  BY <1>1 DEF IInv, Blocks, BlocksSignTheirWrites
<1>11. Blocks'
  BY <1>8, <1>9, <1>10 DEF Blocks
<1> QED BY <1>1, <1>11, BlockEdgeKeeps

\* The end of a block keeps the invariant.
LEMMA EndCommitKeeps ==
    ASSUME IInv, NEW i \in Tasks, endCommit(i)
    PROVE  IInv'
<1>1. /\ task[i].at = "settled" /\ task[i].block # Nobody /\ info' = Nobody /\ task' = [task EXCEPT ![i] = Idle(Nobody)]
      /\ db' = db /\ stats' = stats /\ ready' = ready /\ epoch' = epoch /\ signed' = signed /\ shared' = shared /\ mixed' = mixed
      /\ leaked' = leaked /\ outdated' = outdated
  BY DEF endCommit, ghosts
<1>2. Becomes(i, Idle(Nobody))
  BY <1>1, OneTask DEF IInv, Shape
<1>3. PICK u : u = Idle(Nobody)
  OBVIOUS
<1>4. task'[i] = u /\ u.at = "settled" /\ u.block = Nobody /\ \A k \in Tasks \ {i} : task'[k] = task[k]
  BY <1>2, <1>3, IdleInOrder DEF Becomes
<1>5. i \in InBlock /\ i \notin Busy' /\ i \notin InBlock'
  BY <1>1, <1>4 DEF InBlock, Busy
<1>6. \A k \in Tasks \ {i} : (k \in Busy' => k \in Busy) /\ (k \in InBlock' => k \in Busy) /\ (task'[k].at = "sent" => k \in Busy)
  BY <1>4 DEF Busy, InBlock
<1>7. \A k \in Tasks \ shared : k \in Busy => InBlock \subseteq {k}
  BY DEF IInv, Blocks
<1>8. \A k \in Tasks \ shared' : /\ k \in Busy' => InBlock' \subseteq {k}
                                 /\ k \in InBlock' => info' = task'[k].block
                                 /\ task'[k].at = "sent" => task'[k].request.author = task'[k].block
  <2> SUFFICES ASSUME NEW k \in Tasks \ shared'
               PROVE  k \notin Busy' /\ k \notin InBlock' /\ task'[k].at # "sent"
    OBVIOUS
  <2>1. CASE k = i
    BY <1>4, <1>5, <2>1
  <2>2. CASE k # i
    <3>1. k \notin Busy
      BY <1>1, <1>5, <1>7, <2>2
    <3> QED BY <1>6, <2>2, <3>1
  <2> QED BY <2>1, <2>2
<1>9. BlocksSignTheirWrites'
  BY <1>1 DEF IInv, Blocks, BlocksSignTheirWrites
<1>10. Blocks'
  BY <1>1, <1>8, <1>9 DEF Blocks
<1> QED BY <1>1, <1>10, BlockEdgeKeeps

\* What a load brings becomes the engine's memory.
LEMMA ResumeKeepsEngine ==
    ASSUME IInv, NEW i \in Tasks, Resume(i), NEW u, Goes(i, u), StillLoads(task[i]) => LoadsNext(u)
    PROVE  Engine' /\ stats' \in Memories /\ epoch' \in Epochs /\ (~outdated => Even(stats'.version))
<1>1. PICK t : t = task[i]
  OBVIOUS
<1>2. t.at = "answered" /\ t.response.ok /\ db' = db
  BY <1>1 DEF Resume
<1>3. t.request.stage = t.stages[1] /\ Answered(t)
  BY <1>1, <1>2, AnsweredIs DEF Answered, Requested
<1>4. Becomes(i, u) /\ u.at # "answered"
  BY DEF Goes, InOrder
<1>5. stats \in Memories /\ epoch \in Epochs /\ (~outdated => Even(stats.version))
  BY DEF IInv, Shape, Logs
<1>6. LoadsNext(u) => WillLoad(u)
  BY DEF LoadsNext, WillLoad
<1>7. CASE t.request.stage.kind # "stats"
  <2>1. stats' = stats /\ epoch' = epoch
    BY <1>1, <1>7 DEF Resume
  <2>2. WillLoad(t) => LoadsNext(u)
    BY <1>1, <1>2, <1>3, <1>7 DEF WillLoad, StillLoads
  <2> QED BY <1>1, <1>2, <1>4, <1>5, <2>1, <2>2, EngineStays
<1>8. CASE t.request.stage.kind = "stats"
  <2>1. PICK x : x = t.response.read[1]
    OBVIOUS
  <2>2. x \in Loads
    BY <1>1, <1>2, <1>8, <2>1 DEF IInv, Shape, TaskShape
  <2>3. /\ stats' = [version |-> x.version, facts |-> x.facts]
        /\ epoch' = [epoch EXCEPT !.stats = x.epoch, !.late = @ \/ x.epoch < epoch.stats]
    BY <1>1, <1>8, <2>1 DEF Resume
  <2>4. x.version \in Versions /\ x.facts \in SUBSET SchemaQuads /\ x.epoch \in Nat
    BY <2>2 DEF Loads
  <2>5. stats' \in Memories /\ stats'.version = x.version /\ stats'.facts = x.facts
    BY <2>3, <2>4 DEF Memories
  <2>6. PICK late \in BOOLEAN : late <=> (epoch.late \/ x.epoch < epoch.stats)
    OBVIOUS
  <2>7. epoch.late \in BOOLEAN /\ epoch.db \in Nat /\ epoch.stats \in Nat
    BY <1>5 DEF Epochs
  <2>8. epoch' = [epoch EXCEPT !.stats = x.epoch, !.late = late]
    <3>1. late = (epoch.late \/ x.epoch < epoch.stats)
      BY <2>6, <2>7
    <3> QED BY <2>3, <3>1
  <2>9. /\ epoch' \in Epochs /\ epoch'.stats = x.epoch /\ epoch'.late = late /\ epoch'.db = epoch.db
        /\ epoch'.failed = epoch.failed /\ epoch'.bypassed = epoch.bypassed
    BY <1>5, <2>4, <2>8 DEF Epochs
  <2>10. LoadOf(t)
    BY <1>1 DEF IInv, Engine
  <2>11. x.epoch <= epoch.db /\ (x.epoch = epoch.db => Current(x))
    BY <1>2, <1>8, <2>1, <2>10 DEF LoadOf
  <2>12. epoch'.stats <= epoch'.db /\ (epoch'.stats = epoch'.db => Current(stats)')
    BY <1>2, <2>5, <2>9, <2>11 DEF Current, VersionOf, FactsOf
  <2>13. \A k \in Tasks : LoadOf(task[k])'
    <3> SUFFICES ASSUME NEW k \in Tasks PROVE LoadOf(task[k])'
      OBVIOUS
    <3>1. CASE k = i
      BY <1>4, <3>1 DEF LoadOf, Becomes
    <3>2. CASE k # i
      <4>1. LoadOf(task[k]) /\ task'[k] = task[k]
        BY <1>4, <3>2 DEF IInv, Engine, Becomes
      <4> QED BY <1>2, <2>9, <4>1 DEF LoadOf, Current, VersionOf, FactsOf
    <3> QED BY <3>1, <3>2
  <2>14. epoch'.late \/ epoch'.failed \/ epoch'.bypassed \/ epoch'.stats = epoch'.db \/ \E k \in Tasks : WillLoad(task[k])'
    <3> SUFFICES ASSUME ~late, ~epoch.failed, ~epoch.bypassed, x.epoch # epoch.db PROVE \E k \in Tasks : WillLoad(task[k])'
      BY <2>9
    <3>1. ~epoch.late /\ epoch.stats # epoch.db
      BY <2>4, <2>6, <2>7, <2>11
    <3>2. PICK k \in Tasks : WillLoad(task[k])
      BY <3>1 DEF IInv, Engine
    <3>3. CASE k = i
      <4>1. StillLoads(t)
        BY <1>1, <1>2, <2>1, <3>2, <3>3 DEF WillLoad, StillLoads
      <4>2. LoadsNext(u) /\ task'[i] = u
        BY <1>1, <1>4, <4>1 DEF Becomes
      <4>3. WillLoad(task[i])'
        BY <4>2 DEF WillLoad, LoadsNext
      <4> QED BY <4>3
    <3>4. CASE k # i
      <4>1. task'[k] = task[k]
        BY <1>4, <3>4 DEF Becomes
      <4>2. WillLoad(task[k])'
        BY <2>9, <3>2, <4>1 DEF WillLoad
      <4> QED BY <4>2
    <3> QED BY <3>3, <3>4
  <2>15. ~outdated => Even(stats'.version)
    <3>1. ~outdated => VersionsOf(t)
      BY <1>1 DEF IInv, Logs
    <3> QED BY <1>2, <1>8, <2>1, <2>5, <3>1 DEF VersionsOf
  <2>16. Engine'
    BY <2>12, <2>13, <2>14 DEF Engine
  <2> QED BY <2>5, <2>9, <2>15, <2>16
<1> QED BY <1>7, <1>8

\* A response keeps the invariant.
LEMMA ResumeKeeps ==
    ASSUME IInv, NEW i \in Tasks, Resume(i)
    PROVE  IInv'
<1>1. PICK u : Goes(i, u) /\ (StillLoads(task[i]) => LoadsNext(u))
  BY ResumeGoes
<1>2. /\ db' = db /\ info' = info /\ signed' = signed /\ shared' = shared /\ mixed' = mixed /\ leaked' = leaked
      /\ outdated' = outdated /\ task[i].at = "answered" /\ task[i].response.ok
      /\ ready' = IF task[i].request.stage.kind = "tables" THEN "yes" ELSE ready
  BY DEF Resume
<1>3. Becomes(i, u) /\ InOrder(u)
  BY <1>1 DEF Goes
<1>4. Engine' /\ stats' \in Memories /\ epoch' \in Epochs /\ (~outdated => Even(stats'.version))
  BY <1>1, ResumeKeepsEngine
<1>5. ready' = "yes" => db.tables
  <2>1. CASE task[i].request.stage.kind = "tables"
    <3>1. Answered(task[i])
      BY <1>2, AnsweredIs
    <3>2. task[i].stages[1].kind = "tables"
      BY <2>1, <3>1 DEF Answered, Requested
    <3>3. task[i].call.op = "put"
      BY <3>1, <3>2 DEF Answered, Suits
    <3> QED BY <1>2, <3>1, <3>3 DEF Answered
  <2>2. CASE task[i].request.stage.kind # "tables"
    BY <1>2, <2>2 DEF IInv, Tables
  <2> QED BY <2>1, <2>2
<1>6. Counts' /\ Ticks' /\ Tables' /\ Logs' /\ \A k \in Tasks : TaskShape(task'[k])
  BY <1>2, <1>3, <1>4, <1>5, GoesKeeps
<1>7. Blocks'
  BY <1>1, <1>2, BlocksStay
<1>8. Shape'
  <2>1. info \in Authors \cup {Nobody} /\ ready \in {"no", "pending", "yes", "rejected"}
    BY DEF IInv, Shape
  <2> QED BY <1>2, <1>3, <1>4, <1>6, <2>1, ShapeStays
<1> QED BY <1>4, <1>6, <1>7, <1>8 DEF IInv

-----------------------------------------------------------------------------
(* What happens to a request.                                              *)

\* A request that is answered, or whose answer is lost, leaves the blocks.
LEMMA AnswersKeepBlocks ==
    ASSUME IInv, NEW i \in Tasks, NEW u, Becomes(i, u), u.block = task[i].block, u.at = "answered", task[i].at # "settled",
           info' = info, shared' = shared, BlocksSignTheirWrites'
    PROVE  Blocks'
<1>1. /\ InBlock' = InBlock /\ \A k \in Tasks : task'[k].block = task[k].block
      /\ \A k \in Tasks \ {i} : k \in Busy' <=> k \in Busy
  BY SameBlocks
<1>2. i \in Busy /\ task'[i].at = "answered" /\ \A k \in Tasks \ {i} : task'[k] = task[k]
  BY DEF Busy, Becomes
<1>3. \A k \in Tasks \ shared : /\ k \in Busy' => InBlock' \subseteq {k}
                                /\ k \in InBlock' => info' = task'[k].block
                                /\ task'[k].at = "sent" => task'[k].request.author = task'[k].block
  BY <1>1, <1>2 DEF IInv, Blocks
<1>4. info' # Nobody => InBlock' # {}
  BY <1>1 DEF IInv, Blocks
<1> QED BY <1>3, <1>4 DEF Blocks

\* A request that fails, or whose response is lost.
LEMMA LossKeeps ==
    ASSUME IInv, NEW i \in Tasks, NEW u, Becomes(i, u), task[i].at \in {"sent", "answered"},
           u = [task[i] EXCEPT !.at = "answered", !.response = [ok |-> FALSE, results |-> <<>>, read |-> <<>>]],
           epoch' = [epoch EXCEPT !.failed = TRUE],
           db' = db, stats' = stats, info' = info, ready' = ready, signed' = signed, shared' = shared, mixed' = mixed,
           leaked' = leaked, outdated' = outdated
    PROVE  IInv'
<1>1. PICK t : t = task[i]
  OBVIOUS
<1>2. HasFields(t, CallFields) /\ t.count \in Nat /\ t.changed \in Nat /\ Requested(t)
  BY <1>1 DEF IInv, Shape, TaskShape
<1>3. /\ HasFields(u, CallFields) /\ u.at = "answered" /\ u.response.ok = FALSE /\ u.count = t.count /\ u.changed = t.changed
      /\ u.stages = t.stages /\ u.request = t.request /\ u.call = t.call /\ u.block = t.block
  BY <1>1, <1>2 DEF HasFields, CallFields
<1>4. Requested(u)
  BY <1>2, <1>3 DEF Requested
<1>5. TaskShape(u) /\ CountOf(u) /\ TickOf(u) /\ TablesOf(u)
  BY <1>2, <1>3, <1>4 DEF TaskShape, CountOf, TickOf, TablesOf
<1>6. ~outdated => VersionsOf(u)
  <2>1. ~outdated => VersionsOf(t)
    BY <1>1 DEF IInv, Logs
  <2> QED BY <1>1, <1>3, <2>1 DEF VersionsOf
<1>7. \A k \in Tasks : task'[k] = u \/ task'[k] = task[k]
  BY DEF Becomes
<1>8. /\ epoch' \in Epochs /\ epoch'.failed = TRUE /\ epoch'.db = epoch.db /\ epoch'.stats = epoch.stats
  BY DEF IInv, Shape, Epochs
<1>9. Shape'
  <2>1. /\ stats \in Memories /\ info \in Authors \cup {Nobody} /\ ready \in {"no", "pending", "yes", "rejected"}
        /\ \A k \in Tasks : TaskShape(task[k])
    BY DEF IInv, Shape
  <2>2. \A k \in Tasks : TaskShape(task'[k])
    BY <1>5, <1>7, <2>1
  <2> QED BY <1>8, <2>1, <2>2, ShapeStays
<1>10. Counts'
  <2>1. \A k \in Tasks : CountOf(task'[k])
    BY <1>5, <1>7 DEF IInv, Counts
  <2> QED BY <2>1 DEF Counts
<1>11. Ticks'
  <2>1. \A k \in Tasks : TickOf(task'[k])
    BY <1>5, <1>7 DEF IInv, Ticks
  <2> QED BY <2>1 DEF IInv, Ticks
<1>12. Tables'
  <2>1. \A k \in Tasks : TablesOf(task'[k])
    BY <1>5, <1>7 DEF IInv, Tables
  <2>2. \A k \in Tasks : TablesOf(task[k])'
    BY <2>1 DEF TablesOf
  <2> QED BY <2>2 DEF IInv, Tables
<1>13. Logs'
  <2> SUFFICES ASSUME ~outdated
               PROVE  LogOf(db', leaked') /\ Even(db') /\ Even(stats'.version) /\ \A k \in Tasks : VersionsOf(task'[k])
    BY DEF Logs, LogOf
  <2>1. LogOf(db, leaked) /\ Even(db) /\ Even(stats.version) /\ \A k \in Tasks : VersionsOf(task[k])
    BY DEF IInv, Logs
  <2> QED BY <1>6, <1>7, <2>1
<1>14. Engine'
  <2>1. epoch'.stats <= epoch'.db /\ (epoch'.stats = epoch'.db => Current(stats)')
    BY <1>8 DEF IInv, Engine, Current, VersionOf, FactsOf
  <2>2. \A k \in Tasks : LoadOf(task[k])'
    <3> SUFFICES ASSUME NEW k \in Tasks PROVE LoadOf(task[k])'
      OBVIOUS
    <3>1. CASE task'[k] = u
      BY <1>3, <1>8, <3>1 DEF LoadOf
    <3>2. CASE task'[k] = task[k]
      <4>1. LoadOf(task[k])
        BY DEF IInv, Engine
      <4> QED BY <1>8, <3>2, <4>1 DEF LoadOf, Current, VersionOf, FactsOf
    <3> QED BY <1>7, <3>1, <3>2
  <2> QED BY <1>8, <2>1, <2>2 DEF Engine
<1>15. Blocks'
  <2>1. BlocksSignTheirWrites'
    BY DEF IInv, Blocks, BlocksSignTheirWrites
  <2>2. u.block = task[i].block /\ task[i].at # "settled"
    BY <1>1, <1>3
  <2> QED BY <1>3, <2>1, <2>2, AnswersKeepBlocks
<1> QED BY <1>9, <1>10, <1>11, <1>12, <1>13, <1>14, <1>15 DEF IInv

\* A request that fails before it is applied keeps the invariant.
LEMMA LoseKeeps ==
    ASSUME IInv, NEW i \in Tasks, Lose(i)
    PROVE  IInv'
<1>1. PICK u : u = [task[i] EXCEPT !.at = "answered", !.response = [ok |-> FALSE, results |-> <<>>, read |-> <<>>]]
  OBVIOUS
<1>2. task' = [task EXCEPT ![i] = u]
  BY <1>1 DEF Lose, IInv, Shape
<1>3. Becomes(i, u)
  BY <1>2, OneTask DEF IInv, Shape
<1> QED BY <1>1, <1>3, LossKeeps DEF Lose

\* A response that is lost keeps the invariant.
LEMMA LoseResponseKeeps ==
    ASSUME IInv, NEW i \in Tasks, LoseResponse(i)
    PROVE  IInv'
<1>1. PICK v : v = [task[i] EXCEPT !.response = [ok |-> FALSE, results |-> <<>>, read |-> <<>>]]
  OBVIOUS
<1>2. task' = [task EXCEPT ![i] = v]
  BY <1>1 DEF LoseResponse, IInv, Shape
<1>3. Becomes(i, v)
  BY <1>2, OneTask DEF IInv, Shape
<1>4. task[i].at = "answered" /\ HasFields(task[i], CallFields)
  BY DEF LoseResponse, IInv, Shape, TaskShape
<1>5. v = [task[i] EXCEPT !.at = "answered", !.response = [ok |-> FALSE, results |-> <<>>, read |-> <<>>]]
  BY <1>1, <1>4 DEF HasFields, CallFields
<1> QED BY <1>3, <1>4, <1>5, LossKeeps DEF LoseResponse

\* What D1 answers to a request.
Outcome(i) == IF NeedsTables(task[i]) /\ ~db.tables THEN Fails ELSE Run(task[i].request)
Reply(x) == [ok |-> x.ok, results |-> x.results, read |-> x.read]
Turned(x) == VersionOf(x.db) # VersionOf(db) \/ FactsOf(x.db) # FactsOf(db)

\* The task and the database once the request has run.
Executed(i, x, u) ==
    /\ task[i].at = "sent" /\ Requested(task[i]) /\ Suits(task[i].call, task[i].stages, 1)
    /\ RunKeeps(task[i].request, x) /\ (NeedsTables(task[i]) /\ ~db.tables => ~x.ok)
    /\ Becomes(i, u) /\ HasFields(u, CallFields) /\ u.at = "answered" /\ u.count = task[i].count /\ u.count \in Nat
    /\ u.changed \in Nat /\ u.stages = task[i].stages /\ u.request = task[i].request /\ u.call = task[i].call
    /\ u.block = task[i].block /\ u.pending = task[i].request.prefix
    /\ u.response.ok = x.ok /\ u.response.read = x.read /\ CountOf(u) /\ u.response.results = x.results
    /\ db' = x.db /\ leaked' = LeakedAfter(task[i].request, x)
    /\ stats' = stats /\ info' = info /\ ready' = ready /\ shared' = shared

\* The invariant gives all of it.
LEMMA ExecuteIs ==
    ASSUME IInv, NEW i \in Tasks, Execute(i)
    PROVE  \E u : Executed(i, Outcome(i), u)
<1>1. PICK t : t = task[i]
  OBVIOUS
<1>2. t.at = "sent" /\ HasFields(t, CallFields) /\ t.count \in Nat /\ t.changed \in Nat /\ Requested(t) /\ db \in Databases
  BY <1>1 DEF Execute, IInv, Shape, TaskShape
<1>3. t.count = t.changed
  BY <1>1, <1>2 DEF IInv, Counts, CountOf
<1>4. PICK r : r = t.request
  OBVIOUS
<1>5. Len(t.stages) \in Nat /\ Len(t.stages) >= 1 /\ t.stages[1] \in StageRecords
  BY <1>2 DEF Requested, Suited
<1>6. Suits(t.call, t.stages, 1)
  BY <1>2, <1>5 DEF Requested, Suited
<1>7. Requests(r)
  BY <1>2, <1>4, <1>5, <1>6 DEF Requests, Requested, Suits
<1>8. PICK x : x = Outcome(i)
  OBVIOUS
<1>9. RunKeeps(r, x) /\ (NeedsTables(t) /\ ~db.tables => ~x.ok)
  <2>1. CASE NeedsTables(t) /\ ~db.tables
    <3>1. x = Fails
      BY <1>1, <1>8, <2>1 DEF Outcome
    <3>2. ~x.ok
      BY <3>1 DEF Fails
    <3> QED BY <1>2, <3>1, <3>2, RefusalKeeps
  <2>2. CASE ~(NeedsTables(t) /\ ~db.tables)
    <3>1. x = Run(r)
      BY <1>1, <1>4, <1>8, <2>2 DEF Outcome
    <3> QED BY <1>2, <1>7, <2>2, <3>1, RunKeepsAll
  <2> QED BY <2>1, <2>2
<1>10. PICK a : a = Reply(x)
  OBVIOUS
<1>11. PICK n : n = IF r.stage.kind \in {"write", "rewrite"} /\ x.ok THEN x.results[Len(x.results)] ELSE 0
  OBVIOUS
<1>12. PICK u : u = [t EXCEPT !.at = "answered", !.response = a, !.pending = r.prefix, !.changed = @ + n]
  OBVIOUS
<1>13. /\ db' = x.db /\ leaked' = LeakedAfter(r, x)
       /\ stats' = stats /\ info' = info /\ ready' = ready /\ shared' = shared
       /\ task' = [task EXCEPT ![i] = [task[i] EXCEPT !.at = "answered", !.response = a, !.pending = r.prefix, !.changed = @ + n]]
  <2>1. PICK y \in {Outcome(i)} :
           /\ db' = y.db
           /\ task' = [task EXCEPT ![i] = [task[i] EXCEPT !.at = "answered", !.response = [ok |-> y.ok, results |-> y.results, read |-> y.read], !.pending = task[i].request.prefix,
                          !.changed = @ + IF task[i].request.stage.kind \in {"write", "rewrite"} /\ y.ok THEN y.results[Len(y.results)] ELSE 0]]
           /\ leaked' = LeakedAfter(task[i].request, y)
    BY Zenon DEF Execute, Outcome, LeakedAfter
  <2>2. y = x /\ task[i].request = r
    BY <1>1, <1>4, <1>8
  <2>3. [ok |-> y.ok, results |-> y.results, read |-> y.read] = a
    BY <1>10, <2>2 DEF Reply
  <2>4. (IF task[i].request.stage.kind \in {"write", "rewrite"} /\ y.ok THEN y.results[Len(y.results)] ELSE 0) = n
    BY <1>11, <2>2
  <2>5. task' = [task EXCEPT ![i] = [task[i] EXCEPT !.at = "answered", !.response = a, !.pending = r.prefix, !.changed = @ + n]]
    BY <2>1, <2>2, <2>3, <2>4, Zenon
  <2>6. stats' = stats /\ info' = info /\ ready' = ready /\ shared' = shared
    BY DEF Execute
  <2> QED BY <2>1, <2>2, <2>5, <2>6
<1>14. task = [k \in Tasks |-> task[k]]
  BY DEF IInv, Shape
<1>15. task' = [task EXCEPT ![i] = u]
  BY <1>1, <1>12, <1>13
<1>16. Becomes(i, u)
  BY <1>14, <1>15, OneTask
<1>17. /\ HasFields(u, CallFields) /\ u.at = "answered" /\ u.response = a /\ u.pending = r.prefix /\ u.changed = t.changed + n
       /\ u.count = t.count /\ u.stages = t.stages /\ u.request = t.request /\ u.call = t.call /\ u.block = t.block
  BY <1>2, <1>12 DEF HasFields, CallFields
<1>18. u.response.ok = x.ok /\ u.response.read = x.read /\ u.response.results = x.results
  BY <1>10, <1>17 DEF Reply
<1>19. /\ n \in Nat
       /\ x.ok => x.results = (IF r.prefix THEN <<1, 1, n>> ELSE <<n>>)
  <2>1. x.ok \in BOOLEAN /\ r.prefix \in BOOLEAN /\ (r.prefix => IsWrite(r.stage))
    BY <1>7, <1>9 DEF RunKeeps, Requests
  <2>2. CASE ~x.ok
    BY <1>11, <2>2
  <2>3. CASE x.ok /\ ~IsWrite(r.stage)
    <3>1. x.results = <<0>> /\ n = 0 /\ ~r.prefix
      BY <1>9, <1>11, <2>1, <2>3 DEF RunKeeps, IsWrite
    <3> QED BY <3>1
  <2>4. CASE x.ok /\ IsWrite(r.stage)
    <3>1. PICK m \in Nat : x.results = (IF r.prefix THEN <<1, 1, m>> ELSE <<m>>)
      BY <1>9, <2>4 DEF RunKeeps
    <3>2. n = x.results[Len(x.results)]
      BY <1>11, <2>4 DEF IsWrite
    <3>3. Len(<<1, 1, m>>) = 3 /\ <<1, 1, m>>[3] = m /\ Len(<<m>>) = 1 /\ <<m>>[1] = m
      OBVIOUS
    <3>4. n = m
      <4>1. CASE r.prefix
        BY <3>1, <3>2, <3>3, <4>1
      <4>2. CASE ~r.prefix
        BY <3>1, <3>2, <3>3, <4>2
      <4> QED BY <4>1, <4>2
    <3> QED BY <3>1, <3>4
  <2> QED BY <2>1, <2>2, <2>3, <2>4
<1>20. CountOf(u) /\ u.changed \in Nat
  <2>1. u.changed \in Nat /\ u.changed = u.count + n
    BY <1>2, <1>3, <1>17, <1>19
  <2>2. x.ok => u.response.results[IF u.pending THEN 3 ELSE 1] = n /\ u.response.results = (IF u.pending THEN <<1, 1, n>> ELSE <<n>>)
    <3>1. <<1, 1, n>>[3] = n /\ <<n>>[1] = n
      OBVIOUS
    <3>2. CASE r.prefix
      BY <1>17, <1>18, <1>19, <3>1, <3>2
    <3>3. CASE ~r.prefix
      BY <1>17, <1>18, <1>19, <3>1, <3>3
    <3> QED BY <3>2, <3>3
  <2> QED BY <1>17, <1>18, <1>19, <2>1, <2>2 DEF CountOf
<1>21. Executed(i, x, u)
  BY <1>1, <1>2, <1>4, <1>6, <1>9, <1>13, <1>16, <1>17, <1>18, <1>20 DEF Executed
<1> QED BY <1>8, <1>21

\* What the history variables record of a request.
LEMMA ExecuteRecords ==
    ASSUME NEW i \in Tasks, Execute(i), NEW x, x = Outcome(i), NEW r, r = task[i].request
    PROVE  /\ epoch' = [epoch EXCEPT !.db = IF Turned(x) THEN @ + 1 ELSE @, !.failed = @ \/ ~x.ok,
                                     !.bypassed = @ \/ (Turned(x) /\ task[i].call.op \in {"put", "purge"})]
           /\ signed' = IF x.ok /\ r.prefix
                        THEN signed \cup {[task |-> i, block |-> task[i].block, author |-> r.author, alone |-> i \notin shared]}
                        ELSE signed
           /\ mixed' = (mixed \/ (x.db.log # db.log /\ IsWrite(r.stage) /\ ~r.prefix /\ task[i].sent_level >= Stamped))
           /\ outdated' = (outdated \/ (x.ok /\ r.stage.kind = "level" /\ r.stage.state.history # db.history))
<1>1. PICK y \in {Outcome(i)} :
         /\ epoch' = [epoch EXCEPT !.db = IF Turned(y) THEN @ + 1 ELSE @, !.failed = @ \/ ~y.ok,
                                   !.bypassed = @ \/ (Turned(y) /\ task[i].call.op \in {"put", "purge"})]
         /\ signed' = IF y.ok /\ task[i].request.prefix
                      THEN signed \cup {[task |-> i, block |-> task[i].block, author |-> task[i].request.author, alone |-> i \notin shared]}
                      ELSE signed
         /\ mixed' = (mixed \/ (y.db.log # db.log /\ IsWrite(task[i].request.stage) /\ ~task[i].request.prefix /\ task[i].sent_level >= Stamped))
         /\ outdated' = (outdated \/ (y.ok /\ task[i].request.stage.kind = "level" /\ task[i].request.stage.state.history # db.history))
  BY Zenon DEF Execute, Outcome, Turned, IsWrite
<1>2. y = x /\ r = task[i].request
  OBVIOUS
<1> QED BY <1>1, <1>2, Zenon

\* A request keeps the counts and the ticks.
LEMMA ExecuteKeepsTicks ==
    ASSUME IInv, NEW i \in Tasks, Execute(i), NEW x, x = Outcome(i), NEW u, Executed(i, x, u)
    PROVE  Counts' /\ Ticks'
<1>1. \A k \in Tasks : task'[k] = u \/ task'[k] = task[k]
  BY DEF Executed, Becomes
<1>2. Counts'
  <2>1. \A k \in Tasks : CountOf(task'[k])
    BY <1>1 DEF Executed, IInv, Counts
  <2> QED BY <2>1 DEF Counts
<1>3. TickOf(u)
  BY DEF Executed, TickOf
<1>4. \A k \in Tasks : TickOf(task'[k])
  BY <1>1, <1>3 DEF IInv, Ticks
<1>5. TickOf(task[i]) /\ ~mixed /\ task[i].at = "sent"
  BY DEF IInv, Ticks, Executed
<1>6. PICK r : r = task[i].request
  OBVIOUS
<1>7. mixed' = (mixed \/ (x.db.log # db.log /\ IsWrite(r.stage) /\ ~r.prefix /\ task[i].sent_level >= Stamped))
  BY <1>6, ExecuteRecords
<1>8. ~mixed'
  BY <1>5, <1>6, <1>7 DEF TickOf
<1> QED BY <1>2, <1>4, <1>8 DEF Ticks

\* A request keeps the author in force, and the ticks carry it.
LEMMA ExecuteKeepsBlocks ==
    ASSUME IInv, NEW i \in Tasks, Execute(i), NEW x, x = Outcome(i), NEW u, Executed(i, x, u)
    PROVE  Blocks'
<1>1. PICK r : r = task[i].request
  OBVIOUS
<1>2. PICK s : s = [task |-> i, block |-> task[i].block, author |-> r.author, alone |-> i \notin shared]
  OBVIOUS
<1>3. signed' \subseteq signed \cup {s}
  BY <1>1, <1>2, ExecuteRecords
<1>4. s.alone => s.author = s.block
  <2>1. s.alone = (i \notin shared) /\ s.author = r.author /\ s.block = task[i].block
    BY <1>2
  <2>2. i \notin shared => r.author = task[i].block
    BY <1>1 DEF IInv, Blocks, Executed
  <2> QED BY <2>1, <2>2
<1>5. BlocksSignTheirWrites
  BY DEF IInv, Blocks
<1>6. BlocksSignTheirWrites'
  BY <1>3, <1>4, <1>5 DEF BlocksSignTheirWrites
<1>7. Becomes(i, u) /\ u.block = task[i].block /\ u.at = "answered" /\ task[i].at # "settled" /\ info' = info /\ shared' = shared
  BY DEF Executed
<1> QED BY <1>6, <1>7, AnswersKeepBlocks

\* A request keeps what is known of the tables.
LEMMA ExecuteKeepsTables ==
    ASSUME IInv, NEW i \in Tasks, NEW x, NEW u, Executed(i, x, u)
    PROVE  Tables'
<1>1. db' = x.db /\ ready' = ready /\ (db.tables => x.db.tables)
  BY DEF Executed, RunKeeps
<1>2. TablesOf(task[i])'
  <2>1. task'[i] = u /\ u.at = "answered" /\ u.response.ok = x.ok /\ u.call = task[i].call
    BY DEF Executed, Becomes
  <2>2. x.ok /\ task[i].call.op = "put" => x.db.tables
    BY <1>1 DEF Executed, RunKeeps, NeedsTables
  <2> QED BY <1>1, <2>1, <2>2 DEF TablesOf
<1>3. \A k \in Tasks \ {i} : TablesOf(task[k])'
  <2> SUFFICES ASSUME NEW k \in Tasks \ {i} PROVE TablesOf(task[k])'
    OBVIOUS
  <2>1. TablesOf(task[k]) /\ task'[k] = task[k]
    BY DEF IInv, Tables, Executed, Becomes
  <2> QED BY <1>1, <2>1 DEF TablesOf, NeedsTables
<1>4. ready' = "yes" => db'.tables
  BY <1>1 DEF IInv, Tables
<1> QED BY <1>2, <1>3, <1>4 DEF Tables

\* A request keeps the log, when no level change met another history.
LEMMA ExecuteKeepsLogs ==
    ASSUME IInv, NEW i \in Tasks, Execute(i), NEW x, x = Outcome(i), NEW u, Executed(i, x, u)
    PROVE  Logs' /\ outdated' \in BOOLEAN
<1>1. PICK r : r = task[i].request
  OBVIOUS
<1>2. outdated' = (outdated \/ (x.ok /\ r.stage.kind = "level" /\ r.stage.state.history # db.history))
  BY <1>1, ExecuteRecords
<1>3. outdated \in BOOLEAN /\ outdated' \in BOOLEAN
  BY <1>2 DEF IInv, Shape
<1>4. ASSUME ~outdated'
      PROVE  LogOf(db', leaked') /\ Even(db') /\ Even(stats'.version) /\ \A k \in Tasks : VersionsOf(task'[k])
  <2>1. ~outdated /\ (x.ok /\ r.stage.kind = "level" => r.stage.state.history = db.history)
    BY <1>2, <1>4
  <2>2. LogOf(db, leaked) /\ Even(db) /\ Even(stats.version) /\ \A k \in Tasks : VersionsOf(task[k])
    BY <2>1 DEF IInv, Logs
  <2>3. RunKeeps(r, x) /\ r.stage = task[i].stages[1] /\ Len(task[i].stages) \in Nat /\ Len(task[i].stages) >= 1
    BY <1>1 DEF Executed, Requested, Suited
  <2>4. db' = x.db /\ leaked' = LeakedAfter(r, x) /\ stats' = stats
    BY <1>1 DEF Executed
  <2>5. Even(db') /\ LogOf(db', leaked')
    <3>1. CASE x.ok
      <4>1. r.stage.kind = "level" => Even(r.stage.state)
        BY <2>2, <2>3 DEF VersionsOf, Executed
      <4>2. Timely(r)
        BY <2>1, <3>1, <4>1 DEF Timely
      <4>3. Even(x.db) /\ LogOf(x.db, LeakedAfter(r, x))
        BY <2>2, <2>3, <4>2 DEF RunKeeps
      <4> QED BY <2>4, <4>3
    <3>2. CASE ~x.ok
      <4>1. x.db = db /\ LeakedAfter(r, x) = leaked
        BY <2>3, <3>2 DEF RunKeeps, LeakedAfter
      <4> QED BY <2>2, <2>4, <4>1
    <3> QED BY <3>1, <3>2
  <2>6. VersionsOf(u)
    <3>1. u.stages = task[i].stages /\ u.request = r /\ u.response.ok = x.ok /\ u.response.read = x.read /\ task[i].at = "sent"
      BY <1>1 DEF Executed
    <3>2. \A k \in 1 .. Len(u.stages) : u.stages[k].kind = "level" => Even(u.stages[k].state)
      BY <2>2, <3>1 DEF VersionsOf
    <3>3. ASSUME x.ok, r.stage.kind = "stats" PROVE Even(x.read[1].version)
      <4>1. x.read[1] = [version |-> VersionOf(db), facts |-> FactsOf(db), epoch |-> epoch.db]
        BY <2>3, <3>3 DEF RunKeeps
      <4>2. x.read[1].version = VersionOf(db)
        BY <4>1
      <4> QED BY <2>2, <4>2 DEF Even, VersionOf
    <3> QED BY <3>1, <3>2, <3>3 DEF VersionsOf
  <2>7. \A k \in Tasks : VersionsOf(task'[k])
    BY <2>2, <2>6 DEF Executed, Becomes
  <2> QED BY <2>2, <2>4, <2>5, <2>7
<1>5. Logs'
  BY <1>4 DEF Logs, LogOf
<1> QED BY <1>3, <1>5

\* A request keeps what the engine remembers tied to its epoch.
LEMMA ExecuteKeepsEngine ==
    ASSUME IInv, NEW i \in Tasks, Execute(i), NEW x, x = Outcome(i), NEW u, Executed(i, x, u)
    PROVE  Engine' /\ epoch' \in Epochs
<1>1. PICK r : r = task[i].request
  OBVIOUS
<1>2. PICK t : t = task[i]
  OBVIOUS
<1>3. PICK turned \in BOOLEAN : turned <=> Turned(x)
  OBVIOUS
<1>4. PICK past \in BOOLEAN : past <=> (turned /\ t.call.op \in {"put", "purge"})
  OBVIOUS
<1>5. x.ok \in BOOLEAN /\ epoch \in Epochs /\ RunKeeps(r, x) /\ Requested(t) /\ Suits(t.call, t.stages, 1)
  BY <1>1, <1>2 DEF Executed, RunKeeps, IInv, Shape
<1>6. /\ epoch.db \in Nat /\ epoch.stats \in Nat /\ epoch.late \in BOOLEAN /\ epoch.failed \in BOOLEAN
      /\ epoch.bypassed \in BOOLEAN
  BY <1>5 DEF Epochs
<1>7. epoch' = [epoch EXCEPT !.db = IF Turned(x) THEN @ + 1 ELSE @, !.failed = @ \/ ~x.ok,
                             !.bypassed = @ \/ (Turned(x) /\ t.call.op \in {"put", "purge"})]
  BY <1>2, ExecuteRecords
<1>8. PICK failed \in BOOLEAN : failed <=> (epoch.failed \/ ~x.ok)
  OBVIOUS
<1>9. PICK bypassed \in BOOLEAN : bypassed <=> (epoch.bypassed \/ past)
  OBVIOUS
<1>10. epoch' = [epoch EXCEPT !.db = IF turned THEN epoch.db + 1 ELSE epoch.db, !.failed = failed, !.bypassed = bypassed]
  <2>1. failed = (epoch.failed \/ ~x.ok) /\ bypassed = (epoch.bypassed \/ (Turned(x) /\ t.call.op \in {"put", "purge"}))
    BY <1>3, <1>4, <1>5, <1>6, <1>8, <1>9
  <2> QED BY <1>3, <1>7, <2>1
<1>11. PICK n \in Nat : n = IF turned THEN epoch.db + 1 ELSE epoch.db
  BY <1>6
<1>12. /\ epoch' \in Epochs /\ epoch'.db = (IF turned THEN epoch.db + 1 ELSE epoch.db) /\ epoch'.stats = epoch.stats
       /\ epoch'.late = epoch.late /\ epoch'.failed = failed /\ epoch'.bypassed = bypassed
  <2>1. epoch' = [epoch EXCEPT !.db = n, !.failed = failed, !.bypassed = bypassed]
    BY <1>10, <1>11
  <2> QED BY <1>5, <1>11, <2>1 DEF Epochs
<1>13. /\ task'[i] = u /\ u.at = "answered" /\ u.stages = t.stages /\ u.request = r /\ u.response.ok = x.ok /\ u.response.read = x.read
       /\ r.stage = t.stages[1] /\ t.at = "sent" /\ db' = x.db /\ stats' = stats
       /\ \A k \in Tasks \ {i} : task'[k] = task[k]
  BY <1>1, <1>2 DEF Executed, Becomes, Requested
<1>14. x.ok /\ r.stage.kind = "stats" => x.read[1] = [version |-> VersionOf(db), facts |-> FactsOf(db), epoch |-> epoch.db]
  BY <1>5 DEF RunKeeps
<1>15. turned => x.ok /\ r.stage.kind # "stats" /\ (Touches(r.stage) \/ r.stage.kind = "purge")
  <2>1. turned => x.ok
    BY <1>3, <1>5 DEF RunKeeps, Turned
  <2>2. turned => Touches(r.stage) \/ r.stage.kind = "purge"
    BY <1>3, <1>5 DEF RunKeeps, Turned, Touches
  <2> QED BY <2>1, <2>2 DEF Touches
<1>16. epoch.stats <= epoch.db /\ (epoch.stats = epoch.db => Current(stats))
  BY DEF IInv, Engine
<1>17. ~turned => VersionOf(db') = VersionOf(db) /\ FactsOf(db') = FactsOf(db)
  BY <1>3, <1>13 DEF Turned
<1>18. epoch'.stats <= epoch'.db /\ (epoch'.stats = epoch'.db => Current(stats)')
  <2>1. CASE turned
    BY <1>6, <1>12, <1>16, <2>1
  <2>2. CASE ~turned
    <3>1. VersionOf(db)' = VersionOf(db) /\ FactsOf(db)' = FactsOf(db)
      BY <1>17, <2>2 DEF VersionOf, FactsOf
    <3> QED BY <1>6, <1>12, <1>13, <1>16, <2>2, <3>1 DEF Current
  <2> QED BY <2>1, <2>2
<1>19. ASSUME NEW k \in Tasks PROVE LoadOf(task[k])'
  <2>1. CASE k = i
    <3>1. task'[k].at = "answered" /\ task'[k].response.ok = x.ok /\ task'[k].response.read = x.read /\ task'[k].request = r
      BY <1>13, <2>1
    <3>2. ~x.ok => epoch'.failed
      BY <1>8, <1>12
    <3>3. ASSUME x.ok, r.stage.kind = "stats"
          PROVE  x.read[1].epoch <= epoch'.db /\ x.read[1].version = VersionOf(db') /\ x.read[1].facts = FactsOf(db')
      <4>1. ~turned
        BY <1>15, <3>3
      <4>2. x.read[1].epoch = epoch.db /\ x.read[1].version = VersionOf(db) /\ x.read[1].facts = FactsOf(db)
        BY <1>14, <3>3
      <4> QED BY <1>6, <1>12, <1>17, <4>1, <4>2
    <3>4. VersionOf(db)' = VersionOf(db') /\ FactsOf(db)' = FactsOf(db')
      BY DEF VersionOf, FactsOf
    <3> QED BY <3>1, <3>2, <3>3, <3>4 DEF LoadOf, Current
  <2>2. CASE k # i
    <3>1. task'[k] = task[k] /\ LoadOf(task[k])
      BY <1>13, <2>2 DEF IInv, Engine
    <3>2. epoch.failed => epoch'.failed
      BY <1>8, <1>12
    <3>3. CASE turned
      <4>1. epoch'.db = epoch.db + 1
        BY <1>12, <3>3
      <4>2. task[k].at = "answered" /\ task[k].response.ok /\ task[k].request.stage.kind = "stats" => task[k].response.read[1].epoch \in Nat
        BY DEF IInv, Shape, TaskShape, Loads
      <4> QED BY <1>6, <3>1, <3>2, <4>1, <4>2 DEF LoadOf
    <3>4. CASE ~turned
      <4>1. VersionOf(db)' = VersionOf(db) /\ FactsOf(db)' = FactsOf(db) /\ epoch'.db = epoch.db
        BY <1>12, <1>17, <3>4 DEF VersionOf, FactsOf
      <4> QED BY <3>1, <3>2, <4>1 DEF LoadOf, Current
    <3> QED BY <3>3, <3>4
  <2> QED BY <2>1, <2>2
<1>20. epoch'.late \/ epoch'.failed \/ epoch'.bypassed \/ epoch'.stats = epoch'.db \/ \E k \in Tasks : WillLoad(task[k])'
  <2> SUFFICES ASSUME ~epoch.late, ~failed, ~bypassed, epoch'.stats # epoch'.db PROVE \E k \in Tasks : WillLoad(task[k])'
    BY <1>12
  <2>1. ~epoch.failed /\ x.ok /\ ~epoch.bypassed /\ ~past
    BY <1>8, <1>9
  <2>2. Len(t.stages) \in Nat /\ Len(t.stages) >= 1
    BY <1>5 DEF Requested, Suited
  <2>3. CASE turned
    <3>1. t.call.op \notin {"put", "purge"}
      BY <1>4, <2>1, <2>3
    <3>2. Touches(t.stages[1])
      BY <1>5, <1>13, <1>15, <2>3, <3>1 DEF Suits
    <3>3. PICK j \in 1 .. Len(t.stages) : j > 1 /\ t.stages[j].kind = "stats"
      BY <1>5, <3>1, <3>2 DEF Suits
    <3>4. j \in 2 .. Len(t.stages)
      BY <2>2, <3>3
    <3>5. WillLoad(task[i])'
      BY <1>13, <2>1, <3>3, <3>4 DEF WillLoad
    <3> QED BY <3>5
  <2>4. CASE ~turned
    <3>1. epoch'.db = epoch.db /\ epoch.stats # epoch.db
      BY <1>12, <2>4
    <3>2. PICK k \in Tasks : WillLoad(task[k])
      BY <2>1, <3>1 DEF IInv, Engine
    <3>3. CASE k # i
      <4>1. task'[k] = task[k]
        BY <1>13, <3>3
      <4>2. WillLoad(task[k])'
        BY <3>1, <3>2, <4>1 DEF WillLoad
      <4> QED BY <4>2
    <3>4. CASE k = i
      <4>1. PICK j \in 1 .. Len(t.stages) : t.stages[j].kind = "stats"
        BY <1>2, <1>13, <3>2, <3>4 DEF WillLoad
      <4>2. j = 1 \/ j \in 2 .. Len(t.stages)
        BY <2>2
      <4>3. CASE j = 1
        <5>1. x.read[1].epoch = epoch.db /\ t.stages[1].kind = "stats"
          BY <1>13, <1>14, <2>1, <4>1, <4>3
        <5>2. WillLoad(task[i])'
          BY <1>13, <2>1, <3>1, <5>1 DEF WillLoad
        <5> QED BY <5>2
      <4>4. CASE j \in 2 .. Len(t.stages)
        <5>1. WillLoad(task[i])'
          BY <1>13, <2>1, <4>1, <4>4 DEF WillLoad
        <5> QED BY <5>1
      <4> QED BY <4>2, <4>3, <4>4
    <3> QED BY <3>3, <3>4
  <2> QED BY <2>3, <2>4
<1>21. Engine'
  BY <1>18, <1>19, <1>20 DEF Engine
<1> QED BY <1>12, <1>21

\* A request keeps the shape of the state.
LEMMA ExecuteKeepsShape ==
    ASSUME IInv, NEW i \in Tasks, Execute(i), NEW x, x = Outcome(i), NEW u, Executed(i, x, u), mixed' \in BOOLEAN,
           outdated' \in BOOLEAN, epoch' \in Epochs
    PROVE  Shape'
<1>1. /\ db \in Databases /\ stats \in Memories /\ info \in Authors \cup {Nobody} /\ epoch \in Epochs
      /\ ready \in {"no", "pending", "yes", "rejected"} /\ \A k \in Tasks : TaskShape(task[k])
  BY DEF IInv, Shape
<1>2. PICK r : r = task[i].request
  OBVIOUS
<1>3. RunKeeps(r, x) /\ x.ok \in BOOLEAN /\ x.db \in Databases
  BY <1>2 DEF Executed, RunKeeps
<1>4. Requested(u)
  BY DEF Executed, Requested
<1>5. ASSUME x.ok, r.stage.kind = "stats" PROVE x.read[1] \in Loads
  <2>1. x.read[1] = [version |-> VersionOf(db), facts |-> FactsOf(db), epoch |-> epoch.db]
    BY <1>3, <1>5 DEF RunKeeps
  <2>2. VersionOf(db) \in Versions /\ FactsOf(db) \in SUBSET SchemaQuads
    BY <1>1 DEF Databases, Versions, VersionOf, FactsOf
  <2>3. epoch.db \in Nat
    BY <1>1 DEF Epochs
  <2> QED BY <2>1, <2>2, <2>3 DEF Loads
<1>6. TaskShape(u)
  <2>1. /\ HasFields(u, CallFields) /\ u.count \in Nat /\ u.changed \in Nat /\ u.at = "answered" /\ u.response.ok = x.ok
        /\ u.response.read = x.read /\ u.request = r /\ u.pending = r.prefix /\ r.prefix \in BOOLEAN
    BY <1>2, <1>4 DEF Executed, Requested
  <2> QED BY <1>3, <1>4, <1>5, <2>1 DEF TaskShape
<1>7. /\ db' = x.db /\ stats' = stats /\ info' = info /\ ready' = ready /\ task' = [k \in Tasks |-> task'[k]]
      /\ \A k \in Tasks : task'[k] = u \/ task'[k] = task[k]
  BY DEF Executed, Becomes
<1>8. \A k \in Tasks : TaskShape(task'[k])
  BY <1>1, <1>6, <1>7
<1>9. db' \in Databases /\ stats' \in Memories /\ info' \in Authors \cup {Nobody} /\ ready' \in {"no", "pending", "yes", "rejected"}
  BY <1>1, <1>3, <1>7
<1> QED BY <1>7, <1>8, <1>9 DEF Shape

\* A request that runs keeps the invariant.
LEMMA ExecuteKeeps ==
    ASSUME IInv, NEW i \in Tasks, Execute(i)
    PROVE  IInv'
<1>1. PICK x : x = Outcome(i)
  OBVIOUS
<1>2. PICK u : Executed(i, x, u)
  BY <1>1, ExecuteIs
<1>3. Counts' /\ Ticks'
  BY <1>1, <1>2, ExecuteKeepsTicks
<1>4. Blocks'
  BY <1>1, <1>2, ExecuteKeepsBlocks
<1>5. Tables'
  BY <1>2, ExecuteKeepsTables
<1>6. Logs' /\ outdated' \in BOOLEAN
  BY <1>1, <1>2, ExecuteKeepsLogs
<1>7. Engine' /\ epoch' \in Epochs
  BY <1>1, <1>2, ExecuteKeepsEngine
<1>8. mixed' \in BOOLEAN
  BY <1>1, ExecuteRecords
<1>9. Shape'
  BY <1>1, <1>2, <1>6, <1>7, <1>8, ExecuteKeepsShape
<1> QED BY <1>3, <1>4, <1>5, <1>6, <1>7, <1>9 DEF IInv

-----------------------------------------------------------------------------
(* The invariant holds at first, is kept, and says that the calls are safe. *)

\* A new store, or one whose log was started.
LEMMA InitInvariant ==
    ASSUME Init
    PROVE  IInv
<1>1. PICK l \in {Off, Log} :
        LET start == [db |-> [level |-> Off, history |-> "none", clock |-> FALSE, column |-> FALSE, ticks |-> <<>>,
                              quads |-> {}, log |-> {}, table |-> FALSE, frozen |-> 0, tables |-> FALSE],
                      state |-> [level |-> Off, history |-> "none", stamp_column |-> FALSE], ok |-> TRUE]
            up == [to |-> l, allow_loss |-> FALSE]
        IN  db = Move(Move(start, up), up).db
  BY DEF Init
<1>2. PICK d : d = [level |-> Off, history |-> "none", clock |-> FALSE, column |-> FALSE, ticks |-> <<>>,
                    quads |-> {}, log |-> {}, table |-> FALSE, frozen |-> 0, tables |-> FALSE]
  OBVIOUS
<1>3. PICK x : x = [db |-> d, state |-> [level |-> Off, history |-> "none", stamp_column |-> FALSE], ok |-> TRUE]
  OBVIOUS
<1>4. PICK up : up = [to |-> l, allow_loss |-> FALSE]
  OBVIOUS
<1>5. PICK y : y = Move(Move(x, up), up)
  OBVIOUS
<1>6. db = y.db
  BY <1>1, <1>2, <1>3, <1>4, <1>5
<1>7. d \in Databases /\ d.history = "none" /\ d.log = {} /\ d.level = Off
  <2>1. <<>> \in Seq(TickRecords)
    OBVIOUS
  <2> QED BY <1>2, <2>1 DEF Databases, Levels, Histories
<1>8. x \in Moves /\ x.db = d /\ x.state.history = "none" /\ x.state.level = Off
  BY <1>3, <1>7 DEF Moves, Versions, Levels, Histories
<1>9. up.to \in 0 .. 2 /\ up.allow_loss \in BOOLEAN /\ Plannable(x.state, up)
  BY <1>4, <1>8 DEF Off, Log, Stamped, Plannable
<1>10. MoveKeeps(x, y)
  BY <1>5, <1>8, <1>9, LevelChangeKeeps
<1>11. Even(x.db) /\ Even(x.state) /\ \A gone : LogOf(x.db, gone)
  BY <1>7, <1>8 DEF Even, LogOf, Off, Log
<1>12. db \in Databases /\ Even(db) /\ LogOf(db, {})
  BY <1>6, <1>7, <1>8, <1>10, <1>11 DEF MoveKeeps, Moves
<1>13. /\ stats = [version |-> VersionOf(db), facts |-> FactsOf(db)] /\ info = Nobody /\ ready = "no"
       /\ task = [i \in Tasks |-> Idle(Nobody)]
       /\ epoch = [db |-> 0, stats |-> 0, late |-> FALSE, failed |-> FALSE, bypassed |-> FALSE]
       /\ signed = {} /\ mixed = FALSE /\ leaked = {} /\ outdated = FALSE
  BY DEF Init
<1>14. VersionOf(db) \in Versions /\ FactsOf(db) \in SUBSET SchemaQuads
  BY <1>12 DEF Databases, Versions, VersionOf, FactsOf
<1>15. stats \in Memories /\ stats.version = VersionOf(db) /\ stats.facts = FactsOf(db)
  BY <1>13, <1>14 DEF Memories
<1>16. epoch \in Epochs /\ epoch.stats = epoch.db /\ epoch.db = 0
  BY <1>13 DEF Epochs
<1>17. PICK u : u = Idle(Nobody)
  OBVIOUS
<1>18. InOrder(u) /\ u.at = "settled" /\ u.block = Nobody
  BY <1>17, IdleInOrder
<1>19. \A i \in Tasks : task[i] = u
  BY <1>13, <1>17
<1>20. Shape
  <2>1. \A i \in Tasks : TaskShape(task[i])
    BY <1>18, <1>19 DEF InOrder
  <2>2. task = [i \in Tasks |-> task[i]]
    BY <1>13
  <2> QED BY <1>12, <1>13, <1>15, <1>16, <2>1, <2>2 DEF Shape
<1>21. Counts /\ Ticks
  BY <1>13, <1>18, <1>19 DEF InOrder, Counts, Ticks
<1>22. Blocks
  BY <1>13, <1>18, <1>19 DEF Blocks, InBlock, Busy, BlocksSignTheirWrites
<1>23. Tables
  BY <1>13, <1>18, <1>19 DEF Tables, TablesOf
<1>24. Engine
  <2>1. LoadOf(u)
    BY <1>18 DEF LoadOf
  <2> QED BY <1>15, <1>16, <1>19, <2>1 DEF Engine, Current
<1>25. Logs
  <2>1. Even(stats.version)
    BY <1>12, <1>15 DEF Even, VersionOf
  <2>2. VersionsOf(u)
    BY <1>18 DEF VersionsOf
  <2> QED BY <1>12, <1>13, <1>19, <2>1, <2>2 DEF Logs
<1> QED BY <1>20, <1>21, <1>22, <1>23, <1>24, <1>25 DEF IInv

\* Nothing that changes leaves everything as it was.
LEMMA StutterKeeps ==
    ASSUME IInv, UNCHANGED vars
    PROVE  IInv'
<1>1. /\ db' = db /\ stats' = stats /\ info' = info /\ ready' = ready /\ task' = task /\ epoch' = epoch /\ signed' = signed
      /\ shared' = shared /\ mixed' = mixed /\ leaked' = leaked /\ outdated' = outdated
  BY DEF vars, ghosts
<1>2. Shape' /\ Counts' /\ Ticks'
  BY <1>1 DEF IInv, Shape, Counts, Ticks
<1>3. Blocks'
  BY <1>1 DEF IInv, Blocks, InBlock, Busy, BlocksSignTheirWrites
<1>4. Tables'
  BY <1>1 DEF IInv, Tables, TablesOf, NeedsTables
<1>5. Engine'
  BY <1>1 DEF IInv, Engine, LoadOf, WillLoad, Current, VersionOf, FactsOf
<1>6. Logs'
  BY <1>1 DEF IInv, Logs, LogOf, HeadTick
<1> QED BY <1>2, <1>3, <1>4, <1>5, <1>6 DEF IInv

\* Every step keeps the invariant.
LEMMA NextKeeps ==
    ASSUME IInv, [Next]_vars
    PROVE  IInv'
<1>1. CASE UNCHANGED vars
  BY <1>1, StutterKeeps
<1>2. CASE Next
  <2>1. PICK i \in Tasks :
           \/ \E c \in Calls[i] : Call(i, c)
           \/ Awaited(i) \/ Execute(i) \/ Lose(i) \/ LoseResponse(i) \/ Resume(i) \/ Reject(i)
           \/ \E a \in Authors : withCommit(i, a)
           \/ endCommit(i)
    BY <1>2 DEF Next
  <2>2. CASE \E c \in Calls[i] : Call(i, c)
    BY <2>2, CallKeeps
  <2>3. CASE Awaited(i)
    BY <2>3, AwaitedKeeps
  <2>4. CASE Execute(i)
    BY <2>4, ExecuteKeeps
  <2>5. CASE Lose(i)
    BY <2>5, LoseKeeps
  <2>6. CASE LoseResponse(i)
    BY <2>6, LoseResponseKeeps
  <2>7. CASE Resume(i)
    BY <2>7, ResumeKeeps
  <2>8. CASE Reject(i)
    BY <2>8, RejectKeeps
  <2>9. CASE \E a \in Authors : withCommit(i, a)
    BY <2>9, WithCommitKeeps
  <2>10. CASE endCommit(i)
    BY <2>10, EndCommitKeeps
  <2> QED BY <2>1, <2>2, <2>3, <2>4, <2>5, <2>6, <2>7, <2>8, <2>9, <2>10
<1> QED BY <1>1, <1>2

\* The invariant says that the calls that cross one another are safe.
LEMMA InvariantIsSafe ==
    ASSUME IInv
    PROVE  CrossingCallsAreSafe
<1>1. TypeOK
  <2>1. /\ db.quads \subseteq Quads /\ db.level \in {Off, Stamped, Log} /\ db.history \in {"none", "live", "frozen"}
        /\ \A e \in db.log : e.q \in Quads /\ e.t \in Nat /\ e.add \in BOOLEAN
    BY DEF IInv, Shape, Databases, Levels, Histories, Entries
  <2>2. stats.version.level \in {Off, Stamped, Log} /\ stats.facts \subseteq SchemaQuads
    BY DEF IInv, Shape, Memories, Versions, Levels
  <2>3. \A i \in Tasks : task[i].at \in {"awaiting", "sent", "answered", "settled"}
    BY DEF IInv, Shape, TaskShape
  <2> QED BY <2>1, <2>2, <2>3 DEF TypeOK, IInv, Shape
<1>2. CountsAreTrue
  BY DEF IInv, Counts, CountOf, CountsAreTrue
<1>3. LogIsTheStore
  <2> SUFFICES ASSUME ~outdated
               PROVE  /\ \A e \in db.log : e.t \in 1 .. HeadTick(db)
                      /\ db.history = "live" => StateAt(db, HeadTick(db)) \ leaked = db.quads \ leaked
    BY DEF LogIsTheStore
  <2>1. LogOf(db, leaked) /\ db \in Databases
    BY DEF IInv, Logs, Shape
  <2>2. ASSUME db.history = "live" PROVE StateAt(db, HeadTick(db)) \ leaked = db.quads \ leaked
    <3>1. \A q \in Quads \ leaked : Holds(db.log, q, HeadTick(db)) <=> q \in db.quads
      BY <2>1, <2>2 DEF LogOf
    <3>2. \A q \in Quads \ leaked : q \in StateAt(db, HeadTick(db)) <=> q \in db.quads
      BY <3>1, StateIsHolds
    <3>3. StateAt(db, HeadTick(db)) \subseteq Quads /\ db.quads \subseteq Quads
      BY <2>1 DEF StateAt, Databases
    <3> QED BY <3>2, <3>3
  <2> QED BY <2>1, <2>2 DEF LogOf
<1>4. WritesOpenTheirTick
  BY DEF IInv, Ticks, WritesOpenTheirTick
<1>5. EngineIsCurrent
  <2> SUFFICES ASSUME \A i \in Tasks : task[i].at = "settled", ~epoch.late, ~epoch.failed, ~epoch.bypassed
               PROVE  stats = [version |-> VersionOf(db), facts |-> FactsOf(db)]
    BY DEF EngineIsCurrent
  <2>1. \A i \in Tasks : ~WillLoad(task[i])
    BY NoLoad
  <2>2. Current(stats)
    BY <2>1 DEF IInv, Engine
  <2>3. stats = [version |-> stats.version, facts |-> stats.facts]
    BY DEF IInv, Shape, Memories
  <2> QED BY <2>2, <2>3 DEF Current
<1>6. BlocksSignTheirWrites
  BY DEF IInv, Blocks
<1>7. TablesComeFirst
  BY DEF IInv, Tables, TablesOf, TablesComeFirst
<1> QED BY <1>1, <1>2, <1>3, <1>4, <1>5, <1>6, <1>7 DEF CrossingCallsAreSafe

\* Whatever the tasks, their calls and the failures, the calls of one isolate
\* that cross one another at every await report their own changes, keep the
\* log and the engine's memory with the store, open a tick for a versioned
\* write under its block's author and find their tables made (D1Store.run,
\* Engine::reloading, Job::step, set_versioning, withCommit, jsonldCall).
THEOREM CallsCrossSafely == Spec => []CrossingCallsAreSafe
<1>1. Init => IInv
  BY InitInvariant
<1>2. IInv /\ [Next]_vars => IInv'
  BY NextKeeps
<1>3. IInv => CrossingCallsAreSafe
  BY InvariantIsSafe
<1> QED BY <1>1, <1>2, <1>3, PTL DEF Spec
=============================================================================
