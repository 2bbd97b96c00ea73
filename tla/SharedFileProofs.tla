-------------------------- MODULE SharedFileProofs --------------------------
(***************************************************************************)
(* Proofs about SharedFile, for every set of handles, of quads and of      *)
(* options, and every bound on the calls.                                  *)
(***************************************************************************)
EXTENDS SharedFile, TLAPS

\* The values of the fields, named.
Levels == {Off, Stamped, Log}
Files  == [closure : {"none", "old", "scoped"}, legacy : BOOLEAN, quads : SUBSET Quads,
           meta : VersionState, ticks : BOOLEAN, column : BOOLEAN, log : BOOLEAN,
           triggers : BOOLEAN, logged : SUBSET Quads, frozen : SUBSET Quads]
Plans  == [db : Files, state : VersionState, ok : BOOLEAN]
Phases == Opening \cup {"closed", "open", "loading"}

\* What oxilite_meta says of the file is true, a log that is not there or not
\* written to holds what it should, and a live one holds the store.
Consistent(d) ==
    /\ d.meta.stamp_column = d.column
    /\ d.meta.level >= Stamped => d.ticks /\ d.column
    /\ d.meta.history # "none" => d.log /\ d.ticks
    /\ d.triggers = (d.meta.level = Log)
    /\ d.log = (d.meta.history # "none")
    /\ d.meta.level = Log <=> d.meta.history = "live"
    /\ d.meta.history = "none" => d.logged = {}
    /\ d.meta.history = "frozen" => d.logged = d.frozen
    /\ d.meta.level = Log => d.logged = d.quads

\* So it is as long as no change was executed from an outdated state.
ConsistentInv == ~stale => Consistent(db)

\* A handle past its migration has a migrated store, whoever migrated it.
Past == {"Stats", "Empty", "Upgrade", "Reload", "Bootstrap", "Final", "open", "loading"}

\* The version 1 tables go together, and no registration with them.
MigrationInv ==
    /\ db.legacy <=> db.closure = "old"
    /\ db.closure = "none" => registered = {}
    /\ db.closure = "scoped" => registered \ removed \subseteq db.quads
    /\ \A h \in Handles :
          /\ phase[h] \notin {"closed", "Start"} => db.closure # "none"
          /\ phase[h] \in Past => db.closure = "scoped"
          /\ phase[h] = "Migrate" => entries[h] = registered
          /\ entries[h] \subseteq registered

\* A handle that decided not to install the system graphs saw them.
SystemInv ==
    ~wrote /\ registered = {} =>
        /\ db.quads # {} => SystemQuads \subseteq db.quads
        /\ \A h \in Handles :
              /\ phase[h] \in {"Legacy", "Migrate", "Stats", "Empty", "Upgrade", "Reload"} =>
                    blank[h] \/ SystemQuads \subseteq db.quads
              /\ phase[h] \in {"Final", "open", "loading"} /\ options[h].system_graphs =>
                    SystemQuads \subseteq db.quads

\* An opening that no other handle crossed knows the file as it is.
AloneInv ==
    /\ ~failed
    /\ \A h \in Handles : ~met[h] =>
          /\ phase[h] = "Legacy" => db.legacy
          /\ phase[h] \in {"Empty", "Upgrade"} => version[h] = db.meta

-----------------------------------------------------------------------------
(***************************************************************************)
(* Level changes.                                                          *)
(***************************************************************************)
\* What y has of the plan x that no move changes.
Kept(x, y) ==
    /\ y \in Plans
    /\ y.db.quads = x.db.quads /\ y.db.closure = x.db.closure /\ y.db.legacy = x.db.legacy
    /\ x.state = x.db.meta => y.state = y.db.meta

\* The fields of the file after each kind of move.
ClockStarted(x, y) ==
    /\ Kept(x, y)
    /\ y.db.meta.level = Stamped /\ y.db.meta.stamp_column = TRUE
    /\ y.db.meta.history = x.db.meta.history
    /\ y.db.ticks = TRUE /\ y.db.column = TRUE
    /\ y.db.log = x.db.log /\ y.db.triggers = x.db.triggers
    /\ y.db.logged = x.db.logged /\ y.db.frozen = x.db.frozen
    /\ y.ok = (x.ok /\ (~x.state.stamp_column => ~x.db.column))

\* What StartLog does to a plan.
LogStarted(x, y) ==
    /\ Kept(x, y)
    /\ y.db.meta.level = Log /\ y.db.meta.history = "live"
    /\ y.db.meta.stamp_column = x.db.meta.stamp_column
    /\ y.db.ticks = x.db.ticks /\ y.db.column = x.db.column
    /\ y.db.log = TRUE /\ y.db.triggers = TRUE
    /\ y.db.logged = IF x.state.history = "frozen"
                     THEN (x.db.logged \ (x.db.frozen \ x.db.quads)) \cup (x.db.quads \ x.db.frozen)
                     ELSE x.db.logged \cup x.db.quads
    /\ y.ok = (x.ok /\ x.db.ticks)

\* What StopLog does to a plan.
LogStopped(x, y, loss) ==
    /\ Kept(x, y)
    /\ y.db.meta.level = Stamped /\ y.db.meta.history = (IF loss THEN "none" ELSE "frozen")
    /\ y.db.meta.stamp_column = x.db.meta.stamp_column
    /\ y.db.ticks = x.db.ticks /\ y.db.column = x.db.column
    /\ y.db.log = (x.db.log /\ ~loss) /\ y.db.triggers = FALSE
    /\ y.db.logged = (IF loss THEN {} ELSE x.db.logged)
    /\ y.db.frozen = (IF loss THEN {} ELSE x.db.logged)
    /\ y.ok = (x.ok /\ x.db.ticks)

\* What StopClock does to a plan.
ClockStopped(x, y, loss) ==
    /\ Kept(x, y)
    /\ y.db.meta.level = Off /\ y.db.meta.history = x.db.meta.history
    /\ y.db.meta.stamp_column = (x.db.meta.stamp_column /\ ~loss)
    /\ y.db.ticks = (x.db.ticks /\ ~loss) /\ y.db.column = (x.db.column /\ ~loss)
    /\ y.db.log = x.db.log /\ y.db.triggers = x.db.triggers
    /\ y.db.logged = x.db.logged /\ y.db.frozen = x.db.frozen
    /\ y.ok = (x.ok /\ (IF loss THEN x.db.column ELSE x.db.ticks))

\* The moves do that.
LEMMA ClockStarts ==
    ASSUME NEW x \in Plans
    PROVE  ClockStarted(x, StartClock(x))
  BY DEF StartClock, ClockStarted, Kept, Plans, Files, VersionState, Off, Stamped, Log

\* The log starts with the store, or with its difference to the freeze.
LEMMA LogStarts ==
    ASSUME NEW x \in Plans
    PROVE  LogStarted(x, StartLog(x))
  <1> USE DEF Off, Stamped, Log
  <1> DEFINE l == IF x.state.history = "frozen"
                  THEN (x.db.logged \ (x.db.frozen \ x.db.quads)) \cup (x.db.quads \ x.db.frozen)
                  ELSE x.db.logged \cup x.db.quads
             m == [x.db.meta EXCEPT !.level = Log, !.history = "live"]
             d == [x.db EXCEPT !.log = TRUE, !.triggers = TRUE, !.logged = l, !.meta = m]
  <1>1. x.db \in Files /\ x.db.meta \in VersionState /\ x.state \in VersionState /\ x.ok \in BOOLEAN
    BY DEF Plans, Files
  <1>2. l \in SUBSET Quads
    BY <1>1 DEF Files
  <1>3. /\ m \in VersionState /\ m.level = Log /\ m.history = "live"
        /\ m.stamp_column = x.db.meta.stamp_column
        /\ x.state = x.db.meta => [x.state EXCEPT !.level = Log, !.history = "live"] = m
    BY <1>1 DEF VersionState
  <1>4. StartLog(x).db = d
    BY <1>1 DEF StartLog, Files, VersionState
  <1> HIDE DEF l, m
  <1>5. /\ d \in Files
        /\ d.log /\ d.triggers /\ d.logged = l /\ d.ticks = x.db.ticks /\ d.column = x.db.column
        /\ d.quads = x.db.quads /\ d.closure = x.db.closure /\ d.legacy = x.db.legacy /\ d.meta = m
    BY <1>1, <1>2, <1>3 DEF Files
  <1> HIDE DEF d
  <1>6. Kept(x, StartLog(x))
    <2> DEFINE st == [x.state EXCEPT !.level = Log, !.history = "live"]
    <2>1. st \in VersionState
      BY <1>1 DEF VersionState
    <2>2. x.db.ticks \in BOOLEAN
      BY <1>1 DEF Files
    <2>3. StartLog(x) = [db |-> d, state |-> st, ok |-> x.ok /\ x.db.ticks]
      BY <1>4 DEF StartLog
    <2> HIDE DEF st
    <2>4. StartLog(x) \in Plans /\ StartLog(x).state = st
      BY <1>1, <1>5, <2>1, <2>2, <2>3 DEF Plans
    <2>5. x.state = x.db.meta => st = m
      BY <1>3 DEF st
    <2>6. QED  BY <1>4, <1>5, <2>4, <2>5 DEF Kept
  <1>7. StartLog(x).ok = (x.ok /\ x.db.ticks)
    BY DEF StartLog
  <1>8. QED  BY <1>3, <1>4, <1>5, <1>6, <1>7 DEF LogStarted, l

\* The log stops frozen, or goes.
LEMMA LogStops ==
    ASSUME NEW x \in Plans, NEW loss \in BOOLEAN
    PROVE  LogStopped(x, StopLog(x, loss), loss)
  <1> USE DEF Off, Stamped, Log
  <1>1. CASE loss
    BY <1>1 DEF StopLog, LogStopped, Kept, Plans, Files, VersionState
  <1>2. CASE ~loss
    BY <1>2 DEF StopLog, LogStopped, Kept, Plans, Files, VersionState
  <1>3. QED  BY <1>1, <1>2

\* The clock stops with its columns, or without.
LEMMA ClockStops ==
    ASSUME NEW x \in Plans, NEW loss \in BOOLEAN
    PROVE  ClockStopped(x, StopClock(x, loss), loss)
  <1> USE DEF Off, Stamped, Log
  <1>1. CASE loss
    BY <1>1 DEF StopClock, ClockStopped, Kept, Plans, Files, VersionState
  <1>2. CASE ~loss
    BY <1>2 DEF StopClock, ClockStopped, Kept, Plans, Files, VersionState
  <1>3. QED  BY <1>1, <1>2

\* A level change leaves the quads and the schema alone.
LEMMA MoveKeeps ==
    ASSUME NEW x \in Plans, NEW to \in Levels, NEW loss \in BOOLEAN
    PROVE  Kept(x, Move(x, to, loss))
  <1>1. Kept(x, x)
    BY DEF Kept
  <1>2. QED
    BY <1>1, ClockStarts, LogStarts, LogStops, ClockStops
       DEF Move, ClockStarted, LogStarted, LogStopped, ClockStopped

\* A move planned from what the file is works and leaves it consistent.
LEMMA MoveConsistent ==
    ASSUME NEW x \in Plans, NEW to \in Levels, NEW loss \in BOOLEAN,
           Consistent(x.db), x.state = x.db.meta, ~RefusesChange(x.state, to, loss),
           NEW y, y = Move(x, to, loss)
    PROVE  Consistent(y.db) /\ y.ok = x.ok /\ ~RefusesChange(y.state, to, loss)
  <1> USE DEF Off, Stamped, Log
  <1>0. x.db \in Files /\ x.db.meta \in VersionState /\ x.ok \in BOOLEAN
    BY DEF Plans, Files
  <1>1. x.state.level \in {0, 1, 2} /\ to \in {0, 1, 2}
    BY <1>0 DEF VersionState, Levels
  <1>2. Kept(x, y)
    BY MoveKeeps
  <1>3. y.state = y.db.meta /\ y.db \in Files /\ y.ok \in BOOLEAN
    BY <1>2 DEF Kept, Plans
  <1>4. CASE x.state.level < to /\ x.state.level = 0
    <2>1. ClockStarted(x, y)
      BY <1>4, ClockStarts DEF Move
    <2>2. QED  BY <1>0, <1>1, <1>3, <1>4, <2>1
               DEF ClockStarted, Consistent, Kept, Files, VersionState, RefusesChange
  <1>5. CASE x.state.level < to /\ x.state.level # 0
    <2>1. LogStarted(x, y)
      BY <1>5, LogStarts DEF Move
    <2>2. y.db.logged = y.db.quads
      <3>1. x.state.history = "none" \/ x.state.history = "frozen"
        BY <1>0, <1>1, <1>5 DEF Consistent, VersionState
      <3>2. CASE x.state.history = "none"
        BY <2>1, <3>2 DEF LogStarted, Kept, Consistent
      <3>3. CASE x.state.history = "frozen"
        BY <2>1, <3>3 DEF LogStarted, Kept, Consistent
      <3>4. QED  BY <3>1, <3>2, <3>3
    <2>3. QED  BY <1>0, <1>1, <1>3, <1>5, <2>1, <2>2
               DEF LogStarted, Consistent, Kept, Files, VersionState, RefusesChange
  <1>6. CASE x.state.level > to /\ x.state.level = 2
    <2>1. LogStopped(x, y, loss)
      BY <1>1, <1>6, LogStops DEF Move
    <2>2. QED  BY <1>0, <1>1, <1>3, <1>6, <2>1
               DEF LogStopped, Consistent, Kept, Files, VersionState, RefusesChange
  <1>7. CASE x.state.level > to /\ x.state.level # 2
    <2>1. ClockStopped(x, y, loss)
      BY <1>1, <1>7, ClockStops DEF Move
    <2>2. QED  BY <1>0, <1>1, <1>3, <1>7, <2>1
               DEF ClockStopped, Consistent, Kept, Files, VersionState, RefusesChange
  <1>8. CASE x.state.level = to
    BY <1>1, <1>8 DEF Move
  <1>9. QED  BY <1>1, <1>4, <1>5, <1>6, <1>7, <1>8

\* The two moves of a level change.
LEMMA ChangedFile ==
    ASSUME db \in Files, NEW state \in VersionState, NEW to \in Levels, NEW loss \in BOOLEAN,
           NEW z, z = Changed(state, to, loss)
    PROVE  /\ z \in Plans
           /\ z.db.quads = db.quads /\ z.db.closure = db.closure /\ z.db.legacy = db.legacy
           /\ Consistent(db) /\ state = db.meta /\ ~RefusesChange(state, to, loss) =>
                 Consistent(z.db) /\ z.ok
  <1> DEFINE x == [db |-> db, state |-> state, ok |-> TRUE]
             y == Move(x, to, loss)
  <1>1. x \in Plans /\ x.db = db /\ x.state = state /\ x.ok = TRUE
    BY DEF Plans
  <1> HIDE DEF x
  <1>2. Kept(x, y) /\ y \in Plans
    BY <1>1, MoveKeeps DEF Kept
  <1>3. z = Move(y, to, loss)
    BY DEF Changed, x
  <1>4. ASSUME Consistent(db), state = db.meta, ~RefusesChange(state, to, loss)
        PROVE  /\ Consistent(y.db) /\ y.ok = x.ok /\ ~RefusesChange(y.state, to, loss)
               /\ y.state = y.db.meta
    <2>1. Consistent(y.db) /\ y.ok = x.ok /\ ~RefusesChange(y.state, to, loss)
      BY <1>1, <1>4, MoveConsistent
    <2>2. QED  BY <1>1, <1>2, <1>4, <2>1 DEF Kept
  <1> HIDE DEF y
  <1>5. Kept(y, z) /\ z \in Plans
    BY <1>2, <1>3, MoveKeeps DEF Kept
  <1>6. ASSUME Consistent(db), state = db.meta, ~RefusesChange(state, to, loss)
        PROVE  Consistent(z.db) /\ z.ok
    <2>1. Consistent(z.db) /\ z.ok = y.ok
      BY <1>2, <1>3, <1>4, <1>6, MoveConsistent
    <2>2. QED  BY <1>1, <1>4, <1>6, <2>1
  <1>7. QED  BY <1>1, <1>2, <1>5, <1>6 DEF Kept

-----------------------------------------------------------------------------
(***************************************************************************)
(* Writes.                                                                 *)
(***************************************************************************)
\* A write changes the quads and, through the triggers, the log.
LEMMA InsertedFile ==
    ASSUME NEW d \in Files, NEW rows \in SUBSET Quads, NEW e, e = Inserted(d, rows)
    PROVE  /\ e \in Files /\ e.quads = d.quads \cup rows
           /\ e.closure = d.closure /\ e.legacy = d.legacy /\ e.meta = d.meta
           /\ Consistent(d) => Consistent(e)
  <1>1. /\ e \in Files /\ e.quads = d.quads \cup rows
        /\ e.closure = d.closure /\ e.legacy = d.legacy /\ e.meta = d.meta
        /\ e.ticks = d.ticks /\ e.column = d.column /\ e.log = d.log /\ e.triggers = d.triggers
        /\ e.frozen = d.frozen /\ e.logged = IF d.triggers THEN d.logged \cup rows ELSE d.logged
    BY DEF Inserted, Files
  <1>2. QED  BY <1>1 DEF Consistent, Off, Stamped, Log, Files, VersionState

\* So does a removal.
LEMMA DeletedFile ==
    ASSUME NEW d \in Files, NEW rows \in SUBSET Quads, NEW e, e = Deleted(d, rows)
    PROVE  /\ e \in Files /\ e.quads = d.quads \ rows
           /\ e.closure = d.closure /\ e.legacy = d.legacy /\ e.meta = d.meta
           /\ Consistent(d) => Consistent(e)
  <1>1. /\ e \in Files /\ e.quads = d.quads \ rows
        /\ e.closure = d.closure /\ e.legacy = d.legacy /\ e.meta = d.meta
        /\ e.ticks = d.ticks /\ e.column = d.column /\ e.log = d.log /\ e.triggers = d.triggers
        /\ e.frozen = d.frozen /\ e.logged = IF d.triggers THEN d.logged \ rows ELSE d.logged
    BY DEF Deleted, Files
  <1>2. QED  BY <1>1 DEF Consistent, Off, Stamped, Log, Files, VersionState

\* The schema of a file changes nothing else.
WithSchema(d, c, l) == [d EXCEPT !.closure = c, !.legacy = l]

\* A new schema leaves the content and the versioning entries.
LEMMA SchemaFile ==
    ASSUME NEW d \in Files, NEW c \in {"none", "old", "scoped"}, NEW l \in BOOLEAN,
           NEW e, e = WithSchema(d, c, l)
    PROVE  /\ e \in Files /\ e.quads = d.quads /\ e.closure = c /\ e.legacy = l /\ e.meta = d.meta
           /\ Consistent(d) => Consistent(e)
  <1>1. /\ e \in Files /\ e.quads = d.quads /\ e.closure = c /\ e.legacy = l /\ e.meta = d.meta
        /\ e.ticks = d.ticks /\ e.column = d.column /\ e.log = d.log /\ e.triggers = d.triggers
        /\ e.frozen = d.frozen /\ e.logged = d.logged
    BY DEF Files, WithSchema
  <1>2. QED  BY <1>1 DEF Consistent

\* A consistent file takes the raw writes of an opening.
LEMMA ConsistentWritable ==
    ASSUME db \in Files, Consistent(db)
    PROVE  Writable(Off)
  BY DEF Consistent, Writable, Off, Stamped, Log, Files, VersionState
-----------------------------------------------------------------------------
(***************************************************************************)
(* Types and consistency.                                                  *)
(***************************************************************************)
\* The steps that change the file, and how.
LEMMA FileMoves ==
    ASSUME TypeOK, NEW h \in Handles,
           \/ CreateSchema(h) \/ Migrate(h) \/ Upgrade(h) \/ Bootstrap(h)
           \/ \E q \in Quads : Insert(h, {q}) \/ Remove(h, {q})
           \/ \E to \in Levels, loss \in BOOLEAN : SetVersioning(h, to, loss)
    PROVE  /\ db' \in Files
           /\ ~stale' /\ ConsistentInv => Consistent(db')
  <1>0. /\ db \in Files /\ version[h] \in VersionState /\ options[h].versioning \in Levels
        /\ entries[h] \in SUBSET Quads /\ stale \in BOOLEAN
    BY DEF TypeOK, Files, StoreOptions, Quads, Levels
  <1>1. CASE CreateSchema(h)
    <2>1. db.closure \in {"none", "old", "scoped"} /\ db.legacy \in BOOLEAN /\ stale' = stale
      BY <1>0, <1>1 DEF CreateSchema, Files
    <2>2. PICK c \in {"none", "old", "scoped"}, l \in BOOLEAN : db' = WithSchema(db, c, l)
      BY <1>0, <1>1, <2>1 DEF CreateSchema, Files, WithSchema
    <2>3. db' \in Files /\ (Consistent(db) => Consistent(db'))
      BY <1>0, <2>1, <2>2, SchemaFile
    <2>4. QED  BY <2>1, <2>3 DEF ConsistentInv
  <1>2. CASE Migrate(h)
    <2> DEFINE e == Inserted(db, entries[h])
    <2>1. e \in Files /\ (Consistent(db) => Consistent(e))
      BY <1>0, InsertedFile
    <2>2. db' = WithSchema(e, "scoped", FALSE) /\ stale' = stale
      BY <1>2 DEF Migrate, WithSchema
    <2> HIDE DEF e
    <2>3. db' \in Files /\ (Consistent(e) => Consistent(db'))
      BY <2>1, <2>2, SchemaFile
    <2>4. QED  BY <2>1, <2>2, <2>3 DEF ConsistentInv
  <1>3. CASE Upgrade(h)
    <2>1. /\ db' = Changed(version[h], options[h].versioning, FALSE).db
          /\ stale' = (stale \/ version[h] # db.meta)
      BY <1>3 DEF Upgrade, UpgradeOf
    <2>2. ~RefusesChange(version[h], options[h].versioning, FALSE)
      BY DEF RefusesChange
    <2> DEFINE z == Changed(version[h], options[h].versioning, FALSE)
    <2>3. /\ z \in Plans
          /\ Consistent(db) /\ version[h] = db.meta => Consistent(z.db)
      BY <1>0, <2>2, ChangedFile
    <2> HIDE DEF z
    <2>4. db' = z.db /\ db' \in Files
      BY <2>1, <2>3 DEF Plans, z
    <2>5. QED  BY <2>1, <2>3, <2>4 DEF ConsistentInv
  <1>4. CASE Bootstrap(h)
    <2>1. db' = Inserted(db, SystemQuads) /\ stale' = stale /\ SystemQuads \in SUBSET Quads
      BY <1>4 DEF Bootstrap, Quads
    <2>2. QED  BY <1>0, <2>1, InsertedFile DEF ConsistentInv
  <1>5. ASSUME NEW q \in Quads, Insert(h, {q})
        PROVE  db' \in Files /\ (~stale' /\ ConsistentInv => Consistent(db'))
    <2>1. db' = Inserted(db, {q}) /\ stale' = stale /\ {q} \in SUBSET Quads
      BY <1>5 DEF Insert
    <2>2. QED  BY <1>0, <2>1, InsertedFile DEF ConsistentInv
  <1>6. ASSUME NEW q \in Quads, Remove(h, {q})
        PROVE  db' \in Files /\ (~stale' /\ ConsistentInv => Consistent(db'))
    <2>1. db' = Deleted(db, {q}) /\ stale' = stale /\ {q} \in SUBSET Quads
      BY <1>6 DEF Remove
    <2>2. QED  BY <1>0, <2>1, DeletedFile DEF ConsistentInv
  <1>7. ASSUME NEW to \in Levels, NEW loss \in BOOLEAN, SetVersioning(h, to, loss)
        PROVE  db' \in Files /\ (~stale' /\ ConsistentInv => Consistent(db'))
    <2>1. /\ db' = Changed(version[h], to, loss).db /\ ~RefusesChange(version[h], to, loss)
          /\ stale' = (stale \/ version[h] # db.meta)
      BY <1>7 DEF SetVersioning
    <2> DEFINE z == Changed(version[h], to, loss)
    <2>2. /\ z \in Plans
          /\ Consistent(db) /\ version[h] = db.meta => Consistent(z.db)
      BY <1>0, <2>1, ChangedFile
    <2> HIDE DEF z
    <2>3. db' = z.db /\ db' \in Files
      BY <2>1, <2>2 DEF Plans, z
    <2>4. QED  BY <2>1, <2>2, <2>3 DEF ConsistentInv
  <1>8. QED  BY <1>1, <1>2, <1>3, <1>4, <1>5, <1>6, <1>7

\* The other steps, which read it at most.
Reads(h) ==
    \/ \E o \in Options : Open(h, o)
    \/ Inspect(h) \/ ReadLegacy(h) \/ LoadStats(h) \/ CheckEmpty(h) \/ RefuseOpen(h) \/ Reload(h)
    \/ RequestFails(h) \/ LoadFinal(h) \/ LoadVersion(h) \/ Optimize(h) \/ Exit(h)

\* They leave the file and what users wrote alone.
LEMMA ReadsKeepTheFile ==
    ASSUME NEW h \in Handles, Reads(h)
    PROVE  db' = db /\ stale' = stale /\ UNCHANGED <<calls, registered, wrote, removed>>
  BY DEF Reads, Open, Inspect, ReadLegacy, LoadStats, CheckEmpty, RefuseOpen, Reload, RequestFails,
         LoadFinal, LoadVersion, Optimize, Exit, Close, Finish, ghosts

\* Every step keeps what oxilite_meta says true.
LEMMA ConsistentStep ==
    ASSUME TypeOK, ConsistentInv, [Next]_vars
    PROVE  ConsistentInv'
  <1>1. ASSUME NEW h \in Handles, Reads(h)
        PROVE  ConsistentInv'
    BY <1>1, ReadsKeepTheFile DEF ConsistentInv, Consistent
  <1>2. ASSUME NEW h \in Handles,
               \/ CreateSchema(h) \/ Migrate(h) \/ Upgrade(h) \/ Bootstrap(h)
               \/ \E q \in Quads : Insert(h, {q}) \/ Remove(h, {q})
               \/ \E to \in Levels, loss \in BOOLEAN : SetVersioning(h, to, loss)
        PROVE  ConsistentInv'
    <2>1. ~stale' => Consistent(db')
      BY <1>2, FileMoves
    <2>2. QED  BY <2>1 DEF ConsistentInv, Consistent
  <1>3. CASE UNCHANGED vars
    BY <1>3 DEF ConsistentInv, Consistent, vars, ghosts
  <1>4. QED  BY <1>1, <1>2, <1>3 DEF Next, OpenStep, Reads, Levels

\* Every step keeps the types.
LEMMA TypeStep ==
    ASSUME TypeOK, [Next]_vars
    PROVE  TypeOK'
  <1> DEFINE Rest == /\ phase' \in [Handles -> Phases]
                     /\ options' \in [Handles -> StoreOptions]
                     /\ blank' \in [Handles -> BOOLEAN]
                     /\ entries' \in [Handles -> SUBSET Registrations]
                     /\ version' \in [Handles -> VersionState]
                     /\ calls' \in 0..MaxCalls
                     /\ registered' \in SUBSET Registrations
                     /\ wrote' \in BOOLEAN /\ removed' \in SUBSET Quads /\ stale' \in BOOLEAN
                     /\ met' \in [Handles -> BOOLEAN] /\ failed' \in BOOLEAN
  <1>0. /\ phase \in [Handles -> Phases]
        /\ options \in [Handles -> StoreOptions] /\ blank \in [Handles -> BOOLEAN]
        /\ entries \in [Handles -> SUBSET Registrations] /\ version \in [Handles -> VersionState]
        /\ calls \in 0..MaxCalls /\ registered \in SUBSET Registrations
        /\ wrote \in BOOLEAN /\ removed \in SUBSET Quads /\ stale \in BOOLEAN
        /\ met \in [Handles -> BOOLEAN] /\ failed \in BOOLEAN
        /\ db \in Files /\ db.meta \in VersionState
    BY DEF TypeOK, Phases, Files
  <1>1. NoOptions \in StoreOptions /\ NoVersion \in VersionState
    BY DEF NoOptions, NoVersion, StoreOptions, VersionState
  <1>2. ASSUME db' \in Files, Rest
        PROVE  TypeOK'
    BY <1>2 DEF TypeOK, Files, Phases
  <1>3. ASSUME NEW h \in Handles, Meet(h) PROVE met' \in [Handles -> BOOLEAN]
    BY <1>3 DEF Meet
  <1>4. ASSUME NEW h \in Handles, NEW p \in Phases, Goto(h, p) PROVE phase' \in [Handles -> Phases]
    BY <1>0, <1>4 DEF Goto
  <1>5. ASSUME NEW h \in Handles, Close(h), stale' = stale, failed' \in BOOLEAN
        PROVE  TypeOK'
    <2>1. phase' \in [Handles -> Phases]
      BY <1>4, <1>5 DEF Close, Phases
    <2>2. /\ options' \in [Handles -> StoreOptions] /\ blank' \in [Handles -> BOOLEAN]
          /\ entries' \in [Handles -> SUBSET Registrations] /\ version' \in [Handles -> VersionState]
      BY <1>0, <1>1, <1>5 DEF Close
    <2>3. met' \in [Handles -> BOOLEAN]
      BY <1>5 DEF Close
    <2>4. QED  BY <1>0, <1>2, <1>5, <2>1, <2>2, <2>3 DEF Close
  <1>6. ASSUME NEW h \in Handles, Opened(h)
        PROVE  /\ phase' \in [Handles -> Phases] /\ blank' \in [Handles -> BOOLEAN]
               /\ entries' \in [Handles -> SUBSET Registrations] /\ met' \in [Handles -> BOOLEAN]
    <2>1. phase' \in [Handles -> Phases]
      BY <1>4, <1>6 DEF Opened, Phases
    <2>2. blank' \in [Handles -> BOOLEAN] /\ entries' \in [Handles -> SUBSET Registrations]
      BY <1>0, <1>6 DEF Opened
    <2>3. met' \in [Handles -> BOOLEAN]
      BY <1>6 DEF Opened
    <2>4. QED  BY <2>1, <2>2, <2>3
  <1>7. ASSUME NEW h \in Handles, Finish(h)
        PROVE  /\ phase' \in [Handles -> Phases] /\ blank' \in [Handles -> BOOLEAN]
               /\ entries' \in [Handles -> SUBSET Registrations] /\ met' \in [Handles -> BOOLEAN]
    BY <1>0, <1>3, <1>4, <1>6, <1>7 DEF Finish, Phases, Opening
  <1>8. ASSUME NEW h \in Handles, version' = [version EXCEPT ![h] = db.meta]
        PROVE  version' \in [Handles -> VersionState]
    BY <1>0, <1>8
  <1>9. ASSUME NEW h \in Handles, NEW o \in Options, Open(h, o)
        PROVE  TypeOK'
    <2>1. phase' \in [Handles -> Phases] /\ options' \in [Handles -> StoreOptions]
      BY <1>0, <1>4, <1>9, ConstantsAssumption DEF Open, Phases, Opening
    <2>2. QED  BY <1>0, <1>2, <1>9, <2>1 DEF Open, ghosts
  <1>10. ASSUME NEW h \in Handles, Inspect(h)
         PROVE  TypeOK'
    <2>1. phase' \in [Handles -> Phases]
      BY <1>4, <1>10 DEF Inspect, Phases, Opening
    <2>2. met' \in [Handles -> BOOLEAN] /\ blank' \in [Handles -> BOOLEAN]
      BY <1>0, <1>3, <1>10 DEF Inspect
    <2>3. QED  BY <1>0, <1>2, <1>10, <2>1, <2>2 DEF Inspect
  <1>11. ASSUME NEW h \in Handles, ReadLegacy(h)
         PROVE  TypeOK'
    <2>1. phase' \in [Handles -> Phases]
      BY <1>4, <1>11 DEF ReadLegacy, Phases, Opening
    <2>2. met' \in [Handles -> BOOLEAN] /\ entries' \in [Handles -> SUBSET Registrations]
      BY <1>0, <1>3, <1>11 DEF ReadLegacy
    <2>3. QED  BY <1>0, <1>2, <1>11, <2>1, <2>2 DEF ReadLegacy
  <1>12. ASSUME NEW h \in Handles, LoadStats(h)
         PROVE  TypeOK'
    <2>1. /\ phase' \in [Handles -> Phases] /\ blank' \in [Handles -> BOOLEAN]
          /\ entries' \in [Handles -> SUBSET Registrations] /\ met' \in [Handles -> BOOLEAN]
      BY <1>0, <1>3, <1>4, <1>7, <1>12 DEF LoadStats, Phases, Opening
    <2>2. QED  BY <1>0, <1>2, <1>8, <1>12, <2>1 DEF LoadStats
  <1>13. ASSUME NEW h \in Handles, CheckEmpty(h) \/ Optimize(h)
         PROVE  TypeOK'
    <2>1. phase' \in [Handles -> Phases] /\ met' \in [Handles -> BOOLEAN]
      BY <1>3, <1>4, <1>13 DEF CheckEmpty, Optimize, Phases, Opening
    <2>2. QED  BY <1>0, <1>2, <1>13, <2>1 DEF CheckEmpty, Optimize, local
  <1>14. ASSUME NEW h \in Handles, RefuseOpen(h) \/ Exit(h)
         PROVE  TypeOK'
    BY <1>0, <1>5, <1>14 DEF RefuseOpen, Exit
  <1>15. ASSUME NEW h \in Handles, RequestFails(h)
         PROVE  TypeOK'
    BY <1>0, <1>5, <1>15 DEF RequestFails
  <1>16. ASSUME NEW h \in Handles, Reload(h)
         PROVE  TypeOK'
    BY <1>0, <1>2, <1>7, <1>8, <1>16 DEF Reload
  <1>17. ASSUME NEW h \in Handles, LoadFinal(h)
         PROVE  TypeOK'
    BY <1>0, <1>2, <1>6, <1>8, <1>17 DEF LoadFinal
  <1>18. ASSUME NEW h \in Handles, LoadVersion(h)
         PROVE  TypeOK'
    <2>1. phase' \in [Handles -> Phases] /\ met' \in [Handles -> BOOLEAN]
      BY <1>3, <1>4, <1>18 DEF LoadVersion, Phases
    <2>2. QED  BY <1>0, <1>2, <1>8, <1>18, <2>1 DEF LoadVersion
  <1>19. ASSUME NEW h \in Handles, CreateSchema(h) \/ Migrate(h) \/ Upgrade(h) \/ Bootstrap(h)
         PROVE  TypeOK'
    <2>1. phase' \in [Handles -> Phases] /\ met' \in [Handles -> BOOLEAN]
      BY <1>3, <1>4, <1>19 DEF CreateSchema, Migrate, Upgrade, Bootstrap, Phases, Opening
    <2>2. db' \in Files
      BY <1>19, FileMoves
    <2>3. stale' \in BOOLEAN
      BY <1>0, <1>19 DEF CreateSchema, Migrate, Upgrade, Bootstrap
    <2>4. QED  BY <1>0, <1>2, <1>19, <2>1, <2>2, <2>3
               DEF CreateSchema, Migrate, Upgrade, Bootstrap, local
  <1>20. ASSUME NEW h \in Handles, NEW q \in Quads, Insert(h, {q}) \/ Remove(h, {q})
         PROVE  TypeOK'
    <2>1. db' \in Files
      BY <1>20, FileMoves
    <2>2. calls' \in 0..MaxCalls
      BY <1>0, <1>20, ConstantsAssumption DEF Insert, Remove, Call
    <2>3. met' \in [Handles -> BOOLEAN] /\ wrote' \in BOOLEAN /\ removed' \in SUBSET Quads
      BY <1>0, <1>3, <1>20 DEF Insert, Remove
    <2>4. QED  BY <1>0, <1>2, <1>20, <2>1, <2>2, <2>3 DEF Insert, Remove, local
  <1>21. ASSUME NEW h \in Handles, NEW to \in Levels, NEW loss \in BOOLEAN,
                SetVersioning(h, to, loss)
         PROVE  TypeOK'
    <2>1. db' \in Files
      BY <1>21, FileMoves
    <2>2. calls' \in 0..MaxCalls
      BY <1>0, <1>21, ConstantsAssumption DEF SetVersioning, Call
    <2>3. phase' \in [Handles -> Phases] /\ met' \in [Handles -> BOOLEAN] /\ stale' \in BOOLEAN
      BY <1>0, <1>3, <1>4, <1>21 DEF SetVersioning, Phases
    <2>4. QED  BY <1>0, <1>2, <1>21, <2>1, <2>2, <2>3 DEF SetVersioning, local
  <1>22. CASE UNCHANGED vars
    BY <1>0, <1>2, <1>22 DEF vars, local, ghosts
  <1>23. QED
    BY <1>9, <1>10, <1>11, <1>12, <1>13, <1>14, <1>15, <1>16, <1>17, <1>18, <1>19, <1>20, <1>21,
       <1>22 DEF Next, OpenStep, Levels
-----------------------------------------------------------------------------
(***************************************************************************)
(* Migration.                                                              *)
(***************************************************************************)
\* A step of one handle.
Acts(h) ==
    \/ Reads(h)
    \/ CreateSchema(h) \/ Migrate(h) \/ Upgrade(h) \/ Bootstrap(h)
    \/ \E q \in Quads : Insert(h, {q}) \/ Remove(h, {q})
    \/ \E to \in Levels, loss \in BOOLEAN : SetVersioning(h, to, loss)

\* Every step is one of some handle.
LEMMA StepsAreActs ==
    ASSUME Next
    PROVE  \E h \in Handles : Acts(h)
  BY DEF Next, OpenStep, Acts, Reads, Levels

\* What a handle remembers is changed by its own steps only.
LEMMA OthersStay ==
    ASSUME TypeOK, NEW h \in Handles, Acts(h), NEW i \in Handles, i # h
    PROVE  /\ phase'[i] = phase[i] /\ options'[i] = options[i] /\ blank'[i] = blank[i]
           /\ entries'[i] = entries[i] /\ version'[i] = version[i]
  <1>0. /\ phase \in [Handles -> Phases]
        /\ options \in [Handles -> StoreOptions] /\ blank \in [Handles -> BOOLEAN]
        /\ entries \in [Handles -> SUBSET Registrations] /\ version \in [Handles -> VersionState]
    BY DEF TypeOK, Phases
  <1> DEFINE Same == /\ phase'[i] = phase[i] /\ options'[i] = options[i] /\ blank'[i] = blank[i]
                     /\ entries'[i] = entries[i] /\ version'[i] = version[i]
  <1>1. ASSUME NEW p, Goto(h, p)  PROVE phase'[i] = phase[i]
    BY <1>0, <1>1 DEF Goto
  <1>2. ASSUME Close(h)  PROVE Same
    BY <1>0, <1>1, <1>2 DEF Close
  <1>3. ASSUME Opened(h)
        PROVE  phase'[i] = phase[i] /\ blank'[i] = blank[i] /\ entries'[i] = entries[i]
    BY <1>0, <1>1, <1>3 DEF Opened
  <1>4. ASSUME Finish(h)
        PROVE  phase'[i] = phase[i] /\ blank'[i] = blank[i] /\ entries'[i] = entries[i]
    BY <1>0, <1>1, <1>3, <1>4 DEF Finish
  <1>5. CASE Reads(h)
    <2>1. CASE \E o \in Options : Open(h, o)
      BY <1>0, <1>1, <2>1 DEF Open
    <2>2. CASE Inspect(h)
      BY <1>0, <1>1, <2>2 DEF Inspect
    <2>3. CASE ReadLegacy(h)
      BY <1>0, <1>1, <2>3 DEF ReadLegacy
    <2>4. CASE LoadStats(h) \/ Reload(h) \/ LoadFinal(h)
      BY <1>0, <1>1, <1>3, <1>4, <2>4 DEF LoadStats, Reload, LoadFinal
    <2>5. CASE RefuseOpen(h) \/ RequestFails(h) \/ Exit(h)
      BY <1>2, <2>5 DEF RefuseOpen, RequestFails, Exit
    <2>6. CASE CheckEmpty(h) \/ LoadVersion(h) \/ Optimize(h)
      BY <1>0, <1>1, <2>6 DEF CheckEmpty, LoadVersion, Optimize, local
    <2>7. QED  BY <1>5, <2>1, <2>2, <2>3, <2>4, <2>5, <2>6 DEF Reads
  <1>6. CASE CreateSchema(h) \/ Migrate(h) \/ Upgrade(h) \/ Bootstrap(h)
    BY <1>0, <1>1, <1>6 DEF CreateSchema, Migrate, Upgrade, Bootstrap, local
  <1>7. CASE \E q \in Quads : Insert(h, {q}) \/ Remove(h, {q})
    BY <1>7 DEF Insert, Remove, local
  <1>8. CASE \E to \in Levels, loss \in BOOLEAN : SetVersioning(h, to, loss)
    BY <1>0, <1>1, <1>8 DEF SetVersioning, local
  <1>9. QED  BY <1>5, <1>6, <1>7, <1>8 DEF Acts

\* The schema and the quads after a step.
LEMMA FileFields ==
    ASSUME TypeOK, NEW h \in Handles, Acts(h)
    PROVE  /\ registered' = registered
           /\ \/ /\ Reads(h) \/ Upgrade(h)
                     \/ \E to \in Levels, loss \in BOOLEAN : SetVersioning(h, to, loss)
                 /\ db'.quads = db.quads /\ db'.closure = db.closure /\ db'.legacy = db.legacy
                 /\ wrote' = wrote /\ removed' = removed
              \/ /\ CreateSchema(h)
                 /\ db'.quads = db.quads /\ db'.legacy = db.legacy
                 /\ db'.closure = (IF db.closure = "none" THEN "scoped" ELSE db.closure)
                 /\ wrote' = wrote /\ removed' = removed
              \/ /\ Migrate(h)
                 /\ db'.quads = db.quads \cup entries[h]
                 /\ db'.legacy = FALSE /\ db'.closure = "scoped"
                 /\ wrote' = wrote /\ removed' = removed
              \/ /\ Bootstrap(h)
                 /\ db'.quads = db.quads \cup SystemQuads
                 /\ db'.closure = db.closure /\ db'.legacy = db.legacy
                 /\ wrote' = wrote /\ removed' = removed
              \/ \E q \in Quads :
                 /\ Insert(h, {q}) \/ Remove(h, {q})
                 /\ \/ db'.quads = db.quads \cup {q} /\ removed' = removed
                    \/ db'.quads = db.quads \ {q} /\ removed' = removed \cup {q}
                 /\ db'.closure = db.closure /\ db'.legacy = db.legacy /\ wrote' = TRUE
  <1>0. /\ db \in Files /\ version[h] \in VersionState /\ options[h].versioning \in Levels
        /\ entries[h] \in SUBSET Quads
    BY DEF TypeOK, Files, StoreOptions, Quads, Levels
  <1>1. CASE Reads(h)
    BY <1>1, ReadsKeepTheFile
  <1>2. CASE CreateSchema(h)
    BY <1>0, <1>2 DEF CreateSchema, Files
  <1>3. CASE Migrate(h)
    <2> DEFINE e == Inserted(db, entries[h])
    <2>1. e \in Files /\ e.quads = db.quads \cup entries[h]
      BY <1>0, InsertedFile
    <2>2. db' = WithSchema(e, "scoped", FALSE)
      BY <1>3 DEF Migrate, WithSchema
    <2> HIDE DEF e
    <2>3. db'.quads = e.quads /\ db'.closure = "scoped" /\ db'.legacy = FALSE
      BY <2>1, <2>2, SchemaFile
    <2>4. registered' = registered /\ wrote' = wrote /\ removed' = removed
      BY <1>3 DEF Migrate
    <2>5. QED  BY <1>3, <2>1, <2>3, <2>4
  <1>4. CASE Upgrade(h)
    <2> DEFINE z == Changed(version[h], options[h].versioning, FALSE)
    <2>1. z.db.quads = db.quads /\ z.db.closure = db.closure /\ z.db.legacy = db.legacy
      BY <1>0, ChangedFile
    <2> HIDE DEF z
    <2>2. db' = z.db /\ registered' = registered /\ wrote' = wrote /\ removed' = removed
      BY <1>4 DEF Upgrade, UpgradeOf, z
    <2>3. QED  BY <1>4, <2>1, <2>2
  <1>5. CASE Bootstrap(h)
    <2>1. /\ db' = Inserted(db, SystemQuads) /\ SystemQuads \in SUBSET Quads
          /\ registered' = registered /\ wrote' = wrote /\ removed' = removed
      BY <1>5 DEF Bootstrap, Quads
    <2>2. /\ db'.quads = db.quads \cup SystemQuads
          /\ db'.closure = db.closure /\ db'.legacy = db.legacy
      BY <1>0, <2>1, InsertedFile
    <2>3. QED  BY <1>5, <2>1, <2>2
  <1>6. ASSUME NEW q \in Quads, Insert(h, {q})
        PROVE  /\ registered' = registered /\ removed' = removed /\ wrote' = TRUE
               /\ db'.quads = db.quads \cup {q}
               /\ db'.closure = db.closure /\ db'.legacy = db.legacy
    <2>1. /\ db' = Inserted(db, {q}) /\ {q} \in SUBSET Quads
          /\ registered' = registered /\ removed' = removed /\ wrote' = TRUE
      BY <1>6 DEF Insert
    <2>2. QED  BY <1>0, <2>1, InsertedFile
  <1>7. ASSUME NEW q \in Quads, Remove(h, {q})
        PROVE  /\ registered' = registered /\ removed' = removed \cup {q} /\ wrote' = TRUE
               /\ db'.quads = db.quads \ {q}
               /\ db'.closure = db.closure /\ db'.legacy = db.legacy
    <2>1. /\ db' = Deleted(db, {q}) /\ {q} \in SUBSET Quads
          /\ registered' = registered /\ removed' = removed \cup {q} /\ wrote' = TRUE
      BY <1>7 DEF Remove
    <2>2. QED  BY <1>0, <2>1, DeletedFile
  <1>8. ASSUME NEW to \in Levels, NEW loss \in BOOLEAN, SetVersioning(h, to, loss)
        PROVE  /\ db'.quads = db.quads /\ db'.closure = db.closure /\ db'.legacy = db.legacy
               /\ registered' = registered /\ wrote' = wrote /\ removed' = removed
    <2> DEFINE z == Changed(version[h], to, loss)
    <2>1. z.db.quads = db.quads /\ z.db.closure = db.closure /\ z.db.legacy = db.legacy
      BY <1>0, ChangedFile
    <2> HIDE DEF z
    <2>2. db' = z.db /\ registered' = registered /\ wrote' = wrote /\ removed' = removed
      BY <1>8 DEF SetVersioning, z
    <2>3. QED  BY <2>1, <2>2
  <1>9. QED  BY <1>1, <1>2, <1>3, <1>4, <1>5, <1>6, <1>7, <1>8 DEF Acts
\* A step moves its own handle along the phases of open_job.
LEMMA OwnPhase ==
    ASSUME TypeOK, NEW h \in Handles, Acts(h)
    PROVE  \/ phase'[h] = "closed"
           \/ phase[h] = "closed" /\ phase'[h] = "Start"
           \/ phase[h] = "Start" /\ phase'[h] = "Inspect" /\ CreateSchema(h)
           \/ phase[h] = "Inspect" /\ phase'[h] \in {"Legacy", "Migrate", "Stats"} /\ Inspect(h)
           \/ phase[h] = "Legacy" /\ phase'[h] = "Migrate" /\ ReadLegacy(h)
           \/ phase[h] = "Migrate" /\ phase'[h] = "Stats" /\ Migrate(h)
           \/ phase[h] = "Stats" /\ phase'[h] = "Empty" /\ LoadStats(h)
           \/ phase[h] \in {"Stats", "Reload"} /\ phase'[h] = "Bootstrap"
           \/ /\ phase[h] \in {"Stats", "Reload"} /\ phase'[h] = "open" /\ ~blank'[h]
              /\ ~(options[h].system_graphs /\ blank[h])
           \/ phase[h] = "Empty" /\ phase'[h] = "Upgrade" /\ CheckEmpty(h)
           \/ phase[h] = "Upgrade" /\ phase'[h] = "Reload" /\ Upgrade(h)
           \/ phase[h] = "Bootstrap" /\ phase'[h] = "Final" /\ Bootstrap(h)
           \/ phase[h] = "Final" /\ phase'[h] = "open"
           \/ phase[h] \in {"open", "loading"} /\ phase'[h] \in {"open", "loading"}
  <1>0. phase \in [Handles -> Phases] /\ blank \in [Handles -> BOOLEAN]
    BY DEF TypeOK, Phases
  <1>1. ASSUME NEW p, Goto(h, p)  PROVE phase'[h] = p
    BY <1>0, <1>1 DEF Goto
  <1>2. CASE Reads(h)
    <2>1. CASE \E o \in Options : Open(h, o)
      BY <1>1, <2>1 DEF Open
    <2>2. CASE Inspect(h)
      BY <1>1, <2>2 DEF Inspect
    <2>3. CASE ReadLegacy(h)
      BY <1>1, <2>3 DEF ReadLegacy
    <2>4. CASE LoadStats(h) \/ Reload(h)
      <3>1. ASSUME Finish(h)
            PROVE  \/ phase'[h] = "Bootstrap"
                   \/ /\ phase'[h] = "open" /\ ~blank'[h]
                      /\ ~(options[h].system_graphs /\ blank[h])
        BY <1>0, <1>1, <3>1 DEF Finish, Opened
      <3>2. QED  BY <1>1, <2>4, <3>1 DEF LoadStats, Reload
    <2>5. CASE RefuseOpen(h) \/ RequestFails(h) \/ Exit(h)
      BY <1>1, <2>5 DEF RefuseOpen, RequestFails, Exit, Close
    <2>6. CASE CheckEmpty(h)
      BY <1>1, <2>6 DEF CheckEmpty
    <2>7. CASE LoadFinal(h)
      BY <1>1, <2>7 DEF LoadFinal, Opened
    <2>8. CASE LoadVersion(h) \/ Optimize(h)
      BY <1>1, <2>8 DEF LoadVersion, Optimize
    <2>9. QED  BY <1>2, <2>1, <2>2, <2>3, <2>4, <2>5, <2>6, <2>7, <2>8 DEF Reads
  <1>3. CASE CreateSchema(h) \/ Migrate(h) \/ Upgrade(h) \/ Bootstrap(h)
    BY <1>1, <1>3 DEF CreateSchema, Migrate, Upgrade, Bootstrap
  <1>4. CASE \E q \in Quads : Insert(h, {q}) \/ Remove(h, {q})
    BY <1>4 DEF Insert, Remove
  <1>5. CASE \E to \in Levels, loss \in BOOLEAN : SetVersioning(h, to, loss)
    BY <1>1, <1>5 DEF SetVersioning
  <1>6. QED  BY <1>2, <1>3, <1>4, <1>5 DEF Acts

\* The entries a handle has read: those of the store, or none.
LEMMA OwnEntries ==
    ASSUME TypeOK, NEW h \in Handles, Acts(h), entries[h] \subseteq registered
    PROVE  entries'[h] \subseteq registered
  <1>0. entries \in [Handles -> SUBSET Registrations]
    BY DEF TypeOK
  <1>1. CASE ReadLegacy(h)
    BY <1>0, <1>1 DEF ReadLegacy
  <1>2. ASSUME Close(h) \/ Opened(h)  PROVE entries'[h] = {}
    BY <1>0, <1>2 DEF Close, Opened
  <1>3. CASE ~ReadLegacy(h)
    <2>1. entries'[h] = {} \/ entries' = entries
      BY <1>2, <1>3 DEF Acts, Reads, Open, Inspect, LoadStats, CheckEmpty, RefuseOpen, Reload, RequestFails,
         LoadFinal, LoadVersion, Optimize, Exit, Finish, CreateSchema, Migrate, Upgrade, Bootstrap,
         Insert, Remove, SetVersioning, local
    <2>2. QED  BY <2>1
  <1>4. QED  BY <1>1, <1>3

\* Every step keeps the migration going.
LEMMA MigrationStep ==
    ASSUME TypeOK, MigrationInv, [Next]_vars
    PROVE  MigrationInv'
  <1>1. ASSUME NEW h \in Handles, Acts(h)
        PROVE  MigrationInv'
    <2>0. /\ db.closure \in {"none", "old", "scoped"} /\ db.legacy \in BOOLEAN
          /\ registered' = registered
          /\ phase[h] \notin {"closed", "Start"} => db.closure # "none"
          /\ phase[h] \in Past => db.closure = "scoped"
          /\ phase[h] = "Migrate" => entries[h] = registered
          /\ entries[h] \subseteq registered
      BY <1>1, FileFields DEF TypeOK, MigrationInv
    <2>1. /\ db'.legacy <=> db'.closure = "old"
          /\ db'.closure = "none" => db.closure = "none"
          /\ db.closure = "scoped" => db'.closure = "scoped"
          /\ CreateSchema(h) => db'.closure # "none"
          /\ Migrate(h) => db'.closure = "scoped"
      <3>1. CreateSchema(h) => db'.closure # "none"
        BY <2>0 DEF CreateSchema, TypeOK
      <3>2. Migrate(h) => db'.closure = "scoped"
        <4>1. db \in Files /\ entries[h] \in SUBSET Quads
          BY DEF TypeOK, Files, Quads
        <4>2. Inserted(db, entries[h]) \in Files
          BY <4>1, InsertedFile
        <4>3. QED  BY <4>2 DEF Migrate, Files
      <3>3. /\ db'.legacy <=> db'.closure = "old"
            /\ db'.closure = "none" => db.closure = "none"
            /\ db.closure = "scoped" => db'.closure = "scoped"
        BY <1>1, <2>0, FileFields DEF MigrationInv
      <3>4. QED  BY <3>1, <3>2, <3>3
    <2>2. db'.closure = "scoped" => registered \ removed' \subseteq db'.quads
      <3>1. CASE db.closure = "scoped"
        <4>1. registered \ removed \subseteq db.quads
          BY <3>1 DEF MigrationInv
        <4>2. QED  BY <1>1, <4>1, FileFields
      <3>2. CASE db.closure # "scoped" /\ Migrate(h)
        <4>1. phase[h] = "Migrate"
          BY <3>2 DEF Migrate
        <4>2. QED  BY <1>1, <2>0, <3>2, <4>1, FileFields DEF Migrate, CreateSchema, Bootstrap, Past
      <3>3. CASE db.closure # "scoped" /\ ~Migrate(h)
        <4>1. db'.closure = db.closure \/ db.closure = "none"
          BY <1>1, <3>3, FileFields
        <4>2. db.closure = "none" => registered = {}
          BY DEF MigrationInv
        <4>3. QED  BY <3>3, <4>1, <4>2
      <3>4. QED  BY <3>1, <3>2, <3>3
    <2>3. ASSUME NEW i \in Handles
          PROVE  /\ phase'[i] \notin {"closed", "Start"} => db'.closure # "none"
                 /\ phase'[i] \in Past => db'.closure = "scoped"
                 /\ phase'[i] = "Migrate" => entries'[i] = registered
                 /\ entries'[i] \subseteq registered
      <3>1. CASE i # h
        <4>1. /\ phase[i] \notin {"closed", "Start"} => db.closure # "none"
              /\ phase[i] \in Past => db.closure = "scoped"
              /\ phase[i] = "Migrate" => entries[i] = registered
              /\ entries[i] \subseteq registered
          BY DEF MigrationInv
        <4>2. phase'[i] = phase[i] /\ entries'[i] = entries[i]
          BY <1>1, <3>1, OthersStay
        <4>3. QED  BY <2>1, <4>1, <4>2
      <3>2. CASE i = h
        <4>1. entries'[h] \subseteq registered
          BY <1>1, <2>0, OwnEntries
        <4>2. phase'[h] \notin {"closed", "Start"} => db'.closure # "none"
          BY <1>1, <2>0, <2>1, OwnPhase
        <4>3. phase'[h] \in Past => db'.closure = "scoped"
          <5>1. Inspect(h) /\ phase'[h] \in Past => db.closure = "scoped"
            BY <2>0 DEF Inspect, Goto, TypeOK, Past, MigrationInv
          <5>2. QED  BY <1>1, <2>0, <2>1, <5>1, OwnPhase DEF Past
        <4>4. phase'[h] = "Migrate" => entries'[h] = registered
          <5>1. ReadLegacy(h) => entries'[h] = registered
            BY DEF ReadLegacy, TypeOK
          <5>2. Inspect(h) => phase'[h] # "Migrate"
            BY <2>0 DEF Inspect, Goto, TypeOK, MigrationInv
          <5>3. QED  BY <1>1, <5>1, <5>2, OwnPhase
        <4>5. QED  BY <3>2, <4>1, <4>2, <4>3, <4>4
      <3>3. QED  BY <3>1, <3>2
    <2>4. db'.closure = "none" => registered = {}
      BY <2>1 DEF MigrationInv
    <2>5. QED  BY <2>0, <2>1, <2>2, <2>3, <2>4 DEF MigrationInv
  <1>2. CASE UNCHANGED vars
    BY <1>2 DEF MigrationInv, vars, local, ghosts
  <1>3. QED  BY <1>1, <1>2, StepsAreActs
-----------------------------------------------------------------------------
(***************************************************************************)
(* The system graphs.                                                      *)
(***************************************************************************)
\* What an opening was asked for and what it saw stay until it ends.
LEMMA OwnMemory ==
    ASSUME TypeOK, NEW h \in Handles, Acts(h)
    PROVE  /\ phase'[h] \notin {"closed", "Start"} => options'[h] = options[h]
           /\ phase'[h] \in {"Legacy", "Migrate", "Stats", "Empty", "Upgrade", "Reload"} =>
                 blank'[h] = IF Inspect(h) THEN db.quads = {} ELSE blank[h]
  <1>0. /\ phase \in [Handles -> Phases] /\ options \in [Handles -> StoreOptions]
        /\ blank \in [Handles -> BOOLEAN]
    BY DEF TypeOK, Phases
  <1>1. ASSUME NEW p, Goto(h, p)  PROVE phase'[h] = p
    BY <1>0, <1>1 DEF Goto
  <1>2. ASSUME Finish(h)
        PROVE  phase'[h] \in {"Bootstrap", "open"}
    BY <1>1, <1>2 DEF Finish, Opened
  <1>3. CASE Reads(h)
    <2>1. CASE \E o \in Options : Open(h, o)
      BY <1>1, <2>1 DEF Open
    <2>2. CASE Inspect(h)
      BY <1>0, <2>2 DEF Inspect
    <2>3. CASE ReadLegacy(h)
      BY <2>3 DEF ReadLegacy, Inspect
    <2>4. CASE LoadStats(h)
      BY <1>2, <2>4 DEF LoadStats, Inspect
    <2>5. CASE Reload(h)
      BY <1>2, <2>5 DEF Reload
    <2>6. CASE RefuseOpen(h) \/ RequestFails(h) \/ Exit(h)
      BY <1>1, <2>6 DEF RefuseOpen, RequestFails, Exit, Close
    <2>7. CASE LoadFinal(h)
      BY <1>1, <2>7 DEF LoadFinal, Opened
    <2>8. CASE CheckEmpty(h) \/ LoadVersion(h) \/ Optimize(h)
      BY <2>8 DEF CheckEmpty, LoadVersion, Optimize, Inspect, local
    <2>9. QED  BY <1>3, <2>1, <2>2, <2>3, <2>4, <2>5, <2>6, <2>7, <2>8 DEF Reads
  <1>4. CASE CreateSchema(h) \/ Migrate(h) \/ Upgrade(h) \/ Bootstrap(h)
    BY <1>4 DEF CreateSchema, Migrate, Upgrade, Bootstrap, Inspect, local
  <1>5. CASE \E q \in Quads : Insert(h, {q}) \/ Remove(h, {q})
    BY <1>5 DEF Insert, Remove, Inspect, local
  <1>6. CASE \E to \in Levels, loss \in BOOLEAN : SetVersioning(h, to, loss)
    BY <1>6 DEF SetVersioning, Inspect, local
  <1>7. QED  BY <1>3, <1>4, <1>5, <1>6 DEF Acts

\* Every step keeps the promise of the system graphs.
LEMMA SystemStep ==
    ASSUME TypeOK, MigrationInv, SystemInv, [Next]_vars
    PROVE  SystemInv'
  <1>1. ASSUME NEW h \in Handles, Acts(h)
        PROVE  SystemInv'
    <2> SUFFICES ASSUME ~wrote', registered' = {}
                 PROVE  /\ db'.quads # {} => SystemQuads \subseteq db'.quads
                        /\ \A i \in Handles :
                              /\ phase'[i] \in {"Legacy", "Migrate", "Stats", "Empty", "Upgrade",
                                                "Reload"} =>
                                    blank'[i] \/ SystemQuads \subseteq db'.quads
                              /\ phase'[i] \in {"Final", "open", "loading"}
                                 /\ options'[i].system_graphs => SystemQuads \subseteq db'.quads
      BY DEF SystemInv
    <2>1. ~wrote /\ registered = {}
      <3>1. registered' = registered
        BY <1>1, FileFields
      <3>2. wrote' = wrote \/ wrote' = TRUE
        BY <1>1, FileFields
      <3>3. QED  BY <3>1, <3>2
    <2>2. db.quads # {} => SystemQuads \subseteq db.quads
      BY <2>1 DEF SystemInv
    <2>3. entries[h] = {}
      BY <2>1 DEF MigrationInv
    <2>4. /\ db'.quads = db.quads \/ SystemQuads \subseteq db'.quads
          /\ Bootstrap(h) => SystemQuads \subseteq db'.quads
      <3>1. db'.quads = db.quads \/ SystemQuads \subseteq db'.quads
        BY <1>1, <2>3, FileFields
      <3>2. db \in Files /\ SystemQuads \in SUBSET Quads
        BY DEF TypeOK, Files, Quads
      <3>3. Bootstrap(h) => SystemQuads \subseteq db'.quads
        BY <3>2, InsertedFile DEF Bootstrap
      <3>4. QED  BY <3>1, <3>3
    <2>5. ASSUME NEW i \in Handles
          PROVE  /\ phase'[i] \in {"Legacy", "Migrate", "Stats", "Empty", "Upgrade", "Reload"} =>
                       blank'[i] \/ SystemQuads \subseteq db'.quads
                 /\ phase'[i] \in {"Final", "open", "loading"} /\ options'[i].system_graphs =>
                       SystemQuads \subseteq db'.quads
      <3>1. /\ phase[i] \in {"Legacy", "Migrate", "Stats", "Empty", "Upgrade", "Reload"} =>
                  blank[i] \/ SystemQuads \subseteq db.quads
            /\ phase[i] \in {"Final", "open", "loading"} /\ options[i].system_graphs =>
                  SystemQuads \subseteq db.quads
        BY <2>1 DEF SystemInv
      <3>2. CASE i # h
        <4>1. phase'[i] = phase[i] /\ blank'[i] = blank[i] /\ options'[i] = options[i]
          BY <1>1, <3>2, OthersStay
        <4>2. QED  BY <2>4, <3>1, <4>1
      <3>3. CASE i = h
        <4>1. /\ phase'[h] \notin {"closed", "Start"} => options'[h] = options[h]
              /\ phase'[h] \in {"Legacy", "Migrate", "Stats", "Empty", "Upgrade", "Reload"} =>
                    blank'[h] = IF Inspect(h) THEN db.quads = {} ELSE blank[h]
          BY <1>1, OwnMemory
        <4>2. phase'[h] \in {"Legacy", "Migrate", "Stats", "Empty", "Upgrade", "Reload"} =>
                 blank'[h] \/ SystemQuads \subseteq db'.quads
          <5>1. CASE Inspect(h)
            BY <2>2, <2>4, <4>1, <5>1
          <5>2. CASE ~Inspect(h)
            <6>1. phase'[h] \in {"Legacy", "Migrate", "Stats", "Empty", "Upgrade", "Reload"} =>
                     phase[h] \in {"Legacy", "Migrate", "Stats", "Empty", "Upgrade", "Reload"}
              BY <1>1, <5>2, OwnPhase
            <6>2. QED  BY <2>4, <3>1, <3>3, <4>1, <5>2, <6>1
          <5>3. QED  BY <5>1, <5>2
        <4>3. phase'[h] \in {"Final", "open", "loading"} /\ options'[h].system_graphs =>
                 SystemQuads \subseteq db'.quads
          <5>1. phase'[h] \in {"Final", "open", "loading"} =>
                   \/ Bootstrap(h)
                   \/ phase[h] \in {"Final", "open", "loading"}
                   \/ /\ phase[h] \in {"Stats", "Reload"}
                      /\ ~(options[h].system_graphs /\ blank[h])
            BY <1>1, OwnPhase
          <5>2. QED  BY <2>4, <3>1, <3>3, <4>1, <5>1
        <4>4. QED  BY <3>3, <4>2, <4>3
      <3>4. QED  BY <3>2, <3>3
    <2>6. QED  BY <2>2, <2>4, <2>5
  <1>2. CASE UNCHANGED vars
    BY <1>2 DEF SystemInv, vars, local, ghosts
  <1>3. QED  BY <1>1, <1>2, StepsAreActs

-----------------------------------------------------------------------------
(***************************************************************************)
(* Openings that meet no other.                                            *)
(***************************************************************************)
\* A step is seen by every other handle that is opening.
LEMMA OthersMeet ==
    ASSUME NEW h \in Handles, Acts(h), ~(\E o \in Options : Open(h, o)),
           NEW i \in Handles, i # h
    PROVE  met'[i] = (met[i] \/ phase[i] \in Opening)
  <1>1. ASSUME Meet(h) \/ Close(h) \/ Opened(h)
        PROVE  met'[i] = (met[i] \/ phase[i] \in Opening)
    BY <1>1 DEF Meet, Close, Opened
  <1>2. Meet(h) \/ Close(h) \/ Opened(h)
    BY DEF Acts, Reads, Inspect, ReadLegacy, LoadStats, CheckEmpty, RefuseOpen, Reload,
           RequestFails, LoadFinal, LoadVersion, Optimize, Exit, Finish, CreateSchema, Migrate,
           Upgrade, Bootstrap, Insert, Remove, SetVersioning
  <1>3. QED  BY <1>1, <1>2

\* A request of an opening that met no other works.
LEMMA AloneWorks ==
    ASSUME TypeOK, ConsistentInv, AloneInv, NEW h \in Handles, RequestFails(h), ~met[h], ~stale
    PROVE  FALSE
  <1>0. /\ db \in Files /\ version[h] \in VersionState /\ options[h].versioning \in Levels
        /\ Consistent(db)
    BY DEF TypeOK, Files, StoreOptions, Levels, ConsistentInv
  <1>1. Writable(Off)
    BY <1>0, ConsistentWritable
  <1>2. phase[h] = "Legacy" => db.legacy
    BY DEF AloneInv
  <1>3. phase[h] = "Upgrade" => UpgradeOf(h).ok
    <2>1. phase[h] = "Upgrade" => version[h] = db.meta
      BY DEF AloneInv
    <2>2. ~RefusesChange(version[h], options[h].versioning, FALSE)
      BY DEF RefusesChange
    <2> DEFINE z == Changed(version[h], options[h].versioning, FALSE)
    <2>3. version[h] = db.meta => z.ok
      BY <1>0, <2>2, ChangedFile
    <2>4. QED  BY <2>1, <2>3 DEF UpgradeOf
  <1>4. QED  BY <1>1, <1>2, <1>3 DEF RequestFails

\* Every step keeps an opening that met no other informed.
LEMMA AloneStep ==
    ASSUME TypeOK, ConsistentInv, AloneInv, [Next]_vars
    PROVE  AloneInv'
  <1>1. ASSUME NEW h \in Handles, Acts(h)
        PROVE  AloneInv'
    <2>0. ~failed /\ \A i \in Handles : ~met[i] =>
             /\ phase[i] = "Legacy" => db.legacy
             /\ phase[i] \in {"Empty", "Upgrade"} => version[i] = db.meta
      BY DEF AloneInv
    <2>1. ~failed'
      <3>1. CASE RequestFails(h)
        BY <2>0, <3>1, AloneWorks DEF RequestFails
      <3>2. CASE ~RequestFails(h)
        BY <1>1, <2>0, <3>2 DEF Acts, Reads, Open, Inspect, ReadLegacy, LoadStats, CheckEmpty,
           RefuseOpen, Reload, LoadFinal, LoadVersion, Optimize, Exit, CreateSchema, Migrate,
           Upgrade, Bootstrap, Insert, Remove, SetVersioning, ghosts
      <3>3. QED  BY <3>1, <3>2
    <2>2. ASSUME NEW i \in Handles, ~met'[i]
          PROVE  /\ phase'[i] = "Legacy" => db'.legacy
                 /\ phase'[i] \in {"Empty", "Upgrade"} => version'[i] = db'.meta
      <3>1. CASE \E o \in Options : Open(h, o)
        <4>1. /\ db' = db /\ met' = met /\ version' = version
              /\ phase' = [phase EXCEPT ![h] = "Start"]
          BY <3>1 DEF Open, Goto, ghosts
        <4>2. QED  BY <2>0, <2>2, <4>1 DEF TypeOK
      <3>2. CASE ~(\E o \in Options : Open(h, o)) /\ i # h
        <4>1. met'[i] = (met[i] \/ phase[i] \in Opening)
          BY <1>1, <3>2, OthersMeet
        <4>2. phase'[i] = phase[i]
          BY <1>1, <3>2, OthersStay
        <4>3. QED  BY <2>2, <4>1, <4>2 DEF Opening
      <3>3. CASE i = h
        <4>1. phase'[h] = "Legacy" => db'.legacy
          <5>1. Inspect(h) /\ phase'[h] = "Legacy" => db'.legacy
            BY DEF Inspect, Goto, TypeOK
          <5>2. QED  BY <1>1, <5>1, OwnPhase
        <4>2. phase'[h] = "Empty" => version'[h] = db'.meta
          <5>1. LoadStats(h) => version'[h] = db'.meta
            BY DEF LoadStats, TypeOK
          <5>2. QED  BY <1>1, <5>1, OwnPhase
        <4>3. phase'[h] = "Upgrade" => version'[h] = db'.meta
          <5>1. CASE CheckEmpty(h)
            <6>1. met'[h] = met[h] /\ version' = version /\ db' = db /\ phase[h] = "Empty"
              BY <5>1 DEF CheckEmpty, Meet, local, TypeOK
            <6>2. QED  BY <2>0, <2>2, <3>3, <6>1
          <5>2. QED  BY <1>1, <5>1, OwnPhase
        <4>4. QED  BY <3>3, <4>1, <4>2, <4>3
      <3>4. QED  BY <3>1, <3>2, <3>3
    <2>3. QED  BY <2>1, <2>2 DEF AloneInv
  <1>2. CASE UNCHANGED vars
    BY <1>2 DEF AloneInv, vars, local, ghosts
  <1>3. QED  BY <1>1, <1>2, StepsAreActs

-----------------------------------------------------------------------------
(***************************************************************************)
(* The theorems.                                                           *)
(***************************************************************************)
\* The inductive invariant.
IInv == TypeOK /\ ConsistentInv /\ MigrationInv /\ SystemInv /\ AloneInv

\* It holds of a new file and of a version 1 store.
LEMMA InitInv ==
    ASSUME Init
    PROVE  IInv
  <1> USE DEF Off, Stamped, Log
  <1>1. NoOptions \in StoreOptions /\ NoVersion \in VersionState
    BY DEF NoOptions, NoVersion, StoreOptions, VersionState
  <1>2. PICK v1 \in BOOLEAN :
           /\ ~v1 => registered = {}
           /\ db = [closure |-> IF v1 THEN "old" ELSE "none", legacy |-> v1,
                    quads |-> {}, meta |-> NoVersion, ticks |-> FALSE, column |-> FALSE,
                    log |-> FALSE, triggers |-> FALSE, logged |-> {}, frozen |-> {}]
    BY DEF Init
  <1>3. TypeOK
    <2>1. db \in Files
      BY <1>1, <1>2 DEF Files
    <2>2. phase \in [Handles -> Opening \cup {"closed", "open", "loading"}]
      BY DEF Init
    <2>3. /\ options \in [Handles -> StoreOptions] /\ version \in [Handles -> VersionState]
          /\ blank \in [Handles -> BOOLEAN] /\ entries \in [Handles -> SUBSET Registrations]
          /\ met \in [Handles -> BOOLEAN]
      BY <1>1 DEF Init
    <2>4. calls \in 0..MaxCalls
      BY ConstantsAssumption DEF Init
    <2>5. /\ registered \in SUBSET Registrations /\ wrote \in BOOLEAN
          /\ removed \in SUBSET Quads /\ stale \in BOOLEAN /\ failed \in BOOLEAN
      BY DEF Init
    <2>6. QED  BY <2>1, <2>2, <2>3, <2>4, <2>5 DEF TypeOK, Files
  <1>4. ConsistentInv
    <2>1. /\ NoVersion.level = 0 /\ NoVersion.history = "none"
          /\ NoVersion.stamp_column = FALSE
      BY DEF NoVersion
    <2>2. /\ db.meta = NoVersion /\ db.ticks = FALSE /\ db.column = FALSE /\ db.log = FALSE
          /\ db.triggers = FALSE /\ db.logged = {} /\ db.frozen = {} /\ db.quads = {}
      BY <1>2
    <2>3. QED  BY <2>1, <2>2 DEF ConsistentInv, Consistent
  <1>5. MigrationInv
    BY <1>2 DEF Init, MigrationInv, Past
  <1>6. SystemInv
    BY <1>2 DEF Init, SystemInv
  <1>7. AloneInv
    BY DEF Init, AloneInv
  <1>8. QED  BY <1>3, <1>4, <1>5, <1>6, <1>7 DEF IInv

\* And every step keeps it.
LEMMA StepInv ==
    ASSUME IInv, [Next]_vars
    PROVE  IInv'
  BY TypeStep, ConsistentStep, MigrationStep, SystemStep, AloneStep DEF IInv

\* So it holds always.
LEMMA Invariance == Spec => []IInv
  BY InitInv, StepInv, PTL DEF Spec

\* The file, the handles and their openings hold what their fields can hold,
\* whatever the processes do.
THEOREM OpenTypeCorrect == Spec => []TypeOK
  <1>1. IInv => TypeOK
    BY DEF IInv
  <1>2. QED  BY <1>1, Invariance, PTL

\* What oxilite_meta says of the tables stays true through upgrades, crashes
\* and level changes of any number of handles (change_statements).
THEOREM MetaIsTrue == Spec => []MetaMatchesTables
  <1>1. IInv => MetaMatchesTables
    BY DEF IInv, ConsistentInv, Consistent, MetaMatchesTables
  <1>2. QED  BY <1>1, Invariance, PTL

\* A live log answers for the store, whatever handles knew of it when they
\* wrote (the capture triggers and the genesis).
THEOREM LogAnswersTheStore == Spec => []LogIsTheStore
  <1>1. IInv => LogIsTheStore
    BY DEF IInv, ConsistentInv, Consistent, LogIsTheStore
  <1>2. QED  BY <1>1, Invariance, PTL

\* No handle is open on a store that was not migrated, and no registration is
\* lost by migrations that cross or die (open_job, migration_request).
THEOREM StoresAreMigrated == Spec => []OpenedStoreIsMigrated
  <1>1. IInv => OpenedStoreIsMigrated
    BY DEF IInv, MigrationInv, Past, OpenedStoreIsMigrated
  <1>2. QED  BY <1>1, Invariance, PTL

\* An opening that meets no other works, whatever was left behind, and a blank
\* store gets the system graphs that were asked for (open_job).
THEOREM OpeningsWork == Spec => []OpeningWorks
  <1>1. IInv => OpeningWorks
    BY DEF IInv, SystemInv, AloneInv, OpeningWorks, SystemGraphsInstalled, OpenAloneWorks
  <1>2. QED  BY <1>1, Invariance, PTL
=============================================================================
