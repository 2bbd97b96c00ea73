----------------------------- MODULE SharedFile -----------------------------
(***************************************************************************)
(* One database file and the handles of the processes that use it: how a   *)
(* handle opens the store (the phases of open_job), what it remembers of   *)
(* it, and the writes and level changes it then plans from what it         *)
(* remembers.                                                              *)
(*                                                                         *)
(* Every request is a step of its own, and handles interleave between      *)
(* requests.  A process may die between any two; what it executed stays.   *)
(* The change log is kept as the content it answers for now and at the     *)
(* last freeze; VersionLog has its rows.                                   *)
(***************************************************************************)
EXTENDS Naturals, FiniteSets

CONSTANTS
    Handles,       \* the processes
    Docs,          \* quads that users write
    SystemQuads,   \* registry::system_quads
    Registrations, \* the registry quads of the rows of a version 1 schema_graphs table
    Options,       \* the StoreOptions that handles open with: [versioning, system_graphs]
    MaxCalls       \* bound: writes and level changes of all handles

Off     == 0
Stamped == 1
Log     == 2

Quads        == Docs \cup SystemQuads \cup Registrations
StoreOptions == [versioning : {Off, Stamped, Log}, system_graphs : BOOLEAN]

\* Options for an instance: a plain handle, and one that wants everything.
TwoOptions == {[versioning |-> Off, system_graphs |-> FALSE],
               [versioning |-> Log, system_graphs |-> TRUE]}

ASSUME ConstantsAssumption == Options \subseteq StoreOptions /\ MaxCalls \in Nat

VARIABLES
    db,            \* the file: its tables and the versioning entries of oxilite_meta
    phase,         \* where each handle is: closed, a phase of open_job, open, loading
    options,       \* the options each handle opens with
    blank,         \* Open.blank
    entries,       \* the legacy entries it read
    version,       \* Stats.version: the VersionState it loaded last
    calls          \* the writes and level changes so far

(***************************************************************************)
(* History variables, read by no action.                                   *)
(***************************************************************************)
VARIABLES
    registered,    \* the registrations of the version 1 store
    wrote,         \* a user wrote quads
    removed,       \* the quads users removed
    stale,         \* a level change was executed as planned from an outdated state
    met,           \* the handle's opening overlapped a step of another handle
    failed         \* an opening that met no other failed

local  == <<options, blank, entries, version>>
ghosts == <<registered, wrote, removed, stale, met, failed>>
vars   == <<db, phase, local, calls, ghosts>>

VersionState == [level : {Off, Stamped, Log}, history : {"none", "live", "frozen"},
                 stamp_column : BOOLEAN]
NoVersion    == [level |-> Off, history |-> "none", stamp_column |-> FALSE]
NoOptions    == [versioning |-> Off, system_graphs |-> FALSE]

Opening == {"Start", "Schema", "Inspect", "Legacy", "Migrate", "Stats", "Empty", "Upgrade",
            "Reload", "Bootstrap", "Final"}

-----------------------------------------------------------------------------
(***************************************************************************)
(* change_statements, executed against the file as it is.  A plan is made  *)
(* from a remembered state; x is the file so far, the state the plan is at,*)
(* and whether every statement has worked.                                 *)
(***************************************************************************)
StartClock(x) ==
    [db |-> [x.db EXCEPT !.ticks = TRUE, !.column = TRUE,
                         !.meta.level = Stamped, !.meta.stamp_column = TRUE],
     state |-> [x.state EXCEPT !.level = Stamped, !.stamp_column = TRUE],
     \* ALTER TABLE ADD COLUMN fails when the column is there
     ok |-> x.ok /\ (~x.state.stamp_column => ~x.db.column)]

\* The genesis adds the store to the log; a resume, its difference to the freeze.
StartLog(x) ==
    [db |-> [x.db EXCEPT !.log = TRUE, !.triggers = TRUE,
                         !.logged = IF x.state.history = "frozen"
                                    THEN (@ \ (x.db.frozen \ x.db.quads))
                                            \cup (x.db.quads \ x.db.frozen)
                                    ELSE @ \cup x.db.quads,
                         !.meta.level = Log, !.meta.history = "live"],
     state |-> [x.state EXCEPT !.level = Log, !.history = "live"],
     ok |-> x.ok /\ x.db.ticks]

\* Mutant of StopLog: a freeze leaves the triggers.
StopLogKeepsTriggers(x, allow_loss) ==
    [db |-> IF allow_loss
            THEN [x.db EXCEPT !.log = FALSE, !.triggers = FALSE, !.logged = {}, !.frozen = {},
                              !.meta.level = Stamped, !.meta.history = "none"]
            ELSE [x.db EXCEPT !.frozen = x.db.logged,
                              !.meta.level = Stamped, !.meta.history = "frozen"],
     state |-> [x.state EXCEPT !.level = Stamped,
                               !.history = IF allow_loss THEN "none" ELSE "frozen"],
     ok |-> x.ok /\ x.db.ticks]

StopLog(x, allow_loss) ==
    [db |-> IF allow_loss
            THEN [x.db EXCEPT !.log = FALSE, !.triggers = FALSE, !.logged = {}, !.frozen = {},
                              !.meta.level = Stamped, !.meta.history = "none"]
            ELSE [x.db EXCEPT !.triggers = FALSE, !.frozen = x.db.logged,
                              !.meta.level = Stamped, !.meta.history = "frozen"],
     state |-> [x.state EXCEPT !.level = Stamped,
                               !.history = IF allow_loss THEN "none" ELSE "frozen"],
     ok |-> x.ok /\ x.db.ticks]

StopClock(x, allow_loss) ==
    [db |-> IF allow_loss
            THEN [x.db EXCEPT !.ticks = FALSE, !.column = FALSE,
                              !.meta.level = Off, !.meta.stamp_column = FALSE]
            ELSE [x.db EXCEPT !.meta.level = Off],
     state |-> [x.state EXCEPT !.level = Off,
                               !.stamp_column = IF allow_loss THEN FALSE ELSE @],
     ok |-> x.ok /\ (IF allow_loss THEN x.db.column ELSE x.db.ticks)]

\* One turn of the loops.
Move(x, to, allow_loss) ==
    IF x.state.level < to
    THEN IF x.state.level = Off THEN StartClock(x) ELSE StartLog(x)
    ELSE IF x.state.level > to
    THEN IF x.state.level = Log THEN StopLog(x, allow_loss) ELSE StopClock(x, allow_loss)
    ELSE x

\* There are two moves at most.
Changed(state, to, allow_loss) ==
    Move(Move([db |-> db, state |-> state, ok |-> TRUE], to, allow_loss), to, allow_loss)

\* "the frozen history needs the clock": known when planning.
RefusesChange(state, to, allow_loss) ==
    /\ allow_loss /\ to = Off
    /\ state.level = Stamped /\ state.history # "none"

-----------------------------------------------------------------------------
(***************************************************************************)
(* Writing quads.                                                          *)
(***************************************************************************)
\* A statement on quads works when the tables its tick, its stamp and the
\* capture triggers use are there.
Writable(level) ==
    /\ level >= Stamped => db.ticks /\ db.column
    /\ db.triggers => db.ticks /\ db.log

Inserted(d, rows) ==
    [d EXCEPT !.quads = @ \cup rows, !.logged = IF d.triggers THEN @ \cup rows ELSE @]

Deleted(d, rows) ==
    [d EXCEPT !.quads = @ \ rows, !.logged = IF d.triggers THEN @ \ rows ELSE @]

-----------------------------------------------------------------------------
Goto(h, p) == phase' = [phase EXCEPT ![h] = p]

\* Another handle acts while h opens.
Meet(h) == met' = [i \in Handles |-> met[i] \/ (i # h /\ phase[i] \in Opening)]

\* The handle is gone, and what it remembered with it.
Close(h) ==
    /\ Goto(h, "closed")
    /\ options' = [options EXCEPT ![h] = NoOptions]
    /\ blank' = [blank EXCEPT ![h] = FALSE]
    /\ entries' = [entries EXCEPT ![h] = {}]
    /\ version' = [version EXCEPT ![h] = NoVersion]
    /\ met' = [i \in Handles |-> i # h /\ (met[i] \/ phase[i] \in Opening)]
    /\ UNCHANGED <<db, calls, registered, wrote, removed>>

\* The handle is open: what open_job remembered is gone.
Opened(h) ==
    /\ Goto(h, "open")
    /\ blank' = [blank EXCEPT ![h] = FALSE]
    /\ entries' = [entries EXCEPT ![h] = {}]
    /\ met' = [i \in Handles |-> i # h /\ (met[i] \/ phase[i] \in Opening)]

Open(h, o) ==
    /\ phase[h] = "closed"
    /\ Goto(h, "Start")
    /\ options' = [options EXCEPT ![h] = o]
    /\ UNCHANGED <<db, blank, entries, version, calls, ghosts>>

\* base_schema creates what is missing; a version 1 tbox_closure stays.
CreateSchema(h) ==
    /\ phase[h] = "Start"
    /\ db' = [db EXCEPT !.closure = IF @ = "none" THEN "scoped" ELSE @]
    /\ Goto(h, "Inspect")
    /\ Meet(h)
    /\ UNCHANGED <<local, calls, registered, wrote, removed, stale, failed>>

Inspect(h) ==
    /\ phase[h] = "Inspect"
    /\ blank' = [blank EXCEPT ![h] = db.quads = {}]
    /\ Goto(h, IF db.legacy THEN "Legacy"
               ELSE IF db.closure = "old" THEN "Migrate" ELSE "Stats")
    /\ Meet(h)
    /\ UNCHANGED <<db, options, entries, version, calls, registered, wrote, removed, stale, failed>>

\* Mutant of ReadLegacy: rows that are no registrations are not skipped.
ReadLegacyAll(h) ==
    /\ phase[h] = "Legacy"
    /\ db.legacy
    /\ entries' = [entries EXCEPT ![h] = registered \cup SystemQuads]
    /\ Goto(h, "Migrate")
    /\ Meet(h)
    /\ UNCHANGED <<db, options, blank, version, calls, registered, wrote, removed, stale, failed>>

ReadLegacy(h) ==
    /\ phase[h] = "Legacy"
    /\ db.legacy
    /\ entries' = [entries EXCEPT ![h] = registered]
    /\ Goto(h, "Migrate")
    /\ Meet(h)
    /\ UNCHANGED <<db, options, blank, version, calls, registered, wrote, removed, stale, failed>>

\* Mutant of Migrate: the table is dropped before its rows are written.
MigrateDropsFirst(h) ==
    /\ phase[h] = "Migrate"
    /\ db' = [db EXCEPT !.closure = "scoped", !.legacy = FALSE]
    /\ Goto(h, "Stats")
    /\ Meet(h)
    /\ UNCHANGED <<local, calls, registered, wrote, removed, stale, failed>>

\* migration_request, through the raw backend: no tick.
Migrate(h) ==
    /\ phase[h] = "Migrate"
    /\ entries[h] # {} => Writable(Off)
    /\ db' = [Inserted(db, entries[h]) EXCEPT !.closure = "scoped", !.legacy = FALSE]
    /\ Goto(h, "Stats")
    /\ Meet(h)
    /\ UNCHANGED <<local, calls, registered, wrote, removed, stale, failed>>

\* finish: the system graphs first, or the handle is open.
Finish(h) ==
    IF options[h].system_graphs /\ blank[h]
    THEN Goto(h, "Bootstrap") /\ Meet(h) /\ UNCHANGED <<blank, entries>>
    ELSE Opened(h)

LoadStats(h) ==
    /\ phase[h] = "Stats"
    /\ version' = [version EXCEPT ![h] = db.meta]
    /\ IF options[h].versioning <= db.meta.level
       THEN Finish(h)
       ELSE Goto(h, "Empty") /\ Meet(h) /\ UNCHANGED <<blank, entries>>
    /\ UNCHANGED <<db, options, calls, registered, wrote, removed, stale, failed>>

\* "opening does not change it": only an empty store without a history is raised.
MayRaise(h) == db.quads = {} /\ version[h].history = "none"

CheckEmpty(h) ==
    /\ phase[h] = "Empty"
    /\ MayRaise(h)
    /\ Goto(h, "Upgrade")
    /\ Meet(h)
    /\ UNCHANGED <<db, local, calls, registered, wrote, removed, stale, failed>>

RefuseOpen(h) ==
    /\ phase[h] = "Empty"
    /\ ~MayRaise(h)
    /\ Close(h)
    /\ UNCHANGED <<stale, failed>>

UpgradeOf(h) == Changed(version[h], options[h].versioning, FALSE)

Upgrade(h) ==
    /\ phase[h] = "Upgrade"
    /\ UpgradeOf(h).ok
    /\ db' = UpgradeOf(h).db
    /\ stale' = (stale \/ version[h] # db.meta)
    /\ Goto(h, "Reload")
    /\ Meet(h)
    /\ UNCHANGED <<local, calls, registered, wrote, removed, failed>>

Reload(h) ==
    /\ phase[h] = "Reload"
    /\ version' = [version EXCEPT ![h] = db.meta]
    /\ Finish(h)
    /\ UNCHANGED <<db, options, calls, registered, wrote, removed, stale, failed>>

\* Mutant of Bootstrap: the statements are for a store without versions.
BootstrapPlainOnly(h) ==
    /\ phase[h] = "Bootstrap"
    /\ db' = IF db.meta.level = Off THEN Inserted(db, SystemQuads) ELSE db
    /\ Goto(h, "Final")
    /\ Meet(h)
    /\ UNCHANGED <<local, calls, registered, wrote, removed, stale, failed>>

\* system_graph_statements, through the raw backend: no tick.
Bootstrap(h) ==
    /\ phase[h] = "Bootstrap"
    /\ Writable(Off)
    /\ db' = Inserted(db, SystemQuads)
    /\ Goto(h, "Final")
    /\ Meet(h)
    /\ UNCHANGED <<local, calls, registered, wrote, removed, stale, failed>>

\* A request of the opening fails: a table it reads or writes is not there, or
\* a column it adds is.
RequestFails(h) ==
    /\ \/ phase[h] = "Legacy" /\ ~db.legacy
       \/ phase[h] = "Migrate" /\ entries[h] # {} /\ ~Writable(Off)
       \/ phase[h] = "Upgrade" /\ ~UpgradeOf(h).ok
       \/ phase[h] = "Bootstrap" /\ ~Writable(Off)
    /\ failed' = (failed \/ (~met[h] /\ ~stale))
    /\ Close(h)
    /\ UNCHANGED stale

\* Mutant of LoadFinal: the end is decided again, and blank was not taken.
LoadFinalAgain(h) ==
    /\ phase[h] = "Final"
    /\ version' = [version EXCEPT ![h] = db.meta]
    /\ Finish(h)
    /\ UNCHANGED <<db, options, calls, registered, wrote, removed, stale, failed>>

LoadFinal(h) ==
    /\ phase[h] = "Final"
    /\ version' = [version EXCEPT ![h] = db.meta]
    /\ Opened(h)
    /\ UNCHANGED <<db, options, calls, registered, wrote, removed, stale, failed>>

-----------------------------------------------------------------------------
(***************************************************************************)
(* An open handle.  A call whose request fails changes nothing and has no  *)
(* step.                                                                   *)
(***************************************************************************)
Call == calls < MaxCalls /\ calls' = calls + 1

\* A write at the level the handle remembers.
Insert(h, rows) ==
    /\ phase[h] = "open"
    /\ Call
    /\ Writable(version[h].level)
    /\ db' = Inserted(db, rows)
    /\ wrote' = TRUE
    /\ Meet(h)
    /\ UNCHANGED <<phase, local, registered, removed, stale, failed>>

\* Mutant of Remove: a handle below level log bypasses the triggers.
RemoveUnlogged(h, rows) ==
    /\ phase[h] = "open"
    /\ Call
    /\ Writable(version[h].level)
    /\ db' = IF version[h].level = Log THEN Deleted(db, rows) ELSE [db EXCEPT !.quads = @ \ rows]
    /\ wrote' = TRUE
    /\ removed' = removed \cup rows
    /\ Meet(h)
    /\ UNCHANGED <<phase, local, registered, stale, failed>>

Remove(h, rows) ==
    /\ phase[h] = "open"
    /\ Call
    /\ Writable(version[h].level)
    /\ db' = Deleted(db, rows)
    /\ wrote' = TRUE
    /\ removed' = removed \cup rows
    /\ Meet(h)
    /\ UNCHANGED <<phase, local, registered, stale, failed>>

\* set_versioning: planned from the remembered state, then the statistics are loaded.
SetVersioning(h, to, allow_loss) ==
    LET x == Changed(version[h], to, allow_loss)
    IN  /\ phase[h] = "open"
        /\ to # version[h].level
        /\ Call
        /\ ~RefusesChange(version[h], to, allow_loss)
        /\ x.ok
        /\ db' = x.db
        /\ stale' = (stale \/ version[h] # db.meta)
        /\ Goto(h, "loading")
        /\ Meet(h)
        /\ UNCHANGED <<local, registered, wrote, removed, failed>>

LoadVersion(h) ==
    /\ phase[h] = "loading"
    /\ version' = [version EXCEPT ![h] = db.meta]
    /\ Goto(h, "open")
    /\ Meet(h)
    /\ UNCHANGED <<db, options, blank, entries, calls, registered, wrote, removed, stale, failed>>

\* optimize, or a write that touches the schema: the statistics are loaded again.
Optimize(h) ==
    /\ phase[h] = "open"
    /\ Goto(h, "loading")
    /\ Meet(h)
    /\ UNCHANGED <<db, local, calls, registered, wrote, removed, stale, failed>>

\* The process ends or dies, at any point.
Exit(h) == phase[h] # "closed" /\ Close(h) /\ UNCHANGED <<stale, failed>>

-----------------------------------------------------------------------------
\* No file, or a store of schema version 1 with some registrations and no other quad.
Init ==
    /\ registered \in SUBSET Registrations
    /\ \E v1 \in BOOLEAN :
          /\ ~v1 => registered = {}
          /\ db = [closure |-> IF v1 THEN "old" ELSE "none", legacy |-> v1,
                   quads |-> {}, meta |-> NoVersion, ticks |-> FALSE, column |-> FALSE,
                   log |-> FALSE, triggers |-> FALSE, logged |-> {}, frozen |-> {}]
    /\ phase = [h \in Handles |-> "closed"]
    /\ options = [h \in Handles |-> NoOptions]
    /\ blank = [h \in Handles |-> FALSE]
    /\ entries = [h \in Handles |-> {}]
    /\ version = [h \in Handles |-> NoVersion]
    /\ calls = 0
    /\ wrote = FALSE /\ removed = {} /\ stale = FALSE
    /\ met = [h \in Handles |-> FALSE] /\ failed = FALSE

OpenStep(h) ==
    \/ CreateSchema(h) \/ Inspect(h) \/ ReadLegacy(h) \/ Migrate(h) \/ LoadStats(h)
    \/ CheckEmpty(h) \/ RefuseOpen(h) \/ Upgrade(h) \/ Reload(h) \/ Bootstrap(h) \/ LoadFinal(h)
    \/ RequestFails(h)

Next == \E h \in Handles :
    \/ \E o \in Options : Open(h, o)
    \/ OpenStep(h)
    \/ \E q \in Quads : Insert(h, {q}) \/ Remove(h, {q})
    \/ \E to \in {Off, Stamped, Log}, allow_loss \in BOOLEAN : SetVersioning(h, to, allow_loss)
    \/ LoadVersion(h) \/ Optimize(h) \/ Exit(h)

\* A handle that is opening, and whose process lives, goes on.
Fairness == \A h \in Handles : WF_vars(OpenStep(h))

Spec == Init /\ [][Next]_vars /\ Fairness

-----------------------------------------------------------------------------
(***************************************************************************)
(* Properties.                                                             *)
(***************************************************************************)
\* Every variable holds what its field can hold.
TypeOK ==
    /\ db \in [closure : {"none", "old", "scoped"}, legacy : BOOLEAN, quads : SUBSET Quads,
               meta : VersionState, ticks : BOOLEAN, column : BOOLEAN, log : BOOLEAN,
               triggers : BOOLEAN, logged : SUBSET Quads, frozen : SUBSET Quads]
    /\ phase \in [Handles -> Opening \cup {"closed", "open", "loading"}]
    /\ options \in [Handles -> StoreOptions]
    /\ blank \in [Handles -> BOOLEAN]
    /\ entries \in [Handles -> SUBSET Registrations]
    /\ version \in [Handles -> VersionState]
    /\ calls \in 0..MaxCalls
    /\ registered \in SUBSET Registrations
    /\ wrote \in BOOLEAN /\ removed \in SUBSET Quads /\ stale \in BOOLEAN
    /\ met \in [Handles -> BOOLEAN]
    /\ failed \in BOOLEAN

\* What oxilite_meta says of the tables is true, so that a handle that knows it
\* can write, whoever upgraded, crashed or changed the level before; as long as
\* no level change was executed from an outdated state.
MetaMatchesTables ==
    ~stale =>
        /\ db.meta.stamp_column = db.column
        /\ db.meta.level >= Stamped => db.ticks /\ db.column
        /\ db.meta.history # "none" => db.log /\ db.ticks
        /\ db.triggers = (db.meta.level = Log)
        /\ db.log = (db.meta.history # "none")

\* A live log answers now what the store holds: also for what an opening wrote
\* without a tick, for writes of handles that do not know of the log, and for
\* those that came between the check for emptiness and the upgrade.
LogIsTheStore == ~stale /\ db.meta.level = Log => db.logged = db.quads

\* open_job migrates a version 1 store: once some handle is open, whichever
\* handles migrated and died, the tables are those of version 2 and every
\* registration is in the store unless a user removed it.
OpenedStoreIsMigrated ==
    (\E h \in Handles : phase[h] \in {"Stats", "open", "loading"}) =>
        /\ db.closure = "scoped"
        /\ ~db.legacy
        /\ registered \ removed \subseteq db.quads

\* StoreOptions::system_graphs "Install the system graphs in a blank store": when
\* a handle that asked for them is open on a store nobody wrote to, they are
\* there, even if an earlier opening died between its requests.  (A version 1
\* store with registrations is left out: migrated, it is no longer blank.)
SystemGraphsInstalled ==
    ~wrote /\ registered = {} =>
        \A h \in Handles : phase[h] = "open" /\ options[h].system_graphs =>
                               SystemQuads \subseteq db.quads

\* Opening fails, other than by refusing to raise the level, only when another
\* handle acted meanwhile: a process that tries again alone succeeds, whatever
\* the processes before it left behind.
OpenAloneWorks == ~failed

\* An opening that meets no other works, whatever was left behind, and
\* installs the system graphs it was asked for (open_job).
OpeningWorks == SystemGraphsInstalled /\ OpenAloneWorks

\* An opening ends: in a handle, in an error, or with its process.
OpeningEnds == \A h \in Handles : phase[h] \in Opening ~> phase[h] \notin Opening
=============================================================================
