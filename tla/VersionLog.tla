----------------------------- MODULE VersionLog -----------------------------
(***************************************************************************)
(* The versioned store of oxilite-core (version.rs, with the writers of    *)
(* writer.rs, ops.rs and update.rs that it captures).                      *)
(*                                                                         *)
(* A store has a level.  Off is the plain store.  Stamped keeps a clock: a *)
(* table of ticks, one per atomic write, and the tick that added each quad *)
(* (quads.t).  Log also keeps quad_log, filled by triggers on quads, from  *)
(* which the store at any past tick is read back.  Levels move one step at *)
(* a time; every move is a tick of its own kind, and those kinds bound the *)
(* part of the history that may be asked for.                              *)
(*                                                                         *)
(* The module describes the database as one up-to-date connection drives   *)
(* it.  An atomic request is a Begin step, its statements, an End step; a  *)
(* request that fails is rolled back to its savepoint, so it is the same   *)
(* as one that never began and has no step here.                           *)
(***************************************************************************)
EXTENDS Naturals

CONSTANTS
    Quads,         \* the quads (s, p, o, g) that writes name
    SystemQuads,   \* those a blank store is given when opened with system graphs
    Changes,       \* the level changes asked for, among LevelChanges
    MaxTick        \* bound: no request starts that could take the clock past it

Off     == 0
Stamped == 1
Log     == 2
Levels  == {Off, Stamped, Log}

\* LevelChange: a level, and index options left alone, created or dropped.
IndexOptions == {"keep", "create", "drop"}
LevelChanges == [to : Levels, allow_loss : BOOLEAN,
                 as_of_index : IndexOptions, stamp_index : IndexOptions]

ASSUME ConstantsAssumption == /\ SystemQuads \subseteq Quads
                              /\ Changes \subseteq LevelChanges
                              /\ MaxTick \in Nat

VARIABLES
    quads,         \* table quads: the quads present
    stamp,         \* column quads.t; 0 for a quad that is absent or unstamped
    terms,         \* the quads whose terms can be decoded (tables terms, triple_terms)
    head,          \* max(t) of table ticks; 0 when there is no tick
    ticks,         \* table ticks: the kind of each tick 1..head
    quad_log,      \* table quad_log: rows [q, tx, op], op 1 adds and 0 removes
    commits,       \* table commits
    level,         \* meta versioning
    history,       \* meta history
    stamp_column,  \* meta stamp_column: quads.t exists
    stamp_index,   \* meta stamp_index
    as_of_index,   \* meta as_of_index
    request,       \* the atomic request being executed
    change         \* the level change being executed

(***************************************************************************)
(* History variables: what the properties compare the tables with.  No     *)
(* action's guard or effect on the tables reads them.                      *)
(***************************************************************************)
VARIABLES
    snap,          \* snap[v]: the store when the request that opened tick v ended
    rewritten,     \* ticks whose store a later request changed without a new tick
    clock_since,   \* from this tick on, every quad added was stamped
    lost           \* an allow_loss change deleted history or ticks

tables == <<quads, stamp, terms, quad_log, commits>>
clock  == <<head, ticks>>
meta   == <<level, history, stamp_column, stamp_index, as_of_index>>
ghosts == <<snap, rewritten, clock_since, lost>>
vars   == <<tables, clock, meta, request, change, ghosts>>

-----------------------------------------------------------------------------
Histories == {"none", "live", "frozen"}

BoundaryKinds == {"genesis", "freeze", "resume", "dropped"}
Kinds         == BoundaryKinds \cup {"write", "level", "purge"}

NoChange == [to |-> Off, allow_loss |-> FALSE,
             as_of_index |-> "keep", stamp_index |-> "keep"]

LogRows == [q : Quads, tx : Nat, op : {0, 1}]

HasTicks == level >= Stamped \/ stamp_column \/ history # "none"

(***************************************************************************)
(* Reading versions: as_of_sql and the check of ResolveJob.                *)
(***************************************************************************)
\* Mutant of AsOf: a change after v hides the one before it.
AsOfUnbounded(v) ==
    {q \in Quads :
        \E l \in quad_log :
            /\ l.q = q /\ l.tx <= v /\ l.op = 1
            /\ ~\E r \in quad_log : r.q = q /\ r.tx > l.tx}

\* The quads whose latest logged change at or before v is an addition.
AsOf(v) ==
    {q \in Quads :
        \E l \in quad_log :
            /\ l.q = q /\ l.tx <= v /\ l.op = 1
            /\ ~\E r \in quad_log : r.q = q /\ r.tx > l.tx /\ r.tx <= v}

\* b is the last boundary of the history at or before v.
IsBoundaryOf(b, v) ==
    /\ b <= v
    /\ ticks[b] \in BoundaryKinds
    /\ \A c \in 1..head : b < c /\ c <= v => ticks[c] \notin BoundaryKinds

\* Tick v is a version that as-of queries accept.
Resolvable(v) ==
    /\ history # "none"
    /\ v \in 1..head
    /\ \E b \in 1..head :
          /\ IsBoundaryOf(b, v)
          /\ \/ ticks[b] \in {"genesis", "resume"}
             \/ ticks[b] = "freeze" /\ v = b

-----------------------------------------------------------------------------
(***************************************************************************)
(* Statements.                                                             *)
(***************************************************************************)
\* f with one more entry: a row of ticks, and its snapshot.
Extended(f, n, x) == [i \in 1..n + 1 |-> IF i = n + 1 THEN x ELSE f[i]]

\* Mutant of OpenTick: the clock skips a tick.
OpenTickSkips(kind, content) ==
    /\ head' = head + 2
    /\ ticks' = Extended(ticks, head, kind)
    /\ snap' = Extended(snap, head, content)

\* INSERT INTO ticks ... SELECT coalesce(max(t), 0) + 1: the content is what
\* the store holds when the request that opens the tick ends.
OpenTick(kind, content) ==
    /\ head' = head + 1
    /\ ticks' = Extended(ticks, head, kind)
    /\ snap' = Extended(snap, head, content)

\* Log rows of the quads S.
Rows(S, tx, op) == {[q |-> q, tx |-> tx, op |-> op] : q \in S}

\* Of the quads S, those with a row of the latest tick and the given op, and those rows.
Undone(S, op) == {r \in quad_log : r.q \in S /\ r.tx = head /\ r.op = op}
Fresh(S, op)  == {q \in S : [q |-> q, tx |-> head, op |-> op] \notin quad_log}

Committed(S) == commits' = IF S = {} THEN commits ELSE commits \cup {head}

\* Mutant of Capture: a change undone within its tick keeps its row.
CaptureKeepsUndone(S, op) ==
    IF level = Log
    THEN quad_log' = quad_log \cup Rows(Fresh(S, 1 - op), head, op) /\ Committed(S)
    ELSE UNCHANGED <<quad_log, commits>>

\* Mutant of Capture: the row is added although it undoes one of its tick.
CaptureAlwaysLogs(S, op) ==
    IF level = Log
    THEN quad_log' = (quad_log \ Undone(S, 1 - op)) \cup Rows(S, head, op) /\ Committed(S)
    ELSE UNCHANGED <<quad_log, commits>>

\* Mutant of Capture: the row undone may be of an earlier tick.
CaptureUndoesPast(S, op) ==
    IF level = Log
    THEN /\ quad_log' = {r \in quad_log : r.q \notin S \/ r.op = op}
                           \cup Rows(Fresh(S, 1 - op), head, op)
         /\ Committed(S)
    ELSE UNCHANGED <<quad_log, commits>>

\* Mutant of Capture: only additions make a commit.
CaptureCommitsAdditions(S, op) ==
    IF level = Log
    THEN /\ quad_log' = (quad_log \ Undone(S, 1 - op)) \cup Rows(Fresh(S, 1 - op), head, op)
         /\ IF op = 1 THEN Committed(S) ELSE UNCHANGED commits
    ELSE UNCHANGED <<quad_log, commits>>

\* The triggers on quads, present at level Log: the quads S were added (op 1)
\* or removed (op 0).  A change undone within its tick deletes its log row.
Capture(S, op) ==
    IF level = Log
    THEN /\ quad_log' = (quad_log \ Undone(S, 1 - op)) \cup Rows(Fresh(S, 1 - op), head, op)
         /\ Committed(S)
    ELSE UNCHANGED <<quad_log, commits>>

\* INSERT OR IGNORE INTO quads, the rows added stamped with t, and their terms.
InsertQuads(rows, t) ==
    LET added == rows \ quads
    IN  /\ quads' = quads \cup rows
        /\ stamp' = [q \in Quads |-> IF q \in added THEN t ELSE stamp[q]]
        /\ terms' = terms \cup rows
        /\ Capture(added, 1)

\* DELETE FROM quads.
DeleteQuads(rows) ==
    /\ quads' = quads \ rows
    /\ stamp' = [q \in Quads |-> IF q \in rows THEN 0 ELSE stamp[q]]
    /\ Capture(rows \cap quads, 0)

\* A request changed a clocked store without opening a tick.
Untracked ==
    rewritten' = IF level >= Stamped /\ quads' # quads THEN rewritten \cup {head}
                                                       ELSE rewritten

\* The store after a statement of a write belongs to the tick the write opened.
Observe == snap' = IF level >= Stamped THEN [snap EXCEPT ![head] = quads'] ELSE snap

-----------------------------------------------------------------------------
(***************************************************************************)
(* Writes.  prepare opens a tick in front of every atomic request that has *)
(* a statement it recognises as writing quads, from level Stamped on.      *)
(***************************************************************************)
BeginWrite ==
    /\ request = "none"
    /\ request' = "write"
    /\ IF level >= Stamped
       THEN head < MaxTick /\ OpenTick("write", quads)
       ELSE UNCHANGED <<clock, snap>>
    /\ UNCHANGED <<tables, meta, change, rewritten, clock_since, lost>>

\* Mutant of InsertStatement: the writer does not know of the clock.
InsertStatementUnstamped(rows) ==
    /\ request = "write"
    /\ InsertQuads(rows, 0)
    /\ Observe
    /\ UNCHANGED <<clock, meta, request, change, rewritten, clock_since, lost>>

InsertStatement(rows) ==
    /\ request = "write"
    /\ InsertQuads(rows, IF level >= Stamped THEN head ELSE 0)
    /\ Observe
    /\ UNCHANGED <<clock, meta, request, change, rewritten, clock_since, lost>>

DeleteStatement(rows) ==
    /\ request = "write"
    /\ DeleteQuads(rows)
    /\ Observe
    /\ UNCHANGED <<terms, clock, meta, request, change, rewritten, clock_since, lost>>

EndWrite ==
    /\ request = "write"
    /\ request' = "none"
    /\ UNCHANGED <<tables, clock, meta, change, ghosts>>

(***************************************************************************)
(* Requests that change quads and open no tick.                            *)
(*                                                                         *)
(* ClearAllGraphs is the update CLEAR ALL or DROP ALL on its own, Clear is *)
(* Store::clear: both say "DELETE FROM quads" with nothing after it, which *)
(* writes_quads does not recognise.  Clear also empties the term tables.   *)
(* OpenBlank is the end of open_job on a store without quads: the system   *)
(* graphs are written through the raw backend, so they get neither a tick  *)
(* nor a stamp.                                                            *)
(***************************************************************************)
ClearAllGraphs ==
    /\ request = "none"
    /\ DeleteQuads(quads)
    /\ Untracked
    /\ UNCHANGED <<terms, clock, meta, request, change, snap, clock_since, lost>>

Clear ==
    /\ request = "none"
    /\ DeleteQuads(quads)
    /\ terms' = {}
    /\ Untracked
    /\ UNCHANGED <<clock, meta, request, change, snap, clock_since, lost>>

OpenBlank ==
    /\ request = "none"
    /\ quads = {}
    /\ InsertQuads(SystemQuads, 0)
    /\ Untracked
    /\ clock_since' = IF level >= Stamped THEN head + 1 ELSE clock_since
    /\ UNCHANGED <<clock, meta, request, change, snap, lost>>

(***************************************************************************)
(* purge_request: the quads leave the store and every version.             *)
(***************************************************************************)
PurgeClock(rows) ==
    IF HasTicks
    THEN /\ head < MaxTick
         /\ head' = head + 1
         /\ ticks' = Extended(ticks, head, "purge")
         /\ snap' = [v \in 1..head + 1 |-> IF v = head + 1 THEN quads \ rows
                                                          ELSE snap[v] \ rows]
    ELSE UNCHANGED <<clock, snap>>

Purge(rows) ==
    /\ request = "none"
    /\ quads' = quads \ rows
    /\ stamp' = [q \in Quads |-> IF q \in rows THEN 0 ELSE stamp[q]]
    /\ quad_log' = IF history # "none" THEN {r \in quad_log : r.q \notin rows} ELSE quad_log
    /\ PurgeClock(rows)
    /\ UNCHANGED <<terms, commits, meta, request, change, rewritten, clock_since, lost>>

-----------------------------------------------------------------------------
(***************************************************************************)
(* Level changes.  change_statements plans the whole request, refusing it  *)
(* before anything is executed; each turn of its loops is a step here.     *)
(***************************************************************************)
\* The history and the stamp column the planned request leaves behind.
PlannedHistory(c) ==
    IF c.to = Log THEN "live"
    ELSE IF level = Log THEN (IF c.allow_loss THEN "none" ELSE "frozen")
    ELSE history

PlannedStampColumn(c) ==
    IF level < c.to THEN TRUE
    ELSE IF c.to = Off /\ level > Off THEN ~c.allow_loss /\ stamp_column
    ELSE stamp_column

\* Each level moved is a tick (or drops the clock).
Moves(c) == IF c.to > level THEN c.to - level ELSE level - c.to

\* Mutant of SetVersioning: a frozen history does not keep the clock.
SetVersioningUnguarded(c) ==
    /\ request = "none"
    /\ head + Moves(c) <= MaxTick
    /\ c.as_of_index = "create" => PlannedHistory(c) # "none"
    /\ c.stamp_index = "create" => PlannedStampColumn(c)
    /\ request' = "level"
    /\ change' = c
    /\ UNCHANGED <<tables, clock, meta, ghosts>>

SetVersioning(c) ==
    /\ request = "none"
    /\ head + Moves(c) <= MaxTick
    /\ c.to = Off /\ level = Stamped /\ c.allow_loss => history = "none"
    /\ c.as_of_index = "create" => PlannedHistory(c) # "none"
    /\ c.stamp_index = "create" => PlannedStampColumn(c)
    /\ request' = "level"
    /\ change' = c
    /\ UNCHANGED <<tables, clock, meta, ghosts>>

\* Off -> Stamped.
StartClock ==
    /\ request = "level" /\ level = Off /\ level < change.to
    /\ OpenTick("level", quads)
    /\ level' = Stamped
    /\ stamp_column' = TRUE
    /\ clock_since' = head + 1
    /\ UNCHANGED <<tables, history, stamp_index, as_of_index, request, change, rewritten, lost>>

\* Stamped -> Log without a log: the genesis records the whole store.
StartHistory ==
    /\ request = "level" /\ level = Stamped /\ level < change.to
    /\ history # "frozen"
    /\ OpenTick("genesis", quads)
    /\ quad_log' = quad_log \cup Rows(quads, head + 1, 1)
    /\ commits' = commits \cup {head + 1}
    /\ level' = Log
    /\ history' = "live"
    /\ UNCHANGED <<quads, stamp, terms, stamp_column, stamp_index, as_of_index, request, change,
                   rewritten, clock_since, lost>>

\* The tick the log froze at.
IsLastFreeze(f) ==
    /\ ticks[f] = "freeze"
    /\ \A c \in 1..head : ticks[c] = "freeze" => c <= f

\* Mutant of ResumeHistory: what was removed in the gap is not recorded.
ResumeHistoryOnlyAdds ==
    /\ request = "level" /\ level = Stamped /\ level < change.to
    /\ history = "frozen"
    /\ OpenTick("resume", quads)
    /\ \E f \in 1..head :
          IsLastFreeze(f) /\ quad_log' = quad_log \cup Rows(quads \ AsOf(f), head + 1, 1)
    /\ commits' = commits \cup {head + 1}
    /\ level' = Log
    /\ history' = "live"
    /\ UNCHANGED <<quads, stamp, terms, stamp_column, stamp_index, as_of_index, request, change,
                   rewritten, clock_since, lost>>

\* Stamped -> Log with a frozen log: the net changes of the gap are recorded.
ResumeHistory ==
    /\ request = "level" /\ level = Stamped /\ level < change.to
    /\ history = "frozen"
    /\ OpenTick("resume", quads)
    /\ \E f \in 1..head :
          /\ IsLastFreeze(f)
          /\ quad_log' = quad_log
                             \cup Rows(AsOf(f) \ quads, head + 1, 0)
                             \cup Rows(quads \ AsOf(f), head + 1, 1)
    /\ commits' = commits \cup {head + 1}
    /\ level' = Log
    /\ history' = "live"
    /\ UNCHANGED <<quads, stamp, terms, stamp_column, stamp_index, as_of_index, request, change,
                   rewritten, clock_since, lost>>

\* Log -> Stamped, keeping the log.
FreezeHistory ==
    /\ request = "level" /\ level = Log /\ level > change.to
    /\ ~change.allow_loss
    /\ OpenTick("freeze", quads)
    /\ level' = Stamped
    /\ history' = "frozen"
    /\ UNCHANGED <<tables, stamp_column, stamp_index, as_of_index, request, change,
                   rewritten, clock_since, lost>>

\* Log -> Stamped with allow_loss: the log and its indexes go.
DropHistory ==
    /\ request = "level" /\ level = Log /\ level > change.to
    /\ change.allow_loss
    /\ OpenTick("dropped", quads)
    /\ quad_log' = {}
    /\ commits' = {}
    /\ level' = Stamped
    /\ history' = "none"
    /\ as_of_index' = FALSE
    /\ lost' = TRUE
    /\ UNCHANGED <<quads, stamp, terms, stamp_column, stamp_index, request, change,
                   rewritten, clock_since>>

\* Stamped -> Off, keeping the ticks and the stamps.
StopClock ==
    /\ request = "level" /\ level = Stamped /\ level > change.to
    /\ ~change.allow_loss
    /\ OpenTick("level", quads)
    /\ level' = Off
    /\ UNCHANGED <<tables, history, stamp_column, stamp_index, as_of_index, request, change,
                   rewritten, clock_since, lost>>

\* Stamped -> Off with allow_loss: the stamp column and the ticks go.
DropClock ==
    /\ request = "level" /\ level = Stamped /\ level > change.to
    /\ change.allow_loss
    /\ head' = 0
    /\ ticks' = [i \in 1..0 |-> "level"]
    /\ snap' = [i \in 1..0 |-> {}]
    /\ stamp' = [q \in Quads |-> 0]
    /\ level' = Off
    /\ stamp_column' = FALSE
    /\ stamp_index' = FALSE
    /\ rewritten' = {}
    /\ lost' = TRUE
    /\ UNCHANGED <<quads, terms, quad_log, commits, history, as_of_index, request, change,
                   clock_since>>

\* The options on the indexes, then the request ends.
IndexAfter(option, index) == option = "create" \/ (option = "keep" /\ index)

EndChange ==
    /\ request = "level" /\ level = change.to
    /\ as_of_index' = IndexAfter(change.as_of_index, as_of_index)
    /\ stamp_index' = IndexAfter(change.stamp_index, stamp_index)
    /\ request' = "none"
    /\ change' = NoChange
    /\ UNCHANGED <<tables, clock, level, history, stamp_column, ghosts>>

-----------------------------------------------------------------------------
Init ==
    /\ quads = {} /\ terms = {} /\ quad_log = {} /\ commits = {}
    /\ stamp = [q \in Quads |-> 0]
    /\ head = 0
    /\ ticks = [i \in 1..0 |-> "level"]
    /\ level = Off /\ history = "none"
    /\ stamp_column = FALSE /\ stamp_index = FALSE /\ as_of_index = FALSE
    /\ request = "none" /\ change = NoChange
    /\ snap = [i \in 1..0 |-> {}]
    /\ rewritten = {} /\ clock_since = 0 /\ lost = FALSE

Next ==
    \/ BeginWrite
    \/ \E rows \in SUBSET Quads : InsertStatement(rows) \/ DeleteStatement(rows)
    \/ EndWrite
    \/ ClearAllGraphs
    \/ Clear
    \/ OpenBlank
    \/ \E rows \in SUBSET Quads : Purge(rows)
    \/ \E c \in Changes : SetVersioning(c)
    \/ StartClock \/ StartHistory \/ ResumeHistory
    \/ FreezeHistory \/ DropHistory \/ StopClock \/ DropClock
    \/ EndChange

Spec == Init /\ [][Next]_vars

-----------------------------------------------------------------------------
(***************************************************************************)
(* Properties.                                                             *)
(***************************************************************************)
\* Every variable holds what its column can hold.
TypeOK ==
    /\ quads \in SUBSET Quads
    /\ stamp \in [Quads -> Nat]
    /\ terms \in SUBSET Quads
    /\ head \in Nat
    /\ ticks \in [1..head -> Kinds]
    /\ quad_log \in SUBSET LogRows
    /\ commits \in SUBSET Nat
    /\ level \in Levels
    /\ history \in Histories
    /\ stamp_column \in BOOLEAN /\ stamp_index \in BOOLEAN /\ as_of_index \in BOOLEAN
    /\ request \in {"none", "write", "level"}
    /\ change \in LevelChanges
    /\ snap \in [1..head -> SUBSET Quads]
    /\ rewritten \in SUBSET Nat
    /\ clock_since \in Nat
    /\ lost \in BOOLEAN

\* A version accepted by ResolveJob whose log no allow_loss downgrade deleted since.
Recorded(v) == Resolvable(v) /\ \A c \in 1..head : v < c => ticks[c] # "dropped"

\* At level log the latest tick is a valid version and reading the log at it
\* gives the quads table: the triggers of capture_ddl, the genesis and the
\* resume between them miss no change and invent none.
HeadVersionIsStore ==
    level = Log => Resolvable(head) /\ AsOf(head) = quads

\* A query as of a recorded version sees the store as it was when the request
\* that opened the tick ended, whatever writes, purges, freezes and resumes
\* came later (as_of_sql over what capture_ddl and change_statements wrote).
\* The versions that a request without a tick changed are left out.
RecordedVersionsExact ==
    \A v \in 1..head : Recorded(v) /\ v \notin rewritten => AsOf(v) = snap[v]

\* Each row of quad_log is an effective change: an addition of a quad the
\* version before did not hold, or a removal of one it held.  In particular
\* the log never has an addition and a removal of a quad at one tick, so the
\* triggers' inserts never meet a row with their key.
LogIsEffective ==
    \A r \in quad_log :
        /\ (r.q \in AsOf(r.tx)) = (r.op = 1)
        /\ r.tx > 0 /\ (r.q \in AsOf(r.tx - 1)) = (r.op = 0)

\* HEAD~n walks the commits table: every commit in it is a version that
\* ResolveJob accepts, and no version that differs from the one before it is
\* missing from it.
CommitsAreTheVersions ==
    /\ \A c \in commits : Resolvable(c)
    /\ \A v \in 1..head :
          v > 1 /\ Recorded(v) /\ Recorded(v - 1) /\ AsOf(v) # AsOf(v - 1) => v \in commits

\* changes_job with only the clock reads "t > after": every quad present now
\* that was absent at tick a has a later stamp, as long as stamping has gone
\* on since a; and no stamp lies in the future.
AddedSince ==
    level >= Stamped =>
        \A q \in quads :
            /\ stamp[q] <= head
            /\ \A a \in 1..head : clock_since <= a /\ q \notin snap[a] => stamp[q] > a

\* A log, live or frozen, keeps the clock its ticks refer to; an index is
\* recorded only while its table or column exists (change_statements).
HistoryHasItsClock ==
    /\ history # "none" => head > 0 /\ stamp_column
    /\ as_of_index => history # "none"
    /\ stamp_index => stamp_column

\* The steps that may rewrite history: a purge and a downgrade with allow_loss.
RewritesHistory ==
    \/ head' < head
    \/ head' = head + 1 /\ ticks'[head'] \in {"purge", "dropped"}

\* No step but those changes what a version before the latest answers, or
\* takes it out of the recorded history.
PastVersionsFixed ==
    [][~RewritesHistory =>
          \A v \in 1..head :
             v < head /\ Resolvable(v) => Resolvable(v)' /\ AsOf(v)' = AsOf(v)]_vars

\* What TimeTravel calls the versions that can be asked for, and what they answer.
Versions == [v \in {u \in 1..head : Recorded(u)} |-> AsOf(v)]

Promise == INSTANCE TimeTravel
              WITH store <- quads, now <- head, recording <- (level = Log), versions <- Versions

\* The tables, triggers and level changes of version.rs implement TimeTravel:
\* what a query as of a version answers is a map that grows at its end while
\* the store records, and of which only a purge or a drop touches the rest.
ImplementsTimeTravel == Promise!Spec

-----------------------------------------------------------------------------
(* Instances for TLC.                                                      *)

\* Every level change, the indexes left alone.
PlainChanges == {c \in LevelChanges : c.as_of_index = "keep" /\ c.stamp_index = "keep"}

\* And those that ask for both indexes or drop one of them.
SomeChanges ==
    PlainChanges \cup {c \in LevelChanges : c.as_of_index = "create" /\ c.stamp_index # "keep"}
=============================================================================
