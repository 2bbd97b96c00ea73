-------------------------- MODULE VersionLogProofs --------------------------
(***************************************************************************)
(* Proofs about VersionLog, for every set of quads and every bound.        *)
(***************************************************************************)
EXTENDS VersionLog, TLAPS

-----------------------------------------------------------------------------
(***************************************************************************)
(* Logs.  At(L, v) is what as_of_sql reads at tick v from the log L.       *)
(***************************************************************************)
At(L, v) ==
    {q \in Quads :
        \E l \in L :
            /\ l.q = q /\ l.tx <= v /\ l.op = 1
            /\ ~\E r \in L : r.q = q /\ r.tx > l.tx /\ r.tx <= v}

\* Every row of L is an effective change.
Effective(L) ==
    \A r \in L :
        /\ (r.q \in At(L, r.tx)) = (r.op = 1)
        /\ r.tx > 0 /\ (r.q \in At(L, r.tx - 1)) = (r.op = 0)

\* What a version says of a quad depends only on the rows of that quad up to it.
LEMMA AtAgree ==
    ASSUME NEW L \in SUBSET LogRows, NEW M \in SUBSET LogRows,
           NEW q \in Quads, NEW v \in Nat,
           \A r \in LogRows : r.q = q /\ r.tx <= v => (r \in L <=> r \in M)
    PROVE  q \in At(L, v) <=> q \in At(M, v)
  BY DEF At, LogRows

\* A tick without a row of the quad says what the tick before said.
LEMMA AtQuiet ==
    ASSUME NEW L \in SUBSET LogRows, NEW q \in Quads, NEW v \in Nat, v > 0,
           \A r \in L : r.q = q => r.tx # v
    PROVE  q \in At(L, v) <=> q \in At(L, v - 1)
  <1>1. \A r \in L : r.q = q => (r.tx <= v <=> r.tx <= v - 1)
    BY DEF LogRows
  <1>2. QED  BY <1>1 DEF At, LogRows

\* Past the last row nothing changes.
LEMMA AtBeyond ==
    ASSUME NEW L \in SUBSET LogRows, NEW h \in Nat, NEW v \in Nat, v >= h,
           \A r \in L : r.tx <= h
    PROVE  At(L, v) = At(L, h)
  BY DEF At, LogRows

\* An effective log has at most one row of a quad at a tick.
LEMMA OneRowPerTick ==
    ASSUME NEW L \in SUBSET LogRows, Effective(L),
           NEW r \in L, NEW s \in L, r.q = s.q, r.tx = s.tx
    PROVE  r.op = s.op
  BY DEF Effective, LogRows

\* The log after the triggers saw the quads S added (op 1) or removed (op 0)
\* at tick h: the row of a change they undo goes, the others get a row.
Captured(L, S, h, op) ==
    (L \ {r \in L : r.q \in S /\ r.tx = h /\ r.op = 1 - op})
        \cup Rows({q \in S : [q |-> q, tx |-> h, op |-> 1 - op] \notin L}, h, op)

\* M is the log L after that capture, told by its members.
IsCaptured(M, L, S, h, op) ==
    /\ M \in SUBSET LogRows
    /\ \A r \in LogRows :
          r \in M <=> \/ r \in L /\ ~(r.q \in S /\ r.tx = h /\ r.op = 1 - op)
                      \/ /\ r.q \in S /\ r.tx = h /\ r.op = op
                         /\ [q |-> r.q, tx |-> h, op |-> 1 - op] \notin L

\* Which rows the captured log has.
LEMMA CapturedRows ==
    ASSUME NEW L \in SUBSET LogRows, NEW h \in Nat, NEW S \in SUBSET Quads,
           NEW op \in {0, 1}
    PROVE  IsCaptured(Captured(L, S, h, op), L, S, h, op)
  <1> DEFINE N == {q \in S : [q |-> q, tx |-> h, op |-> 1 - op] \notin L}
  <1>1. Rows(N, h, op) \in SUBSET LogRows
    <2>1. SUFFICES ASSUME NEW r \in Rows(N, h, op)
                   PROVE  r \in LogRows
      OBVIOUS
    <2>2. PICK p \in N : r = [q |-> p, tx |-> h, op |-> op]
      BY DEF Rows
    <2>3. p \in Quads
      OBVIOUS
    <2> HIDE DEF N
    <2>4. QED  BY <2>2, <2>3 DEF LogRows
  <1>2. \A r \in LogRows : r \in Rows(N, h, op) <=> r.q \in N /\ r.tx = h /\ r.op = op
    <2>1. SUFFICES ASSUME NEW r \in LogRows
                   PROVE  r \in Rows(N, h, op) <=> r.q \in N /\ r.tx = h /\ r.op = op
      OBVIOUS
    <2>2. r = [q |-> r.q, tx |-> r.tx, op |-> r.op]
      BY DEF LogRows
    <2> HIDE DEF N
    <2>3. ASSUME r.q \in N, r.tx = h, r.op = op
          PROVE  r \in Rows(N, h, op)
      BY <2>2, <2>3 DEF Rows
    <2>4. ASSUME r \in Rows(N, h, op)
          PROVE  r.q \in N /\ r.tx = h /\ r.op = op
      <3>1. PICK p \in N : r = [q |-> p, tx |-> h, op |-> op]
        BY <2>4 DEF Rows
      <3>2. QED  BY <3>1
    <2>5. QED  BY <2>3, <2>4
  <1>3. \A r \in LogRows : r.q \in N <=> r.q \in S /\ [q |-> r.q, tx |-> h, op |-> 1 - op] \notin L
    OBVIOUS
  <1>4. Captured(L, S, h, op)
           = (L \ {r \in L : r.q \in S /\ r.tx = h /\ r.op = 1 - op}) \cup Rows(N, h, op)
    BY DEF Captured
  <1> HIDE DEF N
  <1>5. QED  BY <1>1, <1>2, <1>3, <1>4 DEF IsCaptured

\* capture_ddl: if the log says of every quad of S that the change is
\* effective, the log stays effective, its latest version changes by exactly
\* S, and no earlier version changes.
LEMMA CaptureLemma ==
    ASSUME NEW L \in SUBSET LogRows, NEW h \in Nat, h > 0,
           NEW S \in SUBSET Quads, NEW op \in {0, 1},
           Effective(L),
           \A r \in L : r.tx <= h,
           \A q \in S : q \in At(L, h) <=> op = 0
    PROVE  LET M == Captured(L, S, h, op)
           IN  /\ M \in SUBSET LogRows
               /\ \A r \in M : r.tx <= h
               /\ \A v \in Nat : v < h => At(M, v) = At(L, v)
               /\ At(M, h) = IF op = 1 THEN At(L, h) \cup S ELSE At(L, h) \ S
               /\ Effective(M)
  <1> DEFINE M == Captured(L, S, h, op)
  <1> HIDE DEF M
  <1>0. IsCaptured(M, L, S, h, op)
    BY CapturedRows DEF M
  <1>1. M \in SUBSET LogRows
    BY <1>0 DEF IsCaptured
  <1>2. \A r \in M : r.tx <= h
    <2>1. SUFFICES ASSUME NEW r \in M
                   PROVE  r.tx <= h
      OBVIOUS
    <2>2. r \in L \/ r.tx = h
      BY <1>0 DEF IsCaptured
    <2>3. QED  BY <2>2
  <1>3. \A r \in LogRows : r.tx < h \/ r.q \notin S => (r \in L <=> r \in M)
    <2>1. SUFFICES ASSUME NEW r \in LogRows, r.tx < h \/ r.q \notin S
                   PROVE  r \in L <=> r \in M
      OBVIOUS
    <2>2. ~(r.q \in S /\ r.tx = h)
      BY <2>1
    <2>3. QED  BY <1>0, <2>2 DEF IsCaptured
  <1>4. \A v \in Nat : v < h => At(M, v) = At(L, v)
    <2>1. SUFFICES ASSUME NEW v \in Nat, v < h, NEW q \in Quads
                   PROVE  q \in At(M, v) <=> q \in At(L, v)
      BY DEF At
    <2>2. \A r \in LogRows : r.q = q /\ r.tx <= v => (r \in L <=> r \in M)
      BY <2>1, <1>3 DEF LogRows
    <2>3. QED  BY <2>2, <1>1, AtAgree
  <1>5. \A q \in Quads : q \notin S => (q \in At(M, h) <=> q \in At(L, h))
    <2>1. SUFFICES ASSUME NEW q \in Quads, q \notin S
                   PROVE  q \in At(M, h) <=> q \in At(L, h)
      OBVIOUS
    <2>2. \A r \in LogRows : r.q = q /\ r.tx <= h => (r \in L <=> r \in M)
      BY <2>1, <1>3
    <2>3. QED  BY <2>2, <1>1, AtAgree
  <1>6. ASSUME NEW q \in S, [q |-> q, tx |-> h, op |-> 1 - op] \in L
        PROVE  /\ q \in At(M, h) <=> op = 1
               /\ \A r \in M : r.q = q => r.tx # h
    <2> DEFINE row == [q |-> q, tx |-> h, op |-> 1 - op]
    <2>1. \A r \in L : r.q = q /\ r.tx = h => r.op = 1 - op
      BY <1>6, OneRowPerTick DEF LogRows
    <2>2. \A r \in M : r.q = q => r.tx # h
      BY <1>0, <1>1, <1>6, <2>1 DEF IsCaptured, LogRows
    <2>3. q \in At(L, h - 1) <=> 1 - op = 0
      BY <1>6 DEF Effective
    <2>4. q \in At(M, h) <=> q \in At(M, h - 1)
      BY <2>2, <1>1, AtQuiet
    <2>5. At(M, h - 1) = At(L, h - 1)
      BY <1>4
    <2>6. QED  BY <2>2, <2>3, <2>4, <2>5
  <1>7. ASSUME NEW q \in S, [q |-> q, tx |-> h, op |-> 1 - op] \notin L
        PROVE  /\ q \in At(M, h) <=> op = 1
               /\ \A r \in M : r.q = q /\ r.tx = h => r.op = op
               /\ q \in At(M, h - 1) <=> op = 0
    <2> DEFINE row == [q |-> q, tx |-> h, op |-> op]
    <2>1. row \in M /\ row \in LogRows
      BY <1>0, <1>7 DEF IsCaptured, LogRows
    <2>2. \A r \in M : r.q = q /\ r.tx = h => r.op = op
      BY <1>0, <1>1, <1>7 DEF IsCaptured, LogRows
    <2>3. q \in At(M, h) <=> op = 1
      <3>1. CASE op = 1
        BY <3>1, <2>1, <1>1, <1>2 DEF At, LogRows
      <3>2. CASE op = 0
        BY <3>2, <2>1, <2>2, <1>1 DEF At, LogRows
      <3>3. QED  BY <3>1, <3>2
    <2>4. \A r \in L : r.q = q => r.tx # h
      <3>1. SUFFICES ASSUME NEW r \in L, r.q = q, r.tx = h
                     PROVE  FALSE
        OBVIOUS
      <3>2. r = [q |-> q, tx |-> h, op |-> r.op] /\ r.op \in {0, 1}
        BY <3>1 DEF LogRows
      <3>3. r.op = op
        BY <3>2, <1>7
      <3>4. q \in At(L, h) <=> op = 1
        BY <3>1, <3>3 DEF Effective
      <3>5. QED  BY <3>4
    <2>5. q \in At(L, h) <=> q \in At(L, h - 1)
      BY <2>4, AtQuiet
    <2>6. At(M, h - 1) = At(L, h - 1)
      BY <1>4
    <2>7. QED  BY <2>2, <2>3, <2>5, <2>6
  <1>8. \A q \in S : q \in At(M, h) <=> op = 1
    BY <1>6, <1>7
  <1>9. At(M, h) = IF op = 1 THEN At(L, h) \cup S ELSE At(L, h) \ S
    <2>1. At(M, h) \in SUBSET Quads /\ At(L, h) \in SUBSET Quads
      BY DEF At
    <2>2. QED  BY <2>1, <1>5, <1>8
  <1>10. Effective(M)
    <2>1. SUFFICES ASSUME NEW r \in M
                   PROVE  /\ (r.q \in At(M, r.tx)) = (r.op = 1)
                          /\ r.tx > 0 /\ (r.q \in At(M, r.tx - 1)) = (r.op = 0)
      BY DEF Effective
    <2>2. r.q \in Quads /\ r.tx \in Nat /\ r.op \in {0, 1} /\ r.tx <= h
      BY <1>1, <1>2 DEF LogRows
    <2>3. CASE r.tx < h
      <3>1. r \in L
        BY <2>3, <1>1, <1>3
      <3>2. At(M, r.tx) = At(L, r.tx)
        BY <2>2, <2>3, <1>4
      <3>3. r.tx > 0
        BY <3>1 DEF Effective
      <3>4. At(M, r.tx - 1) = At(L, r.tx - 1)
        BY <2>2, <2>3, <3>3, <1>4
      <3>5. QED  BY <3>1, <3>2, <3>3, <3>4 DEF Effective
    <2>4. CASE r.tx = h /\ r.q \notin S
      <3>1. r \in L
        BY <2>4, <1>1, <1>3
      <3>2. r.q \in At(M, h) <=> r.q \in At(L, h)
        BY <2>2, <2>4, <1>5
      <3>3. At(M, h - 1) = At(L, h - 1)
        BY <1>4
      <3>4. QED  BY <2>4, <3>1, <3>2, <3>3 DEF Effective
    <2>5. CASE r.tx = h /\ r.q \in S
      <3>1. [q |-> r.q, tx |-> h, op |-> 1 - op] \notin L
        BY <2>5, <1>6
      <3>2. QED  BY <2>2, <2>5, <3>1, <1>7
    <2>6. QED  BY <2>2, <2>3, <2>4, <2>5
  <1>11. QED  BY <1>1, <1>2, <1>4, <1>9, <1>10 DEF M

-----------------------------------------------------------------------------
(***************************************************************************)
(* Types.                                                                  *)
(***************************************************************************)
\* Appending a tick, or its snapshot, gives a function on one more tick.
LEMMA ExtendedType ==
    ASSUME NEW T, NEW n \in Nat, NEW f \in [1..n -> T], NEW x \in T
    PROVE  Extended(f, n, x) \in [1..n + 1 -> T]
  <1>1. \A i \in 1..n + 1 : i # n + 1 => i \in 1..n
    OBVIOUS
  <1>2. QED  BY <1>1 DEF Extended

\* The rows of some quads are log rows.
LEMMA RowsType ==
    ASSUME NEW S \in SUBSET Quads, NEW h \in Nat, NEW op \in {0, 1}
    PROVE  Rows(S, h, op) \in SUBSET LogRows
  <1>1. SUFFICES ASSUME NEW r \in Rows(S, h, op)
                 PROVE  r \in LogRows
    OBVIOUS
  <1>2. PICK q \in S : r = [q |-> q, tx |-> h, op |-> op]
    BY DEF Rows
  <1>3. q \in Quads
    OBVIOUS
  <1>4. QED  BY <1>2, <1>3 DEF LogRows

\* The triggers leave a log and commits of the right type, at any level.
LEMMA CaptureType ==
    ASSUME TypeOK, NEW S \in SUBSET Quads, NEW op \in {0, 1}, Capture(S, op)
    PROVE  quad_log' \in SUBSET LogRows /\ commits' \in SUBSET Nat
  <1>1. CASE level = Log
    <2>1. quad_log' = (quad_log \ Undone(S, 1 - op)) \cup Rows(Fresh(S, 1 - op), head, op)
      BY <1>1 DEF Capture
    <2>2. Rows(Fresh(S, 1 - op), head, op) \in SUBSET LogRows
      BY RowsType DEF TypeOK, Fresh
    <2>3. quad_log' \in SUBSET LogRows
      BY <2>1, <2>2 DEF TypeOK
    <2>4. commits' \in SUBSET Nat
      BY <1>1 DEF Capture, Committed, TypeOK
    <2>5. QED  BY <2>3, <2>4
  <1>2. CASE level # Log
    BY <1>2 DEF Capture, TypeOK
  <1>3. QED  BY <1>1, <1>2

\* Opening a tick keeps the clock's type.
LEMMA OpenTickType ==
    ASSUME TypeOK, NEW k \in Kinds, NEW S \in SUBSET Quads, OpenTick(k, S)
    PROVE  /\ head' \in Nat
           /\ ticks' \in [1..head' -> Kinds]
           /\ snap' \in [1..head' -> SUBSET Quads]
  <1>1. Extended(ticks, head, k) \in [1..head + 1 -> Kinds]
    BY ExtendedType DEF TypeOK
  <1>2. Extended(snap, head, S) \in [1..head + 1 -> SUBSET Quads]
    BY ExtendedType DEF TypeOK
  <1>3. QED  BY <1>1, <1>2 DEF OpenTick, TypeOK

\* An empty table of ticks, and its snapshots.
LEMMA NoTicksType ==
    /\ [i \in 1..0 |-> "level"] \in [1..0 -> Kinds]
    /\ [i \in 1..0 |-> {}] \in [1..0 -> SUBSET Quads]
  BY DEF Kinds

\* Every variable holds what its column can hold, in every reachable state of
\* the versioned store.
THEOREM TypeCorrect == Spec => []TypeOK
  <1>1. Init => TypeOK
    <2>1. SUFFICES ASSUME Init
                   PROVE  TypeOK
      OBVIOUS
    <2>2. head \in Nat /\ ticks \in [1..head -> Kinds] /\ snap \in [1..head -> SUBSET Quads]
      BY <2>1, NoTicksType DEF Init
    <2>3. NoChange \in LevelChanges
      BY DEF NoChange, LevelChanges, IndexOptions, Levels, Off
    <2>4. QED  BY <2>1, <2>2, <2>3 DEF Init, TypeOK, Levels, Histories, Off
  <1>2. TypeOK /\ [Next]_vars => TypeOK'
    <2>1. SUFFICES ASSUME TypeOK, [Next]_vars
                   PROVE  TypeOK'
      OBVIOUS
    <2>2. CASE BeginWrite
      <3>1. CASE level >= Stamped
        <4>1. OpenTick("write", quads)
          BY <2>2, <3>1 DEF BeginWrite
        <4>2. /\ head' \in Nat
              /\ ticks' \in [1..head' -> Kinds]
              /\ snap' \in [1..head' -> SUBSET Quads]
          BY <2>1, <4>1, OpenTickType DEF TypeOK, Kinds
        <4>3. QED  BY <2>1, <2>2, <4>2 DEF BeginWrite, TypeOK, tables, meta
      <3>2. CASE ~(level >= Stamped)
        BY <2>1, <2>2, <3>2 DEF BeginWrite, TypeOK, tables, meta, clock
      <3>3. QED  BY <3>1, <3>2
    <2>3. ASSUME NEW rows \in SUBSET Quads, InsertStatement(rows)
          PROVE  TypeOK'
      <3> DEFINE t == IF level >= Stamped THEN head ELSE 0
      <3>1. InsertQuads(rows, t)
        BY <2>3 DEF InsertStatement
      <3>2. quad_log' \in SUBSET LogRows /\ commits' \in SUBSET Nat
        BY <2>1, <3>1, CaptureType DEF InsertQuads
      <3>3. t \in Nat
        BY <2>1 DEF TypeOK
      <3>4. quads' \in SUBSET Quads /\ terms' \in SUBSET Quads /\ stamp' \in [Quads -> Nat]
        BY <2>1, <3>1, <3>3 DEF InsertQuads, TypeOK
      <3>5. snap' \in [1..head' -> SUBSET Quads]
        BY <2>1, <2>3, <3>4 DEF InsertStatement, Observe, TypeOK, clock
      <3>6. QED
        BY <2>1, <2>3, <3>2, <3>4, <3>5 DEF InsertStatement, TypeOK, clock, meta
    <2>4. ASSUME NEW rows \in SUBSET Quads, DeleteStatement(rows)
          PROVE  TypeOK'
      <3>1. quad_log' \in SUBSET LogRows /\ commits' \in SUBSET Nat
        BY <2>1, <2>4, CaptureType DEF DeleteStatement, DeleteQuads
      <3>2. quads' \in SUBSET Quads /\ stamp' \in [Quads -> Nat]
        BY <2>1, <2>4 DEF DeleteStatement, DeleteQuads, TypeOK
      <3>3. snap' \in [1..head' -> SUBSET Quads]
        BY <2>1, <2>4, <3>2 DEF DeleteStatement, Observe, TypeOK, clock
      <3>4. QED
        BY <2>1, <2>4, <3>1, <3>2, <3>3 DEF DeleteStatement, TypeOK, clock, meta
    <2>5. CASE EndWrite
      BY <2>1, <2>5 DEF EndWrite, TypeOK, tables, clock, meta, ghosts
    <2>6. CASE ClearAllGraphs \/ Clear
      <3>1. DeleteQuads(quads) /\ quads \in SUBSET Quads
        BY <2>1, <2>6 DEF ClearAllGraphs, Clear, TypeOK
      <3>2. quad_log' \in SUBSET LogRows /\ commits' \in SUBSET Nat
        BY <2>1, <3>1, CaptureType DEF DeleteQuads
      <3>3. quads' \in SUBSET Quads /\ stamp' \in [Quads -> Nat]
        BY <2>1, <3>1 DEF DeleteQuads, TypeOK
      <3>4. terms' \in SUBSET Quads /\ rewritten' \in SUBSET Nat
        BY <2>1, <2>6 DEF ClearAllGraphs, Clear, Untracked, TypeOK
      <3>5. QED
        BY <2>1, <2>6, <3>2, <3>3, <3>4 DEF ClearAllGraphs, Clear, TypeOK, clock, meta
    <2>7. CASE OpenBlank
      <3>1. InsertQuads(SystemQuads, 0) /\ SystemQuads \in SUBSET Quads
        BY <2>7, ConstantsAssumption DEF OpenBlank
      <3>2. quad_log' \in SUBSET LogRows /\ commits' \in SUBSET Nat
        BY <2>1, <3>1, CaptureType DEF InsertQuads
      <3>3. quads' \in SUBSET Quads /\ terms' \in SUBSET Quads /\ stamp' \in [Quads -> Nat]
        BY <2>1, <3>1 DEF InsertQuads, TypeOK
      <3>4. rewritten' \in SUBSET Nat /\ clock_since' \in Nat
        BY <2>1, <2>7 DEF OpenBlank, Untracked, TypeOK
      <3>5. QED
        BY <2>1, <2>7, <3>2, <3>3, <3>4 DEF OpenBlank, TypeOK, clock, meta
    <2>8. ASSUME NEW rows \in SUBSET Quads, Purge(rows)
          PROVE  TypeOK'
      <3>1. quads' \in SUBSET Quads /\ stamp' \in [Quads -> Nat] /\ quad_log' \in SUBSET LogRows
        BY <2>1, <2>8 DEF Purge, TypeOK
      <3>2. /\ head' \in Nat
            /\ ticks' \in [1..head' -> Kinds]
            /\ snap' \in [1..head' -> SUBSET Quads]
        <4>1. CASE HasTicks
          <5>1. Extended(ticks, head, "purge") \in [1..head + 1 -> Kinds]
            BY <2>1, ExtendedType DEF TypeOK, Kinds
          <5>2. \A v \in 1..head + 1 : v # head + 1 => v \in 1..head
            BY <2>1 DEF TypeOK
          <5>3. snap' \in [1..head + 1 -> SUBSET Quads]
            BY <2>1, <2>8, <4>1, <5>2 DEF Purge, PurgeClock, TypeOK
          <5>4. QED  BY <2>1, <2>8, <4>1, <5>1, <5>3 DEF Purge, PurgeClock, TypeOK
        <4>2. CASE ~HasTicks
          BY <2>1, <2>8, <4>2 DEF Purge, PurgeClock, TypeOK, clock
        <4>3. QED  BY <4>1, <4>2
      <3>3. QED  BY <2>1, <2>8, <3>1, <3>2 DEF Purge, TypeOK, meta
    <2>9. ASSUME NEW c \in Changes, SetVersioning(c)
          PROVE  TypeOK'
      BY <2>1, <2>9, ConstantsAssumption
         DEF SetVersioning, TypeOK, tables, clock, meta, ghosts
    <2>10. CASE StartClock
      <3>1. /\ head' \in Nat
            /\ ticks' \in [1..head' -> Kinds]
            /\ snap' \in [1..head' -> SUBSET Quads]
        BY <2>1, <2>10, OpenTickType DEF StartClock, TypeOK, Kinds
      <3>2. QED  BY <2>1, <2>10, <3>1 DEF StartClock, TypeOK, tables, Levels, Stamped
    <2>11. CASE StartHistory
      <3>1. /\ head' \in Nat
            /\ ticks' \in [1..head' -> Kinds]
            /\ snap' \in [1..head' -> SUBSET Quads]
        BY <2>1, <2>11, OpenTickType DEF StartHistory, TypeOK, Kinds, BoundaryKinds
      <3>2. Rows(quads, head + 1, 1) \in SUBSET LogRows
        <4>1. quads \in SUBSET Quads /\ head + 1 \in Nat
          BY <2>1 DEF TypeOK
        <4>2. QED  BY <4>1, RowsType
      <3>3. quad_log' \in SUBSET LogRows /\ commits' \in SUBSET Nat
        BY <2>1, <2>11, <3>2 DEF StartHistory, TypeOK
      <3>4. QED
        BY <2>1, <2>11, <3>1, <3>3 DEF StartHistory, TypeOK, Levels, Log, Histories
    <2>12. CASE ResumeHistory
      <3>1. /\ head' \in Nat
            /\ ticks' \in [1..head' -> Kinds]
            /\ snap' \in [1..head' -> SUBSET Quads]
        BY <2>1, <2>12, OpenTickType DEF ResumeHistory, TypeOK, Kinds, BoundaryKinds
      <3>2. PICK f \in 1..head :
                quad_log' = quad_log \cup Rows(AsOf(f) \ quads, head + 1, 0)
                                     \cup Rows(quads \ AsOf(f), head + 1, 1)
        BY <2>12 DEF ResumeHistory
      <3>3. AsOf(f) \ quads \in SUBSET Quads /\ quads \ AsOf(f) \in SUBSET Quads
        BY <2>1 DEF TypeOK, AsOf
      <3>4. /\ Rows(AsOf(f) \ quads, head + 1, 0) \in SUBSET LogRows
            /\ Rows(quads \ AsOf(f), head + 1, 1) \in SUBSET LogRows
        <4>1. head + 1 \in Nat
          BY <2>1 DEF TypeOK
        <4>2. QED  BY <3>3, <4>1, RowsType
      <3>5. quad_log' \in SUBSET LogRows
        <4>1. quad_log \in SUBSET LogRows
          BY <2>1 DEF TypeOK
        <4>2. QED  BY <3>2, <3>4, <4>1
      <3>6. commits' \in SUBSET Nat
        BY <2>1, <2>12 DEF ResumeHistory, TypeOK
      <3>7. QED
        BY <2>1, <2>12, <3>1, <3>5, <3>6 DEF ResumeHistory, TypeOK, Levels, Log, Histories
    <2>13. CASE FreezeHistory
      <3>1. /\ head' \in Nat
            /\ ticks' \in [1..head' -> Kinds]
            /\ snap' \in [1..head' -> SUBSET Quads]
        BY <2>1, <2>13, OpenTickType DEF FreezeHistory, TypeOK, Kinds, BoundaryKinds
      <3>2. QED
        BY <2>1, <2>13, <3>1 DEF FreezeHistory, TypeOK, tables, Levels, Stamped, Histories
    <2>14. CASE DropHistory
      <3>1. /\ head' \in Nat
            /\ ticks' \in [1..head' -> Kinds]
            /\ snap' \in [1..head' -> SUBSET Quads]
        BY <2>1, <2>14, OpenTickType DEF DropHistory, TypeOK, Kinds, BoundaryKinds
      <3>2. QED  BY <2>1, <2>14, <3>1 DEF DropHistory, TypeOK, Levels, Stamped, Histories
    <2>15. CASE StopClock
      <3>1. /\ head' \in Nat
            /\ ticks' \in [1..head' -> Kinds]
            /\ snap' \in [1..head' -> SUBSET Quads]
        BY <2>1, <2>15, OpenTickType DEF StopClock, TypeOK, Kinds
      <3>2. QED  BY <2>1, <2>15, <3>1 DEF StopClock, TypeOK, tables, Levels, Off
    <2>16. CASE DropClock
      <3>1. /\ head' \in Nat
            /\ ticks' \in [1..head' -> Kinds]
            /\ snap' \in [1..head' -> SUBSET Quads]
        BY <2>16, NoTicksType DEF DropClock
      <3>2. QED  BY <2>1, <2>16, <3>1 DEF DropClock, TypeOK, Levels, Off
    <2>17. CASE EndChange
      BY <2>1, <2>17 DEF EndChange, IndexAfter, TypeOK, tables, clock, ghosts,
                         NoChange, LevelChanges, IndexOptions, Levels, Off
    <2>18. CASE UNCHANGED vars
      BY <2>1, <2>18 DEF vars, TypeOK, tables, clock, meta, ghosts
    <2>19. QED
      BY <2>1, <2>2, <2>3, <2>4, <2>5, <2>6, <2>7, <2>8, <2>9, <2>10, <2>11, <2>12, <2>13,
         <2>14, <2>15, <2>16, <2>17, <2>18 DEF Next
  <1>3. QED  BY <1>1, <1>2, PTL DEF Spec

-----------------------------------------------------------------------------
\* What the accepted change still promises at each of its steps.
ChangeInv ==
    request = "level" =>
        /\ change.to = Off /\ level = Stamped /\ change.allow_loss => history = "none"
        /\ change.as_of_index = "create" => PlannedHistory(change) # "none"
        /\ change.stamp_index = "create" => PlannedStampColumn(change)

\* Levels above off have the clock, and the log is live at level log only.
LevelInv ==
    /\ level >= Stamped => head > 0 /\ stamp_column
    /\ level = Log <=> history = "live"

\* What makes HistoryHasItsClock inductive.
ClockInv == HistoryHasItsClock /\ LevelInv /\ ChangeInv

\* ClockInv is inductive, given the types.
LEMMA ClockStep ==
    ASSUME TypeOK, ClockInv, [Next]_vars
    PROVE  ClockInv'
  <1> USE DEF Off, Stamped, Log
  <1>1. head \in Nat /\ level \in {0, 1, 2} /\ history \in {"none", "live", "frozen"}
    BY DEF TypeOK, Levels, Histories
  <1>2. change.to \in {0, 1, 2} /\ change.allow_loss \in BOOLEAN
    BY DEF TypeOK, LevelChanges, Levels
  <1>3. ASSUME head' \in Nat, head' >= head, UNCHANGED <<meta, request, change>>
        PROVE  ClockInv'
    BY <1>1, <1>3 DEF ClockInv, HistoryHasItsClock, LevelInv, ChangeInv, PlannedHistory,
                      PlannedStampColumn, meta
  <1>4. CASE BeginWrite
    <2>1. head' \in Nat /\ head' >= head /\ UNCHANGED <<meta, change>> /\ request' = "write"
      BY <1>1, <1>4 DEF BeginWrite, OpenTick, clock
    <2>2. QED  BY <1>1, <2>1 DEF ClockInv, HistoryHasItsClock, LevelInv, ChangeInv, meta
  <1>5. CASE \E rows \in SUBSET Quads : InsertStatement(rows) \/ DeleteStatement(rows)
    BY <1>1, <1>3, <1>5 DEF InsertStatement, DeleteStatement, clock
  <1>6. CASE EndWrite
    BY <1>1, <1>6 DEF EndWrite, ClockInv, HistoryHasItsClock, LevelInv, ChangeInv, meta, clock
  <1>7. CASE ClearAllGraphs \/ Clear \/ OpenBlank
    BY <1>1, <1>3, <1>7 DEF ClearAllGraphs, Clear, OpenBlank, clock
  <1>8. CASE \E rows \in SUBSET Quads : Purge(rows)
    BY <1>1, <1>3, <1>8 DEF Purge, PurgeClock, clock
  <1>9. CASE \E c \in Changes : SetVersioning(c)
    BY <1>1, <1>9 DEF SetVersioning, ClockInv, HistoryHasItsClock, LevelInv, ChangeInv, meta,
                      clock, PlannedHistory, PlannedStampColumn
  <1>10. CASE StartClock
    BY <1>1, <1>2, <1>10 DEF StartClock, OpenTick, ClockInv, HistoryHasItsClock, LevelInv,
                       ChangeInv, PlannedHistory, PlannedStampColumn
  <1>11. CASE StartHistory
    BY <1>1, <1>2, <1>11 DEF StartHistory, OpenTick, ClockInv, HistoryHasItsClock, LevelInv,
                       ChangeInv, PlannedHistory, PlannedStampColumn
  <1>12. CASE ResumeHistory
    BY <1>1, <1>2, <1>12 DEF ResumeHistory, OpenTick, ClockInv, HistoryHasItsClock, LevelInv,
                       ChangeInv, PlannedHistory, PlannedStampColumn
  <1>13. CASE FreezeHistory
    BY <1>1, <1>2, <1>13 DEF FreezeHistory, OpenTick, ClockInv, HistoryHasItsClock, LevelInv,
                       ChangeInv, PlannedHistory, PlannedStampColumn
  <1>14. CASE DropHistory
    BY <1>1, <1>2, <1>14 DEF DropHistory, OpenTick, ClockInv, HistoryHasItsClock, LevelInv,
                       ChangeInv, PlannedHistory, PlannedStampColumn
  <1>15. CASE StopClock
    BY <1>1, <1>2, <1>15 DEF StopClock, OpenTick, ClockInv, HistoryHasItsClock, LevelInv,
                       ChangeInv, PlannedHistory, PlannedStampColumn
  <1>16. CASE DropClock
    BY <1>1, <1>2, <1>16 DEF DropClock, ClockInv, HistoryHasItsClock, LevelInv,
                       ChangeInv, PlannedHistory, PlannedStampColumn
  <1>17. CASE EndChange
    <2>1. level = change.to /\ request = "level" /\ request' = "none"
      BY <1>17 DEF EndChange
    <2>2. UNCHANGED <<head, level, history, stamp_column>>
      BY <1>17 DEF EndChange, clock
    <2>3. change.as_of_index = "create" => history # "none"
      BY <1>1, <2>1 DEF ClockInv, LevelInv, ChangeInv, PlannedHistory
    <2>4. change.stamp_index = "create" => stamp_column
      BY <1>1, <2>1 DEF ClockInv, LevelInv, ChangeInv, PlannedStampColumn, HistoryHasItsClock
    <2>5. as_of_index' => change.as_of_index = "create" \/ as_of_index
      BY <1>17 DEF EndChange, IndexAfter
    <2>6. stamp_index' => change.stamp_index = "create" \/ stamp_index
      BY <1>17 DEF EndChange, IndexAfter
    <2>7. HistoryHasItsClock'
      BY <2>2, <2>3, <2>4, <2>5, <2>6 DEF ClockInv, HistoryHasItsClock
    <2>8. QED  BY <2>1, <2>2, <2>7 DEF ClockInv, LevelInv, ChangeInv
  <1>18. CASE UNCHANGED vars
    BY <1>1, <1>3, <1>18 DEF vars, clock
  <1>19. QED
    BY <1>4, <1>5, <1>6, <1>7, <1>8, <1>9, <1>10, <1>11, <1>12, <1>13, <1>14, <1>15, <1>16,
       <1>17, <1>18 DEF Next

\* A new store has no history, no clock and no index, so it satisfies ClockInv.
LEMMA ClockInit == Init => ClockInv
  BY DEF Init, ClockInv, HistoryHasItsClock, LevelInv, ChangeInv, Off, Stamped, Log

\* A log, live or frozen, never loses the clock its ticks refer to, and an
\* index is never recorded without its table or column: change_statements
\* refuses every sequence of level changes that would end there.
THEOREM LogKeepsItsClock == Spec => []HistoryHasItsClock
  <1>1. TypeOK /\ ClockInv /\ [Next]_vars => ClockInv'
    BY ClockStep
  <1>2. ClockInv => HistoryHasItsClock
    BY DEF ClockInv
  <1>3. QED  BY <1>1, <1>2, ClockInit, TypeCorrect, PTL DEF Spec

-----------------------------------------------------------------------------
\* No stamp lies in the future, whatever the level.
StampInv == \A q \in Quads : stamp[q] <= head

\* A new tick whose snapshot is the store, no quad added and no stamp changed.
LEMMA StampTick ==
    ASSUME TypeOK, StampInv, AddedSince, NEW k, OpenTick(k, quads),
           UNCHANGED <<quads, stamp>>,
           (level >= Stamped /\ clock_since' = clock_since) \/ clock_since' = head + 1
    PROVE  StampInv' /\ AddedSince'
  <1>1. /\ head \in Nat /\ head' = head + 1 /\ stamp \in [Quads -> Nat] /\ quads \in SUBSET Quads
        /\ \A i \in 1..head + 1 : i \in 1..head \/ i = head + 1
    BY DEF TypeOK, OpenTick
  <1>2. snap'[head + 1] = quads /\ \A a \in 1..head : snap'[a] = snap[a]
    BY <1>1 DEF OpenTick, Extended
  <1>3. StampInv'
    BY <1>1 DEF StampInv
  <1>4. ASSUME NEW q \in quads, NEW a \in 1..head + 1, clock_since' <= a, q \notin snap'[a]
        PROVE  stamp[q] > a
    <2>1. a \in 1..head
      BY <1>1, <1>2, <1>4
    <2>2. level >= Stamped /\ clock_since' = clock_since
      BY <1>1, <1>4, <2>1
    <2>3. QED  BY <1>2, <1>4, <2>1, <2>2 DEF AddedSince
  <1>5. AddedSince'
    BY <1>1, <1>3, <1>4 DEF AddedSince, StampInv
  <1>6. QED  BY <1>3, <1>5

\* StampInv and AddedSince are inductive, given the types.
LEMMA StampStep ==
    ASSUME TypeOK, StampInv, AddedSince, [Next]_vars
    PROVE  StampInv' /\ AddedSince'
  <1>1. head \in Nat /\ stamp \in [Quads -> Nat] /\ quads \in SUBSET Quads
    BY DEF TypeOK
  <1>2. ASSUME UNCHANGED <<quads, stamp, head, level, snap, clock_since>>
        PROVE  StampInv' /\ AddedSince'
    BY <1>2 DEF StampInv, AddedSince
  <1>3. CASE BeginWrite
    <2>1. UNCHANGED <<quads, stamp, level, clock_since>>
      BY <1>3 DEF BeginWrite, tables, meta
    <2>2. CASE level >= Stamped
      BY <1>3, <2>1, <2>2, StampTick DEF BeginWrite
    <2>3. CASE ~(level >= Stamped)
      BY <1>2, <1>3, <2>1, <2>3 DEF BeginWrite, clock
    <2>4. QED  BY <2>2, <2>3
  <1>4. ASSUME NEW rows \in SUBSET Quads, InsertStatement(rows)
        PROVE  StampInv' /\ AddedSince'
    <2> DEFINE t == IF level >= Stamped THEN head ELSE 0
    <2>1. /\ quads' = quads \cup rows
          /\ stamp' = [q \in Quads |-> IF q \in rows \ quads THEN t ELSE stamp[q]]
          /\ UNCHANGED <<head, level, clock_since>>
      BY <1>4 DEF InsertStatement, InsertQuads, clock, meta
    <2>2. StampInv'
      BY <1>1, <2>1 DEF StampInv
    <2>3. ASSUME level >= Stamped, NEW q \in quads', NEW a \in 1..head,
                 clock_since <= a, q \notin snap'[a]
          PROVE  stamp'[q] > a
      <3>1. snap' = [snap EXCEPT ![head] = quads'] /\ snap \in [1..head -> SUBSET Quads]
        BY <1>4, <2>3 DEF InsertStatement, Observe, TypeOK
      <3>2. a # head /\ snap'[a] = snap[a]
        BY <2>3, <3>1
      <3>3. a < head /\ q \in Quads
        BY <1>1, <2>1, <3>2
      <3>4. CASE q \in quads
        BY <2>1, <2>3, <3>2, <3>3, <3>4 DEF AddedSince
      <3>5. CASE q \notin quads
        BY <1>1, <2>1, <2>3, <3>3, <3>5
      <3>6. QED  BY <3>4, <3>5
    <2>4. quads' \in SUBSET Quads
      BY <1>1, <2>1
    <2>5. AddedSince'
      BY <2>1, <2>2, <2>3, <2>4 DEF AddedSince, StampInv
    <2>6. QED  BY <2>2, <2>5
  <1>5. ASSUME NEW rows \in SUBSET Quads, DeleteStatement(rows)
        PROVE  StampInv' /\ AddedSince'
    <2>1. /\ quads' = quads \ rows
          /\ stamp' = [q \in Quads |-> IF q \in rows THEN 0 ELSE stamp[q]]
          /\ UNCHANGED <<head, level, clock_since>>
      BY <1>5 DEF DeleteStatement, DeleteQuads, clock, meta
    <2>2. StampInv'
      BY <1>1, <2>1 DEF StampInv
    <2>3. ASSUME level >= Stamped, NEW q \in quads', NEW a \in 1..head,
                 clock_since <= a, q \notin snap'[a]
          PROVE  stamp'[q] > a
      <3>1. snap' = [snap EXCEPT ![head] = quads'] /\ snap \in [1..head -> SUBSET Quads]
        BY <1>5, <2>3 DEF DeleteStatement, Observe, TypeOK
      <3>2. snap'[a] = snap[a]
        BY <2>3, <3>1
      <3>3. QED  BY <1>1, <2>1, <2>3, <3>2 DEF AddedSince
    <2>4. quads' \in SUBSET Quads
      BY <1>1, <2>1
    <2>5. AddedSince'
      BY <2>1, <2>2, <2>3, <2>4 DEF AddedSince, StampInv
    <2>6. QED  BY <2>2, <2>5
  <1>6. CASE EndWrite \/ (\E c \in Changes : SetVersioning(c)) \/ EndChange \/ UNCHANGED vars
    BY <1>2, <1>6 DEF EndWrite, SetVersioning, EndChange, vars, tables, clock, meta, ghosts
  <1>7. CASE ClearAllGraphs \/ Clear
    <2>1. /\ quads' = {} /\ UNCHANGED head
          /\ stamp' = [q \in Quads |-> IF q \in quads THEN 0 ELSE stamp[q]]
      BY <1>7 DEF ClearAllGraphs, Clear, DeleteQuads, clock
    <2>2. QED  BY <1>1, <2>1 DEF StampInv, AddedSince
  <1>8. CASE OpenBlank
    <2>1. /\ quads' = quads \cup SystemQuads /\ UNCHANGED <<head, level>>
          /\ stamp' = [q \in Quads |-> IF q \in SystemQuads \ quads THEN 0 ELSE stamp[q]]
          /\ level >= Stamped => clock_since' = head + 1
      BY <1>8 DEF OpenBlank, InsertQuads, clock, meta
    <2>2. StampInv' /\ quads' \in SUBSET Quads
      BY <1>1, <2>1, ConstantsAssumption DEF StampInv
    <2>3. QED  BY <1>1, <2>1, <2>2 DEF StampInv, AddedSince
  <1>9. ASSUME NEW rows \in SUBSET Quads, Purge(rows)
        PROVE  StampInv' /\ AddedSince'
    <2>1. /\ quads' = quads \ rows /\ UNCHANGED <<level, clock_since>>
          /\ stamp' = [q \in Quads |-> IF q \in rows THEN 0 ELSE stamp[q]]
      BY <1>9 DEF Purge, meta
    <2>2. CASE HasTicks
      <3>1. head' = head + 1 /\ \A i \in 1..head + 1 : i \in 1..head \/ i = head + 1
        BY <1>1, <1>9, <2>2 DEF Purge, PurgeClock
      <3>2. snap'[head + 1] = quads \ rows /\ \A a \in 1..head : snap'[a] = snap[a] \ rows
        <4>1. \A a \in 1..head : a \in 1..head + 1 /\ a # head + 1
          BY <1>1
        <4>2. head + 1 \in 1..head + 1
          BY <1>1
        <4>3. QED  BY <1>9, <2>2, <4>1, <4>2 DEF Purge, PurgeClock
      <3>3. StampInv'
        BY <1>1, <2>1, <3>1 DEF StampInv
      <3>4. ASSUME level >= Stamped, NEW q \in quads', NEW a \in 1..head + 1,
                   clock_since <= a, q \notin snap'[a]
            PROVE  stamp'[q] > a
        <4>1. a \in 1..head /\ q \in quads /\ q \notin snap[a] /\ q \in Quads /\ q \notin rows
          BY <1>1, <2>1, <3>1, <3>2, <3>4
        <4>2. QED  BY <2>1, <3>4, <4>1 DEF AddedSince
      <3>5. QED  BY <1>1, <2>1, <3>1, <3>3, <3>4 DEF AddedSince, StampInv
    <2>3. CASE ~HasTicks
      BY <1>1, <1>9, <2>1, <2>3 DEF Purge, PurgeClock, HasTicks, StampInv, AddedSince, clock
    <2>4. QED  BY <2>2, <2>3
  <1>10. CASE StartClock
    BY <1>10, StampTick DEF StartClock, tables
  <1>11. CASE StartHistory \/ ResumeHistory \/ FreezeHistory \/ DropHistory \/ StopClock
    <2>1. UNCHANGED <<quads, stamp, clock_since>> /\ level >= Stamped
      BY <1>11 DEF StartHistory, ResumeHistory, FreezeHistory, DropHistory, StopClock, tables,
                   Stamped, Log
    <2>2. \E k \in Kinds : OpenTick(k, quads)
      BY <1>11 DEF StartHistory, ResumeHistory, FreezeHistory, DropHistory, StopClock, Kinds,
                   BoundaryKinds
    <2>3. QED  BY <2>1, <2>2, StampTick
  <1>12. CASE DropClock
    BY <1>1, <1>12 DEF DropClock, StampInv, AddedSince, Off, Stamped
  <1>13. QED
    BY <1>3, <1>4, <1>5, <1>6, <1>7, <1>8, <1>9, <1>10, <1>11, <1>12 DEF Next

\* changes_job with only the clock: a quad present now and absent at tick a is
\* among those with a stamp later than a, as long as the clock has run since a.
THEOREM StampsTellWhatWasAdded == Spec => []AddedSince
  <1>1. Init => StampInv /\ AddedSince
    BY DEF Init, StampInv, AddedSince
  <1>2. TypeOK /\ StampInv /\ AddedSince /\ [Next]_vars => StampInv' /\ AddedSince'
    BY StampStep
  <1>3. QED  BY <1>1, <1>2, TypeCorrect, PTL DEF Spec
=============================================================================
