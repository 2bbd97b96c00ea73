----------------------- MODULE VersionLogHistoryProofs -----------------------
(***************************************************************************)
(* Proofs that the change log answers for the store: the latest version is *)
(* the store, every recorded version is what the store was, the past stays *)
(* as it is, and the whole implements TimeTravel.  For every set of quads, *)
(* of level changes and every bound on the clock.                          *)
(***************************************************************************)
EXTENDS VersionLogProofs

-----------------------------------------------------------------------------
(***************************************************************************)
(* More about logs.                                                        *)
(***************************************************************************)
\* AsOf reads the log.
LEMMA AsOfIsAt ==
    ASSUME NEW v
    PROVE  AsOf(v) = At(quad_log, v) /\ AsOf(v)' = At(quad_log', v)
  BY DEF AsOf, At

\* A new tick has no row yet: what the triggers would write there is added.
LEMMA CapturedAtNewTick ==
    ASSUME NEW L \in SUBSET LogRows, NEW h \in Nat, NEW S \in SUBSET Quads, NEW op \in {0, 1},
           \A r \in L : r.q \in S => r.tx # h
    PROVE  Captured(L, S, h, op) = L \cup Rows(S, h, op)
  <1>1. {r \in L : r.q \in S /\ r.tx = h /\ r.op = 1 - op} = {}
    OBVIOUS
  <1>2. \A q \in S : [q |-> q, tx |-> h, op |-> 1 - op] \notin L
    <2>1. SUFFICES ASSUME NEW q \in S, [q |-> q, tx |-> h, op |-> 1 - op] \in L
                   PROVE  FALSE
      OBVIOUS
    <2> DEFINE r == [q |-> q, tx |-> h, op |-> 1 - op]
    <2>2. r \in L /\ r.q = q /\ r.tx = h
      BY <2>1
    <2>3. QED  BY <2>2
  <1>3. {q \in S : [q |-> q, tx |-> h, op |-> 1 - op] \notin L} = S
    BY <1>2
  <1>4. QED  BY <1>1, <1>3 DEF Captured

\* An empty log answers every version with nothing.
LEMMA EmptyLog ==
    /\ Effective({})
    /\ \A v \in Nat : At({}, v) = {}
  BY DEF Effective, At

\* purge_request: without the rows of the purged quads, every version is what
\* it was without those quads.
LEMMA PurgedLog ==
    ASSUME NEW L \in SUBSET LogRows, Effective(L), NEW S \in SUBSET Quads
    PROVE  LET M == {r \in L : r.q \notin S}
           IN  /\ M \in SUBSET LogRows
               /\ \A v \in Nat : At(M, v) = At(L, v) \ S
               /\ Effective(M)
  <1> DEFINE M == {r \in L : r.q \notin S}
  <1>1. M \in SUBSET LogRows /\ \A r \in LogRows : r \in M <=> r \in L /\ r.q \notin S
    OBVIOUS
  <1> HIDE DEF M
  <1>2. ASSUME NEW v \in Nat, NEW q \in Quads, q \notin S
        PROVE  q \in At(M, v) <=> q \in At(L, v)
    <2>1. \A r \in LogRows : r.q = q /\ r.tx <= v => (r \in L <=> r \in M)
      BY <1>1, <1>2
    <2>2. QED  BY <1>1, <2>1, AtAgree
  <1>3. ASSUME NEW v \in Nat, NEW q \in S
        PROVE  q \notin At(M, v)
    BY <1>1 DEF At
  <1>4. \A v \in Nat : At(M, v) = At(L, v) \ S
    <2>1. SUFFICES ASSUME NEW v \in Nat
                   PROVE  At(M, v) = At(L, v) \ S
      OBVIOUS
    <2>2. At(M, v) \in SUBSET Quads /\ At(L, v) \in SUBSET Quads
      BY DEF At
    <2>3. QED  BY <1>2, <1>3, <2>2
  <1>5. Effective(M)
    <2>1. SUFFICES ASSUME NEW r \in M
                   PROVE  /\ (r.q \in At(M, r.tx)) = (r.op = 1)
                          /\ r.tx > 0 /\ (r.q \in At(M, r.tx - 1)) = (r.op = 0)
      BY DEF Effective
    <2>2. r \in L /\ r.q \in Quads /\ r.q \notin S /\ r.tx \in Nat
      BY <1>1 DEF LogRows
    <2>3. r.tx > 0 /\ r.tx - 1 \in Nat
      BY <2>2 DEF Effective
    <2>4. QED  BY <1>2, <2>2, <2>3 DEF Effective
  <1>6. QED  BY <1>1, <1>4, <1>5 DEF M

-----------------------------------------------------------------------------
(***************************************************************************)
(* The boundaries of the history.                                          *)
(***************************************************************************)
\* A version has one last boundary.
LEMMA BoundaryUnique ==
    ASSUME TypeOK, NEW v \in 1..head, NEW b \in 1..head, NEW c \in 1..head,
           IsBoundaryOf(b, v), IsBoundaryOf(c, v)
    PROVE  b = c
  BY DEF IsBoundaryOf, TypeOK

\* Another tick leaves the boundaries of earlier versions; it is a boundary
\* itself, or has the one of the version before.
LEMMA NewTick ==
    ASSUME TypeOK, NEW k \in Kinds, head' = head + 1, ticks' = Extended(ticks, head, k)
    PROVE  /\ \A i \in 1..head : ticks'[i] = ticks[i]
           /\ ticks'[head + 1] = k
           /\ \A b, v \in 1..head : IsBoundaryOf(b, v)' <=> IsBoundaryOf(b, v)
           /\ k \notin BoundaryKinds =>
                 /\ \A b \in 1..head : IsBoundaryOf(b, head)' <=> IsBoundaryOf(b, head)
                 /\ ~IsBoundaryOf(head, head)'
           /\ k \in BoundaryKinds => \A b \in 1..head + 1 : IsBoundaryOf(b, head)' <=> b = head + 1
  <1>1. head \in Nat /\ \A i \in 1..head + 1 : i \in 1..head \/ i = head + 1
    BY DEF TypeOK
  <1>2. /\ \A i \in 1..head : ticks'[i] = ticks[i]
        /\ ticks'[head + 1] = k
    BY <1>1 DEF Extended
  <1>3. ASSUME NEW b \in 1..head, NEW v \in 1..head
        PROVE  IsBoundaryOf(b, v)' <=> IsBoundaryOf(b, v)
    BY <1>1, <1>2 DEF IsBoundaryOf
  <1>4. ASSUME k \notin BoundaryKinds
        PROVE  /\ \A b \in 1..head : IsBoundaryOf(b, head)' <=> IsBoundaryOf(b, head)
               /\ ~IsBoundaryOf(head, head)'
    <2>1. ASSUME NEW b \in 1..head
          PROVE  IsBoundaryOf(b, head)' <=> IsBoundaryOf(b, head)
      <3>1. (\A c \in 1..head + 1 : b < c /\ c <= head + 1 => ticks'[c] \notin BoundaryKinds)
              <=> (\A c \in 1..head : b < c /\ c <= head => ticks[c] \notin BoundaryKinds)
        BY <1>1, <1>2, <1>4
      <3>2. QED  BY <1>1, <1>2, <3>1 DEF IsBoundaryOf
    <2>2. ~IsBoundaryOf(head, head)'
      BY <1>2, <1>4 DEF IsBoundaryOf
    <2>3. QED  BY <2>1, <2>2
  <1>5. ASSUME k \in BoundaryKinds
        PROVE  \A b \in 1..head + 1 : IsBoundaryOf(b, head)' <=> b = head + 1
    BY <1>1, <1>2, <1>5 DEF IsBoundaryOf
  <1>6. QED  BY <1>2, <1>3, <1>4, <1>5

\* As long as there is a log, another tick leaves what may be asked for.
LEMMA NewTickResolvable ==
    ASSUME TypeOK, NEW k \in Kinds, head' = head + 1, ticks' = Extended(ticks, head, k),
           history # "none", history' # "none", NEW v \in 1..head
    PROVE  Resolvable(v)' <=> Resolvable(v)
  <1>1. \A i \in 1..head : ticks'[i] = ticks[i]
    BY NewTick
  <1>2. \A b \in 1..head : IsBoundaryOf(b, v)' <=> IsBoundaryOf(b, v)
    BY NewTick
  <1>3. head \in Nat /\ 1..head' = 1..head \cup {head + 1}
    BY DEF TypeOK
  <1>4. ~IsBoundaryOf(head, v)'
    BY <1>3 DEF IsBoundaryOf
  <1> DEFINE Opens(k1, b) == k1 \in {"genesis", "resume"} \/ (k1 = "freeze" /\ v = b)
  <1>5. (\E b \in 1..head' : IsBoundaryOf(b, v)' /\ Opens(ticks'[b], b))
          <=> (\E b \in 1..head : IsBoundaryOf(b, v) /\ Opens(ticks[b], b))
    <2>1. ASSUME NEW b \in 1..head', IsBoundaryOf(b, v)'
          PROVE  b \in 1..head
      BY <1>3, <1>4, <2>1
    <2>2. QED  BY <1>1, <1>2, <1>3, <2>1
  <1>6. v \in 1..head'
    BY <1>3
  <1>7. QED  BY <1>5, <1>6 DEF Resolvable

-----------------------------------------------------------------------------
(***************************************************************************)
(* The inductive invariant.                                                *)
(***************************************************************************)
\* The log holds effective changes up to the latest tick; a live log ends in
\* the store.
LogInv ==
    /\ \A r \in quad_log : r.tx <= head
    /\ history = "none" => quad_log = {} /\ commits = {}
    /\ Effective(quad_log)
    /\ level = Log => At(quad_log, head) = quads

\* What the latest boundary is: a live log is after its genesis or a resume,
\* a frozen one after its freeze and has no row since, and where there is no
\* log every trace of one is followed by the tick that dropped it.
BoundaryInv ==
    /\ level = Log =>
          \E b \in 1..head : IsBoundaryOf(b, head) /\ ticks[b] \in {"genesis", "resume"}
    /\ history = "frozen" =>
          \E f \in 1..head : /\ IsBoundaryOf(f, head) /\ ticks[f] = "freeze"
                             /\ \A r \in quad_log : r.tx <= f
    /\ history = "none" =>
          \A g \in 1..head : ticks[g] \in {"genesis", "resume", "freeze"} =>
              \E c \in 1..head : g < c /\ ticks[c] = "dropped"

\* A write runs at a tick of its own.
WriteInv == request = "write" /\ level >= Stamped => head > 0 /\ ticks[head] = "write"

\* Every commit is a version, and every change is part of a commit.
CommitInv ==
    /\ \A c \in commits : Resolvable(c)
    /\ \A r \in quad_log : r.tx \in commits

\* The inductive invariant of the history.
HistoryInv == LogInv /\ BoundaryInv /\ WriteInv /\ CommitInv /\ RecordedVersionsExact

\* At level log the latest tick may be asked for.
LEMMA HeadResolvable ==
    ASSUME TypeOK, ClockInv, BoundaryInv, level = Log
    PROVE  head \in 1..head /\ Resolvable(head)
  <1>1. history = "live" /\ head \in Nat /\ head > 0
    BY DEF ClockInv, LevelInv, TypeOK, Stamped, Log
  <1>2. QED  BY <1>1 DEF BoundaryInv, Resolvable

\* With a frozen log no tick after the freeze may be asked for.
LEMMA FrozenHead ==
    ASSUME TypeOK, BoundaryInv, history = "frozen", Resolvable(head)
    PROVE  ticks[head] = "freeze"
  <1>1. PICK f \in 1..head : IsBoundaryOf(f, head) /\ ticks[f] = "freeze"
    BY DEF BoundaryInv
  <1>2. PICK b \in 1..head : /\ IsBoundaryOf(b, head)
                             /\ \/ ticks[b] \in {"genesis", "resume"}
                                \/ ticks[b] = "freeze" /\ head = b
    BY DEF Resolvable
  <1>3. b = f
    BY <1>1, <1>2, BoundaryUnique DEF Resolvable
  <1>4. QED  BY <1>1, <1>2, <1>3

\* A statement that adds (op 1) or removes (op 0) exactly the quads S.
Statement(S, op) ==
    /\ S \in SUBSET Quads /\ op \in {0, 1}
    /\ \A q \in S : q \in quads <=> op = 0
    /\ quads' = IF op = 1 THEN quads \cup S ELSE quads \ S
    /\ Capture(S, op)
    /\ UNCHANGED <<head, ticks, level, history>>

\* Which versions may be asked for depends on the clock and the history only.
LEMMA SameVersions ==
    ASSUME UNCHANGED <<head, ticks, history>>
    PROVE  /\ \A v : Resolvable(v)' <=> Resolvable(v)
           /\ \A v : Recorded(v)' <=> Recorded(v)
           /\ \A b, v : IsBoundaryOf(b, v)' <=> IsBoundaryOf(b, v)
  BY DEF Resolvable, Recorded, IsBoundaryOf

\* The triggers keep the log in step with the store, and leave the past.
LEMMA StatementLog ==
    ASSUME TypeOK, ClockInv, LogInv, BoundaryInv, CommitInv, NEW S, NEW op, Statement(S, op)
    PROVE  /\ LogInv' /\ BoundaryInv' /\ CommitInv'
           /\ \A v \in Nat : v < head => At(quad_log', v) = At(quad_log, v)
           /\ level # Log => quad_log' = quad_log
  <1>1. CASE level = Log
    <2>1. /\ quad_log \in SUBSET LogRows /\ head \in Nat /\ head > 0
          /\ S \in SUBSET Quads /\ op \in {0, 1} /\ Effective(quad_log)
          /\ \A r \in quad_log : r.tx <= head
      BY <1>1 DEF TypeOK, ClockInv, LevelInv, LogInv, Statement, Stamped, Log
    <2>2. \A q \in S : q \in At(quad_log, head) <=> op = 0
      BY <1>1 DEF LogInv, Statement
    <2>3. quad_log' = Captured(quad_log, S, head, op)
      BY <1>1 DEF Statement, Capture, Captured, Undone, Fresh
    <2>4. /\ \A r \in quad_log' : r.tx <= head
          /\ \A v \in Nat : v < head => At(quad_log', v) = At(quad_log, v)
          /\ At(quad_log', head) = IF op = 1 THEN At(quad_log, head) \cup S
                                             ELSE At(quad_log, head) \ S
          /\ Effective(quad_log')
      BY <2>1, <2>2, <2>3, CaptureLemma
    <2>5. At(quad_log', head) = quads'
      BY <1>1, <2>4 DEF LogInv, Statement
    <2>6. history = "live" /\ history' = "live" /\ level' = Log /\ head' = head
      BY <1>1 DEF ClockInv, LevelInv, Statement
    <2>7. LogInv'
      BY <2>4, <2>5, <2>6 DEF LogInv
    <2>8. BoundaryInv'
      BY <1>1, <2>6, SameVersions DEF BoundaryInv, Statement
    <2>9. \A c \in commits' : Resolvable(c)'
      <3>1. \A c \in commits' : c \in commits \/ c = head
        BY <1>1 DEF Statement, Capture, Committed
      <3>2. Resolvable(head)
        BY <1>1, HeadResolvable
      <3>3. QED  BY <3>1, <3>2, SameVersions DEF CommitInv, Statement
    <2>10. \A r \in quad_log' : r.tx \in commits'
      <3>1. SUFFICES ASSUME NEW r \in quad_log'
                     PROVE  r.tx \in commits'
        OBVIOUS
      <3>2. r \in quad_log \/ (r.q \in S /\ r.tx = head)
        <4>1. IsCaptured(quad_log', quad_log, S, head, op)
          BY <2>1, <2>3, CapturedRows
        <4>2. QED  BY <4>1 DEF IsCaptured
      <3>3. commits \subseteq commits' /\ (S # {} => head \in commits')
        BY <1>1 DEF Statement, Capture, Committed
      <3>4. QED  BY <3>2, <3>3 DEF CommitInv
    <2>11. QED  BY <1>1, <2>4, <2>7, <2>8, <2>9, <2>10 DEF CommitInv
  <1>2. CASE level # Log
    <2>1. UNCHANGED <<quad_log, commits, head, ticks, level, history>>
      BY <1>2 DEF Statement, Capture
    <2>2. LogInv' /\ CommitInv'
      BY <1>2, <2>1, SameVersions DEF LogInv, CommitInv
    <2>3. BoundaryInv'
      BY <1>2, <2>1, SameVersions DEF BoundaryInv
    <2>4. QED  BY <2>1, <2>2, <2>3
  <1>3. QED  BY <1>1, <1>2

\* A statement of a write: the tick it runs at is observed anew.
LEMMA WriteStatement ==
    ASSUME TypeOK, ClockInv, HistoryInv, NEW S, NEW op, Statement(S, op),
           request = "write", Observe, UNCHANGED <<request, rewritten>>
    PROVE  HistoryInv'
  <1>1. /\ LogInv' /\ BoundaryInv' /\ CommitInv'
        /\ \A v \in Nat : v < head => At(quad_log', v) = At(quad_log, v)
        /\ level # Log => quad_log' = quad_log
    BY StatementLog DEF HistoryInv
  <1>2. UNCHANGED <<head, ticks, level, history>>
    BY DEF Statement
  <1>3. WriteInv'
    BY <1>2 DEF HistoryInv, WriteInv
  <1>4. RecordedVersionsExact'
    <2>1. SUFFICES ASSUME NEW v \in 1..head, Recorded(v), v \notin rewritten
                   PROVE  At(quad_log', v) = snap'[v]
      BY <1>2, SameVersions, AsOfIsAt DEF RecordedVersionsExact
    <2>2. At(quad_log, v) = snap[v]
      BY <2>1, AsOfIsAt DEF HistoryInv, RecordedVersionsExact
    <2>3. CASE level = Log
      <3>1. snap' = [snap EXCEPT ![head] = quads']
        BY <2>3 DEF Observe, Log, Stamped
      <3>2. At(quad_log', head) = quads'
        BY <1>1, <1>2, <2>3 DEF LogInv
      <3>3. QED  BY <1>1, <2>2, <3>1, <3>2 DEF TypeOK
    <2>4. CASE level = Stamped
      <3>1. v # head
        <4>1. SUFFICES ASSUME v = head
                       PROVE  FALSE
          OBVIOUS
        <4>2. Resolvable(head)
          BY <2>1, <4>1 DEF Recorded
        <4>3. history = "frozen"
          BY <2>4, <4>2 DEF Resolvable, ClockInv, LevelInv, TypeOK, Histories, Stamped, Log
        <4>4. ticks[head] = "freeze"
          BY <4>2, <4>3, FrozenHead DEF HistoryInv
        <4>5. ticks[head] = "write"
          BY <2>4 DEF HistoryInv, WriteInv, Stamped
        <4>6. QED  BY <4>4, <4>5
      <3>2. snap'[v] = snap[v]
        BY <3>1 DEF Observe, TypeOK
      <3>3. QED  BY <1>1, <2>2, <2>4, <3>2 DEF Stamped, Log
    <2>5. CASE level = Off
      BY <1>1, <2>2, <2>5 DEF Observe, Off, Stamped, Log
    <2>6. QED  BY <2>3, <2>4, <2>5 DEF TypeOK, Levels
  <1>5. QED  BY <1>1, <1>3, <1>4 DEF HistoryInv

\* A request that opens no tick: the latest version counts as rewritten.
LEMMA UntrackedStatement ==
    ASSUME TypeOK, ClockInv, HistoryInv, NEW S, NEW op, Statement(S, op),
           request = "none", Untracked, UNCHANGED <<request, snap>>
    PROVE  HistoryInv'
  <1>1. /\ LogInv' /\ BoundaryInv' /\ CommitInv'
        /\ \A v \in Nat : v < head => At(quad_log', v) = At(quad_log, v)
        /\ level # Log => quad_log' = quad_log
    BY StatementLog DEF HistoryInv
  <1>2. UNCHANGED <<head, ticks, level, history>>
    BY DEF Statement
  <1>3. WriteInv'
    BY <1>2 DEF HistoryInv, WriteInv
  <1>4. RecordedVersionsExact'
    <2>1. SUFFICES ASSUME NEW v \in 1..head, Recorded(v), v \notin rewritten'
                   PROVE  At(quad_log', v) = snap[v]
      BY <1>2, SameVersions, AsOfIsAt DEF RecordedVersionsExact
    <2>2. At(quad_log, v) = snap[v]
      BY <2>1, AsOfIsAt DEF HistoryInv, RecordedVersionsExact, Untracked
    <2>3. CASE level = Log /\ v = head
      <3>1. quads' = quads
        BY <2>1, <2>3 DEF Untracked, Stamped, Log
      <3>2. At(quad_log', head) = quads' /\ At(quad_log, head) = quads
        BY <1>1, <1>2, <2>3 DEF HistoryInv, LogInv
      <3>3. QED  BY <2>2, <2>3, <3>1, <3>2
    <2>4. CASE level # Log \/ v # head
      BY <1>1, <2>2, <2>4 DEF TypeOK
    <2>5. QED  BY <2>3, <2>4
  <1>5. QED  BY <1>1, <1>3, <1>4 DEF HistoryInv

\* A tick that is no boundary; a purge also takes the quads S from everywhere.
LEMMA PlainTick ==
    ASSUME TypeOK, ClockInv, HistoryInv, NEW k \in Kinds, k \notin BoundaryKinds,
           NEW S \in SUBSET Quads,
           head' = head + 1, ticks' = Extended(ticks, head, k),
           quads' = quads \ S, quad_log' = {r \in quad_log : r.q \notin S},
           snap'[head + 1] = quads \ S, \A v \in 1..head : snap'[v] = snap[v] \ S,
           level' = Log <=> level = Log, UNCHANGED <<history, commits, rewritten>>
    PROVE  LogInv' /\ BoundaryInv' /\ CommitInv' /\ RecordedVersionsExact'
  <1>1. head \in Nat /\ quad_log \in SUBSET LogRows /\ \A i \in 1..head + 1 : i \in 1..head \/ i = head + 1
    BY DEF TypeOK
  <1>2. Effective(quad_log') /\ \A v \in Nat : At(quad_log', v) = At(quad_log, v) \ S
    BY <1>1, PurgedLog DEF HistoryInv, LogInv
  <1>3. level = Log => At(quad_log', head + 1) = quads'
    <2>1. At(quad_log, head + 1) = At(quad_log, head)
      BY <1>1, AtBeyond DEF HistoryInv, LogInv
    <2>2. QED  BY <1>1, <1>2, <2>1 DEF HistoryInv, LogInv
  <1>4. LogInv'
    <2>1. \A r \in quad_log' : r.tx <= head + 1
      BY <1>1 DEF HistoryInv, LogInv, LogRows
    <2>2. QED  BY <1>2, <1>3, <2>1 DEF HistoryInv, LogInv
  <1>5. /\ \A i \in 1..head : ticks'[i] = ticks[i]
        /\ ticks'[head + 1] = k
        /\ \A b \in 1..head : IsBoundaryOf(b, head)' <=> IsBoundaryOf(b, head)
        /\ ~IsBoundaryOf(head, head)'
    BY NewTick
  <1>6. BoundaryInv'
    <2>1. 1..head \subseteq 1..head'
      BY <1>1
    <2>2. level' = Log => \E b \in 1..head' : IsBoundaryOf(b, head)' /\ ticks'[b] \in {"genesis", "resume"}
      BY <1>5, <2>1 DEF HistoryInv, BoundaryInv
    <2>3. history' = "frozen" =>
             \E f \in 1..head' : /\ IsBoundaryOf(f, head)' /\ ticks'[f] = "freeze"
                                 /\ \A r \in quad_log' : r.tx <= f
      BY <1>5, <2>1 DEF HistoryInv, BoundaryInv
    <2>4. history' = "none" =>
             \A g \in 1..head' : ticks'[g] \in {"genesis", "resume", "freeze"} =>
                 \E c \in 1..head' : g < c /\ ticks'[c] = "dropped"
      BY <1>1, <1>5, <2>1 DEF HistoryInv, BoundaryInv, BoundaryKinds
    <2>5. QED  BY <2>2, <2>3, <2>4 DEF BoundaryInv
  <1>7. CommitInv'
    <2>1. ASSUME NEW c \in commits
          PROVE  Resolvable(c)'
      <3>1. Resolvable(c)
        BY DEF HistoryInv, CommitInv
      <3>2. history # "none" /\ c \in 1..head
        BY <3>1 DEF Resolvable
      <3>3. QED  BY <3>1, <3>2, NewTickResolvable
    <2>2. QED  BY <2>1 DEF HistoryInv, CommitInv
  <1>8. RecordedVersionsExact'
    <2>1. SUFFICES ASSUME NEW v \in 1..head + 1, Recorded(v)', v \notin rewritten
                   PROVE  At(quad_log', v) = snap'[v]
      BY AsOfIsAt DEF RecordedVersionsExact
    <2>2. history # "none" /\ Resolvable(v)'
      BY <2>1 DEF Recorded, Resolvable
    <2>3. CASE v \in 1..head
      <3>1. Resolvable(v)
        BY <2>2, <2>3, NewTickResolvable
      <3>2. \A c \in 1..head : v < c => ticks[c] # "dropped"
        BY <1>1, <1>5, <2>1 DEF Recorded
      <3>3. At(quad_log, v) = snap[v]
        BY <2>1, <2>3, <3>1, <3>2, AsOfIsAt DEF Recorded, HistoryInv, RecordedVersionsExact
      <3>4. v \in Nat /\ snap'[v] = snap[v] \ S
        BY <1>1, <2>3
      <3>5. QED  BY <1>2, <3>3, <3>4
    <2>4. CASE v = head + 1
      <3>1. PICK b \in 1..head' : /\ IsBoundaryOf(b, v)'
                                  /\ \/ ticks'[b] \in {"genesis", "resume"}
                                     \/ ticks'[b] = "freeze" /\ v = b
        BY <2>2 DEF Resolvable
      <3>2. IsBoundaryOf(b, head)'
        BY <2>4, <3>1 DEF IsBoundaryOf
      <3>3. b # head + 1 /\ b \in 1..head
        BY <1>1, <1>5, <3>2
      <3>4. IsBoundaryOf(b, head) /\ ticks[b] \in {"genesis", "resume"}
        BY <1>5, <2>4, <3>1, <3>2, <3>3
      <3>5. history # "frozen"
        <4>1. SUFFICES ASSUME history = "frozen"
                       PROVE  FALSE
          OBVIOUS
        <4>2. PICK f \in 1..head : IsBoundaryOf(f, head) /\ ticks[f] = "freeze"
          BY <4>1 DEF HistoryInv, BoundaryInv
        <4>3. head \in 1..head
          BY <1>1, <3>3
        <4>4. b = f
          BY <3>3, <3>4, <4>2, <4>3, BoundaryUnique
        <4>5. QED  BY <3>4, <4>2, <4>4
      <3>6. level = Log
        BY <2>2, <3>5 DEF ClockInv, LevelInv, TypeOK, Histories
      <3>7. QED  BY <1>3, <2>4, <3>6
    <2>5. QED  BY <1>1, <2>3, <2>4
  <1>9. QED  BY <1>4, <1>6, <1>7, <1>8

\* A boundary at which the log answers with the store: the versions before it
\* answer as before, or were dropped with an earlier log.
LEMMA BoundaryTick ==
    ASSUME TypeOK, HistoryInv, NEW k \in {"genesis", "resume", "freeze"},
           OpenTick(k, quads), UNCHANGED rewritten, history' # "none",
           At(quad_log', head + 1) = quads,
           history # "none" => \A v \in 1..head : At(quad_log', v) = At(quad_log, v)
    PROVE  RecordedVersionsExact'
  <1>1. head \in Nat /\ \A i \in 1..head + 1 : i \in 1..head \/ i = head + 1
    BY DEF TypeOK
  <1>2. k \in Kinds /\ head' = head + 1 /\ ticks' = Extended(ticks, head, k)
    BY DEF OpenTick, Kinds, BoundaryKinds
  <1>3. snap'[head + 1] = quads /\ \A v \in 1..head : snap'[v] = snap[v]
    BY <1>1 DEF OpenTick, Extended
  <1>4. /\ \A i \in 1..head : ticks'[i] = ticks[i]
        /\ \A b, v \in 1..head : IsBoundaryOf(b, v)' <=> IsBoundaryOf(b, v)
    BY <1>2, NewTick
  <1>5. SUFFICES ASSUME NEW v \in 1..head + 1, Recorded(v)', v \notin rewritten
                 PROVE  At(quad_log', v) = snap'[v]
    BY <1>2, AsOfIsAt DEF RecordedVersionsExact
  <1>6. CASE v = head + 1
    BY <1>3, <1>6
  <1>7. CASE v \in 1..head /\ history # "none"
    <2>1. Resolvable(v)
      BY <1>2, <1>5, <1>7, NewTickResolvable DEF Recorded
    <2>2. \A c \in 1..head : v < c => ticks[c] # "dropped"
      BY <1>1, <1>2, <1>4, <1>5 DEF Recorded
    <2>3. At(quad_log, v) = snap[v]
      BY <1>5, <1>7, <2>1, <2>2, AsOfIsAt DEF Recorded, HistoryInv, RecordedVersionsExact
    <2>4. QED  BY <1>3, <1>7, <2>3
  <1>8. CASE v \in 1..head /\ history = "none"
    <2>1. PICK b \in 1..head' : /\ IsBoundaryOf(b, v)'
                                /\ ticks'[b] \in {"genesis", "resume", "freeze"}
      BY <1>5 DEF Recorded, Resolvable
    <2>2. b \in 1..head
      BY <1>1, <1>2, <1>8, <2>1 DEF IsBoundaryOf
    <2>3. IsBoundaryOf(b, v) /\ ticks[b] \in {"genesis", "resume", "freeze"}
      BY <1>4, <1>8, <2>1, <2>2
    <2>4. PICK c \in 1..head : b < c /\ ticks[c] = "dropped"
      BY <1>8, <2>2, <2>3 DEF HistoryInv, BoundaryInv
    <2>5. ~(c <= v)
      BY <2>3, <2>4 DEF IsBoundaryOf, BoundaryKinds
    <2>6. v < c /\ c \in 1..head' /\ ticks'[c] = "dropped"
      BY <1>1, <1>2, <1>4, <1>8, <2>4, <2>5
    <2>7. QED  BY <1>5, <2>6 DEF Recorded
  <1>9. QED  BY <1>1, <1>6, <1>7, <1>8

\* The tick of a genesis or a resume may be asked for, and is its own boundary.
LEMMA StartTick ==
    ASSUME TypeOK, NEW k \in {"genesis", "resume"}, OpenTick(k, quads), history' = "live"
    PROVE  /\ Resolvable(head)'
           /\ \E b \in 1..head' : IsBoundaryOf(b, head)' /\ ticks'[b] \in {"genesis", "resume"}
  <1>1. head \in Nat /\ k \in Kinds /\ k \in BoundaryKinds
    BY DEF TypeOK, Kinds, BoundaryKinds
  <1>2. head' = head + 1 /\ ticks' = Extended(ticks, head, k)
    BY DEF OpenTick
  <1>3. /\ ticks'[head + 1] = k
        /\ \A b \in 1..head + 1 : IsBoundaryOf(b, head)' <=> b = head + 1
    BY <1>1, <1>2, NewTick
  <1>4. head' \in 1..head' /\ IsBoundaryOf(head, head)' /\ ticks'[head'] = k
    BY <1>1, <1>2, <1>3
  <1>5. \E b \in 1..head' : IsBoundaryOf(b, head)' /\ ticks'[b] \in {"genesis", "resume"}
    BY <1>1, <1>2, <1>3
  <1>6. QED  BY <1>4, <1>5 DEF Resolvable

\* The genesis of a new log (change_statements, Stamped -> Log) keeps the invariant.
LEMMA StartHistoryStep ==
    ASSUME TypeOK, ClockInv, HistoryInv, StartHistory
    PROVE  HistoryInv'
  <1>1. /\ OpenTick("genesis", quads) /\ history' = "live" /\ level' = Log /\ request' = "level"
        /\ UNCHANGED <<quads, rewritten>>
        /\ commits' = commits \cup {head + 1}
        /\ head' = head + 1
    BY DEF StartHistory, OpenTick
  <1>2. history = "none" /\ quad_log = {} /\ commits = {}
    BY DEF StartHistory, ClockInv, LevelInv, HistoryInv, LogInv, TypeOK, Histories, Stamped, Log
  <1>3. head \in Nat /\ head + 1 \in Nat /\ head + 1 > 0 /\ quads \in SUBSET Quads
    BY DEF TypeOK
  <1> DEFINE M == Captured({}, quads, head + 1, 1)
  <1>4. quad_log' = M
    <2>1. {} \in SUBSET LogRows /\ \A r \in {} : r.q \in quads => r.tx # head + 1
      OBVIOUS
    <2>2. M = {} \cup Rows(quads, head + 1, 1)
      BY <1>3, <2>1, CapturedAtNewTick
    <2>3. QED  BY <1>2, <2>2 DEF StartHistory
  <1>5. /\ \A r \in M : r.tx <= head + 1
        /\ At(M, head + 1) = At({}, head + 1) \cup quads
        /\ Effective(M)
    <2>1. Effective({}) /\ \A q \in quads : q \in At({}, head + 1) <=> 1 = 0
      BY <1>3, EmptyLog
    <2>2. QED  BY <1>3, <2>1, CaptureLemma
  <1>6. At(M, head + 1) = quads
    BY <1>3, <1>5, EmptyLog
  <1>7. \A r \in M : r.tx = head + 1
    <2>1. IsCaptured(M, {}, quads, head + 1, 1)
      BY <1>3, CapturedRows
    <2>2. QED  BY <2>1 DEF IsCaptured
  <1> HIDE DEF M
  <1>8. LogInv'
    BY <1>1, <1>4, <1>5, <1>6 DEF LogInv
  <1>9. BoundaryInv'
    BY <1>1, StartTick DEF BoundaryInv
  <1>10. CommitInv'
    <2>1. \A c \in commits' : c = head'
      BY <1>1, <1>2
    <2>2. Resolvable(head)'
      BY <1>1, StartTick
    <2>3. \A c \in commits' : Resolvable(c)'
      BY <2>1, <2>2 DEF Resolvable, IsBoundaryOf
    <2>4. \A r \in quad_log' : r.tx \in commits'
      BY <1>1, <1>4, <1>7
    <2>5. QED  BY <2>3, <2>4 DEF CommitInv
  <1>11. RecordedVersionsExact'
    BY <1>1, <1>2, <1>4, <1>6, BoundaryTick
  <1>12. QED  BY <1>1, <1>8, <1>9, <1>10, <1>11 DEF HistoryInv, WriteInv

\* Resuming a frozen log with the net changes of the gap keeps the invariant.
LEMMA ResumeHistoryStep ==
    ASSUME TypeOK, ClockInv, HistoryInv, ResumeHistory
    PROVE  HistoryInv' /\ \A v \in 1..head : At(quad_log', v) = At(quad_log, v)
  <1>1. /\ OpenTick("resume", quads) /\ history = "frozen" /\ history' = "live"
        /\ level' = Log /\ request' = "level" /\ UNCHANGED <<quads, rewritten>>
        /\ commits' = commits \cup {head + 1}
        /\ head' = head + 1
    BY DEF ResumeHistory, OpenTick
  <1>2. /\ head \in Nat /\ head + 1 \in Nat /\ head + 1 > 0
        /\ quads \in SUBSET Quads /\ quad_log \in SUBSET LogRows
    BY DEF TypeOK
  <1>3. PICK f \in 1..head :
            /\ IsLastFreeze(f)
            /\ quad_log' = quad_log \cup Rows(AsOf(f) \ quads, head + 1, 0)
                                    \cup Rows(quads \ AsOf(f), head + 1, 1)
    BY DEF ResumeHistory
  <1>4. \A r \in quad_log : r.tx <= f /\ r.tx <= head
    <2>1. PICK g \in 1..head : /\ IsBoundaryOf(g, head) /\ ticks[g] = "freeze"
                               /\ \A r \in quad_log : r.tx <= g
      BY <1>1 DEF HistoryInv, BoundaryInv
    <2>2. ticks[f] = "freeze" /\ g <= f
      BY <1>3, <2>1 DEF IsLastFreeze
    <2>3. f <= g
      BY <1>2, <2>1, <2>2 DEF IsBoundaryOf, BoundaryKinds
    <2>4. f = g
      BY <2>2, <2>3
    <2>5. QED  BY <2>1, <2>4 DEF HistoryInv, LogInv
  <1> DEFINE A == At(quad_log, f)
             gone == A \ quads
             new  == quads \ A
             L1   == Captured(quad_log, gone, head + 1, 0)
             L2   == Captured(L1, new, head + 1, 1)
  <1>5. At(quad_log, head + 1) = A /\ A \in SUBSET Quads
    <2>1. f \in Nat /\ head + 1 >= f
      BY <1>2
    <2>2. At(quad_log, head + 1) = A
      BY <1>2, <1>4, <2>1, AtBeyond
    <2>3. QED  BY <2>2 DEF At
  <1>6. \A r \in quad_log : r.tx # head + 1 /\ r.tx <= head + 1
    BY <1>2, <1>4 DEF LogRows
  <1> HIDE DEF A
  <1>7. /\ gone \in SUBSET Quads /\ new \in SUBSET Quads
        /\ gone \subseteq A /\ new \cap A = {} /\ gone \cap new = {}
        /\ (A \ gone) \cup new = quads
    BY <1>2, <1>5
  <1> HIDE DEF gone, new
  <1>8. L1 = quad_log \cup Rows(gone, head + 1, 0)
    <2>1. \A r \in quad_log : r.q \in gone => r.tx # head + 1
      BY <1>6
    <2>2. gone \in SUBSET Quads /\ 0 \in {0, 1}
      BY <1>7
    <2>3. QED  BY <1>2, <2>1, <2>2, CapturedAtNewTick
  <1>9. /\ L1 \in SUBSET LogRows
        /\ \A r \in L1 : r.tx <= head + 1
        /\ \A v \in Nat : v < head + 1 => At(L1, v) = At(quad_log, v)
        /\ At(L1, head + 1) = At(quad_log, head + 1) \ gone
        /\ Effective(L1)
    <2>1. Effective(quad_log) /\ \A q \in gone : q \in At(quad_log, head + 1) <=> 0 = 0
      BY <1>5, <1>7 DEF HistoryInv, LogInv
    <2>2. QED  BY <1>2, <1>6, <1>7, <2>1, CaptureLemma
  <1>10. IsCaptured(L1, quad_log, gone, head + 1, 0)
    BY <1>2, <1>7, CapturedRows
  <1>11. \A r \in L1 : r.q \in new => r.tx # head + 1
    BY <1>6, <1>7, <1>9, <1>10 DEF IsCaptured
  <1> HIDE DEF L1
  <1>12. L2 = L1 \cup Rows(new, head + 1, 1)
    <2>1. L1 \in SUBSET LogRows /\ new \in SUBSET Quads /\ head + 1 \in Nat
      BY <1>2, <1>7, <1>9
    <2>2. 1 \in {0, 1}
      OBVIOUS
    <2>3. Captured(L1, new, head + 1, 1) = L1 \cup Rows(new, head + 1, 1)
      BY <1>11, <2>1, <2>2, CapturedAtNewTick
    <2>4. QED  BY <2>3
  <1>13. /\ \A r \in L2 : r.tx <= head + 1
         /\ \A v \in Nat : v < head + 1 => At(L2, v) = At(L1, v)
         /\ At(L2, head + 1) = At(L1, head + 1) \cup new
         /\ Effective(L2)
    <2>1. \A q \in new : q \in At(L1, head + 1) <=> 1 = 0
      BY <1>5, <1>7, <1>9
    <2>2. QED  BY <1>2, <1>7, <1>9, <2>1, CaptureLemma
  <1>14. IsCaptured(L2, L1, new, head + 1, 1)
    BY <1>2, <1>7, <1>9, CapturedRows
  <1>15. quad_log' = L2
    BY <1>3, <1>8, <1>12, AsOfIsAt DEF A, gone, new
  <1> HIDE DEF L2
  <1>16. At(quad_log', head + 1) = quads
    BY <1>5, <1>7, <1>9, <1>13, <1>15
  <1>17. \A v \in 1..head : At(quad_log', v) = At(quad_log, v)
    BY <1>2, <1>9, <1>13, <1>15
  <1>18. LogInv'
    BY <1>1, <1>13, <1>15, <1>16 DEF LogInv
  <1>19. BoundaryInv'
    BY <1>1, StartTick DEF BoundaryInv
  <1>20. CommitInv'
    <2>1. Resolvable(head)'
      BY <1>1, StartTick
    <2>2. ASSUME NEW c \in commits
          PROVE  Resolvable(c)'
      <3>1. Resolvable(c) /\ c \in 1..head
        BY DEF HistoryInv, CommitInv, Resolvable
      <3>2. "resume" \in Kinds /\ ticks' = Extended(ticks, head, "resume")
        BY <1>1 DEF Kinds, BoundaryKinds, OpenTick
      <3>3. QED  BY <1>1, <3>1, <3>2, NewTickResolvable
    <2>3. \A c \in commits' : Resolvable(c)'
      BY <1>1, <2>1, <2>2 DEF Resolvable, IsBoundaryOf
    <2>4. \A r \in quad_log' : r \in quad_log \/ r.tx = head + 1
      BY <1>9, <1>10, <1>14, <1>15 DEF IsCaptured
    <2>5. QED  BY <1>1, <2>3, <2>4 DEF HistoryInv, CommitInv
  <1>21. RecordedVersionsExact'
    BY <1>1, <1>16, <1>17, BoundaryTick
  <1>22. QED  BY <1>1, <1>17, <1>18, <1>19, <1>20, <1>21 DEF HistoryInv, WriteInv

\* Freezing the log keeps the invariant: what was recorded still answers.
LEMMA FreezeHistoryStep ==
    ASSUME TypeOK, ClockInv, HistoryInv, FreezeHistory
    PROVE  HistoryInv'
  <1>1. /\ OpenTick("freeze", quads) /\ level = Log /\ history = "live" /\ history' = "frozen"
        /\ level' = Stamped /\ request' = "level"
        /\ UNCHANGED <<quads, quad_log, commits, rewritten>>
    BY DEF FreezeHistory, ClockInv, LevelInv, tables
  <1>2. "freeze" \in Kinds /\ "freeze" \in BoundaryKinds
        /\ head' = head + 1 /\ ticks' = Extended(ticks, head, "freeze")
    BY <1>1 DEF OpenTick, Kinds, BoundaryKinds
  <1>3. /\ head \in Nat /\ quad_log \in SUBSET LogRows
        /\ \A r \in quad_log : r.tx <= head /\ r.tx <= head + 1
    BY DEF TypeOK, HistoryInv, LogInv, LogRows
  <1>4. At(quad_log, head + 1) = quads
    <2>1. At(quad_log, head + 1) = At(quad_log, head)
      BY <1>3, AtBeyond
    <2>2. QED  BY <1>1, <2>1 DEF HistoryInv, LogInv
  <1>5. LogInv'
    BY <1>1, <1>2, <1>3 DEF HistoryInv, LogInv, Stamped, Log
  <1>6. BoundaryInv'
    <2>1. ticks'[head + 1] = "freeze" /\ \A b \in 1..head + 1 : IsBoundaryOf(b, head)' <=> b = head + 1
      BY <1>2, NewTick
    <2>2. head + 1 \in 1..head'
      BY <1>2, <1>3
    <2>3. \E f \in 1..head' : /\ IsBoundaryOf(f, head)' /\ ticks'[f] = "freeze"
                              /\ \A r \in quad_log' : r.tx <= f
      BY <1>1, <1>2, <1>3, <2>1, <2>2
    <2>4. QED  BY <1>1, <2>3 DEF BoundaryInv, Stamped, Log
  <1>7. CommitInv'
    <2>1. ASSUME NEW c \in commits
          PROVE  Resolvable(c)'
      <3>1. Resolvable(c) /\ c \in 1..head
        BY DEF HistoryInv, CommitInv, Resolvable
      <3>2. QED  BY <1>1, <1>2, <3>1, NewTickResolvable
    <2>2. QED  BY <1>1, <2>1 DEF HistoryInv, CommitInv
  <1>8. RecordedVersionsExact'
    BY <1>1, <1>4, BoundaryTick
  <1>9. QED  BY <1>1, <1>5, <1>6, <1>7, <1>8 DEF HistoryInv, WriteInv

\* Dropping the log keeps the invariant: no version may be asked for after it.
LEMMA DropHistoryStep ==
    ASSUME TypeOK, ClockInv, HistoryInv, DropHistory
    PROVE  HistoryInv'
  <1>1. /\ OpenTick("dropped", quads) /\ history' = "none" /\ level' = Stamped
        /\ request' = "level" /\ quad_log' = {} /\ commits' = {}
    BY DEF DropHistory
  <1>2. "dropped" \in Kinds /\ head \in Nat
        /\ head' = head + 1 /\ ticks' = Extended(ticks, head, "dropped")
    BY <1>1 DEF OpenTick, Kinds, BoundaryKinds, TypeOK
  <1>3. LogInv' /\ CommitInv'
    BY <1>1, EmptyLog DEF LogInv, CommitInv, Stamped, Log
  <1>4. BoundaryInv'
    <2>1. ticks'[head + 1] = "dropped" /\ head + 1 \in 1..head'
      BY <1>2, NewTick
    <2>2. \A g \in 1..head' : ticks'[g] \in {"genesis", "resume", "freeze"} =>
              \E c \in 1..head' : g < c /\ ticks'[c] = "dropped"
      BY <1>2, <2>1
    <2>3. QED  BY <1>1, <2>2 DEF BoundaryInv, Stamped, Log
  <1>5. QED
    BY <1>1, <1>3, <1>4 DEF HistoryInv, WriteInv, RecordedVersionsExact, Recorded, Resolvable

\* Dropping the clock keeps the invariant: there is no version left.
LEMMA DropClockStep ==
    ASSUME TypeOK, ClockInv, HistoryInv, DropClock
    PROVE  HistoryInv'
  <1>1. /\ history = "none" /\ history' = "none" /\ level' = Off /\ request' = "level"
        /\ quad_log' = {} /\ commits' = {} /\ head' = 0
    <2>1. change.to = Off
      BY DEF DropClock, TypeOK, LevelChanges, Levels, Off, Stamped, Log
    <2>2. history = "none"
      BY <2>1 DEF DropClock, ClockInv, ChangeInv
    <2>3. QED  BY <2>2 DEF DropClock, HistoryInv, LogInv
  <1>2. LogInv' /\ CommitInv'
    BY <1>1, EmptyLog DEF LogInv, CommitInv, Off, Log
  <1>3. BoundaryInv'
    BY <1>1 DEF BoundaryInv, Off, Log
  <1>4. QED
    BY <1>1, <1>2, <1>3 DEF HistoryInv, WriteInv, RecordedVersionsExact, Recorded, Resolvable

\* An action that leaves the clock, the tables and the levels.
LEMMA QuietStep ==
    ASSUME HistoryInv, UNCHANGED <<quads, quad_log, commits, head, ticks, level, history, snap, rewritten>>,
           request' = "write" => request = "write"
    PROVE  HistoryInv'
  <1>1. LogInv' /\ CommitInv'
    BY SameVersions DEF HistoryInv, LogInv, CommitInv
  <1>2. BoundaryInv' /\ WriteInv'
    BY SameVersions DEF HistoryInv, BoundaryInv, WriteInv
  <1>3. RecordedVersionsExact'
    BY SameVersions, AsOfIsAt DEF HistoryInv, RecordedVersionsExact
  <1>4. QED  BY <1>1, <1>2, <1>3 DEF HistoryInv

\* Opening a tick of no boundary, with nothing else changed.
LEMMA OpenPlainTick ==
    ASSUME TypeOK, ClockInv, HistoryInv, NEW k \in {"write", "level"}, OpenTick(k, quads),
           level' = Log <=> level = Log,
           UNCHANGED <<quads, quad_log, history, commits, rewritten>>
    PROVE  /\ LogInv' /\ BoundaryInv' /\ CommitInv' /\ RecordedVersionsExact'
           /\ head' = head + 1 /\ ticks'[head'] = k
  <1>1. k \in Kinds /\ k \notin BoundaryKinds /\ head \in Nat
    BY DEF Kinds, BoundaryKinds, TypeOK
  <1>2. head' = head + 1 /\ ticks' = Extended(ticks, head, k)
    BY DEF OpenTick
  <1>3. quads' = quads \ {} /\ quad_log' = {r \in quad_log : r.q \notin {}}
    OBVIOUS
  <1>4. snap'[head + 1] = quads \ {} /\ \A v \in 1..head : snap'[v] = snap[v] \ {}
    <2>1. \A v \in 1..head : v \in 1..head + 1 /\ v # head + 1
      BY <1>1
    <2>2. head + 1 \in 1..head + 1
      BY <1>1
    <2>3. QED  BY <2>1, <2>2 DEF OpenTick, Extended
  <1>5. {} \in SUBSET Quads
    OBVIOUS
  <1>6. LogInv' /\ BoundaryInv' /\ CommitInv' /\ RecordedVersionsExact'
    BY <1>1, <1>2, <1>3, <1>4, <1>5, PlainTick
  <1>7. ticks'[head + 1] = k
    BY <1>1, <1>2, NewTick
  <1>8. QED  BY <1>2, <1>6, <1>7

\* A purge keeps the invariant: the quads leave the log and the snapshots alike.
LEMMA PurgeStep ==
    ASSUME TypeOK, ClockInv, HistoryInv, NEW rows \in SUBSET Quads, Purge(rows)
    PROVE  HistoryInv'
  <1>1. /\ request = "none" /\ request' = "none" /\ quads' = quads \ rows
        /\ UNCHANGED <<level, history, commits, rewritten>>
    BY DEF Purge, meta
  <1>2. CASE HasTicks
    <2>1. "purge" \in Kinds /\ "purge" \notin BoundaryKinds /\ head \in Nat
      BY DEF Kinds, BoundaryKinds, TypeOK
    <2>2. head' = head + 1 /\ ticks' = Extended(ticks, head, "purge")
      BY <1>2 DEF Purge, PurgeClock
    <2>3. quad_log' = {r \in quad_log : r.q \notin rows}
      BY DEF Purge, HistoryInv, LogInv
    <2>4. snap'[head + 1] = quads \ rows /\ \A v \in 1..head : snap'[v] = snap[v] \ rows
      <3>1. \A v \in 1..head : v \in 1..head + 1 /\ v # head + 1
        BY <2>1
      <3>2. head + 1 \in 1..head + 1
        BY <2>1
      <3>3. QED  BY <1>2, <3>1, <3>2 DEF Purge, PurgeClock
    <2>5. LogInv' /\ BoundaryInv' /\ CommitInv' /\ RecordedVersionsExact'
      BY <1>1, <2>1, <2>2, <2>3, <2>4, PlainTick
    <2>6. QED  BY <1>1, <2>5 DEF HistoryInv, WriteInv
  <1>3. CASE ~HasTicks
    <2>1. history = "none" /\ level # Log
      BY <1>3 DEF HasTicks, ClockInv, LevelInv
    <2>2. UNCHANGED <<head, ticks, snap, quad_log>>
      BY <1>3, <2>1 DEF Purge, PurgeClock, clock
    <2>3. LogInv' /\ CommitInv'
      BY <1>1, <2>1, <2>2, SameVersions DEF HistoryInv, LogInv, CommitInv
    <2>4. BoundaryInv'
      BY <1>1, <2>1, <2>2 DEF HistoryInv, BoundaryInv
    <2>5. QED
      BY <1>1, <2>1, <2>3, <2>4
         DEF HistoryInv, WriteInv, RecordedVersionsExact, Recorded, Resolvable
  <1>4. QED  BY <1>2, <1>3

\* HistoryInv is inductive, given the types and the clock.
LEMMA HistoryStep ==
    ASSUME TypeOK, ClockInv, HistoryInv, [Next]_vars
    PROVE  HistoryInv'
  <1>1. CASE BeginWrite
    <2>1. request' = "write" /\ UNCHANGED <<quads, quad_log, commits, level, history, rewritten>>
      BY <1>1 DEF BeginWrite, tables, meta
    <2>2. CASE level >= Stamped
      <3>1. OpenTick("write", quads)
        BY <1>1, <2>2 DEF BeginWrite
      <3>2. LogInv' /\ BoundaryInv' /\ CommitInv' /\ RecordedVersionsExact'
            /\ head' = head + 1 /\ ticks'[head'] = "write"
        BY <2>1, <3>1, OpenPlainTick
      <3>3. WriteInv'
        BY <3>2 DEF WriteInv, TypeOK
      <3>4. QED  BY <3>2, <3>3 DEF HistoryInv
    <2>3. CASE ~(level >= Stamped)
      <3>1. UNCHANGED <<head, ticks, snap>>
        BY <1>1, <2>3 DEF BeginWrite, clock
      <3>2. LogInv' /\ CommitInv'
        BY <2>1, <3>1, SameVersions DEF HistoryInv, LogInv, CommitInv
      <3>3. BoundaryInv' /\ WriteInv'
        BY <2>1, <2>3, <3>1, SameVersions DEF HistoryInv, BoundaryInv, WriteInv
      <3>4. RecordedVersionsExact'
        BY <2>1, <3>1, SameVersions, AsOfIsAt DEF HistoryInv, RecordedVersionsExact
      <3>5. QED  BY <3>2, <3>3, <3>4 DEF HistoryInv
    <2>4. QED  BY <2>2, <2>3
  <1>2. ASSUME NEW rows \in SUBSET Quads, InsertStatement(rows)
        PROVE  HistoryInv'
    <2>1. Statement(rows \ quads, 1)
      BY <1>2 DEF InsertStatement, InsertQuads, Statement, clock, meta
    <2>2. QED  BY <1>2, <2>1, WriteStatement DEF InsertStatement
  <1>3. ASSUME NEW rows \in SUBSET Quads, DeleteStatement(rows)
        PROVE  HistoryInv'
    <2>1. Statement(rows \cap quads, 0)
      BY <1>3 DEF DeleteStatement, DeleteQuads, Statement, clock, meta
    <2>2. QED  BY <1>3, <2>1, WriteStatement DEF DeleteStatement
  <1>4. CASE EndWrite
    BY <1>4, QuietStep DEF EndWrite, tables, clock, meta, ghosts
  <1>5. CASE ClearAllGraphs \/ Clear
    <2>1. Statement(quads \cap quads, 0)
      BY <1>5 DEF ClearAllGraphs, Clear, DeleteQuads, Statement, clock, meta, TypeOK
    <2>2. QED  BY <1>5, <2>1, UntrackedStatement DEF ClearAllGraphs, Clear
  <1>6. CASE OpenBlank
    <2>1. Statement(SystemQuads \ quads, 1)
      BY <1>6, ConstantsAssumption DEF OpenBlank, InsertQuads, Statement, clock, meta
    <2>2. QED  BY <1>6, <2>1, UntrackedStatement DEF OpenBlank
  <1>7. CASE \E rows \in SUBSET Quads : Purge(rows)
    BY <1>7, PurgeStep
  <1>8. CASE \E c \in Changes : SetVersioning(c)
    BY <1>8, QuietStep DEF SetVersioning, tables, clock, meta, ghosts
  <1>9. CASE StartClock \/ StopClock
    <2>1. OpenTick("level", quads) /\ request' = "level"
          /\ UNCHANGED <<quads, quad_log, history, commits, rewritten>>
      BY <1>9 DEF StartClock, StopClock, tables
    <2>2. level' = Log <=> level = Log
      BY <1>9 DEF StartClock, StopClock, Off, Stamped, Log
    <2>3. LogInv' /\ BoundaryInv' /\ CommitInv' /\ RecordedVersionsExact'
      BY <2>1, <2>2, OpenPlainTick
    <2>4. QED  BY <2>1, <2>3 DEF HistoryInv, WriteInv
  <1>10. CASE StartHistory
    BY <1>10, StartHistoryStep
  <1>11. CASE ResumeHistory
    BY <1>11, ResumeHistoryStep
  <1>12. CASE FreezeHistory
    BY <1>12, FreezeHistoryStep
  <1>13. CASE DropHistory
    BY <1>13, DropHistoryStep
  <1>14. CASE DropClock
    BY <1>14, DropClockStep
  <1>15. CASE EndChange
    BY <1>15, QuietStep DEF EndChange, tables, clock, ghosts
  <1>16. CASE UNCHANGED vars
    BY <1>16, QuietStep DEF vars, tables, clock, meta, ghosts
  <1>17. QED
    BY <1>1, <1>2, <1>3, <1>4, <1>5, <1>6, <1>7, <1>8, <1>9, <1>10, <1>11, <1>12, <1>13,
       <1>14, <1>15, <1>16 DEF Next

\* A new store has no log and no version, so it satisfies HistoryInv.
LEMMA HistoryInit == Init => HistoryInv
  <1>1. Init => LogInv /\ CommitInv
    BY EmptyLog DEF Init, LogInv, CommitInv, Off, Log
  <1>2. Init => BoundaryInv /\ WriteInv
    BY DEF Init, BoundaryInv, WriteInv, Off, Log
  <1>3. Init => RecordedVersionsExact
    BY DEF Init, RecordedVersionsExact, Recorded, Resolvable
  <1>4. QED  BY <1>1, <1>2, <1>3 DEF HistoryInv

\* The invariant holds throughout.
THEOREM HistoryInvariant == Spec => [](TypeOK /\ ClockInv /\ HistoryInv)
  <1>1. TypeOK /\ ClockInv /\ [Next]_vars => ClockInv'
    BY ClockStep
  <1>2. TypeOK /\ ClockInv /\ HistoryInv /\ [Next]_vars => HistoryInv'
    BY HistoryStep
  <1>3. QED  BY <1>1, <1>2, ClockInit, HistoryInit, TypeCorrect, PTL DEF Spec

-----------------------------------------------------------------------------
(***************************************************************************)
(* What it gives.                                                          *)
(***************************************************************************)
\* At level log the latest tick is a version, and the log answers it with the
\* quads table: the triggers, the genesis and the resume miss no change and
\* invent none.
THEOREM LogFollowsTheStore == Spec => []HeadVersionIsStore
  <1>1. TypeOK /\ ClockInv /\ HistoryInv => HeadVersionIsStore
    <2>1. SUFFICES ASSUME TypeOK, ClockInv, HistoryInv, level = Log
                   PROVE  Resolvable(head) /\ AsOf(head) = quads
      BY DEF HeadVersionIsStore
    <2>2. Resolvable(head)
      BY <2>1, HeadResolvable DEF HistoryInv
    <2>3. AsOf(head) = quads
      BY <2>1, AsOfIsAt DEF HistoryInv, LogInv
    <2>4. QED  BY <2>2, <2>3
  <1>2. QED  BY <1>1, HistoryInvariant, PTL

\* An as-of query at a recorded version sees the store as it was when the
\* request that opened its tick ended.
THEOREM VersionsAreExact == Spec => []RecordedVersionsExact
  <1>1. HistoryInv => RecordedVersionsExact
    BY DEF HistoryInv
  <1>2. QED  BY <1>1, HistoryInvariant, PTL

\* quad_log only holds effective changes, so the triggers' inserts never meet
\* a row with their key.
THEOREM LogStaysEffective == Spec => []LogIsEffective
  <1>1. HistoryInv => LogIsEffective
    <2>1. SUFFICES ASSUME Effective(quad_log)
                   PROVE  LogIsEffective
      BY DEF HistoryInv, LogInv
    <2>2. \A v : AsOf(v) = At(quad_log, v)
      BY AsOfIsAt
    <2>3. QED  BY <2>1, <2>2 DEF Effective, LogIsEffective
  <1>2. QED  BY <1>1, HistoryInvariant, PTL

\* HEAD~n counts exactly the versions: a commit may always be asked for, and
\* a version that differs from the one before it is a commit.
THEOREM CommitsCount == Spec => []CommitsAreTheVersions
  <1>1. TypeOK /\ ClockInv /\ HistoryInv => CommitsAreTheVersions
    <2>1. SUFFICES ASSUME TypeOK, HistoryInv,
                          NEW v \in 1..head, v > 1, v \notin commits
                   PROVE  AsOf(v) = AsOf(v - 1)
      BY DEF CommitsAreTheVersions, HistoryInv, CommitInv
    <2>2. quad_log \in SUBSET LogRows /\ v \in Nat
      BY <2>1 DEF TypeOK
    <2>3. \A r \in quad_log : r.tx # v
      BY <2>1 DEF HistoryInv, CommitInv
    <2>4. \A q \in Quads : q \in At(quad_log, v) <=> q \in At(quad_log, v - 1)
      BY <2>1, <2>2, <2>3, AtQuiet
    <2>5. At(quad_log, v) \in SUBSET Quads /\ At(quad_log, v - 1) \in SUBSET Quads
      BY DEF At
    <2>6. At(quad_log, v) = At(quad_log, v - 1)
      BY <2>4, <2>5
    <2>7. QED  BY <2>6, AsOfIsAt
  <1>2. QED  BY <1>1, HistoryInvariant, PTL

-----------------------------------------------------------------------------
(***************************************************************************)
(* The past.                                                               *)
(***************************************************************************)
\* A step that is no purge and drops nothing leaves each earlier version.
LEMMA PastStep ==
    ASSUME TypeOK, ClockInv, HistoryInv, [Next]_vars, ~RewritesHistory,
           NEW v \in 1..head, v < head, Resolvable(v)
    PROVE  Resolvable(v)' /\ AsOf(v)' = AsOf(v)
  <1>1. v \in Nat /\ head \in Nat /\ history # "none"
    BY DEF TypeOK, Resolvable
  <1>2. ASSUME NEW S, NEW op, Statement(S, op)
        PROVE  Resolvable(v)' /\ AsOf(v)' = AsOf(v)
    <2>1. At(quad_log', v) = At(quad_log, v)
      BY <1>1, <1>2, StatementLog DEF HistoryInv
    <2>2. QED  BY <1>2, <2>1, AsOfIsAt, SameVersions DEF Statement
  <1>3. ASSUME UNCHANGED <<quad_log, head, ticks, history>>
        PROVE  Resolvable(v)' /\ AsOf(v)' = AsOf(v)
    BY <1>3, AsOfIsAt, SameVersions
  <1>4. ASSUME NEW k \in Kinds, OpenTick(k, quads), history' # "none", UNCHANGED quad_log
        PROVE  Resolvable(v)' /\ AsOf(v)' = AsOf(v)
    BY <1>1, <1>4, AsOfIsAt, NewTickResolvable DEF OpenTick
  <1>5. CASE BeginWrite
    <2>1. UNCHANGED <<quad_log, history>> /\ "write" \in Kinds
      BY <1>5 DEF BeginWrite, tables, meta, Kinds
    <2>2. OpenTick("write", quads) \/ UNCHANGED <<head, ticks>>
      BY <1>5 DEF BeginWrite, clock
    <2>3. QED  BY <1>1, <1>3, <1>4, <2>1, <2>2
  <1>6. ASSUME NEW rows \in SUBSET Quads, InsertStatement(rows) \/ DeleteStatement(rows)
        PROVE  Resolvable(v)' /\ AsOf(v)' = AsOf(v)
    <2>1. Statement(rows \ quads, 1) \/ Statement(rows \cap quads, 0)
      BY <1>6 DEF InsertStatement, InsertQuads, DeleteStatement, DeleteQuads, Statement, clock, meta
    <2>2. QED  BY <1>2, <2>1
  <1>7. CASE EndWrite \/ (\E c \in Changes : SetVersioning(c)) \/ EndChange \/ UNCHANGED vars
    BY <1>3, <1>7 DEF EndWrite, SetVersioning, EndChange, vars, tables, clock, meta
  <1>8. CASE ClearAllGraphs \/ Clear
    <2>1. Statement(quads \cap quads, 0)
      BY <1>8 DEF ClearAllGraphs, Clear, DeleteQuads, Statement, clock, meta, TypeOK
    <2>2. QED  BY <1>2, <2>1
  <1>9. CASE OpenBlank
    <2>1. Statement(SystemQuads \ quads, 1)
      BY <1>9, ConstantsAssumption DEF OpenBlank, InsertQuads, Statement, clock, meta
    <2>2. QED  BY <1>2, <2>1
  <1>10. ASSUME NEW rows \in SUBSET Quads, Purge(rows)
         PROVE  FALSE
    <2>1. HasTicks
      BY <1>1 DEF HasTicks
    <2>2. "purge" \in Kinds /\ head' = head + 1 /\ ticks' = Extended(ticks, head, "purge")
      BY <1>10, <2>1 DEF Purge, PurgeClock, Kinds
    <2>3. ticks'[head + 1] = "purge"
      BY <2>2, NewTick
    <2>4. QED  BY <2>2, <2>3 DEF RewritesHistory
  <1>11. CASE StartClock \/ StopClock
    BY <1>1, <1>4, <1>11 DEF StartClock, StopClock, tables, Kinds
  <1>12. CASE StartHistory
    BY <1>1, <1>12 DEF StartHistory, ClockInv, LevelInv, TypeOK, Histories, Stamped, Log
  <1>13. CASE ResumeHistory
    <2>1. At(quad_log', v) = At(quad_log, v)
      BY <1>13, ResumeHistoryStep
    <2>2. /\ "resume" \in Kinds /\ history' # "none"
          /\ head' = head + 1 /\ ticks' = Extended(ticks, head, "resume")
      BY <1>13 DEF ResumeHistory, OpenTick, Kinds, BoundaryKinds
    <2>3. QED  BY <1>1, <2>1, <2>2, AsOfIsAt, NewTickResolvable
  <1>14. CASE FreezeHistory
    BY <1>4, <1>14 DEF FreezeHistory, tables, Kinds, BoundaryKinds
  <1>15. CASE DropHistory
    <2>1. "dropped" \in Kinds /\ head' = head + 1 /\ ticks' = Extended(ticks, head, "dropped")
      BY <1>15 DEF DropHistory, OpenTick, Kinds, BoundaryKinds
    <2>2. ticks'[head + 1] = "dropped"
      BY <2>1, NewTick
    <2>3. QED  BY <2>1, <2>2 DEF RewritesHistory
  <1>16. CASE DropClock
    BY <1>1, <1>16 DEF DropClock, RewritesHistory
  <1>17. QED
    BY <1>5, <1>6, <1>7, <1>8, <1>9, <1>10, <1>11, <1>12, <1>13, <1>14, <1>15, <1>16 DEF Next

\* History is immutable: apart from a purge and a downgrade with allow_loss,
\* no step changes what a version before the latest answers, or takes it out
\* of what may be asked for.
THEOREM PastIsFixed == Spec => PastVersionsFixed
  <1>1. TypeOK /\ ClockInv /\ HistoryInv /\ [Next]_vars
          => [~RewritesHistory =>
                \A v \in 1..head :
                   v < head /\ Resolvable(v) => Resolvable(v)' /\ AsOf(v)' = AsOf(v)]_vars
    BY PastStep
  <1>2. QED  BY <1>1, HistoryInvariant, PTL DEF Spec, PastVersionsFixed

-----------------------------------------------------------------------------
(***************************************************************************)
(* The versioned store implements TimeTravel, for every set of quads and   *)
(* every bound on the clock.                                               *)
(***************************************************************************)
\* The versions that can be asked for.
Askable == {u \in 1..head : Recorded(u)}

\* Versions' changes told by the versions and what they answer.
LEMMA VersionsStay ==
    ASSUME Askable' = Askable, \A v \in Askable : AsOf(v)' = AsOf(v)
    PROVE  Versions' = Versions
  BY DEF Versions, Askable

\* One more, or the latest anew.
LEMMA VersionsGrow ==
    ASSUME NEW n, NEW content, Askable' = Askable \cup {n}, AsOf(n)' = content,
           \A v \in Askable : v # n => AsOf(v)' = AsOf(v)
    PROVE  Versions' = Promise!With(n, content)
  BY DEF Versions, Askable, Promise!With

\* None.
LEMMA NoVersions ==
    ASSUME Askable = {}
    PROVE  Versions = Promise!NoVersions
  BY DEF Versions, Askable, Promise!NoVersions

\* The initial states are those of TimeTravel.
LEMMA RefinesInit ==
    ASSUME Init
    PROVE  Promise!Init
  <1>1. Askable = {}
    BY DEF Init, Askable
  <1>2. QED  BY <1>1, NoVersions DEF Init, Promise!Init, Off, Log
-----------------------------------------------------------------------------
(***************************************************************************)
(* Which versions can be asked for.                                        *)
(***************************************************************************)
\* Without a history, none.
LEMMA NoneAskable ==
    /\ history = "none" => Askable = {}
    /\ history' = "none" => Askable' = {}
  BY DEF Askable, Recorded, Resolvable

\* A tick keeps the versions there are, unless it drops them; it is one
\* itself while the store records and when recording starts or stops.
LEMMA TickAskable ==
    ASSUME TypeOK, ClockInv, HistoryInv, NEW k \in Kinds \ {"dropped"},
           head' = head + 1, ticks' = Extended(ticks, head, k),
           history # "none", history' # "none", NEW n, n = head + 1
    PROVE  /\ Askable' = Askable \/ Askable' = Askable \cup {n}
           /\ n \in Askable' <=> Resolvable(n)'
           /\ n \notin Askable
  <1>1. head \in Nat /\ \A i \in 1..head + 1 : i \in 1..head \/ i = head + 1
    BY DEF TypeOK
  <1>2. /\ \A i \in 1..head : ticks'[i] = ticks[i]
        /\ ticks'[head + 1] = k
    BY NewTick
  <1>3. ASSUME NEW v \in 1..head
        PROVE  Recorded(v)' <=> Recorded(v)
    <2>1. Resolvable(v)' <=> Resolvable(v)
      BY NewTickResolvable
    <2>2. (\A c \in 1..head' : v < c => ticks'[c] # "dropped")
             <=> (\A c \in 1..head : v < c => ticks[c] # "dropped")
      BY <1>1, <1>2
    <2>3. QED  BY <2>1, <2>2 DEF Recorded
  <1>4. Recorded(n)' <=> Resolvable(n)'
    <2>1. \A c \in 1..head' : ~(n < c)
      BY <1>1
    <2>2. QED  BY <2>1 DEF Recorded
  <1>5. Askable' = {u \in 1..head + 1 : Recorded(u)'}
    BY DEF Askable
  <1>6. n \in 1..head + 1 /\ n \notin 1..head
    BY <1>1
  <1>7. QED  BY <1>1, <1>3, <1>4, <1>5, <1>6 DEF Askable

\* A tick of a live log is a version.
LEMMA LiveTick ==
    ASSUME TypeOK, ClockInv, HistoryInv, NEW k \in Kinds \ BoundaryKinds,
           head' = head + 1, ticks' = Extended(ticks, head, k), level = Log, history' = history,
           NEW n, n = head + 1
    PROVE  Askable' = Askable \cup {n}
  <1>1. head \in Nat /\ head > 0 /\ history = "live"
    BY DEF ClockInv, LevelInv, TypeOK, Stamped, Log
  <1>2. PICK b \in 1..head : IsBoundaryOf(b, head) /\ ticks[b] \in {"genesis", "resume"}
    BY DEF HistoryInv, BoundaryInv
  <1>3. \A i \in 1..head : ticks'[i] = ticks[i]
    BY NewTick
  <1>4. IsBoundaryOf(b, head)'
    BY <1>2, NewTick
  <1>5. Resolvable(head)'
    BY <1>1, <1>2, <1>3, <1>4 DEF Resolvable
  <1>6. Resolvable(n)'
    BY <1>5
  <1>7. k \in Kinds \ {"dropped"}
    BY DEF BoundaryKinds
  <1>8. QED  BY <1>1, <1>6, <1>7, TickAskable

\* A tick of a frozen log is none, nor is one where there is no log.
LEMMA PausedTick ==
    ASSUME TypeOK, ClockInv, HistoryInv, NEW k \in Kinds \ BoundaryKinds,
           head' = head + 1, ticks' = Extended(ticks, head, k), level # Log, history' = history
    PROVE  Askable' = Askable
  <1>1. CASE history = "none"
    BY <1>1, NoneAskable
  <1>2. CASE history # "none"
    <2>1. head \in Nat /\ history = "frozen"
      BY <1>2 DEF ClockInv, LevelInv, TypeOK, Histories, Stamped, Log
    <2>2. PICK f \in 1..head : IsBoundaryOf(f, head) /\ ticks[f] = "freeze"
      BY <2>1 DEF HistoryInv, BoundaryInv
    <2>3. PICK n : n = head + 1
      OBVIOUS
    <2>4. /\ \A i \in 1..head : ticks'[i] = ticks[i]
          /\ \A b \in 1..head : IsBoundaryOf(b, head)' <=> IsBoundaryOf(b, head)
          /\ ~IsBoundaryOf(head, head)'
      BY NewTick
    <2>5. ASSUME Resolvable(head)'
          PROVE  FALSE
      <3>1. PICK b \in 1..head' : /\ IsBoundaryOf(b, head)'
                                  /\ \/ ticks'[b] \in {"genesis", "resume"}
                                     \/ ticks'[b] = "freeze" /\ head' = b
        BY <2>5 DEF Resolvable
      <3>2. b \in 1..head
        BY <2>1, <2>4, <3>1
      <3>3. IsBoundaryOf(b, head)
        BY <2>4, <3>1, <3>2
      <3>4. b = f
        BY <2>1, <2>2, <3>2, <3>3, BoundaryUnique
      <3>5. QED  BY <2>1, <2>2, <2>4, <3>1, <3>2, <3>4
    <2>6. ~Resolvable(n)'
      BY <2>3, <2>5
    <2>7. k \in Kinds \ {"dropped"}
      BY DEF BoundaryKinds
    <2>8. /\ Askable' = Askable \/ Askable' = Askable \cup {n}
          /\ n \in Askable' <=> Resolvable(n)'
      BY <1>2, <2>3, <2>7, TickAskable
    <2>9. QED  BY <2>6, <2>8
  <1>3. QED  BY <1>1, <1>2
-----------------------------------------------------------------------------
(***************************************************************************)
(* The steps.                                                              *)
(***************************************************************************)
\* Statements change the store, and the version now with it.
LEMMA StatementChanges ==
    ASSUME TypeOK, ClockInv, HistoryInv, NEW S, NEW op, Statement(S, op)
    PROVE  Promise!Change
  <1>1. /\ \A v \in Nat : v < head => At(quad_log', v) = At(quad_log, v)
        /\ level # Log => quad_log' = quad_log
        /\ LogInv'
    BY StatementLog DEF HistoryInv
  <1>2. UNCHANGED <<head, ticks, level, history>> /\ quads' \in SUBSET Quads /\ head \in Nat
    BY DEF Statement, TypeOK
  <1>3. Askable' = Askable
    BY <1>2, SameVersions DEF Askable
  <1>4. CASE level = Log
    <2>1. head \in Askable
      <3>1. head \in 1..head /\ Resolvable(head)
        BY <1>4, HeadResolvable DEF HistoryInv
      <3>2. QED  BY <1>2, <3>1 DEF Askable, Recorded
    <2>2. PICK n : n = head
      OBVIOUS
    <2>3. AsOf(n)' = quads'
      BY <1>1, <1>2, <1>4, <2>2, AsOfIsAt DEF LogInv
    <2>4. \A v \in Askable : v # n => AsOf(v)' = AsOf(v)
      BY <1>1, <1>2, <2>2, AsOfIsAt DEF Askable
    <2>5. Versions' = Promise!With(n, quads')
      BY <1>3, <2>1, <2>2, <2>3, <2>4, VersionsGrow
    <2>6. QED  BY <1>2, <1>4, <2>2, <2>5 DEF Promise!Change
  <1>5. CASE level # Log
    <2>1. \A v \in Askable : AsOf(v)' = AsOf(v)
      BY <1>1, <1>5, AsOfIsAt
    <2>2. Versions' = Versions
      BY <1>3, <2>1, VersionsStay
    <2>3. QED  BY <1>2, <1>5, <2>2 DEF Promise!Change
  <1>6. QED  BY <1>4, <1>5

\* The tick of a write, or of a clock that starts or stops.
LEMMA PlainTickTicks ==
    ASSUME TypeOK, ClockInv, HistoryInv, NEW k \in {"write", "level"}, OpenTick(k, quads),
           level' = Log <=> level = Log, UNCHANGED <<quads, quad_log, history>>
    PROVE  Promise!Tick
  <1>1. /\ k \in Kinds \ BoundaryKinds /\ head \in Nat
        /\ head' = head + 1 /\ ticks' = Extended(ticks, head, k)
    BY DEF Kinds, BoundaryKinds, TypeOK, OpenTick
  <1>2. PICK n : n = head + 1
    OBVIOUS
  <1>3. \A v \in Nat : AsOf(v)' = AsOf(v)
    BY AsOfIsAt
  <1>4. Askable \subseteq Nat
    BY <1>1 DEF Askable
  <1>5. CASE level = Log
    <2>1. Askable' = Askable \cup {n}
      BY <1>1, <1>2, <1>5, LiveTick
    <2>2. AsOf(n)' = quads
      <3>1. At(quad_log, head) = quads /\ \A r \in quad_log : r.tx <= head
        BY <1>5 DEF HistoryInv, LogInv
      <3>2. n \in Nat /\ n >= head /\ quad_log \in SUBSET LogRows
        BY <1>1, <1>2 DEF TypeOK
      <3>3. At(quad_log, n) = At(quad_log, head)
        BY <1>1, <3>1, <3>2, AtBeyond
      <3>4. QED  BY <3>1, <3>3, AsOfIsAt
    <2>3. Versions' = Promise!With(n, quads)
      BY <1>3, <1>4, <2>1, <2>2, VersionsGrow
    <2>4. QED  BY <1>1, <1>2, <1>5, <2>3 DEF Promise!Tick
  <1>6. CASE level # Log
    <2>1. Askable' = Askable
      BY <1>1, <1>6, PausedTick
    <2>2. Versions' = Versions
      BY <1>3, <1>4, <2>1, VersionsStay
    <2>3. QED  BY <1>1, <1>6, <2>2 DEF Promise!Tick
  <1>7. QED  BY <1>5, <1>6

\* The genesis: where no log was, no old version can be asked for again.
LEMMA GenesisRecords ==
    ASSUME TypeOK, ClockInv, HistoryInv, StartHistory
    PROVE  Promise!Record
  <1>1. /\ OpenTick("genesis", quads) /\ history' = "live" /\ level = Stamped /\ level' = Log
        /\ quads' = quads /\ head \in Nat
    BY DEF StartHistory, TypeOK
  <1>2. /\ "genesis" \in Kinds /\ head' = head + 1 /\ ticks' = Extended(ticks, head, "genesis")
        /\ \A i \in 1..head + 1 : i \in 1..head \/ i = head + 1
    BY <1>1 DEF OpenTick, Kinds, BoundaryKinds
  <1>3. history = "none"
    BY <1>1 DEF StartHistory, ClockInv, LevelInv, TypeOK, Histories, Stamped, Log
  <1>4. PICK n : n = head + 1
    OBVIOUS
  <1>5. /\ \A i \in 1..head : ticks'[i] = ticks[i]
        /\ \A b, v \in 1..head : IsBoundaryOf(b, v)' <=> IsBoundaryOf(b, v)
    BY <1>2, NewTick
  <1>6. ASSUME NEW v \in 1..head
        PROVE  ~Recorded(v)'
    <2>1. SUFFICES ASSUME Recorded(v)'
                   PROVE  FALSE
      OBVIOUS
    <2>2. PICK b \in 1..head' : /\ IsBoundaryOf(b, v)'
                                /\ \/ ticks'[b] \in {"genesis", "resume"}
                                   \/ ticks'[b] = "freeze" /\ v = b
      BY <2>1 DEF Recorded, Resolvable
    <2>3. b \in 1..head /\ b <= v
      BY <1>1, <1>2, <2>2 DEF IsBoundaryOf
    <2>4. ticks[b] \in {"genesis", "resume", "freeze"}
      BY <1>5, <2>2, <2>3
    <2>5. PICK c \in 1..head : b < c /\ ticks[c] = "dropped"
      BY <1>3, <2>3, <2>4 DEF HistoryInv, BoundaryInv
    <2>6. IsBoundaryOf(b, v)
      BY <1>5, <2>2, <2>3
    <2>7. v < c
      BY <1>1, <2>5, <2>6 DEF IsBoundaryOf, BoundaryKinds
    <2>8. c \in 1..head' /\ ticks'[c] = "dropped"
      BY <1>1, <1>2, <1>5, <2>5
    <2>9. QED  BY <2>1, <2>7, <2>8 DEF Recorded
  <1>7. Askable' = {n}
    <2>1. Resolvable(head)'
      BY <1>1, StartTick
    <2>2. Recorded(n)'
      <3>1. \A c \in 1..head' : ~(n < c)
        BY <1>1, <1>2, <1>4
      <3>2. QED  BY <1>2, <1>4, <2>1, <3>1 DEF Recorded
    <2>3. n \in 1..head' /\ \A i \in 1..head' : i \in 1..head \/ i = n
      BY <1>1, <1>2, <1>4
    <2>4. Askable' = {u \in 1..head' : Recorded(u)'}
      BY DEF Askable
    <2>5. QED  BY <1>6, <2>2, <2>3, <2>4
  <1>8. Askable = {}
    BY <1>3, NoneAskable
  <1>9. AsOf(n)' = quads
    <2>1. LogInv'
      BY StartHistoryStep DEF HistoryInv
    <2>2. QED  BY <1>1, <1>2, <1>4, <2>1, AsOfIsAt DEF LogInv
  <1>10. Versions' = Promise!With(n, quads)
    BY <1>7, <1>8, <1>9, VersionsGrow
  <1>11. QED  BY <1>1, <1>2, <1>4, <1>10 DEF Promise!Record, Stamped, Log

\* A resume: the versions up to the freeze are there again as they were.
LEMMA ResumeRecords ==
    ASSUME TypeOK, ClockInv, HistoryInv, ResumeHistory
    PROVE  Promise!Record
  <1>1. /\ OpenTick("resume", quads) /\ history = "frozen" /\ history' = "live"
        /\ level = Stamped /\ level' = Log /\ quads' = quads /\ head \in Nat
    BY DEF ResumeHistory, TypeOK
  <1>2. /\ "resume" \in Kinds \ {"dropped"} /\ head' = head + 1
        /\ ticks' = Extended(ticks, head, "resume")
    BY <1>1 DEF OpenTick, Kinds, BoundaryKinds
  <1>3. PICK n : n = head + 1
    OBVIOUS
  <1>4. HistoryInv' /\ \A v \in 1..head : At(quad_log', v) = At(quad_log, v)
    BY ResumeHistoryStep
  <1>5. Resolvable(n)'
    BY <1>1, <1>2, <1>3, StartTick
  <1>6. Askable' = Askable \cup {n}
    BY <1>1, <1>2, <1>3, <1>5, TickAskable
  <1>7. AsOf(n)' = quads
    BY <1>1, <1>2, <1>3, <1>4, AsOfIsAt DEF HistoryInv, LogInv
  <1>8. \A v \in Askable : AsOf(v)' = AsOf(v)
    BY <1>4, AsOfIsAt DEF Askable
  <1>9. Versions' = Promise!With(n, quads)
    BY <1>6, <1>7, <1>8, VersionsGrow
  <1>10. QED  BY <1>1, <1>2, <1>3, <1>9 DEF Promise!Record, Stamped, Log

\* A freeze: its tick is the last version until a resume.
LEMMA FreezePauses ==
    ASSUME TypeOK, ClockInv, HistoryInv, FreezeHistory
    PROVE  Promise!Pause
  <1>1. /\ OpenTick("freeze", quads) /\ level = Log /\ history = "live" /\ history' = "frozen"
        /\ level' = Stamped /\ UNCHANGED <<quads, quad_log>> /\ head \in Nat
    BY DEF FreezeHistory, ClockInv, LevelInv, tables, TypeOK
  <1>2. /\ "freeze" \in Kinds \ {"dropped"} /\ "freeze" \in BoundaryKinds /\ head' = head + 1
        /\ ticks' = Extended(ticks, head, "freeze")
    BY <1>1 DEF OpenTick, Kinds, BoundaryKinds
  <1>3. PICK n : n = head + 1
    OBVIOUS
  <1>4. Resolvable(n)'
    <2>1. /\ ticks'[head + 1] = "freeze"
          /\ \A b \in 1..head + 1 : IsBoundaryOf(b, head)' <=> b = head + 1
      BY <1>2, NewTick
    <2>2. n \in 1..head' /\ IsBoundaryOf(n, head)' /\ ticks'[n] = "freeze" /\ n = head'
      BY <1>1, <1>2, <1>3, <2>1
    <2>3. Resolvable(head)'
      BY <1>1, <2>2 DEF Resolvable
    <2>4. QED  BY <2>2, <2>3
  <1>5. Askable' = Askable \cup {n}
    BY <1>1, <1>2, <1>3, <1>4, TickAskable
  <1>6. AsOf(n)' = quads
    <2>1. At(quad_log, head) = quads /\ \A r \in quad_log : r.tx <= head
      BY <1>1 DEF HistoryInv, LogInv
    <2>2. n \in Nat /\ n >= head /\ quad_log \in SUBSET LogRows
      BY <1>1, <1>3 DEF TypeOK
    <2>3. At(quad_log, n) = At(quad_log, head)
      BY <1>1, <2>1, <2>2, AtBeyond
    <2>4. QED  BY <1>1, <2>1, <2>3, AsOfIsAt
  <1>7. \A v \in Askable : AsOf(v)' = AsOf(v)
    BY <1>1, AsOfIsAt
  <1>8. Versions' = Promise!With(n, quads)
    BY <1>5, <1>6, <1>7, VersionsGrow
  <1>9. QED  BY <1>1, <1>2, <1>3, <1>8 DEF Promise!Pause, Stamped, Log
\* Dropping the log: no version is left.
LEMMA DropDrops ==
    ASSUME TypeOK, ClockInv, HistoryInv, DropHistory
    PROVE  Promise!Drop
  <1>1. /\ history' = "none" /\ level = Log /\ level' = Stamped /\ quads' = quads
        /\ head' = head + 1
    BY DEF DropHistory, OpenTick
  <1>2. Askable' = {}
    BY <1>1, NoneAskable
  <1>3. Versions' = Promise!NoVersions
    BY <1>2 DEF Versions, Askable, Promise!NoVersions
  <1>4. QED  BY <1>1, <1>3 DEF Promise!Drop, Stamped, Log

\* Dropping the clock: none was left.
LEMMA DropClockForgets ==
    ASSUME TypeOK, ClockInv, HistoryInv, DropClock
    PROVE  Promise!Forget
  <1>1. /\ history = "none" /\ history' = "none" /\ head' = 0 /\ quads' = quads
        /\ level = Stamped /\ level' = Off
    <2>1. change.to = Off
      BY DEF DropClock, TypeOK, LevelChanges, Levels, Off, Stamped, Log
    <2>2. QED  BY <2>1 DEF DropClock, ClockInv, ChangeInv
  <1>2. Askable = {} /\ Askable' = {}
    BY <1>1, NoneAskable
  <1>3. Versions = Promise!NoVersions
    BY <1>2, NoVersions
  <1>4. Versions' = Versions
    BY <1>2, VersionsStay
  <1>5. QED  BY <1>1, <1>3, <1>4 DEF Promise!Forget, Off, Stamped, Log

\* A purge takes its quads out of the store and of every version.
LEMMA PurgePurges ==
    ASSUME TypeOK, ClockInv, HistoryInv, NEW rows \in SUBSET Quads, Purge(rows)
    PROVE  Promise!Purge(rows)
  <1>1. quads' = quads \ rows /\ UNCHANGED <<level, history>> /\ head \in Nat
    BY DEF Purge, meta, TypeOK
  <1>2. CASE HasTicks
    <2>1. /\ "purge" \in Kinds \ BoundaryKinds
          /\ head' = head + 1 /\ ticks' = Extended(ticks, head, "purge")
      BY <1>2 DEF Purge, PurgeClock, Kinds, BoundaryKinds
    <2>2. PICK n : n = head + 1
      OBVIOUS
    <2>3. quad_log' = {r \in quad_log : r.q \notin rows}
      BY DEF Purge, HistoryInv, LogInv
    <2>4. \A v \in Nat : At(quad_log', v) = At(quad_log, v) \ rows
      <3>1. quad_log \in SUBSET LogRows /\ Effective(quad_log)
        BY DEF TypeOK, HistoryInv, LogInv
      <3>2. QED  BY <2>3, <3>1, PurgedLog
    <2>5. \A v \in Askable : AsOf(v)' = AsOf(v) \ rows
      BY <1>1, <2>4, AsOfIsAt DEF Askable
    <2>6. CASE level = Log
      <3>1. Askable' = Askable \cup {n}
        BY <1>1, <2>1, <2>2, <2>6, LiveTick
      <3>2. n \notin Askable
        BY <1>1, <2>2 DEF Askable
      <3>3. AsOf(n)' = quads'
        <4>1. HistoryInv'
          BY PurgeStep
        <4>2. At(quad_log', head') = quads'
          BY <1>1, <2>6, <4>1 DEF HistoryInv, LogInv
        <4>3. QED  BY <2>1, <2>2, <4>2, AsOfIsAt
      <3>4. Versions' = [v \in DOMAIN Versions \cup {n} |->
                            IF v = n THEN quads' ELSE Versions[v] \ rows]
        <4>1. Versions' = [v \in Askable' |-> AsOf(v)'] /\ Versions = [v \in Askable |-> AsOf(v)]
          BY DEF Versions, Askable
        <4>2. QED  BY <2>5, <3>1, <3>2, <3>3, <4>1
      <3>5. QED  BY <1>1, <2>1, <2>2, <2>6, <3>4 DEF Promise!Purge
    <2>7. CASE level # Log
      <3>1. Askable' = Askable
        BY <1>1, <2>1, <2>7, PausedTick
      <3>2. Versions' = [v \in DOMAIN Versions |-> Versions[v] \ rows]
        <4>1. Versions' = [v \in Askable' |-> AsOf(v)'] /\ Versions = [v \in Askable |-> AsOf(v)]
          BY DEF Versions, Askable
        <4>2. QED  BY <2>5, <3>1, <4>1
      <3>3. QED  BY <1>1, <2>1, <2>7, <3>2 DEF Promise!Purge
    <2>8. QED  BY <2>6, <2>7
  <1>3. CASE ~HasTicks
    <2>1. history = "none" /\ level # Log /\ head' = head
      BY <1>3 DEF HasTicks, ClockInv, LevelInv, Purge, PurgeClock, clock
    <2>2. Askable = {} /\ Askable' = {}
      BY <1>1, <2>1, NoneAskable
    <2>3. Versions = Promise!NoVersions /\ Versions' = Versions
      BY <2>2, NoVersions, VersionsStay
    <2>4. QED  BY <1>1, <2>1, <2>3 DEF Promise!Purge, Promise!NoVersions
  <1>4. QED  BY <1>2, <1>3

\* A step that leaves the tables and the clock.
LEMMA QuietStutters ==
    ASSUME UNCHANGED <<quads, quad_log, head, ticks, level, history>>
    PROVE  UNCHANGED Promise!vars
  <1>1. Askable' = Askable
    BY SameVersions DEF Askable
  <1>2. \A v \in Askable : AsOf(v)' = AsOf(v)
    BY AsOfIsAt
  <1>3. Versions' = Versions
    BY <1>1, <1>2, VersionsStay
  <1>4. QED  BY <1>3 DEF Promise!vars

\* Every step is one of TimeTravel, or none.
LEMMA RefinesStep ==
    ASSUME TypeOK, ClockInv, HistoryInv, [Next]_vars
    PROVE  [Promise!Next]_Promise!vars
  <1>1. CASE BeginWrite
    <2>1. UNCHANGED <<quads, quad_log, level, history>>
      BY <1>1 DEF BeginWrite, tables, meta
    <2>2. CASE level >= Stamped
      BY <1>1, <2>1, <2>2, PlainTickTicks DEF BeginWrite, Promise!Next
    <2>3. CASE ~(level >= Stamped)
      BY <1>1, <2>1, <2>3, QuietStutters DEF BeginWrite, clock
    <2>4. QED  BY <2>2, <2>3
  <1>2. ASSUME NEW rows \in SUBSET Quads, InsertStatement(rows)
        PROVE  Promise!Change
    <2>1. Statement(rows \ quads, 1)
      BY <1>2 DEF InsertStatement, InsertQuads, Statement, clock, meta
    <2>2. QED  BY <2>1, StatementChanges
  <1>3. ASSUME NEW rows \in SUBSET Quads, DeleteStatement(rows)
        PROVE  Promise!Change
    <2>1. Statement(rows \cap quads, 0)
      BY <1>3 DEF DeleteStatement, DeleteQuads, Statement, clock, meta
    <2>2. QED  BY <2>1, StatementChanges
  <1>4. CASE EndWrite
    BY <1>4, QuietStutters DEF EndWrite, tables, clock, meta
  <1>5. CASE ClearAllGraphs \/ Clear
    <2>1. Statement(quads \cap quads, 0)
      BY <1>5 DEF ClearAllGraphs, Clear, DeleteQuads, Statement, clock, meta, TypeOK
    <2>2. QED  BY <2>1, StatementChanges DEF Promise!Next
  <1>6. CASE OpenBlank
    <2>1. Statement(SystemQuads \ quads, 1)
      BY <1>6, ConstantsAssumption DEF OpenBlank, InsertQuads, Statement, clock, meta
    <2>2. QED  BY <2>1, StatementChanges DEF Promise!Next
  <1>7. CASE \E rows \in SUBSET Quads : Purge(rows)
    BY <1>7, PurgePurges DEF Promise!Next
  <1>8. CASE \E c \in Changes : SetVersioning(c)
    BY <1>8, QuietStutters DEF SetVersioning, tables, clock, meta
  <1>9. CASE StartClock \/ StopClock
    <2>1. OpenTick("level", quads) /\ UNCHANGED <<quads, quad_log, history>>
      BY <1>9 DEF StartClock, StopClock, tables
    <2>2. level' = Log <=> level = Log
      BY <1>9 DEF StartClock, StopClock, Off, Stamped, Log
    <2>3. QED  BY <2>1, <2>2, PlainTickTicks DEF Promise!Next
  <1>10. CASE StartHistory
    BY <1>10, GenesisRecords DEF Promise!Next
  <1>11. CASE ResumeHistory
    BY <1>11, ResumeRecords DEF Promise!Next
  <1>12. CASE FreezeHistory
    BY <1>12, FreezePauses DEF Promise!Next
  <1>13. CASE DropHistory
    BY <1>13, DropDrops DEF Promise!Next
  <1>14. CASE DropClock
    BY <1>14, DropClockForgets DEF Promise!Next
  <1>15. CASE EndChange
    BY <1>15, QuietStutters DEF EndChange, tables, clock
  <1>16. CASE UNCHANGED vars
    BY <1>16, QuietStutters DEF vars, tables, clock, meta
  <1>17. QED
    BY <1>1, <1>2, <1>3, <1>4, <1>5, <1>6, <1>7, <1>8, <1>9, <1>10, <1>11, <1>12, <1>13,
       <1>14, <1>15, <1>16 DEF Next, Promise!Next

\* What a query as of a version answers, over the log that the triggers, the
\* genesis, freezes, resumes, purges and level changes of version.rs write, is
\* what TimeTravel promises.
THEOREM TimeTravelIsImplemented == Spec => ImplementsTimeTravel
  <1>1. Init => Promise!Init
    BY RefinesInit
  <1>2. TypeOK /\ ClockInv /\ HistoryInv /\ [Next]_vars => [Promise!Next]_Promise!vars
    BY RefinesStep
  <1>3. QED  BY <1>1, <1>2, HistoryInvariant, PTL DEF Spec, ImplementsTimeTravel, Promise!Spec
=============================================================================
