------------------------- MODULE StoreTransactions -------------------------
(***************************************************************************)
(* Threads that share one Store: the flags of VersionedBackend, the        *)
(* savepoints of the one SQLite connection behind it, and the operations   *)
(* that write through them at a level that keeps a clock.                  *)
(*                                                                         *)
(* A plain write (insert, remove, an update that compiles to SQL) is one   *)
(* atomic request.  An interactive write (an update that needs the         *)
(* fallback, a Cypher write, a JSON-LD write) is begin, some requests, then*)
(* commit or, after an error, rollback.  The connection's mutex is held for*)
(* one request, one begin, one commit, one rollback: each is a step.  The  *)
(* flags are read and stored outside it: those are steps of their own.     *)
(* An update whose SQL a runtime guard rejects starts as a plain write and *)
(* goes on as an interactive one.  The process may die at any step: SQLite *)
(* then keeps what was committed, which is nothing since the outermost     *)
(* savepoint was opened.                                                   *)
(***************************************************************************)
EXTENDS Naturals, Sequences, FiniteSets

CONSTANTS
    Threads,       \* the threads that share the store
    MaxOps,        \* bound: writes per thread
    MaxRequests,   \* bound: requests of one interactive write
    MaxCrashes     \* bound: deaths of the process

ASSUME ConstantsAssumption == /\ IsFiniteSet(Threads)
                              /\ MaxOps \in Nat
                              /\ MaxRequests \in Nat
                              /\ MaxCrashes \in Nat

VARIABLES
    db,             \* the connection's view: [head, rows], rows [thread, op, req, tick]
    stack,          \* the open savepoints oxilite_tx: the db each would restore
    in_transaction, \* VersionedBackend.in_transaction
    tick_open,      \* VersionedBackend.tick_open
    pc,             \* where each thread is
    interactive,    \* the thread's latest write goes through a transaction
    with_tick,      \* the request a thread is about to execute opens a tick
    op,             \* the number of each thread's latest write
    requests,       \* requests that write executed
    crashes         \* how often the process died

(***************************************************************************)
(* History variables, read by no action.                                   *)
(***************************************************************************)
VARIABLES
    met,            \* the kinds of other threads' writes the latest write overlapped
    outcome         \* how each thread's writes ended

flags == <<in_transaction, tick_open>>
vars  == <<db, stack, flags, pc, interactive, with_tick, op, requests, crashes, met, outcome>>

-----------------------------------------------------------------------------
\* Mutant of Row: writes are counted from 0.
RowFromZero(th, tick) ==
    [thread |-> th, op |-> op[th] - 1, req |-> requests[th] + 1, tick |-> tick]

Row(th, tick) == [thread |-> th, op |-> op[th], req |-> requests[th] + 1, tick |-> tick]

Goto(th, label) == pc' = [pc EXCEPT ![th] = label]

\* The call returns; count is what the caller takes to be applied.
Return(th, ok, count) ==
    /\ Goto(th, "idle")
    /\ outcome' = [outcome EXCEPT
                      ![th] = Append(@, [ok |-> ok, requests |-> count, met |-> met[th]])]

\* The threads inside a call, and the kind of write each is in.
Active == {th \in Threads : pc[th] # "idle"}

Kind(is_interactive) == IF is_interactive THEN "interactive" ELSE "plain"

\* needs_fallback: some operation of the plan has no SQL.
StartWrite(th, needs_fallback) ==
    /\ pc[th] = "idle"
    /\ op[th] < MaxOps
    /\ op' = [op EXCEPT ![th] = @ + 1]
    /\ requests' = [requests EXCEPT ![th] = 0]
    /\ interactive' = [interactive EXCEPT ![th] = needs_fallback]
    /\ Goto(th, IF needs_fallback THEN "begin" ELSE "prepare")
    /\ met' = [u \in Threads |->
                  IF u = th THEN {Kind(interactive[w]) : w \in Active}
                  ELSE IF u \in Active THEN met[u] \cup {Kind(needs_fallback)}
                  ELSE met[u]]
    /\ UNCHANGED <<db, stack, flags, with_tick, crashes, outcome>>

\* begin: SAVEPOINT oxilite_tx, then the flags.
Begin(th) ==
    /\ pc[th] = "begin"
    /\ stack' = Append(stack, db)
    /\ Goto(th, "begun")
    /\ UNCHANGED <<db, flags, with_tick, op, requests, outcome, interactive, crashes, met>>

BeginFlags(th) ==
    /\ pc[th] = "begun"
    /\ in_transaction' = TRUE
    /\ tick_open' = FALSE
    /\ Goto(th, "next")
    /\ UNCHANGED <<db, stack, with_tick, op, requests, outcome, interactive, crashes, met>>

\* prepared: no tick when the transaction has opened its own.
Prepare(th) ==
    /\ pc[th] = "prepare"
    /\ with_tick' = [with_tick EXCEPT ![th] = ~(in_transaction /\ tick_open)]
    /\ Goto(th, "prepared")
    /\ UNCHANGED <<db, stack, flags, op, requests, outcome, interactive, crashes, met>>

\* Mutant of PrepareFlags: the tick of a transaction is not remembered.
PrepareFlagsForgets(th) ==
    /\ pc[th] = "prepared"
    /\ Goto(th, "execute")
    /\ UNCHANGED <<db, stack, flags, with_tick, op, requests, outcome, interactive, crashes, met>>

\* prepared: the tick of a transaction is marked open before it is executed.
PrepareFlags(th) ==
    /\ pc[th] = "prepared"
    /\ tick_open' = (tick_open \/ (with_tick[th] /\ in_transaction))
    /\ Goto(th, "execute")
    /\ UNCHANGED <<db, stack, in_transaction, with_tick, op, requests, outcome, interactive, crashes, met>>

\* The database after the request: its row, and its tick if it opens one.
Written(th) ==
    LET tick == IF with_tick[th] THEN db.head + 1 ELSE db.head
    IN  [head |-> tick, rows |-> db.rows \cup {Row(th, tick)}]

\* Mutant of Execute: the request is not taken off the plan.
ExecuteNotCounted(th) ==
    /\ pc[th] = "execute"
    /\ db' = Written(th)
    /\ IF interactive[th]
       THEN Goto(th, "next") /\ UNCHANGED outcome
       ELSE Return(th, TRUE, 1)
    /\ UNCHANGED <<stack, flags, with_tick, op, requests, interactive, crashes, met>>

\* execute: the statements run under a savepoint of their own.
Execute(th) ==
    /\ pc[th] = "execute"
    /\ db' = Written(th)
    /\ requests' = [requests EXCEPT ![th] = @ + 1]
    /\ IF interactive[th]
       THEN Goto(th, "next") /\ UNCHANGED outcome
       ELSE Return(th, TRUE, 1)
    /\ UNCHANGED <<stack, flags, with_tick, op, interactive, crashes, met>>

\* A statement fails: the request is rolled back and reports the error.
ExecuteFails(th) ==
    /\ pc[th] = "execute"
    /\ IF interactive[th]
       THEN Goto(th, "failed") /\ UNCHANGED outcome
       ELSE Return(th, FALSE, 0)
    /\ UNCHANGED <<db, stack, flags, with_tick, op, requests, interactive, crashes, met>>

\* A runtime guard rejects the SQL of a plain update: the request is rolled
\* back and the update starts again as an interactive one.
ExecuteUnsupported(th) ==
    /\ pc[th] = "execute"
    /\ ~interactive[th]
    /\ interactive' = [interactive EXCEPT ![th] = TRUE]
    /\ Goto(th, "begin")
    /\ met' = [u \in Threads |-> IF u \in Active \ {th} THEN met[u] \cup {"interactive"}
                                                       ELSE met[u]]
    /\ UNCHANGED <<db, stack, flags, with_tick, op, requests, crashes, outcome>>

\* The next operation of the plan, its evaluation failing, or the end.
NextRequest(th) ==
    /\ pc[th] = "next"
    /\ requests[th] < MaxRequests
    /\ Goto(th, "prepare")
    /\ UNCHANGED <<db, stack, flags, with_tick, op, requests, outcome, interactive, crashes, met>>

EvaluationFails(th) ==
    /\ pc[th] = "next"
    /\ Goto(th, "failed")
    /\ UNCHANGED <<db, stack, flags, with_tick, op, requests, outcome, interactive, crashes, met>>

\* commit and rollback reset the flags, then speak to the connection.
EndFlags(th) ==
    /\ pc[th] \in {"next", "failed"}
    /\ in_transaction' = FALSE
    /\ tick_open' = FALSE
    /\ Goto(th, IF pc[th] = "next" THEN "commit" ELSE "rollback")
    /\ UNCHANGED <<db, stack, with_tick, op, requests, outcome, interactive, crashes, met>>

\* RELEASE oxilite_tx: the innermost savepoint of that name.  Without one it
\* would fail; SavepointsBalanced shows there always is one.
Commit(th) ==
    /\ pc[th] = "commit"
    /\ stack # <<>>
    /\ stack' = SubSeq(stack, 1, Len(stack) - 1)
    /\ Return(th, TRUE, requests[th])
    /\ UNCHANGED <<db, flags, with_tick, op, requests, interactive, crashes, met>>

\* Mutant of Rollback: the savepoint is released, not rolled back.
RollbackReleases(th) ==
    /\ pc[th] = "rollback"
    /\ stack # <<>>
    /\ stack' = SubSeq(stack, 1, Len(stack) - 1)
    /\ Return(th, FALSE, 0)
    /\ UNCHANGED <<db, flags, with_tick, op, requests, interactive, crashes, met>>

\* Mutant of Rollback: the savepoint is rolled back, not released.
RollbackKeepsSavepoint(th) ==
    /\ pc[th] = "rollback"
    /\ stack # <<>>
    /\ db' = stack[Len(stack)]
    /\ Return(th, FALSE, 0)
    /\ UNCHANGED <<stack, flags, with_tick, op, requests, interactive, crashes, met>>

\* ROLLBACK TO oxilite_tx; RELEASE oxilite_tx.
Rollback(th) ==
    /\ pc[th] = "rollback"
    /\ stack # <<>>
    /\ db' = stack[Len(stack)]
    /\ stack' = SubSeq(stack, 1, Len(stack) - 1)
    /\ Return(th, FALSE, 0)
    /\ UNCHANGED <<flags, with_tick, op, requests, interactive, crashes, met>>

\* What SQLite finds on disk: savepoints open inside the outermost one, so
\* nothing written since it was opened is committed.
OnDisk == IF stack = <<>> THEN db ELSE stack[1]

\* The process dies.  The calls that were running never return; the next
\* process opens the store and its threads start anew.
Crash ==
    /\ crashes < MaxCrashes
    /\ crashes' = crashes + 1
    /\ db' = OnDisk
    /\ stack' = <<>>
    /\ in_transaction' = FALSE /\ tick_open' = FALSE
    /\ pc' = [th \in Threads |-> "idle"]
    /\ outcome' = [th \in Threads |->
                      IF th \in Active
                      THEN Append(outcome[th], [ok |-> FALSE, requests |-> 0, met |-> met[th]])
                      ELSE outcome[th]]
    /\ UNCHANGED <<interactive, with_tick, op, requests, met>>

-----------------------------------------------------------------------------
Init ==
    /\ db = [head |-> 0, rows |-> {}]
    /\ stack = <<>>
    /\ in_transaction = FALSE /\ tick_open = FALSE
    /\ pc = [th \in Threads |-> "idle"]
    /\ interactive = [th \in Threads |-> FALSE]
    /\ with_tick = [th \in Threads |-> FALSE]
    /\ op = [th \in Threads |-> 0]
    /\ requests = [th \in Threads |-> 0]
    /\ crashes = 0
    /\ met = [th \in Threads |-> {}]
    /\ outcome = [th \in Threads |-> <<>>]

Step(th) ==
    \/ Begin(th) \/ BeginFlags(th)
    \/ Prepare(th) \/ PrepareFlags(th) \/ Execute(th) \/ ExecuteFails(th)
    \/ ExecuteUnsupported(th)
    \/ NextRequest(th) \/ EvaluationFails(th)
    \/ EndFlags(th) \/ Commit(th) \/ Rollback(th)

Next ==
    \/ \E th \in Threads :
          \/ \E needs_fallback \in BOOLEAN : StartWrite(th, needs_fallback)
          \/ Step(th)
    \/ Crash

\* A thread inside a store call keeps running; whether it calls again is its own affair.
Fairness == \A th \in Threads : WF_vars(Step(th))

Spec == Init /\ [][Next]_vars /\ Fairness

-----------------------------------------------------------------------------
Labels == {"idle", "begin", "begun", "prepare", "prepared", "execute", "next", "failed",
           "commit", "rollback"}
Databases == [head : Nat,
              rows : SUBSET [thread : Threads, op : 1..MaxOps, req : Nat, tick : Nat]]

\* Every variable holds what its field can hold.
TypeOK ==
    /\ db \in Databases
    /\ stack \in Seq(Databases)
    /\ in_transaction \in BOOLEAN /\ tick_open \in BOOLEAN
    /\ pc \in [Threads -> Labels]
    /\ interactive \in [Threads -> BOOLEAN]
    /\ with_tick \in [Threads -> BOOLEAN]
    /\ op \in [Threads -> 0..MaxOps]
    /\ requests \in [Threads -> Nat]
    /\ crashes \in Nat
    /\ met \in [Threads -> SUBSET {"plain", "interactive"}]
    /\ outcome \in [Threads -> Seq([ok : BOOLEAN, requests : Nat,
                                    met : SUBSET {"plain", "interactive"}])]

\* The threads whose savepoint is open.
InSavepoint == {th \in Threads : /\ interactive[th]
                                 /\ pc[th] \notin {"idle", "begin"}}

\* Each begin is matched by one RELEASE, however threads interleave: when no
\* thread is inside an interactive write, no transaction is left open on the
\* connection, so what was acknowledged is on disk.
SavepointsBalanced == Len(stack) = Cardinality(InSavepoint)

\* The requests of write n of th that the store holds.
Applied(th, n) == {r.req : r \in {x \in db.rows : x.thread = th /\ x.op = n}}

\* The requests of the write that must be there: all of them or none.
Promised(o) == IF o.ok THEN 1..o.requests ELSE {}

\* The same for a write that overlapped no interactive write of another
\* thread: plain writes beside it, errors, and crashes then and later leave it
\* whole or absent, in the connection's view and on disk.
LoneWritesAreAtomic ==
    \A th \in Threads : \A n \in 1..Len(outcome[th]) :
        "interactive" \notin outcome[th][n].met =>
            /\ Applied(th, n) = Promised(outcome[th][n])
            /\ {r \in OnDisk.rows : r.thread = th /\ r.op = n}
                  = {r \in db.rows : r.thread = th /\ r.op = n}

\* The row belongs to a write that ended and overlapped no other.
OfLoneWrite(r) == r.op <= Len(outcome[r.thread]) /\ outcome[r.thread][r.op].met = {}

\* docs/versioning.md "Every atomic write is one tick ... An interactive
\* transaction is one tick": the rows of a write carry one tick, and those of
\* another write another one, when neither overlapped any write.
LoneWritesHaveATick ==
    \A r, s \in db.rows :
        OfLoneWrite(r) /\ OfLoneWrite(s)
            => ((r.thread = s.thread /\ r.op = s.op) <=> r.tick = s.tick)

\* Every store call returns: no thread waits for a savepoint that never ends.
CallsReturn == \A th \in Threads : pc[th] # "idle" ~> pc[th] = "idle"
=============================================================================
