---------------------- MODULE StoreTransactionsProofs ----------------------
(***************************************************************************)
(* Proofs about StoreTransactions, for every finite set of threads and     *)
(* every bound on their writes, requests and crashes.                      *)
(***************************************************************************)
EXTENDS StoreTransactions, FiniteSetTheorems, SequenceTheorems, TLAPS

\* What the label of a thread says of its write: how it ends, whether it has
\* executed a request, and its number.
ControlInv ==
    \A th \in Threads :
        /\ pc[th] \in {"begin", "begun", "next", "failed", "commit", "rollback"} => interactive[th]
        /\ pc[th] # "idle" /\ (~interactive[th] \/ pc[th] \in {"begin", "begun"}) => requests[th] = 0
        /\ op[th] = IF pc[th] = "idle" THEN Len(outcome[th]) ELSE Len(outcome[th]) + 1

\* A row names the call, the request and the tick that wrote it.
Rows == [thread : Threads, op : 1..MaxOps, req : Nat, tick : Nat]
\* How a call ended.
Outcomes == [ok : BOOLEAN, requests : Nat, met : SUBSET {"plain", "interactive"}]

\* Init has the types and the control state.
LEMMA TypeInit == Init => TypeOK /\ ControlInv
  <1> SUFFICES ASSUME Init PROVE TypeOK /\ ControlInv
    OBVIOUS
  <1> USE ConstantsAssumption DEF Init
  <1>1. db \in Databases /\ stack \in Seq(Databases)
    BY DEF Databases
  <1>2. <<>> \in Seq(Outcomes)
    OBVIOUS
  <1>3. outcome \in [Threads -> Seq(Outcomes)] /\ met \in [Threads -> SUBSET {"plain", "interactive"}]
    BY <1>2
  <1>4. pc \in [Threads -> Labels] /\ interactive \in [Threads -> BOOLEAN] /\ with_tick \in [Threads -> BOOLEAN]
    BY DEF Labels
  <1>5. op \in [Threads -> 0..MaxOps] /\ requests \in [Threads -> Nat]
    OBVIOUS
  <1>6. TypeOK
    BY <1>1, <1>3, <1>4, <1>5 DEF TypeOK, Outcomes
  <1>7. ControlInv
    BY DEF ControlInv
  <1>8. QED  BY <1>6, <1>7

\* What a request leaves is a database.
LEMMA WrittenType ==
    ASSUME TypeOK, ControlInv, NEW th \in Threads, pc[th] = "execute"
    PROVE  Written(th) \in Databases
  <1> USE ConstantsAssumption
  <1>1. op[th] \in 1..MaxOps
    BY DEF TypeOK, ControlInv
  <1>2. db.head \in Nat /\ db.rows \in SUBSET Rows
    BY DEF TypeOK, Databases, Rows
  <1> DEFINE tick == IF with_tick[th] THEN db.head + 1 ELSE db.head
  <1>3. tick \in Nat
    BY <1>2
  <1>4. Row(th, tick) \in Rows
    BY <1>1, <1>3 DEF TypeOK, Row, Rows
  <1>5. QED  BY <1>2, <1>3, <1>4 DEF Written, Databases, Rows

\* A call that returns leaves a typed outcome and the thread idle.
LEMMA ReturnType ==
    ASSUME TypeOK, NEW th \in Threads, NEW ok \in BOOLEAN, NEW count \in Nat, Return(th, ok, count)
    PROVE  pc' \in [Threads -> Labels] /\ outcome' \in [Threads -> Seq(Outcomes)]
  <1> DEFINE o == [ok |-> ok, requests |-> count, met |-> met[th]]
  <1>1. o \in Outcomes
    BY DEF TypeOK, Outcomes
  <1>2. outcome \in [Threads -> Seq(Outcomes)] /\ pc \in [Threads -> Labels]
    BY DEF TypeOK, Outcomes
  <1> HIDE DEF o
  <1>3. Append(outcome[th], o) \in Seq(Outcomes)
    BY <1>1, <1>2
  <1>4. outcome' = [outcome EXCEPT ![th] = Append(outcome[th], o)]
    BY DEF Return, o
  <1>5. QED  BY <1>2, <1>3, <1>4 DEF Return, Goto, Labels

\* Every step keeps the types and the control state.
LEMMA TypeStep ==
    ASSUME TypeOK, ControlInv, [Next]_vars
    PROVE  TypeOK' /\ ControlInv'
  <1> USE ConstantsAssumption
  <1>0. pc \in [Threads -> Labels] /\ interactive \in [Threads -> BOOLEAN]
    BY DEF TypeOK
  <1>1. ASSUME NEW th \in Threads, NEW b \in BOOLEAN, StartWrite(th, b)
        PROVE  TypeOK' /\ ControlInv'
    <2>1. TypeOK'
      BY <1>1 DEF TypeOK, StartWrite, Labels, Goto, Kind, flags
    <2>2. ControlInv'
      BY <1>1 DEF TypeOK, ControlInv, StartWrite, Labels, Goto, flags
    <2>3. QED  BY <2>1, <2>2
  <1>2. ASSUME NEW th \in Threads, Begin(th)
        PROVE  TypeOK' /\ ControlInv'
    BY <1>2 DEF TypeOK, ControlInv, Begin, Goto, Labels, flags
  <1>3. ASSUME NEW th \in Threads, BeginFlags(th)
        PROVE  TypeOK' /\ ControlInv'
    BY <1>3 DEF TypeOK, ControlInv, BeginFlags, Goto, Labels, flags
  <1>4. ASSUME NEW th \in Threads, Prepare(th)
        PROVE  TypeOK' /\ ControlInv'
    BY <1>4 DEF TypeOK, ControlInv, Prepare, Goto, Labels, flags
  <1>5. ASSUME NEW th \in Threads, PrepareFlags(th)
        PROVE  TypeOK' /\ ControlInv'
    BY <1>5 DEF TypeOK, ControlInv, PrepareFlags, Goto, Labels, flags
  <1>6. ASSUME NEW th \in Threads, Execute(th)
        PROVE  TypeOK' /\ ControlInv'
    <2>1. db' \in Databases
      BY <1>6, WrittenType DEF Execute
    <2>2. pc' \in [Threads -> Labels] /\ outcome' \in [Threads -> Seq(Outcomes)]
      <3>1. CASE interactive[th]
        BY <1>6, <3>1 DEF TypeOK, Execute, Goto, Labels, Outcomes
      <3>2. CASE ~interactive[th]
        BY <1>6, <3>2, ReturnType DEF Execute
      <3>3. QED  BY <3>1, <3>2
    <2>3. requests' \in [Threads -> Nat]
      BY <1>6 DEF TypeOK, Execute
    <2>4. TypeOK'
      BY <1>6, <2>1, <2>2, <2>3 DEF TypeOK, Execute, Outcomes, flags
    <2>5. ControlInv'
      BY <1>6 DEF TypeOK, ControlInv, Execute, Return, Goto, Labels, flags
    <2>6. QED  BY <2>4, <2>5
  <1>7. ASSUME NEW th \in Threads, ExecuteFails(th)
        PROVE  TypeOK' /\ ControlInv'
    <2>1. pc' \in [Threads -> Labels] /\ outcome' \in [Threads -> Seq(Outcomes)]
      <3>1. CASE interactive[th]
        BY <1>7, <3>1 DEF TypeOK, ExecuteFails, Goto, Labels, Outcomes
      <3>2. CASE ~interactive[th]
        BY <1>7, <3>2, ReturnType DEF ExecuteFails
      <3>3. QED  BY <3>1, <3>2
    <2>2. TypeOK'
      BY <1>7, <2>1 DEF TypeOK, ExecuteFails, Outcomes, flags
    <2>3. ControlInv'
      <3>1. CASE interactive[th]
        BY <1>7, <3>1 DEF TypeOK, ControlInv, ExecuteFails, Goto, Labels, flags
      <3>2. CASE ~interactive[th]
        BY <1>7, <3>2 DEF TypeOK, ControlInv, ExecuteFails, Return, Goto, Labels, flags
      <3>3. QED  BY <3>1, <3>2
    <2>4. QED  BY <2>2, <2>3
  <1>8. ASSUME NEW th \in Threads, ExecuteUnsupported(th)
        PROVE  TypeOK' /\ ControlInv'
    BY <1>8 DEF TypeOK, ControlInv, ExecuteUnsupported, Goto, Labels, flags
  <1>9. ASSUME NEW th \in Threads, NextRequest(th)
        PROVE  TypeOK' /\ ControlInv'
    BY <1>9 DEF TypeOK, ControlInv, NextRequest, Goto, Labels, flags
  <1>10. ASSUME NEW th \in Threads, EvaluationFails(th)
         PROVE  TypeOK' /\ ControlInv'
    BY <1>10 DEF TypeOK, ControlInv, EvaluationFails, Goto, Labels, flags
  <1>11. ASSUME NEW th \in Threads, EndFlags(th)
         PROVE  TypeOK' /\ ControlInv'
    BY <1>11 DEF TypeOK, ControlInv, EndFlags, Goto, Labels, flags
  <1>12. ASSUME NEW th \in Threads, Commit(th)
         PROVE  TypeOK' /\ ControlInv'
    BY <1>12 DEF TypeOK, ControlInv, Commit, Return, Goto, Labels, flags
  <1>13. ASSUME NEW th \in Threads, Rollback(th)
         PROVE  TypeOK' /\ ControlInv'
    BY <1>13 DEF TypeOK, ControlInv, Rollback, Return, Goto, Labels, flags
  <1>14. CASE Crash
    <2>1. db' \in Databases
      BY <1>14 DEF TypeOK, Crash, OnDisk
    <2>2. ASSUME NEW th \in Threads
          PROVE  /\ outcome'[th] \in Seq(Outcomes)
                 /\ Len(outcome'[th]) = IF pc[th] = "idle" THEN Len(outcome[th])
                                                           ELSE Len(outcome[th]) + 1
      <3> DEFINE o == [ok |-> FALSE, requests |-> 0, met |-> met[th]]
      <3>1. o \in Outcomes /\ outcome[th] \in Seq(Outcomes)
        BY <2>2 DEF TypeOK, Outcomes
      <3>2. outcome'[th] = IF pc[th] = "idle" THEN outcome[th] ELSE Append(outcome[th], o)
        BY <1>14, <2>2 DEF Crash, Active
      <3> HIDE DEF o
      <3>3. QED  BY <3>1, <3>2
    <2>3. outcome' \in [Threads -> Seq(Outcomes)]
      <3>1. outcome' = [th \in Threads |-> outcome'[th]]
        BY <1>14 DEF Crash
      <3>2. QED  BY <2>2, <3>1
    <2>4. pc' \in [Threads -> Labels]
      BY <1>14 DEF Crash, Labels
    <2>5. TypeOK'
      <3>1. stack' \in Seq(Databases) /\ crashes' \in Nat
        BY <1>14 DEF TypeOK, Crash
      <3>2. in_transaction' \in BOOLEAN /\ tick_open' \in BOOLEAN
        BY <1>14 DEF Crash
      <3>3. QED  BY <1>14, <2>1, <2>3, <2>4, <3>1, <3>2 DEF TypeOK, Crash, Outcomes
    <2>6. ControlInv'
      BY <1>14, <2>2 DEF TypeOK, ControlInv, Crash
    <2>7. QED  BY <2>5, <2>6
  <1>15. CASE UNCHANGED vars
    BY <1>15 DEF TypeOK, ControlInv, vars, flags
  <1>16. QED
    BY <1>1, <1>2, <1>3, <1>4, <1>5, <1>6, <1>7, <1>8, <1>9, <1>10, <1>11, <1>12, <1>13, <1>14,
       <1>15 DEF Next, Step
-----------------------------------------------------------------------------
(***************************************************************************)
(* Who overlaps whom.                                                      *)
(***************************************************************************)
\* A running write has met the kind of every write that runs beside it.
MeetInv == \A th, u \in Active : th # u => Kind(interactive[u]) \in met[th]

\* No step but a start brings a thread in, no step but a start and a rejected
\* plain write changes what a thread met or the kind of its write.
LEMMA QuietMeet ==
    ASSUME MeetInv, Active' \subseteq Active, UNCHANGED <<interactive, met>>
    PROVE  MeetInv'
  BY DEF MeetInv, Kind

\* Every step keeps track of who overlaps whom.
LEMMA MeetStep ==
    ASSUME TypeOK, MeetInv, [Next]_vars
    PROVE  MeetInv'
  <1>1. ASSUME NEW th \in Threads, NEW b \in BOOLEAN, StartWrite(th, b)
        PROVE  MeetInv'
    <2>1. Active' = Active \cup {th} /\ th \notin Active
      BY <1>1 DEF StartWrite, Goto, Active, TypeOK
    <2>2. \A u \in Threads : interactive'[u] = IF u = th THEN b ELSE interactive[u]
      BY <1>1 DEF StartWrite, TypeOK
    <2>3. /\ met'[th] = {Kind(interactive[w]) : w \in Active}
          /\ \A u \in Active : met'[u] = met[u] \cup {Kind(b)}
      BY <1>1, <2>1 DEF StartWrite, Active
    <2>4. \A u \in Active : u \in Threads
      BY DEF Active
    <2>5. QED  BY <2>1, <2>2, <2>3, <2>4 DEF MeetInv, Kind
  <1>2. ASSUME NEW th \in Threads, ExecuteUnsupported(th)
        PROVE  MeetInv'
    <2>1. Active' = Active /\ th \in Active
      BY <1>2 DEF ExecuteUnsupported, Goto, Active, TypeOK
    <2>2. \A u \in Threads : interactive'[u] = IF u = th THEN TRUE ELSE interactive[u]
      BY <1>2 DEF ExecuteUnsupported, TypeOK
    <2>3. /\ met'[th] = met[th]
          /\ \A u \in Active : u # th => met'[u] = met[u] \cup {"interactive"}
      BY <1>2, <2>1 DEF ExecuteUnsupported, Active
    <2>4. \A u \in Active : u \in Threads
      BY DEF Active
    <2>5. SUFFICES ASSUME NEW a \in Active', NEW u \in Active', a # u
                   PROVE  Kind(interactive'[u]) \in met'[a]
      BY DEF MeetInv, Kind
    <2>6. CASE a = th
      BY <2>1, <2>2, <2>3, <2>4, <2>5, <2>6 DEF MeetInv
    <2>7. CASE a # th /\ u = th
      BY <2>1, <2>2, <2>3, <2>4, <2>5, <2>7 DEF Kind
    <2>8. CASE a # th /\ u # th
      BY <2>1, <2>2, <2>3, <2>4, <2>5, <2>8 DEF MeetInv
    <2>9. QED  BY <2>6, <2>7, <2>8
  <1>3. ASSUME NEW th \in Threads,
               \/ Begin(th) \/ BeginFlags(th) \/ Prepare(th) \/ PrepareFlags(th)
               \/ NextRequest(th) \/ EvaluationFails(th) \/ EndFlags(th)
        PROVE  MeetInv'
    <2>1. Active' = Active /\ UNCHANGED <<interactive, met>>
      BY <1>3 DEF Active, TypeOK, Begin, BeginFlags, Prepare, PrepareFlags, NextRequest,
                  EvaluationFails, EndFlags, Goto
    <2>2. QED  BY <2>1, QuietMeet
  <1>4. ASSUME NEW th \in Threads,
               Execute(th) \/ ExecuteFails(th) \/ Commit(th) \/ Rollback(th)
        PROVE  MeetInv'
    <2>1. Active' \subseteq Active /\ UNCHANGED <<interactive, met>>
      BY <1>4 DEF Active, TypeOK, Execute, ExecuteFails, Commit, Rollback, Goto, Return
    <2>2. QED  BY <2>1, QuietMeet
  <1>5. CASE Crash
    BY <1>5 DEF MeetInv, Crash, Active
  <1>6. CASE UNCHANGED vars
    BY <1>6 DEF MeetInv, vars, Active
  <1>7. QED  BY <1>1, <1>2, <1>3, <1>4, <1>5, <1>6 DEF Next, Step

-----------------------------------------------------------------------------
(***************************************************************************)
(* The savepoints.                                                         *)
(***************************************************************************)
\* Leaving the last element out of a sequence.
LEMMA Popped ==
    ASSUME NEW S, NEW s \in Seq(S), s # <<>>
    PROVE  LET p == SubSeq(s, 1, Len(s) - 1)
           IN  /\ Len(s) \in Nat /\ Len(s) >= 1 /\ s[Len(s)] \in S
               /\ p \in Seq(S) /\ Len(p) = Len(s) - 1
               /\ \A i \in 1..Len(p) : p[i] = s[i]
  <1>1. Len(s) \in Nat /\ Len(s) >= 1
    BY EmptySeq
  <1>2. \A i \in 1..Len(s) : s[i] \in S
    BY ElementOfSeq
  <1> DEFINE n == Len(s) - 1
             p == SubSeq(s, 1, n)
  <1>3. n \in Nat /\ \A i \in 1..n : s[i] \in S
    BY <1>1, <1>2
  <1> HIDE DEF n
  <1>4. /\ p \in Seq(S)
        /\ Len(p) = IF 1 <= n THEN n - 1 + 1 ELSE 0
        /\ \A i \in 1..(n - 1 + 1) : p[i] = s[1 + i - 1]
    BY <1>3, SubSeqProperties, 1 \in Int, n \in Int
  <1> HIDE DEF p
  <1>5. Len(p) = n /\ \A i \in 1..Len(p) : p[i] = s[i]
    BY <1>3, <1>4
  <1>6. QED  BY <1>1, <1>2, <1>4, <1>5 DEF p, n

\* The threads with a savepoint are finitely many.
LEMMA SavepointThreads == InSavepoint \in SUBSET Threads /\ IsFiniteSet(InSavepoint)
  <1>1. InSavepoint \subseteq Threads
    BY DEF InSavepoint
  <1>2. QED  BY <1>1, ConstantsAssumption, FS_Subset

\* begin opens the thread's savepoint, commit and rollback end it, a crash
\* ends them all; no other step does either.
LEMMA SavepointMoves ==
    ASSUME TypeOK, ControlInv, [Next]_vars
    PROVE  \/ /\ InSavepoint' = InSavepoint /\ stack' = stack
           \/ \E th \in Threads : /\ th \notin InSavepoint /\ InSavepoint' = InSavepoint \cup {th}
                                  /\ stack' = Append(stack, db)
           \/ \E th \in Threads : /\ th \in InSavepoint /\ InSavepoint' = InSavepoint \ {th}
                                  /\ stack # <<>> /\ stack' = SubSeq(stack, 1, Len(stack) - 1)
           \/ InSavepoint' = {} /\ stack' = <<>>
  <1>1. ASSUME NEW th \in Threads, NEW b \in BOOLEAN, StartWrite(th, b)
        PROVE  InSavepoint' = InSavepoint /\ stack' = stack
    BY <1>1 DEF InSavepoint, TypeOK, StartWrite, Goto
  <1>2. ASSUME NEW th \in Threads, Begin(th)
        PROVE  /\ th \notin InSavepoint /\ InSavepoint' = InSavepoint \cup {th}
               /\ stack' = Append(stack, db)
    BY <1>2 DEF InSavepoint, TypeOK, ControlInv, Begin, Goto
  <1>3. ASSUME NEW th \in Threads,
               \/ BeginFlags(th) \/ Prepare(th) \/ PrepareFlags(th)
               \/ NextRequest(th) \/ EvaluationFails(th) \/ EndFlags(th)
        PROVE  InSavepoint' = InSavepoint /\ stack' = stack
    BY <1>3 DEF InSavepoint, TypeOK, BeginFlags, Prepare, PrepareFlags, NextRequest,
                EvaluationFails, EndFlags, Goto
  <1>4. ASSUME NEW th \in Threads, Execute(th) \/ ExecuteFails(th)
        PROVE  InSavepoint' = InSavepoint /\ stack' = stack
    BY <1>4 DEF InSavepoint, TypeOK, Execute, ExecuteFails, Goto, Return
  <1>5. ASSUME NEW th \in Threads, ExecuteUnsupported(th)
        PROVE  InSavepoint' = InSavepoint /\ stack' = stack
    BY <1>5 DEF InSavepoint, TypeOK, ExecuteUnsupported, Goto
  <1>6. ASSUME NEW th \in Threads, Commit(th) \/ Rollback(th)
        PROVE  /\ th \in InSavepoint /\ InSavepoint' = InSavepoint \ {th}
               /\ stack # <<>> /\ stack' = SubSeq(stack, 1, Len(stack) - 1)
    BY <1>6 DEF InSavepoint, TypeOK, ControlInv, Commit, Rollback, Goto, Return
  <1>7. CASE Crash
    BY <1>7 DEF InSavepoint, Crash
  <1>8. CASE UNCHANGED vars
    BY <1>8 DEF InSavepoint, vars
  <1>9. QED
    BY <1>1, <1>2, <1>3, <1>4, <1>5, <1>6, <1>7, <1>8 DEF Next, Step

\* Every step keeps the savepoints balanced.
LEMMA BalanceStep ==
    ASSUME TypeOK, ControlInv, SavepointsBalanced, [Next]_vars
    PROVE  SavepointsBalanced'
  <1>0. stack \in Seq(Databases) /\ db \in Databases
    BY DEF TypeOK
  <1>1. CASE InSavepoint' = InSavepoint /\ stack' = stack
    BY <1>1 DEF SavepointsBalanced
  <1>2. ASSUME NEW th \in Threads, th \notin InSavepoint, InSavepoint' = InSavepoint \cup {th},
               stack' = Append(stack, db)
        PROVE  SavepointsBalanced'
    <2>1. Cardinality(InSavepoint') = Cardinality(InSavepoint) + 1
      BY <1>2, SavepointThreads, FS_AddElement
    <2>2. Len(stack') = Len(stack) + 1
      BY <1>0, <1>2
    <2>3. QED  BY <2>1, <2>2 DEF SavepointsBalanced
  <1>3. ASSUME NEW th \in Threads, th \in InSavepoint, InSavepoint' = InSavepoint \ {th},
               stack # <<>>, stack' = SubSeq(stack, 1, Len(stack) - 1)
        PROVE  SavepointsBalanced'
    <2>1. Cardinality(InSavepoint') = Cardinality(InSavepoint) - 1
      BY <1>3, SavepointThreads, FS_RemoveElement
    <2>2. Len(stack') = Len(stack) - 1
      BY <1>0, <1>3, Popped
    <2>3. QED  BY <2>1, <2>2 DEF SavepointsBalanced
  <1>4. CASE InSavepoint' = {} /\ stack' = <<>>
    BY <1>4, FS_EmptySet DEF SavepointsBalanced
  <1>5. QED  BY <1>1, <1>2, <1>3, <1>4, SavepointMoves

\* While a write runs that met no interactive one, the only savepoint is its own.
LEMMA LoneStack ==
    ASSUME TypeOK, MeetInv, SavepointsBalanced,
           NEW th \in Threads, th \in Active, "interactive" \notin met[th]
    PROVE  /\ InSavepoint \subseteq {th}
           /\ th \notin InSavepoint => stack = <<>>
           /\ th \in InSavepoint => Len(stack) = 1
  <1>1. InSavepoint \subseteq {th}
    BY DEF MeetInv, InSavepoint, Active, Kind
  <1>2. stack \in Seq(Databases)
    BY DEF TypeOK
  <1>3. ASSUME th \notin InSavepoint PROVE stack = <<>>
    <2>1. Len(stack) = 0
      BY <1>1, <1>3, FS_EmptySet DEF SavepointsBalanced
    <2>2. QED  BY <1>2, <2>1, EmptySeq
  <1>4. ASSUME th \in InSavepoint PROVE Len(stack) = 1
    <2>1. InSavepoint = {th}
      BY <1>1, <1>4
    <2>2. QED  BY <2>1, FS_Singleton DEF SavepointsBalanced
  <1>5. QED  BY <1>1, <1>3, <1>4
-----------------------------------------------------------------------------
(***************************************************************************)
(* What the connection can come to show: its own view of the database and  *)
(* the ones its savepoints would restore.                                  *)
(***************************************************************************)
Views == {db} \cup {stack[i] : i \in 1..Len(stack)}

\* Every view is a database.
LEMMA ViewsType == TypeOK => Views \subseteq Databases
  BY ElementOfSeq DEF TypeOK, Views

\* A step shows nothing that was not there, unless it executes a request.
LEMMA ViewsMove ==
    ASSUME TypeOK, [Next]_vars
    PROVE  \/ Views' \subseteq Views
           \/ \E u \in Threads : Execute(u) /\ Views' \subseteq Views \cup {Written(u)}
  <1>0. stack \in Seq(Databases) /\ Len(stack) \in Nat
    BY DEF TypeOK
  <1>1. ASSUME db' = db, stack' = stack
        PROVE  Views' \subseteq Views
    BY <1>1 DEF Views
  <1>2. ASSUME NEW th \in Threads, NEW b \in BOOLEAN, StartWrite(th, b)
        PROVE  Views' \subseteq Views
    BY <1>1, <1>2 DEF StartWrite
  <1>3. ASSUME NEW th \in Threads,
               \/ BeginFlags(th) \/ Prepare(th) \/ PrepareFlags(th) \/ ExecuteFails(th)
               \/ ExecuteUnsupported(th) \/ NextRequest(th) \/ EvaluationFails(th) \/ EndFlags(th)
        PROVE  Views' \subseteq Views
    BY <1>1, <1>3 DEF BeginFlags, Prepare, PrepareFlags, ExecuteFails, ExecuteUnsupported,
                      NextRequest, EvaluationFails, EndFlags
  <1>4. ASSUME NEW th \in Threads, Begin(th)
        PROVE  Views' \subseteq Views
    <2>1. /\ db' = db /\ Len(stack') = Len(stack) + 1
          /\ \A i \in 1..Len(stack') : stack'[i] = IF i = Len(stack) + 1 THEN db ELSE stack[i]
      BY <1>0, <1>4, AppendProperties DEF Begin, TypeOK
    <2>2. QED  BY <1>0, <2>1 DEF Views
  <1>5. ASSUME NEW th \in Threads, Commit(th) \/ Rollback(th)
        PROVE  Views' \subseteq Views
    <2>1. stack # <<>> /\ stack' = SubSeq(stack, 1, Len(stack) - 1) /\ db' \in {db, stack[Len(stack)]}
      BY <1>5 DEF Commit, Rollback
    <2>2. /\ Len(stack) >= 1 /\ Len(stack') = Len(stack) - 1
          /\ \A i \in 1..Len(stack') : stack'[i] = stack[i]
      BY <1>0, <2>1, Popped
    <2>3. QED  BY <1>0, <2>1, <2>2 DEF Views
  <1>6. ASSUME NEW th \in Threads, Execute(th)
        PROVE  Views' \subseteq Views \cup {Written(th)}
    BY <1>6 DEF Execute, Views
  <1>7. CASE Crash
    <2>1. db' = OnDisk /\ stack' = <<>> /\ Len(stack') = 0
      BY <1>7, EmptySeq DEF Crash
    <2>2. OnDisk \in Views
      BY <1>0, EmptySeq DEF OnDisk, Views
    <2>3. QED  BY <2>1, <2>2 DEF Views
  <1>8. CASE UNCHANGED vars
    BY <1>1, <1>8 DEF vars
  <1>9. QED
    BY <1>2, <1>3, <1>4, <1>5, <1>6, <1>7, <1>8 DEF Next, Step

-----------------------------------------------------------------------------
(***************************************************************************)
(* Rows.                                                                   *)
(***************************************************************************)
\* No row is of a write to come, or has a tick to come.
RowsInv == \A e \in Views : \A r \in e.rows : r.op <= op[r.thread] /\ r.tick <= e.head

\* Writes are numbered upwards.
LEMMA OpGrows ==
    ASSUME TypeOK, [Next]_vars, NEW th \in Threads
    PROVE  op'[th] >= op[th] /\ op[th] \in Nat /\ op'[th] \in Nat
  <1>0. op \in [Threads -> 0..MaxOps] /\ \A u \in Threads : op[u] \in Nat
    BY ConstantsAssumption DEF TypeOK
  <1>1. ASSUME NEW u \in Threads, NEW b \in BOOLEAN, StartWrite(u, b)
        PROVE  op'[th] >= op[th] /\ op'[th] \in Nat
    BY <1>0, <1>1 DEF StartWrite
  <1>2. ASSUME op' = op
        PROVE  op'[th] >= op[th] /\ op'[th] \in Nat
    BY <1>0, <1>2
  <1>3. ASSUME NEW u \in Threads, Step(u)
        PROVE  op' = op
    BY <1>3 DEF Step, Begin, BeginFlags, Prepare, PrepareFlags, Execute, ExecuteFails,
                ExecuteUnsupported, NextRequest, EvaluationFails, EndFlags, Commit, Rollback
  <1>4. QED  BY <1>0, <1>1, <1>2, <1>3 DEF Next, Crash, vars

\* The row that a request writes.
LEMMA WrittenRow ==
    ASSUME TypeOK, ControlInv, NEW th \in Threads, pc[th] = "execute"
    PROVE  \E t \in Nat : /\ t = IF with_tick[th] THEN db.head + 1 ELSE db.head
                          /\ Written(th).head = t
                          /\ Written(th).rows = db.rows \cup {Row(th, t)}
                          /\ Row(th, t) \in Rows /\ Row(th, t).tick = t
                          /\ Row(th, t).thread = th /\ Row(th, t).op = op[th]
                          /\ Row(th, t).req = requests[th] + 1
  <1>1. op[th] \in 1..MaxOps /\ requests[th] \in Nat
    BY ConstantsAssumption DEF TypeOK, ControlInv
  <1>2. db.head \in Nat
    BY DEF TypeOK, Databases
  <1> DEFINE t == IF with_tick[th] THEN db.head + 1 ELSE db.head
  <1>3. t \in Nat
    BY <1>2
  <1>4. Written(th) = [head |-> t, rows |-> db.rows \cup {Row(th, t)}]
    BY DEF Written
  <1> HIDE DEF t
  <1>5. Row(th, t) \in Rows
    BY <1>1, <1>3 DEF Row, Rows
  <1>6. QED  BY <1>3, <1>4, <1>5 DEF Row, t

\* Every step keeps the rows of known writes and ticks.
LEMMA RowsStep ==
    ASSUME TypeOK, ControlInv, RowsInv, [Next]_vars
    PROVE  RowsInv'
  <1>0. ASSUME NEW e \in Databases, NEW r \in e.rows
        PROVE  r \in Rows /\ r.thread \in Threads /\ r.op \in Nat /\ r.tick \in Nat /\ e.head \in Nat
    BY <1>0, ConstantsAssumption DEF Databases, Rows
  <1>1. ASSUME NEW e \in Views, NEW r \in e.rows
        PROVE  r.op <= op'[r.thread] /\ r.tick <= e.head
    <2>1. e \in Databases
      BY <1>1, ViewsType
    <2>2. r.op <= op[r.thread] /\ r.tick <= e.head
      BY <1>1 DEF RowsInv
    <2>3. QED  BY <1>0, <1>1, <2>1, <2>2, OpGrows
  <1>2. ASSUME NEW u \in Threads, Execute(u), NEW r \in Written(u).rows
        PROVE  r.op <= op'[r.thread] /\ r.tick <= Written(u).head
    <2>1. PICK t \in Nat : /\ t = IF with_tick[u] THEN db.head + 1 ELSE db.head
                           /\ Written(u).head = t
                           /\ Written(u).rows = db.rows \cup {Row(u, t)}
                           /\ Row(u, t) \in Rows /\ Row(u, t).tick = t
                           /\ Row(u, t).thread = u /\ Row(u, t).op = op[u]
      BY <1>2, WrittenRow DEF Execute
    <2>2. CASE r \in db.rows
      <3>1. db \in Views /\ db \in Databases
        BY DEF Views, TypeOK
      <3>2. QED  BY <1>0, <1>1, <2>1, <2>2, <3>1
    <2>3. CASE r = Row(u, t)
      BY <1>2, <2>1, <2>3, OpGrows
    <2>4. QED  BY <1>2, <2>1, <2>2, <2>3
  <1>3. QED  BY <1>1, <1>2, ViewsMove DEF RowsInv
-----------------------------------------------------------------------------
(***************************************************************************)
(* Atomicity.                                                              *)
(***************************************************************************)
RowsOf(e, th, n) == {r \in e.rows : r.thread = th /\ r.op = n}

\* A write that ended and met no interactive one is whole or absent in every
\* view the connection can come to show.
EndedInv ==
    \A th \in Threads : \A n \in 1..Len(outcome[th]) :
        "interactive" \notin outcome[th][n].met =>
            /\ Applied(th, n) = Promised(outcome[th][n])
            /\ \A e \in Views : RowsOf(e, th, n) = RowsOf(db, th, n)

\* A running write that met no interactive one has written what it executed,
\* and nothing of it is in what its savepoint would restore.
RunningInv ==
    \A th \in Active :
        "interactive" \notin met[th] =>
            /\ Applied(th, op[th]) = 1..requests[th]
            /\ th \in InSavepoint => RowsOf(stack[1], th, op[th]) = {}

\* Applied reads the rows of the write.
LEMMA AppliedRows ==
    ASSUME NEW th, NEW n
    PROVE  Applied(th, n) = {r.req : r \in RowsOf(db, th, n)}
  BY DEF Applied, RowsOf

\* The thread's write ends: its outcome is added.
Ends(th, ok) ==
    /\ Len(outcome'[th]) = Len(outcome[th]) + 1
    /\ \A n \in 1..Len(outcome[th]) : outcome'[th][n] = outcome[th][n]
    /\ outcome'[th][Len(outcome[th]) + 1].met = met[th]
    /\ outcome'[th][Len(outcome[th]) + 1].ok = ok

\* A plain write ends with its request, an interactive one with a commit or a
\* rollback, every running one with a crash; the outcomes a thread got stay.
LEMMA OutcomesStay ==
    ASSUME TypeOK, [Next]_vars, NEW th \in Threads
    PROVE  \/ outcome'[th] = outcome[th]
           \/ Ends(th, TRUE) /\ \/ pc[th] = "execute" /\ ~interactive[th] /\ Execute(th)
                                \/ pc[th] = "commit" /\ Commit(th)
           \/ Ends(th, FALSE) /\ \/ pc[th] = "execute" /\ ~interactive[th] /\ ExecuteFails(th)
                                 \/ pc[th] = "rollback" /\ Rollback(th)
                                 \/ pc[th] # "idle" /\ Crash
  <1>0. outcome \in [Threads -> Seq(Outcomes)] /\ Len(outcome[th]) \in Nat
    BY DEF TypeOK, Outcomes
  <1>1. ASSUME NEW ok \in BOOLEAN, NEW count \in Nat,
               outcome'[th] = Append(outcome[th], [ok |-> ok, requests |-> count, met |-> met[th]])
        PROVE  Ends(th, ok)
    <2> DEFINE o == [ok |-> ok, requests |-> count, met |-> met[th]]
    <2>1. o \in Outcomes /\ o.met = met[th] /\ o.ok = ok
      BY DEF TypeOK, Outcomes
    <2>2. outcome'[th] = Append(outcome[th], o)
      BY <1>1
    <2> HIDE DEF o
    <2>3. QED  BY <1>0, <2>1, <2>2, AppendProperties DEF Ends
  <1>2. ASSUME NEW u \in Threads, NEW ok \in BOOLEAN, NEW count \in Nat, Return(u, ok, count)
        PROVE  IF u = th THEN Ends(th, ok) ELSE outcome'[th] = outcome[th]
    BY <1>0, <1>1, <1>2 DEF Return
  <1>3. \A u \in Threads : requests[u] \in Nat
    BY DEF TypeOK
  <1>4. ASSUME NEW u \in Threads, Execute(u)
        PROVE  \/ outcome'[th] = outcome[th]
               \/ Ends(th, TRUE) /\ u = th /\ pc[th] = "execute" /\ ~interactive[th]
    <2>1. CASE interactive[u]
      BY <1>4, <2>1 DEF Execute
    <2>2. CASE ~interactive[u]
      BY <1>2, <1>4, <2>2 DEF Execute
    <2>3. QED  BY <2>1, <2>2
  <1>5. ASSUME NEW u \in Threads, ExecuteFails(u)
        PROVE  \/ outcome'[th] = outcome[th]
               \/ Ends(th, FALSE) /\ u = th /\ pc[th] = "execute" /\ ~interactive[th]
    <2>1. CASE interactive[u]
      BY <1>5, <2>1 DEF ExecuteFails
    <2>2. CASE ~interactive[u]
      BY <1>2, <1>5, <2>2 DEF ExecuteFails
    <2>3. QED  BY <2>1, <2>2
  <1>6. ASSUME NEW u \in Threads, Commit(u)
        PROVE  outcome'[th] = outcome[th] \/ (Ends(th, TRUE) /\ u = th /\ pc[th] = "commit")
    BY <1>2, <1>3, <1>6 DEF Commit
  <1>7. ASSUME NEW u \in Threads, Rollback(u)
        PROVE  outcome'[th] = outcome[th] \/ (Ends(th, FALSE) /\ u = th /\ pc[th] = "rollback")
    BY <1>2, <1>7 DEF Rollback
  <1>8. CASE Crash
    BY <1>1, <1>8 DEF Crash, Active
  <1>9. ASSUME NEW u \in Threads,
               \/ \E b \in BOOLEAN : StartWrite(u, b)
               \/ Begin(u) \/ BeginFlags(u) \/ Prepare(u) \/ PrepareFlags(u) \/ ExecuteUnsupported(u)
               \/ NextRequest(u) \/ EvaluationFails(u) \/ EndFlags(u)
        PROVE  outcome'[th] = outcome[th]
    BY <1>9 DEF StartWrite, Begin, BeginFlags, Prepare, PrepareFlags, ExecuteUnsupported,
                NextRequest, EvaluationFails, EndFlags
  <1>10. CASE UNCHANGED vars
    BY <1>10 DEF vars
  <1>11. QED
    BY <1>4, <1>5, <1>6, <1>7, <1>8, <1>9, <1>10 DEF Next, Step

\* What the requests of others do to the rows of a write: nothing.
LEMMA OthersRows ==
    ASSUME TypeOK, ControlInv, NEW th \in Threads, NEW u \in Threads, pc[u] = "execute",
           NEW n \in Nat, u # th \/ op[u] # n
    PROVE  RowsOf(Written(u), th, n) = RowsOf(db, th, n)
  <1>1. PICK t \in Nat : /\ Written(u).rows = db.rows \cup {Row(u, t)}
                         /\ Row(u, t).thread = u /\ Row(u, t).op = op[u]
    BY WrittenRow
  <1>2. QED  BY <1>1 DEF RowsOf

\* A write that ended stays as it is in every view.
LEMMA EndedStays ==
    ASSUME TypeOK, ControlInv, EndedInv, [Next]_vars, NEW th \in Threads,
           NEW n \in 1..Len(outcome[th]), "interactive" \notin outcome[th][n].met
    PROVE  /\ Applied(th, n)' = Promised(outcome[th][n])
           /\ RowsOf(db', th, n) = RowsOf(db, th, n)
           /\ \A e \in Views' : RowsOf(e, th, n) = RowsOf(db', th, n)
  <1>0. Len(outcome[th]) \in Nat /\ n \in Nat /\ n # Len(outcome[th]) + 1
    BY DEF TypeOK
  <1>1. \A e \in Views' : RowsOf(e, th, n) = RowsOf(db, th, n)
    <2>1. \A e \in Views : RowsOf(e, th, n) = RowsOf(db, th, n)
      BY DEF EndedInv
    <2>2. ASSUME NEW u \in Threads, Execute(u)
          PROVE  RowsOf(Written(u), th, n) = RowsOf(db, th, n)
      <3>1. u # th \/ op[u] # n
        BY <1>0, <2>2 DEF ControlInv, Execute
      <3>2. QED  BY <1>0, <2>2, <3>1, OthersRows DEF Execute
    <2>3. QED  BY <2>1, <2>2, ViewsMove
  <1>2. db' \in Views'
    BY DEF Views
  <1>3. RowsOf(db', th, n) = RowsOf(db, th, n)
    BY <1>1, <1>2
  <1>4. Applied(th, n)' = Applied(th, n)
    BY <1>3 DEF Applied, RowsOf
  <1>5. QED  BY <1>1, <1>3, <1>4 DEF EndedInv
\* What Execute adds to the write it is part of.
LEMMA OwnRows ==
    ASSUME TypeOK, ControlInv, NEW th \in Threads, Execute(th), NEW n, n = op[th],
           Applied(th, n) = 1..requests[th]
    PROVE  Applied(th, n)' = 1..(requests[th] + 1)
  <1>0. requests[th] \in Nat
    BY DEF TypeOK
  <1>1. PICK t \in Nat : /\ Written(th).rows = db.rows \cup {Row(th, t)}
                         /\ Row(th, t).thread = th /\ Row(th, t).op = op[th]
                         /\ Row(th, t).req = requests[th] + 1
    BY WrittenRow DEF Execute
  <1>2. RowsOf(db', th, n) = RowsOf(db, th, n) \cup {Row(th, t)}
    BY <1>1 DEF RowsOf, Execute
  <1>3. {r.req : r \in RowsOf(db', th, n)} = 1..requests[th] \cup {requests[th] + 1}
    BY <1>1, <1>2, AppliedRows
  <1>4. Applied(th, n)' = {r.req : r \in RowsOf(db', th, n)}
    BY <1>0 DEF Applied, RowsOf
  <1>5. QED  BY <1>0, <1>3, <1>4

\* No request of a write means no row of it.
LEMMA NoRows ==
    ASSUME NEW th, NEW n, Applied(th, n) = {}
    PROVE  RowsOf(db, th, n) = {}
  BY DEF Applied, RowsOf

\* A write that ends is whole or absent.
LEMMA EndsAtomically ==
    ASSUME TypeOK, ControlInv, MeetInv, SavepointsBalanced, RunningInv, [Next]_vars,
           NEW th \in Threads, Len(outcome'[th]) = Len(outcome[th]) + 1,
           "interactive" \notin met[th], NEW n \in Nat, n = Len(outcome[th]) + 1
    PROVE  /\ Applied(th, n)' = Promised(outcome'[th][n])
           /\ \A e \in Views' : RowsOf(e, th, n) = RowsOf(db', th, n)
  <1>0. /\ outcome \in [Threads -> Seq(Outcomes)] /\ Len(outcome[th]) \in Nat
        /\ requests[th] \in Nat /\ stack \in Seq(Databases)
    BY DEF TypeOK, Outcomes
  <1>1. \/ pc[th] = "execute" /\ ~interactive[th] /\ (Execute(th) \/ ExecuteFails(th))
        \/ pc[th] = "commit" /\ Commit(th)
        \/ pc[th] = "rollback" /\ Rollback(th)
        \/ pc[th] # "idle" /\ Crash
    <2>1. outcome'[th] # outcome[th]
      BY <1>0
    <2>2. QED  BY <2>1, OutcomesStay
  <1>2. /\ pc[th] # "idle" /\ th \in Active /\ op[th] = n
        /\ Applied(th, n) = 1..requests[th]
        /\ th \in InSavepoint => RowsOf(stack[1], th, n) = {}
    BY <1>1 DEF Active, ControlInv, RunningInv
  <1>3. /\ th \notin InSavepoint => stack = <<>> /\ Len(stack) = 0
        /\ th \in InSavepoint => Len(stack) = 1 /\ stack # <<>>
    BY <1>2, LoneStack, EmptySeq
  <1>4. ASSUME NEW ok \in BOOLEAN, NEW count \in Nat,
               \/ Return(th, ok, count)
               \/ outcome'[th] = Append(outcome[th], [ok |-> ok, requests |-> count, met |-> met[th]])
        PROVE  Promised(outcome'[th][n]) = IF ok THEN 1..count ELSE {}
    <2> DEFINE o == [ok |-> ok, requests |-> count, met |-> met[th]]
    <2>1. o \in Outcomes /\ o.ok = ok /\ o.requests = count
      BY DEF TypeOK, Outcomes
    <2>2. outcome'[th] = Append(outcome[th], o)
      BY <1>0, <1>4 DEF Return
    <2> HIDE DEF o
    <2>3. outcome'[th][n] = o
      BY <1>0, <2>1, <2>2, AppendProperties
    <2>4. QED  BY <2>1, <2>3 DEF Promised
  <1>5. ASSUME stack' = <<>> PROVE Views' = {db'}
    BY <1>5, EmptySeq DEF Views
  <1>6. CASE pc[th] = "execute" /\ ~interactive[th] /\ Execute(th)
    <2>1. th \notin InSavepoint /\ requests[th] = 0 /\ op' = op /\ stack' = stack
      BY <1>6 DEF InSavepoint, ControlInv, Execute
    <2>2. Applied(th, n)' = 1..1
      <3>1. Applied(th, n)' = 1..(requests[th] + 1)
        BY <1>2, <1>6, OwnRows
      <3>2. QED  BY <2>1, <3>1
    <2>3. Promised(outcome'[th][n]) = 1..1
      BY <1>4, <1>6 DEF Execute
    <2>4. Views' = {db'}
      BY <1>3, <1>5, <2>1
    <2>5. QED  BY <2>2, <2>3, <2>4
  <1>7. CASE pc[th] = "execute" /\ ~interactive[th] /\ ExecuteFails(th)
    <2>1. th \notin InSavepoint /\ requests[th] = 0 /\ stack' = stack /\ db' = db
      BY <1>7 DEF InSavepoint, ControlInv, ExecuteFails
    <2>2. Applied(th, n)' = {}
      <3>1. Applied(th, n)' = Applied(th, n)
        BY <2>1 DEF Applied
      <3>2. QED  BY <1>2, <2>1, <3>1
    <2>3. Promised(outcome'[th][n]) = {}
      BY <1>4, <1>7 DEF ExecuteFails
    <2>4. Views' = {db'}
      BY <1>3, <1>5, <2>1
    <2>5. QED  BY <2>2, <2>3, <2>4
  <1>8. CASE pc[th] = "commit" /\ Commit(th)
    <2>1. th \in InSavepoint /\ db' = db /\ stack' = SubSeq(stack, 1, Len(stack) - 1)
      BY <1>8 DEF InSavepoint, ControlInv, Commit
    <2>2. stack' = <<>>
      BY <1>0, <1>3, <2>1, SubSeqEmpty
    <2>3. Applied(th, n)' = 1..requests[th]
      BY <1>2, <2>1 DEF Applied
    <2>4. Promised(outcome'[th][n]) = 1..requests[th]
      BY <1>0, <1>4, <1>8 DEF Commit
    <2>5. QED  BY <1>5, <2>2, <2>3, <2>4
  <1>9. CASE pc[th] = "rollback" /\ Rollback(th)
    <2>1. th \in InSavepoint /\ db' = stack[Len(stack)] /\ stack' = SubSeq(stack, 1, Len(stack) - 1)
      BY <1>9 DEF InSavepoint, ControlInv, Rollback
    <2>2. stack' = <<>> /\ db' = stack[1]
      BY <1>0, <1>3, <2>1, SubSeqEmpty
    <2>3. Applied(th, n)' = {}
      BY <1>2, <2>1, <2>2 DEF Applied, RowsOf
    <2>4. Promised(outcome'[th][n]) = {}
      BY <1>0, <1>4, <1>9 DEF Rollback
    <2>5. QED  BY <1>5, <2>2, <2>3, <2>4
  <1>10. CASE pc[th] # "idle" /\ Crash
    <2>1. stack' = <<>> /\ db' = OnDisk
      BY <1>10 DEF Crash
    <2>2. RowsOf(db', th, n) = {}
      <3>1. CASE th \in InSavepoint
        BY <1>2, <1>3, <2>1, <3>1 DEF OnDisk
      <3>2. CASE th \notin InSavepoint
        <4>1. requests[th] = 0
          BY <1>2, <3>2 DEF ControlInv, InSavepoint
        <4>2. RowsOf(db, th, n) = {}
          BY <1>2, <4>1, NoRows
        <4>3. QED  BY <1>3, <2>1, <3>2, <4>2 DEF OnDisk
      <3>3. QED  BY <3>1, <3>2
    <2>3. Applied(th, n)' = {}
      BY <2>2 DEF Applied, RowsOf
    <2>4. Promised(outcome'[th][n]) = {}
      BY <1>2, <1>4, <1>10 DEF Crash
    <2>5. QED  BY <1>5, <2>1, <2>3, <2>4
  <1>11. QED  BY <1>1, <1>6, <1>7, <1>8, <1>9, <1>10

\* Every step keeps ended writes atomic.
LEMMA EndedStep ==
    ASSUME TypeOK, ControlInv, MeetInv, SavepointsBalanced, EndedInv, RunningInv, [Next]_vars
    PROVE  EndedInv'
  <1>1. SUFFICES ASSUME NEW th \in Threads, NEW n \in 1..Len(outcome'[th]),
                        "interactive" \notin outcome'[th][n].met
                 PROVE  /\ Applied(th, n)' = Promised(outcome'[th][n])
                        /\ \A e \in Views' : RowsOf(e, th, n) = RowsOf(db', th, n)
    BY DEF EndedInv, RowsOf, Promised
  <1>2. Len(outcome[th]) \in Nat
    BY DEF TypeOK
  <1>3. CASE n \in 1..Len(outcome[th])
    <2>1. outcome'[th][n] = outcome[th][n]
      BY <1>3, OutcomesStay DEF Ends
    <2>2. QED  BY <1>1, <1>3, <2>1, EndedStays
  <1>4. CASE n \notin 1..Len(outcome[th])
    <2>1. /\ Len(outcome'[th]) = Len(outcome[th]) + 1 /\ n = Len(outcome[th]) + 1
          /\ outcome'[th][n].met = met[th]
      <3>1. outcome'[th] # outcome[th]
        BY <1>1, <1>4
      <3>2. Ends(th, TRUE) \/ Ends(th, FALSE)
        BY <3>1, OutcomesStay
      <3>3. QED  BY <1>1, <1>2, <1>4, <3>2 DEF Ends
    <2>2. QED  BY <1>1, <2>1, EndsAtomically
  <1>5. QED  BY <1>3, <1>4
\* Beside a running write that met no interactive one, a plain write only: a
\* step that begins, ends or goes on with an interactive write is its own.
LEMMA OnlyInteractive ==
    ASSUME TypeOK, ControlInv, MeetInv, NEW th \in Threads, th \in Active,
           "interactive" \notin met[th], NEW u \in Threads, pc[u] # "idle", interactive[u]
    PROVE  u = th
  BY DEF MeetInv, Active, Kind

\* Every step keeps track of what running writes wrote.
LEMMA RunningStep ==
    ASSUME TypeOK, ControlInv, MeetInv, SavepointsBalanced, RowsInv, RunningInv, [Next]_vars
    PROVE  RunningInv'
  <1>1. SUFFICES ASSUME NEW th \in Active', "interactive" \notin met'[th], NEW n, n = op'[th]
                 PROVE  /\ Applied(th, n)' = 1..requests'[th]
                        /\ th \in InSavepoint' => RowsOf(stack'[1], th, n) = {}
    BY DEF RunningInv, Applied, RowsOf
  <1>2. th \in Threads
    BY DEF Active
  <1>3. ASSUME th \in Active, "interactive" \notin met[th]
        PROVE  /\ Applied(th, op[th]) = 1..requests[th]
               /\ th \in InSavepoint => RowsOf(stack[1], th, op[th]) = {}
    BY <1>3 DEF RunningInv
  <1>4. ASSUME th \in Active, "interactive" \notin met[th], db' = db, stack' = stack,
               op'[th] = op[th], requests'[th] = requests[th], th \in InSavepoint' => th \in InSavepoint
        PROVE  /\ Applied(th, n)' = 1..requests'[th]
               /\ th \in InSavepoint' => RowsOf(stack'[1], th, n) = {}
    <2>1. Applied(th, n)' = Applied(th, n)
      BY <1>4 DEF Applied
    <2>2. QED  BY <1>1, <1>3, <1>4, <2>1
  <1>5. ASSUME NEW u \in Threads, NEW b \in BOOLEAN, StartWrite(u, b)
        PROVE  /\ Applied(th, n)' = 1..requests'[th]
               /\ th \in InSavepoint' => RowsOf(stack'[1], th, n) = {}
    <2>1. CASE u = th
      <3>1. n = op[th] + 1 /\ requests'[th] = 0 /\ db' = db
        BY <1>1, <1>2, <1>5, <2>1 DEF StartWrite, TypeOK
      <3>2. RowsOf(db, th, n) = {}
        <4>1. ASSUME NEW r \in db.rows, r.thread = th PROVE r.op # n
          <5>1. db \in Views /\ r.op \in Nat /\ op[th] \in Nat
            BY <1>2, <4>1, ConstantsAssumption DEF Views, TypeOK, Databases
          <5>2. r.op <= op[th]
            BY <4>1, <5>1 DEF RowsInv
          <5>3. QED  BY <3>1, <5>1, <5>2
        <4>2. QED  BY <4>1 DEF RowsOf
      <3>3. Applied(th, n)' = {}
        BY <3>1, <3>2 DEF Applied, RowsOf
      <3>4. th \notin InSavepoint'
        BY <1>5, <2>1 DEF StartWrite, Goto, InSavepoint, TypeOK
      <3>5. QED  BY <3>1, <3>3, <3>4
    <2>2. CASE u # th
      <3>1. th \in Active
        BY <1>1, <1>2, <1>5, <2>2 DEF StartWrite, Goto, Active, TypeOK
      <3>2. "interactive" \notin met[th]
        BY <1>1, <1>2, <1>5, <2>2, <3>1 DEF StartWrite, TypeOK
      <3>3. op'[th] = op[th] /\ requests'[th] = requests[th] /\ db' = db /\ stack' = stack
        BY <1>2, <1>5, <2>2 DEF StartWrite, TypeOK
      <3>4. th \in InSavepoint' => th \in InSavepoint
        BY <1>2, <1>5, <2>2 DEF StartWrite, Goto, InSavepoint, TypeOK
      <3>5. QED  BY <1>4, <3>1, <3>2, <3>3, <3>4
    <2>3. QED  BY <2>1, <2>2
  <1>6. ASSUME NEW u \in Threads, Begin(u)
        PROVE  /\ Applied(th, n)' = 1..requests'[th]
               /\ th \in InSavepoint' => RowsOf(stack'[1], th, n) = {}
    <2>1. /\ th \in Active /\ "interactive" \notin met[th] /\ n = op[th] /\ requests' = requests
          /\ db' = db /\ stack' = Append(stack, db)
      BY <1>1, <1>2, <1>6 DEF Begin, Goto, Active, TypeOK
    <2>2. u = th
      BY <1>2, <1>6, <2>1, OnlyInteractive DEF Begin, ControlInv
    <2>3. th \notin InSavepoint /\ requests[th] = 0 /\ stack = <<>>
      BY <1>2, <1>6, <2>1, <2>2, LoneStack DEF Begin, InSavepoint, ControlInv
    <2>4. stack'[1] = db
      BY <2>1, <2>3, AppendProperties DEF TypeOK
    <2>5. Applied(th, n) = {}
      BY <1>3, <2>1, <2>3
    <2>6. RowsOf(db, th, n) = {} /\ Applied(th, n)' = {}
      BY <2>1, <2>5, NoRows DEF Applied
    <2>7. QED  BY <2>1, <2>3, <2>4, <2>6
  <1>7. ASSUME NEW u \in Threads,
               \/ BeginFlags(u) \/ Prepare(u) \/ PrepareFlags(u) \/ NextRequest(u)
               \/ EvaluationFails(u) \/ EndFlags(u)
        PROVE  /\ Applied(th, n)' = 1..requests'[th]
               /\ th \in InSavepoint' => RowsOf(stack'[1], th, n) = {}
    <2>1. /\ th \in Active /\ "interactive" \notin met[th] /\ db' = db /\ stack' = stack
          /\ op' = op /\ requests' = requests
      BY <1>1, <1>2, <1>7 DEF Active, TypeOK, BeginFlags, Prepare, PrepareFlags, NextRequest,
                              EvaluationFails, EndFlags, Goto
    <2>2. InSavepoint' = InSavepoint
      BY <1>7 DEF InSavepoint, TypeOK, BeginFlags, Prepare, PrepareFlags, NextRequest,
                  EvaluationFails, EndFlags, Goto
    <2>3. QED  BY <1>4, <2>1, <2>2
  <1>8. ASSUME NEW u \in Threads, ExecuteFails(u)
        PROVE  /\ Applied(th, n)' = 1..requests'[th]
               /\ th \in InSavepoint' => RowsOf(stack'[1], th, n) = {}
    <2>1. /\ th \in Active /\ "interactive" \notin met[th] /\ db' = db /\ stack' = stack
          /\ op' = op /\ requests' = requests
      BY <1>1, <1>2, <1>8 DEF Active, TypeOK, ExecuteFails, Return, Goto
    <2>2. th \in InSavepoint' => th \in InSavepoint
      BY <1>8 DEF InSavepoint, TypeOK, ExecuteFails, Return, Goto
    <2>3. QED  BY <1>4, <2>1, <2>2
  <1>9. ASSUME NEW u \in Threads, ExecuteUnsupported(u)
        PROVE  /\ Applied(th, n)' = 1..requests'[th]
               /\ th \in InSavepoint' => RowsOf(stack'[1], th, n) = {}
    <2>1. /\ th \in Active /\ db' = db /\ stack' = stack /\ op' = op /\ requests' = requests
      BY <1>1, <1>2, <1>9 DEF Active, TypeOK, ExecuteUnsupported, Goto
    <2>2. "interactive" \notin met[th]
      BY <1>1, <1>2, <1>9, <2>1 DEF ExecuteUnsupported, TypeOK
    <2>3. th \in InSavepoint' => th \in InSavepoint
      BY <1>9 DEF InSavepoint, TypeOK, ExecuteUnsupported, Goto
    <2>4. QED  BY <1>4, <2>1, <2>2, <2>3
  <1>10. ASSUME NEW u \in Threads, Execute(u)
         PROVE  /\ Applied(th, n)' = 1..requests'[th]
                /\ th \in InSavepoint' => RowsOf(stack'[1], th, n) = {}
    <2>1. /\ th \in Active /\ "interactive" \notin met[th] /\ stack' = stack /\ n = op[th]
          /\ db' = Written(u)
      BY <1>1, <1>2, <1>10 DEF Active, TypeOK, Execute, Return, Goto
    <2>2. th \in InSavepoint' => th \in InSavepoint
      BY <1>10 DEF InSavepoint, TypeOK, Execute, Return, Goto
    <2>3. Applied(th, n)' = 1..requests'[th]
      <3>1. CASE u = th
        <4>1. requests'[th] = requests[th] + 1
          BY <1>2, <1>10, <3>1 DEF Execute, TypeOK
        <4>2. QED  BY <1>2, <1>3, <1>10, <2>1, <3>1, <4>1, OwnRows
      <3>2. CASE u # th
        <4>1. requests'[th] = requests[th] /\ n \in Nat
          BY <1>2, <1>10, <2>1, <3>2, ConstantsAssumption DEF Execute, TypeOK
        <4>2. RowsOf(db', th, n) = RowsOf(db, th, n)
          BY <1>2, <1>10, <2>1, <3>2, <4>1, OthersRows DEF Execute
        <4>3. Applied(th, n)' = Applied(th, n)
          BY <4>2 DEF Applied, RowsOf
        <4>4. QED  BY <1>3, <2>1, <4>1, <4>3
      <3>3. QED  BY <3>1, <3>2
    <2>4. QED  BY <1>3, <2>1, <2>2, <2>3
  <1>11. ASSUME NEW u \in Threads, Commit(u) \/ Rollback(u)
         PROVE  FALSE
    <2>1. th \in Active /\ "interactive" \notin met[th] /\ u # th
      BY <1>1, <1>2, <1>11 DEF Active, TypeOK, Commit, Rollback, Return, Goto
    <2>2. pc[u] # "idle" /\ interactive[u]
      BY <1>11 DEF Commit, Rollback, ControlInv
    <2>3. QED  BY <1>2, <2>1, <2>2, OnlyInteractive
  <1>12. ~Crash
    BY <1>1, <1>2 DEF Crash, Active
  <1>13. CASE UNCHANGED vars
    <2>1. /\ th \in Active /\ "interactive" \notin met[th] /\ db' = db /\ stack' = stack
          /\ op' = op /\ requests' = requests /\ InSavepoint' = InSavepoint
      BY <1>1, <1>13 DEF vars, Active, InSavepoint
    <2>2. QED  BY <1>4, <2>1
  <1>14. QED
    BY <1>5, <1>6, <1>7, <1>8, <1>9, <1>10, <1>11, <1>12, <1>13 DEF Next, Step
-----------------------------------------------------------------------------
(***************************************************************************)
(* Ticks.                                                                  *)
(***************************************************************************)
\* Between BeginFlags and EndFlags.
Held == {"next", "prepare", "prepared", "execute", "failed"}

\* in_transaction is up only while some thread is between the two.
FlagInv == in_transaction => \E u \in InSavepoint : pc[u] \in Held

\* The rows of the thread's write have the latest tick; once it has a row, no
\* other row has that tick; its first request opens the tick, the others do not.
TicksOwn(th) == \A r \in RowsOf(db, th, op[th]) : r.tick = db.head
\* A call that wrote has the newest tick.
TicksOther(th) == requests[th] > 0 => \A r \in db.rows \ RowsOf(db, th, op[th]) : r.tick < db.head
\* The flag tick_open says whether the call has opened its tick.
TicksFlags(th) ==
    /\ pc[th] \in {"prepared", "execute"} => (with_tick[th] <=> requests[th] = 0)
    /\ interactive[th] /\ pc[th] \in {"next", "prepare", "prepared"} =>
         in_transaction /\ (tick_open <=> requests[th] > 0)
    /\ interactive[th] /\ pc[th] = "execute" => in_transaction /\ tick_open

\* All three hold of a running write that met no other.
TickInv ==
    \A th \in Active : met[th] = {} => TicksOwn(th) /\ TicksOther(th) /\ TicksFlags(th)

\* Every step keeps in_transaction within a transaction.
LEMMA FlagStep ==
    ASSUME TypeOK, ControlInv, FlagInv, [Next]_vars
    PROVE  FlagInv'
  <1>1. ASSUME NEW th \in Threads, NEW b \in BOOLEAN, StartWrite(th, b)
        PROVE  FlagInv'
    BY <1>1 DEF FlagInv, InSavepoint, Held, TypeOK, StartWrite, Goto, flags
  <1>2. ASSUME NEW th \in Threads,
               Begin(th) \/ Prepare(th) \/ PrepareFlags(th) \/ NextRequest(th) \/ EvaluationFails(th)
        PROVE  FlagInv'
    BY <1>2 DEF FlagInv, InSavepoint, Held, TypeOK, Begin, Prepare, PrepareFlags, NextRequest,
                EvaluationFails, Goto, flags
  <1>3. ASSUME NEW th \in Threads, BeginFlags(th)
        PROVE  FlagInv'
    BY <1>3 DEF FlagInv, InSavepoint, Held, TypeOK, ControlInv, BeginFlags, Goto
  <1>4. ASSUME NEW th \in Threads, Execute(th) \/ ExecuteFails(th)
        PROVE  FlagInv'
    BY <1>4 DEF FlagInv, InSavepoint, Held, TypeOK, Execute, ExecuteFails, Return, Goto, flags
  <1>5. ASSUME NEW th \in Threads, ExecuteUnsupported(th)
        PROVE  FlagInv'
    BY <1>5 DEF FlagInv, InSavepoint, Held, TypeOK, ExecuteUnsupported, Goto, flags
  <1>6. ASSUME NEW th \in Threads, EndFlags(th)
        PROVE  FlagInv'
    BY <1>6 DEF FlagInv, EndFlags
  <1>7. ASSUME NEW th \in Threads, Commit(th) \/ Rollback(th)
        PROVE  FlagInv'
    BY <1>7 DEF FlagInv, InSavepoint, Held, TypeOK, Commit, Rollback, Return, Goto, flags
  <1>8. CASE Crash
    BY <1>8 DEF FlagInv, Crash
  <1>9. CASE UNCHANGED vars
    BY <1>9 DEF FlagInv, InSavepoint, vars, flags
  <1>10. QED
    BY <1>1, <1>2, <1>3, <1>4, <1>5, <1>6, <1>7, <1>8, <1>9 DEF Next, Step

\* A running write that met no other runs alone.
LEMMA Alone ==
    ASSUME MeetInv, NEW th \in Active, met[th] = {}
    PROVE  Active = {th}
  BY DEF MeetInv

\* Every step keeps the ticks of running writes.
LEMMA TickStep ==
    ASSUME TypeOK, ControlInv, MeetInv, RowsInv, RunningInv, FlagInv, TickInv, [Next]_vars
    PROVE  TickInv'
  <1>0. SUFFICES ASSUME NEW th \in Active', met'[th] = {}
                 PROVE  TicksOwn(th)' /\ TicksOther(th)' /\ TicksFlags(th)'
    BY DEF TickInv, TicksOwn, TicksOther, TicksFlags, RowsOf
  <1>1. th \in Threads
    BY DEF Active
  <1>2. ASSUME th \in Active, met[th] = {}
        PROVE  /\ Active = {th}
               /\ TicksOwn(th) /\ TicksOther(th) /\ TicksFlags(th)
               /\ Applied(th, op[th]) = 1..requests[th]
    BY <1>2, Alone DEF TickInv, TicksOwn, TicksOther, TicksFlags, RunningInv
  <1>3. ASSUME TicksOwn(th), TicksOther(th), db' = db, op'[th] = op[th], requests'[th] = requests[th]
        PROVE  TicksOwn(th)' /\ TicksOther(th)'
    BY <1>3 DEF TicksOwn, TicksOther, RowsOf
  <1>4. ASSUME NEW u \in Threads, NEW b \in BOOLEAN, StartWrite(u, b)
        PROVE  TicksOwn(th)' /\ TicksOther(th)' /\ TicksFlags(th)'
    <2>1. u = th
      BY <1>0, <1>1, <1>4 DEF StartWrite, Goto, Active, TypeOK
    <2>2. op'[th] = op[th] + 1 /\ requests'[th] = 0 /\ db' = db
      BY <1>1, <1>4, <2>1 DEF StartWrite, TypeOK
    <2>3. ASSUME NEW r \in db.rows, r.thread = th PROVE r.op # op'[th]
      <3>1. db \in Views /\ r.op \in Nat /\ op[th] \in Nat
        BY <1>1, <2>3, ConstantsAssumption DEF Views, TypeOK, Databases
      <3>2. r.op <= op[th]
        BY <2>3, <3>1 DEF RowsInv
      <3>3. QED  BY <2>2, <3>1, <3>2
    <2>4. TicksOwn(th)' /\ TicksOther(th)'
      BY <2>2, <2>3 DEF TicksOwn, TicksOther, RowsOf
    <2>5. TicksFlags(th)'
      BY <1>1, <1>4, <2>1 DEF TicksFlags, StartWrite, Goto, TypeOK
    <2>6. QED  BY <2>4, <2>5
  <1>5. ASSUME NEW u \in Threads,
               \/ Begin(u) \/ BeginFlags(u) \/ Prepare(u) \/ PrepareFlags(u) \/ NextRequest(u)
               \/ EvaluationFails(u) \/ EndFlags(u)
        PROVE  TicksOwn(th)' /\ TicksOther(th)' /\ TicksFlags(th)'
    <2>1. /\ th \in Active /\ u \in Active /\ met[th] = {} /\ db' = db /\ op' = op
          /\ requests' = requests /\ interactive' = interactive
      BY <1>0, <1>1, <1>5 DEF Active, TypeOK, Begin, BeginFlags, Prepare, PrepareFlags, NextRequest,
                              EvaluationFails, EndFlags, Goto
    <2>2. u = th
      BY <1>2, <2>1
    <2>3. TicksOwn(th)' /\ TicksOther(th)'
      BY <1>2, <1>3, <2>1
    <2>4. TicksFlags(th)
      BY <1>2, <2>1
    <2>5. requests[th] \in Nat
      BY <1>1 DEF TypeOK
    <2>6. CASE Begin(th) \/ EvaluationFails(th) \/ EndFlags(th)
      BY <1>1, <2>3, <2>6 DEF TicksFlags, Begin, EvaluationFails, EndFlags, Goto, TypeOK
    <2>7. CASE BeginFlags(th)
      BY <1>1, <2>1, <2>3, <2>5, <2>7 DEF TicksFlags, BeginFlags, Goto, TypeOK, ControlInv
    <2>8. CASE Prepare(th)
      <3>1. pc'[th] = "prepared" /\ with_tick'[th] = ~(in_transaction /\ tick_open)
        BY <1>1, <2>8 DEF Prepare, Goto, TypeOK
      <3>2. in_transaction' = in_transaction /\ tick_open' = tick_open
        BY <2>8 DEF Prepare, flags
      <3>3. CASE interactive[th]
        <4>1. in_transaction /\ (tick_open <=> requests[th] > 0)
          BY <2>4, <2>8, <3>3 DEF TicksFlags, Prepare
        <4>2. requests[th] = 0 <=> ~(requests[th] > 0)
          BY <2>5
        <4>3. with_tick'[th] <=> requests[th] = 0
          BY <3>1, <4>1, <4>2, Zenon
        <4>4. QED  BY <2>1, <2>3, <3>1, <3>2, <4>1, <4>3 DEF TicksFlags
      <3>4. CASE ~interactive[th]
        <4>1. requests[th] = 0
          BY <1>1, <2>8, <3>4 DEF ControlInv, Prepare
        <4>2. ~in_transaction
          BY <1>2, <2>1, <3>4 DEF FlagInv, InSavepoint, Active, Held
        <4>3. QED  BY <2>1, <2>3, <3>1, <3>4, <4>1, <4>2 DEF TicksFlags
      <3>5. QED  BY <3>3, <3>4
    <2>9. CASE PrepareFlags(th)
      <3>1. /\ pc[th] = "prepared" /\ pc'[th] = "execute" /\ with_tick' = with_tick
            /\ in_transaction' = in_transaction
            /\ tick_open' = (tick_open \/ (with_tick[th] /\ in_transaction))
        BY <1>1, <2>9 DEF PrepareFlags, Goto, TypeOK
      <3>2. requests[th] = 0 <=> ~(requests[th] > 0)
        BY <2>5
      <3>3. with_tick[th] <=> requests[th] = 0
        BY <2>4, <3>1 DEF TicksFlags
      <3>4. interactive[th] => in_transaction /\ (tick_open <=> requests[th] > 0)
        BY <2>4, <3>1 DEF TicksFlags
      <3>5. interactive[th] => tick_open'
        BY <3>1, <3>2, <3>3, <3>4, Zenon
      <3>6. QED  BY <2>1, <2>3, <3>1, <3>3, <3>4, <3>5 DEF TicksFlags
    <2>10. CASE NextRequest(th)
      <3>1. pc[th] = "next" /\ pc'[th] = "prepare" /\ in_transaction' = in_transaction /\ tick_open' = tick_open
        BY <1>1, <2>10 DEF NextRequest, Goto, TypeOK, flags
      <3>2. QED  BY <2>1, <2>3, <2>4, <3>1 DEF TicksFlags
    <2>11. QED  BY <1>5, <2>2, <2>3, <2>6, <2>7, <2>8, <2>9, <2>10
  <1>6. ASSUME NEW u \in Threads, Execute(u)
        PROVE  TicksOwn(th)' /\ TicksOther(th)' /\ TicksFlags(th)'
    <2>1. th \in Active /\ u \in Active /\ met[th] = {}
      BY <1>0, <1>1, <1>6 DEF Active, TypeOK, Execute, Return, Goto
    <2>2. u = th /\ interactive[th]
      <3>1. u = th
        BY <1>2, <2>1
      <3>2. QED  BY <1>0, <1>1, <1>6, <3>1 DEF Active, TypeOK, Execute, Return, Goto
    <2>3. /\ op' = op /\ requests'[th] = requests[th] + 1 /\ db' = Written(th) /\ pc[th] = "execute"
          /\ pc'[th] = "next" /\ interactive'[th] /\ requests[th] \in Nat
          /\ in_transaction' = in_transaction /\ tick_open' = tick_open
      BY <1>1, <1>6, <2>2 DEF Execute, Goto, TypeOK, flags
    <2>4. TicksFlags(th)'
      BY <1>2, <2>1, <2>2, <2>3 DEF TicksFlags
    <2>5. PICK t \in Nat : /\ t = IF with_tick[th] THEN db.head + 1 ELSE db.head
                           /\ Written(th).head = t
                           /\ Written(th).rows = db.rows \cup {Row(th, t)}
                           /\ Row(th, t).tick = t
                           /\ Row(th, t).thread = th /\ Row(th, t).op = op[th]
      BY <1>1, <2>3, WrittenRow
    <2>6. with_tick[th] <=> requests[th] = 0
      BY <1>2, <2>1, <2>3 DEF TicksFlags
    <2>7. db \in Views /\ db.head \in Nat /\ \A r \in db.rows : r.tick \in Nat /\ r.tick <= db.head
      BY DEF Views, TypeOK, Databases, RowsInv
    <2>8. RowsOf(db', th, op[th]) = RowsOf(db, th, op[th]) \cup {Row(th, t)}
      BY <2>3, <2>5 DEF RowsOf
    <2>9. db'.rows \ RowsOf(db', th, op[th]) = db.rows \ RowsOf(db, th, op[th])
      BY <2>3, <2>5 DEF RowsOf
    <2>10. CASE requests[th] = 0
      <3>1. RowsOf(db, th, op[th]) = {}
        BY <1>2, <2>1, <2>10, NoRows
      <3>2. db'.head = db.head + 1 /\ t = db.head + 1
        BY <2>3, <2>5, <2>6, <2>10
      <3>3. TicksOwn(th)'
        BY <2>3, <2>5, <2>8, <3>1, <3>2 DEF TicksOwn, RowsOf
      <3>4. \A r \in db'.rows \ RowsOf(db', th, op[th]) : r.tick < db'.head
        BY <2>7, <2>9, <3>2
      <3>5. TicksOther(th)'
        BY <2>3, <3>4 DEF TicksOther, RowsOf
      <3>6. QED  BY <2>4, <3>3, <3>5
    <2>11. CASE requests[th] # 0
      <3>1. db'.head = db.head /\ t = db.head
        BY <2>3, <2>5, <2>6, <2>11
      <3>2. \A r \in RowsOf(db', th, op[th]) : r.tick = db'.head
        BY <1>2, <2>1, <2>5, <2>8, <3>1 DEF TicksOwn
      <3>3. TicksOwn(th)'
        BY <2>3, <3>2 DEF TicksOwn, RowsOf
      <3>4. \A r \in db'.rows \ RowsOf(db', th, op[th]) : r.tick < db'.head
        BY <1>2, <2>1, <2>3, <2>9, <2>11, <3>1 DEF TicksOther
      <3>5. TicksOther(th)'
        BY <2>3, <3>4 DEF TicksOther, RowsOf
      <3>6. QED  BY <2>4, <3>3, <3>5
    <2>12. QED  BY <2>10, <2>11
  <1>7. ASSUME NEW u \in Threads, ExecuteFails(u) \/ Commit(u) \/ Rollback(u)
        PROVE  TicksOwn(th)' /\ TicksOther(th)' /\ TicksFlags(th)'
    <2>1. th \in Active /\ u \in Active /\ met[th] = {}
      BY <1>0, <1>1, <1>7 DEF Active, TypeOK, ExecuteFails, Commit, Rollback, Return, Goto
    <2>2. u = th
      BY <1>2, <2>1
    <2>3. ExecuteFails(th) /\ pc'[th] = "failed"
      BY <1>0, <1>1, <1>7, <2>2 DEF Active, TypeOK, ExecuteFails, Commit, Rollback, Return, Goto
    <2>4. TicksOwn(th)' /\ TicksOther(th)'
      BY <1>2, <1>3, <2>1, <2>3 DEF ExecuteFails
    <2>5. QED  BY <2>3, <2>4 DEF TicksFlags
  <1>8. ASSUME NEW u \in Threads, ExecuteUnsupported(u)
        PROVE  TicksOwn(th)' /\ TicksOther(th)' /\ TicksFlags(th)'
    <2>1. th \in Active /\ u \in Active
      BY <1>0, <1>1, <1>8 DEF Active, TypeOK, ExecuteUnsupported, Goto
    <2>2. met[th] = {} /\ u = th
      BY <1>0, <1>1, <1>2, <1>8, <2>1 DEF ExecuteUnsupported
    <2>3. TicksOwn(th)' /\ TicksOther(th)'
      BY <1>2, <1>3, <2>1, <2>2, <1>8 DEF ExecuteUnsupported
    <2>4. pc'[th] = "begin"
      BY <1>1, <1>8, <2>2 DEF ExecuteUnsupported, Goto, TypeOK
    <2>5. QED  BY <2>3, <2>4 DEF TicksFlags
  <1>9. ~Crash
    BY <1>0, <1>1 DEF Crash, Active
  <1>10. CASE UNCHANGED vars
    <2>1. th \in Active /\ met[th] = {}
      BY <1>0, <1>10 DEF vars, Active
    <2>2. QED  BY <1>2, <1>10, <2>1 DEF vars, flags, TicksOwn, TicksOther, TicksFlags, RowsOf
  <1>11. QED
    BY <1>4, <1>5, <1>6, <1>7, <1>8, <1>9, <1>10 DEF Next, Step
\* A write that met no other and ends with rows has them at the latest tick,
\* and no other row is there.
LEMMA EndingTick ==
    ASSUME TypeOK, ControlInv, MeetInv, SavepointsBalanced, RowsInv, RunningInv, TickInv, [Next]_vars,
           NEW th \in Threads, NEW n \in Nat, n = Len(outcome[th]) + 1,
           Len(outcome'[th]) = Len(outcome[th]) + 1, met[th] = {},
           RowsOf(db', th, n) # {}
    PROVE  /\ th \in Active
           /\ \A r \in RowsOf(db', th, n) : r.tick = db'.head
           /\ \A s \in db'.rows \ RowsOf(db', th, n) : s.tick < db'.head
  <1>0. Len(outcome[th]) \in Nat /\ requests[th] \in Nat
    BY DEF TypeOK
  <1>1. Applied(th, n)' # {}
    BY DEF Applied, RowsOf
  <1>2. outcome'[th][n].ok
    <2>1. Applied(th, n)' = Promised(outcome'[th][n])
      BY EndsAtomically
    <2>2. QED  BY <1>1, <2>1 DEF Promised
  <1>3. /\ pc[th] # "idle"
        /\ \/ pc[th] = "execute" /\ ~interactive[th] /\ Execute(th)
           \/ pc[th] = "commit" /\ Commit(th)
    <2>1. outcome'[th] # outcome[th]
      BY <1>0
    <2>2. ~Ends(th, FALSE)
      BY <1>2 DEF Ends
    <2>3. QED  BY <2>1, <2>2, OutcomesStay
  <1>4. /\ th \in Active /\ op[th] = n /\ TicksOwn(th) /\ TicksOther(th) /\ TicksFlags(th)
        /\ Applied(th, n) = 1..requests[th]
    BY <1>3 DEF Active, ControlInv, TickInv, RunningInv
  <1>5. CASE pc[th] = "execute" /\ ~interactive[th] /\ Execute(th)
    <2>1. requests[th] = 0 /\ with_tick[th] /\ db' = Written(th)
      BY <1>4, <1>5 DEF ControlInv, TicksFlags, Execute
    <2>2. RowsOf(db, th, n) = {}
      BY <1>4, <2>1, NoRows
    <2>3. PICK t \in Nat : /\ t = db.head + 1 /\ db'.head = t
                           /\ db'.rows = db.rows \cup {Row(th, t)}
                           /\ Row(th, t).tick = t
                           /\ Row(th, t).thread = th /\ Row(th, t).op = n
      BY <1>4, <1>5, <2>1, WrittenRow
    <2>4. RowsOf(db', th, n) = {Row(th, t)}
      BY <2>2, <2>3 DEF RowsOf
    <2>5. db \in Views /\ db.head \in Nat /\ \A r \in db.rows : r.tick \in Nat /\ r.tick <= db.head
      BY DEF Views, TypeOK, Databases, RowsInv
    <2>6. QED  BY <1>4, <2>3, <2>4, <2>5
  <1>6. CASE pc[th] = "commit" /\ Commit(th)
    <2>1. db' = db
      BY <1>6 DEF Commit
    <2>2. requests[th] > 0
      <3>1. Applied(th, n)' = Applied(th, n)
        BY <2>1 DEF Applied
      <3>2. 1..requests[th] # {}
        BY <1>1, <1>4, <3>1
      <3>3. QED  BY <1>0, <3>2
    <2>3. QED  BY <1>4, <2>1, <2>2 DEF TicksOwn, TicksOther
  <1>7. QED  BY <1>3, <1>5, <1>6

\* Every step keeps the ticks of ended writes apart.
LEMMA LoneTickStep ==
    ASSUME TypeOK, ControlInv, MeetInv, SavepointsBalanced, RowsInv, EndedInv, RunningInv, TickInv,
           LoneWritesHaveATick, [Next]_vars
    PROVE  LoneWritesHaveATick'
  <1> DEFINE Old(r) == r.op \in 1..Len(outcome[r.thread])
             New(r) == r.op = Len(outcome[r.thread]) + 1
  <1>1. ASSUME NEW r \in db'.rows, OfLoneWrite(r)'
        PROVE  /\ r.thread \in Threads /\ r.op \in Nat /\ r.tick \in Nat
               /\ \/ Old(r) /\ r \in db.rows /\ OfLoneWrite(r)
                  \/ /\ New(r) /\ Len(outcome'[r.thread]) = Len(outcome[r.thread]) + 1
                     /\ met[r.thread] = {} /\ r \in RowsOf(db', r.thread, r.op)
    <2>1. r.thread \in Threads /\ r.op \in 1..MaxOps /\ r.tick \in Nat /\ r.op \in Nat /\ r.op >= 1
      <3>1. db' \in Databases
        BY TypeStep DEF TypeOK
      <3>2. QED  BY <1>1, <3>1, ConstantsAssumption DEF Databases
    <2>2. r.op <= Len(outcome'[r.thread]) /\ outcome'[r.thread][r.op].met = {}
      BY <1>1 DEF OfLoneWrite
    <2>3. Len(outcome[r.thread]) \in Nat
      BY <2>1 DEF TypeOK
    <2>4. CASE Old(r)
      <3>1. outcome'[r.thread][r.op] = outcome[r.thread][r.op]
        BY <2>1, <2>4, OutcomesStay DEF Ends
      <3>2. RowsOf(db', r.thread, r.op) = RowsOf(db, r.thread, r.op)
        BY <2>1, <2>2, <2>4, <3>1, EndedStays
      <3>3. r \in db.rows
        BY <1>1, <3>2 DEF RowsOf
      <3>4. OfLoneWrite(r)
        BY <2>1, <2>2, <2>3, <2>4, <3>1 DEF OfLoneWrite
      <3>5. QED  BY <2>1, <2>4, <3>3, <3>4
    <2>5. CASE ~Old(r)
      <3>1. outcome'[r.thread] # outcome[r.thread]
        BY <2>1, <2>2, <2>3, <2>5
      <3>2. Ends(r.thread, TRUE) \/ Ends(r.thread, FALSE)
        BY <2>1, <3>1, OutcomesStay
      <3>3. New(r) /\ Len(outcome'[r.thread]) = Len(outcome[r.thread]) + 1 /\ met[r.thread] = {}
        BY <2>1, <2>2, <2>3, <2>5, <3>2 DEF Ends
      <3>4. QED  BY <1>1, <2>1, <3>3 DEF RowsOf
    <2>6. QED  BY <2>4, <2>5
  <1>2. ASSUME NEW r \in db'.rows, OfLoneWrite(r)', New(r), ~Old(r)
        PROVE  /\ r.thread \in Active /\ met[r.thread] = {}
               /\ r.tick = db'.head
               /\ \A s \in db'.rows \ RowsOf(db', r.thread, r.op) : s.tick < db'.head
    <2>1. /\ r.thread \in Threads /\ r.op \in Nat /\ met[r.thread] = {}
          /\ Len(outcome'[r.thread]) = Len(outcome[r.thread]) + 1
          /\ r \in RowsOf(db', r.thread, r.op)
      BY <1>1, <1>2
    <2>2. QED  BY <1>2, <2>1, EndingTick
  <1>3. db'.head \in Nat
    BY TypeStep DEF TypeOK, Databases
  <1>4. SUFFICES ASSUME NEW r \in db'.rows, NEW s \in db'.rows, OfLoneWrite(r)', OfLoneWrite(s)'
                 PROVE  (r.thread = s.thread /\ r.op = s.op) <=> r.tick = s.tick
    BY DEF LoneWritesHaveATick
  <1>5. CASE Old(r) /\ Old(s)
    <2>1. ASSUME NEW x \in db'.rows, OfLoneWrite(x)', Old(x)
          PROVE  x \in db.rows /\ OfLoneWrite(x)
      <3>1. x.thread \in Threads
        BY <1>1, <2>1
      <3>2. Len(outcome[x.thread]) \in Nat
        BY <3>1 DEF TypeOK
      <3>3. ~New(x)
        BY <2>1, <3>2
      <3>4. QED  BY <1>1, <2>1, <3>3
    <2>2. QED  BY <1>4, <1>5, <2>1 DEF LoneWritesHaveATick
  <1>6. ASSUME NEW x \in db'.rows, NEW y \in db'.rows, OfLoneWrite(x)', OfLoneWrite(y)',
               Old(x), ~Old(y)
        PROVE  x.tick # y.tick /\ ~(x.thread = y.thread /\ x.op = y.op)
    <2>1. ~(x.thread = y.thread /\ x.op = y.op)
      BY <1>6
    <2>2. New(y)
      BY <1>1, <1>6
    <2>3. y.tick = db'.head /\ x.tick < db'.head
      BY <1>2, <1>6, <2>1, <2>2 DEF RowsOf
    <2>4. QED  BY <1>1, <1>3, <1>6, <2>1, <2>3
  <1>7. CASE ~Old(r) /\ ~Old(s)
    <2>1. New(r) /\ New(s)
      BY <1>1, <1>4, <1>7
    <2>2. r.tick = db'.head /\ s.tick = db'.head
      BY <1>2, <1>4, <1>7, <2>1
    <2>3. r.thread = s.thread
      BY <1>2, <1>4, <1>7, <2>1 DEF MeetInv
    <2>4. QED  BY <2>1, <2>2, <2>3
  <1>8. QED  BY <1>4, <1>5, <1>6, <1>7

-----------------------------------------------------------------------------
(***************************************************************************)
(* The theorems.                                                           *)
(***************************************************************************)
\* The inductive invariant.
IInv ==
    /\ TypeOK /\ ControlInv /\ MeetInv /\ SavepointsBalanced /\ RowsInv
    /\ EndedInv /\ RunningInv /\ FlagInv /\ TickInv /\ LoneWritesHaveATick

\* Init satisfies the inductive invariant.
LEMMA IInvInit == Init => IInv
  <1> SUFFICES ASSUME Init PROVE IInv
    OBVIOUS
  <1>1. TypeOK /\ ControlInv
    BY TypeInit
  <1>2. Active = {} /\ InSavepoint = {}
    BY DEF Init, Active, InSavepoint
  <1>3. Len(stack) = 0 /\ Views = {db} /\ db.rows = {}
    BY EmptySeq DEF Init, Views
  <1>4. SavepointsBalanced
    BY <1>2, <1>3, FS_EmptySet DEF SavepointsBalanced
  <1>5. MeetInv /\ RunningInv /\ TickInv
    BY <1>2 DEF MeetInv, RunningInv, TickInv
  <1>6. RowsInv /\ LoneWritesHaveATick
    BY <1>3 DEF RowsInv, LoneWritesHaveATick
  <1>7. FlagInv
    BY DEF Init, FlagInv
  <1>8. EndedInv
    BY DEF Init, EndedInv
  <1>9. QED  BY <1>1, <1>4, <1>5, <1>6, <1>7, <1>8 DEF IInv

\* Every step keeps it.
LEMMA IInvStep == IInv /\ [Next]_vars => IInv'
  BY TypeStep, MeetStep, BalanceStep, RowsStep, EndedStep, RunningStep, FlagStep, TickStep,
     LoneTickStep DEF IInv

\* So it always holds.
LEMMA IInvHolds == Spec => []IInv
  BY IInvInit, IInvStep, PTL DEF Spec

\* Every variable keeps its type, whatever threads run and die.
THEOREM TransactionsTypeCorrect == Spec => []TypeOK
  <1>1. IInv => TypeOK
    BY DEF IInv
  <1>2. QED  BY <1>1, IInvHolds, PTL

\* SAVEPOINT oxilite_tx is matched by RELEASE oxilite_tx however begin, commit
\* and rollback of the threads interleave: the connection has one savepoint for
\* each thread inside an interactive write, none when there is none.
THEOREM SavepointsBalance == Spec => []SavepointsBalanced
  <1>1. IInv => SavepointsBalanced
    BY DEF IInv
  <1>2. QED  BY <1>1, IInvHolds, PTL

\* A write that overlapped no interactive write of another thread is whole or
\* absent after it returned, in the connection's view and on disk, through any
\* later interleaving, rollback or crash.
THEOREM WritesAreAtomic == Spec => []LoneWritesAreAtomic
  <1>1. ASSUME IInv PROVE LoneWritesAreAtomic
    <2>1. OnDisk \in Views
      <3>1. stack \in Seq(Databases)
        BY <1>1 DEF IInv, TypeOK
      <3>2. QED  BY <3>1, EmptySeq DEF OnDisk, Views
    <2>2. QED  BY <1>1, <2>1 DEF IInv, EndedInv, LoneWritesAreAtomic, RowsOf
  <1>2. QED  BY <1>1, IInvHolds, PTL

\* docs/versioning.md "Every atomic write is one tick": writes that overlapped no
\* other have one tick each and share it with none.
THEOREM WritesHaveATick == Spec => []LoneWritesHaveATick
  <1>1. IInv => LoneWritesHaveATick
    BY DEF IInv
  <1>2. QED  BY <1>1, IInvHolds, PTL
=============================================================================
