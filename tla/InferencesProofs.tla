-------------------------- MODULE InferencesProofs --------------------------
(***************************************************************************)
(* Proofs about Inferences, for every program, every set of producers and  *)
(* any number of jobs.                                                     *)
(***************************************************************************)
EXTENDS Inferences, TLAPS, WellFoundedInduction, FiniteSetTheorems

-----------------------------------------------------------------------------
(***************************************************************************)
(* Statements that run one after the other.                                *)
(***************************************************************************)
\* Induction: a set of naturals has a least one.
LEMMA LeastNatural ==
    ASSUME NEW T \in SUBSET Nat, T # {}
    PROVE  \E m \in T : \A k \in T : m <= k
  <1>1. IsWellFoundedOn(OpToRel(<, Nat), Nat)
    BY NatLessThanWellFounded
  <1>2. PICK m \in T : \A k \in T : ~(<<k, m>> \in OpToRel(<, Nat))
    BY <1>1, WFMin
  <1>3. ASSUME NEW k \in T, k < m
        PROVE  FALSE
    <2>1. <<k, m>> \in Nat \X Nat /\ <<k, m>>[1] = k /\ <<k, m>>[2] = m
      OBVIOUS
    <2>2. <<k, m>> \in OpToRel(<, Nat)
      BY <1>3, <2>1 DEF OpToRel
    <2>3. QED  BY <1>2, <2>2
  <1>4. ASSUME NEW k \in T
        PROVE  m <= k
    <2>1. k \in Nat /\ m \in Nat
      OBVIOUS
    <2>2. ~(k < m)
      BY <1>3
    <2>3. QED  BY <2>1, <2>2
  <1>5. QED  BY <1>4

\* f is the rows after each of the first m statements.
Ran(f, m, stmts, facts, rows, except) ==
    f = [n \in 0 .. m |-> IF n = 0 THEN rows
                          ELSE f[n - 1] \cup (Fired(stmts[n], facts \cup f[n - 1]) \ except)]

\* They can be run.
LEMMA RunsExist ==
    ASSUME NEW stmts, NEW facts, NEW rows, NEW except, NEW m \in Nat
    PROVE  \E f : Ran(f, m, stmts, facts, rows, except)
  <1> DEFINE bad == {k \in Nat : ~\E f : Ran(f, k, stmts, facts, rows, except)}
  <1>1. SUFFICES ASSUME bad # {}
                 PROVE  FALSE
    OBVIOUS
  <1>2. PICK k \in bad : \A j \in bad : k <= j
    BY <1>1, LeastNatural
  <1>3. CASE k = 0
    <2>1. Ran([n \in 0 .. 0 |-> rows], 0, stmts, facts, rows, except)
      BY DEF Ran
    <2>2. QED  BY <1>2, <1>3, <2>1
  <1>4. CASE k # 0
    <2>1. k - 1 \in Nat /\ k \in Nat /\ k - 1 \notin bad
      BY <1>2, <1>4
    <2>2. PICK g : Ran(g, k - 1, stmts, facts, rows, except)
      BY <2>1
    <2> DEFINE f == [n \in 0 .. k |->
                        IF n = k THEN g[k - 1] \cup (Fired(stmts[k], facts \cup g[k - 1]) \ except)
                        ELSE g[n]]
               h == [n \in 0 .. k |-> IF n = 0 THEN rows
                                      ELSE f[n - 1] \cup (Fired(stmts[n], facts \cup f[n - 1])
                                                             \ except)]
    <2>3. ASSUME NEW n \in 0 .. k
          PROVE  f[n] = h[n]
      <3>1. CASE n = 0
        <4>1. f[n] = g[n] /\ h[n] = rows
          BY <1>4, <2>1, <3>1
        <4>2. g[n] = rows
          BY <2>1, <2>2, <3>1 DEF Ran
        <4>3. QED  BY <4>1, <4>2
      <3>2. CASE n # 0 /\ n # k
        <4>1. n - 1 \in 0 .. k /\ n - 1 # k /\ n \in 0 .. k - 1
          BY <2>1, <3>2
        <4>2. f[n] = g[n] /\ f[n - 1] = g[n - 1]
          BY <3>2, <4>1
        <4>3. g[n] = g[n - 1] \cup (Fired(stmts[n], facts \cup g[n - 1]) \ except)
          BY <2>2, <3>2, <4>1 DEF Ran
        <4> HIDE DEF f
        <4>4. QED  BY <3>2, <4>2, <4>3
      <3>3. CASE n # 0 /\ n = k
        <4>1. k - 1 \in 0 .. k /\ k - 1 # k
          BY <2>1, <3>3
        <4>2. f[k - 1] = g[k - 1]
          BY <4>1
        <4>3. f[n] = g[k - 1] \cup (Fired(stmts[k], facts \cup g[k - 1]) \ except)
          BY <3>3
        <4> HIDE DEF f
        <4>4. QED  BY <3>3, <4>2, <4>3
      <3>4. QED  BY <3>1, <3>2, <3>3
    <2>4. f = h
      BY <2>3
    <2>5. Ran(f, k, stmts, facts, rows, except)
      BY <2>4 DEF Ran
    <2>6. QED  BY <1>2, <2>5
  <1>5. QED  BY <1>3, <1>4

\* What the last of the statements leaves.
LEMMA InsertedRuns ==
    ASSUME NEW stmts, NEW facts, NEW rows, NEW except, Len(stmts) \in Nat
    PROVE  \E f : /\ Ran(f, Len(stmts), stmts, facts, rows, except)
                  /\ Inserted(stmts, facts, rows, except) = f[Len(stmts)]
  <1>1. \E f : Ran(f, Len(stmts), stmts, facts, rows, except)
    BY RunsExist
  <1>2. QED  BY <1>1 DEF Inserted, Ran

\* Statements add to the rows, and nothing but heads of theirs.
LEMMA InsertedWithin ==
    ASSUME NEW heads, NEW stmts \in Seq(Statements(heads)), NEW facts, NEW rows \in SUBSET heads,
           NEW except
    PROVE  /\ Inserted(stmts, facts, rows, except) \in SUBSET heads
           /\ rows \subseteq Inserted(stmts, facts, rows, except)
  <1> DEFINE m == Len(stmts)
  <1>1. m \in Nat /\ \A n \in 1 .. m : stmts[n] \in Statements(heads)
    OBVIOUS
  <1>2. PICK f : /\ Ran(f, m, stmts, facts, rows, except)
                 /\ Inserted(stmts, facts, rows, except) = f[m]
    BY <1>1, InsertedRuns
  <1> HIDE DEF m
  <1> DEFINE bad == {k \in Nat : k <= m /\ ~(f[k] \in SUBSET heads /\ rows \subseteq f[k])}
  <1>3. ASSUME bad # {}
        PROVE  FALSE
    <2>1. PICK k \in bad : \A j \in bad : k <= j
      BY <1>3, LeastNatural
    <2>2. k \in 0 .. m /\ k \in Nat /\ ~(f[k] \in SUBSET heads /\ rows \subseteq f[k])
      BY <1>1
    <2>3. CASE k = 0
      <3>1. f[k] = rows
        BY <1>2, <2>2, <2>3 DEF Ran
      <3>2. QED  BY <2>2, <3>1
    <2>4. CASE k # 0
      <3>1. k - 1 \in Nat /\ k - 1 <= m /\ ~(k <= k - 1) /\ k \in 1 .. m
        BY <1>1, <2>2, <2>4
      <3>2. f[k - 1] \in SUBSET heads /\ rows \subseteq f[k - 1]
        BY <2>1, <3>1
      <3>3. f[k] = f[k - 1] \cup (Fired(stmts[k], facts \cup f[k - 1]) \ except)
        BY <1>2, <2>2, <2>4 DEF Ran
      <3>4. Fired(stmts[k], facts \cup f[k - 1]) \in SUBSET heads
        BY <1>1, <3>1 DEF Fired, Statements
      <3>5. QED  BY <2>2, <3>2, <3>3, <3>4
    <2>5. QED  BY <2>3, <2>4
  <1>4. m \notin bad /\ m <= m
    BY <1>1, <1>3
  <1>5. QED  BY <1>1, <1>2, <1>4

\* The rows statements add to rows are among those they conclude from them.
LEMMA InsertedApart ==
    ASSUME NEW stmts, Len(stmts) \in Nat, NEW facts, NEW rows, NEW except
    PROVE  Inserted(stmts, facts, rows, except)
              \subseteq rows \cup Inserted(stmts, facts \cup rows, {}, except)
  <1> DEFINE m == Len(stmts)
  <1>1. PICK f : /\ Ran(f, m, stmts, facts, rows, except)
                 /\ Inserted(stmts, facts, rows, except) = f[m]
    BY InsertedRuns
  <1>2. PICK g : /\ Ran(g, m, stmts, facts \cup rows, {}, except)
                 /\ Inserted(stmts, facts \cup rows, {}, except) = g[m]
    BY InsertedRuns
  <1>3. m \in Nat
    OBVIOUS
  <1> HIDE DEF m
  <1> DEFINE bad == {k \in Nat : k <= m /\ f[k] # rows \cup g[k]}
  <1>4. ASSUME bad # {}
        PROVE  FALSE
    <2>1. PICK k \in bad : \A j \in bad : k <= j
      BY <1>4, LeastNatural
    <2>2. k \in 0 .. m /\ k \in Nat /\ f[k] # rows \cup g[k]
      BY <1>3, <2>1
    <2>3. CASE k = 0
      <3>1. f[k] = rows /\ g[k] = {}
        BY <1>1, <1>2, <2>2, <2>3 DEF Ran
      <3>2. QED  BY <2>2, <3>1
    <2>4. CASE k # 0
      <3>1. k - 1 \in Nat /\ k - 1 <= m /\ ~(k <= k - 1)
        BY <1>3, <2>2, <2>4
      <3>2. f[k - 1] = rows \cup g[k - 1]
        BY <2>1, <3>1
      <3>3. facts \cup f[k - 1] = (facts \cup rows) \cup g[k - 1]
        BY <3>2
      <3>4. f[k] = f[k - 1] \cup (Fired(stmts[k], facts \cup f[k - 1]) \ except)
        BY <1>1, <2>2, <2>4 DEF Ran
      <3>5. g[k] = g[k - 1] \cup (Fired(stmts[k], (facts \cup rows) \cup g[k - 1]) \ except)
        BY <1>2, <2>2, <2>4 DEF Ran
      <3>6. QED  BY <2>2, <3>2, <3>3, <3>4, <3>5
    <2>5. QED  BY <2>3, <2>4
  <1>5. m \notin bad /\ m <= m
    BY <1>3, <1>4
  <1>6. QED  BY <1>1, <1>2, <1>3, <1>5 DEF m
-----------------------------------------------------------------------------
(***************************************************************************)
(* Types.                                                                  *)
(***************************************************************************)
\* Where a job can be.
Pcs == {"Idle", "Seed", "Step", "Rows", "Write", "CleaningUp", "Reset", "Round", "Read", "Apply",
        "Returned", "Failed"}

\* The jobs.
JobRecords ==
    [kind : Kinds \cup {"none"}, pc : Pcs, producer : Producers, inferred : BOOLEAN,
     iterated : BOOLEAN, phase : Nat, before : Nat, round : Nat, read : SUBSET Facts]

\* A job iterates only if its program has components to iterate, and is in one
\* of them while it does.
JobInv ==
    \A c \in Jobs :
        /\ jobs[c].pc \in {"Seed", "Step"} => jobs[c].phase \in 1 .. Len(Phases)
        /\ jobs[c].pc \in {"Seed", "Step", "CleaningUp"} => jobs[c].iterated
        /\ jobs[c].pc \in {"Reset", "Round", "Read", "Apply"} => ~jobs[c].iterated
        /\ jobs[c].pc \in {"Reset", "Round"} => jobs[c].producer = Owl

\* The tables hold what their columns can hold.
TablesOK ==
    /\ quads \in SUBSET Quads
    /\ inferred \in SUBSET Conclusions
    /\ source \in SUBSET (Producers \X Conclusions)
    /\ named \in SUBSET Producers
    /\ work \in SUBSET (Jobs \X Rows)
    /\ derived \in SUBSET (Producers \X Conclusions)
    /\ disturbed \in SUBSET Jobs

\* The types, and what a job's place says of it.
Types == TablesOK /\ jobs \in [Jobs -> JobRecords] /\ JobInv

\* What the sources of facts hold.
LEMMA SourcesTyped ==
    ASSUME TablesOK, NEW job \in JobRecords
    PROVE  QuadSource(job) \in SUBSET Facts /\ ReasoningInput(job) \in SUBSET Facts
  BY DEF TablesOK, QuadSource, ReasoningInput, Facts

\* A statement concludes heads of its rules only.
LEMMA FiredTyped ==
    ASSUME NEW heads, NEW stmt \in Statements(heads), NEW facts
    PROVE  Fired(stmt, facts) \in SUBSET heads
  BY DEF Fired, Statements

\* And so does an engine.
LEMMA FollowsTyped ==
    ASSUME NEW heads, NEW rules \in Statements(heads), NEW facts
    PROVE  Follows(rules, facts) \in SUBSET heads
  BY DEF Follows, Statements

\* The rows of a run.
LEMMA RowsTyped ==
    ASSUME TablesOK, NEW c \in Jobs
    PROVE  RowsOf(c) \in SUBSET Rows
  BY DEF TablesOK, RowsOf

\* What a run writes back.
LEMMA WorkTyped ==
    ASSUME TablesOK, NEW c \in Jobs, NEW rows \in SUBSET Rows
    PROVE  WorkOf(c, rows) \in SUBSET (Jobs \X Rows)
  BY DEF TablesOK, WorkOf

\* What a table of inferences holds.
IsTable(t) ==
    t = [inferred |-> t.inferred, source |-> t.source]
    /\ t.inferred \in SUBSET Conclusions /\ t.source \in SUBSET (Producers \X Conclusions)

\* The tables as they are.
LEMMA TablesTyped ==
    ASSUME TablesOK
    PROVE  IsTable(Tables) /\ Tables.inferred = inferred /\ Tables.source = source
  BY DEF TablesOK, Tables, IsTable

\* inference_reset.
LEMMA ResetTyped ==
    ASSUME NEW t, IsTable(t), NEW p \in Producers
    PROVE  IsTable(Reset(t, p))
  BY DEF IsTable, Reset

\* Where a table gets more inferences.
LEMMA WithInferred ==
    ASSUME NEW t, IsTable(t), NEW new \in SUBSET Conclusions,
           NEW u, u = [t EXCEPT !.inferred = new]
    PROVE  IsTable(u) /\ u.inferred = new /\ u.source = t.source
  BY DEF IsTable

\* inference_attribute.
LEMMA AttributeTyped ==
    ASSUME NEW t, IsTable(t), NEW p \in Producers
    PROVE  IsTable(Attribute(t, p))
  <1> DEFINE more == {<<p, q>> : q \in {x \in t.inferred : ~\E s \in t.source : s[2] = x}}
  <1>1. more \in SUBSET (Producers \X Conclusions)
    BY DEF IsTable
  <1>2. Attribute(t, p) = [t EXCEPT !.source = @ \cup more]
    BY DEF Attribute
  <1> HIDE DEF more
  <1>3. QED  BY <1>1, <1>2 DEF IsTable
-----------------------------------------------------------------------------
(***************************************************************************)
(* Attribution.                                                            *)
(***************************************************************************)
\* Every attribution is of an inference, and no inference has two.
Claims(t) ==
    /\ \A s \in t.source : s[2] \in t.inferred
    /\ \A s, u \in t.source : s[2] = u[2] => s[1] = u[1]

\* And every inference has one.
Attributed(t) ==
    /\ Claims(t)
    /\ \A q \in t.inferred : \E s \in t.source : s[2] = q

\* inference_reset takes the attributions of the producer, and the inferences
\* nobody claims any more.
LEMMA ResetAttributes ==
    ASSUME NEW t, IsTable(t), Attributed(t), NEW p \in Producers
    PROVE  /\ Attributed(Reset(t, p))
           /\ \A s \in t.source : s \notin Reset(t, p).source => s[1] = p
  BY DEF IsTable, Attributed, Claims, Reset

\* inference_attribute gives the others to the producer, and takes nothing.
LEMMA AttributeAttributes ==
    ASSUME NEW t, IsTable(t), Claims(t), NEW p \in Producers
    PROVE  /\ Attributed(Attribute(t, p))
           /\ t.source \subseteq Attribute(t, p).source
  <1> DEFINE free == {x \in t.inferred : ~\E s \in t.source : s[2] = x}
             more == {<<p, q>> : q \in free}
             u    == Attribute(t, p)
  <1>1. u.inferred = t.inferred /\ u.source = t.source \cup more
    BY DEF IsTable, Attribute
  <1>2. /\ \A s \in more : s[1] = p /\ s[2] \in free
        /\ \A q \in free : <<p, q>> \in more /\ <<p, q>>[2] = q
    OBVIOUS
  <1>3. /\ free \subseteq t.inferred
        /\ \A q \in t.inferred : q \notin free => \E s \in t.source : s[2] = q
        /\ \A s \in t.source : s[2] \notin free
    OBVIOUS
  <1> HIDE DEF free, more, u
  <1>4. Claims(u)
    BY <1>1, <1>2, <1>3 DEF Claims
  <1>5. \A q \in u.inferred : \E s \in u.source : s[2] = q
    BY <1>1, <1>2, <1>3
  <1>6. QED  BY <1>1, <1>4, <1>5 DEF Attributed, u

\* A table that gets more inferences and then attributes them.
LEMMA GrownAttributes ==
    ASSUME NEW t, IsTable(t), Attributed(t), NEW p \in Producers, NEW new \in SUBSET Conclusions,
           t.inferred \subseteq new, NEW u, u = Attribute([t EXCEPT !.inferred = new], p)
    PROVE  IsTable(u) /\ Attributed(u) /\ t.source \subseteq u.source
  <1> DEFINE v == [t EXCEPT !.inferred = new]
  <1>1. IsTable(v) /\ v.inferred = new /\ v.source = t.source
    BY WithInferred
  <1> HIDE DEF v
  <1>2. Claims(v)
    BY <1>1 DEF Attributed, Claims
  <1>3. IsTable(Attribute(v, p)) /\ Attributed(Attribute(v, p)) /\ v.source \subseteq Attribute(v, p).source
    BY <1>1, <1>2, AttributeTyped, AttributeAttributes
  <1>4. QED  BY <1>1, <1>3 DEF v

\* The tables after a step: attributed, and without nothing but what p claimed.
TablesAfter(p) ==
    /\ inferred' \in SUBSET Conclusions /\ source' \in SUBSET (Producers \X Conclusions)
    /\ Attributed(Tables)'
    /\ \A s \in source : s \notin source' => s[1] = p

\* Where a step applies a table.
LEMMA AppliedTables ==
    ASSUME NEW t, IsTable(t), Attributed(t), Applied(t), NEW p,
           \A s \in source : s \notin t.source => s[1] = p
    PROVE  TablesAfter(p)
  <1>1. inferred' = t.inferred /\ source' = t.source
    BY DEF Applied
  <1>2. Attributed(Tables)'
    BY <1>1 DEF Attributed, Claims, Tables
  <1>3. QED  BY <1>1, <1>2 DEF TablesAfter, IsTable

\* t with more inferences, those that nobody claims p's.
Extended(t, new, p) == Attribute([t EXCEPT !.inferred = t.inferred \cup new], p)

\* The step of a job takes only conclusions of its own producer, and leaves
\* every inference with one.
LEMMA JobTables ==
    ASSUME TablesOK, jobs \in [Jobs -> JobRecords], JobInv, Attributed(Tables),
           NEW c \in Jobs, Job(c)
    PROVE  TablesAfter(jobs[c].producer)
  <1> DEFINE p == jobs[c].producer
  <1>0. /\ p \in Producers /\ Owl \in Producers /\ jobs[c] \in JobRecords
        /\ IsTable(Tables) /\ Tables.inferred = inferred /\ Tables.source = source
        /\ jobs[c].pc \in {"Reset", "Round"} => p = Owl
    BY TablesTyped, ConstantsAssumption DEF JobRecords, JobInv
  <1>1. ASSUME UNCHANGED <<inferred, source>>
        PROVE  TablesAfter(p)
    <2>1. Applied(Tables)
      BY <1>1 DEF Applied, Tables
    <2>2. \A s \in source : s \notin Tables.source => s[1] = p
      BY <1>0
    <2>3. QED  BY <1>0, <2>1, <2>2, AppliedTables
  <1>2. CASE Seed(c) \/ StepOnce(c) \/ ReadRows(c) \/ CleanUp(c) \/ ReadInput(c)
    BY <1>1, <1>2 DEF Seed, StepOnce, ReadRows, CleanUp, ReadInput
  <1> DEFINE kept == Reset(Tables, p)
  <1>3. /\ IsTable(kept) /\ Attributed(kept)
        /\ \A s \in source : s \notin kept.source => s[1] = p
    BY <1>0, ResetTyped, ResetAttributes
  <1>4. ASSUME NEW new \in SUBSET Conclusions, Applied(Extended(kept, new, p))
        PROVE  TablesAfter(p)
    <2> DEFINE u == Extended(kept, new, p)
    <2> HIDE DEF kept, p
    <2>1. kept.inferred \cup new \in SUBSET Conclusions
      BY <1>3 DEF IsTable
    <2>2. IsTable(u) /\ Attributed(u) /\ kept.source \subseteq u.source
      BY <1>0, <1>3, <2>1, GrownAttributes DEF Extended
    <2> HIDE DEF u
    <2>3. \A s \in source : s \notin u.source => s[1] = p
      BY <1>3, <2>2
    <2>4. QED  BY <1>4, <2>2, <2>3, AppliedTables DEF u
  <1>5. CASE Write(c)
    <2> DEFINE new == Fired(Goal, quads \cup (IF jobs[c].inferred THEN kept.inferred ELSE {})
                                        \cup RowsOf(c))
    <2>1. new \in SUBSET Conclusions
      BY FiredTyped, ConstantsAssumption
    <2>2. Applied(Extended(kept, new, p))
      BY <1>5 DEF Write, Extended
    <2> HIDE DEF new, kept
    <2>3. QED  BY <1>4, <2>1, <2>2
  <1>6. CASE Apply(c)
    <2> DEFINE new == Follows(Engine, jobs[c].read)
    <2>1. new \in SUBSET Conclusions
      BY FollowsTyped, ConstantsAssumption
    <2>2. Applied(Extended(kept, new, p))
      BY <1>6 DEF Apply, Replaced, Extended
    <2> HIDE DEF new, kept
    <2>3. QED  BY <1>4, <2>1, <2>2
  <1>7. CASE OwlReset(c)
    <2>1. Applied(kept)
      BY <1>0, <1>7 DEF OwlReset
    <2>2. QED  BY <1>3, <2>1, AppliedTables
  <1>8. CASE OwlRound(c)
    <2> DEFINE new == Inserted(Axioms, quads, inferred, quads)
               u   == Attribute([Tables EXCEPT !.inferred = new], p)
    <2>1. new \in SUBSET Conclusions /\ inferred \subseteq new
      BY InsertedWithin, ConstantsAssumption DEF TablesOK
    <2>2. Applied(u)
      BY <1>0, <1>8 DEF OwlRound, Round
    <2> HIDE DEF new
    <2>3. IsTable(u) /\ Attributed(u) /\ Tables.source \subseteq u.source
      BY <1>0, <2>1, GrownAttributes
    <2> HIDE DEF u
    <2>4. \A s \in source : s \notin u.source => s[1] = p
      BY <1>0, <2>3
    <2>5. QED  BY <2>2, <2>3, <2>4, AppliedTables
  <1>9. QED  BY <1>2, <1>5, <1>6, <1>7, <1>8 DEF Job

\* The producers of the attributions have derived what they are of.
DerivedAfter ==
    derived' \in SUBSET (Producers \X Conclusions) /\ source' \subseteq derived'

\* A run of p that concludes new, and is given what nobody claims.
LEMMA RunDerives ==
    ASSUME TablesOK, Attributed(Tables), source \subseteq derived, NEW p \in Producers,
           NEW new \in SUBSET Conclusions, Derives(p, new),
           Applied(Extended(Reset(Tables, p), new, p))
    PROVE  DerivedAfter
  <1> DEFINE kept == {s \in source : s[1] # p}
             free == {x \in {q \in inferred : \E s \in kept : s[2] = q} \cup new :
                         ~\E s \in kept : s[2] = x}
  <1>1. source' = kept \cup {<<p, q>> : q \in free}
    BY DEF Applied, Extended, Attribute, Reset, Tables
  <1>2. derived' = {x \in derived : x[1] # p} \cup ({p} \X new)
    BY DEF Derives
  <1>3. derived' \in SUBSET (Producers \X Conclusions)
    BY <1>2 DEF TablesOK
  <1>4. kept \subseteq derived'
    BY <1>2
  <1>5. \A q \in free : <<p, q>> \in derived'
    BY <1>2
  <1>6. QED  BY <1>1, <1>3, <1>4, <1>5 DEF DerivedAfter

\* Where a producer's attributions only go.
LEMMA ResetDerives ==
    ASSUME TablesOK, source \subseteq derived, NEW p \in Producers, Derives(p, {}),
           Applied(Reset(Tables, p))
    PROVE  DerivedAfter
  BY DEF TablesOK, Derives, Applied, Reset, Tables, DerivedAfter

\* The step of a job records what it concludes.
LEMMA JobDerives ==
    ASSUME TablesOK, jobs \in [Jobs -> JobRecords], Attributed(Tables), source \subseteq derived,
           NEW c \in Jobs, Job(c)
    PROVE  DerivedAfter
  <1> DEFINE p == jobs[c].producer
  <1>0. p \in Producers /\ Owl \in Producers
    BY ConstantsAssumption DEF JobRecords
  <1>1. CASE Seed(c) \/ StepOnce(c) \/ ReadRows(c) \/ CleanUp(c) \/ ReadInput(c)
    <2>1. UNCHANGED <<source, derived>>
      BY <1>1 DEF Seed, StepOnce, ReadRows, CleanUp, ReadInput
    <2>2. QED  BY <2>1 DEF DerivedAfter, TablesOK
  <1>2. CASE Write(c)
    <2> DEFINE kept == Reset(Tables, p)
               new  == Fired(Goal, quads \cup (IF jobs[c].inferred THEN kept.inferred ELSE {})
                                         \cup RowsOf(c))
    <2>1. new \in SUBSET Conclusions
      BY FiredTyped, ConstantsAssumption
    <2>2. Applied(Extended(kept, new, p)) /\ Derives(p, new)
      BY <1>2 DEF Write, Extended
    <2> HIDE DEF new, p
    <2>3. QED  BY <1>0, <2>1, <2>2, RunDerives
  <1>3. CASE Apply(c)
    <2> DEFINE new == Follows(Engine, jobs[c].read)
    <2>1. new \in SUBSET Conclusions
      BY FollowsTyped, ConstantsAssumption
    <2>2. Applied(Extended(Reset(Tables, p), new, p)) /\ Derives(p, new)
      BY <1>3 DEF Apply, Replaced, Extended
    <2> HIDE DEF new, p
    <2>3. QED  BY <1>0, <2>1, <2>2, RunDerives
  <1>4. CASE OwlReset(c)
    BY <1>0, <1>4, ResetDerives DEF OwlReset
  <1>5. CASE OwlRound(c)
    <2> DEFINE more == Inserted(Axioms, quads \cup inferred, {}, quads)
               rows == Inserted(Axioms, quads, inferred, quads)
               free == {x \in rows : ~\E s \in source : s[2] = x}
    <2>1. Axioms \in Seq(Statements(Conclusions)) /\ Len(Axioms) \in Nat
      BY ConstantsAssumption
    <2>2. more \in SUBSET Conclusions
      BY <2>1, InsertedWithin
    <2>3. rows \subseteq inferred \cup more
      BY <2>1, InsertedApart
    <2>4. derived' = derived \cup ({Owl} \X more)
      BY <1>5 DEF OwlRound
    <2> HIDE DEF more, rows
    <2>5. source' = source \cup {<<Owl, q>> : q \in free}
      BY <1>5 DEF OwlRound, Round, Applied, Attribute, Tables, rows
    <2>6. free \subseteq more
      BY <2>3 DEF Attributed, Tables
    <2> HIDE DEF free
    <2>7. {<<Owl, q>> : q \in free} \subseteq derived'
      BY <2>4, <2>6
    <2>8. derived' \in SUBSET (Producers \X Conclusions)
      BY <1>0, <2>2, <2>4 DEF TablesOK
    <2>9. QED  BY <2>4, <2>5, <2>7, <2>8 DEF DerivedAfter
  <1>6. QED  BY <1>1, <1>2, <1>3, <1>4, <1>5 DEF Job
-----------------------------------------------------------------------------
(***************************************************************************)
(* Jobs.                                                                   *)
(***************************************************************************)
\* Job c becomes n, which is the same job further on.
Becomes(c, n) ==
    /\ n \in JobRecords
    /\ jobs' = [jobs EXCEPT ![c] = n]
    /\ n.kind = jobs[c].kind /\ n.producer = jobs[c].producer
    /\ n.inferred = jobs[c].inferred /\ n.iterated = jobs[c].iterated

\* A job that only goes on.
LEMMA MovedJob ==
    ASSUME jobs \in [Jobs -> JobRecords], NEW c \in Jobs, NEW to \in Pcs, Moved(c, to)
    PROVE  \E n : Becomes(c, n) /\ n.pc = to /\ n.phase = jobs[c].phase
  <1> DEFINE n == [jobs[c] EXCEPT !.pc = to]
  <1>1. /\ n \in JobRecords /\ n.pc = to /\ n.phase = jobs[c].phase
        /\ n.kind = jobs[c].kind /\ n.producer = jobs[c].producer
        /\ n.inferred = jobs[c].inferred /\ n.iterated = jobs[c].iterated
    BY DEF JobRecords
  <1>2. jobs' = [jobs EXCEPT ![c] = n]
    BY DEF Moved
  <1>3. QED  BY <1>1, <1>2 DEF Becomes

\* The rows of a run are finitely many.
LEMMA RowsCount ==
    ASSUME NEW rows \in SUBSET Rows
    PROVE  Cardinality(rows) \in Nat
  BY FS_Subset, FS_CardinalityType, ConstantsAssumption

\* How a job goes on.
JobMoves(c, n) ==
    /\ Becomes(c, n)
    /\ \/ Seed(c) /\ n.pc = "Step" /\ n.phase = jobs[c].phase
       \/ /\ StepOnce(c)
          /\ \/ n.pc = "Seed" /\ n.phase = jobs[c].phase + 1 /\ jobs[c].phase < Len(Phases)
             \/ n.pc = "Step" /\ n.phase = jobs[c].phase
             \/ n.pc \in {"Rows", "Write", "Failed"}
       \/ ReadRows(c) /\ n.pc = AfterLast(jobs[c])
       \/ Write(c) /\ n.pc = AfterLast(jobs[c])
       \/ CleanUp(c) /\ n.pc = "Returned"
       \/ OwlReset(c) /\ n.pc = "Round"
       \/ OwlRound(c) /\ n.pc \in {"Round", "Returned"}
       \/ ReadInput(c) /\ n.pc \in {"Read", "Apply"}
       \/ Apply(c) /\ n.pc = "Returned"

\* The statements of the phases conclude rows.
LEMMA PhasesTyped ==
    \A i \in 1 .. Len(Phases) : /\ Phases[i].seed \in Seq(Statements(Rows))
                                /\ Phases[i].step \in Seq(Statements(Rows))
  <1> DEFINE Phase == [seed : Seq(Statements(Rows)), step : Seq(Statements(Rows))]
  <1>1. Phases \in Seq(Phase)
    BY ConstantsAssumption
  <1> HIDE DEF Phase
  <1>2. \A i \in 1 .. Len(Phases) : Phases[i] \in Phase
    BY <1>1
  <1>3. QED  BY <1>2 DEF Phase

\* A job goes on.
LEMMA JobGoesOn ==
    ASSUME TablesOK, jobs \in [Jobs -> JobRecords], JobInv, NEW c \in Jobs, Job(c)
    PROVE  \E n : JobMoves(c, n)
  <1>0. /\ jobs[c] \in JobRecords
        /\ jobs[c].pc \in {"Seed", "Step"} => jobs[c].phase \in 1 .. Len(Phases)
        /\ \A i \in 1 .. Len(Phases) : /\ Phases[i].seed \in Seq(Statements(Rows))
                                       /\ Phases[i].step \in Seq(Statements(Rows))
        /\ Len(Phases) \in Nat
    <2>1. /\ jobs[c] \in JobRecords
          /\ jobs[c].pc \in {"Seed", "Step"} => jobs[c].phase \in 1 .. Len(Phases)
      BY DEF JobInv
    <2>2. QED  BY <2>1, PhasesTyped, ConstantsAssumption
  <1>1. CASE Seed(c)
    <2> DEFINE rows == Grown(c, Phases[jobs[c].phase].seed, IF jobs[c].phase = 1 THEN {} ELSE RowsOf(c))
               n    == [jobs[c] EXCEPT !.pc = "Step", !.round = 1, !.before = Cardinality(rows)]
    <2>1. rows \in SUBSET Rows
      BY <1>0, <1>1, RowsTyped, InsertedWithin DEF Grown, Seed
    <2> HIDE DEF rows
    <2>2. /\ n \in JobRecords /\ n.pc = "Step" /\ n.phase = jobs[c].phase
          /\ n.kind = jobs[c].kind /\ n.producer = jobs[c].producer
          /\ n.inferred = jobs[c].inferred /\ n.iterated = jobs[c].iterated
      BY <1>0, <2>1, RowsCount DEF JobRecords, Pcs
    <2>3. jobs' = [jobs EXCEPT ![c] = n]
      BY <1>1 DEF Seed, rows
    <2> HIDE DEF n
    <2>4. QED  BY <1>1, <2>2, <2>3 DEF JobMoves, Becomes
  <1>2. CASE StepOnce(c)
    <2> DEFINE rows == Grown(c, Phases[jobs[c].phase].step, RowsOf(c))
    <2>1. rows \in SUBSET Rows
      BY <1>0, <1>2, RowsTyped, InsertedWithin DEF Grown, StepOnce
    <2>2. \/ /\ jobs[c].phase < Len(Phases)
             /\ jobs' = [jobs EXCEPT ![c].pc = "Seed", ![c].phase = @ + 1]
          \/ Moved(c, IF jobs[c].kind = "query" THEN "Rows" ELSE "Write")
          \/ Moved(c, "Failed")
          \/ jobs' = [jobs EXCEPT ![c].before = Cardinality(rows), ![c].round = @ + 1]
      BY <1>2 DEF StepOnce
    <2> HIDE DEF rows
    <2>3. CASE /\ jobs[c].phase < Len(Phases)
               /\ jobs' = [jobs EXCEPT ![c].pc = "Seed", ![c].phase = @ + 1]
      <3>0. PICK k \in Nat : k = jobs[c].phase + 1
        BY <1>0 DEF JobRecords
      <3> DEFINE n == [jobs[c] EXCEPT !.pc = "Seed", !.phase = k]
      <3>1. /\ n \in JobRecords /\ n.pc = "Seed" /\ n.phase = k
            /\ n.kind = jobs[c].kind /\ n.producer = jobs[c].producer
            /\ n.inferred = jobs[c].inferred /\ n.iterated = jobs[c].iterated
        BY <1>0 DEF JobRecords, Pcs
      <3>2. jobs' = [jobs EXCEPT ![c] = n]
        BY <2>3, <3>0
      <3> HIDE DEF n
      <3>3. QED  BY <1>2, <2>3, <3>0, <3>1, <3>2 DEF JobMoves, Becomes
    <2>4. ASSUME NEW to \in {"Rows", "Write", "Failed"}, Moved(c, to)
          PROVE  \E n : JobMoves(c, n)
      <3>1. to \in Pcs
        BY DEF Pcs
      <3>2. QED  BY <1>2, <2>4, <3>1, MovedJob DEF JobMoves
    <2>5. CASE jobs' = [jobs EXCEPT ![c].before = Cardinality(rows), ![c].round = @ + 1]
      <3>a. PICK m \in Nat : m = Cardinality(rows)
        BY <2>1, RowsCount
      <3>b. PICK k \in Nat : k = jobs[c].round + 1
        BY <1>0 DEF JobRecords
      <3> DEFINE n == [jobs[c] EXCEPT !.before = m, !.round = k]
      <3>1. /\ n \in JobRecords /\ n.pc = jobs[c].pc /\ n.phase = jobs[c].phase
            /\ n.kind = jobs[c].kind /\ n.producer = jobs[c].producer
            /\ n.inferred = jobs[c].inferred /\ n.iterated = jobs[c].iterated
        BY <1>0 DEF JobRecords
      <3>2. jobs' = [jobs EXCEPT ![c] = n]
        BY <2>5, <3>a, <3>b
      <3>3. jobs[c].pc = "Step"
        BY <1>2 DEF StepOnce
      <3> HIDE DEF n
      <3>4. QED  BY <1>2, <3>1, <3>2, <3>3 DEF JobMoves, Becomes
    <2>6. QED  BY <2>2, <2>3, <2>4, <2>5
  <1>3. AfterLast(jobs[c]) \in Pcs
    BY DEF AfterLast, Pcs
  <1>4. CASE ReadRows(c)
    <2> DEFINE read == Fired(Goal, QuadSource(jobs[c]) \cup RowsOf(c))
               n    == [jobs[c] EXCEPT !.pc = AfterLast(jobs[c]), !.read = read]
    <2>1. read \in SUBSET Facts
      BY FiredTyped, ConstantsAssumption DEF Facts
    <2>2. jobs' = [jobs EXCEPT ![c] = n]
      BY <1>4 DEF ReadRows
    <2> HIDE DEF read
    <2>3. /\ n \in JobRecords /\ n.pc = AfterLast(jobs[c])
          /\ n.kind = jobs[c].kind /\ n.producer = jobs[c].producer
          /\ n.inferred = jobs[c].inferred /\ n.iterated = jobs[c].iterated
      BY <1>0, <1>3, <2>1 DEF JobRecords
    <2> HIDE DEF n
    <2>4. QED  BY <1>4, <2>2, <2>3 DEF JobMoves, Becomes
  <1>5. CASE Write(c)
    <2>1. Moved(c, AfterLast(jobs[c]))
      BY <1>5 DEF Write
    <2>2. QED  BY <1>3, <1>5, <2>1, MovedJob DEF JobMoves
  <1>6. CASE CleanUp(c)
    <2>1. Moved(c, "Returned") /\ "Returned" \in Pcs
      BY <1>6 DEF CleanUp, Pcs
    <2>2. QED  BY <1>6, <2>1, MovedJob DEF JobMoves
  <1>7. CASE OwlReset(c)
    <2>1. Moved(c, "Round") /\ "Round" \in Pcs
      BY <1>7 DEF OwlReset, Pcs
    <2>2. QED  BY <1>7, <2>1, MovedJob DEF JobMoves
  <1>8. CASE OwlRound(c)
    <2>1. PICK to \in {"Round", "Returned"} :
             jobs' = [jobs EXCEPT ![c].round = @ + 1, ![c].pc = to]
      BY <1>8 DEF OwlRound
    <2>0. PICK k \in Nat : k = jobs[c].round + 1
      BY <1>0 DEF JobRecords
    <2> DEFINE n == [jobs[c] EXCEPT !.round = k, !.pc = to]
    <2>2. /\ n \in JobRecords /\ n.pc = to
          /\ n.kind = jobs[c].kind /\ n.producer = jobs[c].producer
          /\ n.inferred = jobs[c].inferred /\ n.iterated = jobs[c].iterated
      BY <1>0 DEF JobRecords, Pcs
    <2>3. jobs' = [jobs EXCEPT ![c] = n]
      BY <2>0, <2>1
    <2> HIDE DEF n
    <2>4. QED  BY <1>8, <2>2, <2>3 DEF JobMoves, Becomes
  <1>9. CASE ReadInput(c)
    <2>1. ReasoningInput(jobs[c]) \in SUBSET Facts
      BY <1>0, SourcesTyped
    <2>2. PICK to \in {"Read", "Apply"}, read \in SUBSET Facts, phase \in Nat :
             jobs' = [jobs EXCEPT ![c] = [jobs[c] EXCEPT !.pc = to, !.read = read, !.phase = phase]]
      <3>1. CASE jobs' = [jobs EXCEPT ![c].pc = "Apply", ![c].read = ReasoningInput(jobs[c])]
        <4>1. jobs' = [jobs EXCEPT ![c] = [jobs[c] EXCEPT !.pc = "Apply", !.phase = jobs[c].phase,
                                                          !.read = ReasoningInput(jobs[c])]]
          BY <1>0, <3>1 DEF JobRecords
        <4>2. jobs[c].phase \in Nat
          BY <1>0 DEF JobRecords
        <4>3. QED  BY <2>1, <4>1, <4>2
      <3>2. CASE jobs' = [jobs EXCEPT ![c].phase = @ + 1,
                             ![c].pc = IF jobs[c].phase = Len(Lookups) THEN "Apply" ELSE "Read",
                             ![c].read = @ \cup (Lookups[jobs[c].phase]
                                                   \cap ReasoningInput(jobs[c]))]
        <4> DEFINE to   == IF jobs[c].phase = Len(Lookups) THEN "Apply" ELSE "Read"
                   read == jobs[c].read \cup (Lookups[jobs[c].phase] \cap ReasoningInput(jobs[c]))
        <4>1. to \in {"Read", "Apply"} /\ read \in SUBSET Facts /\ jobs[c].phase + 1 \in Nat
          BY <1>0, <2>1 DEF JobRecords
        <4>2. jobs' = [jobs EXCEPT ![c] = [jobs[c] EXCEPT !.pc = to, !.read = read,
                                                          !.phase = jobs[c].phase + 1]]
          BY <3>2
        <4> HIDE DEF to, read
        <4>3. QED  BY <4>1, <4>2
      <3>3. QED  BY <1>9, <3>1, <3>2 DEF ReadInput
    <2> DEFINE n == [jobs[c] EXCEPT !.pc = to, !.read = read, !.phase = phase]
    <2>3. /\ n \in JobRecords /\ n.pc = to
          /\ n.kind = jobs[c].kind /\ n.producer = jobs[c].producer
          /\ n.inferred = jobs[c].inferred /\ n.iterated = jobs[c].iterated
      BY <1>0, <2>2 DEF JobRecords, Pcs
    <2>4. jobs' = [jobs EXCEPT ![c] = n]
      BY <2>2
    <2> HIDE DEF n
    <2>5. QED  BY <1>9, <2>3, <2>4 DEF JobMoves, Becomes
  <1>10. CASE Apply(c)
    <2>1. Moved(c, "Returned") /\ "Returned" \in Pcs
      BY <1>10 DEF Apply, Pcs
    <2>2. QED  BY <1>10, <2>1, MovedJob DEF JobMoves
  <1>11. QED  BY <1>1, <1>2, <1>4, <1>5, <1>6, <1>7, <1>8, <1>9, <1>10 DEF Job
-----------------------------------------------------------------------------
(***************************************************************************)
(* The work table.                                                         *)
(***************************************************************************)
\* Rows of a run are of a job that iterates, is under way or was cut short.
WorkInv ==
    \A w \in work : jobs[w[1]].iterated /\ jobs[w[1]].pc \notin {"Idle", "Returned"}

\* What JobInv and WorkInv say of one job.
FitJob(n) ==
    /\ n.pc \in {"Seed", "Step"} => n.phase \in 1 .. Len(Phases)
    /\ n.pc \in {"Seed", "Step", "CleaningUp"} => n.iterated
    /\ n.pc \in {"Reset", "Round", "Read", "Apply"} => ~n.iterated
    /\ n.pc \in {"Reset", "Round"} => n.producer = Owl

\* Job c becomes n, and rows of other runs stay as they are.
JobsAfter(c, n) ==
    /\ n \in JobRecords /\ FitJob(n)
    /\ jobs' = [jobs EXCEPT ![c] = n]
    /\ work' \in SUBSET (Jobs \X Rows)
    /\ \A w \in work' : w[1] = c \/ w \in work
    /\ \A w \in work' : w[1] = c => n.iterated /\ n.pc \notin {"Idle", "Returned"}

\* Such a step keeps the invariants of the jobs.
LEMMA JobsKept ==
    ASSUME jobs \in [Jobs -> JobRecords], JobInv, WorkInv, work \in SUBSET (Jobs \X Rows),
           NEW c \in Jobs, NEW n, JobsAfter(c, n)
    PROVE  jobs' \in [Jobs -> JobRecords] /\ JobInv' /\ WorkInv'
  <1>1. /\ jobs' \in [Jobs -> JobRecords]
        /\ jobs'[c] = n /\ \A d \in Jobs : d # c => jobs'[d] = jobs[d]
    BY DEF JobsAfter
  <1>2. JobInv'
    <2>1. ASSUME NEW d \in Jobs
          PROVE  FitJob(jobs'[d])
      <3>1. CASE d = c
        BY <1>1, <3>1 DEF JobsAfter
      <3>2. CASE d # c
        BY <1>1, <3>2 DEF JobInv, FitJob
      <3>3. QED  BY <3>1, <3>2
    <2>2. QED  BY <2>1 DEF JobInv, FitJob
  <1>3. ASSUME NEW w \in work'
        PROVE  jobs'[w[1]].iterated /\ jobs'[w[1]].pc \notin {"Idle", "Returned"}
    <2>1. CASE w[1] = c
      BY <1>1, <2>1 DEF JobsAfter
    <2>2. CASE w[1] # c
      <3>1. w \in work /\ w[1] \in Jobs
        BY <2>2 DEF JobsAfter
      <3>2. QED  BY <1>1, <2>2, <3>1 DEF WorkInv
    <2>3. QED  BY <2>1, <2>2
  <1>4. QED  BY <1>1, <1>2, <1>3 DEF WorkInv

\* The step of a job.
LEMMA JobKeepsJobs ==
    ASSUME TablesOK, jobs \in [Jobs -> JobRecords], JobInv, WorkInv, NEW c \in Jobs, Job(c)
    PROVE  \E n : JobsAfter(c, n)
  <1>1. PICK n : JobMoves(c, n)
    BY JobGoesOn
  <1>2. /\ n \in JobRecords /\ jobs' = [jobs EXCEPT ![c] = n]
        /\ n.producer = jobs[c].producer /\ n.iterated = jobs[c].iterated
    BY <1>1 DEF JobMoves, Becomes
  <1>3. /\ FitJob(jobs[c]) /\ work \in SUBSET (Jobs \X Rows)
        /\ \A w \in work : w[1] = c => jobs[c].iterated /\ jobs[c].pc \notin {"Idle", "Returned"}
        /\ Len(Phases) \in Nat /\ jobs[c].phase \in Nat
    BY ConstantsAssumption DEF FitJob, JobInv, WorkInv, TablesOK, JobRecords
  <1>4. ASSUME work' = work, FitJob(n), jobs[c].iterated => n.pc \notin {"Idle", "Returned"}
        PROVE  JobsAfter(c, n)
    BY <1>2, <1>3, <1>4 DEF JobsAfter
  <1>5. ASSUME NEW rows \in SUBSET Rows, work' = WorkOf(c, rows), FitJob(n), jobs[c].iterated,
               n.pc \notin {"Idle", "Returned"}
        PROVE  JobsAfter(c, n)
    <2>1. work' \in SUBSET (Jobs \X Rows)
      BY <1>5, WorkTyped
    <2>2. \A w \in work' : w[1] = c \/ w \in work
      BY <1>5 DEF WorkOf
    <2>3. QED  BY <1>2, <1>5, <2>1, <2>2 DEF JobsAfter
  <1>6. \A i \in 1 .. Len(Phases) : /\ Phases[i].seed \in Seq(Statements(Rows))
                                    /\ Phases[i].step \in Seq(Statements(Rows))
    BY PhasesTyped
  <1>7. CASE Seed(c) /\ n.pc = "Step" /\ n.phase = jobs[c].phase
    <2>1. jobs[c].pc = "Seed"
      BY <1>7 DEF Seed
    <2>2. PICK rows \in SUBSET Rows : work' = WorkOf(c, rows)
      <3> DEFINE rows == Grown(c, Phases[jobs[c].phase].seed,
                               IF jobs[c].phase = 1 THEN {} ELSE RowsOf(c))
      <3>1. rows \in SUBSET Rows
        BY <1>3, <1>6, <2>1, RowsTyped, InsertedWithin DEF Grown, FitJob
      <3>2. work' = WorkOf(c, rows)
        BY <1>7 DEF Seed
      <3>3. QED  BY <3>1, <3>2
    <2>3. FitJob(n) /\ jobs[c].iterated
      BY <1>2, <1>3, <1>7, <2>1 DEF FitJob
    <2>4. QED  BY <1>5, <1>7, <2>2, <2>3
  <1>8. CASE StepOnce(c) /\ \/ n.pc = "Seed" /\ n.phase = jobs[c].phase + 1
                                             /\ jobs[c].phase < Len(Phases)
                            \/ n.pc = "Step" /\ n.phase = jobs[c].phase
                            \/ n.pc \in {"Rows", "Write", "Failed"}
    <2>1. jobs[c].pc = "Step"
      BY <1>8 DEF StepOnce
    <2>2. PICK rows \in SUBSET Rows : work' = WorkOf(c, rows)
      <3> DEFINE rows == Grown(c, Phases[jobs[c].phase].step, RowsOf(c))
      <3>1. rows \in SUBSET Rows
        BY <1>3, <1>6, <2>1, RowsTyped, InsertedWithin DEF Grown, FitJob
      <3>2. work' = WorkOf(c, rows)
        BY <1>8 DEF StepOnce
      <3>3. QED  BY <3>1, <3>2
    <2>3. FitJob(n) /\ jobs[c].iterated /\ n.pc \notin {"Idle", "Returned"}
      BY <1>2, <1>3, <1>8, <2>1 DEF FitJob
    <2>4. QED  BY <1>5, <2>2, <2>3
  <1>9. CASE (ReadRows(c) \/ Write(c)) /\ n.pc = AfterLast(jobs[c])
    <2>1. work' = work
      BY <1>9 DEF ReadRows, Write
    <2>2. FitJob(n) /\ (jobs[c].iterated => n.pc \notin {"Idle", "Returned"})
      BY <1>2, <1>3, <1>9 DEF FitJob, AfterLast
    <2>3. QED  BY <1>4, <2>1, <2>2
  <1>10. CASE CleanUp(c) /\ n.pc = "Returned"
    <2>1. work' = {w \in work : w[1] # c}
      BY <1>10 DEF CleanUp
    <2>2. FitJob(n)
      BY <1>10 DEF FitJob
    <2>3. QED  BY <1>2, <1>3, <2>1, <2>2 DEF JobsAfter
  <1>11. CASE \/ OwlReset(c) /\ n.pc = "Round"
              \/ OwlRound(c) /\ n.pc \in {"Round", "Returned"}
              \/ ReadInput(c) /\ n.pc \in {"Read", "Apply"}
              \/ Apply(c) /\ n.pc = "Returned"
    <2>1. work' = work /\ jobs[c].pc \in {"Reset", "Round", "Read", "Apply"}
      BY <1>11 DEF OwlReset, OwlRound, ReadInput, Apply
    <2>2. n.pc = "Round" => jobs[c].pc \in {"Reset", "Round"}
      BY <1>11 DEF OwlReset, OwlRound
    <2>3. FitJob(n) /\ ~jobs[c].iterated
      BY <1>2, <1>3, <1>11, <2>1, <2>2 DEF FitJob
    <2>4. QED  BY <1>4, <2>1, <2>3
  <1>12. QED  BY <1>1, <1>7, <1>8, <1>9, <1>10, <1>11 DEF JobMoves

\* A job that starts, under an id no row of the work table has.
LEMMA StartKeepsJobs ==
    ASSUME TablesOK, jobs \in [Jobs -> JobRecords], JobInv, WorkInv, NEW c \in Jobs,
           StartQuery(c) \/ StartRules(c) \/ StartOwl(c) \/ StartEngine(c)
    PROVE  /\ \E n : JobsAfter(c, n)
           /\ UNCHANGED <<quads, inferred, source, named, derived>>
  <1>1. PICK kind \in Kinds, p \in Producers, include \in BOOLEAN, iterated \in BOOLEAN, pc \in Pcs :
           /\ Start(c, kind, p, include, iterated, pc)
           /\ pc = "Seed" => iterated
           /\ pc \in {"Reset", "Read"} => ~iterated
           /\ pc = "Reset" => p = Owl
           /\ pc \in {"Seed", "Rows", "Write", "Reset", "Read"}
    <2>1. "query" \in Kinds /\ "rules" \in Kinds /\ "owl" \in Kinds /\ "n3" \in Kinds
              /\ "elpi" \in Kinds /\ Owl \in Producers
      BY ConstantsAssumption DEF Kinds
    <2>2. \A s \in {"Seed", "Rows", "Write", "Reset", "Read"} : s \in Pcs
      BY DEF Pcs
    <2>3. CASE StartQuery(c)
      BY <2>1, <2>2, <2>3 DEF StartQuery
    <2>4. CASE StartRules(c)
      BY <2>1, <2>2, <2>4 DEF StartRules
    <2>5. CASE StartOwl(c)
      BY <2>1, <2>2, <2>5 DEF StartOwl
    <2>6. CASE StartEngine(c)
      BY <2>1, <2>2, <2>6 DEF StartEngine
    <2>7. QED  BY <2>3, <2>4, <2>5, <2>6
  <1> DEFINE n == [NoJob EXCEPT !.kind = kind, !.pc = pc, !.producer = p, !.inferred = include,
                                !.iterated = iterated]
  <1>2. /\ n \in JobRecords /\ n.pc = pc /\ n.phase = 1 /\ n.producer = p /\ n.iterated = iterated
    BY DEF NoJob, JobRecords
  <1>3. /\ jobs' = [jobs EXCEPT ![c] = n] /\ jobs[c].pc = "Idle"
        /\ UNCHANGED <<quads, inferred, source, named, work, derived>>
    <2>1. c >= c
      BY DEF Jobs
    <2>2. QED  BY <1>1, <2>1 DEF Start
  <1> HIDE DEF n
  <1>4. Len(Phases) \in Nat /\ Len(Phases) # 0
    BY ConstantsAssumption
  <1>5. FitJob(n)
    BY <1>1, <1>2, <1>4 DEF FitJob
  <1>6. \A w \in work : w[1] # c
    BY <1>3 DEF WorkInv
  <1>7. JobsAfter(c, n)
    BY <1>2, <1>3, <1>5, <1>6 DEF JobsAfter, TablesOK
  <1>8. QED  BY <1>3, <1>7

\* A job that ends early: its rows stay.
LEMMA AbandonKeepsJobs ==
    ASSUME TablesOK, jobs \in [Jobs -> JobRecords], WorkInv, NEW c \in Jobs, Abandon(c)
    PROVE  \E n : JobsAfter(c, n)
  <1>1. Moved(c, "Failed") /\ work' = work /\ "Failed" \in Pcs
    BY DEF Abandon, Pcs
  <1>2. PICK n : Becomes(c, n) /\ n.pc = "Failed" /\ n.phase = jobs[c].phase
    BY <1>1, MovedJob
  <1>3. FitJob(n)
    BY <1>2 DEF FitJob
  <1>4. QED  BY <1>1, <1>2, <1>3 DEF JobsAfter, Becomes, WorkInv, TablesOK
-----------------------------------------------------------------------------
(***************************************************************************)
(* The invariant, and the theorems.                                        *)
(***************************************************************************)
\* The inductive invariant.
IInv == Types /\ WorkInv /\ Attributed(Tables) /\ source \subseteq derived

\* What the tables of inferences lose at a step is of one producer p, whose step it is.
LosesOf(p) ==
    /\ \A s \in source : s \notin source' => s[1] = p
    /\ source' = source \/ StepOf(p)

\* The step of a job that changes the tables of inferences moves the job.
LEMMA JobSteps ==
    ASSUME jobs \in [Jobs -> JobRecords], NEW c \in Jobs, Job(c)
    PROVE  source' = source \/ jobs'[c] # jobs[c]
  <1>1. CASE Seed(c) \/ StepOnce(c) \/ ReadRows(c) \/ CleanUp(c) \/ ReadInput(c)
    BY <1>1 DEF Seed, StepOnce, ReadRows, CleanUp, ReadInput
  <1>2. CASE Write(c)
    <2>1. jobs[c].pc = "Write" /\ Moved(c, AfterLast(jobs[c]))
      BY <1>2 DEF Write
    <2>2. jobs'[c].pc \in {"CleaningUp", "Returned"}
      BY <2>1 DEF Moved, AfterLast, JobRecords
    <2>3. QED  BY <2>1, <2>2
  <1>3. CASE Apply(c)
    <2>1. jobs[c].pc = "Apply" /\ Moved(c, "Returned")
      BY <1>3 DEF Apply
    <2>2. jobs'[c].pc = "Returned"
      BY <2>1 DEF Moved, JobRecords
    <2>3. QED  BY <2>1, <2>2
  <1>4. CASE OwlReset(c)
    <2>1. jobs[c].pc = "Reset" /\ Moved(c, "Round")
      BY <1>4 DEF OwlReset
    <2>2. jobs'[c].pc = "Round"
      BY <2>1 DEF Moved, JobRecords
    <2>3. QED  BY <2>1, <2>2
  <1>5. CASE OwlRound(c)
    <2>1. PICK to : jobs' = [jobs EXCEPT ![c].round = @ + 1, ![c].pc = to]
      BY <1>5 DEF OwlRound
    <2>2. jobs'[c].round = jobs[c].round + 1 /\ jobs[c].round \in Nat
      BY <2>1 DEF JobRecords
    <2>3. QED  BY <2>2
  <1>6. QED  BY <1>1, <1>2, <1>3, <1>4, <1>5 DEF Job

\* A step keeps the invariant and, short of clearing everything, takes
\* conclusions of one producer.
LEMMA StepKeeps ==
    ASSUME IInv, Step, disturbed' = Disturbed
    PROVE  /\ IInv'
           /\ ~(ClearInferences \/ Clear) => \E p \in Producers : LosesOf(p)
  <1>0. /\ TablesOK /\ jobs \in [Jobs -> JobRecords] /\ JobInv /\ WorkInv /\ Attributed(Tables)
        /\ Owl \in Producers /\ source \subseteq derived
        /\ IsTable(Tables) /\ Tables.inferred = inferred /\ Tables.source = source
    BY TablesTyped, ConstantsAssumption DEF IInv, Types
  <1>1. disturbed' \in SUBSET Jobs
    BY DEF Disturbed
  <1>2. ASSUME UNCHANGED <<inferred, source, derived>>
        PROVE  DerivedAfter /\ \A p : TablesAfter(p)
    BY <1>0, <1>2 DEF TablesAfter, DerivedAfter, TablesOK, Attributed, Claims, Tables
  <1>3. ASSUME NEW p, TablesAfter(p), DerivedAfter, quads' \in SUBSET Quads,
               named' \in SUBSET Producers,
               work' \in SUBSET (Jobs \X Rows), jobs' \in [Jobs -> JobRecords], JobInv', WorkInv'
        PROVE  IInv'
    BY <1>1, <1>3 DEF IInv, Types, TablesOK, TablesAfter, DerivedAfter
  <1>4. ASSUME NEW c \in Jobs, NEW p \in Producers, TablesAfter(p), DerivedAfter,
               \E n : JobsAfter(c, n), quads' = quads, named' \in SUBSET Producers,
               source' = source \/ StepOf(p)
        PROVE  IInv' /\ LosesOf(p)
    <2>1. PICK n : JobsAfter(c, n)
      BY <1>4
    <2>2. jobs' \in [Jobs -> JobRecords] /\ JobInv' /\ WorkInv'
      BY <1>0, <2>1, JobsKept DEF TablesOK
    <2>3. IInv'
      BY <1>0, <1>3, <1>4, <2>1, <2>2 DEF JobsAfter, TablesOK
    <2>4. QED  BY <1>4, <2>3 DEF LosesOf, TablesAfter
  <1>5. ASSUME NEW p \in Producers, TablesAfter(p), DerivedAfter, quads' \in SUBSET Quads,
               named' \in SUBSET Producers, UNCHANGED <<work, jobs>>, source' = source \/ StepOf(p)
        PROVE  IInv' /\ LosesOf(p)
    <2>1. JobInv' /\ WorkInv'
      BY <1>0, <1>5 DEF JobInv, WorkInv
    <2>2. QED  BY <1>0, <1>3, <1>5, <2>1 DEF LosesOf, TablesAfter, TablesOK
  <1>6. ASSUME NEW c \in Jobs, StartQuery(c) \/ StartRules(c) \/ StartOwl(c) \/ StartEngine(c)
        PROVE  IInv' /\ \E p \in Producers : LosesOf(p)
    <2>1. (\E n : JobsAfter(c, n)) /\ UNCHANGED <<quads, inferred, source, named, derived>>
      BY <1>0, <1>6, StartKeepsJobs
    <2>2. TablesAfter(Owl) /\ DerivedAfter
      BY <1>2, <2>1
    <2>3. IInv' /\ LosesOf(Owl)
      BY <1>0, <1>4, <2>1, <2>2 DEF TablesOK
    <2>4. QED  BY <1>0, <2>3
  <1>7. ASSUME NEW c \in Jobs, Job(c)
        PROVE  IInv' /\ \E p \in Producers : LosesOf(p)
    <2>1. jobs[c].producer \in Producers
      BY <1>0 DEF JobRecords
    <2>2. TablesAfter(jobs[c].producer) /\ DerivedAfter /\ \E n : JobsAfter(c, n)
      BY <1>0, <1>7, JobTables, JobDerives, JobKeepsJobs
    <2>3. quads' = quads
      BY <1>7 DEF Job, Seed, StepOnce, ReadRows, Write, CleanUp, OwlReset, OwlRound, ReadInput, Apply
    <2>4. named' = named \/ named' = named \cup {jobs[c].producer} \/ named' = named \cup {Owl}
      BY <1>7 DEF Job, Seed, StepOnce, ReadRows, Write, CleanUp, OwlReset, OwlRound, ReadInput, Apply
    <2>5. named' \in SUBSET Producers
      BY <1>0, <2>1, <2>4 DEF TablesOK
    <2>6. source' = source \/ StepOf(jobs[c].producer)
      BY <1>0, <1>7, JobSteps DEF StepOf
    <2>7. QED  BY <1>4, <2>1, <2>2, <2>3, <2>5, <2>6
  <1>8. ASSUME NEW c \in Jobs, Abandon(c)
        PROVE  IInv' /\ \E p \in Producers : LosesOf(p)
    <2>1. (\E n : JobsAfter(c, n)) /\ UNCHANGED <<quads, inferred, source, named, derived>>
      BY <1>0, <1>8, AbandonKeepsJobs DEF Abandon
    <2>2. TablesAfter(Owl) /\ DerivedAfter
      BY <1>2, <2>1
    <2>3. IInv' /\ LosesOf(Owl)
      BY <1>0, <1>4, <2>1, <2>2 DEF TablesOK
    <2>4. QED  BY <1>0, <2>3
  <1>9. CASE WriteQuad
    <2>1. UNCHANGED <<work, jobs, inferred, source, named, derived>> /\ quads' \in SUBSET Quads
      BY <1>0, <1>9 DEF WriteQuad, Called, TablesOK
    <2>2. TablesAfter(Owl) /\ DerivedAfter
      BY <1>2, <2>1
    <2>3. IInv' /\ LosesOf(Owl)
      BY <1>0, <1>5, <2>1, <2>2 DEF TablesOK
    <2>4. QED  BY <1>0, <2>3
  <1>10. CASE ClearInferences \/ Clear
    <2>1. /\ UNCHANGED <<work, jobs>> /\ inferred' = {} /\ source' = {} /\ derived' = {}
          /\ quads' \in SUBSET Quads /\ named' \in SUBSET Producers
      BY <1>0, <1>10 DEF ClearInferences, Clear, Called, Applied, TablesOK
    <2>2. Attributed(Tables)' /\ JobInv' /\ WorkInv'
      BY <1>0, <2>1 DEF Attributed, Claims, Tables, JobInv, WorkInv
    <2>3. IInv'
      BY <1>0, <1>1, <2>1, <2>2 DEF IInv, Types, TablesOK
    <2>4. QED  BY <1>10, <2>3
  <1>11. ASSUME NEW p \in Producers, ClearInferencesOf(p)
         PROVE  IInv' /\ LosesOf(p)
    <2>1. /\ UNCHANGED <<work, jobs, quads>> /\ named' = named \cup {p}
          /\ Applied(Reset(Tables, p)) /\ Derives(p, {}) /\ StepOf(p)
      BY <1>11 DEF ClearInferencesOf, Called, StepOf
    <2>2. TablesAfter(p)
      BY <1>0, <2>1, ResetTyped, ResetAttributes, AppliedTables
    <2>3. DerivedAfter
      BY <1>0, <2>1, ResetDerives
    <2>4. QED  BY <1>0, <1>5, <2>1, <2>2, <2>3 DEF TablesOK
  <1>12. QED  BY <1>6, <1>7, <1>8, <1>9, <1>10, <1>11 DEF Step

\* Initially there is no inference, no row and no job.
LEMMA InitKeeps ==
    ASSUME Init
    PROVE  IInv
  <1>1. NoJob \in JobRecords /\ NoJob.pc = "Idle"
    BY ConstantsAssumption DEF NoJob, JobRecords, Pcs
  <1>2. jobs \in [Jobs -> JobRecords] /\ \A c \in Jobs : jobs[c].pc = "Idle"
    BY <1>1 DEF Init
  <1>3. TablesOK
    BY ConstantsAssumption DEF Init, TablesOK
  <1>4. JobInv /\ WorkInv /\ Attributed(Tables)
    BY <1>2 DEF Init, JobInv, WorkInv, Attributed, Claims, Tables
  <1>5. QED  BY <1>2, <1>3, <1>4 DEF IInv, Types, Init

\* A step that changes nothing.
LEMMA StutterKeeps ==
    ASSUME IInv, UNCHANGED vars
    PROVE  IInv'
  <1>1. UNCHANGED <<quads, inferred, source, named, work, jobs, derived, disturbed>>
    BY DEF vars
  <1>2. QED  BY <1>1 DEF IInv, Types, TablesOK, JobInv, WorkInv, Attributed, Claims, Tables

\* The invariant holds for every program, every set of producers and any
\* number of jobs.
LEMMA Invariant == Spec => []IInv
  <1>1. ASSUME IInv, [Next]_vars
        PROVE  IInv'
    BY <1>1, StepKeeps, StutterKeeps DEF Next
  <1>2. QED  BY <1>1, InitKeeps, PTL DEF Spec

\* The tables keep their types.
THEOREM InferencesTypeCorrect == Spec => []TypeOK
  <1>1. ASSUME IInv
        PROVE  TypeOK
    <2>1. \A c \in Jobs : jobs[c] \in JobRecords
      BY <1>1 DEF IInv, Types
    <2>2. QED  BY <1>1, <2>1 DEF IInv, Types, TablesOK, TypeOK, JobRecords
  <1>2. QED  BY <1>1, Invariant, PTL

\* Every materialized inference has exactly one producer, which derived it in
\* its last run, and an evaluation that returned left no row in the work table (inference_reset,
\* inference_attribute, the cleanup of DatalogJob and MaterializeJob), however
\* any number of evaluations, clears and failures interleave.
THEOREM InferencesHaveTheirProducer == Spec => []TablesAreAttributed
  <1>1. ASSUME IInv
        PROVE  TablesAreAttributed
    <2>1. EveryInferenceHasItsProducer
      <3>1. /\ \A s \in source : s[2] \in inferred
            /\ \A s, t \in source : s[2] = t[2] => s[1] = t[1]
            /\ \A q \in inferred : \E s \in source : s[2] = q
        BY <1>1 DEF IInv, Attributed, Claims, Tables
      <3>2. inferred = {s[2] : s \in source}
        BY <3>1
      <3>3. QED  BY <3>1, <3>2 DEF EveryInferenceHasItsProducer
    <2>2. ReturnedRunsLeaveNothing
      BY <1>1 DEF IInv, WorkInv, ReturnedRunsLeaveNothing, RowsOf
    <2>3. ProducersDerived
      BY <1>1 DEF IInv, ProducersDerived
    <2>4. QED  BY <2>1, <2>2, <2>3 DEF TablesAreAttributed
  <1>2. QED  BY <1>1, Invariant, PTL

\* A producer is recomputed without discarding the others' conclusions: short of
\* clearing everything, an inference goes only by a step of the producer that claims
\* it, which did derive it: neither what only others derived goes, nor what others
\* derived before (inference_reset, inference_attribute).
THEOREM RecomputingOneKeepsOthers == Spec => OthersConclusionsStay
  <1>1. ASSUME IInv, Next, ~(ClearInferences \/ Clear), NEW q \in inferred \ inferred'
        PROVE  \E p \in Producers : <<p, q>> \in derived \cap source /\ StepOf(p)
    <2>1. IInv' /\ \E p \in Producers : LosesOf(p)
      BY <1>1, StepKeeps DEF Next
    <2>2. PICK p \in Producers : LosesOf(p)
      BY <2>1
    <2>3. PICK s \in source : s[2] = q
      BY <1>1 DEF IInv, Attributed, Tables
    <2>4. s \notin source'
      BY <1>1, <2>1, <2>3 DEF IInv, Attributed, Claims, Tables
    <2>5. s[1] = p /\ StepOf(p)
      BY <2>2, <2>4 DEF LosesOf
    <2>6. s \in derived \cap source /\ s = <<p, q>>
      BY <1>1, <2>3, <2>5 DEF IInv, Types, TablesOK
    <2>7. QED  BY <2>5, <2>6
  <1>2. ASSUME IInv, Next, ~(ClearInferences \/ Clear)
        PROVE  \A q \in inferred \ inferred' :
                  \E p \in Producers : <<p, q>> \in derived \cap source /\ StepOf(p)
    BY <1>1, <1>2
  <1>3. QED  BY <1>2, Invariant, PTL DEF Spec, OthersConclusionsStay
=============================================================================
