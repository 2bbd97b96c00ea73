-------------------------- MODULE InferencesAnswers -------------------------
(***************************************************************************)
(* Evaluations that nothing disturbs are exact, for every stratified       *)
(* program, every set of rules of OWL and of an engine, and any number of  *)
(* jobs: rounds of statements reach the least model.                       *)
(***************************************************************************)
EXTENDS InferencesProofs

-----------------------------------------------------------------------------
(***************************************************************************)
(* Statements that run one after the other, without their recursion.       *)
(***************************************************************************)
\* Each statement sees some rows on the way from the first to the last, and what
\* it fires on them is among the last.
LEMMA InsertedFires ==
    ASSUME NEW stmts, Len(stmts) \in Nat, NEW facts, NEW rows, NEW except
    PROVE  /\ rows \subseteq Inserted(stmts, facts, rows, except)
           /\ \A k \in 1 .. Len(stmts) : \E mid :
                 /\ rows \subseteq mid /\ mid \subseteq Inserted(stmts, facts, rows, except)
                 /\ Fired(stmts[k], facts \cup mid) \ except
                       \subseteq Inserted(stmts, facts, rows, except)
  <1> DEFINE m == Len(stmts)
  <1>1. PICK f : /\ Ran(f, m, stmts, facts, rows, except)
                 /\ Inserted(stmts, facts, rows, except) = f[m]
    BY InsertedRuns
  <1>2. m \in Nat /\ f[0] = rows
    BY <1>1 DEF Ran
  <1>3. ASSUME NEW k \in 1 .. m
        PROVE  f[k] = f[k - 1] \cup (Fired(stmts[k], facts \cup f[k - 1]) \ except)
    <2>1. k \in 0 .. m /\ k # 0
      BY <1>2
    <2>2. QED  BY <1>1, <2>1 DEF Ran
  <1> HIDE DEF m
  <1>4. ASSUME NEW k \in 0 .. m
        PROVE  rows \subseteq f[k]
    <2> DEFINE bad == {j \in Nat : j <= m /\ ~(rows \subseteq f[j])}
    <2>1. ASSUME bad # {}
          PROVE  FALSE
      <3>1. PICK j \in bad : \A i \in bad : j <= i
        BY <2>1, LeastNatural
      <3>2. j # 0
        BY <1>2
      <3>3. j \in 1 .. m /\ j - 1 \in Nat /\ j - 1 <= m /\ ~(j <= j - 1)
        BY <1>2, <3>2
      <3>4. rows \subseteq f[j - 1]
        BY <3>1, <3>3
      <3>5. QED  BY <1>3, <3>3, <3>4
    <2>2. k \in Nat /\ k <= m
      BY <1>2
    <2>3. QED  BY <2>1, <2>2
  <1>5. ASSUME NEW k \in 0 .. m
        PROVE  f[k] \subseteq f[m]
    <2> DEFINE bad == {j \in Nat : j <= m /\ ~(f[m - j] \subseteq f[m])}
    <2>1. ASSUME bad # {}
          PROVE  FALSE
      <3>1. PICK j \in bad : \A i \in bad : j <= i
        BY <2>1, LeastNatural
      <3>2. j # 0
        BY <1>2
      <3>3. j - 1 \in Nat /\ j - 1 <= m /\ ~(j <= j - 1)
        BY <1>2, <3>2
      <3>4. f[m - (j - 1)] \subseteq f[m]
        BY <3>1, <3>3
      <3>5. PICK n \in 1 .. m : n = m - (j - 1) /\ n - 1 = m - j
        BY <1>2, <3>2
      <3>6. f[n - 1] \subseteq f[n]
        BY <1>3
      <3>7. QED  BY <3>4, <3>5, <3>6
    <2>2. PICK j \in Nat : j <= m /\ k = m - j
      BY <1>2
    <2>3. QED  BY <2>1, <2>2
  <1>6. ASSUME NEW k \in 1 .. m
        PROVE  \E mid : /\ rows \subseteq mid /\ mid \subseteq f[m]
                        /\ Fired(stmts[k], facts \cup mid) \ except \subseteq f[m]
    <2>1. k - 1 \in 0 .. m /\ k \in 0 .. m
      BY <1>2
    <2>2. rows \subseteq f[k - 1] /\ f[k - 1] \subseteq f[m] /\ f[k] \subseteq f[m]
      BY <1>4, <1>5, <2>1
    <2>3. Fired(stmts[k], facts \cup f[k - 1]) \ except \subseteq f[m]
      BY <1>3, <2>2
    <2>4. QED  BY <2>2, <2>3
  <1>7. m \in 0 .. m
    BY <1>2
  <1>8. rows \subseteq f[m]
    BY <1>4, <1>7
  <1>9. QED  BY <1>1, <1>6, <1>8 DEF m

\* A bound that no statement leaves is a bound of the last rows.
LEMMA InsertedBound ==
    ASSUME NEW stmts, Len(stmts) \in Nat, NEW facts, NEW rows, NEW except,
           NEW bound, rows \subseteq bound,
           \A k \in 1 .. Len(stmts) : \A mid :
              rows \subseteq mid /\ mid \subseteq bound
                 => Fired(stmts[k], facts \cup mid) \ except \subseteq bound
    PROVE  Inserted(stmts, facts, rows, except) \subseteq bound
  <1> DEFINE m == Len(stmts)
  <1>1. PICK f : /\ Ran(f, m, stmts, facts, rows, except)
                 /\ Inserted(stmts, facts, rows, except) = f[m]
    BY InsertedRuns
  <1>2. m \in Nat /\ f[0] = rows
    BY <1>1 DEF Ran
  <1>3. ASSUME NEW k \in 1 .. m
        PROVE  f[k] = f[k - 1] \cup (Fired(stmts[k], facts \cup f[k - 1]) \ except)
    <2>1. k \in 0 .. m /\ k # 0
      BY <1>2
    <2>2. QED  BY <1>1, <2>1 DEF Ran
  <1>4. ASSUME NEW k \in 1 .. m, NEW mid, rows \subseteq mid, mid \subseteq bound
        PROVE  Fired(stmts[k], facts \cup mid) \ except \subseteq bound
    BY <1>4
  <1> HIDE DEF m
  <1> DEFINE bad == {j \in Nat : j <= m /\ ~(rows \subseteq f[j] /\ f[j] \subseteq bound)}
  <1>5. ASSUME bad # {}
        PROVE  FALSE
    <2>1. PICK j \in bad : \A i \in bad : j <= i
      BY <1>5, LeastNatural
    <2>2. j # 0
      BY <1>2
    <2>3. j \in 1 .. m /\ j - 1 \in Nat /\ j - 1 <= m /\ ~(j <= j - 1)
      BY <1>2, <2>2
    <2>4. rows \subseteq f[j - 1] /\ f[j - 1] \subseteq bound
      BY <2>1, <2>3
    <2>5. Fired(stmts[j], facts \cup f[j - 1]) \ except \subseteq bound
      BY <1>4, <2>3, <2>4
    <2>6. QED  BY <1>3, <2>3, <2>4, <2>5
  <1>6. m \in Nat /\ m <= m
    BY <1>2
  <1>7. f[m] \subseteq bound
    BY <1>5, <1>6
  <1>8. QED  BY <1>1, <1>7
-----------------------------------------------------------------------------
(***************************************************************************)
(* The least set closed under rules.                                       *)
(***************************************************************************)
\* What follows from facts is closed under positive rules.
LEMMA FollowsClosed ==
    ASSUME NEW rules, \A r \in rules : r.absent = {}, NEW facts,
           NEW r \in rules, r.body \subseteq facts \cup Follows(rules, facts)
    PROVE  r.head \in facts \cup Follows(rules, facts)
  <1> DEFINE over == {x.head : x \in rules} \ facts
  <1>1. CASE r.head \in facts
    BY <1>1
  <1>2. CASE r.head \notin facts
    <2>1. r.head \in over
      BY <1>2
    <2>2. ASSUME NEW s \in SUBSET over, Closed(rules, facts \cup s)
          PROVE  r.head \in s
      <3>1. Follows(rules, facts) \subseteq s
        BY <2>2 DEF Follows
      <3>2. Fires(r, facts \cup s)
        BY <3>1 DEF Fires
      <3>3. QED  BY <1>2, <2>2, <3>2 DEF Closed
    <2>3. r.head \in Follows(rules, facts)
      BY <2>1, <2>2 DEF Follows
    <2>4. QED  BY <2>3
  <1>3. QED  BY <1>1, <1>2

\* And in every closed set that holds the facts.
LEMMA FollowsLeast ==
    ASSUME NEW rules, \A r \in rules : r.absent = {}, NEW facts, NEW set, facts \subseteq set,
           \A r \in rules : r.body \subseteq set => r.head \in set
    PROVE  Follows(rules, facts) \subseteq set
  <1> DEFINE over == {x.head : x \in rules} \ facts
             s    == over \cap set
  <1>1. Closed(rules, facts \cup s)
    <2>1. ASSUME NEW r \in rules, Fires(r, facts \cup s)
          PROVE  r.head \in facts \cup s
      <3>1. r.body \subseteq set
        BY <2>1 DEF Fires
      <3>2. r.head \in set
        BY <3>1
      <3>3. QED  BY <3>2
    <2>2. QED  BY <2>1 DEF Closed
  <1>2. \A f \in Follows(rules, facts) : f \in s
    BY <1>1 DEF Follows
  <1>3. QED  BY <1>2
-----------------------------------------------------------------------------
(***************************************************************************)
(* The model of a program.                                                 *)
(***************************************************************************)
\* A component adds to what is below it heads of its rules only, and is closed
\* under them.
LEMMA LeastIsLeast ==
    ASSUME NEW n, NEW below, NEW heads, RulesOf(n) \in Statements(heads)
    PROVE  /\ below \subseteq Least(n, below) /\ Least(n, below) \subseteq below \cup Heads(n)
           /\ \A r \in RulesOf(n) : r.absent \cap below = {} /\ r.body \subseteq Least(n, below)
                                      => r.head \in Least(n, below)
  <1> DEFINE rules == {r \in RulesOf(n) : r.absent \cap below = {}}
             pos(r) == [r EXCEPT !.absent = {}]
             positive == {pos(r) : r \in rules}
  <1>1. ASSUME NEW r \in RulesOf(n)
        PROVE  pos(r).head = r.head /\ pos(r).body = r.body /\ pos(r).absent = {}
    <2>1. r \in [head : heads, body : SUBSET Facts, absent : SUBSET Facts]
      BY DEF Statements
    <2>2. QED  BY <2>1
  <1>2. Least(n, below) = below \cup Follows(positive, below)
    BY DEF Least
  <1> HIDE DEF pos
  <1>3. \A x \in positive : x.absent = {} /\ \E r \in rules : x = pos(r)
    BY <1>1
  <1>4. \A r \in rules : pos(r) \in positive /\ r \in RulesOf(n)
    OBVIOUS
  <1>5. Follows(positive, below) \subseteq {x.head : x \in positive}
    BY DEF Follows
  <1>6. {x.head : x \in positive} \subseteq Heads(n)
    BY <1>1, <1>3, <1>4 DEF Heads
  <1> HIDE DEF positive
  <1>7. ASSUME NEW r \in RulesOf(n), r.absent \cap below = {}, r.body \subseteq Least(n, below)
        PROVE  r.head \in Least(n, below)
    <2>1. r \in rules
      BY <1>7
    <2>2. pos(r).body \subseteq below \cup Follows(positive, below)
      BY <1>1, <1>2, <1>7
    <2>3. pos(r).head \in below \cup Follows(positive, below)
      BY <1>3, <1>4, <2>1, <2>2, FollowsClosed
    <2>4. QED  BY <1>1, <1>2, <2>3
  <1>8. QED  BY <1>2, <1>5, <1>6, <1>7

\* It is within every set above below that its rules do not leave.
LEMMA LeastBound ==
    ASSUME NEW n, NEW below, NEW heads, RulesOf(n) \in Statements(heads), NEW set, below \subseteq set,
           \A r \in RulesOf(n) : r.absent \cap below = {} /\ r.body \subseteq set => r.head \in set
    PROVE  Least(n, below) \subseteq set
  <1> DEFINE rules == {r \in RulesOf(n) : r.absent \cap below = {}}
             pos(r) == [r EXCEPT !.absent = {}]
             positive == {pos(r) : r \in rules}
  <1>1. ASSUME NEW r \in RulesOf(n)
        PROVE  pos(r).head = r.head /\ pos(r).body = r.body /\ pos(r).absent = {}
    <2>1. r \in [head : heads, body : SUBSET Facts, absent : SUBSET Facts]
      BY DEF Statements
    <2>2. QED  BY <2>1
  <1>2. Least(n, below) = below \cup Follows(positive, below)
    BY DEF Least
  <1> HIDE DEF pos
  <1>3. \A x \in positive : x.absent = {} /\ \E r \in rules : x = pos(r)
    BY <1>1
  <1> HIDE DEF positive
  <1>4. ASSUME NEW x \in positive, x.body \subseteq set
        PROVE  x.head \in set
    <2>1. PICK r \in rules : x = pos(r)
      BY <1>3
    <2>2. QED  BY <1>1, <1>4, <2>1
  <1>5. Follows(positive, below) \subseteq set
    BY <1>3, <1>4, FollowsLeast
  <1>6. QED  BY <1>2, <1>5

\* f is the model of the components up to m.
ModelUpTo(f, m, facts) ==
    f = [n \in 0 .. m |-> IF n = 0 THEN facts ELSE Least(n, f[n - 1])]

\* There is one.
LEMMA ModelsExist ==
    ASSUME NEW facts, NEW m \in Nat
    PROVE  \E f : ModelUpTo(f, m, facts)
  <1> DEFINE bad == {k \in Nat : ~\E f : ModelUpTo(f, k, facts)}
  <1>1. SUFFICES ASSUME bad # {}
                 PROVE  FALSE
    OBVIOUS
  <1>2. PICK k \in bad : \A j \in bad : k <= j
    BY <1>1, LeastNatural
  <1>3. CASE k = 0
    <2>1. ModelUpTo([n \in 0 .. 0 |-> facts], 0, facts)
      BY DEF ModelUpTo
    <2>2. QED  BY <1>2, <1>3, <2>1
  <1>4. CASE k # 0
    <2>1. k - 1 \in Nat /\ k \in Nat /\ k - 1 \notin bad
      BY <1>2, <1>4
    <2>2. PICK g : ModelUpTo(g, k - 1, facts)
      BY <2>1
    <2> DEFINE f == [n \in 0 .. k |-> IF n = k THEN Least(k, g[k - 1]) ELSE g[n]]
               h == [n \in 0 .. k |-> IF n = 0 THEN facts ELSE Least(n, f[n - 1])]
    <2>3. ASSUME NEW n \in 0 .. k
          PROVE  f[n] = h[n]
      <3>1. CASE n = 0
        <4>1. f[n] = g[n] /\ h[n] = facts
          BY <1>4, <2>1, <3>1
        <4>2. g[n] = facts
          BY <2>1, <2>2, <3>1 DEF ModelUpTo
        <4>3. QED  BY <4>1, <4>2
      <3>2. CASE n # 0 /\ n # k
        <4>1. n - 1 \in 0 .. k /\ n - 1 # k /\ n \in 0 .. k - 1
          BY <2>1, <3>2
        <4>2. f[n] = g[n] /\ f[n - 1] = g[n - 1]
          BY <3>2, <4>1
        <4>3. g[n] = Least(n, g[n - 1])
          BY <2>2, <3>2, <4>1 DEF ModelUpTo
        <4> HIDE DEF f
        <4>4. QED  BY <3>2, <4>2, <4>3
      <3>3. CASE n # 0 /\ n = k
        <4>1. k - 1 \in 0 .. k /\ k - 1 # k
          BY <2>1, <3>3
        <4>2. f[k - 1] = g[k - 1]
          BY <4>1
        <4>3. f[n] = Least(k, g[k - 1])
          BY <3>3
        <4> HIDE DEF f
        <4>4. QED  BY <3>3, <4>2, <4>3
      <3>4. QED  BY <3>1, <3>2, <3>3
    <2>4. f = h
      BY <2>3
    <2>5. ModelUpTo(f, k, facts)
      BY <2>4 DEF ModelUpTo
    <2>6. QED  BY <1>2, <2>5
  <1>5. QED  BY <1>3, <1>4

\* The model, component by component.
LEMMA ModelSteps ==
    ASSUME NEW facts
    PROVE  /\ Model(facts)[0] = facts
           /\ \A n \in 1 .. Len(Phases) : Model(facts)[n] = Least(n, Model(facts)[n - 1])
  <1>1. Len(Phases) \in Nat
    BY ConstantsAssumption
  <1>2. \E f : ModelUpTo(f, Len(Phases), facts)
    BY <1>1, ModelsExist
  <1>3. ModelUpTo(Model(facts), Len(Phases), facts)
    BY <1>2 DEF Model, ModelUpTo
  <1> HIDE DEF Model
  <1>4. Model(facts)[0] = facts
    BY <1>1, <1>3 DEF ModelUpTo
  <1>5. ASSUME NEW n \in 1 .. Len(Phases)
        PROVE  Model(facts)[n] = Least(n, Model(facts)[n - 1])
    <2>1. n \in 0 .. Len(Phases) /\ n # 0
      BY <1>1
    <2>2. QED  BY <1>3, <2>1 DEF ModelUpTo
  <1>6. QED  BY <1>4, <1>5
-----------------------------------------------------------------------------
(***************************************************************************)
(* The seed and the steps of a component.                                  *)
(***************************************************************************)
\* The statements of a component are of its rules.
LEMMA RulesTyped ==
    ASSUME NEW n \in 1 .. Len(Phases)
    PROVE  /\ RulesOf(n) \in Statements(Rows)
           /\ Len(Phases[n].seed) \in Nat /\ Len(Phases[n].step) \in Nat
           /\ \A r : r \in UNION Range(Phases[n].seed)
                       <=> \E k \in 1 .. Len(Phases[n].seed) : r \in Phases[n].seed[k]
           /\ \A r : r \in UNION Range(Phases[n].step)
                       <=> \E k \in 1 .. Len(Phases[n].step) : r \in Phases[n].step[k]
           /\ RulesOf(n) = (UNION Range(Phases[n].seed)) \cup (UNION Range(Phases[n].step))
  <1>1. Phases[n].seed \in Seq(Statements(Rows)) /\ Phases[n].step \in Seq(Statements(Rows))
    BY PhasesTyped
  <1>2. PICK seed \in Seq(Statements(Rows)), step \in Seq(Statements(Rows)) :
           seed = Phases[n].seed /\ step = Phases[n].step
    BY <1>1
  <1>3. ASSUME NEW s \in Seq(Statements(Rows))
        PROVE  /\ Len(s) \in Nat
               /\ \A r : r \in UNION Range(s) <=> \E k \in 1 .. Len(s) : r \in s[k]
               /\ \A r \in UNION Range(s) :
                     r \in [head : Rows, body : SUBSET Facts, absent : SUBSET Facts]
    <2>1. Len(s) \in Nat /\ DOMAIN s = 1 .. Len(s) /\ \A k \in 1 .. Len(s) : s[k] \in Statements(Rows)
      OBVIOUS
    <2>2. QED  BY <2>1 DEF Range, Statements
  <1>4. RulesOf(n) = (UNION Range(seed)) \cup (UNION Range(step))
    <2>1. \A a, b : UNION (a \cup b) = (UNION a) \cup (UNION b)
      OBVIOUS
    <2>2. RulesOf(n) = UNION (Range(seed) \cup Range(step))
      BY <1>2 DEF RulesOf
    <2>3. QED  BY <2>1, <2>2
  <1>5. \A r \in RulesOf(n) : r \in [head : Rows, body : SUBSET Facts, absent : SUBSET Facts]
    <2>1. \A r \in UNION Range(seed) : r \in [head : Rows, body : SUBSET Facts, absent : SUBSET Facts]
      BY <1>3
    <2>2. \A r \in UNION Range(step) : r \in [head : Rows, body : SUBSET Facts, absent : SUBSET Facts]
      BY <1>3
    <2>3. QED  BY <1>4, <2>1, <2>2
  <1>6. RulesOf(n) \in Statements(Rows)
    BY <1>5 DEF Statements
  <1>7. QED  BY <1>2, <1>3, <1>4, <1>6

\* Statements of a component stay within its model.
LEMMA RunSound ==
    ASSUME NEW n \in 1 .. Len(Phases), NEW stmts, Len(stmts) \in Nat,
           \A k \in 1 .. Len(stmts) : stmts[k] \subseteq RulesOf(n),
           NEW below, NEW facts, NEW rows,
           below \subseteq facts \cup rows, facts \cup rows \subseteq Least(n, below)
    PROVE  facts \cup Inserted(stmts, facts, rows, {}) \subseteq Least(n, below)
  <1> DEFINE L == Least(n, below)
  <1>1. \A r \in RulesOf(n) : r.absent \cap below = {} /\ r.body \subseteq L => r.head \in L
    BY RulesTyped, LeastIsLeast
  <1> HIDE DEF L
  <1>2. ASSUME NEW k \in 1 .. Len(stmts), NEW mid, rows \subseteq mid, mid \subseteq L,
               NEW r \in stmts[k], Fires(r, facts \cup mid)
        PROVE  r.head \in L
    <2>1. r.body \subseteq L /\ r.absent \cap below = {}
      BY <1>2 DEF Fires, L
    <2>2. QED  BY <1>1, <1>2, <2>1
  <1>3. ASSUME NEW k \in 1 .. Len(stmts), NEW mid, rows \subseteq mid, mid \subseteq L
        PROVE  Fired(stmts[k], facts \cup mid) \ {} \subseteq L
    BY <1>2, <1>3 DEF Fired
  <1>4. rows \subseteq L /\ facts \subseteq L
    BY DEF L
  <1>5. Inserted(stmts, facts, rows, {}) \subseteq L
    <2>1. \A k \in 1 .. Len(stmts) : \A mid :
             rows \subseteq mid /\ mid \subseteq L => Fired(stmts[k], facts \cup mid) \ {} \subseteq L
      BY <1>3
    <2>2. QED  BY <1>4, <2>1, InsertedBound
  <1>6. QED  BY <1>4, <1>5 DEF L

\* Between the model below a component and its own, with what its seed concludes.
Grows(n, below, facts, rows) ==
    /\ below \subseteq facts \cup rows /\ facts \cup rows \subseteq Least(n, below)
    /\ \A r \in UNION Range(Phases[n].seed) : Fires(r, below) => r.head \in rows

\* A rule fires on what a component has grown to if it fires on what is below,
\* its body being there.
LEMMA FiresLater ==
    ASSUME NEW n \in 1 .. Len(Phases), NEW below, NEW set, set \subseteq Least(n, below),
           NEW r \in RulesOf(n), r.absent \cap below = {}, r.body \subseteq set
    PROVE  Fires(r, set)
  <1>1. Least(n, below) \subseteq below \cup Heads(n)
    BY RulesTyped, LeastIsLeast
  <1>2. r.absent \cap Heads(n) = {}
    BY ProgramAssumption
  <1>3. QED  BY <1>1, <1>2 DEF Fires

\* The seed starts a component.
LEMMA SeedGrows ==
    ASSUME NEW n \in 1 .. Len(Phases), NEW below, NEW facts, NEW rows, facts \cup rows = below
    PROVE  Grows(n, below, facts, Inserted(Phases[n].seed, facts, rows, {}))
  <1> DEFINE seed  == Phases[n].seed
             after == Inserted(seed, facts, rows, {})
  <1>1. /\ Len(seed) \in Nat /\ \A k \in 1 .. Len(seed) : seed[k] \subseteq RulesOf(n)
        /\ \A r \in UNION Range(seed) : \E k \in 1 .. Len(seed) : r \in seed[k]
    BY RulesTyped
  <1>2. below \subseteq Least(n, below)
    BY RulesTyped, LeastIsLeast
  <1>3. facts \cup after \subseteq Least(n, below)
    BY <1>1, <1>2, RunSound
  <1>4. /\ rows \subseteq after
        /\ \A k \in 1 .. Len(seed) : \E mid : /\ rows \subseteq mid /\ mid \subseteq after
                                              /\ Fired(seed[k], facts \cup mid) \ {} \subseteq after
    BY <1>1, InsertedFires
  <1> HIDE DEF after
  <1>5. ASSUME NEW r \in UNION Range(seed), Fires(r, below)
        PROVE  r.head \in after
    <2>1. PICK k \in 1 .. Len(seed) : r \in seed[k] /\ r \in RulesOf(n)
      BY <1>1
    <2>2. PICK mid : /\ rows \subseteq mid /\ mid \subseteq after
                     /\ Fired(seed[k], facts \cup mid) \ {} \subseteq after
      BY <1>4
    <2>3. /\ facts \cup mid \subseteq Least(n, below) /\ r.body \subseteq facts \cup mid
          /\ r.absent \cap below = {}
      BY <1>3, <1>5, <2>2 DEF Fires
    <2>4. Fires(r, facts \cup mid)
      BY <2>1, <2>3, FiresLater
    <2>5. QED  BY <2>1, <2>2, <2>4 DEF Fired
  <1>6. QED  BY <1>2, <1>3, <1>4, <1>5 DEF Grows, after

\* A step goes on.
LEMMA StepGrows ==
    ASSUME NEW n \in 1 .. Len(Phases), NEW below, NEW facts, NEW rows, Grows(n, below, facts, rows)
    PROVE  /\ Grows(n, below, facts, Inserted(Phases[n].step, facts, rows, {}))
           /\ rows \subseteq Inserted(Phases[n].step, facts, rows, {})
  <1> DEFINE step  == Phases[n].step
             after == Inserted(step, facts, rows, {})
  <1>1. Len(step) \in Nat /\ \A k \in 1 .. Len(step) : step[k] \subseteq RulesOf(n)
    <2>1. /\ Len(step) \in Nat /\ UNION Range(step) \subseteq RulesOf(n)
          /\ \A r : (\E k \in 1 .. Len(step) : r \in step[k]) => r \in UNION Range(step)
      BY RulesTyped
    <2>2. QED  BY <2>1
  <1>2. facts \cup after \subseteq Least(n, below)
    BY <1>1, RunSound DEF Grows
  <1>3. rows \subseteq after
    BY <1>1, InsertedFires
  <1> HIDE DEF after
  <1>4. QED  BY <1>2, <1>3 DEF Grows, after

\* A step that adds nothing has reached the model.
LEMMA Converged ==
    ASSUME NEW n \in 1 .. Len(Phases), NEW below, NEW facts, NEW rows, Grows(n, below, facts, rows),
           Inserted(Phases[n].step, facts, rows, {}) = rows
    PROVE  facts \cup rows = Least(n, below)
  <1> DEFINE step == Phases[n].step
  <1>1. /\ Len(step) \in Nat
        /\ \A r \in RulesOf(n) : \/ r \in UNION Range(Phases[n].seed)
                                 \/ \E k \in 1 .. Len(step) : r \in step[k]
    <2>1. /\ Len(step) \in Nat
          /\ RulesOf(n) = (UNION Range(Phases[n].seed)) \cup (UNION Range(step))
          /\ \A r : r \in UNION Range(step) => \E k \in 1 .. Len(step) : r \in step[k]
      BY RulesTyped
    <2>2. QED  BY <2>1
  <1>2. \A k \in 1 .. Len(step) : Fired(step[k], facts \cup rows) \subseteq rows
    <2>1. ASSUME NEW k \in 1 .. Len(step)
          PROVE  Fired(step[k], facts \cup rows) \subseteq rows
      <3>1. PICK mid : /\ rows \subseteq mid /\ mid \subseteq rows
                       /\ Fired(step[k], facts \cup mid) \ {} \subseteq rows
        BY <1>1, InsertedFires
      <3>2. mid = rows
        BY <3>1
      <3>3. QED  BY <3>1, <3>2
    <2>2. QED  BY <2>1
  <1>3. Least(n, below) \subseteq below \cup Heads(n)
    BY RulesTyped, LeastIsLeast
  <1>4. ASSUME NEW r \in RulesOf(n), r.absent \cap below = {}, r.body \subseteq facts \cup rows
        PROVE  r.head \in facts \cup rows
    <2>1. CASE r \in UNION Range(Phases[n].seed)
      <3>1. r.body \cap Heads(n) = {}
        BY <2>1, ProgramAssumption
      <3>2. Fires(r, below)
        BY <1>3, <1>4, <3>1 DEF Grows, Fires
      <3>3. QED  BY <2>1, <3>2 DEF Grows
    <2>2. ASSUME NEW k \in 1 .. Len(step), r \in step[k]
          PROVE  r.head \in rows
      <3>1. Fires(r, facts \cup rows)
        BY <1>4, FiresLater DEF Grows
      <3>2. QED  BY <1>2, <2>2, <3>1 DEF Fired
    <2>3. QED  BY <1>1, <2>1, <2>2
  <1>5. below \subseteq facts \cup rows /\ facts \cup rows \subseteq Least(n, below)
    BY DEF Grows
  <1>6. Least(n, below) \subseteq facts \cup rows
    BY <1>4, <1>5, RulesTyped, LeastBound
  <1>7. QED  BY <1>5, <1>6
-----------------------------------------------------------------------------
(***************************************************************************)
(* The rounds of OWL 2 RL.                                                 *)
(***************************************************************************)
\* The rules of a round.
OwlRules == UNION Range(Axioms)

\* They are positive, and those of its statements.
LEMMA OwlRulesTyped ==
    /\ Len(Axioms) \in Nat
    /\ \A r : r \in OwlRules <=> \E k \in 1 .. Len(Axioms) : r \in Axioms[k]
    /\ \A r \in OwlRules : r.absent = {}
  <1>1. Len(Axioms) \in Nat /\ DOMAIN Axioms = 1 .. Len(Axioms)
    BY ConstantsAssumption
  <1>2. \A r \in OwlRules : r.absent = {}
    BY ProgramAssumption DEF OwlRules
  <1>3. QED  BY <1>1, <1>2 DEF OwlRules, Range

\* What a round adds follows from what is asserted and what others concluded.
LEMMA RoundSound ==
    ASSUME NEW qs, NEW inf, NEW mine, mine \subseteq inf,
           mine \subseteq Follows(OwlRules, qs \cup (inf \ mine))
    PROVE  /\ inf \subseteq Inserted(Axioms, qs, inf, qs)
           /\ Inserted(Axioms, qs, inf, qs) \ inf \subseteq Follows(OwlRules, qs \cup (inf \ mine))
  <1> DEFINE base  == qs \cup (inf \ mine)
             all   == Follows(OwlRules, base)
             bound == inf \cup all
  <1>1. mine \subseteq all
    OBVIOUS
  <1>2. \A r \in OwlRules : r.body \subseteq base \cup all => r.head \in base \cup all
    BY OwlRulesTyped, FollowsClosed
  <1> HIDE DEF all
  <1>3. ASSUME NEW k \in 1 .. Len(Axioms), NEW mid, inf \subseteq mid, mid \subseteq bound,
               NEW r \in Axioms[k], Fires(r, qs \cup mid), r.head \notin qs
        PROVE  r.head \in bound
    <2>1. r \in OwlRules
      BY OwlRulesTyped
    <2>2. r.body \subseteq base \cup all
      BY <1>1, <1>3 DEF Fires
    <2>3. QED  BY <1>2, <1>3, <2>1, <2>2
  <1>4. \A k \in 1 .. Len(Axioms) : \A mid :
           inf \subseteq mid /\ mid \subseteq bound => Fired(Axioms[k], qs \cup mid) \ qs \subseteq bound
    BY <1>3 DEF Fired
  <1>5. inf \subseteq bound /\ Len(Axioms) \in Nat
    BY OwlRulesTyped
  <1> HIDE DEF bound
  <1>6. Inserted(Axioms, qs, inf, qs) \subseteq bound
    BY <1>4, <1>5, InsertedBound
  <1>7. inf \subseteq Inserted(Axioms, qs, inf, qs)
    BY <1>5, InsertedFires
  <1>8. QED  BY <1>6, <1>7 DEF bound, all

\* A round that adds nothing has concluded all that follows.
LEMMA RoundConverged ==
    ASSUME NEW qs, NEW inf, NEW mine, Inserted(Axioms, qs, inf, qs) = inf
    PROVE  Follows(OwlRules, qs \cup (inf \ mine)) \ qs \subseteq inf
  <1>1. Len(Axioms) \in Nat
    BY OwlRulesTyped
  <1>2. ASSUME NEW r \in OwlRules, r.body \subseteq qs \cup inf
        PROVE  r.head \in qs \cup inf
    <2>1. PICK k \in 1 .. Len(Axioms) : r \in Axioms[k]
      BY OwlRulesTyped
    <2>2. PICK mid : /\ inf \subseteq mid /\ mid \subseteq inf
                     /\ Fired(Axioms[k], qs \cup mid) \ qs \subseteq inf
      BY <1>1, InsertedFires
    <2>3. Fires(r, qs \cup mid)
      BY <1>2, <2>2, OwlRulesTyped DEF Fires
    <2>4. QED  BY <2>1, <2>2, <2>3 DEF Fired
  <1>3. Follows(OwlRules, qs \cup (inf \ mine)) \subseteq qs \cup inf
    <2> DEFINE base == qs \cup (inf \ mine)
               set  == qs \cup inf
    <2>1. base \subseteq set /\ \A r \in OwlRules : r.absent = {}
      BY OwlRulesTyped
    <2>2. \A r \in OwlRules : r.body \subseteq set => r.head \in set
      BY <1>2
    <2> HIDE DEF base, set
    <2>3. Follows(OwlRules, base) \subseteq set
      BY <2>1, <2>2, FollowsLeast
    <2>4. QED  BY <2>3 DEF base, set
  <1>4. QED  BY <1>3
-----------------------------------------------------------------------------
(***************************************************************************)
(* What a producer claims.                                                 *)
(***************************************************************************)
\* What p claims in a table.
Claimed(t, p) == {s[2] : s \in {x \in t.source : x[1] = p}}

\* inference_reset leaves p no claim, and the inferences p did not claim.
LEMMA ResetClaims ==
    ASSUME NEW t, IsTable(t), Attributed(t), NEW p \in Producers
    PROVE  /\ Claimed(Reset(t, p), p) = {}
           /\ Reset(t, p).inferred = t.inferred \ Claimed(t, p)
  <1> DEFINE left == {s \in t.source : s[1] # p}
  <1>1. Reset(t, p).source = left
        /\ Reset(t, p).inferred = {q \in t.inferred : \E s \in left : s[2] = q}
    BY DEF Reset
  <1>2. Claimed(Reset(t, p), p) = {}
    BY <1>1 DEF Claimed
  <1>3. ASSUME NEW q \in t.inferred
        PROVE  (\E s \in left : s[2] = q) <=> q \notin Claimed(t, p)
    <2>1. PICK s \in t.source : s[2] = q
      BY DEF Attributed
    <2>2. \A u \in t.source : u[2] = q => u[1] = s[1]
      BY <2>1 DEF Attributed, Claims
    <2>3. QED  BY <2>1, <2>2 DEF Claimed
  <1>4. QED  BY <1>1, <1>2, <1>3

\* More inferences, attributed: p claims the new ones.
LEMMA GrownClaims ==
    ASSUME NEW t, IsTable(t), Attributed(t), NEW p \in Producers, NEW new \in SUBSET Conclusions,
           t.inferred \subseteq new, NEW u, u = Attribute([t EXCEPT !.inferred = new], p)
    PROVE  /\ u.inferred = new
           /\ Claimed(u, p) = Claimed(t, p) \cup (new \ t.inferred)
  <1> DEFINE v == [t EXCEPT !.inferred = new]
             free == {x \in v.inferred : ~\E s \in v.source : s[2] = x}
             more == {<<p, q>> : q \in free}
  <1>1. IsTable(v) /\ v.inferred = new /\ v.source = t.source
    BY WithInferred
  <1>2. u = [v EXCEPT !.source = @ \cup more]
    BY DEF Attribute
  <1>3. free = new \ t.inferred
    BY <1>1 DEF Attributed, Claims
  <1> HIDE DEF v, free
  <1>4. \A s \in more : s[1] = p /\ s[2] \in free
    OBVIOUS
  <1>5. \A q \in free : <<p, q>> \in more /\ <<p, q>>[1] = p /\ <<p, q>>[2] = q
    OBVIOUS
  <1> HIDE DEF more
  <1>6. u.inferred = new /\ u.source = t.source \cup more
    BY <1>1, <1>2 DEF IsTable
  <1>7. Claimed(u, p) = Claimed(t, p) \cup free
    <2> DEFINE mine(x) == {s \in x.source : s[1] = p}
    <2>1. mine(u) = mine(t) \cup more
      BY <1>4, <1>6
    <2>2. \A x : Claimed(x, p) = {s[2] : s \in mine(x)}
      BY DEF Claimed
    <2> HIDE DEF mine
    <2>3. {s[2] : s \in more} = free
      BY <1>4, <1>5
    <2>4. QED  BY <2>1, <2>2, <2>3
  <1>8. QED  BY <1>3, <1>6, <1>7

\* inference_replace, or the statements of a materialization.
LEMMA ReplacedClaims ==
    ASSUME TablesOK, Attributed(Tables), NEW p \in Producers, NEW new \in SUBSET Conclusions,
           Applied(Attribute([Reset(Tables, p) EXCEPT !.inferred = @ \cup new], p))
    PROVE  /\ inferred' = (inferred \ ClaimedBy(p)) \cup new
           /\ ClaimedBy(p)' = new \ (inferred \ ClaimedBy(p))
  <1> DEFINE t    == Reset(Tables, p)
             more == t.inferred \cup new
             u    == Attribute([t EXCEPT !.inferred = more], p)
  <1>1. IsTable(Tables) /\ Tables.inferred = inferred /\ Tables.source = source
    BY TablesTyped
  <1>2. IsTable(t) /\ Attributed(t) /\ Claimed(t, p) = {} /\ t.inferred = inferred \ ClaimedBy(p)
    BY <1>1, ResetTyped, ResetAttributes, ResetClaims DEF Claimed, ClaimedBy
  <1>3. inferred' = u.inferred /\ source' = u.source
    BY DEF Applied
  <1> HIDE DEF t
  <1>4. more \in SUBSET Conclusions /\ t.inferred \subseteq more
    BY <1>2 DEF IsTable
  <1> HIDE DEF more
  <1>5. u.inferred = more /\ Claimed(u, p) = Claimed(t, p) \cup (more \ t.inferred)
    BY <1>2, <1>4, GrownClaims
  <1> HIDE DEF u
  <1>6. ClaimedBy(p)' = Claimed(u, p)
    BY <1>3 DEF ClaimedBy, Claimed
  <1>7. QED  BY <1>2, <1>3, <1>5, <1>6 DEF more

\* A round.
LEMMA RoundClaims ==
    ASSUME TablesOK, Attributed(Tables), Applied(Round)
    PROVE  /\ inferred' = Inserted(Axioms, quads, inferred, quads)
           /\ ClaimedBy(Owl)' = ClaimedBy(Owl) \cup (inferred' \ inferred)
           /\ Round = Tables => inferred' = inferred
  <1> DEFINE more == Inserted(Axioms, quads, inferred, quads)
             u    == Attribute([Tables EXCEPT !.inferred = more], Owl)
  <1>1. IsTable(Tables) /\ Tables.inferred = inferred /\ Tables.source = source
    BY TablesTyped
  <1>2. more \in SUBSET Conclusions /\ inferred \subseteq more
    <2>1. Axioms \in Seq(Statements(Conclusions)) /\ inferred \in SUBSET Conclusions
      BY ConstantsAssumption DEF TablesOK
    <2>2. QED  BY <2>1, InsertedWithin
  <1>3. inferred' = u.inferred /\ source' = u.source /\ Round = u
    BY DEF Applied, Round
  <1>4. Owl \in Producers
    BY ConstantsAssumption
  <1> HIDE DEF more
  <1>5. u.inferred = more /\ Claimed(u, Owl) = Claimed(Tables, Owl) \cup (more \ inferred)
    BY <1>1, <1>2, <1>4, GrownClaims
  <1> HIDE DEF u
  <1>6. ClaimedBy(Owl)' = Claimed(u, Owl) /\ ClaimedBy(Owl) = Claimed(Tables, Owl)
    BY <1>1, <1>3 DEF ClaimedBy, Claimed
  <1>7. QED  BY <1>1, <1>3, <1>5, <1>6 DEF more

\* What an engine reads is what others concluded (reasoning_input_job).
LEMMA ReasoningReads ==
    ASSUME TablesOK, Attributed(Tables), NEW job \in JobRecords
    PROVE  ReasoningInput(job)
             = quads \cup (IF job.inferred THEN inferred \ ClaimedBy(job.producer) ELSE {})
  <1>1. ASSUME NEW q \in inferred
        PROVE  (\E s \in source : s[2] = q /\ s[1] # job.producer) <=> q \notin ClaimedBy(job.producer)
    <2>1. PICK s \in source : s[2] = q
      BY DEF Attributed, Tables
    <2>2. \A u \in source : u[2] = q => u[1] = s[1]
      BY <2>1 DEF Attributed, Claims, Tables
    <2>3. QED  BY <2>1, <2>2 DEF ClaimedBy
  <1>2. {q \in inferred : \E s \in source : s[2] = q /\ s[1] # job.producer}
          = inferred \ ClaimedBy(job.producer)
    BY <1>1
  <1>3. QED  BY <1>2 DEF ReasoningInput-----------------------------------------------------------------------------
(***************************************************************************)
(* What a job that nothing disturbed knows, at each of its places.         *)
(***************************************************************************)
\* The place of a job says what it is.
Fits(job) ==
    /\ job.pc \in {"Seed", "Step", "CleaningUp"} => job.kind \in {"query", "rules"}
    /\ job.pc = "Rows" => job.kind = "query"
    /\ job.pc = "Write" => job.kind = "rules"
    /\ job.pc \in {"Reset", "Round"} => job.kind = "owl"
    /\ job.pc \in {"Read", "Apply"} => job.kind \in {"n3", "elpi"}

\* Where its iteration is: below a component is the model of those before, and
\* the count a step compares with is of the rows it starts from.
Iterates(job, facts, rows) ==
    /\ job.pc = "Seed" /\ job.phase # 1 => facts \cup rows = Model(facts)[job.phase - 1]
    /\ job.pc = "Step" => /\ Grows(job.phase, Model(facts)[job.phase - 1], facts, rows)
                          /\ job.before = Cardinality(rows)
    /\ job.pc \in {"Rows", "Write"} => Fired(Goal, facts \cup rows) = Answer(job, facts)
    /\ job.kind = "query" /\ job.pc \in {"CleaningUp", "Returned"} => job.read = Answer(job, facts)

\* What a producer claims is in all, and all but what over holds is inferred.
Exact(all, over, inf, mine) == mine \subseteq all /\ all \ over \subseteq inf

\* What an engine may read.
Input(job, qs, inf, mine) == qs \cup (IF job.inferred THEN inf \ mine ELSE {})

\* What it reads: ELPI only what its patterns ask for.
Reads(job, qs, inf, mine) ==
    IF job.kind = "n3" THEN Input(job, qs, inf, mine)
    ELSE Input(job, qs, inf, mine) \cap UNION Range(Lookups)

\* What a job has read and concluded.
Concludes(job, qs, inf, mine) ==
    /\ job.kind = "rules" /\ ~job.inferred /\ job.pc \in {"CleaningUp", "Returned"}
          => Exact(Answer(job, qs), {}, inf, mine)
    /\ job.pc = "Read" /\ job.kind = "elpi" =>
          /\ job.phase \in 1 .. Len(Lookups)
          /\ job.read = Input(job, qs, inf, mine) \cap UNION {Lookups[i] : i \in 1 .. job.phase - 1}
    /\ job.pc = "Apply" => job.read = Reads(job, qs, inf, mine)
    /\ job.kind \in {"n3", "elpi"} /\ job.pc = "Returned" =>
          LET read == Reads(job, qs, inf, mine)
          IN  Exact(Follows(Engine, read), read, inf, mine)
    /\ job.pc = "Round" => mine \subseteq Follows(OwlRules, qs \cup (inf \ mine))
    /\ job.kind = "owl" /\ job.pc = "Returned" /\ job.round < MaxRounds =>
          Exact(Follows(OwlRules, qs \cup (inf \ mine)), qs, inf, mine)

\* All of it.
Fine(job, qs, inf, mine, rows) ==
    /\ Fits(job)
    /\ Iterates(job, qs \cup (IF job.inferred THEN inf ELSE {}), rows)
    /\ Concludes(job, qs, inf, mine)

\* The jobs that nothing disturbed are fine.
FineInv ==
    \A c \in Jobs \ disturbed :
        jobs[c].pc # "Idle" =>
            Fine(jobs[c], quads, inferred, ClaimedBy(jobs[c].producer), RowsOf(c))

\* A job that runs under the same name and options, further on.
SameJob(job, n) ==
    /\ job \in JobRecords /\ n \in JobRecords
    /\ n.kind = job.kind /\ n.producer = job.producer
    /\ n.inferred = job.inferred /\ n.iterated = job.iterated

\* The facts a job iterates on.
FactsOf(job, qs, inf) == qs \cup (IF job.inferred THEN inf ELSE {})

\* Nothing is asked of a job that was cut short.
LEMMA FailedFine ==
    ASSUME NEW n, n.pc = "Failed", NEW qs, NEW inf, NEW mine, NEW rows
    PROVE  Fine(n, qs, inf, mine, rows)
  BY DEF Fine, Fits, Iterates, Concludes

\* The seed of a component.
LEMMA SeedFine ==
    ASSUME NEW job, NEW n, SameJob(job, n), job.pc = "Seed", job.phase \in 1 .. Len(Phases),
           NEW qs, NEW inf, NEW mine, NEW rows, Fine(job, qs, inf, mine, rows),
           NEW after, after = Inserted(Phases[job.phase].seed, FactsOf(job, qs, inf),
                                       IF job.phase = 1 THEN {} ELSE rows, {}),
           n.pc = "Step", n.phase = job.phase, n.before = Cardinality(after)
    PROVE  Fine(n, qs, inf, mine, after)
  <1> DEFINE facts == FactsOf(job, qs, inf)
             below == Model(facts)[job.phase - 1]
             first == IF job.phase = 1 THEN {} ELSE rows
  <1>1. facts = qs \cup (IF n.inferred THEN inf ELSE {})
    BY DEF FactsOf, SameJob
  <1>2. facts \cup first = below
    <2>1. CASE job.phase = 1
      <3>1. job.phase - 1 = 0
        BY <2>1
      <3>2. QED  BY <2>1, <3>1, ModelSteps
    <2>2. CASE job.phase # 1
      BY <2>2 DEF Fine, Iterates, FactsOf
    <2>3. QED  BY <2>1, <2>2
  <1>3. Grows(job.phase, below, facts, after)
    BY <1>2, SeedGrows
  <1> HIDE DEF facts, below, first
  <1>4. Fits(n) /\ Concludes(n, qs, inf, mine)
    BY DEF Fine, Fits, Concludes, SameJob
  <1>5. Iterates(n, facts, after)
    BY <1>3 DEF Iterates, below
  <1>6. QED  BY <1>1, <1>4, <1>5 DEF Fine

\* The rows of a step, when they are as many as before, have reached the model.
LEMMA StepConverges ==
    ASSUME NEW job, job.phase \in 1 .. Len(Phases), NEW facts, NEW rows \in SUBSET Rows,
           Grows(job.phase, Model(facts)[job.phase - 1], facts, rows),
           NEW after \in SUBSET Rows, after = Inserted(Phases[job.phase].step, facts, rows, {}),
           Cardinality(after) = Cardinality(rows)
    PROVE  facts \cup after = Model(facts)[job.phase]
  <1> DEFINE below == Model(facts)[job.phase - 1]
  <1>1. rows \subseteq after
    BY StepGrows
  <1>2. IsFiniteSet(after)
    BY FS_Subset, ConstantsAssumption
  <1>3. after = rows
    BY <1>1, <1>2, FS_Subset
  <1>4. facts \cup rows = Least(job.phase, below)
    BY <1>3, Converged
  <1>5. Model(facts)[job.phase] = Least(job.phase, below)
    BY ModelSteps
  <1>6. QED  BY <1>3, <1>4, <1>5

\* A step of a component.
LEMMA StepFine ==
    ASSUME NEW job, NEW n, SameJob(job, n), job.pc = "Step", job.phase \in 1 .. Len(Phases), job.iterated,
           NEW qs, NEW inf, NEW mine, NEW rows \in SUBSET Rows, Fine(job, qs, inf, mine, rows),
           NEW after \in SUBSET Rows,
           after = Inserted(Phases[job.phase].step, FactsOf(job, qs, inf), rows, {}),
           \/ /\ Cardinality(after) = job.before /\ n.pc = "Seed" /\ n.phase = job.phase + 1
           \/ /\ Cardinality(after) = job.before /\ job.phase = Len(Phases)
              /\ n.pc = IF job.kind = "query" THEN "Rows" ELSE "Write"
           \/ n.pc = "Failed"
           \/ n.pc = "Step" /\ n.phase = job.phase /\ n.before = Cardinality(after)
    PROVE  Fine(n, qs, inf, mine, after)
  <1> DEFINE facts == FactsOf(job, qs, inf)
             below == Model(facts)[job.phase - 1]
  <1>1. facts = qs \cup (IF n.inferred THEN inf ELSE {})
    BY DEF FactsOf, SameJob
  <1>2. Grows(job.phase, below, facts, rows) /\ job.before = Cardinality(rows)
    BY DEF Fine, Iterates, FactsOf
  <1>3. Grows(job.phase, below, facts, after)
    BY <1>2, StepGrows
  <1>4. Cardinality(after) = job.before => facts \cup after = Model(facts)[job.phase]
    BY <1>2, StepConverges
  <1> HIDE DEF facts
  <1>5. job.kind \in {"query", "rules"} /\ n.kind = job.kind /\ n.iterated
    BY DEF Fine, Fits, SameJob
  <1>6. Fits(n) /\ Concludes(n, qs, inf, mine)
    BY <1>5 DEF Fits, Concludes
  <1>7. CASE Cardinality(after) = job.before /\ n.pc = "Seed" /\ n.phase = job.phase + 1
    <2>1. n.phase - 1 = job.phase
      BY <1>7
    <2>2. Iterates(n, facts, after)
      BY <1>4, <1>7, <2>1 DEF Iterates
    <2>3. QED  BY <1>1, <1>6, <2>2 DEF Fine
  <1>8. CASE /\ Cardinality(after) = job.before /\ job.phase = Len(Phases)
             /\ n.pc = IF job.kind = "query" THEN "Rows" ELSE "Write"
    <2>1. Answer(n, facts) = Fired(Goal, facts \cup after)
      BY <1>4, <1>5, <1>8 DEF Answer
    <2>2. Iterates(n, facts, after)
      BY <1>8, <2>1 DEF Iterates
    <2>3. QED  BY <1>1, <1>6, <2>2 DEF Fine
  <1>9. CASE n.pc = "Step" /\ n.phase = job.phase /\ n.before = Cardinality(after)
    <2>1. Iterates(n, facts, after)
      BY <1>3, <1>9 DEF Iterates
    <2>2. QED  BY <1>1, <1>6, <2>1 DEF Fine
  <1>10. QED  BY <1>7, <1>8, <1>9, FailedFine
\* The answer of a job is the one of the same job further on.
LEMMA SameAnswer ==
    ASSUME NEW job, NEW n, SameJob(job, n), NEW facts
    PROVE  Answer(n, facts) = Answer(job, facts)
  BY DEF Answer, SameJob

\* A query reads its answer.
LEMMA ReadRowsFine ==
    ASSUME NEW job, NEW n, SameJob(job, n), job.pc = "Rows",
           NEW qs, NEW inf, NEW mine, NEW rows, Fine(job, qs, inf, mine, rows),
           n.pc = AfterLast(job), n.read = Fired(Goal, FactsOf(job, qs, inf) \cup rows)
    PROVE  Fine(n, qs, inf, mine, rows)
  <1> DEFINE facts == FactsOf(job, qs, inf)
  <1>1. facts = qs \cup (IF n.inferred THEN inf ELSE {})
    BY DEF FactsOf, SameJob
  <1>2. n.read = Answer(job, facts) /\ n.kind = "query"
    BY DEF Fine, Fits, Iterates, FactsOf, SameJob
  <1>3. n.read = Answer(n, facts)
    BY <1>2, SameAnswer
  <1>4. n.pc \in {"CleaningUp", "Returned"}
    BY DEF AfterLast
  <1> HIDE DEF facts
  <1>5. Fits(n) /\ Concludes(n, qs, inf, mine)
    BY <1>2, <1>4 DEF Fits, Concludes
  <1>6. Iterates(n, facts, rows)
    BY <1>3, <1>4 DEF Iterates
  <1>7. QED  BY <1>1, <1>5, <1>6 DEF Fine

\* A materialization writes its conclusions.
LEMMA WriteFine ==
    ASSUME NEW job, NEW n, SameJob(job, n), job.pc = "Write", n.pc = AfterLast(job),
           NEW qs, NEW inf, NEW mine, NEW rows, Fine(job, qs, inf, mine, rows),
           NEW new, ~job.inferred => new = Fired(Goal, qs \cup rows),
           NEW inf2, inf2 = (inf \ mine) \cup new, NEW mine2, mine2 = new \ (inf \ mine)
    PROVE  Fine(n, qs, inf2, mine2, rows)
  <1>1. n.kind = "rules" /\ n.pc \in {"CleaningUp", "Returned"}
    BY DEF Fine, Fits, SameJob, AfterLast
  <1>2. ASSUME ~n.inferred
        PROVE  Exact(Answer(n, qs), {}, inf2, mine2)
    <2>1. ~job.inferred /\ qs \cup (IF job.inferred THEN inf ELSE {}) = qs
      BY <1>2 DEF SameJob
    <2>2. new = Answer(job, qs)
      BY <2>1 DEF Fine, Iterates
    <2>3. new = Answer(n, qs)
      BY <2>2, SameAnswer
    <2>4. QED  BY <2>3 DEF Exact
  <1>3. Fits(n) /\ Concludes(n, qs, inf2, mine2)
    BY <1>1, <1>2 DEF Fits, Concludes
  <1>4. \A facts : Iterates(n, facts, rows)
    BY <1>1 DEF Iterates
  <1>5. QED  BY <1>3, <1>4 DEF Fine

\* The cleanup changes nothing of what was read or concluded.
LEMMA CleanUpFine ==
    ASSUME NEW job, NEW n, SameJob(job, n), job.pc = "CleaningUp", n.pc = "Returned", n.read = job.read,
           NEW qs, NEW inf, NEW mine, NEW rows, Fine(job, qs, inf, mine, rows), NEW after
    PROVE  Fine(n, qs, inf, mine, after)
  <1>1. n.kind = job.kind /\ n.kind \in {"query", "rules"} /\ n.inferred = job.inferred
    BY DEF Fine, Fits, SameJob
  <1>2. \A facts : Answer(n, facts) = Answer(job, facts)
    BY SameAnswer
  <1>3. Fits(n) /\ Concludes(n, qs, inf, mine)
    BY <1>1, <1>2 DEF Fine, Fits, Concludes
  <1>4. Iterates(n, qs \cup (IF n.inferred THEN inf ELSE {}), after)
    BY <1>1, <1>2 DEF Fine, Iterates
  <1>5. QED  BY <1>3, <1>4 DEF Fine

\* The reset leaves the producer of the rounds no claim.
LEMMA OwlResetFine ==
    ASSUME NEW job, NEW n, SameJob(job, n), job.pc = "Reset", n.pc = "Round",
           NEW qs, NEW inf, NEW mine, NEW rows, Fine(job, qs, inf, mine, rows), NEW inf2
    PROVE  Fine(n, qs, inf2, {}, rows)
  <1>1. n.kind = "owl"
    BY DEF Fine, Fits, SameJob
  <1>2. QED  BY <1>1 DEF Fine, Fits, Iterates, Concludes

\* A round.
LEMMA OwlRoundFine ==
    ASSUME NEW job, NEW n, SameJob(job, n), job.pc = "Round", n.pc \in {"Round", "Returned"},
           NEW qs, NEW inf, NEW mine, NEW rows, Fine(job, qs, inf, mine, rows), mine \subseteq inf,
           NEW inf2, inf2 = Inserted(Axioms, qs, inf, qs),
           NEW mine2, mine2 = mine \cup (inf2 \ inf),
           n.pc = "Returned" /\ n.round < MaxRounds => inf2 = inf
    PROVE  Fine(n, qs, inf2, mine2, rows)
  <1> DEFINE all == Follows(OwlRules, qs \cup (inf \ mine))
  <1>1. mine \subseteq all /\ n.kind = "owl"
    BY DEF Fine, Fits, Concludes, SameJob
  <1>2. inf \subseteq inf2 /\ inf2 \ inf \subseteq all
    BY <1>1, RoundSound
  <1>3. inf2 \ mine2 = inf \ mine
    BY <1>2
  <1>4. mine2 \subseteq Follows(OwlRules, qs \cup (inf2 \ mine2))
    BY <1>1, <1>2, <1>3
  <1>5. ASSUME n.pc = "Returned", n.round < MaxRounds
        PROVE  Exact(Follows(OwlRules, qs \cup (inf2 \ mine2)), qs, inf2, mine2)
    <2>1. Inserted(Axioms, qs, inf, qs) = inf /\ inf2 = inf
      BY <1>5
    <2>2. all \ qs \subseteq inf
      BY <2>1, RoundConverged
    <2>3. QED  BY <1>3, <1>4, <2>1, <2>2 DEF Exact
  <1>6. Fits(n) /\ \A facts : Iterates(n, facts, rows)
    BY <1>1 DEF Fits, Iterates
  <1>7. Concludes(n, qs, inf2, mine2)
    BY <1>1, <1>4, <1>5 DEF Concludes
  <1>8. QED  BY <1>6, <1>7 DEF Fine

\* N3 reads its input at once.
LEMMA ReadAtOnceFine ==
    ASSUME NEW job, NEW n, SameJob(job, n), job.pc = "Read", job.kind = "n3", n.pc = "Apply",
           NEW qs, NEW inf, NEW mine, NEW rows,
           n.read = Input(job, qs, inf, mine)
    PROVE  Fine(n, qs, inf, mine, rows)
  <1>1. n.kind = "n3" /\ n.read = Reads(n, qs, inf, mine)
    BY DEF SameJob, Reads, Input
  <1>2. QED  BY <1>1 DEF Fine, Fits, Iterates, Concludes

\* ELPI one pattern after the other.
LEMMA LookUpFine ==
    ASSUME NEW job, NEW n, SameJob(job, n), job.pc = "Read", job.kind = "elpi",
           n.pc = IF job.phase = Len(Lookups) THEN "Apply" ELSE "Read", n.phase = job.phase + 1,
           NEW qs, NEW inf, NEW mine, NEW rows, Fine(job, qs, inf, mine, rows),
           n.read = job.read \cup (Lookups[job.phase] \cap Input(job, qs, inf, mine))
    PROVE  Fine(n, qs, inf, mine, rows)
  <1> DEFINE input    == Input(job, qs, inf, mine)
             asked(k) == UNION {Lookups[i] : i \in 1 .. k}
  <1>1. /\ n.kind = "elpi" /\ Input(n, qs, inf, mine) = input
        /\ job.phase \in 1 .. Len(Lookups) /\ job.read = input \cap asked(job.phase - 1)
    BY DEF Fine, Concludes, SameJob, Input
  <1>2. Len(Lookups) \in Nat /\ DOMAIN Lookups = 1 .. Len(Lookups) /\ job.phase \in Nat
    BY <1>1, ConstantsAssumption
  <1>3. asked(job.phase) = asked(job.phase - 1) \cup Lookups[job.phase]
    <2>1. \A i : i \in 1 .. job.phase <=> i \in 1 .. job.phase - 1 \/ i = job.phase
      BY <1>1, <1>2
    <2>2. QED  BY <2>1
  <1> HIDE DEF input
  <1>4. n.read = input \cap asked(job.phase)
    BY <1>1, <1>3 DEF input
  <1>5. asked(Len(Lookups)) = UNION Range(Lookups)
    BY <1>2 DEF Range
  <1> HIDE DEF asked
  <1>6. CASE job.phase = Len(Lookups)
    <2>1. n.pc = "Apply" /\ n.read = Reads(n, qs, inf, mine)
      BY <1>1, <1>4, <1>5, <1>6 DEF Reads
    <2>2. QED  BY <1>1, <2>1 DEF Fine, Fits, Iterates, Concludes
  <1>7. CASE job.phase # Len(Lookups)
    <2>1. n.pc = "Read" /\ n.phase \in 1 .. Len(Lookups) /\ n.phase - 1 = job.phase
      BY <1>1, <1>2, <1>7
    <2>2. n.read = Input(n, qs, inf, mine) \cap UNION {Lookups[i] : i \in 1 .. n.phase - 1}
      BY <1>1, <1>4, <2>1 DEF asked
    <2>3. QED  BY <1>1, <2>1, <2>2 DEF Fine, Fits, Iterates, Concludes
  <1>8. QED  BY <1>6, <1>7

\* An engine's conclusions replace those of its producer.
LEMMA ApplyFine ==
    ASSUME NEW job, NEW n, SameJob(job, n), job.pc = "Apply", n.pc = "Returned",
           NEW qs, NEW inf, NEW mine, NEW rows, Fine(job, qs, inf, mine, rows),
           NEW new, new = Follows(Engine, job.read),
           NEW inf2, inf2 = (inf \ mine) \cup new, NEW mine2, mine2 = new \ (inf \ mine)
    PROVE  Fine(n, qs, inf2, mine2, rows)
  <1>1. n.kind \in {"n3", "elpi"} /\ n.kind = job.kind /\ n.inferred = job.inferred
    BY DEF Fine, Fits, SameJob
  <1>2. inf2 \ mine2 = inf \ mine
    OBVIOUS
  <1>3. Reads(n, qs, inf2, mine2) = job.read
    BY <1>1, <1>2 DEF Fine, Concludes, Reads, Input
  <1>4. Exact(new, job.read, inf2, mine2)
    BY DEF Exact
  <1>5. Concludes(n, qs, inf2, mine2)
    BY <1>1, <1>3, <1>4 DEF Concludes
  <1>6. Fits(n) /\ \A facts : Iterates(n, facts, rows)
    BY <1>1 DEF Fits, Iterates
  <1>7. QED  BY <1>5, <1>6 DEF Fine-----------------------------------------------------------------------------
(***************************************************************************)
(* Steps.                                                                  *)
(***************************************************************************)
\* Job c is fine.
FineJob(c) == Fine(jobs[c], quads, inferred, ClaimedBy(jobs[c].producer), RowsOf(c))

\* The rows a run writes back are its rows, and those of other runs stay.
LEMMA WorkRows ==
    ASSUME NEW c, NEW rows, work' = WorkOf(c, rows)
    PROVE  RowsOf(c)' = rows /\ \A d : d # c => RowsOf(d)' = RowsOf(d)
  <1> DEFINE of(set, d) == {w \in set : w[1] = d}
  <1>1. \A r \in rows : <<c, r>>[1] = c /\ <<c, r>>[2] = r /\ <<c, r>> \in {c} \X rows
    OBVIOUS
  <1>2. \A w \in {c} \X rows : w[1] = c /\ w[2] \in rows
    OBVIOUS
  <1>3. of(work', c) = {c} \X rows /\ \A d : d # c => of(work', d) = of(work, d)
    BY <1>2 DEF WorkOf
  <1>4. \A d : RowsOf(d) = {w[2] : w \in of(work, d)} /\ RowsOf(d)' = {w[2] : w \in of(work', d)}
    BY DEF RowsOf
  <1> HIDE DEF of
  <1>5. {w[2] : w \in {c} \X rows} = rows
    BY <1>1, <1>2
  <1>6. QED  BY <1>3, <1>4, <1>5

\* A step of a job is of the same job.
LEMMA JobSame ==
    ASSUME TablesOK, jobs \in [Jobs -> JobRecords], JobInv, NEW c \in Jobs, Job(c)
    PROVE  /\ SameJob(jobs[c], jobs'[c])
           /\ \A d \in Jobs : d # c => jobs'[d] = jobs[d]
           /\ quads' = quads
  <1>1. PICK n : JobMoves(c, n)
    BY JobGoesOn
  <1>2. /\ n \in JobRecords /\ jobs' = [jobs EXCEPT ![c] = n]
        /\ n.kind = jobs[c].kind /\ n.producer = jobs[c].producer
        /\ n.inferred = jobs[c].inferred /\ n.iterated = jobs[c].iterated
    BY <1>1 DEF JobMoves, Becomes
  <1>3. jobs'[c] = n /\ jobs[c] \in JobRecords /\ \A d \in Jobs : d # c => jobs'[d] = jobs[d]
    BY <1>2
  <1>4. quads' = quads
    BY DEF Job, Seed, StepOnce, ReadRows, Write, CleanUp, OwlReset, OwlRound, ReadInput, Apply
  <1>5. QED  BY <1>2, <1>3, <1>4 DEF SameJob

\* The iteration.
LEMMA IterationFine ==
    ASSUME IInv, NEW c \in Jobs, FineJob(c), Seed(c) \/ StepOnce(c)
    PROVE  FineJob(c)'
  <1> DEFINE job   == jobs[c]
             facts == FactsOf(job, quads, inferred)
             mine  == ClaimedBy(job.producer)
  <1>0. /\ TablesOK /\ jobs \in [Jobs -> JobRecords] /\ JobInv /\ Job(c)
        /\ job \in JobRecords
        /\ UNCHANGED <<quads, inferred, source>>
    BY DEF IInv, Types, Job, Seed, StepOnce
  <1>1. SameJob(job, jobs'[c])
    BY <1>0, JobSame
  <1>2. job.phase \in 1 .. Len(Phases) /\ job.iterated /\ job.pc \in {"Seed", "Step"}
    BY <1>0 DEF JobInv, Seed, StepOnce
  <1>3. QuadSource(job) = facts /\ RowsOf(c) \in SUBSET Rows
    BY <1>0, RowsTyped DEF QuadSource, FactsOf
  <1>4. ClaimedBy(jobs[c].producer)' = mine
    BY <1>0, <1>1 DEF ClaimedBy, SameJob
  <1>5. ASSUME NEW rows, work' = WorkOf(c, rows), Fine(jobs'[c], quads, inferred, mine, rows)
        PROVE  FineJob(c)'
    <2>1. RowsOf(c)' = rows
      BY <1>5, WorkRows
    <2> HIDE DEF mine
    <2>2. QED  BY <1>0, <1>4, <1>5, <2>1 DEF FineJob
  <1>6. CASE Seed(c)
    <2> DEFINE rows == Grown(c, Phases[job.phase].seed, IF job.phase = 1 THEN {} ELSE RowsOf(c))
    <2>1. /\ job.pc = "Seed" /\ work' = WorkOf(c, rows)
          /\ jobs' = [jobs EXCEPT ![c].pc = "Step", ![c].round = 1, ![c].before = Cardinality(rows)]
      BY <1>6 DEF Seed
    <2>2. rows = Inserted(Phases[job.phase].seed, facts, IF job.phase = 1 THEN {} ELSE RowsOf(c), {})
      BY <1>3 DEF Grown
    <2> HIDE DEF rows, facts, mine
    <2>3. jobs'[c].pc = "Step" /\ jobs'[c].phase = job.phase /\ jobs'[c].before = Cardinality(rows)
      BY <1>0, <2>1 DEF JobRecords
    <2>4. Fine(jobs'[c], quads, inferred, mine, rows)
      BY <1>1, <1>2, <2>1, <2>2, <2>3, SeedFine DEF FineJob, facts, mine
    <2>5. QED  BY <1>5, <2>1, <2>4
  <1>7. CASE StepOnce(c)
    <2> DEFINE rows == Grown(c, Phases[job.phase].step, RowsOf(c))
               n    == jobs'[c]
    <2>1. /\ job.pc = "Step" /\ work' = WorkOf(c, rows)
          /\ \/ /\ Cardinality(rows) = job.before
                /\ jobs' = [jobs EXCEPT ![c].pc = "Seed", ![c].phase = @ + 1]
             \/ /\ Cardinality(rows) = job.before /\ job.phase = Len(Phases)
                /\ Moved(c, IF job.kind = "query" THEN "Rows" ELSE "Write")
             \/ Moved(c, "Failed")
             \/ jobs' = [jobs EXCEPT ![c].before = Cardinality(rows), ![c].round = @ + 1]
      BY <1>7 DEF StepOnce
    <2>2. rows = Inserted(Phases[job.phase].step, facts, RowsOf(c), {})
      BY <1>3 DEF Grown
    <2>3. rows \in SUBSET Rows
      BY <1>2, <1>3, <2>2, PhasesTyped, InsertedWithin
    <2> HIDE DEF rows, facts, mine
    <2>4. \/ Cardinality(rows) = job.before /\ n.pc = "Seed" /\ n.phase = job.phase + 1
          \/ /\ Cardinality(rows) = job.before /\ job.phase = Len(Phases)
             /\ n.pc = IF job.kind = "query" THEN "Rows" ELSE "Write"
          \/ n.pc = "Failed"
          \/ n.pc = "Step" /\ n.phase = job.phase /\ n.before = Cardinality(rows)
      BY <1>0, <2>1 DEF JobRecords, Moved
    <2>5. Fine(n, quads, inferred, mine, rows)
      BY <1>1, <1>2, <1>3, <2>1, <2>2, <2>3, <2>4, StepFine DEF FineJob, facts, mine
    <2>6. QED  BY <1>5, <2>1, <2>5
  <1>8. QED  BY <1>6, <1>7
\* What a producer claims is inferred.
LEMMA ClaimsInferred ==
    ASSUME Attributed(Tables), NEW p
    PROVE  ClaimedBy(p) \subseteq inferred
  BY DEF Attributed, Claims, Tables, ClaimedBy

\* Any step of the job.
LEMMA OwnStepFine ==
    ASSUME IInv, NEW c \in Jobs, FineJob(c), Job(c)
    PROVE  FineJob(c)'
  <1> DEFINE job == jobs[c]
             n   == jobs'[c]
  <1>0. /\ TablesOK /\ jobs \in [Jobs -> JobRecords] /\ JobInv /\ Attributed(Tables)
        /\ job \in JobRecords
    BY DEF IInv, Types
  <1>1. SameJob(job, n) /\ quads' = quads
    BY <1>0, JobSame
  <1>2. PICK p \in Producers : p = job.producer /\ p = n.producer
    BY <1>1 DEF SameJob, JobRecords
  <1>3. PICK mine : mine = ClaimedBy(p)
    OBVIOUS
  <1>4. PICK rows : rows = RowsOf(c)
    OBVIOUS
  <1>5. Fine(job, quads, inferred, mine, rows)
    BY <1>2, <1>3, <1>4 DEF FineJob
  <1>6. ASSUME Fine(n, quads, inferred', ClaimedBy(p)', RowsOf(c)')
        PROVE  FineJob(c)'
    <2>1. ClaimedBy(p)' = ClaimedBy(jobs[c].producer)'
      BY <1>2 DEF ClaimedBy
    <2>2. QED  BY <1>1, <1>6, <2>1 DEF FineJob
  <1>7. source' = source => ClaimedBy(p)' = mine
    BY <1>3 DEF ClaimedBy
  <1>8. work' = work => RowsOf(c)' = rows
    BY <1>4 DEF RowsOf
  <1>9. AfterLast(job) \in Pcs
    BY DEF AfterLast, Pcs
  <1>10. CASE Seed(c) \/ StepOnce(c)
    BY <1>10, IterationFine
  <1>11. CASE ReadRows(c)
    <2> DEFINE read == Fired(Goal, QuadSource(job) \cup RowsOf(c))
    <2>1. /\ job.pc = "Rows" /\ UNCHANGED <<inferred, source, work>>
          /\ jobs' = [jobs EXCEPT ![c].pc = AfterLast(job), ![c].read = read]
      BY <1>11 DEF ReadRows
    <2>2. read = Fired(Goal, FactsOf(job, quads, inferred) \cup rows)
      BY <1>4 DEF QuadSource, FactsOf
    <2> HIDE DEF read
    <2>3. n.pc = AfterLast(job) /\ n.read = read
      BY <1>0, <2>1 DEF JobRecords
    <2>4. Fine(n, quads, inferred, mine, rows)
      BY <1>1, <1>5, <2>1, <2>2, <2>3, ReadRowsFine
    <2>5. QED  BY <1>6, <1>7, <1>8, <2>1, <2>4
  <1>12. CASE Write(c)
    <2> DEFINE kept == Reset(Tables, job.producer)
               new  == Fired(Goal, quads \cup (IF job.inferred THEN kept.inferred ELSE {})
                                         \cup RowsOf(c))
    <2>1. /\ job.pc = "Write" /\ work' = work /\ Moved(c, AfterLast(job))
          /\ Applied(Attribute([Reset(Tables, p) EXCEPT !.inferred = @ \cup new], p))
      BY <1>2, <1>12 DEF Write
    <2>2. new \in SUBSET Conclusions
      BY FiredTyped, ConstantsAssumption
    <2>3. ~job.inferred => new = Fired(Goal, quads \cup rows)
      BY <1>4
    <2>4. PICK more \in SUBSET Conclusions : more = new
      BY <2>2
    <2> HIDE DEF new
    <2>5. inferred' = (inferred \ mine) \cup more /\ ClaimedBy(p)' = more \ (inferred \ mine)
      BY <1>0, <1>3, <2>1, <2>4, ReplacedClaims
    <2>6. n.pc = AfterLast(job)
      BY <1>0, <2>1 DEF Moved, JobRecords
    <2>7. Fine(n, quads, inferred', ClaimedBy(p)', rows)
      BY <1>1, <1>5, <2>1, <2>3, <2>4, <2>5, <2>6, WriteFine
    <2>8. QED  BY <1>6, <1>8, <2>1, <2>7
  <1>13. CASE CleanUp(c)
    <2>1. job.pc = "CleaningUp" /\ UNCHANGED <<inferred, source>> /\ Moved(c, "Returned")
      BY <1>13 DEF CleanUp
    <2>2. n.pc = "Returned" /\ n.read = job.read
      BY <1>0, <2>1 DEF Moved, JobRecords
    <2>3. Fine(n, quads, inferred, mine, RowsOf(c)')
      BY <1>1, <1>5, <2>1, <2>2, CleanUpFine
    <2>4. QED  BY <1>6, <1>7, <2>1, <2>3
  <1>14. CASE OwlReset(c)
    <2>1. job.pc = "Reset" /\ work' = work /\ Moved(c, "Round") /\ Applied(Reset(Tables, Owl))
      BY <1>14 DEF OwlReset
    <2>2. p = Owl
      BY <1>0, <1>2, <2>1 DEF JobInv
    <2>3. n.pc = "Round"
      BY <1>0, <2>1 DEF Moved, JobRecords
    <2>4. ClaimedBy(p)' = {}
      <3>1. Claimed(Reset(Tables, p), p) = {}
        BY <1>0, TablesTyped, ResetClaims
      <3>2. QED  BY <2>1, <2>2, <3>1 DEF Applied, Claimed, ClaimedBy
    <2>5. Fine(n, quads, inferred', {}, rows)
      BY <1>1, <1>5, <2>1, <2>3, OwlResetFine
    <2>6. QED  BY <1>6, <1>8, <2>1, <2>4, <2>5
  <1>15. CASE OwlRound(c)
    <2>1. /\ job.pc = "Round" /\ work' = work /\ Applied(Round)
          /\ jobs' = [jobs EXCEPT ![c].round = @ + 1,
                                  ![c].pc = IF Round = Tables \/ jobs[c].round + 1 >= MaxRounds
                                            THEN "Returned" ELSE "Round"]
      BY <1>15 DEF OwlRound
    <2>2. p = Owl
      BY <1>0, <1>2, <2>1 DEF JobInv
    <2>3. /\ inferred' = Inserted(Axioms, quads, inferred, quads)
          /\ ClaimedBy(p)' = mine \cup (inferred' \ inferred)
          /\ Round = Tables => inferred' = inferred
      BY <1>0, <1>3, <2>1, <2>2, RoundClaims
    <2>4. mine \subseteq inferred
      BY <1>0, <1>3, ClaimsInferred
    <2>5. /\ n.pc \in {"Round", "Returned"} /\ n.round = job.round + 1
          /\ n.pc = "Returned" => Round = Tables \/ job.round + 1 >= MaxRounds
      BY <1>0, <2>1 DEF JobRecords
    <2>6. n.pc = "Returned" /\ n.round < MaxRounds => inferred' = inferred
      <3>1. job.round \in Nat /\ MaxRounds \in Nat
        BY <1>0, ConstantsAssumption DEF JobRecords
      <3>2. QED  BY <2>3, <2>5, <3>1
    <2>7. Fine(n, quads, inferred', ClaimedBy(p)', rows)
      <3>1. PICK inf, inf2, mine2 : inf = inferred /\ inf2 = inferred' /\ mine2 = ClaimedBy(p)'
        OBVIOUS
      <3>2. inf2 = Inserted(Axioms, quads, inf, quads) /\ mine2 = mine \cup (inf2 \ inf)
        BY <2>3, <3>1
      <3>3. /\ job.pc = "Round" /\ n.pc \in {"Round", "Returned"} /\ mine \subseteq inf
            /\ n.pc = "Returned" /\ n.round < MaxRounds => inf2 = inf
            /\ Fine(job, quads, inf, mine, rows)
        BY <1>5, <2>1, <2>4, <2>5, <2>6, <3>1
      <3>4. Fine(n, quads, inf2, mine2, rows)
        BY <1>1, <3>2, <3>3, OwlRoundFine
      <3>5. QED  BY <3>1, <3>4
    <2>8. QED  BY <1>6, <1>8, <2>1, <2>7
  <1>16. CASE ReadInput(c)
    <2>1. job.pc = "Read" /\ UNCHANGED <<inferred, source, work>>
      BY <1>16 DEF ReadInput
    <2>2. ReasoningInput(job) = Input(job, quads, inferred, mine)
      BY <1>0, <1>2, <1>3, ReasoningReads DEF Input
    <2>3. Fine(n, quads, inferred, mine, rows)
      <3>1. CASE /\ job.kind = "n3"
                 /\ jobs' = [jobs EXCEPT ![c].pc = "Apply", ![c].read = ReasoningInput(job)]
        <4>1. n.pc = "Apply" /\ n.read = ReasoningInput(job)
          BY <1>0, <3>1 DEF JobRecords
        <4>2. QED  BY <1>1, <2>1, <2>2, <3>1, <4>1, ReadAtOnceFine
      <3>2. CASE /\ job.kind = "elpi"
                 /\ jobs' = [jobs EXCEPT ![c].phase = @ + 1,
                                         ![c].pc = IF job.phase = Len(Lookups) THEN "Apply" ELSE "Read",
                                         ![c].read = @ \cup (Lookups[job.phase]
                                                               \cap ReasoningInput(job))]
        <4>1. /\ n.pc = IF job.phase = Len(Lookups) THEN "Apply" ELSE "Read"
              /\ n.phase = job.phase + 1
              /\ n.read = job.read \cup (Lookups[job.phase] \cap ReasoningInput(job))
          BY <1>0, <3>2 DEF JobRecords
        <4>2. QED  BY <1>1, <1>5, <2>1, <2>2, <3>2, <4>1, LookUpFine
      <3>3. QED  BY <1>16, <3>1, <3>2 DEF ReadInput
    <2>4. QED  BY <1>6, <1>7, <1>8, <2>1, <2>3
  <1>17. CASE Apply(c)
    <2> DEFINE new == Follows(Engine, job.read)
    <2>1. /\ job.pc = "Apply" /\ work' = work /\ Moved(c, "Returned")
          /\ Applied(Attribute([Reset(Tables, p) EXCEPT !.inferred = @ \cup new], p))
      BY <1>2, <1>17 DEF Apply, Replaced
    <2>2. PICK more \in SUBSET Conclusions : more = new
      BY FollowsTyped, ConstantsAssumption
    <2> HIDE DEF new
    <2>3. inferred' = (inferred \ mine) \cup more /\ ClaimedBy(p)' = more \ (inferred \ mine)
      BY <1>0, <1>3, <2>1, <2>2, ReplacedClaims
    <2>4. n.pc = "Returned"
      BY <1>0, <2>1 DEF Moved, JobRecords
    <2>5. Fine(n, quads, inferred', ClaimedBy(p)', rows)
      BY <1>1, <1>5, <2>1, <2>2, <2>3, <2>4, ApplyFine DEF new
    <2>6. QED  BY <1>6, <1>8, <2>1, <2>5
  <1>18. QED  BY <1>10, <1>11, <1>12, <1>13, <1>14, <1>15, <1>16, <1>17 DEF Job
\* A job that starts is fine: it has no row in the work table.
LEMMA StartFine ==
    ASSUME IInv, NEW c \in Jobs, StartQuery(c) \/ StartRules(c) \/ StartOwl(c) \/ StartEngine(c)
    PROVE  FineJob(c)' /\ \A d \in Jobs : d # c => jobs'[d] = jobs[d]
  <1>0. jobs \in [Jobs -> JobRecords] /\ WorkInv
    BY DEF IInv, Types
  <1>1. PICK kind, p, include, iterated, pc :
           /\ Start(c, kind, p, include, iterated, pc)
           /\ \/ /\ kind \in {"query", "rules"}
                 /\ pc = IF iterated THEN "Seed" ELSE IF kind = "query" THEN "Rows" ELSE "Write"
              \/ kind = "owl" /\ pc = "Reset"
              \/ kind \in {"n3", "elpi"} /\ pc = "Read"
    <2>1. CASE StartQuery(c)
      BY <2>1 DEF StartQuery
    <2>2. CASE StartRules(c)
      BY <2>2 DEF StartRules
    <2>3. CASE StartOwl(c)
      BY <2>3 DEF StartOwl
    <2>4. CASE StartEngine(c)
      BY <2>4 DEF StartEngine
    <2>5. QED  BY <2>1, <2>2, <2>3, <2>4
  <1> DEFINE n == [NoJob EXCEPT !.kind = kind, !.pc = pc, !.producer = p, !.inferred = include,
                                !.iterated = iterated]
  <1>2. n.kind = kind /\ n.pc = pc /\ n.phase = 1 /\ n.iterated = iterated /\ n.read = {}
    BY DEF NoJob
  <1>3. /\ jobs' = [jobs EXCEPT ![c] = n] /\ jobs[c].pc = "Idle"
        /\ UNCHANGED <<quads, inferred, source, work>>
    <2>1. c >= c
      BY DEF Jobs
    <2>2. QED  BY <1>1, <2>1 DEF Start
  <1> HIDE DEF n
  <1>4. jobs'[c] = n /\ \A d \in Jobs : d # c => jobs'[d] = jobs[d]
    BY <1>0, <1>3
  <1>5. RowsOf(c)' = {}
    BY <1>0, <1>3 DEF WorkInv, RowsOf
  <1>6. ASSUME NEW qs, NEW inf, NEW mine
        PROVE  Fine(n, qs, inf, mine, {})
    <2>1. CASE /\ kind \in {"query", "rules"}
               /\ pc = IF iterated THEN "Seed" ELSE IF kind = "query" THEN "Rows" ELSE "Write"
      <3>1. ~iterated => \A facts : Fired(Goal, facts \cup {}) = Answer(n, facts)
        BY <1>2 DEF Answer
      <3>2. Fits(n) /\ Concludes(n, qs, inf, mine)
        BY <1>2, <2>1 DEF Fits, Concludes
      <3>3. \A facts : Iterates(n, facts, {})
        BY <1>2, <2>1, <3>1 DEF Iterates
      <3>4. QED  BY <3>2, <3>3 DEF Fine
    <2>2. CASE kind = "owl" /\ pc = "Reset"
      BY <1>2, <2>2 DEF Fine, Fits, Iterates, Concludes
    <2>3. CASE kind \in {"n3", "elpi"} /\ pc = "Read"
      <3>1. 1 \in 1 .. Len(Lookups)
        BY ConstantsAssumption
      <3>2. UNION {Lookups[i] : i \in 1 .. n.phase - 1} = {}
        BY <1>2
      <3>3. Fits(n) /\ \A facts : Iterates(n, facts, {})
        BY <1>2, <2>3 DEF Fits, Iterates
      <3>4. Concludes(n, qs, inf, mine)
        BY <1>2, <2>3, <3>1, <3>2 DEF Concludes
      <3>5. QED  BY <3>3, <3>4 DEF Fine
    <2>4. QED  BY <1>1, <2>1, <2>2, <2>3
  <1>7. QED  BY <1>4, <1>5, <1>6 DEF FineJob

\* The step of a job leaves the rows of the others.
LEMMA OthersRows ==
    ASSUME NEW c, Job(c), NEW d, d # c
    PROVE  RowsOf(d)' = RowsOf(d)
  <1>1. CASE Seed(c) \/ StepOnce(c)
    <2>1. PICK rows : work' = WorkOf(c, rows)
      BY <1>1 DEF Seed, StepOnce
    <2>2. QED  BY <2>1, WorkRows
  <1>2. CASE CleanUp(c)
    BY <1>2 DEF CleanUp, RowsOf
  <1>3. CASE ~(Seed(c) \/ StepOnce(c) \/ CleanUp(c))
    <2>1. work' = work
      BY <1>3 DEF Job, ReadRows, Write, OwlReset, OwlRound, ReadInput, Apply
    <2>2. QED  BY <2>1 DEF RowsOf
  <1>4. QED  BY <1>1, <1>2, <1>3

\* A job that a step of others does not disturb stays fine: what it depends on
\* is as it was.
LEMMA OthersFine ==
    ASSUME IInv, IInv', NEW d \in Jobs, FineJob(d), jobs'[d] = jobs[d], RowsOf(d)' = RowsOf(d),
           Depends(d)' = Depends(d)
    PROVE  FineJob(d)'
  <1> DEFINE job == jobs[d]
  <1>1. quads' = quads
    BY DEF Depends
  <1>2. CASE job.kind = "query" /\ ~job.inferred
    <2>1. \A inf, mine, i2, m2 : Fine(job, quads, inf, mine, RowsOf(d)) => Fine(job, quads, i2, m2, RowsOf(d))
      <3>1. ASSUME NEW inf, NEW mine, NEW i2, NEW m2, Fine(job, quads, inf, mine, RowsOf(d))
            PROVE  Fine(job, quads, i2, m2, RowsOf(d))
        <4>1. job.pc \notin {"Read", "Apply", "Round"}
          BY <1>2, <3>1 DEF Fine, Fits
        <4>2. Concludes(job, quads, i2, m2)
          BY <1>2, <4>1 DEF Concludes
        <4>3. QED  BY <1>2, <3>1, <4>2 DEF Fine
      <3>2. QED  BY <3>1
    <2>2. QED  BY <1>1, <2>1 DEF FineJob
  <1>3. CASE ~(job.kind = "query" /\ ~job.inferred)
    <2>1. source' = source
      BY <1>3 DEF Depends
    <2>2. inferred' = inferred
      <3>1. Attributed(Tables) /\ Attributed(Tables)'
        BY DEF IInv
      <3>2. /\ \A q : q \in inferred <=> \E s \in source : s[2] = q
            /\ \A q : q \in inferred' <=> \E s \in source' : s[2] = q
        BY <3>1 DEF Attributed, Claims, Tables
      <3>3. QED  BY <2>1, <3>2
    <2>3. ClaimedBy(jobs[d].producer)' = ClaimedBy(jobs[d].producer)
      BY <2>1 DEF ClaimedBy
    <2>4. QED  BY <1>1, <2>2, <2>3 DEF FineJob
  <1>4. QED  BY <1>2, <1>3

\* A step keeps the jobs that nothing disturbed fine.
LEMMA StepFineInv ==
    ASSUME IInv, FineInv, Step, disturbed' = Disturbed
    PROVE  FineInv'
  <1>0. IInv' /\ jobs \in [Jobs -> JobRecords] /\ TablesOK /\ JobInv
    BY StepKeeps DEF IInv, Types
  <1>1. ASSUME NEW d \in Jobs, d \notin disturbed', jobs[d].pc # "Idle"
        PROVE  FineJob(d) /\ (jobs'[d] = jobs[d] => Depends(d)' = Depends(d))
    BY <1>1 DEF Disturbed, FineInv, FineJob
  <1>2. SUFFICES ASSUME NEW d \in Jobs, d \notin disturbed', jobs'[d].pc # "Idle"
                 PROVE  FineJob(d)'
    BY DEF FineInv, FineJob
  <1>3. ASSUME jobs'[d] = jobs[d], RowsOf(d)' = RowsOf(d)
        PROVE  FineJob(d)'
    BY <1>0, <1>1, <1>2, <1>3, OthersFine
  <1>4. ASSUME NEW c \in Jobs, StartQuery(c) \/ StartRules(c) \/ StartOwl(c) \/ StartEngine(c)
        PROVE  FineJob(d)'
    <2>1. FineJob(c)' /\ (d # c => jobs'[d] = jobs[d])
      BY <1>4, StartFine
    <2>2. work' = work
      BY <1>4 DEF StartQuery, StartRules, StartOwl, StartEngine, Start
    <2>3. RowsOf(d)' = RowsOf(d)
      BY <2>2 DEF RowsOf
    <2>4. QED  BY <1>3, <2>1, <2>3
  <1>5. ASSUME NEW c \in Jobs, Job(c)
        PROVE  FineJob(d)'
    <2>1. CASE d = c
      <3>1. jobs[c].pc # "Idle"
        BY <1>5 DEF Job, Seed, StepOnce, ReadRows, Write, CleanUp, OwlReset, OwlRound, ReadInput, Apply
      <3>2. QED  BY <1>1, <1>2, <1>5, <2>1, <3>1, OwnStepFine
    <2>2. CASE d # c
      <3>1. jobs'[d] = jobs[d]
        BY <1>0, <1>5, <2>2, JobSame
      <3>2. RowsOf(d)' = RowsOf(d)
        BY <1>5, <2>2, OthersRows
      <3>3. QED  BY <1>3, <3>1, <3>2
    <2>3. QED  BY <2>1, <2>2
  <1>6. ASSUME NEW c \in Jobs, Abandon(c)
        PROVE  FineJob(d)'
    <2>1. Moved(c, "Failed") /\ work' = work
      BY <1>6 DEF Abandon
    <2>2. RowsOf(d)' = RowsOf(d)
      BY <2>1 DEF RowsOf
    <2>3. CASE d = c
      <3>1. jobs'[d].pc = "Failed"
        BY <1>0, <2>1, <2>3 DEF Moved, JobRecords
      <3>2. QED  BY <3>1, FailedFine DEF FineJob
    <2>4. CASE d # c
      <3>1. jobs'[d] = jobs[d]
        BY <1>0, <2>1, <2>4 DEF Moved
      <3>2. QED  BY <1>3, <2>2, <3>1
    <2>5. QED  BY <2>3, <2>4
  <1>7. CASE WriteQuad \/ ClearInferences \/ Clear \/ \E p \in Producers : ClearInferencesOf(p)
    <2>1. UNCHANGED <<work, jobs>>
      BY <1>7 DEF WriteQuad, ClearInferences, Clear, ClearInferencesOf, Called
    <2>2. RowsOf(d)' = RowsOf(d)
      BY <2>1 DEF RowsOf
    <2>3. QED  BY <1>3, <2>1, <2>2
  <1>8. QED  BY <1>4, <1>5, <1>6, <1>7 DEF Step

\* An evaluation that no other step meets is exact, for every stratified
\* program, rules of OWL and engine, and any number of jobs: a query returns
\* the answer of the least model of its components, a materialization leaves
\* what follows from its input and its producer claims nothing else
\* (DatalogJob, MaterializeJob, materialize_job, reasoning_input_job).
THEOREM AnswersAreTheModels == Spec => []AnswersAreExact
  <1>1. ASSUME Init
        PROVE  FineInv
    <2>1. \A c \in Jobs : jobs[c].pc = "Idle"
      BY <1>1 DEF Init, NoJob
    <2>2. QED  BY <2>1 DEF FineInv
  <1>2. ASSUME IInv, FineInv, [Next]_vars
        PROVE  FineInv'
    <2>1. CASE Next
      BY <1>2, <2>1, StepFineInv DEF Next
    <2>2. CASE UNCHANGED vars
      BY <1>2, <2>2 DEF vars, FineInv, ClaimedBy, RowsOf
    <2>3. QED  BY <1>2, <2>1, <2>2
  <1>3. ASSUME FineInv
        PROVE  AnswersAreExact
    <2>1. ASSUME NEW c \in Jobs \ disturbed, jobs[c].pc # "Idle"
          PROVE  Fine(jobs[c], quads, inferred, ClaimedBy(jobs[c].producer), RowsOf(c))
      BY <1>3, <2>1 DEF FineInv
    <2>2. QueriesAnswerTheModel
      <3>1. ASSUME NEW c \in Jobs \ disturbed, jobs[c].kind = "query",
                   jobs[c].pc \in {"CleaningUp", "Returned"}
            PROVE  jobs[c].read = Answer(jobs[c], QuadSource(jobs[c]))
        BY <2>1, <3>1 DEF Fine, Iterates, QuadSource
      <3>2. QED  BY <3>1 DEF QueriesAnswerTheModel
    <2>3. MaterializationsAreExact
      <3>1. ASSUME NEW c \in Jobs \ disturbed, jobs[c].pc = "Returned"
            PROVE  Concludes(jobs[c], quads, inferred, ClaimedBy(jobs[c].producer))
        BY <2>1, <3>1 DEF Fine
      <3>2. QED  BY <3>1 DEF MaterializationsAreExact, Concludes, Exact, Reads, Input, OwlRules
    <2>4. QED  BY <2>2, <2>3 DEF AnswersAreExact
  <1>4. QED  BY <1>1, <1>2, <1>3, Invariant, PTL DEF Spec
=============================================================================
