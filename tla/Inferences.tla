----------------------------- MODULE Inferences -----------------------------
(***************************************************************************)
(* Materialized inferences and the jobs that compute them: Datalog queries *)
(* and materializations that iterate in the shared work table, OWL 2 RL    *)
(* rounds, and engines that reason in memory (N3, ELPI, reasonable).       *)
(*                                                                         *)
(* A job is a sequence of requests.  Each request is atomic, jobs and      *)
(* calls of users interleave between requests, and a job may end at any    *)
(* request: the backend fails it, or its process dies.                     *)
(*                                                                         *)
(* Rules are ground: [head, body, absent] derives head from the facts of   *)
(* body when no fact of absent holds.  A SQL statement is the set of the   *)
(* ground rules of one rule; statements of a request run in their order.   *)
(***************************************************************************)
EXTENDS Naturals, Sequences, FiniteSets, SequencesExt

CONSTANTS
    Producers,     \* the names materializations run under
    Owl,           \* OWL_PRODUCER
    Quads,         \* what users may assert
    Loaded,        \* the sets of quads a store may hold at first
    Conclusions,   \* what rules may conclude, as quads
    Rows,          \* the rows of relations iterated in datalog_work
    Phases,        \* Fixpoint.phases of the Datalog program: [seed, step]
    Goal,          \* its relations that need no iteration, as one statement
    Axioms,        \* the rules of materialize_round
    Engine,        \* the rules of an in-memory engine
    Lookups,       \* the patterns an ELPI program asks for, in its order
    MaxIterations, \* Options.max_iterations
    MaxRounds,     \* MAX_MATERIALIZE_ROUNDS
    MaxJobs,       \* bound: jobs started
    MaxCalls       \* bound: writes and clears of users

Facts == Quads \cup Conclusions \cup Rows

\* The statements whose rules conclude one of heads.
Statements(heads) == SUBSET [head : heads, body : SUBSET Facts, absent : SUBSET Facts]

ASSUME ConstantsAssumption ==
    /\ Owl \in Producers
    /\ Loaded \subseteq SUBSET Quads
    /\ Phases \in Seq([seed : Seq(Statements(Rows)), step : Seq(Statements(Rows))])
    /\ Goal \in Statements(Conclusions) /\ Engine \in Statements(Conclusions)
    /\ Axioms \in Seq(Statements(Conclusions))
    /\ Lookups \in Seq(SUBSET Facts)
    /\ Phases # <<>> /\ Lookups # <<>>
    /\ IsFiniteSet(Rows)
    /\ MaxIterations \in Nat /\ MaxRounds \in Nat /\ MaxJobs \in Nat /\ MaxCalls \in Nat

\* The rules of a component, and what they conclude.
RulesOf(n) == UNION (Range(Phases[n].seed) \cup Range(Phases[n].step))
Heads(n)   == {r.head : r \in RulesOf(n)}

\* Programs are stratified (check_stratification), the seed of a component has its
\* rules without a recursive atom (fixpoint); the rules of OWL 2 RL are positive.
ASSUME ProgramAssumption ==
    /\ \A n \in 1 .. Len(Phases) :
          /\ \A r \in RulesOf(n) : r.absent \cap Heads(n) = {}
          /\ \A r \in UNION Range(Phases[n].seed) : r.body \cap Heads(n) = {}
    /\ \A r \in UNION Range(Axioms) : r.absent = {}

VARIABLES
    quads,      \* the asserted quads
    inferred,   \* quads_inf
    source,     \* quads_inf_src: producer, quad
    named,      \* inf_producers
    work,       \* datalog_work: run, row
    jobs,       \* the jobs, numbered as they start; the number is the run id (new_run)
    calls       \* the calls of users so far

\* History variables, read by no action.
VARIABLES
    derived,    \* what each producer concluded in its last run, new to the store or not
    disturbed   \* the jobs whose input another step has changed

vars == <<quads, inferred, source, named, work, jobs, calls, derived, disturbed>>

Kinds == {"query", "rules", "owl", "n3", "elpi"}
NoJob == [kind |-> "none", pc |-> "Idle", producer |-> Owl, inferred |-> FALSE,
          iterated |-> FALSE, phase |-> 1, before |-> 0, round |-> 0, read |-> {}]

Jobs      == 1 .. MaxJobs
Active(c) == jobs[c].pc \notin {"Idle", "Returned", "Failed"}

-----------------------------------------------------------------------------
(***************************************************************************)
(* Rules and statements.                                                   *)
(***************************************************************************)
Fires(r, facts)      == r.body \subseteq facts /\ r.absent \cap facts = {}
Fired(stmt, facts)   == {r.head : r \in {x \in stmt : Fires(x, facts)}}

\* INSERT OR IGNORE of one statement after the other into rows, but for the rows in except.
Inserted(stmts, facts, rows, except) ==
    LET after[n \in 0 .. Len(stmts)] ==
            IF n = 0 THEN rows
            ELSE after[n - 1] \cup (Fired(stmts[n], facts \cup after[n - 1]) \ except)
    IN  after[Len(stmts)]

\* Mutant of RowsOf: the run is not in the WHERE clause.
RowsOfAnyRun(run) == {w[2] : w \in work}
RowsOf(run)       == {w[2] : w \in {x \in work : x[1] = run}}

\* quad_source: the asserted quads, with include_inferred the inferences too.
QuadSource(job) == quads \cup (IF job.inferred THEN inferred ELSE {})

\* reasoning_input_job: no inference that only the job's producer derived.
ReasoningInput(job) ==
    quads \cup (IF job.inferred
                THEN {q \in inferred : \E s \in source : s[2] = q /\ s[1] # job.producer}
                ELSE {})

Moved(c, to) == jobs' = [jobs EXCEPT ![c].pc = to]

-----------------------------------------------------------------------------
(***************************************************************************)
(* The statements on inferences.  A table is [inferred, source].           *)
(***************************************************************************)
Tables == [inferred |-> inferred, source |-> source]

\* Mutant of Reset: every inference goes, whoever derived it.
ResetEverything(t, p) == [inferred |-> {}, source |-> {}]

\* inference_reset
Reset(t, p) ==
    LET left == {s \in t.source : s[1] # p}
    IN  [inferred |-> {q \in t.inferred : \E s \in left : s[2] = q}, source |-> left]

\* inference_attribute: the quads that no producer claims are p's.
\* Mutant: the attribution is forgotten.
AttributeNothing(t, p) == t

Attribute(t, p) ==
    [t EXCEPT !.source = @ \cup {<<p, q>> : q \in {x \in t.inferred :
                                                      ~\E s \in t.source : s[2] = x}}]

Applied(t) == inferred' = t.inferred /\ source' = t.source

\* A run of p concludes qs, whoever else did before.
Derives(p, qs) == derived' = {x \in derived : x[1] # p} \cup ({p} \X qs)

\* inference_replace.
Replaced(p, qs) ==
    LET kept == Reset(Tables, p)
    IN  Attribute([kept EXCEPT !.inferred = @ \cup qs], p)

-----------------------------------------------------------------------------
(***************************************************************************)
(* Starting a job.                                                         *)
(***************************************************************************)
Start(c, kind, p, include, iterated, pc) ==
    /\ \A j \in Jobs : jobs[j].pc = "Idle" <=> j >= c
    /\ jobs' = [jobs EXCEPT ![c] = [NoJob EXCEPT !.kind = kind, !.pc = pc, !.producer = p,
                                                 !.inferred = include, !.iterated = iterated]]
    /\ UNCHANGED <<quads, inferred, source, named, work, calls, derived>>

\* datalog_with, with and without a component that must be iterated.
StartQuery(c) ==
    \E include \in BOOLEAN, iterated \in BOOLEAN :
        Start(c, "query", Owl, include, iterated, IF iterated THEN "Seed" ELSE "Rows")

\* datalog_materialize_with
StartRules(c) ==
    \E p \in Producers \ {Owl}, include \in BOOLEAN, iterated \in BOOLEAN :
        Start(c, "rules", p, include, iterated, IF iterated THEN "Seed" ELSE "Write")

\* materialize
StartOwl(c) == Start(c, "owl", Owl, TRUE, FALSE, "Reset")

\* n3_materialize_with, elpi materialize; reasonable reads as N3 does, for Owl
StartEngine(c) ==
    \/ \E p \in Producers, include \in BOOLEAN :
          /\ p = Owl => ~include
          /\ Start(c, "n3", p, include, FALSE, "Read")
    \/ \E p \in Producers \ {Owl}, include \in BOOLEAN :
          Start(c, "elpi", p, include, FALSE, "Read")

-----------------------------------------------------------------------------
(***************************************************************************)
(* The iteration that DatalogJob and MaterializeJob share.                 *)
(***************************************************************************)
\* The rows of a run after statements that read the store and the work table.
Grown(c, stmts, rows) == Inserted(stmts, QuadSource(jobs[c]), rows, {})

\* Mutant of WorkOf: the rows are written without their run.
WorkOfNoRun(c, rows) == {w \in work : w[1] # c} \cup ({0} \X rows)

WorkOf(c, rows) ==
    {w \in work : w[1] # c} \cup ({c} \X rows)

\* seed: the first phase removes what a run under this id left.
Seed(c) ==
    LET job  == jobs[c]
        rows == Grown(c, Phases[job.phase].seed, IF job.phase = 1 THEN {} ELSE RowsOf(c))
    IN  /\ job.pc = "Seed"
        /\ work' = WorkOf(c, rows)
        /\ jobs' = [jobs EXCEPT ![c].pc = "Step", ![c].round = 1, ![c].before = Cardinality(rows)]
        /\ UNCHANGED <<quads, inferred, source, named, calls, derived>>

\* Mutant of StepOnce: the last component never counts as converged.
StepOnceNeverConverges(c) ==
    LET job   == jobs[c]
        rows  == Grown(c, Phases[job.phase].step, RowsOf(c))
        after == Cardinality(rows)
    IN  /\ job.pc = "Step"
        /\ work' = WorkOf(c, rows)
        /\ IF after = job.before /\ job.phase < Len(Phases)
           THEN jobs' = [jobs EXCEPT ![c].pc = "Seed", ![c].phase = @ + 1]
           ELSE jobs' = [jobs EXCEPT ![c].before = after]
        /\ UNCHANGED <<quads, inferred, source, named, calls, derived>>

\* step_once, and what step makes of the count it returns.
StepOnce(c) ==
    LET job   == jobs[c]
        rows  == Grown(c, Phases[job.phase].step, RowsOf(c))
        after == Cardinality(rows)
    IN  /\ job.pc = "Step"
        /\ work' = WorkOf(c, rows)
        /\ \/ /\ after = job.before
              /\ job.phase < Len(Phases)
              /\ jobs' = [jobs EXCEPT ![c].pc = "Seed", ![c].phase = @ + 1]
           \/ /\ after = job.before
              /\ job.phase = Len(Phases)
              /\ Moved(c, IF job.kind = "query" THEN "Rows" ELSE "Write")
           \/ \* IterationLimit: the job ends here
              /\ after # job.before
              /\ job.round >= MaxIterations
              /\ Moved(c, "Failed")
           \/ /\ after # job.before
              /\ job.round < MaxIterations
              /\ jobs' = [jobs EXCEPT ![c].before = after, ![c].round = @ + 1]
        /\ UNCHANGED <<quads, inferred, source, named, calls, derived>>

\* After its last statement a job that iterated cleans up.
AfterLast(job) == IF job.iterated THEN "CleaningUp" ELSE "Returned"

\* main_query: the rows of the goal.
ReadRows(c) ==
    LET job == jobs[c]
    IN  /\ job.pc = "Rows"
        /\ jobs' = [jobs EXCEPT ![c].pc = AfterLast(job),
                                ![c].read = Fired(Goal, QuadSource(job) \cup RowsOf(c))]
        /\ UNCHANGED <<quads, inferred, source, named, work, calls, derived>>

\* plan: the reset, the relation of the heads inserted, the attribution.
Write(c) ==
    LET job  == jobs[c]
        kept == Reset(Tables, job.producer)
        new  == Fired(Goal, quads \cup (IF job.inferred THEN kept.inferred ELSE {})
                                  \cup RowsOf(c))
    IN  /\ job.pc = "Write"
        /\ Applied(Attribute([kept EXCEPT !.inferred = @ \cup new], job.producer))
        /\ Derives(job.producer, new)
        /\ named' = named \cup {job.producer}
        /\ Moved(c, AfterLast(job))
        /\ UNCHANGED <<quads, work, calls>>

CleanUp(c) ==
    /\ jobs[c].pc = "CleaningUp"
    /\ work' = {w \in work : w[1] # c}
    /\ Moved(c, "Returned")
    /\ UNCHANGED <<quads, inferred, source, named, calls, derived>>

-----------------------------------------------------------------------------
(***************************************************************************)
(* OWL 2 RL rounds (materialize_job).                                      *)
(***************************************************************************)
OwlReset(c) ==
    /\ jobs[c].pc = "Reset"
    /\ Applied(Reset(Tables, Owl))
    /\ Derives(Owl, {})
    /\ named' = named \cup {Owl}
    /\ Moved(c, "Round")
    /\ UNCHANGED <<quads, work, calls>>

\* Every rule inserts what is not asserted, then the new inferences are claimed.
Round == Attribute([Tables EXCEPT !.inferred = Inserted(Axioms, quads, inferred, quads)], Owl)

\* The count of the inferences that follows the last round changes nothing.
OwlRound(c) ==
    /\ jobs[c].pc = "Round"
    /\ Applied(Round)
    /\ derived' = derived \cup ({Owl} \X Inserted(Axioms, quads \cup inferred, {}, quads))
    /\ jobs' = [jobs EXCEPT ![c].round = @ + 1,
                            ![c].pc = IF Round = Tables \/ jobs[c].round + 1 >= MaxRounds
                                      THEN "Returned" ELSE "Round"]
    /\ UNCHANGED <<quads, named, work, calls>>

-----------------------------------------------------------------------------
(***************************************************************************)
(* Engines that reason in memory: N3 reads its input in one request, ELPI  *)
(* asks for one pattern after the other while it runs.                     *)
(***************************************************************************)
\* What follows from facts by rules that only add: in every set that holds the
\* facts and is closed under the rules.  External: eyeron, lean-elpi, reasonable.
Closed(rules, set)   == \A r \in rules : Fires(r, set) => r.head \in set
Follows(rules, facts) ==
    LET over == {r.head : r \in rules} \ facts
    IN  {f \in over : \A s \in SUBSET over : Closed(rules, facts \cup s) => f \in s}

ReadInput(c) ==
    LET job == jobs[c]
    IN  /\ job.pc = "Read"
        /\ \/ /\ job.kind = "n3"
              /\ jobs' = [jobs EXCEPT ![c].pc = "Apply", ![c].read = ReasoningInput(job)]
           \/ /\ job.kind = "elpi"
              /\ jobs' = [jobs EXCEPT ![c].phase = @ + 1,
                                      ![c].pc = IF job.phase = Len(Lookups) THEN "Apply" ELSE "Read",
                                      ![c].read = @ \cup (Lookups[job.phase]
                                                            \cap ReasoningInput(job))]
        /\ UNCHANGED <<quads, inferred, source, named, work, calls, derived>>

Apply(c) ==
    LET job == jobs[c]
        new == Follows(Engine, job.read)
    IN  /\ job.pc = "Apply"
        /\ Applied(Replaced(job.producer, new))
        /\ Derives(job.producer, new)
        /\ named' = named \cup {job.producer}
        /\ Moved(c, "Returned")
        /\ UNCHANGED <<quads, work, calls>>

-----------------------------------------------------------------------------
\* A request fails, a limit of the engine or a fuse ends the job, its process dies.
Abandon(c) ==
    /\ Active(c)
    /\ Moved(c, "Failed")
    /\ UNCHANGED <<quads, inferred, source, named, work, calls, derived>>

Called ==
    /\ calls < MaxCalls
    /\ calls' = calls + 1
    /\ UNCHANGED <<work, jobs>>

\* A user inserts or removes a quad.
WriteQuad ==
    /\ Called
    /\ \E q \in Quads : quads' = IF q \in quads THEN quads \ {q} ELSE quads \cup {q}
    /\ UNCHANGED <<inferred, source, named, derived>>

ClearInferences ==
    /\ Called
    /\ Applied([inferred |-> {}, source |-> {}])
    /\ derived' = {}
    /\ UNCHANGED <<quads, named>>

ClearInferencesOf(p) ==
    /\ Called
    /\ Applied(Reset(Tables, p))
    /\ Derives(p, {})
    /\ named' = named \cup {p}
    /\ UNCHANGED quads

\* clear_job
Clear ==
    /\ Called
    /\ quads' = {}
    /\ Applied([inferred |-> {}, source |-> {}])
    /\ derived' = {}
    /\ named' = {}

Job(c) ==
    \/ Seed(c) \/ StepOnce(c) \/ ReadRows(c) \/ Write(c) \/ CleanUp(c)
    \/ OwlReset(c) \/ OwlRound(c)
    \/ ReadInput(c) \/ Apply(c)

Step ==
    \/ \E c \in Jobs : \/ StartQuery(c) \/ StartRules(c) \/ StartOwl(c) \/ StartEngine(c)
                          \/ Job(c) \/ Abandon(c)
    \/ WriteQuad \/ ClearInferences \/ Clear
    \/ \E p \in Producers : ClearInferencesOf(p)

\* What a job's outcome depends on.  Queries without inferences read no table of theirs.
Depends(c) == <<quads, IF jobs[c].kind = "query" /\ ~jobs[c].inferred THEN {} ELSE source>>

Disturbed == {c \in Jobs : /\ jobs[c].pc # "Idle"
                           /\ \/ c \in disturbed
                              \/ jobs'[c] = jobs[c] /\ Depends(c)' # Depends(c)}

Next == Step /\ disturbed' = Disturbed

Init ==
    /\ quads \in Loaded
    /\ inferred = {} /\ source = {} /\ named = {} /\ work = {}
    /\ jobs = [c \in Jobs |-> NoJob]
    /\ calls = 0
    /\ derived = {} /\ disturbed = {}

\* A job goes on.
Spec == Init /\ [][Next]_vars /\ \A c \in Jobs : WF_vars(Job(c) /\ disturbed' = Disturbed)

-----------------------------------------------------------------------------
(***************************************************************************)
(* Properties.                                                             *)
(***************************************************************************)
\* The types of the state.
TypeOK ==
    /\ quads \subseteq Quads
    /\ inferred \subseteq Conclusions
    /\ source \subseteq Producers \X Conclusions
    /\ named \subseteq Producers
    /\ work \subseteq Jobs \X Rows
    /\ \A c \in Jobs : /\ jobs[c].kind \in Kinds \cup {"none"}
                          /\ jobs[c].read \subseteq Facts
    /\ derived \subseteq Producers \X Conclusions
    /\ disturbed \subseteq Jobs

\* Every materialized inference has one producer, and no attribution outlives its
\* inference (inference_reset, inference_attribute), however materializations,
\* clears and failures interleave.
EveryInferenceHasItsProducer ==
    /\ inferred = {s[2] : s \in source}
    /\ \A s, t \in source : s[2] = t[2] => s[1] = t[1]

\* The least model of a component above what is below it.
Least(n, below) ==
    LET rules == {r \in RulesOf(n) : r.absent \cap below = {}}
    IN  below \cup Follows({[r EXCEPT !.absent = {}] : r \in rules}, below)

\* The meaning of the program: one component on top of the other.
Model(facts) ==
    LET upTo[n \in 0 .. Len(Phases)] == IF n = 0 THEN facts ELSE Least(n, upTo[n - 1])
    IN  upTo

\* What a job's goal has in it.
Answer(job, facts) ==
    Fired(Goal, IF job.iterated THEN Model(facts)[Len(Phases)] ELSE facts)

\* A query that returns has the answer the rules mean, unless a write met it: rounds
\* stop neither too early nor on a count that holds rows of concurrent or of
\* abandoned evaluations (DatalogJob::step, the run column of datalog_work).
QueriesAnswerTheModel ==
    \A c \in Jobs \ disturbed :
        jobs[c].kind = "query" /\ jobs[c].pc \in {"CleaningUp", "Returned"}
            => jobs[c].read = Answer(jobs[c], QuadSource(jobs[c]))

ClaimedBy(p) == {s[2] : s \in {x \in source : x[1] = p}}

\* A materialization that no other step met leaves what follows from its input, and
\* attributes to its producer nothing that does not: conclusions whose premises are
\* gone go, and a producer never feeds on its own (inference_replace,
\* reasoning_input_job, MaterializeJob, materialize_job).
MaterializationsAreExact ==
    \A c \in Jobs \ disturbed :
        LET job    == jobs[c]
            others == inferred \ ClaimedBy(job.producer)
            exact(all, over) == ClaimedBy(job.producer) \subseteq all /\ all \ over \subseteq inferred
        IN  job.pc = "Returned" =>
               /\ job.kind = "rules" /\ ~job.inferred =>
                      exact(Answer(job, quads), {})
               /\ job.kind \in {"n3", "elpi"} =>
                      LET input == quads \cup (IF job.inferred THEN others ELSE {})
                          read  == IF job.kind = "n3" THEN input
                                   ELSE input \cap UNION Range(Lookups)
                      IN  exact(Follows(Engine, read), read)
               /\ job.kind = "owl" /\ job.round < MaxRounds =>
                      exact(Follows(UNION Range(Axioms), quads \cup others), quads)

\* A step of producer p: its conclusions are cleared, or a job of p goes on.
StepOf(p) ==
    \/ ClearInferencesOf(p)
    \/ \E c \in Jobs : jobs'[c] # jobs[c] /\ jobs[c].producer = p

\* Short of clearing everything, a conclusion goes only by a step of a producer that
\* derived it, and if several did, of the first, which claims it.  What only others
\* derived stays while a producer is recomputed, cleared or cut short, and so does
\* what others derived before it ("one producer can be recomputed without discarding
\* the others' conclusions"; inference_reset, inference_attribute).
OthersConclusionsStay ==
    [][~(ClearInferences \/ Clear) =>
          \A q \in inferred \ inferred' : \E p \in Producers : <<p, q>> \in derived \cap source /\ StepOf(p)]_vars

\* Work rows belong to an evaluation that is under way or was cut short.
ReturnedRunsLeaveNothing ==
    \A c \in Jobs : jobs[c].pc = "Returned" => RowsOf(c) = {}

\* Every evaluation ends: rounds are bounded (max_iterations, MAX_MATERIALIZE_ROUNDS).
JobsEnd == \A c \in Jobs : []<>~Active(c)

\* The producer an inference is attributed to derived it in its last run.
ProducersDerived == source \subseteq derived

\* The tables of inferences and of work rows say whose they are: inferences
\* have one producer each, one that derived it, and an evaluation that
\* returned left no work behind, however evaluations, clears and failures
\* interleave.
TablesAreAttributed ==
    EveryInferenceHasItsProducer /\ ProducersDerived /\ ReturnedRunsLeaveNothing

\* An evaluation that nothing disturbed is exact: a query has the answer its
\* rules mean, a materialization leaves what follows from its input and
\* nothing else (DatalogJob, MaterializeJob, materialize_job).
AnswersAreExact == QueriesAnswerTheModel /\ MaterializationsAreExact
=============================================================================
