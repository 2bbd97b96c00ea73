SPECIFICATION Spec
CONSTANTS
    a = a  b = b  c = c  d = d  w = w  x = x  y = y  z = z
    Owl = owl
    Producers = {owl, rules}
    Quads = {a, b}
    Loaded <- MCLoaded
    Conclusions = {c, d}
    Rows = {w, x, y, z}
    Phases <- MCPhases
    Goal <- MCGoal
    Axioms <- MCAxioms
    Engine <- MCEngine
    Lookups <- MCLookups
    MaxIterations = 2
    MaxRounds = 3
    MaxJobs = 2
    MaxCalls = 1
CHECK_DEADLOCK FALSE
INVARIANTS
    TypeOK
    TablesAreAttributed
    AnswersAreExact
PROPERTIES
    OthersConclusionsStay
    JobsEnd
