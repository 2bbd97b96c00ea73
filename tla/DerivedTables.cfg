SPECIFICATION Spec
CONSTANTS
    t1 = t1
    t2 = t2
    Nodes <- MCNodes
    Literals <- MCLiterals
    Blanks <- MCBlanks
    Rank <- MCRank
    IntOf <- MCIntOf
    Dim <- MCDim
    Distance <- MCDistance
    Threads = {t1, t2}
    MaxCalls = 2
    Datasets <- MCDatasets
    Written <- MCWritten
    Updates <- MCUpdates
    NewIndexes <- MCIndexes
    Registrations <- MCRegistrations
    Graphs = {"g", "default"}
SYMMETRY Permuted
CHECK_DEADLOCK FALSE
INVARIANTS
    DerivedTablesFollow
    DerivedAnswersAreTrue
