SPECIFICATION Spec
CONSTANTS
    HostOnly <- MCHostOnly
    Null = Null
    SqlNull = SqlNull
    Window = 2
    Queries <- MCQueries
    Datasets <- MCDatasets
    Terms <- MCTerms
    Strings <- MCStrings
    Lexicals <- MCLexicals
    Patterns <- MCPatterns
    Fraction = 4
    Magnitude = 17
INVARIANTS
    AnswersAreTheAlgebras
    ExpressionsAreSparqls
