SPECIFICATION Spec
CONSTANTS
    Statements <- Asked
    Stored <- Graphs
    Shapes <- Guards
    DatatypeOf <- IntOf
    FirstId = 7
    MaxStatements = 1
CHECK_DEADLOCK FALSE
INVARIANTS
    StatementsDoAsTheySay
    GraphsStayWellFormed
