CONSTANTS
    IdOrder <- MCIdOrder
    Kind <- MCKind
    Parts <- MCParts
    Variables <- MCVariables
    Queries <- MCQueries
    Initial <- MCInitial
    Inserts <- MCInserts
    Documents <- MCDocuments
    CHUNK = 2
    LoadChunk = 4
    RowsPerStatement = 2
    max_statements = 4
    MaxWrites = 2
SPECIFICATION Spec
INVARIANTS
    JobsAnswerTheStore
PROPERTIES
    JobsEnd
