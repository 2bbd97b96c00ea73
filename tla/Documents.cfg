CONSTANTS
    Handles <- MCHandles
    OptionSets <- MCOptionSets
    ContextIris <- MCContextIris
    Bundled <- MCBundled
    Remote <- MCRemote
    Iris <- MCIris
    Rank <- MCRank
    Batches <- MCBatches
    Presentations <- MCPresentations
    Edits <- MCEdits
    Saved <- MCSaved
    MAX_CONTEXT_ROUNDS = 8
    CHECK_PAGE = 1
    MaxStatements = 14
    MaxCalls = 3
SPECIFICATION Spec
CHECK_DEADLOCK FALSE
INVARIANTS
    DocumentsAreTheirQuads
PROPERTIES
    JobsEnd
