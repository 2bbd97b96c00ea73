CONSTANTS
    Handles = {h1, h2}
    Docs = {}
    SystemQuads = {sys}
    Registrations = {reg}
    Options <- TwoOptions
    MaxCalls = 2
SPECIFICATION Spec
INVARIANTS
    TypeOK
    MetaMatchesTables
    LogIsTheStore
    OpenedStoreIsMigrated
    OpeningWorks
PROPERTIES
    OpeningEnds
