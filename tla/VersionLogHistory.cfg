CONSTANTS
    Quads = {doc}
    SystemQuads = {doc}
    Changes <- SomeChanges
    MaxTick = 4
SPECIFICATION Spec
INVARIANTS
    TypeOK
    HeadVersionIsStore
    RecordedVersionsExact
    LogIsEffective
    CommitsAreTheVersions
    AddedSince
    HistoryHasItsClock
PROPERTIES
    PastVersionsFixed
    ImplementsTimeTravel
