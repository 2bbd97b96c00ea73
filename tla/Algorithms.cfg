SPECIFICATION Spec
CONSTANTS
    HoursOfDay = 2
    MinutesOfHour = 2
    SecondsOfMinute = 2
    Thousand = 2
    MonthSeconds = 250
    Precision = 12
    MaxInt = 7
    Exact = 4
    KeyLimit = 4
    ZoneRules <- MCZoneRules
    Days <- MCDays
    BaseDays <- MCBaseDays
    Overrides <- MCOverrides
    TimeOverrides <- MCTimeOverrides
    Points <- MCPoints
    TimePoints <- MCTimePoints
    Zones <- MCZones
    Durations <- MCDurations
    LongDurations <- MCLongDurations
    Divisors <- MCDivisors
    Values <- MCValues
    Items <- MCItems
    MatchGraphs <- MCMatchGraphs
    Clauses <- MCClauses
    OuterScopes <- MCOuterScopes
    VarLengthCap = 2
    PathEdges <- MCPathEdges
    PathTypes <- MCPathTypes
    MaxHops = {1, 3}
    Texts <- MCTexts
    Widths = {1, 2, 3}
    MaxChunk = 3
    MaxLength = 4
    PayloadBits = 4
    WholeLimit = 9
    DaySeconds = 4
    RdfTerms <- MCRdfTerms
    JsTerms <- MCJsTerms
    Programs <- MCPrograms
    Stores <- MCStores
    GraphSizes = {3}
    Unknown = Unknown
    HostFunctions <- MCHostFunctions
    Iris <- MCIris
    HostPrograms <- MCHostPrograms
    OrderPrograms <- MCOrderPrograms
    NumberExprs <- MCNumberExprs
    NumberEnvs <- MCNumberEnvs
    CypherQueries <- MCCypherQueries
    PatternClauses <- MCPatternClauses
    NameOrder <- MCNameOrder
    Paths <- MCPaths
    Workspaces <- MCWorkspaces
    OwlConclusions <- MCOwlConclusions
    Settings = {"none", "owl2rl"}
INVARIANTS
    CypherValuesAreRight
    EncodingsAreFaithful
    
