SPECIFICATION DatalogSpec
CONSTANTS
    Programs <- MCPrograms
    Stores <- MCStores
    GraphSizes = {2}
    Unknown = Unknown
    HostFunctions <- MCHostFunctions
    Iris <- MCIris
    HostPrograms <- MCHostPrograms
    OrderPrograms <- MCOrderPrograms
    NumberExprs <- MCNumberExprs
    NumberEnvs <- MCNumberEnvs
INVARIANTS ComponentsCompile
