SPECIFICATION MCSpec
CONSTANTS
    l1 = l1
    l2 = l2
    Loaders = {l1}
    ConfFiles = {"a", "b"}
    Docs <- MCDocs
    FirstDocs <- MCFirst
    Types <- MCTypes
    Defaults <- MCDefaults
    CanConvert <- Convertible
    FromStr <- FromYaml
    NodesOf <- MCNodes
    ValidNames = {"logs", "server", "port"}
    ProgramNames <- MCProgram
    MaxLoads = 2
    MaxEdits = 1
    MaxClock = 3
    w1 = w1
    w2 = w2
    Writers = {w1, w2}
    LogPaths <- AnyPath
    Garbage = {0, 1}
    DayLength = 5
    WritesFail = TRUE
    MaxTime = 10
    MaxLines = 4
    MaxParts = 4
INVARIANTS
    
    ValueKept
    
    
    
