SPECIFICATION MCSpec
CONSTANTS
    l1 = l1
    l2 = l2
    Loaders = {l1}
    ConfFiles = {"a", "b"}
    Docs <- MCDocs
    FirstDocs <- MCFirst
    Types <- MCTypes
    Defaults <- MCDefaults
    CanConvert <- Convertible
    FromStr <- FromYaml
    NodesOf <- MCNodes
    ValidNames = {"logs", "server", "port"}
    ProgramNames <- MCProgram
    MaxLoads = 0
    MaxEdits = 0
    MaxClock = 1
    w1 = w1
    w2 = w2
    Writers = {w1}
    LogPaths <- MCPaths
    Garbage = {0}
    DayLength = 5
    WritesFail = FALSE
    MaxTime = 10
    MaxLines = 3
    MaxParts = 0
INVARIANT
    FileOpened
