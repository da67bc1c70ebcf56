SPECIFICATION MCSpec
CONSTANTS
    Byte <- MCByte
    Zero = "0"
    Strings <- MCStrings
    initBuffSize = 2
    StackSize = 2
    MaxSize = 6
    h1 = h1
    h2 = h2
    Handlers = {h1, h2}
    Messages <- MCMessages
    Paths <- MCPaths
    Sizes = {0, 2}
    DirSize = 3
    Rows <- MCRows
    UniqueNames = FALSE
    IntLimit = 8
    Garbage = {0, 8}
    MaxRequests = 2
    MaxChanges = 1
INVARIANTS
    RequestParsed
    
    
    ResponseSent
    MappingExact
PROPERTY
    IsQueue
