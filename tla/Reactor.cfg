SPECIFICATION MCSpec
CONSTANTS
    p1 = p1
    p2 = p2
    Threads <- MCThreads
    Nobody = nobody
    Fds <- MCFds
    InitSize = 2
    MaxGen = 2
    Uses <- MCUses
    Stray <- MCStray
    i1 = i1
    i2 = i2
    x1 = x1
    x2 = x2
    Idlers <- TwoIdlers
    Timers <- TwoTimers
    Periods <- MCPeriods
    MAX_TIMEOUT = 1
    Hour = 3
    Word = 16
    Boot = 4
    MaxTime = 9
    Skew = 1
INVARIANTS
    
    
    LateAtMost
PROPERTIES
    DoneStaysDone
    
SYMMETRY Symmetry
