SPECIFICATION FairSpec
CONSTANTS
    w1 = w1
    w2 = w2
    main = main
    t1 = t1
    t2 = t2
    any = any
    own = own
    none = none
    Workers <- MCWorkers
    Caller = main
    UseCaller = TRUE
    Tasks <- MCTwoTasks
    AnyThread = any
    NoTask = none
    Pins <- MCPinsMain
    YieldPins <- YieldOwn
    Own = own
    MaxYields = 1
INVARIANTS
    CountersExact
    StopWaitsForTasks
    ResumeReady
    
PROPERTIES
    IsPool
    StopReturns
