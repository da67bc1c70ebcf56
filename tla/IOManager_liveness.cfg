SPECIFICATION IOFairSpec
CONSTANTS
    w1 = w1
    w2 = w2
    main = main
    t1 = t1
    t2 = t2
    any = any
    own = own
    none = none
    fd1 = fd1
    nofd = nofd
    Workers <- MCOneWorker
    Caller = main
    UseCaller = TRUE
    Tasks <- MCTwoTasks
    AnyThread = any
    NoTask = none
    Pins <- PinsAny
    YieldPins <- YieldAny
    Own = own
    MaxYields = 1
    Fds <- NoFds
    PipeCap = 20
    NoFd = nofd
PROPERTIES
    EveryTaskEnds
    StopReturns
