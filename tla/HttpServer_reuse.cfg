SPECIFICATION MCSpec
CONSTANTS
    c1 = c1
    c2 = c2
    a1 = a1
    a2 = a2
    prod = prod
    scan = scan
    none = none
    nobody = nobody
    Consumers <- TwoConsumers
    Producer = prod
    Scanner = scan
    Conns <- TwoConns
    NoConn = none
    Nobody = nobody
    m_minSize = 1
    m_maxSize = 2
    ConnectOk <- Connects
    MaxGets = 1
    k1 = k1
    k2 = k2
    l1 = l1
    l2 = l2
    Clients <- MCClients
    Addrs <- MCAddrs
    Fds <- MCFds
    NoClient = NoClient
    Listening = Listening
    Other = Other
    ReadResults <- AllResults
    Scenes <- ServerOnly
INVARIANT
    OwnFd
