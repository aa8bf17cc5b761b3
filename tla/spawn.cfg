CONSTANTS
    c1 = c1  c2 = c2  k1 = k1
    Proc = {p1, p2}
    Gone = Gone  Nobody = Nobody
    LockAtStart = {Gone, Nobody}
    MaxStarting = 2  MaxCrash = 1  MaxStop = 1
    Patience = 2  BreakerTries = 2
    Caller = {c1, c2}
    Connector = {k1}
    ConnectorOf <- OneClient
    NoSpawn = {}
    MaxDial = 1
SPECIFICATION SpawnFairSpec
PROPERTIES
    OneOwner
    SocketReachesDaemon
    LoneStarterListens
    EveryDialConnects
CHECK_DEADLOCK FALSE
