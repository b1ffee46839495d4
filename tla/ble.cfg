CONSTANTS
    Peers = {p1, p2}
    None = None
    MaxBonds = 1
    PairingTimeout = 2
    EventDelay = 1
    ShutdownDelay = 1
    Powers = {0, 1}
    DefaultPower = 1
    MaxCalls = 1
    MaxAttempts = 2
    MaxConnections = 3
    MaxBoots = 1
    Scenarios = {"timely"}
SPECIFICATION Spec
INVARIANT DownQuietly
INVARIANT Reachable
INVARIANT PowerEverywhere
PROPERTY ShutdownHappens
PROPERTY PairingEnds
CHECK_DEADLOCK FALSE
