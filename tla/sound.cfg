SPECIFICATION Spec
CONSTANTS
    Fibers = {f1, f2}
    Idle = idle
    Power = power
    None = None
    Sounds <- MCSounds
    PinLength = 1
    BufferSize = 2
    MaxCalls = 3
    MaxSleeps = 1
    Users = {"expressions", "pin"}
    Timing = {"timely"}
INVARIANTS PlayedWhole OneRequest
CHECK_DEADLOCK FALSE
PROPERTIES CallsReturn PinFollows
