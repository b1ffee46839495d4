CONSTANTS
    IrqThreshold = 1
    MaxEvents = 1
    MaxReads = 1
    BlockSize = 2
    BlockCount = 2
    MaxWrite = 1
    MaxRetries = 2
    Data = {d1}
    MaxCalls = 2
    Scenarios = {"storage", "settings", "events", "properties"}
SPECIFICATION Spec
INVARIANT FlashExact
 
PROPERTY LongPressServed
CHECK_DEADLOCK FALSE
