CONSTANTS
    Fibers = {f1, f2, f3}
    None = None
    WakePins = {w}
    EventPins = {p}
    Durations = {2, 3, 4}
    MinSleep = 2
    MinOn = 1
    PrepTimes = {0, 1}
    Horizon = 7
    MaxCalls = 4
    Scenarios = {"alone"}
SPECIFICATION Spec
SYMMETRY Symmetry
INVARIANT NotStranded
INVARIANT OnTime
INVARIANT PinsRestored
CHECK_DEADLOCK FALSE
