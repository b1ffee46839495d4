CONSTANTS
    Modulus = 16
    RegionBlocks = 4
    NewBlocks = 3
    PageBlocks = 2
    Kinds = {"makecode", "python"}
    Clients = {"patient"}
    MaxLost = 3
    MaxCuts = 2
SPECIFICATION Spec
INVARIANT NeverHalfAProgram
INVARIANT WrittenExact
INVARIANT SettingsKept
PROPERTY TransferCompletes
CHECK_DEADLOCK FALSE
