CONSTANTS
    Size = 6
    PerPage = 2
    TableSize = 1
    BlockSize = 2
    RootFiles = {a}
    DirFiles = {b}
    Dirs = {d}
    Bytes = {x}
    None = None
    Unknown = Unknown
    UNUSED = UNUSED
    EOF = EOF
    DELETED = DELETED
    Usage = {"scratch"}
    MaxLength = 3
    MaxCalls = 6
SPECIFICATION Spec
INVARIANT FilesKept
CHECK_DEADLOCK FALSE
