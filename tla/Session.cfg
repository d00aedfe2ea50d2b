CONSTANTS
    Pids <- MCPids
    Self = 1
    Objects <- MCObjects
    Server = "server"
    Tool = "tool"
    Transports <- MCTransports
SPECIFICATION SessionSpec
INVARIANTS
    TypeOK
    PidIsOwn
    NothingLeft
PROPERTIES
    SessionEnds
CHECK_DEADLOCK FALSE
