CONSTANTS
    u1 = u1
    u2 = u2
    default = default
    second = second
    Nil = Nil
    Users = {u1, u2}
    Loggers = {default, second}
    Default = default
    Kind <- LoopKind
    MaxQueueSize = 1
    MinInterval = 2
    MaxInterval = 6
    CriticalMsgCount = 2
    MaxMessages = 1
    MaxCalls = 2
SPECIFICATION Spec

CHECK_DEADLOCK FALSE
INVARIANT ClosedWhenWritersClosed
