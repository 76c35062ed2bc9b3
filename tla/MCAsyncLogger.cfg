CONSTANTS
    u1 = u1
    u2 = u2
    default = default
    second = second
    Nil = Nil
    Users = {u1, u2}
    Loggers = {default, second}
    Default = default
    Kind <- MixedKind
    MaxQueueSize = 1
    MinInterval = 2
    MaxInterval = 6
    CriticalMsgCount = 2
    MaxMessages = 2
    MaxCalls = 3
SPECIFICATION FairSpec

CHECK_DEADLOCK FALSE
INVARIANTS TypeOK EachOnceInOrder FlushDelivers PackageOpen
PROPERTIES EveryMessageWritten EveryCallReturns
