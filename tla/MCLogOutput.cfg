CONSTANTS
    split = split
    errors = errors
    critical = critical
    file = file
    mail = mail
    pager = pager
    custom = custom
    inHandler = inHandler
    inMain = inMain
    unknown = unknown
    Dispatchers = {split, errors, critical}
    Root = split
    Writers = {file, mail, pager, custom}
    Custom = {custom}
    Buffered = {file, pager}
    Receivers <- MCReceivers
    AllowList <- MCAllowList
    Constraints = {3, 4, 5}
    Exceptions <- MCExceptions
    Contexts = {inHandler, inMain}
    NoContext = unknown
    MaxCalls = 3
    FileOptions <- MCFile
    ConnOptions <- MCConn
    ZippedOptions <- MCZipped
    UnlimitedOptions <- MCUnlimited
    DatedOptions <- MCDated
SPECIFICATION OutputSpec
CHECK_DEADLOCK FALSE
INVARIANTS OutputTypeOK ReachesAllowed Accounted RollsInOrder
PROPERTIES WalkEmpties FlushedInTime
