SPECIFICATION Spec
CONSTANTS
    FqItem = {x}
    YItem = {x}
    YChunk = {c1, c2, c3}
    YGranularity = 2
    YNull = NULL
    MbSender = {s1, s2}
    MbSends = 2
    ZHwm = 1
    ZMaxDelta = 1024
    ZWrites <- PipeWrites
    ZTerms <- PipeTerms
    ZHiccups = 1
    OwObject = {"socket", "session", "connecter1", "connecter2", "listener", "accepted1", "accepted2"}
    OwNone = "none"
    OwParent <- TreeParent
    OwRole <- TreeRole
    OwThread <- TreeThread
    OwEndpoints = 1
    CxSlot = {s1, s2}
    SeLast = 4
    SeSize <- BodySize
    SeBatch = 3
    SeWireCap = 3
    SeHwm = 3
    MgPipe = {p1, p2, p3}
    MgSends = 2
    PlConnecters = 2
    PlFaults = 1
    PlEvents = 3
INVARIANTS
    TransportTypeOK
    MemorySafe
    MbSafe
    ZSafe
    OwSafe
    SeWholeInOrder
PROPERTIES
    YImplementsQueue
    Delivers
    ZTerminatesUnlessHeld
    OwAllFreed
    CxTermCompletes
    SessionReconnects
CHECK_DEADLOCK FALSE
