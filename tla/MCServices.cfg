SPECIFICATION Spec
CONSTANTS
    DsPipe = {p1, p2, p3}
    DsParts = 2
    FrPipe = {p1, p2, p3}
    FrParts = {2}
    FrEnds = 1
    TrPrefix <- TopicPrefixes
    TrData <- Messages
    TrRefs = 2
    TrPipe = {p1, p2}
    PsNode = {1, 2}
    PsTopic = {t}
    PsHwm = 2
    PsCalls <- SubscriberCalls
    PsBreaks <- SubscriberBreaks
    LgThread = {a, b}
    LgRecords = 2
    DpSocket = {a, b}
    DpWaiting = 2
    DpSwitches = 2
    DpFaults = 1
    KkProcess = {1, 2, 3}
    KkArgument = {"none", "u"}
    KkUid <- UidOf
    NtProgram = {1, 2}
    NtFile = {1, 2, 3, 4}
    NtOld = {1, 2}
    NtShown = 0
    NtKeep = 1
    NtTicks = 2
    NtCalls <- ProgramCalls
    GmUuid = {u1, u2}
    GmName = {a, b}
    GmKey = {k}
    GmNone = none
INVARIANTS
    ServicesTypeOK
    DsSafe
    TriesExact
    LgRightContext
    KkOneSvd
    NtNothingLost
    GmConsistent
PROPERTIES
    PsConverges
    FrNoStarvation
    DispelKeepsGoing
    KkSomebodyStarts
CHECK_DEADLOCK FALSE
