SPECIFICATION Spec
CONSTANTS
    am = am
    None = None
    Path = {p}
    Note <- MCNote
    Ref = {am}
    Self = am
    Patient = TRUE
    WatchFlags <- MCWatchFlags
    MaxFd = 2
    MaxEpoch = 2
    MaxBox = 1
    MaxList = 2
    MaxAmBox = 1
    MaxBindings = 2
INVARIANT TypeOK
INVARIANT OneBindingPerPath
INVARIANT RecordsAgree
