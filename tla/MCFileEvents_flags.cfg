SPECIFICATION FemSpec
CONSTANTS
    None = None
    Path = {p, q}
    Note <- MCNote
    Ref = {a, b}
    MaxFd = 3
    MaxEpoch = 3
    MaxBox = 2
    MaxList = 2
INVARIANT Armed
