SPECIFICATION FemSpec
CONSTANTS
    None = None
    Path = {p, q}
    Note = {1}
    Ref = {a, b}
    MaxFd = 2
    MaxEpoch = 3
    MaxBox = 3
    MaxList = 2
SYMMETRY MCSymmetry
INVARIANT FemTypeOK
INVARIANT RightPath
INVARIANT OneIdentPerPath
INVARIANT LiveKqueue
