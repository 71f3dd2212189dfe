SPECIFICATION Spec
CONSTANTS
    u1 = u1
    u2 = u2
    w1 = w1
    w2 = w2
    Uuid = {u1, u2}
    Val = {"a", "b"}
    Stamp = {1}
    Writer = {w1, w2}
    Owned <- Disjoint
    None = None
INVARIANT TypeOK
INVARIANT AckedKept
PROPERTY ArchivedBeforeRemoved
