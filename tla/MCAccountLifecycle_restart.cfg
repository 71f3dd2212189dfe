SPECIFICATION Spec
CONSTANTS
    a = a
    b = b
    Account = {a, b}
    MaxBox <- MCMaxBox
    MaxEntries <- MCMaxEntries
INVARIANT RestartedIsKnown
