SPECIFICATION Spec
CONSTANTS
    a = a
    b = b
    Account = {a, b}
    MaxBox <- MCMaxBox
    MaxEntries <- MCMaxEntries
INVARIANT TypeOK
INVARIANT RegistryExact
PROPERTY BootCompletes
PROPERTY RegistryConverges
