CONSTANTS
    p1 = p1
    p2 = p2
    None = None
    Procs = {p1, p2}
    Methods <- MCStoreMethods
SPECIFICATION Spec
INVARIANTS
    TypeOK
    MapAccessesExclusive
