SPECIFICATION Spec
CONSTANTS
    Procs = {p, q}
    Calls = {"put", "get", "delete", "load"}
    Ids = {b1}
    Temps = {t1}
    Versions = {v1, v2}
    Inodes = {i1, i2, i3}
    None = None
    Torn = Torn
SYMMETRY Symmetry
INVARIANT TypeOK
INVARIANT LoadFindsListed
INVARIANT UndisturbedLoadIsExact
PROPERTY ImplementsObjectStore
