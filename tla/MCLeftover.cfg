SPECIFICATION Spec
CONSTANTS
    Procs = {p, q}
    Calls = {"put", "load"}
    Ids = {b1}
    Temps = {t1}
    Versions = {v1}
    Inodes = {i1, i2, i3}
    None = None
    Torn = Torn
SYMMETRY Symmetry
INVARIANT LoadAllReadsAll
