\* A disk that fills up during a verify.
SPECIFICATION Spec
CONSTANTS
    daemon = daemon
    shell = shell
    intact = intact
    spoilt = spoilt
    Procs <- MCProcs
    Daemons = {daemon}
    Commands <- MCCommands
    Ids = {intact, spoilt}
    Damaged = {spoilt}
    Names = {n1, n2, n3}
    MaxLitter = 1
    Target = Target
    Source = Source
    Old = Old
    None = None
SYMMETRY Symmetry
INVARIANTS WriteErrorRevokesNothing
