\* A daemon that backs up and verifies beside an operator who verifies and restores.
SPECIFICATION Spec
CONSTANTS
    daemon = daemon
    shell = shell
    intact = intact
    spoilt = spoilt
    Procs <- MCProcs
    Daemons = {daemon}
    Commands <- MCCommands
    Ids = {intact, spoilt}
    Damaged = {spoilt}
    Names = {n1, n2}
    MaxLitter = 1
    Target = Target
    Source = Source
    Old = Old
    None = None
SYMMETRY Symmetry
INVARIANTS TypeOK ProofIsClean NothingIsLeft RevocationIsEarned DeliveredFileStays
PROPERTIES OnlyForceDestroys
