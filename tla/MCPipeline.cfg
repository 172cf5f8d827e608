\* Dumps of up to two full chunks and a short one, two accidents in the store.
SPECIFICATION FairSpec
CONSTANTS
    a = a
    b = b
    Rows = {a, b}
    Plaintexts <- MCPlaintexts
    ChunkSize = 2
    PolicySets <- MCPolicySets
    Always = Always
    NoQual = NoQual
    Steady = TRUE
    MaxDamage = 2
    None = None
INVARIANTS TypeOK RestoredIsSource StoredIsWhole TruncationIsCaught GoodBytesPass
PROPERTIES UploadEnds
CHECK_DEADLOCK FALSE
