CONSTANTS
    Handler = {h1, h2}
    MinInterval = 2
    Budget = 2
    Window = 5
    Ttl = 2
    MaxRecords = 3
    MaxTime = 6
    None = None
SPECIFICATION Spec
SYMMETRY Symmetry
INVARIANTS
    ArchivesInv
    FetchesArePaced
PROPERTIES
    ArchiveExplains
CHECK_DEADLOCK FALSE
