\* Safety and refinement.
CONSTANTS
    Client = {a, b}
    Domain = {motion, program}
    Token = {t1, t2}
    None = None
    MinTtl = 1
    MaxTtl = 1
    AskedTtl = {0, 3}
    MaxTime = 2
SPECIFICATION Spec
INVARIANTS
    FiresOnlyTheDead
    GoneForGood
    EveryLeaseAccountedFor
    VanishedHolderBlocksBriefly
PROPERTIES
    ImplementsOwnership
SYMMETRY Symmetry
CHECK_DEADLOCK FALSE
