\* Liveness: one client with two leases that may lapse in one pass.
CONSTANTS
    Client = {a}
    Domain = {motion, program}
    Token = {t1, t2}
    None = None
    MinTtl = 1
    MaxTtl = 1
    AskedTtl = {0, 3}
    MaxTime = 2
SPECIFICATION FairSpec
PROPERTIES
    LapseIsNoticed
    LapseIsReported
CHECK_DEADLOCK FALSE
