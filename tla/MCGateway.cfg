CONSTANTS
    Client = {a}
    Domain = {motion, prog}
    Token = {t1}
    None = None
    MinTtl = 1
    MaxTtl = 1
    AskedTtl = {1}
    MaxTime = 1
    Handler = {h}
    Reaper = reaperThread
    Motion = motion
    Program = prog
SPECIFICATION GatewayFairSpec
INVARIANTS
    StopsReachTheArm
PROPERTIES
    ProgramStoppedFirst
    EveryLapseIsServed
    DrivesTheLock
CHECK_DEADLOCK FALSE
