\* The gate of a move: is the lease it was let through under still watched?
CONSTANTS
    Client = {a}
    Domain = {motion, prog}
    Token = {t1}
    None = None
    MinTtl = 1
    MaxTtl = 1
    AskedTtl = {1}
    MaxTime = 1
    Handler = {h}
    Reaper = reaperThread
    Motion = motion
    Program = prog
SPECIFICATION GatewaySpec
PROPERTIES
    MoveIsStoppable
CHECK_DEADLOCK FALSE
