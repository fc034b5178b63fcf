CONSTANTS
    Ttl = 6
    MinTtl = 1
    MaxTtl = 8
    Default = 1
    Timeout = 3
    JoinTimeout = 1
    MaxBlocks = 2
    MaxTime = 12
SPECIFICATION Spec
INVARIANTS
    CommandsAreHeld
    AlarmIsOurs
CHECK_DEADLOCK FALSE
