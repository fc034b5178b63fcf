CONSTANTS
    Thread = {h1, h2}
    Feature = {motion, payload}
    Supported = {motion}
    MaxMoves = 2
    MaxSweeps = 1
    None = None
SPECIFICATION CapabilitiesFair
INVARIANTS
    AbsentIsTrue
PROPERTIES
    UnknownHeals
CHECK_DEADLOCK FALSE
