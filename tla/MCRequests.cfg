SPECIFICATION Spec
CONSTANTS
    None = None
    Deployments <- MCDeployments
INVARIANTS
    KeysGuard
    RefusedStaysOff
    Warranted
    StopsAreServed
    ChangesAreRecorded
    FileTypesAreSafe
CHECK_DEADLOCK FALSE
