CONSTANTS
    PoseName = {a, b}
    Pose = {x, y}
    RecName = {mine, fault}
    FaultName = {fault}
    RingSize = 2
    FlushAt = 2
    MaxFrames = 4
    MaxRequests = 5
    Torn = Torn
    None = None
SPECIFICATION Spec
INVARIANTS
    AnsweredPosesSurvive
    ToldIsRecorded
CHECK_DEADLOCK FALSE
