CONSTANTS
    Publisher = {poller, h1}
    Sub = {s1}
    None = None
    Poller = poller
    RunState = {halted, running}
    Kind <- AllKinds
    Filters <- AllOrFaults
    Depth = 1
    MaxSeq = 3
SPECIFICATION PollerFairSpec
INVARIANTS
    GapsAreTold
    KnowsTheFault
PROPERTIES
    ReadsInOrder
    PublishEnds
CHECK_DEADLOCK FALSE
