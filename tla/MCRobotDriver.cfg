CONSTANTS
    Caller = {c1, c2, c3}
    None = None
    OfflineAfter = 2
    Cooldown = 2
    Window = 2
SPECIFICATION FairSpec
INVARIANTS
    OutageCostsOneQueue
PROPERTIES
    OpensOnlyOnARun
    RecoversByItself
    LockIsFreedAgain
