\* Two requests, of every pair of kinds, in every interleaving of their calls.
CONSTANTS
    pick = pick
    place = place
    points = points
    good = good
    bad = bad
    Handler = {h1, h2}
    Lua = {pick, place}
    Table = {points}
    Content = {good, bad}
    Builds = {good}
    Safe = {good}
    Asked <- MCAsked
    MaxRequests = 2
    None = None
SYMMETRY SomeHandlers
SPECIFICATION Spec
INVARIANTS
    ProgramsTypeOK
PROPERTIES
    RunsWhatItValidated
    EditReplacesItsVersion
    UploadSparesPrograms
    LoadedProgramStays
    IndexFollowsTheController
CHECK_DEADLOCK FALSE
