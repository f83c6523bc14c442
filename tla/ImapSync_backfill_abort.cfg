SPECIFICATION Spec
CONSTANTS
    Procs = {p1}
    NoProc = NoProc
    MaxUid = 4
    MaxEpoch = 1
    InitialWindow = 2
    FlagWindow = 2
    OlderWindow = 2
    Filtered = {}
    Commands = {"sync","older"}
    Events = {}
    AbortAt <- AbortInBackfill
INVARIANTS NoHole
