SPECIFICATION MCSpec
CONSTANTS
    Procs = {p1, p2}
    NoProc = NoProc
    MaxUid = 4
    MaxEpoch = 2
    InitialWindow = 2
    FlagWindow = 2
    OlderWindow = 2
    Filtered = {2}
    Commands = {"sync", "older"}
    Events = {"expunge", "newvalidity"}
    AbortAt <- AbortAnywhere
SYMMETRY Symmetry
INVARIANTS TypeOK RowsTrustworthy NoHole SyncExact FilteredLeaveInbox
PROPERTIES KeepsContract
