SPECIFICATION LiveSpec
CONSTANTS
    Procs = {p1, p2}
    NoProc = NoProc
    MaxUid = 2
    MaxEpoch = 1
    InitialWindow = 1
    FlagWindow = 2
    OlderWindow = 1
    Filtered = {2}
    Commands = {"sync", "older", "daily"}
    Events = {}
    AbortAt <- AbortAnywhere
    Workers = {"w1", "w2"}
    Callers = {"g1", "g2"}
    Clis = {"c1"}
    Rows <- TwoFolders
    Broken <- FirstBroken
    BatchSize = 1
    MaxRestarts = 1
INVARIANTS OneScanner NoLostWakeup
PROPERTIES LockReleased FillsAfterRequest DeleteSound
