SPECIFICATION MCSpec
CONSTANTS
    Procs = {p1, p2}
    NoProc = NoProc
    MaxMail = 3
    MaxNum = 3
    Inbox = INBOX
    Trash = Trash
    Local = Local
    SyncFolders = {INBOX}
    InitialWindow = 1
    OlderWindow = 1
    Filtered = {3}
    Commands = {"sync", "older", "move", "rmdir"}
    Events = {"deliver", "expire"}
    AbortAt <- AbortAnywhere
SYMMETRY Symmetry
INVARIANTS TypeOK Distinct SyncComplete
PROPERTIES SyncForgetsOnlyLost NoResurrection
