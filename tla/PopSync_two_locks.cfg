SPECIFICATION Spec
CONSTANTS
    Procs = {p1,p2}
    NoProc = NoProc
    MaxMail = 2
    MaxNum = 4
    Inbox = INBOX
    Trash = Trash
    Local = Local
    SyncFolders = {INBOX,Local}
    InitialWindow = 2
    OlderWindow = 1
    Filtered = {}
    Commands = {"sync"}
    Events = {"deliver"}
    AbortAt = {}
PROPERTIES SyncForgetsOnlyLost
