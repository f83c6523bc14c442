SPECIFICATION PartsSpec
CONSTANTS
    Procs = {p1, p2}
    NoProc = NoProc
    Accounts = {a1, a2}
    MaxTag = 4
    Faults = {"read", "write", "marker", "plain", "absent"}
    CrashAt <- CrashAnywhere
    Clis = {p1, p2}
    NoCli = NoCli
    New = New
    Files <- FileOrder
    Hard = {"prefs", "accounts"}
    Locked = {"accounts"}
    Commands <- SmallCommands
    MaxRuns = 3
    MaxDamage = 1
    Missing = Missing
    Dash = Dash
    MaxAgeDays = 1
    People = {"me", "ann", "bob"}
    Me = "me"
    Drafts <- SomeDrafts
    Skews <- SomeSkews
    FirstContacts <- OnlyAnn
    Contacts <- SomeContacts
    Edits <- GatewayChanges
    MaxSent = 2
    MaxEdits = 1
    MaxOps = 1
    MaxDay = 1
    Messages = {"short", "long"}
    Size <- Lengths
    PathLen = 1
    MaxApduData = 4
    FirstRoom = 2
    NextRoom = 3
    SignatureLen = 2
    BoundAccount = "bound"
    Devices = {"bound", "other"}
    MaxRequests = 3
    Imap = {"work"}
    Pop = {"inbox", "local"}
    MaxUid = 2
    MaxEpoch = 2
    MaxTrust = 1
    Cap = 2
SYMMETRY Symmetry
INVARIANTS PartsTypeOK UpdateTakesEffect LoadFresh
INVARIANTS TablesExact DamageKeepsRows AccountsInWindow
INVARIANTS VerifiedIsGenuine IntactIsVerified NameNotBorrowed
INVARIANTS UsedSignatureIsOfTheMail OwnerSeesWholeMessage CacheSound
PROPERTIES ImplementsMap RulesKeepRank
