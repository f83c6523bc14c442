SPECIFICATION FairSpec
CONSTANTS
    Accounts = {a1}
    Threads = {w1, w2}
    Clis = {c1, c2}
    Nobody = Nobody
    MaxToken = 2
    Faults = {"write", "read"}
INVARIANTS TypeOK OneWatcher StoredTokenLive
PROPERTIES RemovedNotWatched
