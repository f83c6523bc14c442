SPECIFICATION Spec
CONSTANTS
    Accounts = {a1}
    Threads = {w1}
    Clis = {c1}
    Nobody = Nobody
    MaxToken = 2
    Faults = {}
INVARIANT NoOrphan
