SPECIFICATION MetaSpec
CONSTANTS
    Workers = {w1, w2}
    Callers = {g1}
    Clis = {c1}
    f1 = f1
    f2 = f2
    Rows <- ThreeRows
    Broken <- OneBroken
    BatchSize = 1
    MaxRestarts = 0
INVARIANT FreshTrust
