SPECIFICATION Spec
CONSTANTS
    Calls = {c1, c2}
    Intents = {i1, i2}
    Values = {1, 2}
    TxCap = 2
    DayCap = 3
    Window = 1
    Skew = 1
    Drift = 0
    MaxSeen = 1
    MaxProcessed = 0
    Deadline = 1
    MaxTime = 2
    MaxArrivals = 2
    MaxStarts = 2
SYMMETRY Symmetry
INVARIANTS SignedOnce DailyCapHolds KeysKept EncodingSound
CHECK_DEADLOCK FALSE
