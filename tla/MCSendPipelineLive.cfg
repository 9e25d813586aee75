SPECIFICATION FairSpec
CONSTANTS
    Keys = {k1, k2}
    NoKey = NoKey
    Callers = {c1, c2}
    Values = {1}
    TxCap = 1
    DayCap = 1
    Modes = {TRUE, FALSE}
    Faults = {"provider", "signer"}
PROPERTIES ConfirmedIsSettled
