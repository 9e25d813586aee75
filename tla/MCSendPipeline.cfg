SPECIFICATION Spec
CONSTANTS
    Keys = {k1, k2}
    NoKey = NoKey
    Callers = {c1, c2}
    Values = {1, 2}
    TxCap = 2
    DayCap = 3
    Modes = {TRUE, FALSE}
    Faults = {"crash", "db", "provider", "signer"}
SYMMETRY Symmetry
INVARIANTS AtMostOneTransfer WithdrawnNeverMoves ReportedIsReal
PROPERTIES KeepsPromise
