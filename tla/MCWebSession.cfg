SPECIFICATION Spec
CONSTANTS
  Instances = {i1, i2}
  Limit = 1
  WindowLength = 1
  MaxTime = 1
  Pages = {p1, p2}
  Gets = {1, 2}
  Pins = {a}
  NoPin = NoPin
  Skew = 0
  MaxAge = 0
  ReplayTtl = 0
  SessionTtl = 1
  MaxLoads = 2
  Faults = {"network", "database", "restart", "admin"}
  MaxFaults = 1
  MaxBegun = 2
SYMMETRY Symmetry
INVARIANTS DatabaseSound LimitHolds OneSessionPerInitData PinChangeEndsOthers NobodyForgotten
PROPERTIES NewestShown
CHECK_DEADLOCK FALSE
