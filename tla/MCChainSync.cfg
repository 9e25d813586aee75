SPECIFICATION Spec
CONSTANTS
  Networks = {"evm", "ton", "trc20", "trx"}
  Incoming = {a}
  Outgoing = {b}
  Own = {b}
  Simulated = {m}
  Modes = {TRUE, FALSE}
  None = none
  Scanners = {s1, s2}
  Walkers = {w1, w2}
  PageSize = 2
  BlockRange = 1
  Lookback = 1
  Required = 2
  MaxHeight = 3
  Faults = {"stop", "reset"}
  MaxFaults = 2
SYMMETRY Symmetry
INVARIANTS CountedOnce BalanceFollowsLedger ToldTheTruth ProvidersSound
