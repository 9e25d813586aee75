SPECIFICATION FairSpec
CONSTANTS
  Networks = {"evm", "ton", "trx"}
  Incoming = {a, c}
  Outgoing = {b}
  Own = {}
  Simulated = {}
  Modes = {FALSE}
  None = none
  Scanners = {s1, s2}
  Walkers = {}
  PageSize = 2
  BlockRange = 1
  Lookback = 1
  Required = 1
  MaxHeight = 3
  Faults = {"stop", "reset"}
  MaxFaults = 1
PROPERTIES ArrivesIfInReach
