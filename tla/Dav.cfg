SPECIFICATION FairSpec
CONSTANTS
  Hrefs = {h1}
  Hashes = {c1}
  Etags = {e1, e2, e3, e4}
  Digest = TRUE
  None = None
  MaxTries = 3
  MaxEdits = 2
  MaxFaults = 1
PROPERTIES
  Contract
  GetMultiComplete
  RefusalExplained
  EveryCallEnds
CHECK_DEADLOCK FALSE
