SPECIFICATION FairSpec
CONSTANTS
  None = None
  Procs = {p1, p2}
  Idents = {i1, i2}
  Inodes = {f1, f2, f3}
  InitialStatuses <- NothingOrAll
  Forced = {}
  MaxEdits = 2
  MaxFaults = 1
INVARIANTS
  StatusKept
  OneAtATime
PROPERTIES
  EmptySideSpared
  EventuallySettled
