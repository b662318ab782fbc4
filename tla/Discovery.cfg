SPECIFICATION Spec
CONSTANTS
  n1 = n1
  n2 = n2
  dir = dir
  dir2 = dir2
  server = server
  None = None
  Procs = {p1, p2}
  Storages = {dir, dir2, server}
  Dav = {server}
  Names = {n1, n2}
  Configs <- MCConfigs
  InitialNames = {n1}
  MaxRuns = 3
  MaxEdits = 1
  MaxFaults = 1
SYMMETRY Symmetry
INVARIANTS
  SyncStaysInConfig
  OpenedWhereDiscovered
  DiscoveryIsComplete
CHECK_DEADLOCK FALSE
