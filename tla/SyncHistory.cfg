SPECIFICATION Spec
CONSTANTS
  None = None
  i1 = i1
  i2 = i2
  h1 = h1
  h2 = h2
  HrefOf <- MCHrefOf
  FirstEtag <- MCFirstEtag
  Etags <- MCEtags
  Idents <- OneIdent
  Hrefs = {h1}
  Hashes = {1, 2, 3, 4}
  ReadOnly = {}
  NoDelete = {}
  EtagLost = {}
  PartialSync = {"revert"}
  ConflictResolution = "merge"
  HasErrorCallback = TRUE
  MayForce = TRUE
  EditorMay = {}
  InitialItems <- OneIdent
  FirstHash = 1
  MaxEdits = 4
  MaxFaults = 1
INVARIANTS
  Converged
  StatusDescribesItems
  ConflictsAreGenuine
PROPERTIES
  EmptySideSpared
  NoResurrection
  NoLostEdit
  SettledStaysPut
