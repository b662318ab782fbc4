SPECIFICATION Spec
CONSTANTS
  None = None
  i1 = i1
  i2 = i2
  h1 = h1
  h2 = h2
  HrefOf <- MCHrefOf
  FirstEtag <- MCFirstEtag
  Etags <- MCEtags
  Idents <- TwoIdents
  Hrefs <- TwoHrefs
  Hashes = {1, 2}
  ReadOnly = {"a"}
  NoDelete = {}
  EtagLost = {"b"}
  PartialSync = {"ignore", "error"}
  ConflictResolution = "none"
  HasErrorCallback = TRUE
  MayForce = FALSE
  EditorMay = {"undo", "touch", "move", "retag", "duplicate"}
  InitialItems <- TwoIdents
  FirstHash = 1
  MaxEdits = 2
  MaxFaults = 1
INVARIANTS
  StatusTwoSided
  FailedKeepsStatus
