SPECIFICATION Spec
CONSTANTS
  None = None
  i1 = i1
  i2 = i2
  h1 = h1
  h2 = h2
  HrefOf <- MCHrefOf
  FirstEtag <- MCFirstEtag
  Etags <- MCEtags
  Idents <- OneIdent
  Hrefs <- TwoHrefs
  Hashes = {1, 2, 3}
  ReadOnly = {}
  NoDelete = {}
  EtagLost = {}
  PartialSync = {"revert"}
  ConflictResolution = "none"
  HasErrorCallback = TRUE
  MayForce = FALSE
  EditorMay = {"undo"}
  InitialItems <- OneIdent
  FirstHash = 1
  MaxEdits = 2
  MaxFaults = 0
INVARIANTS
  Converged
