SPECIFICATION FairSpec
CONSTANTS
  None = None
  i1 = i1
  i2 = i2
  h1 = h1
  h2 = h2
  HrefOf <- MCHrefOf
  FirstEtag <- MCFirstEtag
  Etags <- MCEtags
  Idents <- TwoIdents
  Hrefs <- TwoHrefs
  Hashes = {1, 2, 3}
  ReadOnly = {"b"}
  NoDelete = {"a"}
  EtagLost = {"a"}
  PartialSync = {"revert"}
  ConflictResolution = "merge"
  HasErrorCallback = FALSE
  MayForce = TRUE
  EditorMay = {}
  InitialItems <- TwoIdents
  FirstHash = 1
  MaxEdits = 2
  MaxFaults = 1
PROPERTIES
  ReadOnlyUntouched
  EventuallySame
