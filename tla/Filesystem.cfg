SPECIFICATION Spec
CONSTANTS
  i1 = i1
  i2 = i2
  h1 = h1
  h2 = h2
  Idents = {i1, i2}
  Hrefs = {h1, h2}
  Hashes = {c1, c2}
  Etags = {e1, e2, e3, e4}
  None = None
  HrefOf <- MCHrefOf
  SafeIdents = {i1}
  RandomHrefs = {h2}
  MetaKeys = {color}
  TempNames = {t1, t2}
  MaxEdits = 2
  MaxCrashes = 1
SYMMETRY Symmetry
INVARIANTS
  ItemsAreWhole
  OwnWritesRecognized
  LeftoversExplained
PROPERTIES
  UploadNeverReplaces
  ReplacesOnlyChecked
CHECK_DEADLOCK FALSE
