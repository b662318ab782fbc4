SPECIFICATION Spec
CONSTANTS
  Idents = {i1, i2}
  Hashes = {c1, c2}
  Etags = {e1, e2, e3}
  None = None
  ReadOnly = FALSE
  MaxSame = 2
  MaxEdits = 2
  MaxFaults = 1
SYMMETRY Symmetry
PROPERTIES
  NoBlindOverwrite
  AcceptedIsWritten
CHECK_DEADLOCK FALSE
