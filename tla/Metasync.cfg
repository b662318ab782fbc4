SPECIFICATION FairSpec

CONSTANTS
  None = None
  Empty = Empty
  k1 = k1
  k2 = k2
  Keys <- TwoKeys
  KeyLists <- OneOrBoth
  Words = {"red", "blue"}
  Dav = {"b"}
  MaxEdits = 3
  MaxFaults = 1

INVARIANTS
  MetaConverged

PROPERTIES
  NoLostMetaEdit
  EventuallyInStep
