SPECIFICATION Spec
CONSTANTS
  None = None
  Texts <- MCTexts
  Items <- MCItems
  MaxEdits = 2
INVARIANTS
  ParsesExactly
  ReadsAll
  WrittenIsRead
  FeedStaysSame
