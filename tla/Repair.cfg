CONSTANTS
  h1 = h1
  h2 = h2
  h3 = h3
  h4 = h4
  h5 = h5
  h6 = h6
  u1 = u1
  u2 = u2
  u3 = u3
  u4 = u4
  u5 = u5
  u6 = u6
  b1 = b1
  b2 = b2
  b3 = b3
  b4 = b4
  Hrefs = {h1, h2, h3, h4, h5, h6}
  Uids = {u1, u2, u3, u4, u5, u6}
  Unsafe <- MCUnsafe
  Bodies = {b1, b2, b3, b4}
  Broken = {}
  Masked = {b3, b4}
  Bare = {b4}
  Etags = {1, 2, 3}
  None = None
  Crowded = {None, u1, u2}
  First <- MCFirst
  MaxEdits = 1
  MaxFaults = 1
SPECIFICATION FairSpec
INVARIANTS NoItemLost RepairedWell CopiesExplained
PROPERTY EventuallyDistinct
