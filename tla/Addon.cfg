SPECIFICATION Spec
CONSTANTS
  Contexts = {c1, c2}
  Tokens = {t1, t2}
  NoContext = NoContext
  Unissued = Unissued
  MaxTotal = 3
  Sizes <- MCSizes
  BufferLimit = 3
INVARIANTS
  WholeTextOnly
  SpentOnce
PROPERTIES
  RevokedNeverCommits
