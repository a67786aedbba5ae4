SPECIFICATION RouteSpec
CONSTANTS
  Contexts = {c1, c2}
  Tokens = {t1, t2}
  NoContext = NoContext
  Unissued = Unissued
  NoToken = NoToken
  MaxTotal = 3
  Sizes <- MCSizes
  BufferLimit = 2
  MaxSessions = 2
INVARIANTS
  RouteTypeOK
  AckedMeansEntered
  CancelledIsFinal
  NeverSilent
PROPERTIES
  NoLateCommit
  SessionEnds
