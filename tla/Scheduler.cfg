SPECIFICATION Spec
CONSTANTS
  Handles = {h1, h2}
  Keys = {k1, k2}
  Kinds <- MCKinds
  NoKey = NoKey
  NoHandle = NoHandle
INVARIANTS
  SupersededNeverDelivers
PROPERTIES
  PriorityRespected
  EveryTaskSettles
  CloseEndsDispatcher
