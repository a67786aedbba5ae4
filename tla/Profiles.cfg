SPECIFICATION Spec
CONSTANTS
  Profiles = {nano, sensevoice, other}
  NoProfile = NoProfile
INVARIANTS
  QwenAlone
  AsrAlone
PROPERTIES
  LoadsAlone
  TaskEnds
