SPECIFICATION Spec
CONSTANTS
  s1 = s1
  Stoppers <- MCStoppers
  MaxRecordings = 2
  MaxAfterLate = 1
  MaxChanges = 1
  MaxChunks = 3
  PipeChunks = 1
  MemoryChunks = 1
  ShardChunks = 1
INVARIANTS
  TypeOK
  ArtifactIsTheRecording
  IdleLeavesNothing
PROPERTIES
  HoldIsOneRecording
  RecordingEnds
CHECK_DEADLOCK FALSE
