SPECIFICATION Spec
CONSTANTS
  Stoppers = {s1}
  AutoStopper = auto
  Starter = starter
  Dispatcher = dispatcher
  NoThread = NoThread
  NoTask = NoTask
  Setups <- MCSetups
  MaxSessions = 2
INVARIANTS
  TypeOK
  OnePipeline
  TextStaysInItsSession
  NoSilentLoss
  ArtifactOutlivesAsr
  IdleIsClean
PROPERTIES
  PipelineEnds
