SPECIFICATION Spec
CONSTANTS
  c1 = c1
  c2 = c2
  c3 = c3
  NoClient = NoClient
  Clients <- MCClients
INVARIANTS
  TypeOK
  EngineIsSerial
  CountedIsAnswered
PROPERTIES
  NobodyHangs
  IdleWorkerExits
CHECK_DEADLOCK FALSE
