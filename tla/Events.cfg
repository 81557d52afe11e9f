SPECIFICATION MCSpec
CONSTANTS
  Emitter = {g1, g2}
  MaxEvent = 3
  RingSize = 2
  BufSize = 2
  MaxConn = 3
  MaxRestart = 1
  MaxBatch = 1
  MaxDetail = 0
  MaxBeat = 1
  MaxFail = 2
  MaxSweep = 1
INVARIANTS
  FeedSound
  BusSound
PROPERTIES
  ClientCatchesUp
  MissionSettles
CHECK_DEADLOCK FALSE
