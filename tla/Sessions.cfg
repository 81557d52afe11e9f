SPECIFICATION MCSpec
CONSTANTS
  Kind = {"claude", "codex", "codexws", "opencode", "opencodepod"}
  Turn = {t1, t2}
  ChanCap = 1
  StepLimit = 1
  MaxNoise = 1
  Spawn = {1, 2}
  Backend = {"local", "kubernetes"}
  MaxFaults = 2

  
PROPERTIES
  IsSession
  SessionEnds
  StreamSettles
CHECK_DEADLOCK FALSE
