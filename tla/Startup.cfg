SPECIFICATION MCSpec
CONSTANTS
  Daemon = {1, 2}
  MaxCrash = 1
  Reader = {r1, r2}
  Msg = {m1, m2}
  MaxLives = 2
  MaxFails = 1
INVARIANTS
  DaemonSound
  DeliveredOnce
PROPERTIES
  DaemonResponds
  IsQueue
  MessageArrives
CHECK_DEADLOCK FALSE
