SPECIFICATION MCSpec
CONSTANTS
  N = 2
  Reader = {r1}
  Runner = {u1}
  Creator = {x1}
  Managed = {"gateway", "kubernetes"}
  MaxBreaks = 1
  MaxRefusals = 1
  Goroutine = {p1, p2, p3}
  MaxCall = 1
  MaxClient = 3
  ConnectFails = 1
  CallFails = 1
  MaxRemove = 1
INVARIANTS
  SidecarSound
  PoolSound
PROPERTIES
  EveryCallReturns
  OperationsEnd
CHECK_DEADLOCK FALSE
