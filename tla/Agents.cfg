SPECIFICATION FairSpec
CONSTANTS
  Task = {"a", "b"}
  Mission = {}
  Client = {c1, c2}
  MaxProc = 2
  Deployments <- MCDeployments
  Overlap = {"spawn", "say"}

  
PROPERTIES
  RunningEnds
CHECK_DEADLOCK FALSE
