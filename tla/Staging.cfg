SPECIFICATION FairSpec
CONSTANTS
  Background = {t1, t2}
  AgentTable = {a1}
  Required = {t1, a1}
  Caller = {c1, c2}
  Stager = {s1}
  Recovery = recovery
  MaxRetries = 1
  MaxCrashes = 1
  MaxExecutions = 2

  
PROPERTIES
  
  NoRunForever
CHECK_DEADLOCK FALSE
