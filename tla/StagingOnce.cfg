SPECIFICATION Spec
CONSTANTS
  Background = {t1, t2}
  AgentTable = {}
  Required = {t1, t2}
  Caller = {c1}
  Stager = {}
  Recovery = recovery
  MaxRetries = 0
  MaxCrashes = 0
  MaxExecutions = 2
INVARIANT ExecutedOnce
CHECK_DEADLOCK FALSE
