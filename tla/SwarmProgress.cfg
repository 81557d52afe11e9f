SPECIFICATION FairSpec
CONSTANTS
  Task = {t1}
  Mission = {1, 2}
  Worker = {w1, w2}
  Killer = {k1}
  MaxAgeEnabled = TRUE
  Hazard = {"crash", "restart"}
  MaxFaults = 1
PROPERTIES
  EverythingEnds
CHECK_DEADLOCK FALSE
