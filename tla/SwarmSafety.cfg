SPECIFICATION Spec
CONSTANTS
  Task = {t1, t2}
  Mission = {1, 2}
  Worker = {w1, w2}
  Killer = {k1}
  MaxAgeEnabled = FALSE
  Hazard = {"crash", "restart", "store", "overrun"}
  MaxFaults = 1
SYMMETRY Symmetry
INVARIANTS
  
  ExclusiveExecution
  TablesAgree
PROPERTIES
  NoResurrection
  MissionEndFinal
CHECK_DEADLOCK FALSE
