SPECIFICATION Spec
CONSTANTS
  NoTask = NoTask
  Ids = {x, y, z}
  Declared = {y}
  Removable = {x, y}
  Tasks = {t1, t2, t3}
  Adders = {t1, t2}
  Operations = {"add", "remove", "save", "restart", "fault"}
  MaxClients = 3
INVARIANTS Reachable AddedSurvives
PROPERTY OnlyOwnEntry
SYMMETRY Symmetry
CHECK_DEADLOCK FALSE
