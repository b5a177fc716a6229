CONSTANTS
  MaxEvents = 5
  MaxUses = 3
SPECIFICATION Spec
INVARIANT EndAgrees
PROPERTIES Implements RequestEnds
CHECK_DEADLOCK FALSE
