SPECIFICATION BudgetSpec
CONSTANTS
  Goroutines = {g1, g2, g3}
  Attempts = 0
  Half = 8
INVARIANT NeverOverspent
PROPERTY RefusedOnlyWhenSpent
