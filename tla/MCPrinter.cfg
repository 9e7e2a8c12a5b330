SPECIFICATION Spec
CONSTANTS
  Roots <- AllRoots
  Nesting = 2
  Irregular = {}
\* A printer returns.
CHECK_DEADLOCK FALSE
INVARIANTS
  Complete
  NeverAborts
PROPERTIES
  TextIsCoq
