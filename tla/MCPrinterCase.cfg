SPECIFICATION Spec
CONSTANTS
  Roots = {"Stmt"}
  Nesting = 2
  Irregular = {"case"}
\* A printer returns.
CHECK_DEADLOCK FALSE
PROPERTIES
  TextIsCoq
