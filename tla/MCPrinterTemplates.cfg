SPECIFICATION Spec
CONSTANTS
  Roots = {"Decl"}
  Nesting = 1
  Irregular = {"dunsupported"}
\* A printer returns.
CHECK_DEADLOCK FALSE
PROPERTIES
  TextIsCoq
