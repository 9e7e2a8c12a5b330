\* A class template whose member function is defined outside the class.
SPECIFICATION Spec
CONSTANTS
  None = None
  TU = TU
  ASTs <- TemplatedASTs
  Features = {"outofline"}
  MaxDecls = 0
\* The walk ends.
CHECK_DEADLOCK FALSE
INVARIANT
  ModuleUntemplated
