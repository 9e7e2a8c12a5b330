SPECIFICATION Spec
CONSTANTS
  Ident = {a, b}
  a = a
  b = b
  MaxDecls = 4
SYMMETRY Identifiers
\* The translation unit ends.
CHECK_DEADLOCK FALSE
INVARIANTS
  
  HeaderNames
PROPERTIES
  NamesSettle
