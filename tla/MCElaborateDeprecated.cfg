SPECIFICATION Spec
CONSTANTS
  Touched = {"copy", "copyAssign"}
  A = A
  B = B
  S = S
  top = top
  namespace = namespace
  Class <- MCClass
  TopDecl <- MCTopDecl
  Home <- MCHome
  Nested <- MCNested
  Specialization <- MCSpecialization
  Befriended <- MCBefriended
  Written <- MCDestructor
\* The translation unit ends.
CHECK_DEADLOCK FALSE
INVARIANTS
  NoDeprecatedForced
