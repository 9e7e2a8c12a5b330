\* Up to three declarations of one entity of each kind, in every place, and a
\* class template with every subset of the features.
SPECIFICATION MCSpec
CONSTANTS
  None = None
  TU = TU
  ASTs <- AllASTs
  Features = {"fwd", "expl", "befriend", "friendfn", "sassert", "member", "outofline", "partial", "function", "alias"}
  MaxDecls = 3
\* The walk ends.
CHECK_DEADLOCK FALSE
INVARIANTS
  TypeOK
  OneEntryPerEntity
  ModuleComplete
  RightList
  TemplatesSound
  TemplatesComplete
PROPERTY
  Terminates
