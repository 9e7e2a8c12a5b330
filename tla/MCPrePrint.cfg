\* Up to two declarations and three definitions, in every order.
SPECIFICATION Spec
CONSTANTS
  item <- MCitem
  depth <- MCdepth
  Modules <- MCModules
  MaxListed = 3
  MaxDepth = 10
\* The pass ends.
CHECK_DEADLOCK FALSE
INVARIANTS
  TypeOK
  Resolves
  DistinctDefinitions
  NeverAborts
  PartsAreShared
  AllShared
PROPERTY
  Terminates
