SPECIFICATION Spec
CONSTANTS
  Path = {p1, p2}
  NoPath = NoPath
  MaxSources = 3
SYMMETRY Symmetry
\* The program exits.
CHECK_DEADLOCK FALSE
INVARIANTS
  TypeOK
  SuccessMeansWritten
  TornOnlyByDeath
  OnlyTranslationsWritten
  EarlierOutputsFresh
