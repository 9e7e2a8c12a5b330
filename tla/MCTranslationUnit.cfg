\* Every list of at most three declarations.
CONSTANTS
  Base <- MCBase
  Ident <- MCIdent
  Expr <- MCExpr
  Code <- MCCode
  Sig <- MCSig
  Name <- MCName
  Inputs <- MCInputs
  None = None
  e1 = e1
  e2 = e2
  b1 = b1
  b2 = b2
  MaxDecls = 3
SPECIFICATION Spec
INVARIANTS TypeOK NothingLost NothingInvented DupsExact Verdict
PROPERTY TablesGrow
\* The fold ends after check_translation_unit.
CHECK_DEADLOCK FALSE
