SPECIFICATION Spec
CONSTANTS
  Labels = {a, b}
  a = a
  b = b
  NoLabel = NoLabel
  Statements <- AllStatements
  MAXLINES = 3
  MAXDEST = 100
  BYTE = 16
INVARIANTS AssembledOrRefused
CHECK_DEADLOCK FALSE
