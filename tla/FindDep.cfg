SPECIFICATION Spec
CONSTANTS
  Files <- MCFiles
  Symbols = {"sa", "sb", "sz", "st", "lds", "x"}
  LdsSyms = {"lds"}
  Top = "top"
  Booter = "booter"
  Lds = "LDS"
  None = None
  ExportChoices <- MCExports
  UndefChoices <- MCUndefs
INVARIANTS
  InitOrder
  ImageExact
  PanicsJustified
PROPERTIES
  Terminates
CHECK_DEADLOCK FALSE
