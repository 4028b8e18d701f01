\* The editor behind a terminal, with isspace() returning 1.
CONSTANTS
  BlockSz = 3
  Codepoints <- MCCodepoints
  IsSpaceTrue = 1
  AllocFails = TRUE
  SendFails = TRUE
  MaxLine = 6
SPECIFICATION TerminalSpec
INVARIANTS EditTypeOK OverrunIsBounded TextHasStorage ScreenShowsLine
PROPERTY WordErased
CHECK_DEADLOCK FALSE
