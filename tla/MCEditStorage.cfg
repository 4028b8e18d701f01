\* A line of one letter, typed to the end of the first block.
CONSTANTS
  BlockSz = 64
  Codepoints <- MCLetter
  IsSpaceTrue = 1
  AllocFails = FALSE
  SendFails = FALSE
  MaxLine = 64
SPECIFICATION EditSpec
INVARIANT TextIsStored
CHECK_DEADLOCK FALSE
