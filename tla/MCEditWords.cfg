\* Deleting a word with the isspace() of glibc, which returns 8192 for a space.
CONSTANTS
  BlockSz = 64
  Codepoints <- MCWords
  IsSpaceTrue = 8192
  AllocFails = FALSE
  SendFails = FALSE
  MaxLine = 5
SPECIFICATION EditSpec
PROPERTY WordErased
CHECK_DEADLOCK FALSE
