\* Where argv points once a second argument has been lexed.
CONSTANTS
  Alphabet <- MCAlphabet
  MaxLen = 4
SPECIFICATION Spec
INVARIANT EveryTokenKept
CHECK_DEADLOCK FALSE
