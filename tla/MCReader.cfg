\* The reader under a layer that stops at the first error.
CONSTANTS
  visible <- ClVisible
  Root <- MCRoot
  Modes <- MCModes
  Swallow = FALSE
  BlockSz = 64
  Codepoints <- MCCodepoints
  IsSpaceTrue = 1
  AllocFails = TRUE
  SendFails = TRUE
  MaxLine = 2
SPECIFICATION Spec
INVARIANTS ReadTypeOK PromptIsCurrent FieldsAccountedFor EveryFieldAnswered
PROPERTY ImplementsDialogue
CHECK_DEADLOCK FALSE
