\* The reader under the telnet layer, which goes on after an error.
CONSTANTS
  visible <- ClVisible
  Root <- MCRoot
  Modes <- MCModes
  Swallow = TRUE
  BlockSz = 64
  Codepoints <- FewCodepoints
  IsSpaceTrue = 1
  AllocFails = TRUE
  SendFails = FALSE
  MaxLine = 2
SPECIFICATION Spec
INVARIANT EveryFieldAnswered
CHECK_DEADLOCK FALSE
