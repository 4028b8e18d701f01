\* The mode a callback is told, without failures.
CONSTANTS
  visible <- ClVisible
  Root <- MCRoot
  Modes <- MCModes
  Swallow = FALSE
  BlockSz = 64
  Codepoints <- FewCodepoints
  IsSpaceTrue = 1
  AllocFails = FALSE
  SendFails = FALSE
  MaxLine = 2
SPECIFICATION Spec
INVARIANT ModeIsCommands
CHECK_DEADLOCK FALSE
