SPECIFICATION FrameSpec
CONSTANTS
  Functions <- MCFunctions
  Params <- MCParams
  Locals <- MCLocals
  Spills <- MCSpills
  UsedRegs <- MCUsedRegs
  CalleeSaved <- MCCalleeSaved
  StackTop = 18
  MaxDepth = 2

PROPERTY CalleeSavedRestored
