CONSTANTS
  MaxThreads <- MC_MaxThreads
  ExitCodes <- MC_ExitCodes
  NULL = NULL

SPECIFICATION Spec

INVARIANT NoUseAfterFree
