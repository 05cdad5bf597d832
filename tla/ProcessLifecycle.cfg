\* When every thread is blocked or gone the pintos idle thread runs and
\* nothing else happens, so a stop is not an error here; a hang is what
\* the liveness property is about.
CONSTANTS
  MaxThreads <- MC_MaxThreads
  ExitCodes <- MC_ExitCodes
  NULL = NULL

SPECIFICATION FairSpec

INVARIANT TypeOK
INVARIANT WaitStatusFreedOnce
PROPERTY WaitStatusRefined
PROPERTY WaitReturns

CHECK_DEADLOCK FALSE
