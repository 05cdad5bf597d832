\* The dispatcher's pointer check on the address space load builds.
CONSTANTS
  W <- MC_W
  PGBITS <- MC_PGBITS
  PHYS_BASE <- MC_PHYS_BASE
  Images <- MC_LoadImages
  UserPtrs <- MC_UserPtrs
  NULL = NULL
SPECIFICATION Spec
INVARIANT PointerCheckMatchesSpec
