\* Every single-segment header of the scaled word, and whole executables of
\* up to two headers: validate_segment against the spec's rules, the memory
\* image load builds, and that load returns.
CONSTANTS
  W <- MC_W
  PGBITS <- MC_PGBITS
  PHYS_BASE <- MC_PHYS_BASE
  Images <- MC_AllImages
  UserPtrs <- MC_UserPtrs
  NULL = NULL
SPECIFICATION Spec
INVARIANT TypeOK
INVARIANT SegmentCheckMatchesSpec
INVARIANT LoadedImageCorrect
INVARIANT MappingsInUserSpace
PROPERTY LoadReturns
