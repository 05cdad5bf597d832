\* Descriptor-table safety of one process.
CONSTANTS
  h1 = h1
  h2 = h2
  h3 = h3
  h4 = h4
  h5 = h5
  NULL = NULL
  STALE = STALE
  MAX_FD <- MC_MAX_FD
  Handles <- MC_Handles
  PHYS_BASE <- MC_PHYS_BASE
  PGSIZE <- MC_PGSIZE
  CmdLines <- MC_CmdLines
SYMMETRY MC_Symmetry
SPECIFICATION Spec
INVARIANT TypeOK
INVARIANT DescriptorsPartitioned
INVARIANT FilesAccountedFor
INVARIANT ActivePagedirLive
INVARIANT UserEntryFrame
INVARIANT ArgvWithinArray
PROPERTY FdTableRefined
