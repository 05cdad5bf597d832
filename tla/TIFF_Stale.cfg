CONSTANTS
  W <- MC_W
  Tiffs <- MC_Tiffs
  MaxCalls <- MC_MaxCalls
SPECIFICATION Spec
INVARIANT TiffPrintsMetadata
