CONSTANTS
  W <- MC_W
  Jpegs <- MC_Jpegs
  MaxCalls <- MC_MaxCalls
SPECIFICATION Spec
INVARIANTS TypeOK 
PROPERTIES JpgCallsReturn
