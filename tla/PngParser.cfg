\* Results and output of repeated analyze_png calls.
CONSTANTS
  Files <- MC_Files
  MaxCalls <- MC_MaxCalls
SPECIFICATION Spec
INVARIANT TypeOK
INVARIANT SuccessPrintsMetadata
PROPERTY CallsReturn
