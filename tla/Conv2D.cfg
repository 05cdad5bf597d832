\* conv2D against the reference convolution on every path.
CONSTANTS
  Shapes <- MC_Shapes
  Values <- MC_Values
SPECIFICATION Spec
INVARIANT TypeOK
INVARIANT ConvMatchesReference
INVARIANT RowStoresOwnRow
