CONSTANTS
  Param <- MCParam
  Offset <- MCOffset
  MaxQueue = 2
  ResetsOnExit = FALSE
SPECIFICATION Spec
INVARIANT VertexSizesAgree
