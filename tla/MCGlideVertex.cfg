CONSTANTS
  Param <- MCParam
  Offset <- MCOffset
  MaxQueue = 2
  ResetsOnExit = TRUE
SPECIFICATION Spec
INVARIANTS TypeOK VertexSizesAgree CoveredUnlessRestored IInv
