SPECIFICATION Spec
CONSTANTS
  Pixel = {p1}
  Value = {v1, v2}
  Glide2x = TRUE
  HostMaps = TRUE
  Config <- MCConfig
  NoDraw = NoDraw
  MaxQueued = 1
SYMMETRY Same
INVARIANTS
  TypeOK
  ReadsBuffer
PROPERTIES
  ActsDirectly
