\* Two targets, each used while it is bound, as GL allows.
CONSTANTS
  Target <- MCTarget
  Buffer <- MCTwo
  Size <- MCSizeTwo
  AreaSize = 6
  Access = {"readwrite"}
  Rules <- MCNotLastBound
SPECIFICATION Spec
PROPERTY NoContention
