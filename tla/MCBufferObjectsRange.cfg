\* Parts of one buffer, flushed and written unit by unit.
CONSTANTS
  Target = {"array"}
  Buffer <- MCOne
  Size <- MCSizeLong
  AreaSize = 4
  Access = {"read", "write", "explicit"}
  Rules <- MCRules
SPECIFICATION Spec
PROPERTY FlushReachesHost
