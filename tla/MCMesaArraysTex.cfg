CONSTANTS
  Fixed = {}
  Units = {0, 1}
  Attribs <- MCTexZero
  Format <- MCFormat
  Ptr = {4, 8}
  BadPtr = {8}
  Buf = {}
  Vao = {}
  Draw <- MCDrawTex
  MaxQueue = 1
  MaxData = 12
SPECIFICATION Spec
INVARIANT DrawsComplete
