CONSTANTS
  Fixed = {"Vertex"}
  Units = {}
  Attribs = {}
  Format <- MCFormat
  Ptr = {4}
  BadPtr = {}
  Buf = {1}
  Vao = {2}
  Draw <- MCDraw
  MaxQueue = 2
  MaxData = 16
SPECIFICATION Spec
INVARIANTS TypeOK ArraysAgree DrawsComplete PushesToCache
PROPERTIES RoomForArrays
