CONSTANTS
  Id = {c1, c2, c3, c4, c5}
  None = none
  MaxLvl = 3
  MaxPb = 2
  MaxMishaps = 1
SPECIFICATION Spec
SYMMETRY MCSym
INVARIANTS
  TypeOK
  RightContext
  CallsInOwn
  StatesTogether
  PbuffersAgree
  NothingLeft
