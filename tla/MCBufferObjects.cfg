\* Two buffers, mapped and unmapped in any order.
CONSTANTS
  Target <- MCTarget
  Buffer <- MCTwo
  Size <- MCSizeTwo
  AreaSize = 6
  Access = {"readwrite"}
  Rules <- MCRules
SPECIFICATION Spec
INVARIANTS TypeOK ViewsDisjoint GuestSeesContents HostHasWrites NothingLeftOver
