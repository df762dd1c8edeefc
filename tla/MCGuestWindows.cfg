\* One window request at a time.
CONSTANTS
  WindowSizes <- MCSizes
  ConsoleSize = 1024
  Settled = TRUE
SPECIFICATION Spec
INVARIANTS TypeOK GlideHasContext MesaHasContext ConsoleRestored
PROPERTIES OpeningEnds ClosingEnds ChoosingEnds ContextKept
