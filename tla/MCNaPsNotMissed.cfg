CONSTANTS
  Goroutines = {g1, g2}
  MaxFrames = 2
SPECIFICATION HandlerSpec
INVARIANT NaPsNotMissed
