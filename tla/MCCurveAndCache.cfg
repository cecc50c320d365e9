CONSTANTS
  FieldPrime = 193
  CurveParameterD = 44
  squareRootDbyA = 53
  endo_b = 51
  endo_c = 19
  q = 43
  Eigenvalue = 16
  Generator <- MCGenerator
  v1 = v1
  v2 = v2
  Names = {v1, v2}
  Scales <- MCScales
  RandomX <- MCRandomX
  MaxCalls = 2
  Xs <- MCXs
  Ys <- Fe
  Signs <- MCSigns
  MaxPoints = 4
  Goroutines = {g1}
  MaxFrames = 3
  Procs = {p1, p2}
  Keys = {k1}
  NoProc = NoProc
  NoPage = NoPage
  MaxAmount = 2
SPECIFICATION MCSpec
INVARIANTS ObservationsExact RecoveredExactly NormalizedSoFar NaPsReported
PROPERTIES ImplementsGroup ImplementsLists CallsReturn
CHECK_DEADLOCK FALSE
