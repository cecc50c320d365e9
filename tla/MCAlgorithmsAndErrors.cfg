CONSTANTS
  WordBits = 4
  BaseFieldSize = 27367
  InverseInputs <- MCInputs
  JacobiInputs <- MCInputs
  WindowInputs <- MCWindowInputs
  FieldSize = 769
  TotalBits = 8
  DyadicRoot = 343
  BlockSizes = {2, 3, 8}
  BatchValues = {0, 1, 2, 5, 768}
  MaxBatch = 4
  inputBitLen = 8
  ExponentWordBits = 3
  GroupOrder = 859
  EndomorphismEigenvalue = 563
  lBasis_11 = 29
  lBasis_12 = 3
  e1 = e1
  e2 = e2
  ExponentNames = {e1, e2}
  InitialExponents <- MCInitialExponents
  BigInts <- MCBigInts
  NegCalls <- InPlace
  MaxExponentCalls = 2
  Procs = {p1, p2}
  NoProc = NoProc
  NoSlice = NoSlice
  MaxNesting = 3
  Types <- MCTypes
  QueryTypes <- MCQueryTypes
  QueryNames <- MCQueryNames
  StructTypes <- MCStructTypes
  TypeDef <- MCTypeDef
  Names <- MCNames
  Values <- MCValues
  Data <- MCData
  UserMaps <- MCUserMaps
  MaxErrors = 2
  MaxMaps = 4
SPECIFICATION MCSpec
INVARIANTS
  InverseRight JacobiRight ExpansionsExact MulFiveExact
  ExponentsExact GLVShortest RootsAndInversesExact
  IdenticalResults SuitableIffRulesHold AgreesWithGoUpToEmbedded OthersHaveTheirData StructsRoundTrip
PROPERTIES
  LoopsEnd CallsReturn ErrorsImmutable ImplementsImmutableErrors
