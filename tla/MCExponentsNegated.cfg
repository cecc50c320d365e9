CONSTANTS
  WordBits = 4
  BaseFieldSize = 27367
  InverseInputs <- MCInputs
  JacobiInputs <- MCInputs
  WindowInputs <- MCWindowInputs
  FieldSize = 769
  TotalBits = 8
  DyadicRoot = 343
  BlockSizes = {2, 3, 8}
  BatchValues = {0, 1, 2, 5, 768}
  MaxBatch = 4
  inputBitLen = 8
  ExponentWordBits = 3
  GroupOrder = 859
  EndomorphismEigenvalue = 563
  lBasis_11 = 29
  lBasis_12 = 3
  e1 = e1
  e2 = e2
  ExponentNames = {e1, e2}
  InitialExponents <- MCInitialExponents
  BigInts <- MCBigInts
  NegCalls <- AnyReceiver
  MaxExponentCalls = 1
SPECIFICATION NumbersSpec
INVARIANT ValuesAsDocumented
