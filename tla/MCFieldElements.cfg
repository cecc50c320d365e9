CONSTANTS
  WordBits = 3
  BaseFieldSize = 1409
  Operands <- MCOperands
  Wide <- MCWide
  Elements <- MCElements
  SmallIntegers <- MCSmallIntegers
  Powers <- MCPowers
  BitHeaders <- MCBitHeaders
  Foreign <- MCForeign
  Written <- MCWritten
  Taken <- MCTaken
  MaxStream = 4
SPECIFICATION MCSpec
INVARIANTS ResidueTracked ArithmeticExact ImplementsBigInt ObserversAgree SerializationExact
