CONSTANTS
  MaxInt32 = 10
  SizeField = 2
  MaxInput = 10
  BufferLens = {0, 1, 3}
  Formats <- MCFormats
  QueryFormats <- MCQueryFormats
  MaxQuery = 12
  WriterFormats <- MCWriterFormats
  PointLists <- MCPointLists
  Letters = {"a"}
  MaxLength = 5
  Texts <- MCTexts
  MaxTokens = 7
  MaxCorrect = 6
  MaxTail = 1
  InterpolationNames = {"Foo"}
  PercentVerbs = {"x%"}
  ParameterMaps <- MCParameterMaps
  WrappedErrors <- MCWrappedErrors
  NilMap = NilMap
SPECIFICATION MCSpec
INVARIANT ParserNeverPanics
