CONSTANTS
  Procs = {p1, p2}
  NoProc = NoProc
  NoSlice = NoSlice
  MaxNesting = 3
  Types <- MCTypes
  QueryTypes <- MCQueryTypes
  QueryNames <- MCQueryNames
  StructTypes <- MCStructTypes
  TypeDef <- MCTypeDef
  Names <- MCNames
  Values <- MCValues
  Data <- MCData
  UserMaps <- MCUserMaps
  MaxErrors = 2
  MaxMaps = 4
SPECIFICATION ErrorsSpec
INVARIANT
  TypedErrorsHaveTheirData
