SPECIFICATION MCSpec
CONSTANTS
  Width = 3
  Interfaces = {1, 2}
  Metrics = {0, 1}
  UserRoutes <- MCUserRoutes
  Removable = {5}
  Locals <- MCLocals
  MaxTable = 4
  MaxLocals = 2
  Mobiles = {6, 7}
  MihLen = 1
  None = None
INVARIANTS TypeOK LookupIsChosen  NetworksReachable Follows
PROPERTY OnePathMoves
