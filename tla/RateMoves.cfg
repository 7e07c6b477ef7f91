SPECIFICATION FairSpec
CONSTANTS
  NoBase = NoBase
  NoEntry = NoEntry
  Workspaces = {w1}
  Readers = {r1}
  Writers = {x1, x2}
  Bases = {3}
  Puts <- MCPuts
  Qtys = {0, 2}
  MaxStates = 3
INVARIANTS
  TypeOK
  EntriesKeepTheirVersion
  NoStalePrice
  LadderIsOnePut
  PriceFollowsTheRule
PROPERTIES
  DriftIsBounded
