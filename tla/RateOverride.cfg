SPECIFICATION Spec
CONSTANTS
  NoBase = NoBase
  NoEntry = NoEntry
  Workspaces = {w1, w2}
  Readers = {r1}
  Writers = {x1}
  Bases = {3}
  Puts <- MCPuts
  Qtys = {0}
  MaxStates = 2
INVARIANT MissMeansNoOverride
