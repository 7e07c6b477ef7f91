SPECIFICATION Spec
CONSTANTS
  Owner = o
  Emails = {o, a, b}
  Roles = {"ADMIN", "AGENT"}
  Requests = {r1, r2}
  MaxMembers = 2
  MaxAgents = 1
  MaxInvites = 2
  MaxTokens = 2
  NoRequest = NoRequest
  Nothing = Nothing
SYMMETRY Symmetry
INVARIANTS
  TypeOK
  AcceptedHasJoined
  OneAtATime
  LookedStaysTrue
  SeatsReserved
CHECK_DEADLOCK FALSE
