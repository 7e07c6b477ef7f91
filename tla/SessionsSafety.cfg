\* Two sessions of one account, two requests at a time, one of them cut off.
SPECIFICATION Spec
CONSTANTS
  NoSession = NoSession
  Barred = Barred
  Standings = {active, Barred}
  Subjects = {s1}
  Sids = {x1, x2}
  Handlers = {h1, h2}
  MaxTokens = 2
  MaxCrashes = 1
SYMMETRY HandlerSymmetry
INVARIANTS
  TypeOK
  QuietRevokeIsFinal
  RevokeAllIsComplete
