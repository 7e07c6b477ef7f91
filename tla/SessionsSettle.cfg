\* One session, three refresh tokens of it; no symmetry, which liveness forbids.
SPECIFICATION FairSpec
CONSTANTS
  NoSession = NoSession
  Barred = Barred
  Standings = {active, Barred}
  Subjects = {s1}
  Sids = {x1}
  Handlers = {h1, h2}
  MaxTokens = 3
  MaxCrashes = 1
PROPERTIES
  SuspensionSticks
