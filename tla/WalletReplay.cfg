SPECIFICATION Spec
CONSTANTS
  NoRequest = NoRequest
  NoWallet = NoWallet
  w1 = w1
  w2 = w2
  k1 = k1
  k2 = k2
  k3 = k3
  k4 = k4
  inr = inr
  usd = usd
  Currencies = {inr, usd}
  DefaultCurrency <- MCDefaultCurrency
  Requests = {r1, r2}
  Keys = {k1, k2}
  Workspaces = {w1}
  MaxMicros = 7
  Offered <- RaceCalls
PROPERTIES
  ReplayNeverFails
