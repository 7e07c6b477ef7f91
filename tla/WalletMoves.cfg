SPECIFICATION FairSpec
CONSTANTS
  NoRequest = NoRequest
  NoWallet = NoWallet
  w1 = w1
  w2 = w2
  k1 = k1
  k2 = k2
  k3 = k3
  k4 = k4
  inr = inr
  usd = usd
  Currencies = {inr, usd}
  DefaultCurrency <- MCDefaultCurrency
  Requests = {r1, r2}
  Keys = {k1, k2, k3, k4}
  Workspaces = {w1, w2}
  MaxMicros = 3
  Offered <- MixedCalls
INVARIANTS
  TypeOK
  LedgerChained
  CacheInLockStep
  OneRowPerKey
  OneCurrencyPerWallet
  StaffAlwaysFindsWallet
  LockDiscipline
  FindingsStayTrue
PROPERTIES
  AppendOnly
  ImplementsLedger
  EveryCallAnswered
