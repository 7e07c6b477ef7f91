SPECIFICATION Spec
CONSTANTS
    Currencies = {m1, m2}
    SeedCurrency = m1
    Countries = {k1, k2}
    Services = {s1, s2}
    Categories = {c1}
    Seeded = {k1, s1}
    Requests = {r1, r2}
    Users = {u1, u2}
    HomeOf <- MCHomeOf
    BaseSlugs = {b1, b2}
    Suffixed = {x1}
    SlugAttempts = 2
    Limits = {1, 2}
    MaxAsked = 4
    Nothing = Nothing
SYMMETRY AllAlike
CHECK_DEADLOCK FALSE
INVARIANTS
    TypeOK
    NothingOutlivesItsService
    NoOrphanRates
PROPERTIES
    CapHolds
    ImplementsBook
