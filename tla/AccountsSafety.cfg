SPECIFICATION Spec
CONSTANTS
    Users = {u1, u2}
    Partners = {p1}
    Numbers = {n1, n2}
    Requests = {r1, r2}
    MaxAttempts = 1
    MaxCodes = 2
    Nothing = Nothing
SYMMETRY AllAlike
CONSTRAINT OneKind
CHECK_DEADLOCK FALSE
INVARIANTS
    TypeOK
    OneHolderPerNumber
    OwnCode
    NumberProved
    NeverStranded
    OneCodeAtATime
