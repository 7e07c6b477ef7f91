SPECIFICATION Spec
CONSTANTS
    Emails = {e1, e2}
    Bootstrap = e1
    Roles = {"SUPER_ADMIN", "SUPPORT"}
    Requests = {r1, r2}
    MaxStaff = 3
    MaxChanges = 4
    Nothing = Nothing
SYMMETRY AllAlike
CHECK_DEADLOCK FALSE
INVARIANTS
    TypeOK
    SuperAdminRemains
    OneAccountPerEmail
