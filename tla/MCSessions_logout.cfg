SPECIFICATION Spec
CONSTANTS
    t1 = t1
    t2 = t2
    r1 = r1
    r2 = r2
    Tokens = {t1, t2}
    Requests = {r1, r2}
    Second = 3
    ExpiresIn = 2
    MaxTime = 9
    Faults = TRUE
    Null = Null
SYMMETRY RequestsAlike
INVARIANT TypeOK
INVARIANT LoggedOutUntilRunOut
PROPERTY NobodyEntersAfterLogout
CHECK_DEADLOCK FALSE
