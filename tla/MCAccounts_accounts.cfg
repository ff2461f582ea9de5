SPECIFICATION Spec
CONSTANTS
    a1 = a1
    a2 = a2
    p1 = p1
    p2 = p2
    r1 = r1
    r2 = r2
    r3 = r3
    Addresses = {a1, a2}
    Passwords = {p1, p2}
    Requests = {r1, r2, r3}
    Faults = TRUE
    Malformed = Malformed
    Null = Null
SYMMETRY Alike
INVARIANTS TypeOK OneAccountPerAddress OnlyTheWinnerLogsIn RegisteredCanLogIn
PROPERTY ImplementsRules
