SPECIFICATION FairSpec
CONSTANTS
    o1 = o1
    u1 = u1
    u2 = u2
    n1 = n1
    n2 = n2
    r1 = r1
    r2 = r2
    Orgs = {o1}
    Users = {u1, u2}
    Names = {n1, n2}
    Requests = {r1, r2}
    NoName = NoName
    Null = Null
    MaxWrites = 3
    Faults = TRUE
PROPERTY StaleEntriesDieOut
INVARIANTS TypeOK StaleEntryHasACause
