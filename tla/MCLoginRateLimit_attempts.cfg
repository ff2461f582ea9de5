SPECIFICATION Spec
CONSTANTS
    c1 = c1
    c2 = c2
    r1 = r1
    r2 = r2
    r3 = r3
    Clients = {c1, c2}
    Requests = {r1, r2, r3}
    Limit = 1
    Window = 2
    Resends = 1
    Breaks = 2
    MaxTime = 3
    Faults = TRUE
    Never = Never
    Nobody = Nobody
CONSTRAINT FewBreaks
SYMMETRY Alike
INVARIANT TypeOK
INVARIANT RefusalsAreDeserved
INVARIANT LessThanTwoWindowsWorth
CHECK_DEADLOCK FALSE
