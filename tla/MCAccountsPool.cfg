SPECIFICATION PooledFairSpec
CONSTANTS
    r1 = r1
    r2 = r2
    r3 = r3
    c1 = c1
    c2 = c2
    ann = ann
    p1 = p1
    pw1 = pw1
    NoRow = NoRow
    Nobody = Nobody
    Requests = {r1, r2, r3}
    Conns = {c1, c2}
    Emails = {ann}
    Phones = {p1}
    Passwords = {pw1}
    Codes = {100000, 999999}
INVARIANTS
    ActivatedByIssuedCode
    NoDeadlock
PROPERTIES
    EveryRequestEnds
    ImplementsPool
CHECK_DEADLOCK FALSE
