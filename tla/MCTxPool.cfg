SPECIFICATION FairSpec
CONSTANTS
    r1 = r1
    r2 = r2
    r3 = r3
    r4 = r4
    c1 = c1
    c2 = c2
    Nobody = Nobody
    Requests = {r1, r2, r3}
    Conns = {c1, c2}
INVARIANTS
    TypeOK
    NoHoldAndWait
    OnlyPanicsLeak
PROPERTIES
    EndsUnlessExhausted
    LookupsAlwaysEnd
CHECK_DEADLOCK FALSE
