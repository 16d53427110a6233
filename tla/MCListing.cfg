SPECIFICATION Spec
CONSTANTS
    s1 = s1
    s2 = s2
    s3 = s3
    s4 = s4
    ann = ann
    bob = bob
    t1 = t1
    t2 = t2
    a1 = a1
    Anything = Anything
    None = None
    Garbled = Garbled
    Savers = {s1, s2, s3, s4}
    Users = {ann, bob}
    Titles = {t1, t2}
    Authors = {a1}
    MaxPage = 3
    MaxPageSize = 2
SYMMETRY Symmetry
CONSTRAINTS
    UntilOver
    OneStranger
INVARIANTS
    TypeOK
    WalkMissesNothing
    SeenTwiceMeansSaved
    PagesFit
    StatementsBind
    RowsArriveWhole
CHECK_DEADLOCK FALSE
