SPECIFICATION Spec
CONSTANTS
    r1 = r1
    r2 = r2
    r3 = r3
    ann = ann
    bob = bob
    t1 = t1
    t2 = t2
    x = x
    y = y
    NoUser = NoUser
    Ghost = Ghost
    NoBook = NoBook
    Requests = {r1, r2, r3}
    Users = {ann, bob}
    Titles = {t1, t2}
    Contents = {x}
SYMMETRY Symmetry
INVARIANTS
    TypeOK
    TitleUniquePerOwner
    AckedBookStays
PROPERTIES
    DuplicateMeansBook
    ReadYourSaves
CHECK_DEADLOCK FALSE
