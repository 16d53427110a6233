SPECIFICATION Spec
CONSTANTS
    r1 = r1
    r2 = r2
    r3 = r3
    r4 = r4
    ann = ann
    bob = bob
    p1 = p1
    p2 = p2
    pw1 = pw1
    pw2 = pw2
    NoRow = NoRow
    Requests = {r1, r2}
    Emails = {ann}
    Phones = {p1}
    Passwords = {pw1}
    Codes = {100000}
INVARIANT SuccessIsAnswered
CHECK_DEADLOCK FALSE
