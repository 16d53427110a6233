SPECIFICATION PipeFairSpec
CONSTANTS
    r1 = r1
    r2 = r2
    r3 = r3
    Silent = Silent
    Requests = {r1, r2, r3}
    Statuses = {200, 500}
INVARIANTS
    TypeOK
    DrainBeforeClose
    CleanMeansDrained
    PipeTypeOK
    CountersBalance
    StatusesTrue
    NobodyLeavesSilent
    CleanMeansCounted
PROPERTY SignalEndsProcess
CHECK_DEADLOCK FALSE
