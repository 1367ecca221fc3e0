\* Two windows; the storage may fail.
SPECIFICATION Spec
CONSTANTS
    Windows = {1, 2}
    Limit = 2
    Sizes = {1, 2}
    StorageFails = TRUE
    MaxMoved = 3
    NoAlarm = NoAlarm
    NoVerdict = NoVerdict
INVARIANTS
    TypeOK
    RefusalEarned
    PassEarned
