CONSTANTS
    Parsers = {p1}
    Slot = {s1, s2, s3}
    NoSlot = none
    SockMax = 2
    MaxDatagrams = 2
SPECIFICATION Spec
INVARIANT StopsWithoutPanic
CHECK_DEADLOCK FALSE
