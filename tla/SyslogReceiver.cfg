CONSTANTS
    Parsers = {p1}
    Slot = {s1, s2, s3}
    NoSlot = none
    SockMax = 2
    MaxDatagrams = 4
SPECIFICATION Spec
INVARIANTS TypeOK SingleOwner
PROPERTIES LogsWhatItReads ShutdownCompletes
CHECK_DEADLOCK FALSE
