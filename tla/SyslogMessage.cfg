CONSTANTS
    BufLen = 24
    Nil = Nil
    Formatted <- MCFormatted
    Others <- MCOthers
    MaxReads = 2
SPECIFICATION Spec
INVARIANTS TypeOK DatagramAlone WellFormedUnderstood SeverityKept
CHECK_DEADLOCK FALSE
