CONSTANTS
    Block = {b1, b2}
    QMax = 2
    MaxWrites = 4
    Saves = {"inplace", "replace"}
SPECIFICATION Spec
INVARIANTS TypeOK NoLostUpdate
PROPERTY EventuallyFresh
CHECK_DEADLOCK FALSE
