CONSTANTS
    Block = {b1, b2}
    QMax = 2
    MaxWrites = 4
    Saves = {"inplace", "replace"}
SPECIFICATION Spec
INVARIANT ServesFileOnDisk
CHECK_DEADLOCK FALSE
