CONSTANTS
    Addr <- MCAddr
    Trusted <- MCTrusted
    Image <- MCImage
    Magic <- MCMagic
    Conn = {k1, k2}
    First = k1
    Request <- MCRequest
    NoRequest = NoRequest
    Mac <- MCMac
    Rec <- MCRec
    Absent = Absent
    BufSize = 5
    MaxUpdates = 1
SPECIFICATION Spec
INVARIANTS TypeOK ClientAddress OwnPatchInPlace CompleteOrAborted PatchedWhereSeen
PROPERTIES ServerStops
CHECK_DEADLOCK FALSE
