CONSTANTS
    Name = {n1, n2}
    Iface <- MCIface
    Mac <- MCMac
    IP <- MCIP
    MaxIfaces = 2
    Key <- MCKey
    Entry <- MCEntry
    Malformed = Malformed
    MaxEntries = 3
    DhcpMode <- MCDhcpMode
SPECIFICATION BackendsSpec
INVARIANT MissingFieldsAreErrors
CHECK_DEADLOCK FALSE
