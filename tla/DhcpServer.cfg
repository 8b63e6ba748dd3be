CONSTANTS
    RaspberryPI = {"m2"}
    HTTPHost = "ip"
    NetbootEnabled = TRUE
    UserClass = ""
    PrependMac = TRUE
    Pkt <- MCPkt
    Garbage = garbage
    Macs <- MCMacs
    Answers <- MCAnswers
    MaxPackets = 2
    MaxUpdates = 1
SPECIFICATION Spec
INVARIANTS TypeOK ReplyToItsRequest ReservedOnly NetbootGate CleanStop
PROPERTIES HandlersFinish ServeReturns
CHECK_DEADLOCK FALSE
