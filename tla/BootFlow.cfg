CONSTANTS
    RaspberryPI = {}
    HTTPHost = "ip"
    NetbootEnabled = TRUE
    UserClass = ""
    PrependMac = TRUE
    Macs <- MCMacs
    Machines <- MCMachines
    Profiles <- MCProfiles
    Answers <- MCAnswers
    OtherIP <- MCOtherIP
    MaxUpdates = 2
    MaxOffs = 1
SPECIFICATION Spec
INVARIANTS TypeOK ChainloadsOnce DenialHolds OwnScript
PROPERTY EventuallyBoots
CHECK_DEADLOCK FALSE
