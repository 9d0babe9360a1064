CONSTANTS
    Marks = {"m1", "m2", "m3", "m4"}
    Ports = {}
    V4Hosts = {}
    V6Hosts = {}
    FWMark = "m4"
    RulesetNames = {"office"}
    Owners = {"c1"}
    IfNames = {"wlan0"}
    Infos <- WatcherInfos
    Predicates <- WatcherPredicates
    Indexes = {2}
    InitialOptions <- WatcherOptions
    Requests = {}
    TmpChoices <- WatcherTmp
    ForceChoices = {}
    ProxyStates = {}
    SocksEnabled = FALSE
    FaultKinds = {}
    MaxFaults = 0
    MaxNetChanges = 1
    MaxRefs = 0
    Kinds = {"link", "neigh"}
    MaxSubErrors = 1
SPECIFICATION WFairSpec
CHECK_DEADLOCK FALSE
INVARIANTS WTypeOK InterfacesAreTold
PROPERTIES ImplementsPolicyManager EventuallyInForce DisconnectCompletes
