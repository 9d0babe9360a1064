CONSTANTS
    Marks = {"m1", "m2", "m3", "m4"}
    Ports = {}
    V4Hosts = {}
    V6Hosts = {}
    FWMark = "m4"
    RulesetNames = {"office"}
    Owners = {"c1"}
    IfNames = {"wlan0", "eth0"}
    Infos <- NetInfos
    Predicates <- MCPredicates
    Indexes = {2, 3}
    InitialOptions <- NetOptions
    Requests <- NetRequests
    TmpChoices <- WriteTmp
    ForceChoices = {{"wlan0"}}
    ProxyStates = {}
    SocksEnabled = FALSE
    FaultKinds = {"write"}
    MaxFaults = 1
    MaxNetChanges = 0
    MaxRefs = 1
SPECIFICATION Spec
CHECK_DEADLOCK FALSE
INVARIANT NothingSurvivesDisconnect
