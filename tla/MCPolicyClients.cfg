CONSTANTS
    Marks = {"m1", "m2", "m3", "m4"}
    Ports = {}
    V4Hosts = {}
    V6Hosts = {}
    FWMark = "m4"
    RulesetNames = {"office"}
    Owners = {c1, c2}
    IfNames = {"wlan0", "eth0"}
    Infos <- ClientInfos
    Predicates <- MCPredicates
    Indexes = {2}
    InitialOptions <- ClientOptions
    Requests <- ClientRequests
    TmpChoices <- ClientTmp
    ForceChoices = {{}, {"wlan0"}, {"wlan0", "eth0"}}
    ProxyStates <- ClientProxy
    SocksEnabled = FALSE
    FaultKinds = {}
    MaxFaults = 0
    MaxNetChanges = 0
    MaxRefs = 2
SPECIFICATION Spec
CHECK_DEADLOCK FALSE
INVARIANTS TypeOK ReconciledInForce GoneOwnersHoldNothing ForcedRulesetsExist
PROPERTY OwnersAreIndependent
