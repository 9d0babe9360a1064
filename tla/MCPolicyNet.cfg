CONSTANTS
    Marks = {"m1", "m2", "m3", "m4"}
    Ports = {}
    V4Hosts = {}
    V6Hosts = {}
    FWMark = "m4"
    RulesetNames = {"office"}
    Owners = {c1}
    IfNames = {"wlan0", "eth0"}
    Infos <- NetInfos
    Predicates <- MCPredicates
    Indexes = {i1, i2}
    InitialOptions <- NetOptions
    Requests <- NetRequests
    TmpChoices <- NetTmp
    ForceChoices = {}
    ProxyStates = {}
    SocksEnabled = FALSE
    FaultKinds = {"list", "attach", "write"}
    MaxFaults = 1
    MaxNetChanges = 2
    MaxRefs = 0
SPECIFICATION Spec
CHECK_DEADLOCK FALSE
SYMMETRY Symmetry
INVARIANTS ReconciledInForce MapsMatchMemory DetachedHaveNoPolicy MemoryIsWanted
