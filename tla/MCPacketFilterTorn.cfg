CONSTANTS
    Marks = {"m1", "m2"}
    Ports <- MCPorts
    V4Hosts = {"a", "b"}
    V6Hosts = {"a", "b"}
    FWMark = "m2"
    Ifaces = {1}
    Policies <- TornPolicies
    MaxEntries = 2
    Cpus = {"cpu0"}
    Packets <- TornPackets
SPECIFICATION PFSpec
INVARIANT PassedByOnePolicy
