CONSTANTS
    Marks = {"m1", "m2"}
    Ports <- MCPorts
    V4Hosts = {"a", "b"}
    V6Hosts = {"a", "b"}
    FWMark = "m2"
    Ifaces = {i1, i2, i3}
    Policies <- RacePolicies
    MaxEntries = 2
    Cpus = {"cpu0"}
    Packets <- RacePackets
SPECIFICATION PFSpec
SYMMETRY Symmetry
INVARIANTS TypeOK UndisturbedIsExact TornReadIsBounded
PROPERTY ImplementsPolicyStore
