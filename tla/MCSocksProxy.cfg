CONSTANTS
    Clients = {c1, c2}
    Listeners = {l1, l2, l3}
    Enabled = TRUE
    Protected = TRUE
SPECIFICATION Spec
SYMMETRY Symmetry
INVARIANTS TypeOK NoOrphanListener ReportedIsServing ServingIsReported
