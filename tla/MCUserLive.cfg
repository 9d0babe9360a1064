CONSTANTS
    Ifaces = {i1}
    Statuses = {"internet", "login"}
    QueueSize = 1
    TrayEnabled = FALSE
    ChecksEnabled = TRUE
    TrayQueue = 1
    MaxSessions = 1
    MaxChanges = 0
    MaxClicks = 2
    MaxWorld = 1
SPECIFICATION FairSpec
PROPERTIES StatusSettles ClickIsCarriedOut
