CONSTANTS
    Ifaces = {i1}
    Statuses = {"internet", "login"}
    QueueSize = 1
    TrayEnabled = TRUE
    ChecksEnabled = TRUE
    TrayQueue = 1
    MaxSessions = 2
    MaxChanges = 1
    MaxClicks = 1
    MaxWorld = 1
SPECIFICATION Spec
ACTION_CONSTRAINT FewEvents
INVARIANTS TypeOK  NoticeIsUsable PortalNoticeIsCurrent MenuIsCurrent LoginEntryWorks
