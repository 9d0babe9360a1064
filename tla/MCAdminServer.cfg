CONSTANTS
    Conns = {c1, c2}
    Background = {"watcher", "proxy"}
    SubChoices = {{"config", "notification"}}
    Cap = 1
    MaxVersion = 1
    MaxNotes = 1
SPECIFICATION Spec
SYMMETRY Symmetry
INVARIANTS NotesArriveOnce BufferedForLackOfSubscribers EveryChangeIsSent
