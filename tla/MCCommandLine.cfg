CONSTANTS
    c1 = c1
    c2 = c2
    Conns = {c1, c2}
    Background = {"watcher"}
    SubChoices = {{"notification"}, {"config", "interfaces", "clients"}}
    Cap = 1
    MaxVersion = 1
    MaxNotes = 1
    Commands <- LookAndAct
SPECIFICATION CLFairSpec
INVARIANTS TypeOK WatchMissesNothing
PROPERTIES CommandsAreAnswered WatcherReturns CleanupEnds
