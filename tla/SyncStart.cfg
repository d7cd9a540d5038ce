CONSTANTS
    Inst = {1, 2}
    Kinds = {"plain", "before", "inside"}
    Runs = 2
    MayStop = TRUE
    MaxDeaths = 1
SPECIFICATION FairSpec
INVARIANTS TypeOK NoneLeftStopped
PROPERTIES ReleasedTogether SyncTerminates
CHECK_DEADLOCK FALSE
