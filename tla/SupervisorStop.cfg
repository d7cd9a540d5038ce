SPECIFICATION FairSpec
CONSTANTS
    Inst = {1, 2}
    Item <- ItemOf
    Plan <- ParallelTwo
    Settings <- Endless
    Abort = FALSE
    Aggressive = FALSE
    ForkErrors = TRUE
    MaxSigint = 1
    Group = TRUE
INVARIANTS TypeOK NoneLeftBehind StopReachesAll NoLostStop KillHitsOwn
PROPERTIES StopTerminates
