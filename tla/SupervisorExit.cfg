SPECIFICATION Spec
CONSTANTS
    Inst = {1, 2}
    Item <- ItemEach
    Plan <- ParallelTwo
    Settings <- Unusual
    Abort = FALSE
    Aggressive = FALSE
    ForkErrors = FALSE
    MaxSigint = 0
    Group = FALSE
INVARIANTS ExitTellsFailures
