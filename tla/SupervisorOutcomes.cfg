SPECIFICATION FairSpec
CONSTANTS
    Inst = {1, 2}
    Item <- ItemEach
    Plan <- ParallelTwo
    Settings <- AllOutcomes
    Abort = TRUE
    Aggressive = TRUE
    ForkErrors = FALSE
    MaxSigint = 0
    Group = FALSE
INVARIANTS ReapCountExact SummaryCountsAll 
PROPERTIES TimeoutTerminates AbortTerminates OrphansStop FailuresCounted
