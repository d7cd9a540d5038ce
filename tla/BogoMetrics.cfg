SPECIFICATION FairSpec
CONSTANTS
    N = 2
    Plan <- PermuteTwo
    Wrapped = {2}
    Oomable = FALSE
    MaxOps = 1
    Signals <- SignalsOf
    MaxMishaps = 1
INVARIANTS TypeOK CorruptionReported AlarmsExplained TornIsUntrustworthy OomHonest
PROPERTIES RunsEnd
