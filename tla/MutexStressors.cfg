SPECIFICATION FairSpec
CONSTANTS
    Algorithms = {"dekker", "peterson"}
    Modulus = 3
    AbortFailures = 5
    MaxKills = 1
    MaxFaults = 1
INVARIANT NoFalseFailure
PROPERTIES ImplementsLock StopEnds NoStarvation
