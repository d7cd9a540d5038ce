SPECIFICATION Spec
CONSTANTS
    Algorithms = {"dekker", "peterson"}
    Modulus = 3
    AbortFailures = 5
    MaxKills = 0
    MaxFaults = 1
INVARIANT ReportedFailureFails
