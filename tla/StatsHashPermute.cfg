SPECIFICATION FairSpec
CONSTANTS
    NStats = 3
    Size = 2
    Pids = {2, 3, 4, 5}
    Helpers = {5}
    SigchldUsers = {1}
    Plan <- PermuteThree
INVARIANTS TypeOK LiveLookupNeverMisses NoneLeftBehind
PROPERTIES StatusGoesToOwner LiveLookupTerminates
