CONSTANTS
    Inst = {1, 2}
    Kinds = {"inside"}
    Runs = 1
    MayStop = FALSE
    MaxDeaths = 0
SPECIFICATION FairSpec
PROPERTIES WokenByParent
CHECK_DEADLOCK FALSE
