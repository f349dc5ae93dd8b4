CONSTANTS
    Execs = {e1, e2}
    Components = {"contract", "backend", "frontend"}
    Replies <- MCReplies
    MaxFaults = 1
SPECIFICATION FairSpec
INVARIANTS TypeOK StoredIsChecked SucceededIsStored
PROPERTIES GateBlamesCode FilesKept EveryGenerationEnds
CHECK_DEADLOCK FALSE
