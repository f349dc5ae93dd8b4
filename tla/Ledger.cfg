CONSTANTS
    MaxDeploys = 2
    MaxTests = 1
    MaxTeardowns = 2
    MaxRuns = 3
    MaxOf <- MCMaxOf
    MaxFaults = 1
    Testers = {t1}
    Fragile = {}
    MaxVersion = 1
    Execs = {e1, e2}
    MaxRepairs = 0
    Modes = {"shared_db", "flex_cluster"}
    TestChoices = {FALSE}
    OnDemand = TRUE
    Overlap = FALSE
    Impatient = FALSE
SPECIFICATION Spec
INVARIANT EveryResourceAccounted
PROPERTY TeardownComplete
CHECK_DEADLOCK FALSE
