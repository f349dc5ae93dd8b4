CONSTANTS
    MaxDeploys = 1
    MaxTests = 2
    MaxTeardowns = 0
    MaxRuns = 3
    MaxOf <- MCMaxOf
    MaxFaults = 1
    Testers = {t1}
    Fragile = {"frontend"}
    MaxVersion = 2
    Execs = {e1}
    MaxRepairs = 1
    Modes = {"shared_db"}
    TestChoices = {TRUE}
    OnDemand = FALSE
    Overlap = FALSE
    Impatient = TRUE
SPECIFICATION FairSpec
INVARIANTS
    TypeOK
    ServedCoherent
    VerdictOfDeployed
    NoAttemptTwice
PROPERTIES
    ImplementsStore
    EveryExecutionEnds
CHECK_DEADLOCK FALSE
