CONSTANTS
    MaxDeploys = 1
    MaxTests = 0
    MaxTeardowns = 1
    MaxRuns = 2
    MaxOf <- MCMaxOf
    MaxFaults = 1
    Testers = {t1}
    Fragile = {}
    MaxVersion = 1
    Execs = {e1}
    MaxRepairs = 0
    Modes = {"flex_cluster"}
    TestChoices = {FALSE}
    OnDemand = FALSE
    Overlap = FALSE
    Impatient = FALSE
SPECIFICATION Spec
PROPERTY ClusterTornDown
CHECK_DEADLOCK FALSE
