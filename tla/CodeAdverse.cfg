CONSTANTS
    e1 = e1
    e2 = e2
    alice = alice
    bob = bob
    FreshOrder <- MCFreshOrder
    MismatchOrder <- MCFreshOrder
    Components <- MCComponents
    Execs <- MCExecs
    Specs <- MCSpecs
    Users <- TwoTabs
    Mailbox <- MCMailbox
    MaxRuns = 2
    MaxFresh = 2
    MaxTasks = 4
    MaxVersions = 2
    MaxFaults = 1
    Timely = TRUE
    Ambiguous = TRUE
SPECIFICATION SystemSpec
INVARIANT PublishedComplete
PROPERTY VersionFixed
SYMMETRY MCSymmetry
CHECK_DEADLOCK FALSE
