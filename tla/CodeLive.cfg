CONSTANTS
    e1 = e1
    e2 = e2
    alice = alice
    bob = bob
    FreshOrder <- MCFreshOrder
    MismatchOrder <- MCFreshOrder
    Components <- MCComponents
    Execs <- MCExecs
    Specs <- MCSpecs
    Users <- OneTab
    Mailbox <- MCMailbox
    MaxRuns = 3
    MaxFresh = 1
    MaxTasks = 5
    MaxVersions = 3
    MaxFaults = 2
    Timely = TRUE
    Ambiguous = FALSE
SPECIFICATION FairSpec
PROPERTY EventuallyPublished
CHECK_DEADLOCK FALSE
