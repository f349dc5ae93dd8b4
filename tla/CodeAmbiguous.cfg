CONSTANTS
    e1 = e1
    e2 = e2
    alice = alice
    bob = bob
    FreshOrder <- MCFreshOrder
    MismatchOrder <- MCFreshOrder
    Components <- MCComponents
    Execs <- MCExecs
    Specs <- MCSpecs
    Users <- OneTab
    Mailbox <- MCMailbox
    MaxRuns = 2
    MaxFresh = 2
    MaxTasks = 4
    MaxVersions = 2
    MaxFaults = 2
    Timely = TRUE
    Ambiguous = TRUE
SPECIFICATION SystemSpec
INVARIANT OneCoderPerStep
CHECK_DEADLOCK FALSE
