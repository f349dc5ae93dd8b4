CONSTANTS
    e1 = e1
    e2 = e2
    alice = alice
    bob = bob
    FreshOrder <- MCFullOrder
    MismatchOrder <- MCFullOrder
    Components <- MCBoth
    Execs <- MCExecs
    Specs <- MCSpecs
    Users <- OneTab
    Mailbox <- MCMailbox
    MaxRuns = 2
    MaxFresh = 2
    MaxTasks = 8
    MaxVersions = 2
    MaxFaults = 2
    Timely = TRUE
    Ambiguous = FALSE
SPECIFICATION SystemSpec
INVARIANTS
    SystemTypeOK
    SingleDriver
    OneCoderPerStep
    PublishedComplete
    PublishedCoherent
PROPERTIES
    FinishedStepStays
    SuccessIsFinal
    OnlySilentAbandoned
    CurrentMovesForward
    PublishedFrozen
SYMMETRY MCSymmetry
CHECK_DEADLOCK FALSE
