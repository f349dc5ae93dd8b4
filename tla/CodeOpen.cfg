CONSTANTS
    e1 = e1
    e2 = e2
    FreshOrder <- MCFreshOrder
    MismatchOrder <- MCFreshOrder
    Components <- MCComponents
    Execs <- MCExecs
    Specs <- MCSpecs
    MaxRuns = 2
    MaxTasks = 2
    MaxVersions = 2
    MaxFaults = 1
SPECIFICATION Spec
INVARIANTS
    TypeOK
    DoneIsInPlace
    RecordedWasDone
PROPERTY ImplementsStore
SYMMETRY MCSymmetry
CHECK_DEADLOCK FALSE
