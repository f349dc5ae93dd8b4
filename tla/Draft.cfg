CONSTANTS
    MaxRuns = 5
    MaxFaults = 2
    ReadErrors = FALSE
SPECIFICATION FairSpec
INVARIANTS TypeOK CurrentSpecComplete
PROPERTIES SpecFromInterview AnswersKept ImplementsInterview SpecEventually
CHECK_DEADLOCK FALSE
