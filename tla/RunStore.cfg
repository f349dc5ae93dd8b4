CONSTANTS
    RunIds <- MCRunIds
    Stages <- MCStages
SPECIFICATION Spec
INVARIANTS
    TypeOK
    OneActivePerStage
PROPERTY ImplementsSlots
