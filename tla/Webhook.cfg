SPECIFICATION Spec
SYMMETRY Symmetry
CONSTANTS
    e1 = e1
    e2 = e2
    e3 = e3
    Events <- MCEvents
    Answered <- MCAnswered
    Batches <- MCBatches
    Calls = {c1, c2, c3}
    MaxAccepted = 2
    Faults = TRUE
INVARIANTS
    TypeOK
    HandledByOne
    ProcessedWasAnswered
    RepliedOnce
PROPERTY ProcessedIsFinal
CHECK_DEADLOCK FALSE
