SPECIFICATION FairSpec
CONSTANTS
    e1 = e1
    e2 = e2
    e3 = e3
    Events <- MCEvents
    Answered <- MCAnswered
    Batches <- MCBatches
    Calls = {c1}
    MaxAccepted = 1
    Faults = FALSE
INVARIANT AcknowledgedWasProcessed
PROPERTY DeliveredIsProcessed
CHECK_DEADLOCK FALSE
