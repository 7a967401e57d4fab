SPECIFICATION FairSpec
CONSTANTS
    Users = {u1, u2}
    LinkedUsers = {u1}
    Stocks = {s1}
    AlertIds = {a1}
    Targets = {2, 4}
    Prices = {2, 3}
    MaxArmings = 2
    Requests = {q1}
    Replicas = {w1}
    Limit = 1
    Faults = FALSE
    NoRow = NoRow
    NoAlert = NoAlert
    NoPrice = NoPrice
    NoJob = NoJob
    NoQuote = NoQuote
PROPERTIES
    PersistentMatchFires
    ClaimIsRecorded
