SPECIFICATION Spec
CONSTANTS
    Users = {u1}
    LinkedUsers = {u1}
    Stocks = {s1}
    AlertIds = {a1, a2}
    Targets = {2}
    Prices = {1, 3}
    MaxArmings = 2
    Requests = {q1}
    Replicas = {w1}
    Limit = 2
    Faults = FALSE
    NoRow = NoRow
    NoAlert = NoAlert
    NoPrice = NoPrice
    NoJob = NoJob
    NoQuote = NoQuote
INVARIANTS
    TriggeredAccounted
PROPERTIES
    ClaimsTheArmingItMatched
