SPECIFICATION FairSpec
CONSTANTS
    Users = {u1}
    LinkedUsers = {u1}
    Stocks = {s1}
    AlertIds = {a1}
    Targets = {2}
    Prices = {1, 3}
    MaxArmings = 1
    Requests = {q1}
    Replicas = {w1}
    Limit = 1
    Faults = TRUE
    NoRow = NoRow
    NoAlert = NoAlert
    NoPrice = NoPrice
    NoJob = NoJob
    NoQuote = NoQuote
PROPERTIES
    TriggerIsNotified
