SPECIFICATION Spec
CONSTANTS
    Users = {u1}
    LinkedUsers = {u1}
    Stocks = {s1, s2}
    AlertIds = {a1, a2, a3}
    Targets = {2}
    Prices = {1}
    MaxArmings = 1
    Requests = {q1, q2}
    Replicas = {}
    Limit = 1
    Faults = TRUE
    NoRow = NoRow
    NoAlert = NoAlert
    NoPrice = NoPrice
    NoJob = NoJob
    NoQuote = NoQuote
INVARIANTS
    CreatedOnActiveStock
    LimitOvershootBounded
