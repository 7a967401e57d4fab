SPECIFICATION MCSpec
CONSTANTS
    s1 = s1
    s2 = s2
    c1 = c1
    q1 = q1
    q2 = q2
    w1 = w1
    Symbols = {s1, s2}
    Series = {c1}
    Requests = {q1, q2}
    Workers = {w1}
    Home <- MCHome
    Interest <- MCInterest
    Slots = 1
    TTL = 1
    CandleTTL = 2
    Slow = 1
    Uncached = Uncached
    Stocks = {1, 2, 3}
    Unsupported = {9}
    Responses <- MCResponses
    Queries = {"", "A", "B"}
    Rank <- MCRank
    NoMatch = 6
    Callers = {k1, k2}
    MaxLimit = 3
    MaxInt = 15
    CatalogTTL = 1
    NoList = NoList
    Texts = {"", "A", "B"}
    Empty = ""
    Pages <- MCPages
    MaxLoads = 3
    Ranges = {"1D", "1W", "1M"}
    FirstRange = "1D"
    MaxCharts = 2
    NoSeries = NoSeries
    Tickers = {1, 2, 3, 4, 5}
    BatchSize = 2
INVARIANTS
    QuotesTypeOK
    
    OneFetchPerTTL
    
    ListIsInOrder
    PagesPartitionMatches
    ListBelongsToQuery
    ChartBelongsToRange
    PolledInTime
