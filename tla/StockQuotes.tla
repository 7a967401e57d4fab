----------------------------- MODULE StockQuotes -----------------------------
(***************************************************************************)
(* Quotes and candle series as the replicas of the backend read them:      *)
(* through a Redis cache that all share, and a singleflight group in each  *)
(* process, which lets one goroutine of a replica ask the provider while   *)
(* the others wait for its result.  A quote is the time since the provider *)
(* gave it.                                                                *)
(***************************************************************************)
EXTENDS Naturals, FiniteSets

CONSTANTS
    Symbols,    \* the cache keys of quotes
    Series,     \* the cache keys of candles, a symbol and a range each
    Requests,   \* the HTTP requests a replica handles at a time
    Workers,    \* goroutines of alert workers, which use the cache alone
    Home,       \* request -> the replica it is handled by
    Interest,   \* bound: reader -> the keys it may ask for
    Slots,      \* the goroutines of one request that are past its semaphore
    TTL,        \* the life of a cached quote, quoteTTL
    CandleTTL,  \* the life of a cached series, candleTTL
    Slow,       \* the longest a SET of Redis takes
    Uncached    \* no cache entry

Keys == Symbols \cup Series
Readers == Requests \cup Workers
Replicas == {Home[q] : q \in Requests}

ASSUME QuotesAssumption ==
    /\ Home \in [Requests -> Replicas] /\ Interest \in [Readers -> SUBSET Keys]
    /\ Requests \cap Workers = {} /\ Symbols \cap Series = {}
    /\ Replicas \cap Workers = {}
    /\ Slots \in Nat \ {0} /\ {TTL, CandleTTL} \subseteq Nat \ {0} /\ Slow \in Nat

VARIABLES
    cache,   \* key -> its entry in Redis: the age of the quote, the time left, the writer
    flight,  \* replica -> the keys with a flight under way
    step,    \* reader -> key -> where the goroutine for this key is
    age,     \* reader -> key -> the age of the quote it has
    blind    \* reader -> the keys whose flight could not read the cache (ghost)

quotesVars == <<cache, flight, step, age, blind>>

Steps == {"none", "start", "look", "join", "check", "call", "store", "wait", "ok", "error"}
Life(s) == IF s \in Symbols THEN TTL ELSE CandleTTL
Entries == [age : Nat, left : Nat, by : Replicas \cup Workers]
Cached(s) == cache[s] # Uncached
By(q) == IF q \in Workers THEN q ELSE Home[q]

QuotesTypeOK ==
    /\ cache \in [Keys -> Entries \cup {Uncached}]
    /\ \A s \in Keys : Cached(s) => cache[s].left \in 1..Life(s)
    /\ flight \in [Replicas -> SUBSET Keys]
    /\ step \in [Readers -> [Keys -> Steps]]
    /\ age \in [Readers -> [Keys -> Nat]]
    /\ blind \in [Readers -> SUBSET Keys]

QuotesInit ==
    /\ cache = [s \in Keys |-> Uncached]
    /\ flight = [r \in Replicas |-> {}]
    /\ step = [q \in Readers |-> [s \in Keys |-> "none"]]
    /\ age = [q \in Readers |-> [s \in Keys |-> 0]]
    /\ blind = [q \in Readers |-> {}]

-----------------------------------------------------------------------------

Idle(q) == \A s \in Keys : step[q][s] = "none"
To(q, s, p) == step' = [step EXCEPT ![q][s] = p]

\* A request for one symbol, after ValidateUSStock.
Quote(q, s) ==
    /\ q \in Requests /\ Idle(q)
    /\ s \in Symbols \cap Interest[q]
    /\ To(q, s, "look")
    /\ UNCHANGED <<cache, flight, age, blind>>

Candles(q, s) ==
    /\ q \in Requests /\ Idle(q)
    /\ s \in Series \cap Interest[q]
    /\ To(q, s, "look")
    /\ UNCHANGED <<cache, flight, age, blind>>

\* A request for several symbols; those that are not in the catalog are errors at once.
Quotes(q, asked, supported) ==
    /\ q \in Requests /\ Idle(q)
    /\ asked # {}
    /\ step' = [step EXCEPT ![q] = [s \in Keys |->
                   IF s \notin asked THEN "none"
                   ELSE IF s \in supported THEN "start" ELSE "error"]]
    /\ UNCHANGED <<cache, flight, age, blind>>

Acquire(q, s) ==
    /\ step[q][s] = "start"
    /\ Cardinality({x \in Keys : step[q][x] \in {"look", "join", "check", "call", "store", "wait"}})
         < Slots
    /\ To(q, s, "look")
    /\ UNCHANGED <<cache, flight, age, blind>>

\* AlertWorker.quote: no flight.
WorkerQuote(q, s) ==
    /\ q \in Workers /\ Idle(q)
    /\ s \in Symbols \cap Interest[q]
    /\ To(q, s, "look")
    /\ UNCHANGED <<cache, flight, age, blind>>

Get(q, s) ==
    /\ step[q][s] = "look"
    /\ Cached(s)
    /\ To(q, s, "ok")
    /\ age' = [age EXCEPT ![q][s] = cache[s].age]
    /\ UNCHANGED <<cache, flight, blind>>

\* No entry, or an error of Redis, which is treated like none.
GetMiss(q, s) ==
    /\ step[q][s] = "look"
    /\ To(q, s, IF q \in Workers THEN "call" ELSE "join")
    /\ UNCHANGED <<cache, flight, age, blind>>

\* Mutant: the leader of a flight does not look into the cache again.
Lead_Unchecked(q, s) ==
    /\ step[q][s] = "join" /\ s \notin flight[Home[q]]
    /\ flight' = [flight EXCEPT ![Home[q]] = @ \cup {s}]
    /\ To(q, s, "call")
    /\ UNCHANGED <<cache, age, blind>>

\* singleflight.Do: the first goroutine runs the function, ...
Lead(q, s) ==
    /\ step[q][s] = "join" /\ s \notin flight[Home[q]]
    /\ flight' = [flight EXCEPT ![Home[q]] = @ \cup {s}]
    /\ To(q, s, "check")
    /\ UNCHANGED <<cache, age, blind>>

\* ... and those that come meanwhile wait for its result.
Follow(q, s) ==
    /\ step[q][s] = "join" /\ s \in flight[Home[q]]
    /\ To(q, s, "wait")
    /\ UNCHANGED <<cache, flight, age, blind>>

\* Those the goroutine of q for s answers: itself, and who waits for its flight.
Served(q, s) ==
    {q} \cup (IF q \in Workers THEN {}
              ELSE {p \in Requests : Home[p] = Home[q] /\ step[p][s] = "wait"})

\* Mutant: an error is not passed on to those that wait.
EndFlight_LeaderOnly(q, s, p, a) ==
    LET served == IF p = "error" THEN {q} ELSE Served(q, s) IN
    /\ step' = [x \in Readers |-> IF x \in served THEN [step[x] EXCEPT ![s] = p] ELSE step[x]]
    /\ age' = [x \in Readers |-> IF x \in served THEN [age[x] EXCEPT ![s] = a] ELSE age[x]]
    /\ flight' = [r \in Replicas |-> IF r = By(q) THEN flight[r] \ {s} ELSE flight[r]]
    /\ blind' = [blind EXCEPT ![q] = @ \ {s}]

EndFlight(q, s, p, a) ==
    LET served == Served(q, s) IN
    /\ step' = [x \in Readers |-> IF x \in served THEN [step[x] EXCEPT ![s] = p] ELSE step[x]]
    /\ age' = [x \in Readers |-> IF x \in served THEN [age[x] EXCEPT ![s] = a] ELSE age[x]]
    /\ flight' = [r \in Replicas |-> IF r = By(q) THEN flight[r] \ {s} ELSE flight[r]]
    /\ blind' = [blind EXCEPT ![q] = @ \ {s}]

\* The second look into the cache finds what an earlier flight has stored, ...
CheckHit(q, s) ==
    /\ step[q][s] = "check"
    /\ Cached(s)
    /\ EndFlight(q, s, "ok", cache[s].age)
    /\ UNCHANGED cache

\* ... nothing, or an error.
CheckMiss(q, s) ==
    /\ step[q][s] = "check"
    /\ To(q, s, "call")
    /\ blind' = [blind EXCEPT ![q] = IF Cached(s) THEN @ \cup {s} ELSE @]
    /\ UNCHANGED <<cache, flight, age>>

\* Finnhub for a quote, ...
ProviderAnswer(q, s) ==
    /\ s \in Symbols /\ step[q][s] = "call"
    /\ To(q, s, "store")
    /\ UNCHANGED <<cache, flight, age, blind>>

\* ... Twelve Data for candles.
ProviderCandles(q, s) ==
    /\ s \in Series /\ step[q][s] = "call"
    /\ To(q, s, "store")
    /\ UNCHANGED <<cache, flight, age, blind>>

\* An error, a rate limit, no such stock, a timeout, or the context of the flight's
\* first caller is cancelled.
ProviderError(q, s) ==
    /\ step[q][s] = "call"
    /\ EndFlight(q, s, "error", 0)
    /\ UNCHANGED cache

Written(q, s, life) ==
    cache' = [cache EXCEPT ![s] = [age |-> age[q][s], left |-> life, by |-> By(q)]]

\* Mutant: the entry lives longer than it was asked to.
SetQuote_KeepsAlive(q, s) == s \in Symbols /\ Written(q, s, TTL + Slow)

SetQuote(q, s) == s \in Symbols /\ Written(q, s, TTL)
SetCandles(q, s) == s \in Series /\ Written(q, s, CandleTTL)

\* What the provider gave is answered whether it could be stored or not.
Store(q, s) ==
    /\ step[q][s] = "store"
    /\ SetQuote(q, s) \/ SetCandles(q, s) \/ UNCHANGED cache
    /\ EndFlight(q, s, "ok", age[q][s])

Reply(q) ==
    /\ ~Idle(q)
    /\ \A s \in Keys : step[q][s] \in {"none", "ok", "error"}
    /\ step' = [step EXCEPT ![q] = [s \in Keys |-> "none"]]
    /\ age' = [age EXCEPT ![q] = [s \in Keys |-> 0]]
    /\ UNCHANGED <<cache, flight, blind>>

\* Time passes: entries expire, and what is being stored gets older, Slow at most.
Elapse ==
    /\ \A q \in Readers, s \in Keys : step[q][s] = "store" => age[q][s] < Slow
    /\ cache' = [s \in Keys |->
                   IF ~Cached(s) \/ cache[s].left = 1 THEN Uncached
                   ELSE [cache[s] EXCEPT !.age = @ + 1, !.left = @ - 1]]
    /\ age' = [q \in Readers |-> [s \in Keys |->
                   IF step[q][s] = "store" THEN age[q][s] + 1 ELSE age[q][s]]]
    /\ UNCHANGED <<flight, step, blind>>

GoOn(q, s) ==
    \/ Acquire(q, s) \/ Get(q, s) \/ GetMiss(q, s) \/ Lead(q, s) \/ Follow(q, s)
    \/ CheckHit(q, s) \/ CheckMiss(q, s)
    \/ ProviderAnswer(q, s) \/ ProviderCandles(q, s) \/ ProviderError(q, s) \/ Store(q, s)

QuotesNext ==
    \/ Elapse
    \/ \E q \in Readers :
         \/ Reply(q)
         \/ \E s \in Keys : Quote(q, s) \/ Candles(q, s) \/ WorkerQuote(q, s) \/ GoOn(q, s)
         \/ \E asked \in SUBSET (Symbols \cap Interest[q]) :
              \E supported \in SUBSET asked : Quotes(q, asked, supported)

QuotesSpec == QuotesInit /\ [][QuotesNext]_quotesVars

-----------------------------------------------------------------------------

\* No answer carries a quote or a series that the provider gave longer ago than the life
\* of a cache entry and the time a SET may take, whoever fetched it, whichever of two
\* overlapping SETs came last, and however long the reader waited for another's flight.
Fresh ==
    \A q \in Readers, s \in Keys : step[q][s] = "ok" => age[q][s] < Life(s) + Slow

\* A replica does not ask the provider for what it has put into the cache itself and is
\* still there: between the first look and the flight, an earlier flight of the same
\* replica may have ended, which the second look must notice if Redis answers it.
OneFetchPerTTL ==
    \A q \in Requests, s \in Keys :
        step[q][s] \in {"call", "store"} /\ s \notin blind[q] /\ Cached(s)
            => cache[s].by # Home[q]

\* Nobody waits for a flight that nobody flies: who waits for a key is served by exactly
\* one goroutine of its replica, which the timeouts of the clients of Redis and of the
\* provider bring to its end, with a quote or with an error.
WaitersAreServed ==
    \A q \in Requests, s \in Keys :
        step[q][s] = "wait" =>
            \E p \in Requests :
                /\ Home[p] = Home[q] /\ step[p][s] \in {"check", "call", "store"}
                /\ \A x \in Requests \ {p} :
                     Home[x] = Home[q] => step[x][s] \notin {"check", "call", "store"}

=============================================================================
