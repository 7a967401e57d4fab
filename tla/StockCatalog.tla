----------------------------- MODULE StockCatalog -----------------------------
(***************************************************************************)
(* The list of US stocks a replica keeps for an hour, and the search in    *)
(* it.  A list is fetched in a flight of the singleflight group; every     *)
(* caller of that flight gets the same slice, sorts it in place and        *)
(* publishes it.  A stock is a number: the place of its symbol in the      *)
(* alphabet.                                                               *)
(***************************************************************************)
EXTENDS Integers, Sequences, SequencesExt, ListOrder

CONSTANTS
    Stocks,      \* the US stocks, a set of numbers
    Unsupported, \* entries of the exchange whose symbol does not match the pattern
    Responses,   \* the lists the provider may answer with
    Queries,     \* what users search for; "" among them
    Rank,        \* query -> stock -> stockSearchRank
    NoMatch,     \* the rank of a stock that does not contain the query
    Callers,     \* the requests of a replica that need the list at a time
    MaxLimit,    \* 100
    MaxInt,      \* the largest int
    CatalogTTL,  \* stockCatalogTTL
    NoList

ASSUME CatalogAssumption ==
    /\ Stocks \subseteq Nat /\ IsFiniteSet(Stocks) /\ IsFiniteSet(Callers)
    /\ {MaxLimit, MaxInt, CatalogTTL} \subseteq Nat \ {0} /\ NoMatch \in Nat
    /\ Cardinality(Stocks) + MaxLimit <= MaxInt   \* a list fits in memory
    /\ Responses \subseteq Seq(Stocks \cup Unsupported)
    /\ \A r \in Responses : Stocks \subseteq Range(r)
    /\ Rank \in [Queries -> [Stocks -> 0..NoMatch]]
    /\ \A q \in Queries, x \in Stocks : q = "" => Rank[q][x] = 0 /\ 0 < NoMatch

VARIABLES
    slice,    \* the slices in memory: slice -> its content
    catalog,  \* s.catalog
    left,     \* the time until catalogExpires
    at,       \* caller -> where it is
    mine,     \* caller -> its slice
    raced     \* the slices that were sorted twice at once (ghost)

catalogVars == <<slice, catalog, left, at, mine, raced>>

Slices == 0..Cardinality(Callers)   \* one for each caller and one for the catalog

ASSUME NoListAssumption == NoList \notin Slices

CatalogInit ==
    /\ slice = [i \in Slices |-> <<>>]
    /\ catalog = NoList
    /\ left = 0
    /\ at = [c \in Callers |-> "idle"]
    /\ mine = [c \in Callers |-> NoList]
    /\ raced = {}

-----------------------------------------------------------------------------
(* Pure parts of the code *)

\* The entries at the positions P of a list, in the order R of the positions.
Picked(list, P, R) ==
    LET order == Arranged(P, R) IN [n \in 1..Cardinality(P) |-> list[order[n]]]

\* Each supported symbol once, where it comes first.
SearchUSStocks(response) ==
    LET first == {i \in DOMAIN response :
                    response[i] \in Stocks /\ \A j \in 1..(i - 1) : response[j] # response[i]}
    IN  Picked(response, first, {p \in first \X first : p[1] < p[2]})

\* Positions of a list by the rank of the stock there, then by its symbol; the sort is stable.
ByRank(list, P, rank) ==
    {p \in P \X P :
        LET x == list[p[1]]  y == list[p[2]] IN
            \/ rank[x] < rank[y]
            \/ rank[x] = rank[y] /\ x < y
            \/ x = y /\ p[1] < p[2]}

\* Machine integers.
Wrap(n) == ((n + MaxInt + 1) % (2 * (MaxInt + 1))) - (MaxInt + 1)

\* Mutant: the product is taken for every page.
PageStart_Unguarded(n, page, limit) == Wrap((page - 1) * limit)

PageStart(n, page, limit) ==
    IF page <= n \div limit + 1 THEN Wrap((page - 1) * limit) ELSE n

\* The stocks that contain the query, by rank and then by symbol; all for the query "".
Matches(list, query) ==
    LET found == {i \in DOMAIN list : Rank[query][list[i]] < NoMatch} IN
        IF query = "" THEN list ELSE Picked(list, found, ByRank(list, found, Rank[query]))

\* The page StockService.Search answers with; slicing beyond the list panics.
Panic == <<-1>>

Search(list, query, page, limit) ==
    LET found == Matches(list, query)
        start == PageStart(Len(found), page, limit)
        end == IF Wrap(start + limit) > Len(found) THEN Len(found) ELSE Wrap(start + limit)
    IN  IF 0 <= start /\ start <= end THEN SubSeq(found, start + 1, end) ELSE Panic

\* The page numbers and sizes positiveInt lets through.
PageNumbers == 1..MaxInt
PageSizes == 1..MaxLimit

-----------------------------------------------------------------------------

Sorted(list) == Picked(list, DOMAIN list, ByRank(list, DOMAIN list, [x \in Stocks |-> 0]))
Unused == CHOOSE i \in Slices : i # catalog /\ \A c \in Callers : mine[c] # i
At(c, p) == at' = [at EXCEPT ![c] = p]

CatalogFresh(c) ==
    /\ at[c] = "idle" /\ left > 0
    /\ At(c, "read")
    /\ mine' = [mine EXCEPT ![c] = catalog]
    /\ UNCHANGED <<slice, catalog, left, raced>>

CatalogExpired(c) ==
    /\ at[c] = "idle" /\ left = 0
    /\ At(c, "miss")
    /\ UNCHANGED <<slice, catalog, left, mine, raced>>

CatalogFlight(c) ==
    /\ at[c] = "miss"
    /\ At(c, IF \E x \in Callers : at[x] = "lead" THEN "wait" ELSE "lead")
    /\ UNCHANGED <<slice, catalog, left, mine, raced>>

\* The provider answers: the leader and all who wait get one and the same slice.
CatalogAnswer(c, response) ==
    LET i == Unused IN
    /\ at[c] = "lead"
    /\ slice' = [slice EXCEPT ![i] = SearchUSStocks(response)]
    /\ raced' = raced \ {i}
    /\ at' = [x \in Callers |-> IF at[x] \in {"lead", "wait"} THEN "listed" ELSE at[x]]
    /\ mine' = [x \in Callers |-> IF at[x] \in {"lead", "wait"} THEN i ELSE mine[x]]
    /\ UNCHANGED <<catalog, left>>

CatalogError(c) ==
    /\ at[c] = "lead"
    /\ at' = [x \in Callers |-> IF at[x] \in {"lead", "wait"} THEN "idle" ELSE at[x]]
    /\ UNCHANGED <<slice, catalog, left, mine, raced>>

\* sort.Slice starts; a slice in order is only read, one that is not is also written, and
\* two goroutines that do so at once race.
SortBegin(c) ==
    /\ at[c] = "listed"
    /\ At(c, "sorting")
    /\ raced' = IF /\ slice[mine[c]] # Sorted(slice[mine[c]])
                   /\ \E x \in Callers : at[x] = "sorting" /\ mine[x] = mine[c]
                THEN raced \cup {mine[c]} ELSE raced
    /\ UNCHANGED <<slice, catalog, left, mine>>

\* Mutant: the list is published as it came.
SortEnd_Unsorted(c) ==
    /\ at[c] = "sorting"
    /\ At(c, "publish")
    /\ UNCHANGED <<slice, catalog, left, mine, raced>>

\* After a race anything may be left of the list: the elements are moved in several words.
SortEnd(c) ==
    /\ at[c] = "sorting"
    /\ At(c, "publish")
    /\ \/ mine[c] \notin raced /\ slice' = [slice EXCEPT ![mine[c]] = Sorted(@)]
       \/ /\ mine[c] \in raced
          /\ \E s \in [1..Len(slice[mine[c]]) -> Stocks] : slice' = [slice EXCEPT ![mine[c]] = s]
    /\ UNCHANGED <<catalog, left, mine, raced>>

Publish(c) ==
    /\ at[c] = "publish"
    /\ At(c, "read")
    /\ catalog' = mine[c]
    /\ left' = CatalogTTL
    /\ UNCHANGED <<slice, mine, raced>>

\* The request takes what it needs from the list and answers.
Read(c) ==
    /\ at[c] = "read"
    /\ At(c, "idle")
    /\ mine' = [mine EXCEPT ![c] = NoList]
    /\ UNCHANGED <<slice, catalog, left, raced>>

CatalogElapse ==
    /\ left > 0
    /\ left' = left - 1
    /\ UNCHANGED <<slice, catalog, at, mine, raced>>

CatalogNext ==
    \/ CatalogElapse
    \/ \E c \in Callers :
         \/ CatalogFresh(c) \/ CatalogExpired(c) \/ CatalogFlight(c) \/ CatalogError(c)
         \/ SortBegin(c) \/ SortEnd(c) \/ Publish(c) \/ Read(c)
         \/ \E r \in Responses : CatalogAnswer(c, r)

CatalogSpec == CatalogInit /\ [][CatalogNext]_catalogVars

-----------------------------------------------------------------------------

\* Unless two callers have sorted it at once, a request reads a list of all supported
\* stocks, each once, in the order of their symbols, also while other callers of the
\* flight it came from sort the published slice again.
ListIsInOrder ==
    \A c \in Callers :
        at[c] = "read" /\ mine[c] \notin raced =>
            LET s == slice[mine[c]] IN
            /\ Range(s) = Stocks
            /\ \A i, j \in 1..Len(s) : i < j => s[i] < s[j]

\* The matching stocks that come before x in the answer to a query.
Before(query, x) ==
    {y \in Stocks : \/ Rank[query][y] < Rank[query][x]
                    \/ Rank[query][y] = Rank[query][x] /\ y < x}

\* A stock that matches is on exactly the page its place among the matches is on, for
\* every page number an int can hold: a user who loads one page after the other meets each
\* match once, pages past the end are empty, and no product overflows.
PagesPartitionMatches ==
    \A c \in Callers, q \in Queries, p \in PageNumbers, l \in PageSizes :
        at[c] = "read" /\ mine[c] \notin raced =>
            Range(Search(slice[mine[c]], q, p, l))
              = {x \in Stocks : /\ Rank[q][x] < NoMatch
                                /\ Cardinality(Before(q, x)) \div l = p - 1}

=============================================================================
