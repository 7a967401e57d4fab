---------------------------- MODULE FrontendLoads ----------------------------
(***************************************************************************)
(* Two hooks of the frontend that load while the user goes on: useStocks,  *)
(* the list of search results with its pages, and useStockCandles, the     *)
(* chart of a stock with its ranges.  Answers arrive in any order.  A page *)
(* of results is the pair of its query and its number.                     *)
(***************************************************************************)
EXTENDS Naturals, Sequences, SequencesExt

CONSTANTS
    Texts,      \* what the user may search for; the first one is ""
    Empty,      \* ""
    Pages,      \* text -> the number of pages of its result
    MaxLoads,   \* bound: requests of useStocks in flight
    Ranges,     \* the ranges of the chart
    FirstRange, \* "1D"
    MaxCharts,  \* bound: requests of useStockCandles in flight
    NoSeries

ASSUME LoadsAssumption ==
    /\ Empty \in Texts /\ FirstRange \in Ranges /\ NoSeries \notin Ranges
    /\ Pages \in [Texts -> Nat \ {0}]

VARIABLES
    query, timer,         \* the text, and whether its 120 ms are running
    shown, page, total,   \* the list: its pages, the number of the last one, how many there are
    loading, failed,
    loads,                \* the requests in flight, oldest first
    current,              \* whether the last one is still the newest request ever
    settled               \* the first page of this query has been loaded since it was typed (ghost)

VARIABLES
    range, series, waits, broken,  \* the chart: range, series shown, loading, error
    stored,    \* the ranges in localStorage
    charts,    \* the requests in flight that are not cancelled, and
    cancelled  \* the ranges of those that are

listVars == <<query, timer, shown, page, total, loading, failed, loads, current, settled>>
chartVars == <<range, series, waits, broken, stored, charts, cancelled>>

Loads == [page : Nat, append : BOOLEAN, search : Texts]
Charts == [range : Ranges, stored : BOOLEAN]

LoadsTypeOK ==
    /\ query \in Texts /\ {timer, loading, failed, current, settled} \subseteq BOOLEAN
    /\ shown \in Seq(Texts \X Nat) /\ page \in Nat /\ total \in Nat
    /\ loads \in Seq(Loads)
    /\ current => loads # <<>>
    /\ range \in Ranges /\ series \in Ranges \cup {NoSeries}
    /\ {waits, broken} \subseteq BOOLEAN
    /\ stored \subseteq Ranges /\ charts \subseteq Charts /\ cancelled \in Seq(Charts)

-----------------------------------------------------------------------------
(* useStocks *)

ListInit ==
    /\ query = Empty /\ timer = TRUE
    /\ shown = <<>> /\ page = 1 /\ total = 0
    /\ loading = TRUE /\ failed = FALSE
    /\ loads = <<>> /\ current = FALSE
    /\ settled = FALSE

\* Every request gets a number; only the newest one may change the list.
Load(p, append, search) ==
    /\ Len(loads) < MaxLoads
    /\ loads' = Append(loads, [page |-> p, append |-> append, search |-> search])
    /\ current' = TRUE
    /\ loading' = TRUE /\ failed' = FALSE
    /\ UNCHANGED <<query, shown, page, total, settled>>

SetQuery(q) ==
    /\ q # query
    /\ query' = q /\ timer' = TRUE
    /\ settled' = FALSE
    /\ UNCHANGED <<shown, page, total, loading, failed, loads, current>>

Debounced == timer /\ timer' = FALSE /\ Load(1, FALSE, query)

\* The form is submitted.
OnSearch == Load(1, FALSE, query) /\ UNCHANGED timer

LoadMore ==
    /\ ~loading /\ Len(shown) < total
    /\ Load(page + 1, TRUE, query)
    /\ UNCHANGED timer

\* Mutant: the numbers of the requests are not compared.
Newest_Any(i) == i \in 1..Len(loads)

Newest(i) == current /\ i = Len(loads)

NewList(r) == IF r.append THEN Append(shown, <<r.search, r.page>>) ELSE <<<<r.search, r.page>>>>

Loaded(i) ==
    /\ i \in 1..Len(loads)
    /\ loads' = RemoveAt(loads, i)
    /\ UNCHANGED <<query, timer>>
    /\ IF Newest(i)
       THEN LET r == loads[i] IN
            /\ shown' = NewList(r)
            /\ page' = r.page
            /\ total' = Pages[r.search]
            /\ loading' = FALSE /\ current' = FALSE
            /\ settled' = (settled \/ (~r.append /\ r.search = query))
            /\ UNCHANGED failed
       ELSE UNCHANGED <<shown, page, total, loading, failed, current, settled>>

LoadFailed(i) ==
    /\ i \in 1..Len(loads)
    /\ loads' = RemoveAt(loads, i)
    /\ IF Newest(i)
       THEN failed' = TRUE /\ loading' = FALSE /\ current' = FALSE
       ELSE UNCHANGED <<failed, loading, current>>
    /\ UNCHANGED <<query, timer, shown, page, total, settled>>

ListNext ==
    \/ Debounced \/ OnSearch \/ LoadMore
    \/ \E q \in Texts : SetQuery(q)
    \/ \E i \in 1..MaxLoads : Loaded(i) \/ LoadFailed(i)

-----------------------------------------------------------------------------
(* useStockCandles *)

\* The effect runs: what is stored is shown at once and asked for again.
Effect(r) ==
    /\ range' = r
    /\ series' = IF r \in stored THEN r ELSE NoSeries
    /\ waits' = (r \notin stored)
    /\ broken' = FALSE
    /\ charts' = {[range |-> r, stored |-> r \in stored]}

ChartInit ==
    /\ range = FirstRange /\ stored \in SUBSET Ranges
    /\ series = IF FirstRange \in stored THEN FirstRange ELSE NoSeries
    /\ waits = (FirstRange \notin stored)
    /\ broken = FALSE
    /\ charts = {[range |-> FirstRange, stored |-> FirstRange \in stored]}
    /\ cancelled = <<>>

\* The effect of the old range is cleaned up before.
SetRange(r) ==
    /\ r # range /\ Len(cancelled) < MaxCharts
    /\ cancelled' = cancelled \o SetToSeq(charts)
    /\ Effect(r)
    /\ UNCHANGED stored

Charted(c) ==
    /\ c \in charts
    /\ series' = c.range
    /\ stored' \in {stored, stored \cup {c.range}}
    /\ waits' = FALSE
    /\ charts' = charts \ {c}
    /\ UNCHANGED <<range, broken, cancelled>>

ChartFailed(c) ==
    /\ c \in charts
    /\ IF c.stored THEN UNCHANGED <<series, broken>> ELSE series' = NoSeries /\ broken' = TRUE
    /\ waits' = FALSE
    /\ charts' = charts \ {c}
    /\ UNCHANGED <<range, stored, cancelled>>

\* Mutant: the effect does not look at cancelled when its answer arrives.
Outdated_Shown(i) ==
    /\ i \in 1..Len(cancelled)
    /\ series' = cancelled[i].range
    /\ stored' = stored \cup {cancelled[i].range}
    /\ waits' = FALSE
    /\ cancelled' = RemoveAt(cancelled, i)
    /\ UNCHANGED <<range, broken, charts>>

\* The answer to a cancelled effect, or its error, changes nothing.
Outdated(i) ==
    /\ i \in 1..Len(cancelled)
    /\ cancelled' = RemoveAt(cancelled, i)
    /\ UNCHANGED <<range, series, waits, broken, stored, charts>>

ChartNext ==
    \/ \E r \in Ranges : SetRange(r)
    \/ \E c \in charts : Charted(c) \/ ChartFailed(c)
    \/ \E i \in 1..MaxCharts : Outdated(i)

LoadsInit == ListInit /\ ChartInit
LoadsNext == (ListNext /\ UNCHANGED chartVars) \/ (ChartNext /\ UNCHANGED listVars)
LoadsSpec == LoadsInit /\ [][LoadsNext]_<<listVars, chartVars>>

-----------------------------------------------------------------------------

\* Once the first page of a query has been loaded since it was typed, the list is the
\* query's first pages, each once and in order, and its total is the query's: answers that
\* arrive late, for another text or after an error, and Load more during all this, never
\* mix two results.
ListBelongsToQuery ==
    settled =>
        /\ shown = [i \in 1..page |-> <<query, i>>]
        /\ total = Pages[query] /\ page <= total

\* The chart shows the range that is selected, or says that it is loading or why not.
ChartBelongsToRange ==
    /\ series \in {range, NoSeries}
    /\ series = NoSeries => (waits \/ broken)
    /\ broken => series = NoSeries

=============================================================================
