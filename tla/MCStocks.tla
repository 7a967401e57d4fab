------------------------------ MODULE MCStocks ------------------------------
(***************************************************************************)
(* StockQuotes, StockCatalog, FrontendLoads and AlertSweep for TLC.  They  *)
(* share no state, so a behaviour of this module is one of one of them:    *)
(* `part` says of which, and the variables of the others keep an initial   *)
(* value.                                                                  *)
(***************************************************************************)
EXTENDS StockQuotes, StockCatalog, FrontendLoads, AlertSweep

CONSTANTS q1, q2, w1, s1, s2, c1   \* readers and cache keys

\* Both requests are handled by one replica; they share s1 with the worker.
MCHome == [q \in Requests |-> "r1"]
MCInterest ==
    [q \in Readers |-> CASE q = q1 -> {s1, s2} [] q = q2 -> {s1, c1} [] OTHER -> {s1}]

\* Lists in order and out of order, with a stock twice and an unsupported symbol (9).
MCResponses == {<<1, 2, 3>>, <<3, 9, 1, 3, 2>>, <<2, 1, 2, 3>>}

\* Every stock contains "", all contain "A" by name or symbol, not all contain "B".
MCRank ==
    [q \in Queries |-> CASE q = "" -> <<0, 0, 0>> [] q = "A" -> <<5, 1, 5>> [] OTHER -> <<6, 3, 1>>]

MCPages == [t \in Texts |-> IF t = Empty THEN 3 ELSE 2]

VARIABLE part
mcVars == <<quotesVars, catalogVars, listVars, chartVars, sweepVars, part>>

MCInit ==
    /\ part \in {"quotes", "catalog", "list", "chart", "sweep"}
    /\ QuotesInit /\ CatalogInit /\ LoadsInit /\ SweepInit
    /\ part # "chart" => stored = {}
    /\ part # "sweep" => active = {}

MCNext ==
    /\ UNCHANGED part
    /\ \/ /\ part = "quotes" /\ QuotesNext
          /\ UNCHANGED <<catalogVars, listVars, chartVars, sweepVars>>
       \/ /\ part = "catalog" /\ CatalogNext
          /\ UNCHANGED <<quotesVars, listVars, chartVars, sweepVars>>
       \/ /\ part = "list" /\ ListNext
          /\ UNCHANGED <<quotesVars, catalogVars, chartVars, sweepVars>>
       \/ /\ part = "chart" /\ ChartNext
          /\ UNCHANGED <<quotesVars, catalogVars, listVars, sweepVars>>
       \/ /\ part = "sweep" /\ SweepNext
          /\ UNCHANGED <<quotesVars, catalogVars, listVars, chartVars>>

MCSpec == MCInit /\ [][MCNext]_mcVars

=============================================================================
