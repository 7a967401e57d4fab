------------------------------ MODULE AlertSweep ------------------------------
(***************************************************************************)
(* AlertWorker.Run and runCycle: each cycle polls one page of the symbols  *)
(* that have an active alert, and an offset leads it from page to page.    *)
(* Requests, administrators and claims change that list between two        *)
(* cycles, so the offset need not point to where the last page ended.      *)
(* What a cycle does with a symbol is the subject of AlertWorker.          *)
(***************************************************************************)
EXTENDS Integers, FiniteSets, SequencesExt, ListOrder

CONSTANTS
    Tickers,     \* the symbols, as numbers: ORDER BY s.symbol is their order
    BatchSize    \* ALERT_SYMBOL_BATCH_SIZE

ASSUME SweepAssumption == Tickers \subseteq Int /\ IsFiniteSet(Tickers) /\ BatchSize \in Nat \ {0}

VARIABLES
    active,   \* the symbols with an active alert
    sweepAt,  \* AlertWorker.offset
    unpolled  \* symbol -> the cycles since it was polled (ghost, see PolledInTime)

sweepVars == <<active, sweepAt, unpolled>>

SweepInit ==
    /\ active \in SUBSET Tickers
    /\ sweepAt = 0
    /\ unpolled = [s \in Tickers |-> 0]

\* LIMIT BatchSize OFFSET at: what is left of the list, cut to the size of a page.
Page(list, at) ==
    SubSeq(list, at + 1, IF Len(list) < at + BatchSize THEN Len(list) ELSE at + BatchSize)

\* ORDER BY s.symbol
BySymbol == {p \in Tickers \X Tickers : p[1] < p[2]}

ActiveSymbols(at) == Page(Arranged(active, BySymbol), at)

\* An empty page and a page that is not full end the round.
NextOffset(page) == IF Len(page) < BatchSize THEN 0 ELSE sweepAt + Len(page)

RunCycle ==
    LET page == ActiveSymbols(sweepAt) IN
        /\ sweepAt' = NextOffset(page)
        /\ unpolled' = [s \in Tickers |->
                        IF s \in active \ ToSet(page) THEN unpolled[s] + 1 ELSE 0]
        /\ UNCHANGED active

\* The wait is counted anew when something gets in its way.
Recount == unpolled' = [s \in Tickers |-> 0]

\* Mutant: the offset goes on although the page was not read.
CycleFails_Advances ==
    /\ sweepAt' = IF sweepAt < Cardinality(active) THEN sweepAt + BatchSize ELSE 0
    /\ UNCHANGED <<active, unpolled>>

\* The query fails: the next cycle reads the same page.
CycleFails == UNCHANGED sweepVars

\* A user creates an alert or activates it again.
Activate(s) ==
    /\ s \notin active
    /\ active' = active \cup {s}
    /\ UNCHANGED <<sweepAt, unpolled>>

\* The last alert of the symbol is claimed, disabled or deleted.
Deactivate(s) ==
    /\ s \in active
    /\ active' = active \ {s}
    /\ Recount
    /\ UNCHANGED sweepAt

\* The process starts again with a new AlertWorker.
Restart ==
    /\ sweepAt' = 0
    /\ Recount
    /\ UNCHANGED active

SweepNext ==
    \/ RunCycle \/ CycleFails \/ Restart
    \/ \E s \in Tickers : Activate(s) \/ Deactivate(s)

SweepSpec == SweepInit /\ [][SweepNext]_sweepVars

-----------------------------------------------------------------------------

\* While no symbol leaves the list and the worker runs on, a symbol waits for no longer than
\* two rounds of full pages take, however many symbols join it.  A removal can make the
\* offset skip a symbol, and costs it one round.  A cycle whose query fails does not count.
PolledInTime ==
    \A s \in active : unpolled[s] <= 2 * (Cardinality(Tickers) \div BatchSize)

=============================================================================
