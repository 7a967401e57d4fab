----------------------------- MODULE AlertSystem -----------------------------
(***************************************************************************)
(* The alert feature as a whole: user requests, administrators and the     *)
(* workers of every replica on one set of tables.  A step is a step of one *)
(* of them; they meet in the tables only.                                  *)
(***************************************************************************)
EXTENDS AlertRequests, AlertWorker

vars == <<tables, requests, workers>>

Init == TablesInit /\ RequestsInit /\ WorkersInit

AdminStep ==
    \/ \E a \in AlertIds : DisableAlert(a)
    \/ \E s \in Stocks : \/ BeginDisableStock(s)
                         \/ CommitDisableStock(s)
                         \/ Faults /\ RollbackDisableStock(s)
                         \/ EnableStock(s)
    \/ \E u \in Users : SetUserStatus(u)

Next ==
    \/ RequestStep /\ UNCHANGED workers
    \/ WorkerStep /\ UNCHANGED requests
    \/ AdminStep /\ UNCHANGED <<requests, workers>>

Spec == Init /\ [][Next]_vars

(* Fairness.  A goroutine that can go on goes on: runCycle waits for it and  *)
(* the ticker starts the next cycle.  The lock on a stock row is granted in  *)
(* turn, so fetching the quote and saving it in that row happens if it is    *)
(* possible again and again.  A transaction ends: its handler runs to Commit *)
(* or to the deferred Rollback.                                              *)
Fairness ==
    /\ \A g \in Goroutines : WF_vars(GoroutineStep(g) /\ UNCHANGED requests)
    /\ \A g \in Goroutines :
          SF_vars((\E p \in Prices : FetchQuote(g, p)) /\ UNCHANGED requests)
    /\ \A s \in Stocks : WF_vars(CommitDisableStock(s) /\ UNCHANGED <<requests, workers>>)
    /\ \A q \in Requests :
          WF_vars(step[q] = "upserted" /\ Abort(q) /\ UNCHANGED workers)

FairSpec == Spec /\ Fairness

TypeOK == TablesType /\ RequestsType /\ WorkersType

-----------------------------------------------------------------------------
(* Notifications.                                                          *)

\* LINE is called at most once for each arming of an alert, whatever the
\* replicas, requests, administrators and failures do: ClaimTriggered lets one
\* goroutine pass and notify never tries again.
AtMostOneAttempt == \A e \in Armings : attempts[e] <= 1

Holds(g, a) == held[g] # NoJob /\ Arming(held[g]) = <<a, armings[a]>>

Logged(e) == \E s \in {"SENT", "FAILED"} : <<e, s>> \in logged

\* While nothing fails, a TRIGGERED alert is in the hands of a goroutine or its
\* delivery is in alert_logs: no path of processSymbol, notify or of the requests
\* that run meanwhile loses it.
TriggeredAccounted ==
    ~Faults => \A a \in AlertIds :
        status[a] = "TRIGGERED" =>
            (\E g \in Goroutines : Holds(g, a)) \/ Logged(<<a, armings[a]>>)

\* The delivery log does not claim more than happened, and never contradicts
\* itself: SENT only if LINE accepted, and one outcome per arming.
LogIsHonest ==
    \A e \in Armings :
        /\ <<e, "SENT">> \in logged => e \in delivered
        /\ <<e, "SENT">> \in logged => <<e, "FAILED">> \notin logged

\* With one replica a goroutine claims the arming it has loaded and matched, not
\* a later one that the owner armed meanwhile: loading and claiming are apart, but
\* only this goroutine could have triggered the alert in between.
ClaimsTheArmingItMatched ==
    [][\A g \in Goroutines, j \in Jobs :
          Claim(g, j) => j.arming = armings[j.alert]]_vars

-----------------------------------------------------------------------------
(* Stocks and limits.                                                      *)

\* An ACTIVE alert that was never re-armed is on an ACTIVE stock: creating alerts
\* and deactivating stocks exclude each other through the lock on the stock row.
CreatedOnActiveStock ==
    \A a \in AlertIds :
        Active(a) /\ armings[a] = 1 => stockStatus[row[a].stock] = "ACTIVE"

\* Counting and inserting are not atomic, so concurrent requests may exceed the
\* limit, but by no more than the requests in flight less one.
LimitOvershootBounded ==
    \A u \in Users : CountActive(u) <= Limit + Cardinality(Requests) - 1

\* An alert that becomes ACTIVE again has just been compared with a price that
\* does not meet its condition.
RearmedAwayFromTarget ==
    [][\A q \in Requests :
          RearmStore(q) => ~Met(row[subject[q]], checked[q])]_vars

\* A card that shows an alert as neither triggered nor disabled says it is polled.
ActiveIsPolled ==
    \A a \in AlertIds : Active(a) => stockStatus[row[a].stock] = "ACTIVE"

-----------------------------------------------------------------------------
(* Liveness.                                                               *)

\* The worker sees it and every quote fires it.
Eligible(a) ==
    /\ Active(a)
    /\ stockStatus[row[a].stock] = "ACTIVE"
    /\ userStatus[row[a].user] = "ACTIVE"
    /\ \A p \in Prices : Met(row[a], p)

\* An alert the market keeps satisfied does not stay ACTIVE forever on an ACTIVE
\* stock of an ACTIVE user: it is triggered, unless somebody intervenes.
PersistentMatchFires == \A a \in AlertIds : []<>~Eligible(a)

\* What was claimed ends up in alert_logs, unless the owner deletes the alert
\* before the insert.
ClaimIsRecorded ==
    \A g \in Goroutines, e \in Armings :
        (held[g] # NoJob /\ Arming(held[g]) = e) ~> (Logged(e) \/ status[e[1]] = "absent")

Unnotified(a) == status[a] = "TRIGGERED" /\ attempts[<<a, armings[a]>>] = 0

\* Once an alert has triggered, LINE is called for its user: it does not stay
\* TRIGGERED for good without an attempt.
TriggerIsNotified == \A a \in AlertIds : []<>~Unnotified(a)

-----------------------------------------------------------------------------
(* The abstract specification this one implements.                         *)

Owed(e) == \E g \in Goroutines : phase[g] = "claimed" /\ Arming(held[g]) = e

\* An arming that is over without an attempt is closed.
StageOf(e) ==
    IF attempts[e] > 0 THEN "attempted"
    ELSE IF Owed(e) THEN "owed"
    ELSE IF e[2] > armings[e[1]] THEN "none"
    ELSE IF e[2] = armings[e[1]] /\ Active(e[1]) THEN "armed"
    ELSE "closed"

Abstract == INSTANCE NotifyOnce WITH
    AllArmings <- Armings, stage <- [e \in Armings |-> StageOf(e)]

\* Every behaviour of the alert system is one of NotifyOnce.
ImplementsNotifyOnce == Abstract!Spec

=============================================================================
