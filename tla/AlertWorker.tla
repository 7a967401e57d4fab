----------------------------- MODULE AlertWorker -----------------------------
(***************************************************************************)
(* The worker that polls prices and notifies: services/alert_worker.go.    *)
(* Each replica of the backend runs one; in each cycle it starts a         *)
(* goroutine per symbol and waits for all of them, so a replica never has  *)
(* two goroutines on one symbol.  A goroutine fetches a quote, loads the   *)
(* symbol's ACTIVE alerts, and for each one that matches claims it, pushes *)
(* a message to LINE and records the outcome.                              *)
(***************************************************************************)
EXTENDS AlertTables

CONSTANTS
    Replicas,     \* processes that run the worker
    LinkedUsers,  \* users with a LINE identity (administrators may have none)
    Faults,       \* whether processes stop and database calls fail
    NoJob,        \* no claimed alert
    NoQuote       \* no price

ASSUME FaultsIsBoolean == Faults \in BOOLEAN
ASSUME LinkedUsersAreUsers == LinkedUsers \subseteq Users

Goroutines == Replicas \X Stocks

\* models.ActiveAlertJob; arming is history: which arming of the alert was
\* loaded (in jobs) or claimed (in held).
Jobs == [alert: AlertIds, arming: 1 .. MaxArmings, user: Users]

ASSUME NoJobIsNoJob == NoJob \notin Jobs /\ NoQuote \notin Prices

Arming(j) == <<j.alert, j.arming>>

VARIABLES
    phase,      \* goroutine -> where it is
    quote,      \* goroutine -> the price it compares the alerts with
    jobs,       \* goroutine -> matching alerts not yet claimed
    held,       \* goroutine -> the alert it claimed and has not finished with
    attempts,   \* arming -> calls of PushText made for it
    delivered,  \* armings whose message LINE accepted
    logged      \* rows of alert_logs: <<arming, status>>

goroutines == <<phase, quote, jobs, held>>
effects == <<attempts, delivered, logged>>
workers == <<phase, quote, jobs, held, attempts, delivered, logged>>

Phases == {"idle", "quoted", "scanning", "claimed", "sent", "failed"}

WorkersType ==
    /\ phase \in [Goroutines -> Phases]
    /\ quote \in [Goroutines -> Prices \cup {NoQuote}]
    /\ jobs \in [Goroutines -> SUBSET Jobs]
    /\ held \in [Goroutines -> Jobs \cup {NoJob}]
    /\ attempts \in [Armings -> Nat]
    /\ delivered \subseteq Armings
    /\ logged \subseteq Armings \X {"SENT", "FAILED"}
    /\ \A g \in Goroutines :
         /\ phase[g] = "quoted" => quote[g] \in Prices
         /\ phase[g] \in {"claimed", "sent", "failed"} => held[g] \in Jobs

WorkersInit ==
    /\ phase = [g \in Goroutines |-> "idle"]
    /\ quote = [g \in Goroutines |-> NoQuote]
    /\ jobs = [g \in Goroutines |-> {}]
    /\ held = [g \in Goroutines |-> NoJob]
    /\ attempts = [e \in Armings |-> 0]
    /\ delivered = {}
    /\ logged = {}

-----------------------------------------------------------------------------
(* What the worker reads.                                                  *)

ActiveSymbols ==
    {s \in Stocks : stockStatus[s] = "ACTIVE"
                      /\ \E a \in AlertIds : Active(a) /\ row[a].stock = s}

\* Mutant: the LEFT JOIN on user_identities becomes an inner join.
ActiveAlerts_Linked(s) ==
    {a \in AlertIds : /\ Active(a)
                      /\ row[a].stock = s
                      /\ stockStatus[s] = "ACTIVE"
                      /\ userStatus[row[a].user] = "ACTIVE"
                      /\ row[a].user \in LinkedUsers}

ActiveAlerts(s) ==
    {a \in AlertIds : /\ Active(a)
                      /\ row[a].stock = s
                      /\ stockStatus[s] = "ACTIVE"
                      /\ userStatus[row[a].user] = "ACTIVE"}

-----------------------------------------------------------------------------
(* One goroutine, <<replica, symbol>>.                                     *)

\* The cycle lists the symbol and the goroutine gets a quote, cached or fresh (a
\* failed one ends the goroutine before it has changed anything), then saves it
\* in the stock's row: an UPDATE that waits for the row's lock, and whose failure
\* is only logged.
FetchQuote(g, p) ==
    /\ phase[g] = "idle"
    /\ g[2] \in ActiveSymbols
    /\ stockLock[g[2]] = "free" \/ Faults
    /\ phase' = [phase EXCEPT ![g] = "quoted"]
    /\ quote' = [quote EXCEPT ![g] = p]
    /\ UNCHANGED <<jobs, held>>
    /\ UNCHANGED effects
    /\ UNCHANGED tables

MatchingJobs(s, p) ==
    {[alert |-> a, arming |-> armings[a], user |-> row[a].user] :
        a \in {b \in ActiveAlerts(s) : Met(row[b], p)}}

\* alertMatches only reads what was loaded, so the loop's test is made here, and
\* the price has no further use.
LoadAlerts(g) ==
    /\ phase[g] = "quoted"
    /\ phase' = [phase EXCEPT ![g] = "scanning"]
    /\ jobs' = [jobs EXCEPT ![g] = MatchingJobs(g[2], quote[g])]
    /\ quote' = [quote EXCEPT ![g] = NoQuote]
    /\ UNCHANGED held
    /\ UNCHANGED effects
    /\ UNCHANGED tables

\* Mutant: a lost claim is notified all the same.
Skip_Notify(g, j) ==
    /\ phase' = [phase EXCEPT ![g] = "claimed"]
    /\ held' = [held EXCEPT ![g] = j]
    /\ jobs' = [jobs EXCEPT ![g] = @ \ {j}]
    /\ UNCHANGED quote

\* continue: on to the next alert of the loop.
Skip(g, j) ==
    /\ jobs' = [jobs EXCEPT ![g] = @ \ {j}]
    /\ UNCHANGED <<phase, quote, held>>

\* Mutant: a claimed alert stays in the list of the loop.
Claim_KeepJob(g, j) ==
    /\ phase[g] = "scanning"
    /\ j \in jobs[g]
    /\ ClaimTriggered(j.alert)
    /\ phase' = [phase EXCEPT ![g] = "claimed"]
    /\ held' = [held EXCEPT ![g] = [j EXCEPT !.arming = armings[j.alert]]]
    /\ UNCHANGED <<quote, jobs>>
    /\ UNCHANGED effects

\* ClaimTriggered returns true: this goroutine, and no other, notifies.
Claim(g, j) ==
    /\ phase[g] = "scanning"
    /\ j \in jobs[g]
    /\ ClaimTriggered(j.alert)
    /\ phase' = [phase EXCEPT ![g] = "claimed"]
    /\ held' = [held EXCEPT ![g] = [j EXCEPT !.arming = armings[j.alert]]]
    /\ jobs' = [jobs EXCEPT ![g] = @ \ {j}]
    /\ UNCHANGED quote
    /\ UNCHANGED effects

\* RowsAffected() = 0: another worker, an administrator or the owner was faster.
ClaimMissed(g, j) ==
    /\ phase[g] = "scanning"
    /\ j \in jobs[g]
    /\ ~Active(j.alert)
    /\ Skip(g, j)
    /\ UNCHANGED effects
    /\ UNCHANGED tables

\* The claim returns an error; the statement may have committed nevertheless.
ClaimFailed(g, j) ==
    /\ Faults
    /\ phase[g] = "scanning"
    /\ j \in jobs[g]
    /\ ClaimTriggered(j.alert) \/ UNCHANGED tables
    /\ Skip(g, j)
    /\ UNCHANGED effects

-----------------------------------------------------------------------------
(* notify.                                                                 *)

\* PushText is called once: LINE accepts, refuses, or accepts and the answer is
\* lost on the way back.
PushLine(g) ==
    /\ phase[g] = "claimed"
    /\ held[g].user \in LinkedUsers
    /\ attempts' = [attempts EXCEPT ![Arming(held[g])] = @ + 1]
    /\ \E accepted \in BOOLEAN, answer \in {"sent", "failed"} :
         /\ answer = "sent" => accepted
         /\ phase' = [phase EXCEPT ![g] = answer]
         /\ delivered' = IF accepted THEN delivered \cup {Arming(held[g])} ELSE delivered
    /\ UNCHANGED <<quote, jobs, held, logged>>
    /\ UNCHANGED tables

\* "LINE account is not connected": nothing is sent.
PushUnlinked(g) ==
    /\ phase[g] = "claimed"
    /\ held[g].user \notin LinkedUsers
    /\ phase' = [phase EXCEPT ![g] = "failed"]
    /\ UNCHANGED <<quote, jobs, held>>
    /\ UNCHANGED effects
    /\ UNCHANGED tables

\* Mutant: the error of the push is ignored.
Outcome_Optimistic(g) == "SENT"

Outcome(g) == IF phase[g] = "sent" THEN "SENT" ELSE "FAILED"

Resume(g) ==
    /\ phase' = [phase EXCEPT ![g] = "scanning"]
    /\ held' = [held EXCEPT ![g] = NoJob]
    /\ UNCHANGED <<quote, jobs>>

\* Mutant: only successful deliveries are recorded.
Record_SentOnly(g) ==
    /\ phase[g] \in {"sent", "failed"}
    /\ logged' = IF phase[g] = "sent" THEN logged \cup {<<Arming(held[g]), "SENT">>} ELSE logged
    /\ Resume(g)
    /\ UNCHANGED <<attempts, delivered>>
    /\ UNCHANGED tables

\* Mutant: nothing is recorded of an alert that is not TRIGGERED any more.
Record_Triggered(g) ==
    /\ phase[g] \in {"sent", "failed"}
    /\ logged' = IF status[held[g].alert] # "TRIGGERED" THEN logged
                 ELSE logged \cup {<<Arming(held[g]), Outcome(g)>>}
    /\ Resume(g)
    /\ UNCHANGED <<attempts, delivered>>
    /\ UNCHANGED tables

\* The insert of the log row; alert_logs.alert_id references alerts, so it fails
\* when the owner has deleted the alert meanwhile.  Failures are only logged.
Record(g) ==
    /\ phase[g] \in {"sent", "failed"}
    /\ logged' = IF status[held[g].alert] = "absent" THEN logged
                 ELSE logged \cup {<<Arming(held[g]), Outcome(g)>>}
    /\ Resume(g)
    /\ UNCHANGED <<attempts, delivered>>
    /\ UNCHANGED tables

RecordFailed(g) ==
    /\ Faults
    /\ phase[g] \in {"sent", "failed"}
    /\ Resume(g)
    /\ UNCHANGED effects
    /\ UNCHANGED tables

-----------------------------------------------------------------------------

Reset(gs) ==
    /\ phase' = [g \in Goroutines |-> IF g \in gs THEN "idle" ELSE phase[g]]
    /\ quote' = [g \in Goroutines |-> IF g \in gs THEN NoQuote ELSE quote[g]]
    /\ jobs' = [g \in Goroutines |-> IF g \in gs THEN {} ELSE jobs[g]]
    /\ held' = [g \in Goroutines |-> IF g \in gs THEN NoJob ELSE held[g]]
    /\ UNCHANGED effects
    /\ UNCHANGED tables

Finish(g) == phase[g] = "scanning" /\ jobs[g] = {} /\ Reset({g})

\* ActiveAlerts fails: the symbol is left to a later cycle.
LoadFailed(g) == Faults /\ phase[g] = "quoted" /\ Reset({g})

\* The process of a replica ends, at any point: nothing of what its goroutines
\* were doing is stored.  On a shutdown main returns without waiting for them.
Stop(replica) ==
    /\ Faults
    /\ Reset({g \in Goroutines : g[1] = replica})

\* What a goroutine does when nothing fails.
GoroutineStep(g) ==
    \/ \E p \in Prices : FetchQuote(g, p)
    \/ LoadAlerts(g)
    \/ \E j \in Jobs : Claim(g, j)
    \/ \E j \in Jobs : ClaimMissed(g, j)
    \/ PushLine(g)
    \/ PushUnlinked(g)
    \/ Record(g)
    \/ Finish(g)

WorkerStep ==
    \/ \E g \in Goroutines : \/ GoroutineStep(g)
                             \/ \E j \in Jobs : ClaimFailed(g, j)
                             \/ RecordFailed(g)
                             \/ LoadFailed(g)
    \/ \E replica \in Replicas : Stop(replica)

=============================================================================
