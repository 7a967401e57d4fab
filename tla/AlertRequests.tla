---------------------------- MODULE AlertRequests ----------------------------
(***************************************************************************)
(* The user's operations on alerts: AlertService, called by the handlers   *)
(* of /api/v1/alerts.  Update and Delete are one statement each.  Create   *)
(* and Rearm read first and write later, with a call to the stock provider *)
(* in between, so each is a request that advances in steps; what it read   *)
(* is kept in the request and may be stale when it writes.                 *)
(***************************************************************************)
EXTENDS AlertTables

CONSTANTS
    Requests,   \* bound: the Create and Rearm requests in flight at once
    Limit,      \* ALERT_LIMIT_PER_USER
    NoAlert,    \* no alert id
    NoPrice     \* no quote yet

ASSUME LimitIsPositive == Limit \in Nat \ {0}
ASSUME RequestsAreFinite == IsFiniteSet(Requests)
ASSUME NoAlertIsNoAlert == NoAlert \notin AlertIds
ASSUME NoPriceIsNoPrice == NoPrice \notin Prices

VARIABLES
    step,     \* request -> how far it got
    subject,  \* request -> the alert a Rearm is about
    seen,     \* request -> the columns asked for (Create) or read (Rearm)
    checked   \* request -> the price a Rearm compared with the target

requests == <<step, subject, seen, checked>>

RequestsType ==
    /\ step \in [Requests -> {"idle", "create", "upserted", "loaded", "counted", "quoted"}]
    /\ subject \in [Requests -> AlertIds \cup {NoAlert}]
    /\ seen \in [Requests -> Rows \cup {NoRow}]
    /\ checked \in [Requests -> Prices \cup {NoPrice}]
    /\ \A q \in Requests :
         /\ step[q] # "idle" => seen[q] \in Rows
         /\ step[q] \in {"loaded", "counted", "quoted"} => subject[q] \in AlertIds
         /\ step[q] = "quoted" => checked[q] \in Prices

RequestsInit ==
    /\ step = [q \in Requests |-> "idle"]
    /\ subject = [q \in Requests |-> NoAlert]
    /\ seen = [q \in Requests |-> NoRow]
    /\ checked = [q \in Requests |-> NoPrice]

Clear(q) ==
    /\ step' = [step EXCEPT ![q] = "idle"]
    /\ subject' = [subject EXCEPT ![q] = NoAlert]
    /\ seen' = [seen EXCEPT ![q] = NoRow]
    /\ checked' = [checked EXCEPT ![q] = NoPrice]

-----------------------------------------------------------------------------
(* Create.                                                                 *)

\* Mutant: the comparison with the limit is off by one.
CreateCount_OffByOne(q, r) ==
    /\ step[q] = "idle"
    /\ CountActive(r.user) <= Limit
    /\ step' = [step EXCEPT ![q] = "create"]
    /\ seen' = [seen EXCEPT ![q] = r]
    /\ UNCHANGED <<subject, checked>>
    /\ UNCHANGED tables

\* Validation and the count; the provider then validates the symbol.
CreateCount(q, r) ==
    /\ step[q] = "idle"
    /\ CountActive(r.user) < Limit
    /\ step' = [step EXCEPT ![q] = "create"]
    /\ seen' = [seen EXCEPT ![q] = r]
    /\ UNCHANGED <<subject, checked>>
    /\ UNCHANGED tables

CreateUpsert(q) ==
    /\ step[q] = "create"
    /\ UpsertStock(seen[q].stock)
    /\ step' = [step EXCEPT ![q] = "upserted"]
    /\ UNCHANGED <<subject, seen, checked>>

CreateInsert(q, a) ==
    /\ step[q] = "upserted"
    /\ InsertAlert(a, seen[q])
    /\ Clear(q)

-----------------------------------------------------------------------------
(* Rearm.                                                                  *)

\* Mutant: a missing or untriggered alert is not refused.
RearmLoad_Unchecked(q, a) ==
    /\ step[q] = "idle"
    /\ step' = [step EXCEPT ![q] = "loaded"]
    /\ subject' = [subject EXCEPT ![q] = a]
    /\ seen' = [seen EXCEPT ![q] = row[a]]
    /\ UNCHANGED checked
    /\ UNCHANGED tables

RearmLoad(q, a) ==
    /\ step[q] = "idle"
    /\ status[a] = "TRIGGERED"
    /\ step' = [step EXCEPT ![q] = "loaded"]
    /\ subject' = [subject EXCEPT ![q] = a]
    /\ seen' = [seen EXCEPT ![q] = row[a]]
    /\ UNCHANGED checked
    /\ UNCHANGED tables

RearmCount(q) ==
    /\ step[q] = "loaded"
    /\ CountActive(seen[q].user) < Limit
    /\ step' = [step EXCEPT ![q] = "counted"]
    /\ UNCHANGED <<subject, seen, checked>>
    /\ UNCHANGED tables

\* The quote must be off the target as it was loaded, which may be out of date.
RearmQuote(q, p) ==
    /\ step[q] = "counted"
    /\ ~Met(seen[q], p)
    /\ step' = [step EXCEPT ![q] = "quoted"]
    /\ checked' = [checked EXCEPT ![q] = p]
    /\ UNCHANGED <<subject, seen>>
    /\ UNCHANGED tables

RearmStore(q) ==
    /\ step[q] = "quoted"
    /\ Rearm(subject[q])
    /\ Clear(q)

-----------------------------------------------------------------------------

\* Every other way a Create or Rearm ends without effect: a refusal, an error of
\* the provider or of the database, a cancelled request, a stopped process.  The
\* transaction of a Create that got past the upsert is rolled back.
Abort(q) ==
    /\ step[q] # "idle"
    /\ IF step[q] = "upserted" THEN RollbackCreate(seen[q].stock) ELSE UNCHANGED tables
    /\ Clear(q)

RequestStep ==
    \/ \E q \in Requests : \/ \E r \in Rows : CreateCount(q, r)
                           \/ CreateUpsert(q)
                           \/ \E a \in AlertIds : CreateInsert(q, a)
                           \/ \E a \in AlertIds : RearmLoad(q, a)
                           \/ RearmCount(q)
                           \/ \E p \in Prices : RearmQuote(q, p)
                           \/ RearmStore(q)
                           \/ Abort(q)
    \/ /\ \E a \in AlertIds : \/ \E c \in Conditions, t \in Targets : Update(a, c, t)
                              \/ Delete(a)
       /\ UNCHANGED requests

=============================================================================
