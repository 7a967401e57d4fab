----------------------------- MODULE AlertTables -----------------------------
(***************************************************************************)
(* The tables the alert feature keeps in PostgreSQL (stocks, users,        *)
(* alerts) and the SQL statements and transactions the repositories run on *)
(* them.  Every action below is one statement that commits by itself, or   *)
(* one step of a transaction that others can observe: the locks it takes,  *)
(* or its commit.  The server runs at READ COMMITTED, the default.         *)
(*                                                                         *)
(* Row locks that can make another statement wait are kept explicitly:     *)
(* stockLock is the lock on a stocks row (held by the upsert of an alert   *)
(* creation or by an administrator's SELECT ... FOR UPDATE); frozen is the *)
(* set of alerts rows an uncommitted stock deactivation has updated.       *)
(***************************************************************************)
EXTENDS Naturals, FiniteSets

CONSTANTS
    Users,       \* users.id
    Stocks,      \* stocks.symbol
    AlertIds,    \* the UUIDs gen_random_uuid() may hand out, never twice
    Targets,     \* target prices, positive
    Prices,      \* quote prices
    MaxArmings,  \* bound: how often one alert may become ACTIVE
    NoRow        \* content of an alerts row that is not stored

ASSUME ArmingBound == MaxArmings \in Nat \ {0}
ASSUME PricesAreNumbers == Targets \subseteq Nat \ {0} /\ Prices \subseteq Nat

Conditions == {"ABOVE", "BELOW"}

\* The columns of an alert that its owner chooses.  Together they are also the
\* key of the partial unique index uq_alerts_active_definition.
Rows == [user: Users, stock: Stocks, condition: Conditions, target: Targets]

ASSUME NoRowIsNoRow == NoRow \notin Rows

VARIABLES
    row,          \* alert id -> its stored columns, NoRow when not stored
    status,       \* alert id -> "absent" or alerts.status
    armings,      \* history: how many times the alert has become ACTIVE
    stockStatus,  \* symbol -> "missing" or stocks.status
    stockLock,    \* symbol -> "free", "create" or "admin"
    frozen,       \* alerts rows updated by a stock deactivation not yet committed
    userStatus    \* user -> users.status

tables == <<row, status, armings, stockStatus, stockLock, frozen, userStatus>>

\* An arming is one period of an alert: the n-th time it became ACTIVE.
Armings == AlertIds \X (1 .. MaxArmings)

Active(a) == status[a] = "ACTIVE"

\* A row that a deactivation has locked stays ACTIVE until that transaction ends.
TablesType ==
    /\ row \in [AlertIds -> Rows \cup {NoRow}]
    /\ status \in [AlertIds -> {"absent", "ACTIVE", "TRIGGERED", "DISABLED"}]
    /\ armings \in [AlertIds -> 0 .. MaxArmings]
    /\ stockStatus \in [Stocks -> {"missing", "ACTIVE", "DISABLED"}]
    /\ stockLock \in [Stocks -> {"free", "create", "admin"}]
    /\ frozen \subseteq {a \in AlertIds : Active(a)}
    /\ userStatus \in [Users -> {"ACTIVE", "DISABLED"}]
    /\ \A a \in AlertIds : status[a] # "absent" => row[a] \in Rows /\ armings[a] > 0

TablesInit ==
    /\ row = [a \in AlertIds |-> NoRow]
    /\ status = [a \in AlertIds |-> "absent"]
    /\ armings = [a \in AlertIds |-> 0]
    /\ stockStatus = [s \in Stocks |-> "missing"]
    /\ stockLock = [s \in Stocks |-> "free"]
    /\ frozen = {}
    /\ userStatus = [u \in Users |-> "ACTIVE"]

-----------------------------------------------------------------------------
(* Reads.                                                                  *)

ActiveOf(u) == {a \in AlertIds : Active(a) /\ row[a].user = u}

CountActive(u) == Cardinality(ActiveOf(u))

\* The comparison of the worker (alertMatches) and of the service
\* (alertConditionMet): the target price itself fires in both directions.
Met(r, price) ==
    \/ r.condition = "ABOVE" /\ price >= r.target
    \/ r.condition = "BELOW" /\ price <= r.target

\* Another ACTIVE alert with this definition: the unique index refuses.
ActiveTwin(a, r) == \E b \in AlertIds \ {a} : Active(b) /\ row[b] = r

-----------------------------------------------------------------------------
(* Statements on alerts.                                                   *)

OnlyAlertsChange == UNCHANGED <<stockStatus, stockLock, frozen, userStatus>>

\* Mutant: the status is read by a SELECT, which locks nothing.
UpsertStock_NoLock(s) ==
    /\ stockStatus[s] # "DISABLED"
    /\ UNCHANGED tables

\* First statement of Create: the upsert of the stock locks its row, whether it
\* inserts or updates, and the status it returns must be ACTIVE.
UpsertStock(s) ==
    /\ stockLock[s] = "free"
    /\ stockStatus[s] # "DISABLED"
    /\ stockLock' = [stockLock EXCEPT ![s] = "create"]
    /\ UNCHANGED <<row, status, armings, stockStatus, frozen, userStatus>>

\* Insert of the alert and commit: the stock row becomes visible with it.
InsertAlert(a, r) ==
    /\ armings[a] = 0
    /\ ~ActiveTwin(a, r)
    /\ row' = [row EXCEPT ![a] = r]
    /\ status' = [status EXCEPT ![a] = "ACTIVE"]
    /\ armings' = [armings EXCEPT ![a] = 1]
    /\ stockStatus' = [stockStatus EXCEPT ![r.stock] = IF @ = "missing" THEN "ACTIVE" ELSE @]
    /\ stockLock' = [stockLock EXCEPT ![r.stock] = "free"]
    /\ UNCHANGED <<frozen, userStatus>>

\* The deferred Rollback of Create, after the upsert.
RollbackCreate(s) ==
    /\ stockLock' = [stockLock EXCEPT ![s] = "free"]
    /\ UNCHANGED <<row, status, armings, stockStatus, frozen, userStatus>>

\* Update has no condition on the status, and checks no price.
Update(a, c, t) ==
    /\ status[a] # "absent"
    /\ a \notin frozen
    /\ LET r == [row[a] EXCEPT !.condition = c, !.target = t]
       IN  /\ Active(a) => ~ActiveTwin(a, r)
           /\ row' = [row EXCEPT ![a] = r]
    /\ UNCHANGED <<status, armings>>
    /\ OnlyAlertsChange

Delete(a) ==
    /\ status[a] # "absent"
    /\ a \notin frozen
    /\ row' = [row EXCEPT ![a] = NoRow]
    /\ status' = [status EXCEPT ![a] = "absent"]
    /\ UNCHANGED armings
    /\ OnlyAlertsChange

\* The stock is joined, but neither its status nor the price is looked at.
Rearm(a) ==
    /\ status[a] = "TRIGGERED"
    /\ armings[a] < MaxArmings
    /\ ~ActiveTwin(a, row[a])
    /\ status' = [status EXCEPT ![a] = "ACTIVE"]
    /\ armings' = [armings EXCEPT ![a] = @ + 1]
    /\ UNCHANGED row
    /\ OnlyAlertsChange

\* Mutant: the claim does not require the alert to be ACTIVE.
ClaimTriggered_AnyStatus(a) ==
    /\ status[a] # "absent"
    /\ a \notin frozen
    /\ status' = [status EXCEPT ![a] = "TRIGGERED"]
    /\ UNCHANGED <<row, armings>>
    /\ OnlyAlertsChange

\* The conditional UPDATE that decides which worker notifies.
ClaimTriggered(a) ==
    /\ Active(a)
    /\ a \notin frozen
    /\ status' = [status EXCEPT ![a] = "TRIGGERED"]
    /\ UNCHANGED <<row, armings>>
    /\ OnlyAlertsChange

-----------------------------------------------------------------------------
(* Administrators.                                                         *)

\* AdminAlertRepository.Disable: any status but DISABLED, never undone.
DisableAlert(a) ==
    /\ status[a] \in {"ACTIVE", "TRIGGERED"}
    /\ a \notin frozen
    /\ status' = [status EXCEPT ![a] = "DISABLED"]
    /\ UNCHANGED <<row, armings>>
    /\ OnlyAlertsChange

ActiveOn(s) == {a \in AlertIds : Active(a) /\ row[a].stock = s}

\* AdminStockRepository.SetStatus to DISABLED, up to its second UPDATE: the stock
\* row is locked, and so are the alerts that were ACTIVE when the UPDATE ran.
BeginDisableStock(s) ==
    /\ stockLock[s] = "free"
    /\ stockStatus[s] = "ACTIVE"
    /\ stockLock' = [stockLock EXCEPT ![s] = "admin"]
    /\ frozen' = frozen \cup ActiveOn(s)
    /\ UNCHANGED <<row, status, armings, stockStatus, userStatus>>

FrozenOn(s) == {a \in frozen : row[a].stock = s}

CommitDisableStock(s) ==
    /\ stockLock[s] = "admin"
    /\ status' = [a \in AlertIds |-> IF a \in FrozenOn(s) THEN "DISABLED" ELSE status[a]]
    /\ frozen' = frozen \ FrozenOn(s)
    /\ stockStatus' = [stockStatus EXCEPT ![s] = "DISABLED"]
    /\ stockLock' = [stockLock EXCEPT ![s] = "free"]
    /\ UNCHANGED <<row, armings, userStatus>>

\* The audit insert or the commit fails: the deferred Rollback.
RollbackDisableStock(s) ==
    /\ stockLock[s] = "admin"
    /\ frozen' = frozen \ FrozenOn(s)
    /\ stockLock' = [stockLock EXCEPT ![s] = "free"]
    /\ UNCHANGED <<row, status, armings, stockStatus, userStatus>>

\* SetStatus to ACTIVE changes one row: alerts it once disabled stay DISABLED.
EnableStock(s) ==
    /\ stockLock[s] = "free"
    /\ stockStatus[s] = "DISABLED"
    /\ stockStatus' = [stockStatus EXCEPT ![s] = "ACTIVE"]
    /\ UNCHANGED <<row, status, armings, stockLock, frozen, userStatus>>

\* The effect of AdminUserRepository.SetStatus on what the worker reads (its own
\* rules, and the revoked tokens, are the business of the account modules).
SetUserStatus(u) ==
    /\ userStatus' = [userStatus EXCEPT ![u] = IF @ = "ACTIVE" THEN "DISABLED" ELSE "ACTIVE"]
    /\ UNCHANGED <<row, status, armings, stockStatus, stockLock, frozen>>

=============================================================================
