-------------------------- MODULE AlertSystemProofs --------------------------
(***************************************************************************)
(* Proofs about AlertSystem, for every set of users, stocks, alerts,       *)
(* requests and replicas, with and without faults.                         *)
(***************************************************************************)
EXTENDS AlertSystem, FiniteSetTheorems, TLAPS

-----------------------------------------------------------------------------
(* What a step of the system does to the tables.                           *)

AlertStatement(a) ==
    \/ \E r \in Rows : InsertAlert(a, r)
    \/ \E c \in Conditions, t \in Targets : Update(a, c, t)
    \/ Delete(a)
    \/ Rearm(a)
    \/ ClaimTriggered(a)
    \/ DisableAlert(a)

StockStatement(s) ==
    \/ UpsertStock(s)
    \/ RollbackCreate(s)
    \/ BeginDisableStock(s)
    \/ CommitDisableStock(s)
    \/ RollbackDisableStock(s)
    \/ EnableStock(s)

TablesNext ==
    \/ \E a \in AlertIds : AlertStatement(a)
    \/ \E s \in Stocks : StockStatement(s)
    \/ \E u \in Users : SetUserStatus(u)

\* A request that creates or re-arms executes a statement on tables or none.
LEMMA RequestOnTables ==
    ASSUME RequestsType, RequestStep
    PROVE  TablesNext \/ UNCHANGED tables
<1>1. ASSUME NEW q \in Requests, NEW r \in Rows, CreateCount(q, r)
      PROVE  UNCHANGED tables
  BY <1>1 DEF CreateCount
<1>2. ASSUME NEW q \in Requests, CreateUpsert(q)
      PROVE  TablesNext
  <2>1. seen[q].stock \in Stocks
    BY <1>2 DEF CreateUpsert, RequestsType, Rows
  <2> QED
    BY <1>2, <2>1 DEF CreateUpsert, TablesNext, StockStatement
<1>3. ASSUME NEW q \in Requests, NEW a \in AlertIds, CreateInsert(q, a)
      PROVE  TablesNext
  <2>1. seen[q] \in Rows
    BY <1>3 DEF CreateInsert, RequestsType
  <2> QED
    BY <1>3, <2>1 DEF CreateInsert, TablesNext, AlertStatement
<1>4. ASSUME NEW q \in Requests,
             \/ \E a \in AlertIds : RearmLoad(q, a)
             \/ RearmCount(q)
             \/ \E p \in Prices : RearmQuote(q, p)
      PROVE  UNCHANGED tables
  BY <1>4 DEF RearmLoad, RearmCount, RearmQuote
<1>5. ASSUME NEW q \in Requests, RearmStore(q)
      PROVE  TablesNext
  <2>1. subject[q] \in AlertIds
    BY <1>5 DEF RearmStore, RequestsType
  <2> QED
    BY <1>5, <2>1 DEF RearmStore, TablesNext, AlertStatement
<1>6. ASSUME NEW q \in Requests, Abort(q)
      PROVE  TablesNext \/ UNCHANGED tables
  <2>1. seen[q].stock \in Stocks
    BY <1>6 DEF Abort, RequestsType, Rows
  <2> QED
    BY <1>6, <2>1 DEF Abort, TablesNext, StockStatement
<1>7. ASSUME NEW a \in AlertIds,
             (\E c \in Conditions, t \in Targets : Update(a, c, t)) \/ Delete(a)
      PROVE  TablesNext
  BY <1>7 DEF TablesNext, AlertStatement
<1> QED
  BY <1>1, <1>2, <1>3, <1>4, <1>5, <1>6, <1>7 DEF RequestStep

\* The only statement a goroutine executes on the modelled columns is the claim.
LEMMA WorkerOnTables ==
    ASSUME WorkerStep
    PROVE  (\E a \in AlertIds : ClaimTriggered(a)) \/ UNCHANGED tables
<1>1. \A j \in Jobs : j.alert \in AlertIds
  BY DEF Jobs
<1>2. ASSUME NEW g \in Goroutines, NEW j \in Jobs, Claim(g, j) \/ ClaimFailed(g, j)
      PROVE  (\E a \in AlertIds : ClaimTriggered(a)) \/ UNCHANGED tables
  BY <1>1, <1>2 DEF Claim, ClaimFailed
<1>3. ASSUME NEW g \in Goroutines,
             \/ \E p \in Prices : FetchQuote(g, p)
             \/ LoadAlerts(g)
             \/ \E j \in Jobs : ClaimMissed(g, j)
             \/ PushLine(g)
             \/ PushUnlinked(g)
             \/ Record(g)
             \/ RecordFailed(g)
             \/ Finish(g)
             \/ LoadFailed(g)
      PROVE  UNCHANGED tables
  BY <1>3 DEF FetchQuote, LoadAlerts, ClaimMissed, PushLine, PushUnlinked, Record,
              RecordFailed, Finish, LoadFailed, Reset
<1>4. ASSUME NEW replica \in Replicas, Stop(replica)
      PROVE  UNCHANGED tables
  BY <1>4 DEF Stop, Reset
<1> QED
  BY <1>2, <1>3, <1>4 DEF WorkerStep, GoroutineStep

\* Every step of the system is a statement on the tables or leaves them alone.
LEMMA StepOnTables ==
    ASSUME RequestsType, [Next]_vars
    PROVE  TablesNext \/ UNCHANGED tables
<1>1. CASE RequestStep
  BY <1>1, RequestOnTables
<1>2. CASE WorkerStep
  BY <1>2, WorkerOnTables DEF TablesNext, AlertStatement
<1>3. CASE AdminStep
  BY <1>3 DEF AdminStep, TablesNext, AlertStatement, StockStatement
<1>4. CASE UNCHANGED vars
  BY <1>4 DEF vars
<1> QED
  BY <1>1, <1>2, <1>3, <1>4 DEF Next

-----------------------------------------------------------------------------
(* Type correctness.                                                       *)

\* Every statement and transaction step keeps the tables well formed.
LEMMA TablesTypeStep ==
    ASSUME TablesType, TablesNext \/ UNCHANGED tables
    PROVE  TablesType'
<1> USE ArmingBound
<1>1. ASSUME NEW s \in Stocks, StockStatement(s)
      PROVE  TablesType'
  <2>1. CASE CommitDisableStock(s)
    BY <2>1 DEF TablesType, CommitDisableStock, FrozenOn, Active
  <2>2. CASE ~CommitDisableStock(s)
    BY <1>1, <2>2 DEF StockStatement, TablesType, UpsertStock, RollbackCreate,
       BeginDisableStock, RollbackDisableStock, EnableStock, ActiveOn, FrozenOn, Active
  <2> QED
    BY <2>1, <2>2
<1>2. ASSUME NEW a \in AlertIds, NEW r \in Rows, InsertAlert(a, r)
      PROVE  TablesType'
  <2>1. r.stock \in Stocks
    BY DEF Rows
  <2>2. stockStatus' \in [Stocks -> {"missing", "ACTIVE", "DISABLED"}]
    BY <1>2, <2>1 DEF TablesType, InsertAlert
  <2>3. status[a] = "absent" /\ a \notin frozen
    BY <1>2 DEF TablesType, InsertAlert, Active
  <2>4. frozen' \subseteq {b \in AlertIds : Active(b)'}
    BY <1>2, <2>3 DEF TablesType, InsertAlert, Active
  <2> QED
    BY <1>2, <2>1, <2>2, <2>4 DEF TablesType, InsertAlert
<1>3. ASSUME NEW a \in AlertIds, NEW c \in Conditions, NEW t \in Targets, Update(a, c, t)
      PROVE  TablesType'
  <2>1. [row[a] EXCEPT !.condition = c, !.target = t] \in Rows
    BY <1>3 DEF TablesType, Update, Rows
  <2> QED
    BY <1>3, <2>1 DEF TablesType, Update, OnlyAlertsChange, Active
<1>4. ASSUME NEW a \in AlertIds, Delete(a) \/ Rearm(a) \/ ClaimTriggered(a) \/ DisableAlert(a)
      PROVE  TablesType'
  BY <1>4 DEF TablesType, Delete, Rearm, ClaimTriggered, DisableAlert, OnlyAlertsChange, Active
<1>5. ASSUME NEW u \in Users, SetUserStatus(u)
      PROVE  TablesType'
  BY <1>5 DEF TablesType, SetUserStatus, Active
<1>6. CASE UNCHANGED tables
  BY <1>6 DEF TablesType, tables, Active
<1> QED
  BY <1>1, <1>2, <1>3, <1>4, <1>5, <1>6 DEF TablesNext, AlertStatement

\* A request's own state stays well formed.
LEMMA RequestsTypeStep ==
    ASSUME TablesType, RequestsType, RequestStep
    PROVE  RequestsType'
<1>1. ASSUME NEW q \in Requests,
             \/ \E r \in Rows : CreateCount(q, r)
             \/ CreateUpsert(q)
             \/ RearmCount(q)
             \/ \E p \in Prices : RearmQuote(q, p)
      PROVE  RequestsType'
  BY <1>1 DEF CreateCount, CreateUpsert, RearmCount, RearmQuote, RequestsType
<1>2. ASSUME NEW q \in Requests, Clear(q)
      PROVE  RequestsType'
  BY <1>2 DEF Clear, RequestsType
<1>3. ASSUME NEW q \in Requests, NEW a \in AlertIds, RearmLoad(q, a)
      PROVE  RequestsType'
  <2>1. row[a] \in Rows
    BY <1>3 DEF RearmLoad, TablesType
  <2> QED
    BY <1>3, <2>1 DEF RearmLoad, RequestsType
<1>4. CASE UNCHANGED requests
  BY <1>4 DEF requests, RequestsType
<1> QED
  BY <1>1, <1>2, <1>3, <1>4 DEF RequestStep, CreateInsert, RearmStore, Abort

\* The jobs a goroutine loads name alerts, armings and users that exist.
LEMMA LoadedJobs ==
    ASSUME TablesType, NEW s \in Stocks, NEW p \in Prices
    PROVE  MatchingJobs(s, p) \subseteq Jobs
<1> USE ArmingBound
<1>1. ASSUME NEW a \in ActiveAlerts(s)
      PROVE  /\ a \in AlertIds
             /\ armings[a] \in 1 .. MaxArmings
             /\ row[a].user \in Users
  BY <1>1 DEF ActiveAlerts, Active, TablesType, Rows
<1> QED
  BY <1>1 DEF MatchingJobs, Jobs

\* Claiming stamps the job with the current arming of the alert.
LEMMA ClaimedJob ==
    ASSUME TablesType, NEW j \in Jobs, Active(j.alert)
    PROVE  /\ j.alert \in AlertIds
           /\ armings[j.alert] \in 1 .. MaxArmings
           /\ [j EXCEPT !.arming = armings[j.alert]] \in Jobs
           /\ Arming([j EXCEPT !.arming = armings[j.alert]]) = <<j.alert, armings[j.alert]>>
<1> USE ArmingBound
<1>1. j.alert \in AlertIds
  BY DEF Jobs
<1>2. armings[j.alert] \in 1 .. MaxArmings
  BY <1>1 DEF TablesType, Active
<1> QED
  BY <1>1, <1>2 DEF Jobs, Arming

\* What a goroutine holds names an arming.
LEMMA HeldArming ==
    ASSUME WorkersType, NEW g \in Goroutines, phase[g] \in {"claimed", "sent", "failed"}
    PROVE  /\ held[g] \in Jobs
           /\ Arming(held[g]) \in Armings
BY DEF WorkersType, Jobs, Arming, Armings

\* The goroutines' state, the attempts and the log stay well formed.
LEMMA WorkersTypeStep ==
    ASSUME TablesType, WorkersType, WorkerStep
    PROVE  WorkersType'
<1>1. ASSUME NEW g \in Goroutines, NEW p \in Prices, FetchQuote(g, p)
      PROVE  WorkersType'
  BY <1>1 DEF FetchQuote, WorkersType, Phases, effects
<1>2. ASSUME NEW g \in Goroutines, LoadAlerts(g)
      PROVE  WorkersType'
  <2>1. g[2] \in Stocks
    BY DEF Goroutines
  <2>2. quote[g] \in Prices
    BY <1>2 DEF LoadAlerts, WorkersType
  <2>3. MatchingJobs(g[2], quote[g]) \in SUBSET Jobs
    BY <2>1, <2>2, LoadedJobs
  <2> QED
    BY <1>2, <2>3 DEF LoadAlerts, WorkersType, Phases, effects
<1>3. ASSUME NEW g \in Goroutines, NEW j \in Jobs, Claim(g, j)
      PROVE  WorkersType'
  <2>1. [j EXCEPT !.arming = armings[j.alert]] \in Jobs
    BY <1>3, ClaimedJob DEF Claim, ClaimTriggered
  <2> QED
    BY <1>3, <2>1 DEF Claim, WorkersType, Phases, effects
<1>4. ASSUME NEW g \in Goroutines, NEW j \in Jobs, ClaimMissed(g, j) \/ ClaimFailed(g, j)
      PROVE  WorkersType'
  BY <1>4 DEF ClaimMissed, ClaimFailed, Skip, WorkersType, Phases, effects
<1>5. ASSUME NEW g \in Goroutines, PushLine(g)
      PROVE  WorkersType'
  <2>1. Arming(held[g]) \in Armings
    BY <1>5, HeldArming DEF PushLine
  <2>2. attempts' \in [Armings -> Nat] /\ delivered' \subseteq Armings
    BY <1>5, <2>1 DEF PushLine, WorkersType
  <2>3. phase' \in [Goroutines -> Phases]
    BY <1>5 DEF PushLine, WorkersType, Phases
  <2>4. \A h \in Goroutines :
            /\ phase'[h] = "quoted" => quote'[h] \in Prices
            /\ phase'[h] \in {"claimed", "sent", "failed"} => held'[h] \in Jobs
    BY <1>5 DEF PushLine, WorkersType
  <2> QED
    BY <1>5, <2>2, <2>3, <2>4 DEF PushLine, WorkersType
<1>6. ASSUME NEW g \in Goroutines, PushUnlinked(g)
      PROVE  WorkersType'
  BY <1>6 DEF PushUnlinked, WorkersType, Phases, effects
<1>7. ASSUME NEW g \in Goroutines, Record(g) \/ RecordFailed(g)
      PROVE  WorkersType'
  <2>1. Arming(held[g]) \in Armings
    BY <1>7, HeldArming DEF Record, RecordFailed
  <2>2. logged' \subseteq Armings \X {"SENT", "FAILED"}
    BY <1>7, <2>1 DEF Record, RecordFailed, Outcome, effects, WorkersType
  <2> QED
    BY <1>7, <2>2 DEF Record, RecordFailed, Resume, WorkersType, Phases, effects
<1>8. ASSUME NEW gs \in SUBSET Goroutines, Reset(gs)
      PROVE  WorkersType'
  BY <1>8 DEF Reset, WorkersType, Phases, effects
<1> QED
  BY <1>1, <1>2, <1>3, <1>4, <1>5, <1>6, <1>7, <1>8
     DEF WorkerStep, GoroutineStep, Finish, LoadFailed, Stop

\* TypeOK is inductive by itself.
LEMMA TypeStep ==
    ASSUME TypeOK, [Next]_vars
    PROVE  TypeOK'
<1> USE DEF TypeOK
<1>1. TablesType'
  BY StepOnTables, TablesTypeStep
<1>2. RequestsType'
  <2>1. CASE RequestStep
    BY <2>1, RequestsTypeStep
  <2>2. CASE UNCHANGED requests
    BY <2>2 DEF requests, RequestsType
  <2> QED
    BY <2>1, <2>2 DEF Next, vars
<1>3. WorkersType'
  <2>1. CASE WorkerStep
    BY <2>1, WorkersTypeStep
  <2>2. CASE UNCHANGED workers
    BY <2>2 DEF workers, WorkersType
  <2> QED
    BY <2>1, <2>2 DEF Next, vars
<1> QED
  BY <1>1, <1>2, <1>3

\* Every reachable state is well typed: rows exist for stored alerts, a request
\* that is under way knows its alert, a claimed job names an existing arming.
THEOREM TypeCorrect == Spec => []TypeOK
<1>1. Init => TypeOK
  BY ArmingBound DEF Init, TablesInit, RequestsInit, WorkersInit, TypeOK, TablesType,
     RequestsType, WorkersType, Phases, Active
<1>2. TypeOK /\ [Next]_vars => TypeOK'
  BY TypeStep
<1> QED
  BY <1>1, <1>2, PTL DEF Spec

-----------------------------------------------------------------------------
(* At most one notification attempt per arming.                            *)

\* The arming is over: the alert is not ACTIVE, or already in a later arming.
Spent(e) ==
    \/ e[2] < armings[e[1]]
    \/ e[2] = armings[e[1]] /\ ~Active(e[1])

\* Why one claim means one attempt: an arming in the hands of a goroutine about to
\* push is spent and unattempted, no two goroutines hold the same one, and what
\* has been attempted is spent, so that nobody can claim it again.
AttemptInv ==
    /\ \A g \in Goroutines :
          phase[g] = "claimed" => Spent(Arming(held[g])) /\ attempts[Arming(held[g])] = 0
    /\ \A g, h \in Goroutines :
          phase[g] = "claimed" /\ phase[h] = "claimed" /\ g # h
            => Arming(held[g]) # Arming(held[h])
    /\ \A e \in Armings : attempts[e] = 0 \/ (attempts[e] = 1 /\ Spent(e))

\* A statement that makes an alert ACTIVE starts a new arming of it.
LEMMA ActivationIsNewArming ==
    ASSUME TablesType, TablesNext \/ UNCHANGED tables, NEW a \in AlertIds
    PROVE  /\ armings[a] <= armings'[a]
           /\ Active(a)' /\ ~Active(a) => armings[a] < armings'[a]
<1> USE ArmingBound
<1>1. ASSUME NEW b \in AlertIds, AlertStatement(b)
      PROVE  /\ armings[a] <= armings'[a]
             /\ Active(a)' /\ ~Active(a) => armings[a] < armings'[a]
  <2>1. ASSUME NEW r \in Rows, InsertAlert(b, r)
        PROVE  /\ armings' = [armings EXCEPT ![b] = 1] /\ armings[b] = 0
               /\ status' = [status EXCEPT ![b] = "ACTIVE"]
    BY <2>1 DEF InsertAlert
  <2>2. ASSUME NEW c \in Conditions, NEW t \in Targets, Update(b, c, t)
        PROVE  armings' = armings /\ status' = status
    BY <2>2 DEF Update
  <2>3. CASE Delete(b) \/ ClaimTriggered(b) \/ DisableAlert(b)
    BY <2>3 DEF TablesType, Delete, ClaimTriggered, DisableAlert, Active
  <2>4. CASE Rearm(b)
    BY <2>4 DEF TablesType, Rearm, Active
  <2> QED
    BY <1>1, <2>1, <2>2, <2>3, <2>4 DEF AlertStatement, TablesType, Active
<1>2. ASSUME NEW s \in Stocks, StockStatement(s)
      PROVE  armings[a] = armings'[a] /\ (Active(a)' => Active(a))
  BY <1>2 DEF StockStatement, TablesType, UpsertStock, RollbackCreate, BeginDisableStock,
     CommitDisableStock, RollbackDisableStock, EnableStock, Active
<1>3. ASSUME NEW u \in Users, SetUserStatus(u)
      PROVE  armings[a] = armings'[a] /\ (Active(a)' => Active(a))
  BY <1>3 DEF SetUserStatus, Active
<1>4. CASE UNCHANGED tables
  BY <1>4 DEF tables, Active, TablesType
<1>5. armings[a] \in Nat
  BY DEF TablesType
<1> QED
  BY <1>1, <1>2, <1>3, <1>4, <1>5 DEF TablesNext

\* Once over, an arming is over for good.
LEMMA SpentIsStable ==
    ASSUME TypeOK, [Next]_vars, NEW e \in Armings, Spent(e)
    PROVE  Spent(e)'
<1> USE DEF TypeOK
<1>1. e[1] \in AlertIds /\ e[2] \in Nat
  BY DEF Armings
<1>2. armings[e[1]] \in Nat /\ armings'[e[1]] \in Nat
  BY <1>1, TypeStep DEF TablesType
<1>3. /\ armings[e[1]] <= armings'[e[1]]
      /\ Active(e[1])' /\ ~Active(e[1]) => armings[e[1]] < armings'[e[1]]
  BY <1>1, StepOnTables, ActivationIsNewArming
<1> QED
  BY <1>1, <1>2, <1>3 DEF Spent

\* A step that claims nothing and calls LINE for nothing keeps AttemptInv.
LEMMA QuietStep ==
    ASSUME TypeOK, AttemptInv, [Next]_vars,
           attempts' = attempts,
           \A g \in Goroutines :
              phase'[g] = "claimed" => phase[g] = "claimed" /\ held'[g] = held[g]
    PROVE  AttemptInv'
<1>1. \A e \in Armings : Spent(e) => Spent(e)'
  BY SpentIsStable
<1>2. ASSUME NEW g \in Goroutines, phase'[g] = "claimed"
      PROVE  /\ phase[g] = "claimed"
             /\ Arming(held[g])' = Arming(held[g])
             /\ Arming(held[g]) \in Armings
  BY <1>2, HeldArming DEF TypeOK, Arming
<1>3. ASSUME NEW g \in Goroutines, phase'[g] = "claimed"
      PROVE  /\ Spent(Arming(held[g]))'
             /\ attempts'[Arming(held[g])'] = 0
  <2>1. PICK e \in Armings : e = Arming(held[g])
    BY <1>2, <1>3
  <2>2. Spent(e) /\ attempts[e] = 0
    BY <1>2, <1>3, <2>1 DEF AttemptInv
  <2>3. Spent(e)' /\ attempts'[e] = 0
    BY <1>1, <2>2
  <2> QED
    BY <1>2, <1>3, <2>1, <2>3 DEF Spent
<1>4. ASSUME NEW g \in Goroutines, NEW h \in Goroutines, g # h,
             phase'[g] = "claimed", phase'[h] = "claimed"
      PROVE  Arming(held[g])' # Arming(held[h])'
  BY <1>2, <1>4 DEF AttemptInv
<1>5. ASSUME NEW e \in Armings
      PROVE  attempts'[e] = 0 \/ (attempts'[e] = 1 /\ Spent(e)')
  BY <1>1, <1>5 DEF AttemptInv
<1> QED
  BY <1>3, <1>4, <1>5 DEF AttemptInv

\* The claim: an ACTIVE alert's current arming is not spent, so nobody holds it and
\* nothing was sent for it; the claim spends it.
LEMMA ClaimStep ==
    ASSUME TypeOK, AttemptInv, [Next]_vars,
           NEW g \in Goroutines, NEW j \in Jobs, Claim(g, j)
    PROVE  AttemptInv'
<1> DEFINE a == j.alert
<1>0. /\ a \in AlertIds /\ armings[a] \in 1 .. MaxArmings
      /\ [j EXCEPT !.arming = armings[j.alert]] \in Jobs
      /\ Arming([j EXCEPT !.arming = armings[j.alert]]) = <<a, armings[a]>>
  BY ClaimedJob DEF TypeOK, Claim, ClaimTriggered
<1>a. PICK e \in Armings : e = <<a, armings[a]>>
  BY <1>0 DEF Armings
<1>1. /\ a \in AlertIds /\ e[1] = a /\ e[2] = armings[a] /\ armings[a] \in Nat
      /\ Arming([j EXCEPT !.arming = armings[j.alert]]) = e
  BY <1>0, <1>a
<1>2. ~Spent(e)
  BY <1>1 DEF Spent, Claim, ClaimTriggered
<1>3. Spent(e)'
  BY <1>1 DEF Spent, Claim, ClaimTriggered, Active, TypeOK, TablesType
<1>4. attempts[e] = 0 /\ attempts' = attempts
  BY <1>1, <1>2 DEF AttemptInv, Claim, effects
<1>5. /\ phase'[g] = "claimed" /\ Arming(held[g])' = e
      /\ \A h \in Goroutines \ {g} : phase'[h] = phase[h] /\ held'[h] = held[h]
  BY <1>1 DEF Claim, TypeOK, WorkersType, Arming
<1>6. \A f \in Armings : Spent(f) => Spent(f)'
  BY SpentIsStable
<1>7. ASSUME NEW h \in Goroutines, h # g, phase'[h] = "claimed"
      PROVE  /\ phase[h] = "claimed"
             /\ Arming(held[h])' = Arming(held[h])
             /\ Arming(held[h]) \in Armings
             /\ Spent(Arming(held[h]))
             /\ attempts[Arming(held[h])] = 0
  BY <1>5, <1>7, HeldArming DEF TypeOK, Arming, AttemptInv
<1>8. ASSUME NEW h \in Goroutines, phase'[h] = "claimed"
      PROVE  /\ Spent(Arming(held[h]))'
             /\ attempts'[Arming(held[h])'] = 0
  <2>1. CASE h = g
    BY <1>3, <1>4, <1>5, <2>1 DEF Spent
  <2>2. CASE h # g
    <3>1. PICK f \in Armings : f = Arming(held[h])
      BY <1>7, <1>8, <2>2
    <3>2. Spent(f)'
      BY <1>6, <1>7, <1>8, <2>2, <3>1
    <3> QED
      BY <1>4, <1>7, <1>8, <2>2, <3>1, <3>2 DEF Spent
  <2> QED
    BY <2>1, <2>2
<1>9. ASSUME NEW h \in Goroutines, NEW k \in Goroutines, h # k,
             phase'[h] = "claimed", phase'[k] = "claimed"
      PROVE  Arming(held[h])' # Arming(held[k])'
  <2>1. CASE h = g \/ k = g
    BY <1>2, <1>5, <1>7, <1>9, <2>1
  <2>2. CASE h # g /\ k # g
    BY <1>7, <1>9, <2>2 DEF AttemptInv
  <2> QED
    BY <2>1, <2>2
<1>10. ASSUME NEW f \in Armings
       PROVE  attempts'[f] = 0 \/ (attempts'[f] = 1 /\ Spent(f)')
  BY <1>4, <1>6, <1>10 DEF AttemptInv
<1> QED
  BY <1>8, <1>9, <1>10 DEF AttemptInv

\* The push: the goroutine's arming had no attempt and it gives the arming up.
LEMMA PushStep ==
    ASSUME TypeOK, AttemptInv, [Next]_vars, NEW g \in Goroutines, PushLine(g)
    PROVE  AttemptInv'
<1> DEFINE e == Arming(held[g])
<1>1. e \in Armings /\ phase[g] = "claimed" /\ Spent(e) /\ attempts[e] = 0
  BY HeldArming DEF TypeOK, PushLine, AttemptInv
<1>2. /\ attempts' = [attempts EXCEPT ![e] = 1]
      /\ attempts \in [Armings -> Nat]
  BY <1>1 DEF PushLine, TypeOK, WorkersType
<1>3. /\ phase'[g] # "claimed"
      /\ held' = held
      /\ \A h \in Goroutines \ {g} : phase'[h] = phase[h]
  BY DEF PushLine, TypeOK, WorkersType
<1>4. \A f \in Armings : Spent(f) => Spent(f)'
  BY SpentIsStable
<1>5. ASSUME NEW h \in Goroutines, phase'[h] = "claimed"
      PROVE  /\ h # g /\ phase[h] = "claimed"
             /\ Arming(held[h])' = Arming(held[h])
             /\ Arming(held[h]) \in Armings
             /\ Arming(held[h]) # e
             /\ Spent(Arming(held[h]))
             /\ attempts[Arming(held[h])] = 0
  <2>1. h # g /\ phase[h] = "claimed" /\ Arming(held[h])' = Arming(held[h])
    BY <1>3, <1>5 DEF Arming
  <2> QED
    BY <1>1, <2>1, HeldArming DEF TypeOK, AttemptInv
<1>6. ASSUME NEW h \in Goroutines, phase'[h] = "claimed"
      PROVE  /\ Spent(Arming(held[h]))'
             /\ attempts'[Arming(held[h])'] = 0
  <2>1. PICK f \in Armings : f = Arming(held[h])
    BY <1>5, <1>6
  <2>2. Spent(f)' /\ attempts'[f] = 0
    BY <1>2, <1>4, <1>5, <1>6, <2>1
  <2> QED
    BY <1>5, <1>6, <2>1, <2>2 DEF Spent
<1>7. ASSUME NEW h \in Goroutines, NEW k \in Goroutines, h # k,
             phase'[h] = "claimed", phase'[k] = "claimed"
      PROVE  Arming(held[h])' # Arming(held[k])'
  BY <1>5, <1>7 DEF AttemptInv
<1>8. ASSUME NEW f \in Armings
      PROVE  attempts'[f] = 0 \/ (attempts'[f] = 1 /\ Spent(f)')
  BY <1>1, <1>2, <1>4, <1>8 DEF AttemptInv
<1> QED
  BY <1>6, <1>7, <1>8 DEF AttemptInv

\* AttemptInv is inductive relative to TypeOK.
LEMMA AttemptInvStep ==
    ASSUME TypeOK, AttemptInv, [Next]_vars
    PROVE  AttemptInv'
<1>1. CASE UNCHANGED workers
  BY <1>1, QuietStep DEF workers
<1>2. CASE WorkerStep
  <2>1. ASSUME NEW g \in Goroutines, NEW j \in Jobs, Claim(g, j)
        PROVE  AttemptInv'
    BY <2>1, ClaimStep
  <2>2. ASSUME NEW g \in Goroutines, PushLine(g)
        PROVE  AttemptInv'
    BY <2>2, PushStep
  <2>3. ASSUME NEW g \in Goroutines,
               \/ \E p \in Prices : FetchQuote(g, p)
               \/ LoadAlerts(g)
               \/ \E j \in Jobs : ClaimMissed(g, j) \/ ClaimFailed(g, j)
               \/ PushUnlinked(g)
               \/ Record(g)
               \/ RecordFailed(g)
        PROVE  /\ attempts' = attempts
               /\ \A h \in Goroutines :
                     phase'[h] = "claimed" => phase[h] = "claimed" /\ held'[h] = held[h]
    BY <2>3 DEF FetchQuote, LoadAlerts, ClaimMissed, ClaimFailed, Skip, PushUnlinked, Record,
       RecordFailed, Resume, effects, TypeOK, WorkersType
  <2>4. ASSUME NEW gs \in SUBSET Goroutines, Reset(gs)
        PROVE  /\ attempts' = attempts
               /\ \A h \in Goroutines :
                     phase'[h] = "claimed" => phase[h] = "claimed" /\ held'[h] = held[h]
    BY <2>4 DEF Reset, effects
  <2>5. ASSUME NEW g \in Goroutines, Finish(g) \/ LoadFailed(g)
        PROVE  AttemptInv'
    BY <2>4, <2>5, QuietStep DEF Finish, LoadFailed
  <2>6. ASSUME NEW replica \in Replicas, Stop(replica)
        PROVE  AttemptInv'
    BY <2>4, <2>6, QuietStep DEF Stop
  <2> QED
    BY <1>2, <2>1, <2>2, <2>3, <2>5, <2>6, QuietStep DEF WorkerStep, GoroutineStep
<1> QED
  BY <1>1, <1>2 DEF Next, vars

\* LINE is called at most once per arming of an alert, for any number of replicas,
\* requests and administrators and with every failure the model has.
THEOREM NotifiedAtMostOnce == Spec => []AtMostOneAttempt
<1>1. Init => AttemptInv
  BY DEF Init, WorkersInit, AttemptInv
<1>2. TypeOK /\ AttemptInv /\ [Next]_vars => AttemptInv'
  BY AttemptInvStep
<1>3. AttemptInv => AtMostOneAttempt
  BY DEF AttemptInv, AtMostOneAttempt
<1> QED
  BY <1>1, <1>2, <1>3, TypeCorrect, PTL DEF Spec

-----------------------------------------------------------------------------
(* Creating alerts and deactivating stocks exclude each other.             *)

\* A creation past its upsert owns the lock of a stock that is not DISABLED, and
\* while a deactivation owns it, every alert created on the stock and still in its
\* first arming is one of those the deactivation is about to disable.
StockInv ==
    /\ \A q \in Requests :
          step[q] = "upserted" =>
            /\ stockLock[seen[q].stock] = "create"
            /\ stockStatus[seen[q].stock] # "DISABLED"
    /\ \A q, r \in Requests :
          step[q] = "upserted" /\ step[r] = "upserted" /\ q # r
            => seen[q].stock # seen[r].stock
    /\ \A a \in AlertIds :
          Active(a) /\ armings[a] = 1 =>
            /\ stockStatus[row[a].stock] = "ACTIVE"
            /\ stockLock[row[a].stock] = "admin" => a \in frozen

\* The statements of everybody but a creation.
OtherStatement ==
    \/ \E a \in AlertIds : \/ \E c \in Conditions, t \in Targets : Update(a, c, t)
                           \/ Delete(a) \/ Rearm(a) \/ ClaimTriggered(a) \/ DisableAlert(a)
    \/ \E s \in Stocks : \/ BeginDisableStock(s) \/ CommitDisableStock(s)
                         \/ RollbackDisableStock(s) \/ EnableStock(s)
    \/ \E u \in Users : SetUserStatus(u)
    \/ UNCHANGED tables

\* The stocks' side of StockInv survives the others' statements.
LEMMA OtherStatementStep ==
    ASSUME TypeOK, StockInv, OtherStatement,
           \A q \in Requests : step'[q] = "upserted" => step[q] = "upserted" /\ seen'[q] = seen[q]
    PROVE  StockInv'
<1> USE DEF TypeOK
<1>1. \A a \in AlertIds : Active(a) => row[a] \in Rows /\ row[a].stock \in Stocks
  BY DEF TablesType, Active, Rows
<1>2. \A q \in Requests : step[q] = "upserted" => seen[q].stock \in Stocks
  BY DEF RequestsType, Rows
<1>3. ASSUME NEW a \in AlertIds, NEW c \in Conditions, NEW t \in Targets, Update(a, c, t)
      PROVE  StockInv'
  <2>1. Active(a) => [row[a] EXCEPT !.condition = c, !.target = t].stock = row[a].stock
    BY <1>1 DEF Rows
  <2>2. \A b \in AlertIds : Active(b) => row'[b].stock = row[b].stock
    BY <1>3, <2>1 DEF Update, TablesType
  <2> QED
    BY <1>3, <2>2 DEF Update, OnlyAlertsChange, StockInv, Active
<1>4. ASSUME NEW a \in AlertIds, Delete(a) \/ Rearm(a) \/ ClaimTriggered(a) \/ DisableAlert(a)
      PROVE  StockInv'
  <2>1. ASSUME NEW b \in AlertIds, Active(b)', armings'[b] = 1
        PROVE  Active(b) /\ armings[b] = 1 /\ row'[b] = row[b]
    BY <1>4, <2>1 DEF Delete, Rearm, ClaimTriggered, DisableAlert, TablesType, Active
  <2>2. UNCHANGED <<stockStatus, stockLock, frozen>>
    BY <1>4 DEF Delete, Rearm, ClaimTriggered, DisableAlert, OnlyAlertsChange
  <2> QED
    BY <2>1, <2>2 DEF StockInv
<1>5. ASSUME NEW s \in Stocks, BeginDisableStock(s)
      PROVE  StockInv'
  BY <1>1, <1>2, <1>5 DEF BeginDisableStock, ActiveOn, StockInv, TablesType, Active
<1>6. ASSUME NEW s \in Stocks, CommitDisableStock(s)
      PROVE  StockInv'
  <2>1. ASSUME NEW b \in AlertIds, Active(b)', armings'[b] = 1
        PROVE  Active(b) /\ armings[b] = 1 /\ row[b].stock # s
    BY <1>6, <2>1 DEF CommitDisableStock, FrozenOn, StockInv, TablesType, Active
  <2>2. \A b \in AlertIds : b \in frozen /\ row[b].stock # s => b \in frozen'
    BY <1>6 DEF CommitDisableStock, FrozenOn
  <2> QED
    BY <1>1, <1>2, <1>6, <2>1, <2>2 DEF CommitDisableStock, StockInv, TablesType
<1>7. ASSUME NEW s \in Stocks, RollbackDisableStock(s)
      PROVE  StockInv'
  BY <1>1, <1>2, <1>7 DEF RollbackDisableStock, FrozenOn, StockInv, TablesType, Active
<1>8. ASSUME NEW s \in Stocks, EnableStock(s)
      PROVE  StockInv'
  BY <1>1, <1>2, <1>8 DEF EnableStock, StockInv, TablesType, Active
<1>9. ASSUME UNCHANGED tables \/ \E u \in Users : SetUserStatus(u)
      PROVE  StockInv'
  BY <1>9 DEF tables, SetUserStatus, StockInv, Active
<1> QED
  BY <1>3, <1>4, <1>5, <1>6, <1>7, <1>8, <1>9 DEF OtherStatement

\* The steps of a creation, one by one.
LEMMA CreationStep ==
    ASSUME TypeOK, StockInv, NEW q \in Requests,
           \/ CreateUpsert(q)
           \/ \E a \in AlertIds : CreateInsert(q, a)
           \/ step[q] = "upserted" /\ Abort(q)
    PROVE  StockInv'
<1> USE DEF TypeOK
<1>1. \A a \in AlertIds : Active(a) => row[a].stock \in Stocks
  BY DEF TablesType, Active, Rows
<1>2. \A r \in Requests : step[r] \in {"create", "upserted"} => seen[r].stock \in Stocks
  BY DEF RequestsType, Rows
<1>3. CASE CreateUpsert(q)
  BY <1>1, <1>2, <1>3 DEF CreateUpsert, UpsertStock, StockInv, TablesType, RequestsType, Active
<1>4. ASSUME NEW a \in AlertIds, CreateInsert(q, a)
      PROVE  StockInv'
  <2>1. /\ step[q] = "upserted" /\ InsertAlert(a, seen[q])
        /\ seen[q].stock \in Stocks
        /\ stockLock[seen[q].stock] = "create"
        /\ stockStatus[seen[q].stock] # "DISABLED"
    BY <1>2, <1>4 DEF CreateInsert, StockInv
  <2>2. \A r \in Requests : step'[r] = "upserted" =>
          r # q /\ step[r] = "upserted" /\ seen'[r] = seen[r] /\ seen[r].stock # seen[q].stock
    BY <1>4, <2>1 DEF CreateInsert, Clear, RequestsType, StockInv
  <2>3. \A s \in Stocks : s # seen[q].stock =>
          stockStatus'[s] = stockStatus[s] /\ stockLock'[s] = stockLock[s]
    BY <2>1 DEF InsertAlert, TablesType
  <2>4. stockStatus'[seen[q].stock] = "ACTIVE" /\ stockLock'[seen[q].stock] = "free"
    BY <2>1 DEF InsertAlert, TablesType
  <2>5. ASSUME NEW b \in AlertIds, Active(b)', armings'[b] = 1
        PROVE  /\ stockStatus'[row'[b].stock] = "ACTIVE"
               /\ stockLock'[row'[b].stock] = "admin" => b \in frozen'
    <3>1. CASE b = a
      BY <2>1, <2>4, <3>1 DEF InsertAlert, TablesType
    <3>2. CASE b # a
      <4>1. Active(b) /\ armings[b] = 1 /\ row'[b] = row[b] /\ frozen' = frozen
        BY <2>1, <2>5, <3>2 DEF InsertAlert, TablesType, Active
      <4> QED
        BY <1>1, <2>3, <2>4, <4>1 DEF StockInv
    <3> QED
      BY <3>1, <3>2
  <2>6. \A r \in Requests : step'[r] = "upserted" =>
          /\ stockLock'[seen'[r].stock] = "create"
          /\ stockStatus'[seen'[r].stock] # "DISABLED"
    BY <1>2, <2>2, <2>3 DEF StockInv
  <2>7. \A r, t \in Requests : step'[r] = "upserted" /\ step'[t] = "upserted" /\ r # t
          => seen'[r].stock # seen'[t].stock
    BY <2>2 DEF StockInv
  <2> QED
    BY <2>5, <2>6, <2>7 DEF StockInv
<1>5. CASE step[q] = "upserted" /\ Abort(q)
  <2>1. /\ seen[q].stock \in Stocks
        /\ stockLock' = [stockLock EXCEPT ![seen[q].stock] = "free"]
        /\ UNCHANGED <<row, status, armings, stockStatus, frozen>>
    BY <1>2, <1>5 DEF Abort, RollbackCreate
  <2>2. \A r \in Requests : step'[r] = "upserted" =>
          step[r] = "upserted" /\ seen'[r] = seen[r] /\ seen[r].stock # seen[q].stock
    BY <1>5 DEF Abort, Clear, RequestsType, StockInv
  <2> QED
    BY <1>1, <1>2, <2>1, <2>2 DEF StockInv, TablesType, Active
<1> QED
  BY <1>3, <1>4, <1>5

\* StockInv is inductive relative to TypeOK.
LEMMA StockInvStep ==
    ASSUME TypeOK, StockInv, [Next]_vars
    PROVE  StockInv'
<1> DEFINE Calm == \A q \in Requests :
                     step'[q] = "upserted" => step[q] = "upserted" /\ seen'[q] = seen[q]
<1>1. CASE RequestStep
  <2>1. ASSUME NEW q \in Requests,
               \/ \E r \in Rows : CreateCount(q, r)
               \/ \E a \in AlertIds : RearmLoad(q, a)
               \/ RearmCount(q)
               \/ \E p \in Prices : RearmQuote(q, p)
               \/ RearmStore(q)
               \/ step[q] # "upserted" /\ Abort(q)
        PROVE  Calm /\ OtherStatement
    <3>1. Calm
      BY <2>1 DEF CreateCount, RearmLoad, RearmCount, RearmQuote, RearmStore, Abort, Clear,
         TypeOK, RequestsType
    <3>2. step[q] = "quoted" => subject[q] \in AlertIds
      BY DEF TypeOK, RequestsType
    <3> QED
      BY <2>1, <3>1, <3>2 DEF OtherStatement, CreateCount, RearmLoad, RearmCount, RearmQuote,
         RearmStore, Abort
  <2>2. ASSUME NEW a \in AlertIds, UNCHANGED requests,
               (\E c \in Conditions, t \in Targets : Update(a, c, t)) \/ Delete(a)
        PROVE  Calm /\ OtherStatement
    BY <2>2 DEF OtherStatement, requests
  <2> QED
    BY <1>1, <2>1, <2>2, CreationStep, OtherStatementStep DEF RequestStep
<1>2. CASE WorkerStep /\ UNCHANGED requests
  BY <1>2, WorkerOnTables, OtherStatementStep DEF OtherStatement, requests
<1>3. CASE AdminStep /\ UNCHANGED requests
  BY <1>3, OtherStatementStep DEF AdminStep, OtherStatement, requests
<1>4. CASE UNCHANGED vars
  BY <1>4, OtherStatementStep DEF OtherStatement, vars, requests
<1> QED
  BY <1>1, <1>2, <1>3, <1>4 DEF Next

\* No alert is created on a DISABLED stock, and none created on it is left ACTIVE
\* when it is disabled: the upsert's lock makes the two transactions serial.
THEOREM CreationRespectsStock == Spec => []CreatedOnActiveStock
<1>1. Init => StockInv
  BY DEF Init, TablesInit, RequestsInit, StockInv, Active
<1>2. TypeOK /\ StockInv /\ [Next]_vars => StockInv'
  BY StockInvStep
<1>3. StockInv => CreatedOnActiveStock
  BY DEF StockInv, CreatedOnActiveStock
<1> QED
  BY <1>1, <1>2, <1>3, TypeCorrect, PTL DEF Spec

-----------------------------------------------------------------------------
(* The system implements NotifyOnce.                                       *)

Stages == {"none", "armed", "owed", "attempted", "closed"}

\* What is owed or attempted is spent, hence neither ahead nor ACTIVE.
LEMMA OwedIsSpent ==
    ASSUME TypeOK, AttemptInv, NEW e \in Armings, Owed(e) \/ attempts[e] > 0
    PROVE  Spent(e) /\ (Owed(e) => attempts[e] = 0)
BY DEF Owed, AttemptInv, TypeOK, WorkersType

\* A spent arming is never "none" or "armed".
LEMMA SpentStage ==
    ASSUME TypeOK, NEW e \in Armings, Spent(e)
    PROVE  StageOf(e) = IF attempts[e] > 0 THEN "attempted"
                        ELSE IF Owed(e) THEN "owed" ELSE "closed"
<1>1. e[1] \in AlertIds /\ e[2] \in Nat /\ armings[e[1]] \in Nat
  BY DEF Armings, TypeOK, TablesType
<1> QED
  BY <1>1 DEF StageOf, Spent

\* A step that arms nothing, attempts nothing and claims nothing can only close.
LEMMA ClosingStep ==
    ASSUME TypeOK, AttemptInv, TypeOK', [Next]_vars,
           armings' = armings, attempts' = attempts,
           \A a \in AlertIds : Active(a)' => Active(a),
           \A e \in Armings : Owed(e)' => Owed(e)
    PROVE  \E es \in SUBSET Armings : Abstract!Close(es)
<1> DEFINE es == {e \in Armings : StageOf(e)' # StageOf(e)}
<1>1. ASSUME NEW e \in Armings, StageOf(e)' # StageOf(e)
      PROVE  StageOf(e) \in {"armed", "owed"} /\ StageOf(e)' = "closed"
  <2>1. e[1] \in AlertIds /\ e[2] \in Nat /\ armings[e[1]] \in Nat
    BY DEF Armings, TypeOK, TablesType
  <2>2. CASE Spent(e)
    <3>1. Spent(e)'
      BY <2>2, SpentIsStable
    <3>2. StageOf(e)' = IF attempts'[e] > 0 THEN "attempted"
                        ELSE IF Owed(e)' THEN "owed" ELSE "closed"
      BY <2>1, <3>1 DEF StageOf, Spent
    <3> QED
      BY <1>1, <2>2, <3>2, SpentStage
  <2>3. CASE ~Spent(e)
    <3>1. ~Owed(e) /\ ~(attempts[e] > 0) /\ ~Owed(e)'
      BY <2>3, OwedIsSpent
    <3> QED
      BY <1>1, <2>1, <3>1 DEF StageOf
  <2> QED
    BY <2>2, <2>3
<1>2. Abstract!Close(es)
  BY <1>1 DEF Abstract!Close
<1> QED
  BY <1>2

\* A creation or a re-arming arms one new arming and touches no other.
LEMMA ArmingStep ==
    ASSUME TypeOK, AttemptInv, TypeOK', [Next]_vars, UNCHANGED workers, NEW a \in AlertIds,
           (\E r \in Rows : InsertAlert(a, r)) \/ Rearm(a)
    PROVE  \E e \in Armings : Abstract!Arm(e)
<1>1. /\ armings[a] \in Nat /\ armings'[a] = armings[a] + 1 /\ armings'[a] \in 1 .. MaxArmings
      /\ ~Active(a) /\ Active(a)'
      /\ \A b \in AlertIds \ {a} : armings'[b] = armings[b] /\ Active(b)' = Active(b)
  BY ArmingBound DEF InsertAlert, Rearm, TypeOK, TablesType, Active
<1>2. \A e \in Armings : attempts'[e] = attempts[e] /\ Owed(e)' = Owed(e)
  BY DEF workers, Owed
<1>3. PICK e \in Armings : e = <<a, armings'[a]>>
  BY <1>1 DEF Armings
<1>4. e[1] = a /\ e[2] = armings[a] + 1
  BY <1>1, <1>3
<1>5. StageOf(e) = "none" /\ StageOf(e)' = "armed"
  <2>1. ~Spent(e)
    BY <1>1, <1>4 DEF Spent
  <2>2. ~Owed(e) /\ ~(attempts[e] > 0)
    BY <2>1, OwedIsSpent
  <2> QED
    BY <1>1, <1>2, <1>4, <2>2 DEF StageOf
<1>6. ASSUME NEW f \in Armings, f # e
      PROVE  StageOf(f)' = StageOf(f)
  <2>1. /\ f[1] \in AlertIds /\ f[2] \in Nat /\ armings[f[1]] \in Nat
        /\ f[1] = a => f[2] # armings[a] + 1
    BY <1>3, <1>4, <1>6 DEF Armings, TypeOK, TablesType
  <2>2. CASE f[1] = a
    BY <1>1, <1>2, <2>1, <2>2 DEF StageOf
  <2>3. CASE f[1] # a
    BY <1>1, <1>2, <2>1, <2>3 DEF StageOf
  <2> QED
    BY <2>2, <2>3
<1>7. Abstract!Arm(e)
  BY <1>5, <1>6 DEF Abstract!Arm
<1> QED
  BY <1>7

\* A claim triggers the arming it stamps on the job.
LEMMA ClaimIsTrigger ==
    ASSUME TypeOK, AttemptInv, TypeOK', AttemptInv', [Next]_vars,
           NEW g \in Goroutines, NEW j \in Jobs, Claim(g, j)
    PROVE  \E e \in Armings : Abstract!Trigger(e)
<1> DEFINE a == j.alert
<1>1. /\ a \in AlertIds /\ armings[a] \in 1 .. MaxArmings
      /\ [j EXCEPT !.arming = armings[j.alert]] \in Jobs
      /\ Arming([j EXCEPT !.arming = armings[j.alert]]) = <<a, armings[a]>>
  BY ClaimedJob DEF TypeOK, Claim, ClaimTriggered
<1>2. PICK e \in Armings : e = <<a, armings[a]>>
  BY <1>1 DEF Armings
<1>3. /\ Active(a) /\ ~Active(a)' /\ armings' = armings /\ attempts' = attempts
      /\ \A b \in AlertIds \ {a} : Active(b)' = Active(b)
  BY <1>1 DEF Claim, ClaimTriggered, effects, Active, TypeOK, TablesType
<1>4. /\ phase[g] = "scanning" /\ phase'[g] = "claimed" /\ Arming(held'[g]) = e
      /\ \A h \in Goroutines \ {g} : phase'[h] = phase[h] /\ held'[h] = held[h]
  BY <1>1, <1>2 DEF Claim, TypeOK, WorkersType
<1>5. Owed(e)' /\ \A f \in Armings \ {e} : Owed(f)' = Owed(f)
  BY <1>4 DEF Owed, Arming
<1>6. StageOf(e) = "armed" /\ StageOf(e)' = "owed"
  <2>1. ~Spent(e)
    BY <1>1, <1>2, <1>3 DEF Spent
  <2>2. ~Owed(e) /\ ~(attempts[e] > 0)
    BY <2>1, OwedIsSpent
  <2> QED
    BY <1>1, <1>2, <1>3, <1>5, <2>2 DEF StageOf
<1>7. ASSUME NEW f \in Armings, f # e
      PROVE  StageOf(f)' = StageOf(f)
  <2>1. /\ f[1] \in AlertIds /\ f[2] \in Nat /\ armings[f[1]] \in Nat
        /\ f[1] = a => f[2] # armings[a]
    BY <1>2, <1>7 DEF Armings, TypeOK, TablesType
  <2> QED
    BY <1>3, <1>5, <1>7, <2>1 DEF StageOf
<1>8. Abstract!Trigger(e)
  BY <1>6, <1>7 DEF Abstract!Trigger
<1> QED
  BY <1>8

\* A call of PushText is the attempt for the arming held.
LEMMA PushIsAttempt ==
    ASSUME TypeOK, AttemptInv, TypeOK', [Next]_vars, NEW g \in Goroutines, PushLine(g)
    PROVE  \E e \in Armings : Abstract!Attempt(e)
<1>1. PICK e \in Armings : e = Arming(held[g])
  BY HeldArming DEF TypeOK, PushLine
<1>2. /\ phase[g] = "claimed" /\ attempts[e] = 0
      /\ attempts' = [attempts EXCEPT ![e] = 1]
      /\ attempts \in [Armings -> Nat]
  <2>1. phase[g] = "claimed" /\ attempts' = [attempts EXCEPT ![e] = attempts[e] + 1]
    BY <1>1 DEF PushLine
  <2>2. attempts[e] = 0
    BY <1>1, <2>1 DEF AttemptInv
  <2> QED
    BY <2>1, <2>2 DEF TypeOK, WorkersType
<1>3. /\ phase'[g] # "claimed" /\ held' = held
      /\ \A h \in Goroutines \ {g} : phase'[h] = phase[h]
      /\ UNCHANGED tables
  BY DEF PushLine, TypeOK, WorkersType
<1>4. Owed(e) /\ StageOf(e) = "owed" /\ StageOf(e)' = "attempted"
  BY <1>1, <1>2 DEF Owed, StageOf
<1>5. ASSUME NEW f \in Armings, f # e
      PROVE  StageOf(f)' = StageOf(f)
  <2>1. Owed(f)' = Owed(f)
    BY <1>1, <1>3, <1>5 DEF Owed, Arming
  <2>2. attempts'[f] = attempts[f]
    BY <1>2, <1>5
  <2> QED
    BY <1>3, <2>1, <2>2 DEF StageOf, tables, Active
<1>6. Abstract!Attempt(e)
  BY <1>4, <1>5 DEF Abstract!Attempt
<1> QED
  BY <1>6

\* Every step of the system is a step of NotifyOnce or leaves its stages alone.
LEMMA NotifyOnceStep ==
    ASSUME TypeOK, AttemptInv, [Next]_vars
    PROVE  Abstract!Next
<1> USE DEF Abstract!Next
<1>1. TypeOK' /\ AttemptInv'
  BY TypeStep, AttemptInvStep
<1>2. ASSUME UNCHANGED workers, TablesNext \/ UNCHANGED tables,
             ~\E a \in AlertIds : (\E r \in Rows : InsertAlert(a, r)) \/ Rearm(a)
      PROVE  Abstract!Next
  <2>1. armings' = armings /\ \A a \in AlertIds : Active(a)' => Active(a)
    <3>1. ASSUME NEW a \in AlertIds, AlertStatement(a)
          PROVE  armings' = armings /\ \A b \in AlertIds : Active(b)' => Active(b)
      <4>1. CASE Delete(a) \/ ClaimTriggered(a) \/ DisableAlert(a)
        BY <4>1 DEF Delete, ClaimTriggered, DisableAlert, Active, TypeOK, TablesType
      <4>2. CASE \E c \in Conditions, t \in Targets : Update(a, c, t)
        BY <4>2 DEF Update, Active
      <4> QED
        BY <1>2, <3>1, <4>1, <4>2 DEF AlertStatement
    <3>2. ASSUME NEW s \in Stocks, StockStatement(s)
          PROVE  armings' = armings /\ \A b \in AlertIds : Active(b)' => Active(b)
      BY <3>2 DEF StockStatement, UpsertStock, RollbackCreate, BeginDisableStock,
         CommitDisableStock, RollbackDisableStock, EnableStock, Active
    <3> QED
      BY <1>2, <3>1, <3>2 DEF TablesNext, SetUserStatus, tables, Active
  <2>2. attempts' = attempts /\ \A e \in Armings : Owed(e)' => Owed(e)
    BY <1>2 DEF workers, Owed
  <2> QED
    BY <1>1, <2>1, <2>2, ClosingStep
<1>3. CASE UNCHANGED workers
  BY <1>1, <1>2, <1>3, StepOnTables, ArmingStep DEF TypeOK
<1>4. CASE WorkerStep
  <2>1. ASSUME NEW g \in Goroutines, NEW j \in Jobs, Claim(g, j)
        PROVE  Abstract!Next
    BY <1>1, <2>1, ClaimIsTrigger
  <2>2. ASSUME NEW g \in Goroutines, PushLine(g)
        PROVE  Abstract!Next
    BY <1>1, <2>2, PushIsAttempt
  <2>3. armings' = armings /\ \A a \in AlertIds : Active(a)' => Active(a)
    BY <1>4, WorkerOnTables DEF ClaimTriggered, tables, Active, TypeOK, TablesType
  <2>4. ASSUME attempts' = attempts,
               \A h \in Goroutines :
                  phase'[h] = "claimed" => phase[h] = "claimed" /\ held'[h] = held[h]
        PROVE  Abstract!Next
    <3>1. \A e \in Armings : Owed(e)' => Owed(e)
      BY <2>4 DEF Owed, Arming
    <3> QED
      BY <1>1, <2>3, <2>4, <3>1, ClosingStep
  <2>5. ASSUME NEW g \in Goroutines,
               \/ \E p \in Prices : FetchQuote(g, p)
               \/ LoadAlerts(g)
               \/ \E j \in Jobs : ClaimMissed(g, j) \/ ClaimFailed(g, j)
               \/ PushUnlinked(g)
               \/ Record(g)
               \/ RecordFailed(g)
        PROVE  /\ attempts' = attempts
               /\ \A h \in Goroutines :
                     phase'[h] = "claimed" => phase[h] = "claimed" /\ held'[h] = held[h]
    BY <2>5 DEF FetchQuote, LoadAlerts, ClaimMissed, ClaimFailed, Skip, PushUnlinked, Record,
       RecordFailed, Resume, effects, TypeOK, WorkersType
  <2>6. ASSUME NEW gs \in SUBSET Goroutines, Reset(gs)
        PROVE  Abstract!Next
    BY <2>4, <2>6 DEF Reset, effects
  <2> QED
    BY <1>4, <2>1, <2>2, <2>4, <2>5, <2>6 DEF WorkerStep, GoroutineStep, Finish, LoadFailed, Stop
<1> QED
  BY <1>3, <1>4 DEF Next, vars

\* The alert system implements NotifyOnce: each arming is triggered before it is
\* notified, notified at most once, and never after it was closed.
THEOREM SystemImplementsNotifyOnce == Spec => ImplementsNotifyOnce
<1>1. Init => Abstract!Init
  <2> SUFFICES ASSUME Init PROVE Abstract!Init
    OBVIOUS
  <2>1. ASSUME NEW e \in Armings
        PROVE  StageOf(e) = "none"
    <3>1. e[1] \in AlertIds /\ e[2] > 0 /\ armings[e[1]] = 0 /\ attempts[e] = 0 /\ ~Owed(e)
      BY DEF Armings, Init, TablesInit, WorkersInit, Owed
    <3> QED
      BY <3>1 DEF StageOf
  <2> QED
    BY <2>1 DEF Abstract!Init
<1>2. TypeOK /\ AttemptInv /\ [Next]_vars => Abstract!Next
  BY NotifyOnceStep
<1>3. Init => AttemptInv
  BY DEF Init, WorkersInit, AttemptInv
<1>4. TypeOK /\ AttemptInv /\ [Next]_vars => AttemptInv'
  BY AttemptInvStep
<1> QED
  BY <1>1, <1>2, <1>3, <1>4, TypeCorrect, PTL DEF Spec, ImplementsNotifyOnce, Abstract!Spec

-----------------------------------------------------------------------------
(* How far the active-alert limit can be exceeded.                         *)

\* Requests of a user that have passed the count and may still add an alert.
PassedOf(u) ==
    {q \in Requests : /\ step[q] \in {"create", "upserted", "counted", "quoted"}
                      /\ seen[q].user = u}

\* A request that passed the count stands for an alert it may add, and a count lets
\* at most Limit - 1 alerts by; the alert of a re-arming keeps its owner.
LimitInv ==
    /\ \A u \in Users :
          /\ IsFiniteSet(ActiveOf(u))
          /\ Cardinality(ActiveOf(u)) + Cardinality(PassedOf(u))
               <= Limit + Cardinality(Requests) - 1
    /\ \A q \in Requests :
          step[q] \in {"loaded", "counted", "quoted"} =>
            /\ armings[subject[q]] > 0
            /\ status[subject[q]] # "absent" => row[subject[q]].user = seen[q].user

\* PassedOf is finite, and so is its cardinality a number.
LEMMA PassedIsFinite ==
    ASSUME NEW u
    PROVE  /\ IsFiniteSet(PassedOf(u))
           /\ Cardinality(PassedOf(u)) \in Nat
           /\ Cardinality(PassedOf(u)) <= Cardinality(Requests)
           /\ Cardinality(Requests) \in Nat
<1>1. PassedOf(u) \in SUBSET Requests
  BY DEF PassedOf
<1> QED
  BY <1>1, RequestsAreFinite, FS_Subset, FS_CardinalityType

\* What one request does to the counts of a user is one of three things.
LEMMA CountsStep ==
    ASSUME NEW u \in Users,
           IsFiniteSet(ActiveOf(u)),
           Cardinality(ActiveOf(u)) + Cardinality(PassedOf(u)) <= Limit + Cardinality(Requests) - 1,
           \/ ActiveOf(u)' \subseteq ActiveOf(u) /\ PassedOf(u)' \subseteq PassedOf(u)
           \/ ActiveOf(u)' = ActiveOf(u) /\ CountActive(u) < Limit
           \/ \E a, q : /\ ActiveOf(u)' = ActiveOf(u) \cup {a}
                         /\ q \in PassedOf(u)
                         /\ PassedOf(u)' = PassedOf(u) \ {q}
    PROVE  /\ IsFiniteSet(ActiveOf(u))'
           /\ Cardinality(ActiveOf(u)') + Cardinality(PassedOf(u)')
                <= Limit + Cardinality(Requests) - 1
<1>1. /\ Limit \in Nat
      /\ Cardinality(Requests) \in Nat
      /\ Cardinality(ActiveOf(u)) \in Nat
      /\ IsFiniteSet(PassedOf(u)) /\ Cardinality(PassedOf(u)) \in Nat
  BY LimitIsPositive, RequestsAreFinite, PassedIsFinite, FS_CardinalityType
<1>2. CASE ActiveOf(u)' \subseteq ActiveOf(u) /\ PassedOf(u)' \subseteq PassedOf(u)
  <2>1. /\ IsFiniteSet(ActiveOf(u)')
        /\ Cardinality(ActiveOf(u)') <= Cardinality(ActiveOf(u))
        /\ Cardinality(ActiveOf(u)') \in Nat
    BY <1>2, FS_Subset, FS_CardinalityType
  <2>2. /\ Cardinality(PassedOf(u)') <= Cardinality(PassedOf(u))
        /\ Cardinality(PassedOf(u)') \in Nat
    BY <1>1, <1>2, FS_Subset, FS_CardinalityType
  <2> QED
    BY <1>1, <2>1, <2>2
<1>3. CASE ActiveOf(u)' = ActiveOf(u) /\ CountActive(u) < Limit
  <2>1. PassedOf(u)' \in SUBSET Requests
    BY DEF PassedOf
  <2>2. /\ Cardinality(PassedOf(u)') <= Cardinality(Requests)
        /\ Cardinality(PassedOf(u)') \in Nat
    BY <2>1, RequestsAreFinite, FS_Subset, FS_CardinalityType
  <2>3. Cardinality(ActiveOf(u)) < Limit
    BY <1>3 DEF CountActive
  <2> QED
    BY <1>1, <1>3, <2>2, <2>3
<1>4. ASSUME NEW a, NEW q,
             ActiveOf(u)' = ActiveOf(u) \cup {a},
             q \in PassedOf(u),
             PassedOf(u)' = PassedOf(u) \ {q}
      PROVE  /\ IsFiniteSet(ActiveOf(u)')
             /\ Cardinality(ActiveOf(u)') + Cardinality(PassedOf(u)')
                  <= Limit + Cardinality(Requests) - 1
  <2>1. /\ IsFiniteSet(ActiveOf(u)')
        /\ Cardinality(ActiveOf(u)') <= Cardinality(ActiveOf(u)) + 1
        /\ Cardinality(ActiveOf(u)') \in Nat
    <3>1. /\ IsFiniteSet(ActiveOf(u) \cup {a})
          /\ \/ Cardinality(ActiveOf(u) \cup {a}) = Cardinality(ActiveOf(u))
             \/ Cardinality(ActiveOf(u) \cup {a}) = Cardinality(ActiveOf(u)) + 1
      BY FS_AddElement
    <3> QED
      BY <1>1, <1>4, <3>1
  <2>2. Cardinality(PassedOf(u)') = Cardinality(PassedOf(u)) - 1
    BY <1>1, <1>4, FS_RemoveElement
  <2> QED
    BY <1>1, <2>1, <2>2
<1> QED
  BY <1>2, <1>3, <1>4

\* A statement other than a creation's insert or a re-arming adds no ACTIVE alert,
\* and no statement changes the owner of a stored alert.
LEMMA OwnersStay ==
    ASSUME TablesType, TablesNext \/ UNCHANGED tables
    PROVE  /\ \A a \in AlertIds :
                 status'[a] # "absent" /\ armings[a] > 0 =>
                   status[a] # "absent" /\ row'[a].user = row[a].user
           /\ \A a \in AlertIds : armings[a] > 0 => armings'[a] > 0
<1> DEFINE P == /\ \A a \in AlertIds :
                     status'[a] # "absent" /\ armings[a] > 0 =>
                       status[a] # "absent" /\ row'[a].user = row[a].user
                /\ \A a \in AlertIds : armings[a] > 0 => armings'[a] > 0
<1>1. ASSUME NEW b \in AlertIds, NEW r \in Rows, InsertAlert(b, r)
      PROVE  P
  BY <1>1 DEF InsertAlert, TablesType
<1>2. ASSUME NEW b \in AlertIds, NEW c \in Conditions, NEW t \in Targets, Update(b, c, t)
      PROVE  P
  <2>1. [row[b] EXCEPT !.condition = c, !.target = t].user = row[b].user
    BY <1>2 DEF Update, TablesType, Rows
  <2> QED
    BY <1>2, <2>1 DEF Update, TablesType
<1>3. ASSUME NEW b \in AlertIds, Delete(b) \/ Rearm(b) \/ ClaimTriggered(b) \/ DisableAlert(b)
      PROVE  P
  <2>1. CASE Rearm(b)
    BY <2>1 DEF Rearm, TablesType
  <2>2. CASE Delete(b) \/ ClaimTriggered(b) \/ DisableAlert(b)
    BY <2>2 DEF Delete, ClaimTriggered, DisableAlert, Active, TablesType
  <2> QED
    BY <1>3, <2>1, <2>2
<1>4. ASSUME NEW s \in Stocks, StockStatement(s)
      PROVE  P
  <2>1. CASE CommitDisableStock(s)
    BY <2>1 DEF CommitDisableStock, FrozenOn, TablesType, Active
  <2>2. CASE ~CommitDisableStock(s)
    BY <1>4, <2>2 DEF StockStatement, UpsertStock, RollbackCreate, BeginDisableStock,
       RollbackDisableStock, EnableStock
  <2> QED
    BY <2>1, <2>2
<1>5. CASE UNCHANGED tables \/ \E u \in Users : SetUserStatus(u)
  BY <1>5 DEF tables, SetUserStatus
<1> QED
  BY <1>1, <1>2, <1>3, <1>4, <1>5 DEF TablesNext, AlertStatement

\* The statements that make no alert ACTIVE.
QuietStatement ==
    \/ \E a \in AlertIds : \/ \E c \in Conditions, t \in Targets : Update(a, c, t)
                           \/ Delete(a) \/ ClaimTriggered(a) \/ DisableAlert(a)
    \/ \E s \in Stocks : StockStatement(s)
    \/ \E u \in Users : SetUserStatus(u)
    \/ UNCHANGED tables

\* Without insert or re-arming, the ACTIVE alerts of a user can only get fewer.
LEMMA NoNewActive ==
    ASSUME TablesType, QuietStatement, NEW u \in Users
    PROVE  ActiveOf(u)' \subseteq ActiveOf(u)
<1>1. QuietStatement => TablesNext \/ UNCHANGED tables
  BY DEF QuietStatement, TablesNext, AlertStatement
<1>2. \A a \in AlertIds : Active(a)' => Active(a)
  <2>1. ASSUME NEW b \in AlertIds, Delete(b) \/ ClaimTriggered(b) \/ DisableAlert(b)
        PROVE  \A a \in AlertIds : Active(a)' => Active(a)
    BY <2>1 DEF Delete, ClaimTriggered, DisableAlert, Active, TablesType
  <2>2. ASSUME NEW b \in AlertIds, NEW c \in Conditions, NEW t \in Targets, Update(b, c, t)
        PROVE  \A a \in AlertIds : Active(a)' => Active(a)
    BY <2>2 DEF Update, Active
  <2>3. ASSUME NEW s \in Stocks, StockStatement(s)
        PROVE  \A a \in AlertIds : Active(a)' => Active(a)
    BY <2>3 DEF StockStatement, UpsertStock, RollbackCreate, BeginDisableStock,
       CommitDisableStock, RollbackDisableStock, EnableStock, Active
  <2>4. CASE UNCHANGED tables \/ \E v \in Users : SetUserStatus(v)
    BY <2>4 DEF tables, SetUserStatus, Active
  <2> QED
    BY <2>1, <2>2, <2>3, <2>4 DEF QuietStatement
<1>3. \A a \in AlertIds : Active(a)' => row'[a].user = row[a].user
  BY <1>1, <1>2, OwnersStay DEF Active, TablesType
<1> QED
  BY <1>2, <1>3 DEF ActiveOf

\* The half of LimitInv about the counts.
CountsHold(u) ==
    /\ IsFiniteSet(ActiveOf(u))
    /\ Cardinality(ActiveOf(u)) + Cardinality(PassedOf(u)) <= Limit + Cardinality(Requests) - 1

\* Who executes a quiet statement and lets no new request pass keeps the counts.
LEMMA QuietCounts ==
    ASSUME TablesType, QuietStatement, NEW u \in Users, CountsHold(u),
           PassedOf(u)' \subseteq PassedOf(u)
    PROVE  CountsHold(u)'
<1>1. ActiveOf(u)' \subseteq ActiveOf(u)
  BY NoNewActive
<1> QED
  BY <1>1, CountsStep DEF CountsHold

\* A request that counts adds one to those that passed, where there was room.
LEMMA CountingCounts ==
    ASSUME TypeOK, NEW u \in Users, CountsHold(u), NEW q \in Requests,
           (\E r \in Rows : CreateCount(q, r)) \/ RearmCount(q)
    PROVE  CountsHold(u)'
<1>1. UNCHANGED tables
  BY DEF CreateCount, RearmCount
<1>2. ActiveOf(u)' = ActiveOf(u)
  BY <1>1 DEF tables, ActiveOf, Active
<1>3. CASE seen'[q].user = u
  <2>1. CountActive(u) < Limit
    <3>1. ASSUME NEW r \in Rows, CreateCount(q, r)
          PROVE  CountActive(u) < Limit
      BY <1>3, <3>1 DEF CreateCount, TypeOK, RequestsType
    <3>2. CASE RearmCount(q)
      BY <1>3, <3>2 DEF RearmCount
    <3> QED
      BY <3>1, <3>2
  <2> QED
    BY <1>2, <2>1, CountsStep DEF CountsHold
<1>4. CASE seen'[q].user # u
  <2>1. \A p \in Requests \ {q} : step'[p] = step[p] /\ seen'[p] = seen[p]
    BY DEF CreateCount, RearmCount, TypeOK, RequestsType
  <2>2. PassedOf(u)' \subseteq PassedOf(u)
    BY <1>4, <2>1 DEF PassedOf
  <2> QED
    BY <1>1, <2>2, QuietCounts DEF QuietStatement, TypeOK
<1> QED
  BY <1>3, <1>4

\* Clearing a request takes it out of those that passed.
LEMMA ClearedPassed ==
    ASSUME TypeOK, NEW u \in Users, NEW q \in Requests, Clear(q)
    PROVE  PassedOf(u)' = PassedOf(u) \ {q}
<1>1. \A p \in Requests \ {q} : step'[p] = step[p] /\ seen'[p] = seen[p]
  BY DEF Clear, TypeOK, RequestsType
<1>2. step'[q] = "idle"
  BY DEF Clear, TypeOK, RequestsType
<1> QED
  BY <1>1, <1>2 DEF PassedOf

\* A request that makes an alert ACTIVE gives up its own place for it.
LEMMA AddingCounts ==
    ASSUME TypeOK, LimitInv, NEW u \in Users, NEW q \in Requests,
           (\E a \in AlertIds : CreateInsert(q, a)) \/ RearmStore(q)
    PROVE  CountsHold(u)'
<1>1. PassedOf(u)' = PassedOf(u) \ {q}
  BY ClearedPassed DEF CreateInsert, RearmStore
<1>2. CountsHold(u)
  BY DEF LimitInv, CountsHold
<1>3. ASSUME NEW a \in AlertIds, CreateInsert(q, a)
      PROVE  CountsHold(u)'
  <2>1. /\ step[q] = "upserted"
        /\ row'[a] = seen[q]
        /\ \A b \in AlertIds \ {a} : row'[b] = row[b] /\ status'[b] = status[b]
        /\ status[a] = "absent"
        /\ Active(a)'
    BY <1>3 DEF CreateInsert, InsertAlert, TypeOK, TablesType, Active
  <2>2. CASE seen[q].user = u
    <3>1. ActiveOf(u)' = ActiveOf(u) \cup {a}
      BY <2>1, <2>2 DEF ActiveOf, Active
    <3>2. q \in PassedOf(u)
      BY <2>1, <2>2 DEF PassedOf
    <3> QED
      BY <1>1, <1>2, <3>1, <3>2, CountsStep DEF CountsHold
  <2>3. CASE seen[q].user # u
    <3>1. ActiveOf(u)' \subseteq ActiveOf(u)
      BY <2>1, <2>3 DEF ActiveOf, Active
    <3> QED
      BY <1>1, <1>2, <3>1, CountsStep DEF CountsHold
  <2> QED
    BY <2>2, <2>3
<1>4. CASE RearmStore(q)
  <2>1. PICK a \in AlertIds : a = subject[q]
    BY <1>4 DEF RearmStore, TypeOK, RequestsType
  <2>2. /\ step[q] = "quoted"
        /\ row' = row
        /\ status[a] = "TRIGGERED"
        /\ \A b \in AlertIds \ {a} : status'[b] = status[b]
        /\ Active(a)'
    BY <1>4, <2>1 DEF RearmStore, Rearm, TypeOK, TablesType, Active
  <2>3. row[a].user = seen[q].user
    BY <2>1, <2>2 DEF LimitInv
  <2>4. CASE seen[q].user = u
    <3>1. ActiveOf(u)' = ActiveOf(u) \cup {a}
      BY <2>2, <2>3, <2>4 DEF ActiveOf, Active
    <3>2. q \in PassedOf(u)
      BY <2>2, <2>4 DEF PassedOf
    <3> QED
      BY <1>1, <1>2, <3>1, <3>2, CountsStep DEF CountsHold
  <2>5. CASE seen[q].user # u
    <3>1. ActiveOf(u)' \subseteq ActiveOf(u)
      BY <2>2, <2>3, <2>5 DEF ActiveOf, Active
    <3> QED
      BY <1>1, <1>2, <3>1, CountsStep DEF CountsHold
  <2> QED
    BY <2>4, <2>5
<1> QED
  BY <1>3, <1>4

\* No step takes the active alerts and the passed requests over the bound.
LEMMA CountsHoldStep ==
    ASSUME TypeOK, LimitInv, [Next]_vars, NEW u \in Users
    PROVE  CountsHold(u)'
<1>1. CountsHold(u) /\ TablesType
  BY DEF LimitInv, CountsHold, TypeOK
<1>2. CASE RequestStep
  <2>1. ASSUME NEW q \in Requests, (\E r \in Rows : CreateCount(q, r)) \/ RearmCount(q)
        PROVE  CountsHold(u)'
    BY <1>1, <2>1, CountingCounts
  <2>2. ASSUME NEW q \in Requests, (\E a \in AlertIds : CreateInsert(q, a)) \/ RearmStore(q)
        PROVE  CountsHold(u)'
    BY <2>2, AddingCounts
  <2>3. ASSUME NEW q \in Requests, CreateUpsert(q)
        PROVE  CountsHold(u)'
    <3>1. QuietStatement
      <4>1. seen[q].stock \in Stocks
        BY <2>3 DEF CreateUpsert, TypeOK, RequestsType, Rows
      <4> QED
        BY <2>3, <4>1 DEF CreateUpsert, QuietStatement, StockStatement
    <3>2. PassedOf(u)' \subseteq PassedOf(u)
      BY <2>3 DEF CreateUpsert, PassedOf, TypeOK, RequestsType
    <3> QED
      BY <1>1, <3>1, <3>2, QuietCounts
  <2>4. ASSUME NEW q \in Requests,
               \/ \E a \in AlertIds : RearmLoad(q, a)
               \/ \E p \in Prices : RearmQuote(q, p)
        PROVE  CountsHold(u)'
    <3>1. QuietStatement
      BY <2>4 DEF RearmLoad, RearmQuote, QuietStatement
    <3>2. PassedOf(u)' \subseteq PassedOf(u)
      BY <2>4 DEF RearmLoad, RearmQuote, PassedOf, TypeOK, RequestsType
    <3> QED
      BY <1>1, <3>1, <3>2, QuietCounts
  <2>5. ASSUME NEW q \in Requests, Abort(q)
        PROVE  CountsHold(u)'
    <3>1. QuietStatement
      <4>1. seen[q].stock \in Stocks
        BY <2>5 DEF Abort, TypeOK, RequestsType, Rows
      <4> QED
        BY <2>5, <4>1 DEF Abort, QuietStatement, StockStatement
    <3>2. PassedOf(u)' \subseteq PassedOf(u)
      BY <2>5, ClearedPassed DEF Abort
    <3> QED
      BY <1>1, <3>1, <3>2, QuietCounts
  <2>6. ASSUME NEW a \in AlertIds, UNCHANGED requests,
               (\E c \in Conditions, t \in Targets : Update(a, c, t)) \/ Delete(a)
        PROVE  CountsHold(u)'
    <3>1. QuietStatement
      BY <2>6 DEF QuietStatement
    <3>2. PassedOf(u)' = PassedOf(u)
      BY <2>6 DEF PassedOf, requests
    <3> QED
      BY <1>1, <3>1, <3>2, QuietCounts
  <2> QED
    BY <1>2, <2>1, <2>2, <2>3, <2>4, <2>5, <2>6 DEF RequestStep
<1>3. CASE QuietStatement /\ UNCHANGED requests
  <2>1. PassedOf(u)' = PassedOf(u)
    BY <1>3 DEF PassedOf, requests
  <2> QED
    BY <1>1, <1>3, <2>1, QuietCounts
<1>4. WorkerStep => QuietStatement
  BY WorkerOnTables DEF QuietStatement
<1>5. AdminStep => QuietStatement
  BY DEF AdminStep, QuietStatement, StockStatement
<1>6. UNCHANGED vars => QuietStatement /\ UNCHANGED requests
  BY DEF vars, QuietStatement
<1> QED
  BY <1>2, <1>3, <1>4, <1>5, <1>6 DEF Next

\* What a request to re-arm knows of its alert stays true.
LEMMA SubjectsStep ==
    ASSUME TypeOK, LimitInv, [Next]_vars,
           NEW q \in Requests, step'[q] \in {"loaded", "counted", "quoted"}
    PROVE  /\ armings'[subject'[q]] > 0
           /\ status'[subject'[q]] # "absent" => row'[subject'[q]].user = seen'[q].user
<1>1. TablesNext \/ UNCHANGED tables
  BY StepOnTables DEF TypeOK
<1>2. CASE \E a \in AlertIds : RearmLoad(q, a)
  BY <1>2 DEF RearmLoad, TypeOK, TablesType, RequestsType, tables
<1>3. CASE /\ step[q] \in {"loaded", "counted", "quoted"}
           /\ subject'[q] = subject[q]
           /\ seen'[q] = seen[q]
  <2>1. PICK a \in AlertIds : a = subject[q]
    BY <1>3 DEF TypeOK, RequestsType
  <2>2. armings[a] > 0 /\ (status[a] # "absent" => row[a].user = seen[q].user)
    BY <1>3, <2>1 DEF LimitInv
  <2>3. armings'[a] > 0 /\ (status'[a] # "absent" => row'[a].user = seen[q].user)
    BY <1>1, <2>2, OwnersStay DEF TypeOK
  <2> QED
    BY <1>3, <2>1, <2>3
<1>4. CASE UNCHANGED requests
  BY <1>3, <1>4 DEF requests
<1>5. CASE RequestStep
  <2>1. ASSUME NEW p \in Requests,
               \/ \E r \in Rows : CreateCount(p, r)
               \/ CreateUpsert(p)
               \/ \E a \in AlertIds : CreateInsert(p, a)
               \/ RearmCount(p)
               \/ \E x \in Prices : RearmQuote(p, x)
               \/ RearmStore(p)
               \/ Abort(p)
        PROVE  /\ step[q] \in {"loaded", "counted", "quoted"}
               /\ subject'[q] = subject[q]
               /\ seen'[q] = seen[q]
    BY <2>1 DEF CreateCount, CreateUpsert, CreateInsert, RearmCount, RearmQuote, RearmStore,
       Abort, Clear, TypeOK, RequestsType
  <2>2. ASSUME NEW p \in Requests, p # q, \E a \in AlertIds : RearmLoad(p, a)
        PROVE  /\ step[q] \in {"loaded", "counted", "quoted"}
               /\ subject'[q] = subject[q]
               /\ seen'[q] = seen[q]
    BY <2>2 DEF RearmLoad, TypeOK, RequestsType
  <2> QED
    BY <1>2, <1>3, <1>4, <1>5, <2>1, <2>2 DEF RequestStep
<1> QED
  BY <1>4, <1>5 DEF Next, vars

\* A user never has more ACTIVE alerts than the limit and the requests in flight
\* less one allow: each of them counted before it added its alert.
THEOREM LimitOvershootIsBounded == Spec => []LimitOvershootBounded
<1>1. Init => LimitInv
  <2> SUFFICES ASSUME Init PROVE LimitInv
    OBVIOUS
  <2>1. \A u \in Users : ActiveOf(u) = {} /\ PassedOf(u) = {}
    BY DEF Init, TablesInit, RequestsInit, ActiveOf, Active, PassedOf
  <2>2. IsFiniteSet({}) /\ Cardinality({}) = 0
    BY FS_EmptySet
  <2>3. Limit \in Nat \ {0} /\ Cardinality(Requests) \in Nat
    BY LimitIsPositive, RequestsAreFinite, FS_CardinalityType
  <2>4. \A q \in Requests : step[q] = "idle"
    BY DEF Init, RequestsInit
  <2>5. ASSUME NEW u \in Users
        PROVE  /\ IsFiniteSet(ActiveOf(u))
               /\ Cardinality(ActiveOf(u)) = 0
               /\ Cardinality(PassedOf(u)) = 0
    <3>1. ActiveOf(u) = {} /\ PassedOf(u) = {}
      BY <2>1
    <3> QED
      BY <2>2, <3>1, Zenon
  <2>6. 0 + 0 <= Limit + Cardinality(Requests) - 1
    BY <2>3
  <2> QED
    BY <2>4, <2>5, <2>6 DEF LimitInv
<1>2. TypeOK /\ LimitInv /\ [Next]_vars => LimitInv'
  BY CountsHoldStep, SubjectsStep DEF LimitInv, CountsHold
<1>3. LimitInv => LimitOvershootBounded
  <2> SUFFICES ASSUME LimitInv, NEW u \in Users
               PROVE  CountActive(u) <= Limit + Cardinality(Requests) - 1
    BY DEF LimitOvershootBounded
  <2>1. Cardinality(ActiveOf(u)) \in Nat /\ Cardinality(PassedOf(u)) \in Nat
    BY PassedIsFinite, FS_CardinalityType DEF LimitInv
  <2>2. Limit \in Nat /\ Cardinality(Requests) \in Nat
    BY LimitIsPositive, RequestsAreFinite, FS_CardinalityType
  <2> QED
    BY <2>1, <2>2 DEF LimitInv, CountActive
<1> QED
  BY <1>1, <1>2, <1>3, TypeCorrect, PTL DEF Spec

-----------------------------------------------------------------------------
(* The delivery log.                                                       *)

Holding(g) == phase[g] \in {"claimed", "sent", "failed"}

\* What a goroutine holds is spent, is held by it alone and is not in the log yet, and
\* what is in the log is spent: an arming is claimed, delivered and recorded in this
\* order, once.
LogInv ==
    /\ \A g \in Goroutines :
          Holding(g) => /\ Spent(Arming(held[g]))
                        /\ ~Logged(Arming(held[g]))
                        /\ phase[g] = "sent" => Arming(held[g]) \in delivered
    /\ \A g, h \in Goroutines :
          Holding(g) /\ Holding(h) /\ g # h => Arming(held[g]) # Arming(held[h])
    /\ \A e \in Armings : Logged(e) => Spent(e)
    /\ LogIsHonest

\* Most steps leave the log and what is held as they are, or give it up.
LEMMA SilentStep ==
    ASSUME TypeOK, LogInv, [Next]_vars, logged' = logged, delivered \subseteq delivered',
           \A g \in Goroutines :
              Holding(g)' => /\ Holding(g) /\ held'[g] = held[g]
                             /\ phase'[g] = "sent" =>
                                  phase[g] = "sent" \/ Arming(held[g]) \in delivered'
    PROVE  LogInv'
<1>1. \A e \in Armings : Spent(e) => Spent(e)'
  BY SpentIsStable
<1>2. \A e \in Armings : Logged(e)' <=> Logged(e)
  BY DEF Logged
<1>3. ASSUME NEW g \in Goroutines, Holding(g)'
      PROVE  /\ Holding(g) /\ Arming(held[g])' = Arming(held[g]) /\ Arming(held[g]) \in Armings
             /\ phase'[g] = "sent" => Arming(held[g])' \in delivered'
  <2>1. Holding(g) /\ held'[g] = held[g]
    BY <1>3
  <2>2. Arming(held[g])' = Arming(held[g]) /\ Arming(held[g]) \in Armings
    BY <2>1, HeldArming DEF TypeOK, Arming, Holding
  <2>3. phase'[g] = "sent" => Arming(held[g]) \in delivered'
    BY <1>3, <2>1 DEF LogInv
  <2> QED
    BY <2>1, <2>2, <2>3
<1>4. ASSUME NEW g \in Goroutines, Holding(g)'
      PROVE  Spent(Arming(held[g]))' /\ ~Logged(Arming(held[g]))'
  <2>1. PICK e \in Armings : e = Arming(held[g])
    BY <1>3, <1>4
  <2>2. Spent(e)' /\ ~Logged(e)'
    BY <1>1, <1>2, <1>3, <1>4, <2>1 DEF LogInv
  <2> QED
    BY <1>3, <1>4, <2>1, <2>2 DEF Spent, Logged
<1>5. ASSUME NEW g \in Goroutines, NEW h \in Goroutines, g # h, Holding(g)', Holding(h)'
      PROVE  Arming(held[g])' # Arming(held[h])'
  BY <1>3, <1>5 DEF LogInv
<1>6. ASSUME NEW e \in Armings, Logged(e)'
      PROVE  Spent(e)'
  BY <1>1, <1>2, <1>6 DEF LogInv
<1>7. LogIsHonest'
  BY DEF LogInv, LogIsHonest
<1> QED
  BY <1>3, <1>4, <1>5, <1>6, <1>7 DEF LogInv

\* The claim takes an arming that is not spent, so that nobody holds or has logged it.
LEMMA ClaimedIsUnlogged ==
    ASSUME TypeOK, LogInv, [Next]_vars, NEW g \in Goroutines, NEW j \in Jobs, Claim(g, j)
    PROVE  LogInv'
<1> DEFINE a == j.alert
<1>0. /\ a \in AlertIds /\ armings[a] \in 1 .. MaxArmings
      /\ [j EXCEPT !.arming = armings[j.alert]] \in Jobs
      /\ Arming([j EXCEPT !.arming = armings[j.alert]]) = <<a, armings[a]>>
  BY ClaimedJob DEF TypeOK, Claim, ClaimTriggered
<1>a. PICK e \in Armings : e = <<a, armings[a]>>
  BY <1>0 DEF Armings
<1>1. /\ a \in AlertIds /\ e[1] = a /\ e[2] = armings[a] /\ armings[a] \in Nat
      /\ Arming([j EXCEPT !.arming = armings[j.alert]]) = e
  BY <1>0, <1>a
<1>2. ~Spent(e) /\ ~Logged(e)
  BY <1>1 DEF Spent, Claim, ClaimTriggered, LogInv
<1>3. Spent(e)'
  BY <1>1 DEF Spent, Claim, ClaimTriggered, Active, TypeOK, TablesType
<1>4. logged' = logged /\ delivered' = delivered
  BY DEF Claim, effects
<1>5. /\ phase'[g] = "claimed" /\ Arming(held[g])' = e
      /\ \A h \in Goroutines \ {g} : phase'[h] = phase[h] /\ held'[h] = held[h]
  BY <1>1 DEF Claim, TypeOK, WorkersType, Arming
<1>6. \A f \in Armings : /\ Spent(f) => Spent(f)'
                         /\ Logged(f)' <=> Logged(f)
  BY <1>4, SpentIsStable DEF Logged
<1>7. ASSUME NEW h \in Goroutines, h # g, Holding(h)'
      PROVE  /\ Holding(h)
             /\ Arming(held[h])' = Arming(held[h])
             /\ Arming(held[h]) \in Armings
             /\ Spent(Arming(held[h])) /\ ~Logged(Arming(held[h]))
             /\ phase'[h] = "sent" => Arming(held[h]) \in delivered
  BY <1>5, <1>7, HeldArming DEF TypeOK, Arming, Holding, LogInv
<1>8. ASSUME NEW h \in Goroutines, Holding(h)'
      PROVE  /\ Spent(Arming(held[h]))' /\ ~Logged(Arming(held[h]))'
             /\ phase'[h] = "sent" => Arming(held[h])' \in delivered'
  <2>1. CASE h = g
    BY <1>2, <1>3, <1>4, <1>5, <2>1 DEF Spent, Logged
  <2>2. CASE h # g
    <3>1. PICK f \in Armings : f = Arming(held[h])
      BY <1>7, <1>8, <2>2
    <3>2. Spent(f)' /\ ~Logged(f)'
      BY <1>6, <1>7, <1>8, <2>2, <3>1
    <3>3. phase'[h] = "sent" => f \in delivered'
      BY <1>4, <1>7, <1>8, <2>2, <3>1
    <3> QED
      BY <1>7, <1>8, <2>2, <3>1, <3>2, <3>3 DEF Spent, Logged
  <2> QED
    BY <2>1, <2>2
<1>9. ASSUME NEW h \in Goroutines, NEW k \in Goroutines, h # k, Holding(h)', Holding(k)'
      PROVE  Arming(held[h])' # Arming(held[k])'
  <2>1. CASE h = g \/ k = g
    BY <1>2, <1>5, <1>7, <1>9, <2>1
  <2>2. CASE h # g /\ k # g
    BY <1>7, <1>9, <2>2 DEF LogInv
  <2> QED
    BY <2>1, <2>2
<1>10. ASSUME NEW f \in Armings, Logged(f)'
       PROVE  Spent(f)'
  BY <1>6, <1>10 DEF LogInv
<1>11. LogIsHonest'
  BY <1>4 DEF LogInv, LogIsHonest
<1> QED
  BY <1>8, <1>9, <1>10, <1>11 DEF LogInv

\* The record of an arming is the first, and tells what the push has done.
LEMMA RecordIsHonest ==
    ASSUME TypeOK, LogInv, [Next]_vars, NEW g \in Goroutines, Record(g)
    PROVE  LogInv'
<1> DEFINE e == Arming(held[g])
<1>1. /\ e \in Armings /\ Holding(g) /\ Spent(e) /\ ~Logged(e)
      /\ phase[g] = "sent" => e \in delivered
  BY HeldArming DEF TypeOK, Record, LogInv, Holding
<1>2. /\ delivered' = delivered
      /\ logged' = logged \/ logged' = logged \cup {<<e, Outcome(g)>>}
      /\ Outcome(g) \in {"SENT", "FAILED"} /\ (Outcome(g) = "SENT" => phase[g] = "sent")
  BY DEF Record, Outcome
<1>3. \A h \in Goroutines : Holding(h)' => /\ h # g /\ Holding(h) /\ held'[h] = held[h]
                                           /\ phase'[h] = phase[h]
  BY DEF Record, Resume, Holding, TypeOK, WorkersType
<1>4. \A f \in Armings : Spent(f) => Spent(f)'
  BY SpentIsStable
<1>5. \A f \in Armings : Logged(f)' => Logged(f) \/ f = e
  BY <1>2 DEF Logged
<1>6. ASSUME NEW h \in Goroutines, Holding(h)'
      PROVE  /\ Holding(h) /\ Arming(held[h])' = Arming(held[h]) /\ Arming(held[h]) \in Armings
             /\ Arming(held[h]) # e /\ Spent(Arming(held[h])) /\ ~Logged(Arming(held[h]))
             /\ phase'[h] = "sent" => Arming(held[h])' \in delivered'
  <2>1. h # g /\ Holding(h) /\ held'[h] = held[h] /\ phase'[h] = phase[h]
    BY <1>3, <1>6
  <2>2. Arming(held[h])' = Arming(held[h]) /\ Arming(held[h]) \in Armings
    BY <2>1, HeldArming DEF TypeOK, Arming, Holding
  <2> QED
    BY <1>1, <1>2, <2>1, <2>2 DEF LogInv
<1>7. ASSUME NEW h \in Goroutines, Holding(h)'
      PROVE  Spent(Arming(held[h]))' /\ ~Logged(Arming(held[h]))'
  <2>1. PICK f \in Armings : f = Arming(held[h])
    BY <1>6, <1>7
  <2>2. Spent(f)' /\ ~Logged(f)'
    BY <1>4, <1>5, <1>6, <1>7, <2>1
  <2> QED
    BY <1>6, <1>7, <2>1, <2>2 DEF Spent, Logged
<1>8. ASSUME NEW h \in Goroutines, NEW k \in Goroutines, h # k, Holding(h)', Holding(k)'
      PROVE  Arming(held[h])' # Arming(held[k])'
  BY <1>6, <1>8 DEF LogInv
<1>9. ASSUME NEW f \in Armings, Logged(f)'
      PROVE  Spent(f)'
  BY <1>1, <1>4, <1>5, <1>9 DEF LogInv
<1>10. LogIsHonest'
  <2> SUFFICES ASSUME NEW f \in Armings
               PROVE  /\ <<f, "SENT">> \in logged' => f \in delivered'
                      /\ <<f, "SENT">> \in logged' => <<f, "FAILED">> \notin logged'
    BY DEF LogIsHonest
  <2>1. /\ <<f, "SENT">> \in logged => f \in delivered
        /\ <<f, "SENT">> \in logged => <<f, "FAILED">> \notin logged
    BY DEF LogInv, LogIsHonest
  <2>2. CASE f = e
    <3>1. <<f, "SENT">> \notin logged /\ <<f, "FAILED">> \notin logged
      BY <1>1, <2>2 DEF Logged
    <3> QED
      BY <1>1, <1>2, <2>2, <3>1
  <2>3. CASE f # e
    BY <1>2, <2>1, <2>3
  <2> QED
    BY <2>2, <2>3
<1> QED
  BY <1>6, <1>7, <1>8, <1>9, <1>10 DEF LogInv

LEMMA LogInvStep ==
    ASSUME TypeOK, LogInv, [Next]_vars
    PROVE  LogInv'
<1>1. CASE UNCHANGED workers
  BY <1>1, SilentStep DEF workers, Holding
<1>2. CASE WorkerStep
  <2>1. ASSUME NEW g \in Goroutines, NEW j \in Jobs, Claim(g, j)
        PROVE  LogInv'
    BY <2>1, ClaimedIsUnlogged
  <2>2. ASSUME NEW g \in Goroutines, Record(g)
        PROVE  LogInv'
    BY <2>2, RecordIsHonest
  <2>3. ASSUME NEW g \in Goroutines, PushLine(g)
        PROVE  LogInv'
    <3>1. /\ logged' = logged /\ delivered \subseteq delivered' /\ held' = held
          /\ phase[g] = "claimed"
          /\ phase'[g] = "sent" => Arming(held[g]) \in delivered'
          /\ \A h \in Goroutines \ {g} : phase'[h] = phase[h]
      BY <2>3 DEF PushLine, TypeOK, WorkersType
    <3> QED
      BY <3>1, SilentStep DEF Holding
  <2>4. ASSUME NEW g \in Goroutines,
               \/ \E p \in Prices : FetchQuote(g, p)
               \/ LoadAlerts(g)
               \/ \E j \in Jobs : ClaimMissed(g, j) \/ ClaimFailed(g, j)
               \/ PushUnlinked(g)
               \/ RecordFailed(g)
        PROVE  LogInv'
    <3>1. /\ logged' = logged /\ delivered' = delivered
          /\ \A h \in Goroutines :
                Holding(h)' => /\ Holding(h) /\ held'[h] = held[h]
                               /\ phase'[h] = "sent" => phase[h] = "sent"
      BY <2>4 DEF FetchQuote, LoadAlerts, ClaimMissed, ClaimFailed, Skip, PushUnlinked,
         RecordFailed, Resume, effects, TypeOK, WorkersType, Holding
    <3> QED
      BY <3>1, SilentStep
  <2>5. ASSUME NEW gs \in SUBSET Goroutines, Reset(gs)
        PROVE  LogInv'
    <3>1. /\ logged' = logged /\ delivered' = delivered
          /\ \A h \in Goroutines :
                Holding(h)' => /\ Holding(h) /\ held'[h] = held[h]
                               /\ phase'[h] = "sent" => phase[h] = "sent"
      BY <2>5 DEF Reset, effects, Holding
    <3> QED
      BY <3>1, SilentStep
  <2> QED
    BY <1>2, <2>1, <2>2, <2>3, <2>4, <2>5
       DEF WorkerStep, GoroutineStep, Finish, LoadFailed, Stop
<1> QED
  BY <1>1, <1>2 DEF Next, vars

\* alert_logs says SENT only of an arming whose message LINE has accepted, and never both
\* SENT and FAILED of one, for any number of replicas and with every failure.
THEOREM TheLogIsHonest == Spec => []LogIsHonest
<1>1. Init => LogInv
  BY DEF Init, WorkersInit, LogInv, LogIsHonest, Logged, Holding
<1>2. TypeOK /\ LogInv /\ [Next]_vars => LogInv'
  BY LogInvStep
<1>3. LogInv => LogIsHonest
  BY DEF LogInv
<1> QED
  BY <1>1, <1>2, <1>3, TypeCorrect, PTL DEF Spec

-----------------------------------------------------------------------------
(* Triggered alerts are accounted for while nothing fails.                 *)

\* A goroutine that holds nothing has nothing left of what it held.
AccountInv ==
    /\ \A g \in Goroutines : ~Holding(g) => held[g] = NoJob
    /\ TriggeredAccounted

\* Requests and administrators trigger no alert, and change the arming of none that is.
LEMMA OthersTriggerNothing ==
    ASSUME TypeOK, RequestStep \/ AdminStep, NEW a \in AlertIds, status'[a] = "TRIGGERED"
    PROVE  status[a] = "TRIGGERED" /\ armings'[a] = armings[a]
<1> USE DEF TypeOK
<1>1. ASSUME NEW b \in AlertIds, NEW r \in Rows, InsertAlert(b, r)
      PROVE  status[a] = "TRIGGERED" /\ armings'[a] = armings[a]
  BY <1>1 DEF InsertAlert, TablesType
<1>2. ASSUME NEW b \in AlertIds, Delete(b) \/ Rearm(b) \/ DisableAlert(b)
      PROVE  status[a] = "TRIGGERED" /\ armings'[a] = armings[a]
  <2>1. CASE Delete(b)
    BY <2>1 DEF Delete, TablesType
  <2>2. CASE Rearm(b)
    BY <2>2 DEF Rearm, TablesType
  <2>3. CASE DisableAlert(b)
    BY <2>3 DEF DisableAlert, TablesType
  <2> QED
    BY <1>2, <2>1, <2>2, <2>3
<1>3. ASSUME NEW s \in Stocks, StockStatement(s)
      PROVE  status[a] = "TRIGGERED" /\ armings'[a] = armings[a]
  <2>1. CASE CommitDisableStock(s)
    BY <2>1 DEF CommitDisableStock
  <2>2. CASE ~CommitDisableStock(s)
    BY <1>3, <2>2 DEF StockStatement, UpsertStock, RollbackCreate, BeginDisableStock,
       RollbackDisableStock, EnableStock
  <2> QED
    BY <2>1, <2>2
<1>4. CASE UNCHANGED tables
  BY <1>4 DEF tables
<1>5. CASE AdminStep
  <2>1. ASSUME NEW u \in Users, SetUserStatus(u)
        PROVE  status[a] = "TRIGGERED" /\ armings'[a] = armings[a]
    BY <2>1 DEF SetUserStatus
  <2> QED
    BY <1>2, <1>3, <1>5, <2>1 DEF AdminStep, StockStatement
<1>6. CASE RequestStep
  <2>1. ASSUME NEW q \in Requests, CreateUpsert(q) \/ Abort(q)
        PROVE  status[a] = "TRIGGERED" /\ armings'[a] = armings[a]
    BY <2>1 DEF CreateUpsert, UpsertStock, Abort, RollbackCreate, tables
  <2>2. ASSUME NEW q \in Requests, NEW b \in AlertIds, CreateInsert(q, b)
        PROVE  status[a] = "TRIGGERED" /\ armings'[a] = armings[a]
    <3>1. seen[q] \in Rows /\ InsertAlert(b, seen[q])
      BY <2>2 DEF CreateInsert, RequestsType
    <3> QED
      BY <3>1, <1>1
  <2>3. ASSUME NEW q \in Requests, RearmStore(q)
        PROVE  status[a] = "TRIGGERED" /\ armings'[a] = armings[a]
    <3>1. subject[q] \in AlertIds /\ Rearm(subject[q])
      BY <2>3 DEF RearmStore, RequestsType
    <3> QED
      BY <3>1, <1>2
  <2>4. ASSUME NEW q \in Requests,
               \/ \E r \in Rows : CreateCount(q, r)
               \/ \E b \in AlertIds : RearmLoad(q, b)
               \/ RearmCount(q)
               \/ \E p \in Prices : RearmQuote(q, p)
        PROVE  UNCHANGED tables
    BY <2>4 DEF CreateCount, RearmLoad, RearmCount, RearmQuote
  <2>5. ASSUME NEW b \in AlertIds, \E c \in Conditions, t \in Targets : Update(b, c, t)
        PROVE  status[a] = "TRIGGERED" /\ armings'[a] = armings[a]
    BY <2>5 DEF Update
  <2> QED
    BY <1>2, <1>4, <1>6, <2>1, <2>2, <2>3, <2>4, <2>5 DEF RequestStep
<1> QED
  BY <1>5, <1>6

\* Who held the alert holds it, or has recorded it.
LEMMA AccountKept ==
    ASSUME TypeOK, AccountInv, ~Faults,
           NEW a \in AlertIds, status[a] = "TRIGGERED", armings'[a] = armings[a],
           logged \subseteq logged',
           \A g \in Goroutines :
              Holding(g) => \/ held'[g] = held[g]
                            \/ <<Arming(held[g]), Outcome(g)>> \in logged'
                            \/ status[held[g].alert] = "absent"
    PROVE  (\E g \in Goroutines : Holds(g, a)') \/ Logged(<<a, armings[a]>>)'
<1>1. (\E g \in Goroutines : Holds(g, a)) \/ Logged(<<a, armings[a]>>)
  BY DEF AccountInv, TriggeredAccounted
<1>2. CASE Logged(<<a, armings[a]>>)
  BY <1>2 DEF Logged
<1>3. CASE \E g \in Goroutines : Holds(g, a)
  <2>1. PICK g \in Goroutines : Holds(g, a)
    BY <1>3
  <2>2. /\ held[g] # NoJob /\ Arming(held[g]) = <<a, armings[a]>> /\ Holding(g)
    BY <2>1 DEF Holds, AccountInv
  <2>3. held[g].alert = a
    BY <2>2 DEF Arming
  <2>4. CASE held'[g] = held[g]
    BY <2>2, <2>4 DEF Holds, Arming
  <2>5. CASE <<Arming(held[g]), Outcome(g)>> \in logged'
    BY <2>2, <2>5 DEF Logged, Outcome
  <2> QED
    BY <2>2, <2>3, <2>4, <2>5
<1> QED
  BY <1>1, <1>2, <1>3

LEMMA AccountInvStep ==
    ASSUME TypeOK, AccountInv, [Next]_vars
    PROVE  AccountInv'
<1>1. ASSUME NEW g \in Goroutines, ~Holding(g)'
      PROVE  held'[g] = NoJob
  <2>1. CASE UNCHANGED workers
    BY <1>1, <2>1 DEF workers, AccountInv, Holding
  <2>2. CASE WorkerStep
    <3>1. ASSUME NEW h \in Goroutines, NEW j \in Jobs, Claim(h, j)
          PROVE  held'[g] = NoJob
      BY <1>1, <3>1 DEF Claim, AccountInv, Holding, TypeOK, WorkersType
    <3>2. ASSUME NEW h \in Goroutines,
                 \/ \E p \in Prices : FetchQuote(h, p)
                 \/ LoadAlerts(h)
                 \/ \E j \in Jobs : ClaimMissed(h, j) \/ ClaimFailed(h, j)
                 \/ PushLine(h)
                 \/ PushUnlinked(h)
          PROVE  held'[g] = NoJob
      <4>1. /\ held' = held
            /\ ~Holding(g)' => ~Holding(g)
        BY <3>2 DEF FetchQuote, LoadAlerts, ClaimMissed, ClaimFailed, Skip, PushLine,
           PushUnlinked, TypeOK, WorkersType, Holding
      <4> QED
        BY <1>1, <4>1 DEF AccountInv
    <3>3. ASSUME NEW h \in Goroutines, Record(h) \/ RecordFailed(h)
          PROVE  held'[g] = NoJob
      BY <1>1, <3>3 DEF Record, RecordFailed, Resume, AccountInv, Holding, TypeOK, WorkersType
    <3>4. ASSUME NEW gs \in SUBSET Goroutines, Reset(gs)
          PROVE  held'[g] = NoJob
      BY <1>1, <3>4 DEF Reset, AccountInv, Holding
    <3> QED
      BY <2>2, <3>1, <3>2, <3>3, <3>4 DEF WorkerStep, GoroutineStep, Finish, LoadFailed, Stop
  <2> QED
    BY <2>1, <2>2 DEF Next, vars
<1>2. ASSUME ~Faults, NEW a \in AlertIds, status'[a] = "TRIGGERED"
      PROVE  (\E g \in Goroutines : Holds(g, a)') \/ Logged(<<a, armings[a]>>)'
  <2>1. CASE (RequestStep \/ AdminStep \/ UNCHANGED vars) /\ UNCHANGED workers
    <3>1. status[a] = "TRIGGERED" /\ armings'[a] = armings[a]
      BY <1>2, <2>1, OthersTriggerNothing DEF vars, tables
    <3> QED
      BY <1>2, <2>1, <3>1, AccountKept DEF workers
  <2>2. ASSUME NEW g \in Goroutines, NEW j \in Jobs, Claim(g, j)
        PROVE  (\E h \in Goroutines : Holds(h, a)') \/ Logged(<<a, armings[a]>>)'
    <3>1. /\ status' = [status EXCEPT ![j.alert] = "TRIGGERED"] /\ armings' = armings
          /\ Active(j.alert) /\ phase[g] = "scanning" /\ logged' = logged
          /\ held' = [held EXCEPT ![g] = [j EXCEPT !.arming = armings[j.alert]]]
      BY <2>2 DEF Claim, ClaimTriggered, effects
    <3>2. CASE a = j.alert
      <4>1. /\ [j EXCEPT !.arming = armings[j.alert]] \in Jobs
            /\ Arming([j EXCEPT !.arming = armings[j.alert]]) = <<a, armings[a]>>
        BY <3>1, <3>2, ClaimedJob DEF TypeOK
      <4>2. held'[g] = [j EXCEPT !.arming = armings[j.alert]]
        BY <3>1 DEF TypeOK, WorkersType
      <4>3. Holds(g, a)'
        BY <3>1, <4>1, <4>2, NoJobIsNoJob DEF Holds, Arming
      <4> QED
        BY <4>3
    <3>3. CASE a # j.alert
      <4>1. status[a] = "TRIGGERED" /\ armings'[a] = armings[a]
        BY <1>2, <3>1, <3>3 DEF TypeOK, TablesType
      <4>2. \A h \in Goroutines : Holding(h) => held'[h] = held[h]
        BY <3>1 DEF Holding, TypeOK, WorkersType
      <4> QED
        BY <1>2, <3>1, <4>1, <4>2, AccountKept
    <3> QED
      BY <3>2, <3>3
  <2>3. ASSUME UNCHANGED tables, logged \subseteq logged',
               \A g \in Goroutines :
                  Holding(g) => \/ held'[g] = held[g]
                                \/ <<Arming(held[g]), Outcome(g)>> \in logged'
                                \/ status[held[g].alert] = "absent"
        PROVE  (\E g \in Goroutines : Holds(g, a)') \/ Logged(<<a, armings[a]>>)'
    <3>1. status[a] = "TRIGGERED" /\ armings'[a] = armings[a]
      BY <1>2, <2>3 DEF tables
    <3> QED
      BY <1>2, <2>3, <3>1, AccountKept
  <2>4. ASSUME NEW g \in Goroutines,
               \/ \E p \in Prices : FetchQuote(g, p)
               \/ LoadAlerts(g)
               \/ \E j \in Jobs : ClaimMissed(g, j)
               \/ PushLine(g)
               \/ PushUnlinked(g)
        PROVE  (\E h \in Goroutines : Holds(h, a)') \/ Logged(<<a, armings[a]>>)'
    <3>1. UNCHANGED tables /\ logged' = logged /\ held' = held
      BY <2>4 DEF FetchQuote, LoadAlerts, ClaimMissed, Skip, PushLine, PushUnlinked, effects
    <3> QED
      BY <3>1, <2>3
  <2>5. ASSUME NEW g \in Goroutines, Record(g)
        PROVE  (\E h \in Goroutines : Holds(h, a)') \/ Logged(<<a, armings[a]>>)'
    <3>1. /\ UNCHANGED tables
          /\ \/ status[held[g].alert] = "absent" /\ logged' = logged
             \/ logged' = logged \cup {<<Arming(held[g]), Outcome(g)>>}
          /\ \A h \in Goroutines : h # g => held'[h] = held[h]
      BY <2>5 DEF Record, Resume, TypeOK, WorkersType
    <3> QED
      BY <3>1, <2>3
  <2>6. ASSUME NEW g \in Goroutines, Finish(g)
        PROVE  (\E h \in Goroutines : Holds(h, a)') \/ Logged(<<a, armings[a]>>)'
    <3>1. /\ UNCHANGED tables /\ logged' = logged
          /\ \A h \in Goroutines : Holding(h) => held'[h] = held[h]
      BY <2>6 DEF Finish, Reset, effects, Holding
    <3> QED
      BY <3>1, <2>3
  <2>7. CASE WorkerStep
    BY <1>2, <2>2, <2>4, <2>5, <2>6, <2>7
       DEF WorkerStep, GoroutineStep, ClaimFailed, RecordFailed, LoadFailed, Stop
  <2> QED
    BY <2>1, <2>7 DEF Next, vars
<1> QED
  BY <1>1, <1>2 DEF AccountInv, TriggeredAccounted

\* Without failures no TRIGGERED alert is lost between its claim and the delivery log, for
\* any number of replicas, requests and administrators.
THEOREM TriggersAreAccounted == Spec => []TriggeredAccounted
<1>1. Init => AccountInv
  BY DEF Init, TablesInit, WorkersInit, AccountInv, TriggeredAccounted
<1>2. TypeOK /\ AccountInv /\ [Next]_vars => AccountInv'
  BY AccountInvStep
<1>3. AccountInv => TriggeredAccounted
  BY DEF AccountInv
<1> QED
  BY <1>1, <1>2, <1>3, TypeCorrect, PTL DEF Spec

-----------------------------------------------------------------------------
(* With one replica a goroutine claims the arming it has matched.          *)

OneReplica == \A v, w \in Replicas : v = w

\* What a goroutine of the only replica has loaded and not yet looked at is still in
\* the arming it was loaded in, and no other goroutine has it in its list: the symbol
\* of an alert never changes.
MatchInv ==
    \A g \in Goroutines : \A j \in jobs[g] :
        /\ j.arming = armings[j.alert]
        /\ status[j.alert] # "TRIGGERED"
        /\ status[j.alert] = "absent" \/ row[j.alert].stock = g[2]
        /\ \A k \in jobs[g] : k.alert = j.alert => k = j

\* No statement arms, brings back or moves to another stock an alert that has been
\* armed and is not TRIGGERED.
LEMMA OnlyRearmArms ==
    ASSUME TablesType, TablesNext \/ UNCHANGED tables,
           NEW a \in AlertIds, armings[a] > 0, status[a] # "TRIGGERED"
    PROVE  /\ armings'[a] = armings[a]
           /\ status[a] = "absent" => status'[a] = "absent"
           /\ status'[a] = "absent" \/ row'[a].stock = row[a].stock
<1> DEFINE Kept == /\ armings'[a] = armings[a]
                   /\ status[a] = "absent" => status'[a] = "absent"
                   /\ status'[a] = "absent" \/ row'[a].stock = row[a].stock
<1>1. ASSUME NEW b \in AlertIds, AlertStatement(b) PROVE Kept
  <2>1. ASSUME NEW r \in Rows, InsertAlert(b, r) PROVE Kept
    <3>1. a # b
      BY <2>1 DEF InsertAlert
    <3> QED BY <2>1, <3>1 DEF InsertAlert, TablesType
  <2>2. ASSUME NEW c \in Conditions, NEW t \in Targets, Update(b, c, t) PROVE Kept
    <3>1. row' = [row EXCEPT ![b] = [row[b] EXCEPT !.condition = c, !.target = t]]
      BY <2>2 DEF Update
    <3>2. row[b] \in Rows
      BY <2>2 DEF Update, TablesType
    <3>3. [row[b] EXCEPT !.condition = c, !.target = t].stock = row[b].stock
      BY <3>2 DEF Rows
    <3>4. row'[a].stock = row[a].stock
      BY <3>1, <3>3 DEF TablesType
    <3> QED BY <2>2, <3>4 DEF Update
  <2>3. CASE Rearm(b)
    BY <2>3 DEF Rearm, TablesType
  <2>4. CASE Delete(b)
    BY <2>4 DEF Delete, TablesType
  <2>5. CASE ClaimTriggered(b)
    BY <2>5 DEF ClaimTriggered, Active, TablesType
  <2>6. CASE DisableAlert(b)
    BY <2>6 DEF DisableAlert, TablesType
  <2> HIDE DEF Kept
  <2> QED BY <1>1, <2>1, <2>2, <2>3, <2>4, <2>5, <2>6 DEF AlertStatement
<1>2. ASSUME NEW s \in Stocks, StockStatement(s) PROVE Kept
  <2>1. CASE CommitDisableStock(s)
    BY <2>1 DEF CommitDisableStock, FrozenOn, TablesType, Active
  <2>2. CASE ~CommitDisableStock(s)
    BY <1>2, <2>2 DEF StockStatement, UpsertStock, RollbackCreate, BeginDisableStock,
       RollbackDisableStock, EnableStock
  <2> QED BY <2>1, <2>2
<1>3. ASSUME NEW u \in Users, SetUserStatus(u) PROVE Kept
  BY <1>3 DEF SetUserStatus
<1>4. ASSUME UNCHANGED tables PROVE Kept
  BY <1>4 DEF tables
<1> HIDE DEF Kept
<1>5. Kept
  BY <1>1, <1>2, <1>3, <1>4 DEF TablesNext
<1> QED
  BY <1>5 DEF Kept

\* A job that stays in a list stays matched, unless its alert triggers.
LEMMA JobStaysMatched ==
    ASSUME TypeOK, MatchInv, TablesNext \/ UNCHANGED tables,
           NEW g \in Goroutines, NEW j \in jobs[g], status'[j.alert] # "TRIGGERED"
    PROVE  /\ j.arming = armings'[j.alert]
           /\ status'[j.alert] = "absent" \/ row'[j.alert].stock = g[2]
<1>1. j.alert \in AlertIds /\ j.arming \in 1 .. MaxArmings
  BY DEF TypeOK, WorkersType, Jobs
<1>2. armings[j.alert] > 0 /\ status[j.alert] # "TRIGGERED"
  BY <1>1, ArmingBound DEF MatchInv
<1>3. /\ armings'[j.alert] = armings[j.alert]
      /\ status[j.alert] = "absent" => status'[j.alert] = "absent"
      /\ status'[j.alert] = "absent" \/ row'[j.alert].stock = row[j.alert].stock
  BY <1>1, <1>2, OnlyRearmArms DEF TypeOK
<1> QED
  BY <1>3 DEF MatchInv

\* A list that loses jobs stays matched if none of the rest triggers.
LEMMA ShrinkingLists ==
    ASSUME TypeOK, MatchInv, TablesNext \/ UNCHANGED tables,
           \A g \in Goroutines : jobs'[g] \subseteq jobs[g],
           \A g \in Goroutines : \A j \in jobs'[g] : status'[j.alert] # "TRIGGERED"
    PROVE  MatchInv'
<1> SUFFICES ASSUME NEW g \in Goroutines, NEW j \in jobs'[g]
             PROVE  /\ j.arming = armings'[j.alert]
                    /\ status'[j.alert] # "TRIGGERED"
                    /\ status'[j.alert] = "absent" \/ row'[j.alert].stock = g[2]
                    /\ \A k \in jobs'[g] : k.alert = j.alert => k = j
  BY DEF MatchInv
<1>1. j \in jobs[g] /\ status'[j.alert] # "TRIGGERED"
  OBVIOUS
<1>2. \A k \in jobs'[g] : k.alert = j.alert => k = j
  BY <1>1 DEF MatchInv
<1> QED
  BY <1>1, <1>2, JobStaysMatched

\* The claim takes from the one list that has the alert its one job for it.
LEMMA ClaimKeepsMatch ==
    ASSUME OneReplica, TypeOK, MatchInv,
           NEW g \in Goroutines, NEW j \in jobs[g], ClaimTriggered(j.alert),
           jobs' = [jobs EXCEPT ![g] = @ \ {j}]
    PROVE  MatchInv'
<1>1. j.alert \in AlertIds /\ status[j.alert] = "ACTIVE"
  BY DEF TypeOK, WorkersType, Jobs, ClaimTriggered, Active
<1>2. row[j.alert].stock = g[2]
  BY <1>1 DEF MatchInv
<1>3. TablesNext
  BY <1>1 DEF TablesNext, AlertStatement
<1>4. jobs'[g] = jobs[g] \ {j} /\ \A h \in Goroutines \ {g} : jobs'[h] = jobs[h]
  BY DEF TypeOK, WorkersType
<1>5. ASSUME NEW h \in Goroutines, NEW k \in jobs'[h] PROVE status'[k.alert] # "TRIGGERED"
  <2>1. k \in jobs[h] /\ k.alert \in AlertIds
    BY <1>4, <1>5 DEF TypeOK, WorkersType, Jobs
  <2>2. CASE k.alert = j.alert
    <3>1. row[j.alert].stock = h[2]
      BY <1>1, <2>1, <2>2 DEF MatchInv
    <3>2. h = g
      <4>1. h[1] = g[1] /\ h[2] = g[2]
        BY <1>2, <3>1 DEF Goroutines, OneReplica
      <4> QED BY <4>1 DEF Goroutines
    <3> QED
      BY <1>4, <2>1, <2>2, <3>2 DEF MatchInv
  <2>3. CASE k.alert # j.alert
    BY <2>1, <2>3 DEF ClaimTriggered, TypeOK, TablesType, MatchInv
  <2> QED BY <2>2, <2>3
<1> QED
  BY <1>3, <1>4, <1>5, ShrinkingLists

\* A fresh list names each matching alert once, in its present arming.
LEMMA LoadedMatch ==
    ASSUME TypeOK, MatchInv, NEW g \in Goroutines, LoadAlerts(g)
    PROVE  MatchInv'
<1>1. /\ UNCHANGED tables /\ jobs' = [jobs EXCEPT ![g] = MatchingJobs(g[2], quote[g])]
  BY DEF LoadAlerts
<1>2. /\ UNCHANGED <<status, armings, row>>
      /\ jobs'[g] = MatchingJobs(g[2], quote[g]) /\ \A h \in Goroutines \ {g} : jobs'[h] = jobs[h]
  BY <1>1 DEF tables, TypeOK, WorkersType
<1>3. ASSUME NEW j \in MatchingJobs(g[2], quote[g])
      PROVE  /\ j.arming = armings[j.alert] /\ status[j.alert] = "ACTIVE"
             /\ row[j.alert].stock = g[2] /\ j.user = row[j.alert].user
             /\ j = [alert |-> j.alert, arming |-> j.arming, user |-> j.user]
  BY DEF MatchingJobs, ActiveAlerts, Active
<1>4. \A j, k \in jobs'[g] : k.alert = j.alert => k = j
  BY <1>2, <1>3
<1>5. ASSUME NEW h \in Goroutines, h # g, NEW j \in jobs'[h]
      PROVE  /\ j.arming = armings[j.alert] /\ status[j.alert] # "TRIGGERED"
             /\ status[j.alert] = "absent" \/ row[j.alert].stock = h[2]
             /\ \A k \in jobs'[h] : k.alert = j.alert => k = j
  BY <1>2, <1>5 DEF MatchInv
<1>6. \A j \in jobs'[g] : /\ j.arming = armings[j.alert] /\ status[j.alert] = "ACTIVE"
                          /\ row[j.alert].stock = g[2]
  BY <1>2, <1>3
<1> QED
  BY <1>2, <1>4, <1>5, <1>6 DEF MatchInv

\* MatchInv is inductive with TypeOK, with faults or without.
LEMMA MatchInvStep ==
    ASSUME OneReplica, TypeOK, MatchInv, [Next]_vars
    PROVE  MatchInv'
<1>1. ASSUME UNCHANGED tables, \A g \in Goroutines : jobs'[g] \subseteq jobs[g]
      PROVE  MatchInv'
  <2>1. \A g \in Goroutines : \A j \in jobs'[g] : status'[j.alert] # "TRIGGERED"
    BY <1>1 DEF tables, MatchInv
  <2> QED BY <1>1, <2>1, ShrinkingLists
<1>2. CASE (RequestStep \/ AdminStep) /\ UNCHANGED workers
  <2>1. jobs' = jobs /\ (TablesNext \/ UNCHANGED tables)
    BY <1>2, StepOnTables DEF workers, TypeOK
  <2>2. ASSUME NEW g \in Goroutines, NEW j \in jobs'[g] PROVE status'[j.alert] # "TRIGGERED"
    <3>1. j \in jobs[g] /\ j.alert \in AlertIds
      BY <2>1, <2>2 DEF TypeOK, WorkersType, Jobs
    <3> QED BY <1>2, <3>1, OthersTriggerNothing DEF MatchInv
  <2> QED BY <2>1, <2>2, ShrinkingLists
<1>3. CASE UNCHANGED vars
  BY <1>1, <1>3 DEF vars, workers
<1>4. ASSUME NEW g \in Goroutines, NEW j \in Jobs, Claim(g, j) \/ ClaimFailed(g, j)
      PROVE  MatchInv'
  <2>1. j \in jobs[g] /\ jobs' = [jobs EXCEPT ![g] = @ \ {j}]
    BY <1>4 DEF Claim, ClaimFailed, Skip
  <2>2. CASE ClaimTriggered(j.alert)
    BY <2>1, <2>2, ClaimKeepsMatch
  <2>3. CASE UNCHANGED tables
    BY <1>1, <2>1, <2>3 DEF TypeOK, WorkersType
  <2> QED BY <1>4, <2>2, <2>3 DEF Claim, ClaimFailed
<1>5. ASSUME NEW g \in Goroutines,
             \/ \E p \in Prices : FetchQuote(g, p)
             \/ \E j \in Jobs : ClaimMissed(g, j)
             \/ PushLine(g) \/ PushUnlinked(g) \/ Record(g) \/ RecordFailed(g)
      PROVE  MatchInv'
  <2>1. UNCHANGED tables /\ (jobs' = jobs \/ \E j \in Jobs : jobs' = [jobs EXCEPT ![g] = @ \ {j}])
    BY <1>5 DEF FetchQuote, ClaimMissed, Skip, PushLine, PushUnlinked, Record, RecordFailed, Resume
  <2>2. \A h \in Goroutines : jobs'[h] \subseteq jobs[h]
    BY <2>1 DEF TypeOK, WorkersType
  <2> QED BY <1>1, <2>1, <2>2
<1>6. ASSUME NEW gs \in SUBSET Goroutines, Reset(gs) PROVE MatchInv'
  BY <1>1, <1>6 DEF Reset
<1>7. CASE WorkerStep
  BY <1>4, <1>5, <1>6, <1>7, LoadedMatch
     DEF WorkerStep, GoroutineStep, Finish, LoadFailed, Stop
<1> QED
  BY <1>2, <1>3, <1>7 DEF Next

\* With one replica no goroutine claims an arming other than the one it has matched,
\* whatever owners, administrators, failures and restarts do between the two.
THEOREM ClaimsWhatItMatched ==
    ASSUME OneReplica
    PROVE  Spec => ClaimsTheArmingItMatched
<1>1. Init => MatchInv
  BY DEF Init, WorkersInit, MatchInv
<1>2. TypeOK /\ MatchInv /\ [Next]_vars => MatchInv'
  BY MatchInvStep
<1>3. MatchInv /\ [Next]_vars =>
        [\A g \in Goroutines, j \in Jobs : Claim(g, j) => j.arming = armings[j.alert]]_vars
  BY DEF MatchInv, Claim
<1> QED
  BY <1>1, <1>2, <1>3, TypeCorrect, PTL DEF Spec, ClaimsTheArmingItMatched

=============================================================================
