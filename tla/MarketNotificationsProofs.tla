---------------------- MODULE MarketNotificationsProofs ----------------------
(***************************************************************************)
(* Proofs about MarketNotifications, for every set of replicas and users   *)
(* and every interval, and about the calendar the announcements follow,    *)
(* for the years of three centuries.                                       *)
(***************************************************************************)
EXTENDS MarketNotifications, MarketCalendar, TLAPS

Holds(r) == phase[r] \in {"claimed", "pushing"}

\* Inductive with TypeOK: an event has one holder; until it has read the recipients
\* nobody was pushed to, and its recipients still to come have not been either.
OnceInv ==
    /\ \A r, q \in Replicas : Holds(r) /\ Holds(q) /\ event[r] = event[q] => r = q
    /\ \A e \in Events, u \in Users : pushes[e][u] > 0 =>
         /\ e \in keys
         /\ \A r \in Replicas : phase[r] = "claimed" => event[r] # e
    /\ \A r \in Replicas : \A u \in todo[r] :
         phase[r] = "pushing" => pushes[event[r]][u] = 0
    /\ AnnouncedOnce

\* Every step keeps the types; a key is deleted by the one replica that holds it.
LEMMA StepKeepsType == TypeOK /\ OnceInv /\ [Next]_vars => TypeOK'
<1> SUFFICES ASSUME TypeOK, OnceInv, [Next]_vars PROVE TypeOK'
  OBVIOUS
<1> USE Times DEF TypeOK, Move, Tick, Events
<1>1. CASE Pass
  BY <1>1 DEF Pass, replica
<1>2. ASSUME NEW r \in Replicas, Start(r) PROVE TypeOK'
  BY <1>2 DEF Start
<1>3. ASSUME NEW r \in Replicas, Stop(r) PROVE TypeOK'
  <2>1. /\ due' \in [Replicas -> 0..(Horizon + Interval)]
        /\ since' \in [Replicas -> 0..Horizon]
    BY <1>3 DEF Stop
  <2>2. harmed' \in SUBSET Events
    BY <1>3 DEF Stop
  <2> QED BY <2>1, <2>2, <1>3 DEF Stop
<1>4. ASSUME NEW r \in Replicas, Tick(r)
      PROVE  due' \in [Replicas -> 0..(Horizon + Interval)]
  BY <1>4
<1>5. ASSUME NEW r \in Replicas, CheckNothing(r) PROVE TypeOK'
  BY <1>4, <1>5 DEF CheckNothing
<1>6. ASSUME NEW r \in Replicas, NEW e \in Events, Claim(r, e) PROVE TypeOK'
  <2>1. due' \in [Replicas -> 0..(Horizon + Interval)]
    BY <1>4, <1>6 DEF Claim
  <2> QED BY <2>1, <1>6 DEF Claim
<1>7. ASSUME NEW r \in Replicas, NEW e \in Events, ClaimError(r, e) PROVE TypeOK'
  <2>1. due' \in [Replicas -> 0..(Horizon + Interval)]
    BY <1>4, <1>7 DEF ClaimError
  <2> QED BY <2>1, <1>7 DEF ClaimError
<1>8. ASSUME NEW r \in Replicas, Recipients(r) PROVE TypeOK'
  BY <1>8 DEF Recipients
<1>9. ASSUME NEW r \in Replicas, PushDone(r) PROVE TypeOK'
  BY <1>9 DEF PushDone
<1>10. ASSUME NEW r \in Replicas, RecipientsError(r) PROVE TypeOK'
  <2>1. failures' \in [Events -> Nat]
    BY <1>10 DEF RecipientsError
  <2>2. \A q \in Replicas : phase'[q] \in {"claimed", "pushing"} => event'[q] \in keys'
    BY <1>10 DEF RecipientsError, OnceInv, Holds
  <2> QED
    BY <2>1, <2>2, <1>10 DEF RecipientsError
<1>11. ASSUME NEW r \in Replicas, NEW u \in Users, Push(r, u) PROVE TypeOK'
  <2>1. pushes' \in [Events -> [Users -> Nat]]
    BY <1>11 DEF Push
  <2> QED
    BY <2>1, <1>11 DEF Push
<1>12. CASE UNCHANGED vars
  BY <1>12 DEF vars
<1> QED
  BY <1>1, <1>2, <1>3, <1>5, <1>6, <1>7, <1>8, <1>9, <1>10, <1>11, <1>12 DEF Next

\* A step claims an event without a holder, gives one back that nobody was pushed,
\* or pushes to a user the event has not reached.
LEMMA StepKeepsOnceInv == TypeOK /\ OnceInv /\ [Next]_vars => OnceInv'
<1> SUFFICES ASSUME TypeOK, OnceInv, [Next]_vars PROVE OnceInv'
  OBVIOUS
<1> USE DEF TypeOK, OnceInv, AnnouncedOnce, Holds, Move, Events
<1>1. CASE Pass \/ UNCHANGED vars
  BY <1>1 DEF Pass, replica, vars
<1>2. ASSUME NEW r \in Replicas, \/ Start(r) \/ Stop(r) \/ CheckNothing(r) \/ PushDone(r)
      PROVE  OnceInv'
  BY <1>2 DEF Start, Stop, CheckNothing, PushDone
<1>3. ASSUME NEW r \in Replicas, NEW e \in Events, Claim(r, e) PROVE OnceInv'
  BY <1>3 DEF Claim, Tick
<1>4. ASSUME NEW r \in Replicas, NEW e \in Events, ClaimError(r, e) PROVE OnceInv'
  BY <1>4 DEF ClaimError
<1>5. ASSUME NEW r \in Replicas, Recipients(r) PROVE OnceInv'
  <2>1. \A u \in Users : pushes[event[r]][u] = 0
    BY <1>5 DEF Recipients
  <2> QED
    BY <1>5, <2>1 DEF Recipients
<1>6. ASSUME NEW r \in Replicas, RecipientsError(r) PROVE OnceInv'
  BY <1>6 DEF RecipientsError
<1>7. ASSUME NEW r \in Replicas, NEW u \in Users, Push(r, u) PROVE OnceInv'
  <2>1. /\ phase[r] = "pushing" /\ event[r] \in keys /\ pushes[event[r]][u] = 0
        /\ pushes'[event[r]][u] = 1
        /\ \A e \in Events, x \in Users : e # event[r] \/ x # u => pushes'[e][x] = pushes[e][x]
    BY <1>7 DEF Push
  <2>2. /\ phase' = phase /\ event' = event /\ keys' = keys
        /\ todo'[r] = todo[r] \ {u}
        /\ \A q \in Replicas \ {r} : todo'[q] = todo[q]
    BY <1>7 DEF Push
  <2>3. \A q \in Replicas : \A x \in todo'[q] : phase'[q] = "pushing" => pushes'[event'[q]][x] = 0
    BY <2>1, <2>2
  <2>4. \A e \in Events, x \in Users : pushes'[e][x] <= 1
    BY <2>1
  <2>5. \A e \in Events, x \in Users : pushes'[e][x] > 0 =>
          e \in keys' /\ \A q \in Replicas : phase'[q] = "claimed" => event'[q] # e
    BY <2>1, <2>2
  <2> QED
    BY <2>2, <2>3, <2>4, <2>5
<1> QED
  BY <1>1, <1>2, <1>3, <1>4, <1>5, <1>6, <1>7 DEF Next

\* Both hold in every reachable state.
LEMMA Invariant == Spec => [](TypeOK /\ OnceInv)
<1>1. Init => TypeOK /\ OnceInv
  BY Times DEF Init, TypeOK, OnceInv, AnnouncedOnce, Holds, Events
<1> QED
  BY <1>1, StepKeepsType, StepKeepsOnceInv, PTL DEF Spec

\* Reachable states are well typed, and a replica in a check has its event's key.
THEOREM TypeCorrect == Spec => []TypeOK
  BY Invariant, PTL

\* No user gets the same announcement twice, for any number of replicas and users,
\* any interval, and with replicas stopping anywhere and Redis failing at any time.
THEOREM AnnouncesOnce == Spec => []AnnouncedOnce
<1>1. OnceInv => AnnouncedOnce
  BY DEF OnceInv
<1> QED
  BY <1>1, Invariant, PTL

-----------------------------------------------------------------------------
(***************************************************************************)
(* That an announcement reaches every user in time: what the ticks of a    *)
(* replica that was up at the event have left for a later check to do.     *)
(***************************************************************************)

Window == Interval + Minute
UpSince(r, e) == phase[r] # "stopped" /\ since[r] <= At[e] /\ At[e] <= now

\* Before this time falls the tick that follows n failed checks of the event.
TickBefore(e, n) == At[e] + Interval * (n + 1)

\* A replica that runs ticks again within an interval, and checks inside the window.
ClockInv ==
    \A r \in Replicas :
        /\ phase[r] # "stopped" => since[r] <= now /\ now <= due[r] /\ due[r] <= now + Interval
        /\ Holds(r) => InWindow(event[r])

\* While an unharmed event has no key, every tick of a replica that was up at the event
\* has been spent on a check that could not read the recipients; a check under way
\* has begun early enough for one more tick, should it fail too.
TicksInv ==
    \A e \in Events, r \in Replicas : UpSince(r, e) /\ e \notin harmed =>
        /\ e \notin keys /\ InWindow(e) => due[r] < TickBefore(e, failures[e])
        /\ e \notin keys /\ ~InWindow(e) => failures[e] >= Window \div Interval
        /\ \A q \in Replicas : phase[q] = "claimed" /\ event[q] = e =>
             now < TickBefore(e, failures[e])

\* The key of an unharmed event stands for a check under way or an event announced;
\* whoever is no longer to be pushed to has been.
DeliveryInv ==
    /\ \A e \in keys \ harmed : \/ \E q \in Replicas : Holds(q) /\ event[q] = e
                                \/ \A u \in Users : pushes[e][u] > 0
    /\ \A q \in Replicas : phase[q] = "pushing" =>
         \A u \in Users \ todo[q] : pushes[event[q]][u] > 0

\* The market does not close before the window of its opening is over.
LEMMA OneWindow == \A e, f \in Events : InWindow(e) /\ InWindow(f) /\ now \in Nat => e = f
  BY Times DEF InWindow, At, Events

\* A tick later than all of those before the n-th failure leaves n of them in the window.
LEMMA TicksInWindow ==
    \A n \in Nat, d \in Nat : Window < d /\ d < Interval * (n + 1) => n >= Window \div Interval
<1> SUFFICES ASSUME NEW n \in Nat, NEW d \in Nat, Window < d, d < Interval * (n + 1),
                    n < Window \div Interval
             PROVE  FALSE
  BY Times DEF Window
<1> DEFINE L == Window \div Interval
<1>1. /\ Window \in Nat /\ Interval \in Nat /\ Interval > 0
  BY Times DEF Window
<1>2. L \in Nat /\ Interval * L <= Window
  BY <1>1, Z3
<1> HIDE DEF L
<1>3. Interval * (n + 1) <= Interval * L
  <2>1. L - (n + 1) \in Nat /\ L = n + 1 + (L - (n + 1))
    BY <1>2 DEF L
  <2>2. PICK k \in Nat : L = n + 1 + k
    BY <2>1
  <2>3. Interval * L = Interval * (n + 1) + Interval * k /\ Interval * k \in Nat
    BY <2>2, <1>1
  <2> QED BY <2>3, <1>1
<1> QED
  BY <1>1, <1>2, <1>3

\* Each failure leaves an interval more.
LEMMA TickBeforeGrows ==
    \A e \in Events, n \in Nat :
        /\ At[e] \in Nat /\ TickBefore(e, n) \in Nat
        /\ At[e] + Interval <= TickBefore(e, n)
        /\ TickBefore(e, n + 1) = TickBefore(e, n) + Interval
<1> SUFFICES ASSUME NEW e \in Events, NEW n \in Nat
             PROVE  /\ At[e] \in Nat /\ TickBefore(e, n) \in Nat
                    /\ At[e] + Interval <= TickBefore(e, n)
                    /\ TickBefore(e, n + 1) = TickBefore(e, n) + Interval
  OBVIOUS
<1>1. At[e] \in Nat /\ Interval \in Nat
  BY Times DEF At, Events
<1>2. /\ Interval * n \in Nat /\ Interval * (n + 1) = Interval * n + Interval
      /\ Interval * ((n + 1) + 1) = Interval * n + Interval + Interval
  BY <1>1
<1> QED
  BY <1>1, <1>2 DEF TickBefore

\* Time passes only when no check is under way or due, so a tick is never late.
LEMMA StepKeepsClock == TypeOK /\ OnceInv /\ ClockInv /\ [Next]_vars => ClockInv'
<1> SUFFICES ASSUME TypeOK, OnceInv, ClockInv, [Next]_vars PROVE ClockInv'
  OBVIOUS
<1> USE Times DEF TypeOK, ClockInv, Holds, Move, InWindow
<1>1. CASE Pass
  BY <1>1 DEF Pass, replica
<1>2. ASSUME NEW r \in Replicas,
             \/ Start(r) \/ Stop(r) \/ Recipients(r) \/ RecipientsError(r) \/ PushDone(r)
             \/ \E u \in Users : Push(r, u)
      PROVE  ClockInv'
  BY <1>2 DEF Start, Stop, Recipients, RecipientsError, PushDone, Push
<1>3. ASSUME NEW r \in Replicas, \/ CheckNothing(r) \/ \E e \in Events : Claim(r, e) \/ ClaimError(r, e)
      PROVE  ClockInv'
  BY <1>3 DEF CheckNothing, Claim, ClaimError, Tick
<1>4. CASE UNCHANGED vars
  BY <1>4 DEF vars
<1> QED
  BY <1>1, <1>2, <1>3, <1>4 DEF Next

\* A claim is given up for the unharmed by a failed read alone, and only an announcement
\* to everybody ends a check that has read the recipients.
LEMMA StepKeepsDelivery ==
    TypeOK /\ OnceInv /\ DeliveryInv /\ [Next]_vars => DeliveryInv'
<1> SUFFICES ASSUME TypeOK, OnceInv, DeliveryInv, [Next]_vars PROVE DeliveryInv'
  OBVIOUS
<1> USE DEF TypeOK, DeliveryInv, Holds, Move
<1>1. CASE Pass \/ UNCHANGED vars
  BY <1>1 DEF Pass, replica, vars
<1>2. ASSUME NEW r \in Replicas, Start(r) \/ Stop(r) \/ CheckNothing(r) PROVE DeliveryInv'
  BY <1>2 DEF Start, Stop, CheckNothing, Tick
<1>3. ASSUME NEW r \in Replicas, NEW e \in Events, Claim(r, e) PROVE DeliveryInv'
  BY <1>3 DEF Claim, Tick
<1>4. ASSUME NEW r \in Replicas, NEW e \in Events, ClaimError(r, e) PROVE DeliveryInv'
  BY <1>4 DEF ClaimError, Tick
<1>5. ASSUME NEW r \in Replicas, Recipients(r) PROVE DeliveryInv'
  BY <1>5 DEF Recipients
<1>6. ASSUME NEW r \in Replicas, RecipientsError(r) PROVE DeliveryInv'
  BY <1>6 DEF RecipientsError, OnceInv
<1>7. ASSUME NEW r \in Replicas, PushDone(r) PROVE DeliveryInv'
  BY <1>7 DEF PushDone
<1>8. ASSUME NEW r \in Replicas, NEW u \in Users, Push(r, u) PROVE DeliveryInv'
  <2>1. /\ phase[r] = "pushing" /\ pushes'[event[r]][u] = pushes[event[r]][u] + 1
        /\ \A e \in Events, x \in Users : pushes[e][x] > 0 => pushes'[e][x] > 0
    BY <1>8 DEF Push
  <2>2. /\ phase' = phase /\ event' = event /\ keys' = keys /\ harmed' = harmed
        /\ todo'[r] = todo[r] \ {u}
        /\ \A q \in Replicas \ {r} : todo'[q] = todo[q]
    BY <1>8 DEF Push
  <2>3. \A q \in Replicas : phase'[q] = "pushing" =>
          \A x \in Users \ todo'[q] : pushes'[event'[q]][x] > 0
    BY <2>1, <2>2
  <2> QED
    BY <2>1, <2>2, <2>3
<1> QED
  BY <1>1, <1>2, <1>3, <1>4, <1>5, <1>6, <1>7, <1>8 DEF Next

\* While the event has no key, a check that finds nothing to do is outside its window.
LEMMA StepKeepsTicks ==
    TypeOK /\ OnceInv /\ ClockInv /\ TicksInv /\ [Next]_vars => TicksInv'
<1> SUFFICES ASSUME TypeOK, OnceInv, ClockInv, TicksInv, [Next]_vars PROVE TicksInv'
  OBVIOUS
<1>0. /\ now \in Nat /\ Interval \in Nat /\ Minute \in Nat
      /\ \A e \in Events : At[e] \in Nat /\ failures[e] \in Nat
      /\ \A r \in Replicas : due[r] \in Nat /\ since[r] \in Nat /\ event[r] \in Events
  BY Times, TickBeforeGrows DEF TypeOK
<1>1. CASE Pass
  <2> SUFFICES ASSUME NEW e \in Events, NEW r \in Replicas, UpSince(r, e)', e \notin harmed'
               PROVE  /\ e \notin keys' /\ InWindow(e)' => due'[r] < TickBefore(e, failures'[e])
                      /\ e \notin keys' /\ ~InWindow(e)' => failures'[e] >= Window \div Interval
                      /\ \A q \in Replicas : phase'[q] = "claimed" /\ event'[q] = e =>
                           now' < TickBefore(e, failures'[e])
    BY DEF TicksInv
  <2>1. /\ now' = now + 1 /\ due' = due /\ since' = since /\ phase' = phase /\ keys' = keys
        /\ failures' = failures /\ harmed' = harmed /\ event' = event
        /\ phase[r] = "waiting" /\ now < due[r] /\ due[r] <= now + Interval
        /\ \A q \in Replicas : phase[q] # "claimed"
    BY <1>1 DEF Pass, replica, ClockInv, UpSince
  <2>2. ASSUME e \notin keys, now' = At[e]
        PROVE  InWindow(e)' /\ due'[r] < TickBefore(e, failures'[e])
    BY <1>0, <2>1, <2>2, TickBeforeGrows DEF InWindow
  <2>3. ASSUME e \notin keys, now' # At[e], InWindow(e)'
        PROVE  due'[r] < TickBefore(e, failures'[e])
    <3>1. UpSince(r, e) /\ InWindow(e)
      BY <1>0, <2>1, <2>3 DEF InWindow, UpSince
    <3> QED BY <2>1, <2>3, <3>1 DEF TicksInv
  <2>4. ASSUME e \notin keys, now' # At[e], ~InWindow(e)'
        PROVE  failures'[e] >= Window \div Interval
    <3>1. UpSince(r, e)
      BY <1>0, <2>1, <2>4 DEF UpSince
    <3>2. CASE InWindow(e)
      <4>1. due[r] < TickBefore(e, failures[e]) /\ At[e] + Window < due[r]
        BY <1>0, <2>1, <2>4, <3>1, <3>2 DEF TicksInv, InWindow, Window
      <4>2. /\ due[r] - At[e] \in Nat /\ Window < due[r] - At[e]
            /\ due[r] - At[e] < Interval * (failures[e] + 1)
        <5>1. Window \in Nat /\ TickBefore(e, failures[e]) \in Nat
          BY <1>0, TickBeforeGrows DEF Window
        <5>2. Interval * (failures[e] + 1) = TickBefore(e, failures[e]) - At[e]
          <6> DEFINE T == Interval * (failures[e] + 1)
          <6>1. T \in Nat
            BY <1>0
          <6> HIDE DEF T
          <6>2. TickBefore(e, failures[e]) = At[e] + T
            BY DEF TickBefore, T
          <6>3. T = TickBefore(e, failures[e]) - At[e]
            BY <1>0, <6>1, <6>2
          <6> QED BY <6>3 DEF T
        <5> QED BY <1>0, <4>1, <5>1, <5>2
      <4> QED BY <1>0, <4>2, <2>1, TicksInWindow
    <3>3. CASE ~InWindow(e)
      BY <1>0, <2>1, <2>4, <3>1, <3>3 DEF TicksInv
    <3> QED BY <3>2, <3>3
  <2> QED
    BY <2>1, <2>2, <2>3, <2>4
<1>2. ASSUME NEW r \in Replicas, Start(r) PROVE TicksInv'
  <2>1. /\ phase[r] = "stopped" /\ phase' = [phase EXCEPT ![r] = "waiting"]
        /\ due' = [due EXCEPT ![r] = now] /\ since' = [since EXCEPT ![r] = now]
        /\ UNCHANGED <<now, event, keys, failures, harmed>>
    BY <1>2 DEF Start, Move
  <2>2. ASSUME NEW e \in Events, UpSince(r, e)'
        PROVE  now = At[e] /\ InWindow(e)' /\ now < TickBefore(e, failures[e])
    <3>1. since'[r] = now /\ now' = now
      BY <2>1 DEF TypeOK
    <3>2. now = At[e]
      BY <1>0, <2>2, <3>1 DEF UpSince
    <3>3. Interval > 0 /\ At[e] + Interval <= TickBefore(e, failures[e])
          /\ TickBefore(e, failures[e]) \in Nat
      BY <1>0, Times, TickBeforeGrows
    <3> QED BY <1>0, <3>1, <3>2, <3>3 DEF InWindow
  <2>3. ASSUME NEW e \in Events, NEW q \in Replicas \ {r}, UpSince(q, e)'
        PROVE  UpSince(q, e) /\ due'[q] = due[q]
    BY <2>1, <2>3 DEF UpSince, TypeOK
  <2>4. \A e \in Events : InWindow(e)' <=> InWindow(e)
    BY <2>1 DEF InWindow
  <2>5. \A q \in Replicas : phase'[q] = "claimed" => phase[q] = "claimed"
    BY <2>1 DEF TypeOK
  <2>6. due'[r] = now
    BY <2>1 DEF TypeOK
  <2> QED BY <2>1, <2>2, <2>3, <2>4, <2>5, <2>6 DEF TicksInv
<1>3. ASSUME NEW r \in Replicas, \/ Stop(r) \/ Recipients(r) \/ PushDone(r)
                                 \/ \E u \in Users : Push(r, u)
      PROVE  TicksInv'
  <2>1. /\ UNCHANGED <<now, event, keys, failures>> /\ harmed \subseteq harmed'
        /\ \A q \in Replicas : phase'[q] # "stopped" =>
             phase[q] # "stopped" /\ since'[q] = since[q] /\ due'[q] = due[q]
        /\ \A q \in Replicas : phase'[q] = "claimed" => phase[q] = "claimed"
    BY <1>3 DEF Stop, Recipients, PushDone, Push, Move, TypeOK
  <2> QED
    BY <2>1 DEF TicksInv, UpSince, InWindow
<1>4. ASSUME NEW r \in Replicas, CheckNothing(r) PROVE TicksInv'
  <2>1. /\ UNCHANGED <<now, since, phase, event, keys, failures, harmed>>
        /\ \A e \in Events : InWindow(e) => e \in keys
    BY <1>4 DEF CheckNothing
  <2> QED
    BY <2>1 DEF TicksInv, UpSince, InWindow
<1>5. ASSUME NEW r \in Replicas, NEW e \in Events, ClaimError(r, e) \/ Claim(r, e)
      PROVE  TicksInv'
  <2>1. /\ UNCHANGED <<now, since, failures>> /\ harmed \subseteq harmed'
        /\ InWindow(e) /\ phase[r] = "waiting"
        /\ keys \subseteq keys' /\ (e \in harmed' \/ e \in keys')
        /\ \A q \in Replicas : phase'[q] # "stopped" => phase[q] # "stopped"
        /\ \A q \in Replicas : phase'[q] = "claimed" =>
             \/ phase[q] = "claimed" /\ event'[q] = event[q]
             \/ event'[q] = e /\ e \notin keys
    BY <1>5 DEF ClaimError, Claim, Tick, Move, TypeOK
  <2>2. \A f \in Events : InWindow(f) => f = e
    BY <1>0, <2>1, OneWindow
  <2>3. ASSUME NEW x \in Replicas, UpSince(x, e), e \notin harmed, e \notin keys
        PROVE  now < TickBefore(e, failures[e])
    <3>1. due[x] < TickBefore(e, failures[e]) /\ now <= due[x]
      BY <2>1, <2>3 DEF TicksInv, ClockInv, UpSince
    <3> QED BY <1>0, <3>1, TickBeforeGrows
  <2> QED
    BY <2>1, <2>2, <2>3 DEF TicksInv, UpSince, InWindow
<1>6. ASSUME NEW r \in Replicas, RecipientsError(r) PROVE TicksInv'
  <2> SUFFICES ASSUME NEW e \in Events, e = event[r] PROVE TicksInv'
    BY <1>0
  <2>1. /\ phase[r] = "claimed" /\ InWindow(e) /\ e \in keys
        /\ \A q \in Replicas : phase[q] = "claimed" /\ event[q] = e => q = r
    BY <1>6 DEF RecipientsError, ClockInv, OnceInv, Holds, TypeOK
  <2>2. /\ phase' = [phase EXCEPT ![r] = "waiting"]
        /\ failures' = [failures EXCEPT ![e] = @ + 1]
        /\ keys \ {e} \subseteq keys' /\ harmed \subseteq harmed'
        /\ UNCHANGED <<now, due, since, event>>
    BY <1>6 DEF RecipientsError, Move
  <2>3. /\ \A q \in Replicas : phase'[q] # "stopped" => phase[q] # "stopped"
        /\ \A q \in Replicas : phase'[q] = "claimed" => phase[q] = "claimed" /\ q # r
        /\ failures'[e] = failures[e] + 1
        /\ \A f \in Events : f # e => failures'[f] = failures[f]
    BY <2>1, <2>2 DEF TypeOK
  <2>4. ASSUME NEW x \in Replicas, UpSince(x, e), e \notin harmed
        PROVE  due[x] < TickBefore(e, failures[e] + 1)
    <3>1. now < TickBefore(e, failures[e]) /\ due[x] <= now + Interval
      BY <2>4, <2>1 DEF TicksInv, ClockInv, UpSince
    <3> QED BY <1>0, <3>1, TickBeforeGrows
  <2> QED BY <2>1, <2>2, <2>3, <2>4 DEF TicksInv, UpSince, InWindow
<1>7. CASE UNCHANGED vars
  BY <1>7 DEF vars, TicksInv, InWindow, UpSince
<1> QED
  BY <1>1, <1>2, <1>3, <1>4, <1>5, <1>6, <1>7 DEF Next

\* The four parts hold in every reachable state.
LEMMA TimelyInvariant == Spec => [](TypeOK /\ OnceInv /\ ClockInv /\ TicksInv /\ DeliveryInv)
<1>1. Init => ClockInv /\ TicksInv /\ DeliveryInv
  BY DEF Init, ClockInv, TicksInv, DeliveryInv, Holds, UpSince
<1> QED
  BY <1>1, Invariant, StepKeepsClock, StepKeepsTicks, StepKeepsDelivery, PTL DEF Spec

\* An announcement reaches every user by the end of its window if a replica was up at
\* the event, Redis and the checks of the event went unharmed and fewer reads of the
\* recipients failed than a window has ticks: for every interval and any replicas.
THEOREM AnnouncesInTime == Spec => []AnnouncedInTime
<1>1. TypeOK /\ ClockInv /\ TicksInv /\ DeliveryInv => AnnouncedInTime
  <2> SUFFICES ASSUME TypeOK, ClockInv, TicksInv, DeliveryInv,
                      NEW e \in Events, NEW r \in Replicas,
                      phase[r] # "stopped", since[r] <= At[e], now > At[e] + Interval + Minute,
                      e \notin harmed, failures[e] < (Interval + Minute) \div Interval,
                      NEW u \in Users
               PROVE  pushes[e][u] > 0
    BY DEF AnnouncedInTime
  <2>0. At[e] \in Nat /\ Interval \in Nat /\ Minute \in Nat /\ now \in Nat
    BY Times DEF At, Events, TypeOK
  <2>1. UpSince(r, e) /\ ~InWindow(e)
    BY <2>0 DEF UpSince, InWindow
  <2>2. (Interval + Minute) \div Interval \in Nat
    BY Times
  <2>3. e \in keys
    BY <2>1, <2>2 DEF TicksInv, Window, TypeOK
  <2> QED
    BY <2>1, <2>3 DEF DeliveryInv, ClockInv
<1> QED
  BY <1>1, TimelyInvariant, PTL

-----------------------------------------------------------------------------
(* The market calendar: arithmetic of days                                  *)

\* The years the search may look at; the rule of the full moon is that of these centuries.
Centuries == FirstYear \in 1900..LastYear /\ LastYear <= 2198
Years == FirstYear..(LastYear + 1)

Leaped(y) == IF Leap(y) THEN 1 ELSE 0

\* Date with the months as days after the first of January.
LEMMA Months ==
    ASSUME NEW y \in Int, NEW d \in Int
    PROVE  /\ Date(y, 1, d) = YearStart(y) + d - 1
           /\ Date(y, 2, d) = YearStart(y) + 31 + d - 1
           /\ Date(y, 3, d) = YearStart(y) + 59 + Leaped(y) + d - 1
           /\ Date(y, 4, d) = YearStart(y) + 90 + Leaped(y) + d - 1
           /\ Date(y, 5, d) = YearStart(y) + 120 + Leaped(y) + d - 1
           /\ Date(y, 6, d) = YearStart(y) + 151 + Leaped(y) + d - 1
           /\ Date(y, 7, d) = YearStart(y) + 181 + Leaped(y) + d - 1
           /\ Date(y, 9, d) = YearStart(y) + 243 + Leaped(y) + d - 1
           /\ Date(y, 11, d) = YearStart(y) + 304 + Leaped(y) + d - 1
           /\ Date(y, 12, d) = YearStart(y) + 334 + Leaped(y) + d - 1
<1>1. YearStart(y) \in Int
    BY DEF YearStart
<1>2. /\ MonthStart[1] = 0 /\ MonthStart[2] = 31 /\ MonthStart[3] = 59 /\ MonthStart[4] = 90
      /\ MonthStart[5] = 120 /\ MonthStart[6] = 151 /\ MonthStart[7] = 181
      /\ MonthStart[9] = 243 /\ MonthStart[11] = 304 /\ MonthStart[12] = 334
    BY DEF MonthStart
<1> QED BY <1>1, <1>2 DEF Date, Leaped

\* The first day of a year is a number, and so is its leap day.
LEMMA YearType ==
    ASSUME NEW y \in Int
    PROVE  YearStart(y) \in Int /\ Leaped(y) \in Int /\ Leaped(y) \in 0..1
BY DEF YearStart, Leaped

\* A year has 365 days, or 366, and years follow each other.
LEMMA YearsFollow ==
    ASSUME NEW y \in Int
    PROVE  /\ YearStart(y) \in Int /\ Leaped(y) \in 0..1
           /\ YearStart(y + 1) = YearStart(y) + 365 + Leaped(y)
           /\ \A z \in Int : y < z => YearStart(y + 1) <= YearStart(z)
<1>1. YearStart(y) \in Int /\ Leaped(y) \in 0..1
    BY DEF YearStart, Leaped
<1>2. YearStart(y + 1) = YearStart(y) + 365 + Leaped(y)
    BY DEF YearStart, Leaped, Leap
<1>3. ASSUME NEW z \in Int, y < z
      PROVE  YearStart(y + 1) <= YearStart(z)
    BY <1>3 DEF YearStart
<1> QED BY <1>1, <1>2, <1>3

\* A day has one year, the one YearOf finds.
LEMMA YearIs ==
    ASSUME NEW y \in (FirstYear - 1)..(LastYear + 2), NEW day \in Int,
           YearStart(y) <= day, day < YearStart(y + 1)
    PROVE  YearOf(day) = y
<1>1. FirstYear \in Nat /\ LastYear \in Nat
    BY CalendarAssumption
<1>2. \A z \in (FirstYear - 1)..(LastYear + 2) :
        YearStart(z) <= day /\ day < YearStart(z + 1) => z = y
  <2> SUFFICES ASSUME NEW z \in (FirstYear - 1)..(LastYear + 2),
                      YearStart(z) <= day, day < YearStart(z + 1)
               PROVE  z = y
      OBVIOUS
  <2>1. y \in Int /\ z \in Int
      BY <1>1
  <2>2. /\ YearStart(y) \in Int /\ YearStart(y + 1) \in Int
        /\ YearStart(z) \in Int /\ YearStart(z + 1) \in Int
        /\ y < z => YearStart(y + 1) <= YearStart(z)
        /\ z < y => YearStart(z + 1) <= YearStart(y)
    <3>1. y + 1 \in Int /\ z + 1 \in Int
        BY <2>1
    <3> QED BY <2>1, <3>1, YearsFollow
  <2> QED BY <2>1, <2>2
<1> QED BY <1>2 DEF YearOf

\* The days of the week repeat.
LEMMA Weekdays ==
    ASSUME NEW day \in Int
    PROVE  /\ Weekday(day) \in 0..6
           /\ \A w \in 0..6, first \in Int :
                first + ((w - Weekday(first)) % 7) = day
                  <=> Weekday(day) = w /\ day - first \in 0..6
           /\ \A w \in 0..6, last \in Int :
                last - ((Weekday(last) - w) % 7) = day
                  <=> Weekday(day) = w /\ last - day \in 0..6
           /\ Weekday(day + 1) = (Weekday(day) + 1) % 7
           /\ Weekday(day - 1) = (Weekday(day) + 6) % 7
<1>1. Weekday(day) \in 0..6
    BY DEF Weekday
<1>2. ASSUME NEW w \in 0..6, NEW first \in Int
      PROVE first + ((w - Weekday(first)) % 7) = day
                  <=> Weekday(day) = w /\ day - first \in 0..6
    BY SMTT(60) DEF Weekday
<1>3. ASSUME NEW w \in 0..6, NEW last \in Int
      PROVE last - ((Weekday(last) - w) % 7) = day
                  <=> Weekday(day) = w /\ last - day \in 0..6
    BY SMTT(60) DEF Weekday
<1>4. Weekday(day + 1) = (Weekday(day) + 1) % 7
    BY DEF Weekday
<1>5. Weekday(day - 1) = (Weekday(day) + 6) % 7
    BY DEF Weekday
<1> QED BY <1>1, <1>2, <1>3, <1>4, <1>5

\* The code's h, l and m, where its correction for the century is that of these centuries.
Age(y) == (19 * (y % 19) + 24) % 30
Wait(y) == (32 + 2 * ((y \div 100) % 4) + 2 * ((y % 100) \div 4) - Age(y) - ((y % 100) % 4)) % 7
Late(y) == ((y % 19) + 11 * Age(y) + 22 * Wait(y)) \div 451

\* In these three centuries the code's correction for the century is the same.
LEMMA EasterNumbers ==
    ASSUME NEW y \in 1900..2199
    PROVE  easterSunday(y)
             = YearStart(y) + 59 + Leaped(y) + 20 + Age(y) + Wait(y) - 7 * Late(y) + 1
<1> DEFINE a == y % 19
           b == y \div 100
           c == y % 100
           g == (b - ((b + 8) \div 25) + 1) \div 3
           h == (19 * a + b - (b \div 4) - g + 15) % 30
           l == (32 + 2 * (b % 4) + 2 * (c \div 4) - h - (c % 4)) % 7
           m == (a + 11 * h + 22 * l) \div 451
           n == h + l - 7 * m + 114
<1>0. y \in Int
    OBVIOUS
<1>1. b \in 19..21 /\ a \in 0..18 /\ c \in 0..99
    OBVIOUS
<1>2. b - (b \div 4) - g + 15 = 24
    BY <1>1
<1>3. easterSunday(y) = Date(y, n \div 31, (n % 31) + 1)
    BY DEF easterSunday
<1>4. h = (19 * a + 24) % 30
  <2> HIDE DEF g, a, b
  <2>1. g \in Int
    BY <1>1 DEF g
  <2> QED BY <1>1, <1>2, <2>1
<1>5. h \in 0..29 /\ l \in 0..6
  <2>1. h \in 0..29
    BY <1>4, <1>1
  <2> HIDE DEF h
  <2>2. l \in 0..6
    BY <2>1, <1>1
  <2> QED BY <2>1, <2>2
<1> HIDE DEF h, l, a
<1>6. m \in 0..1
    BY <1>1, <1>5
<1> HIDE DEF m
<1>7. n \in 93..154
  <2>1. m = 1 => a + 11 * h + 22 * l >= 451
    BY <1>1, <1>5 DEF m
  <2> QED BY <1>1, <1>5, <1>6, <2>1
<1>8. Date(y, n \div 31, (n % 31) + 1) = YearStart(y) + 59 + Leaped(y) + n - 93
  <2>1. YearStart(y) \in Int /\ Leaped(y) \in Int
    BY <1>0, YearType
  <2> HIDE DEF n
  <2>2. CASE n < 124
    <3>1. n \div 31 = 3 /\ (n % 31) + 1 = n - 92
      BY <1>7, <2>2
    <3>2. Date(y, 3, n - 92) = YearStart(y) + 59 + Leaped(y) + (n - 92) - 1
      BY <1>0, <1>7, Months
    <3> QED BY <1>7, <2>1, <3>1, <3>2
  <2>3. CASE n >= 124
    <3>1. n \div 31 = 4 /\ (n % 31) + 1 = n - 123
      BY <1>7, <2>3
    <3>2. Date(y, 4, n - 123) = YearStart(y) + 90 + Leaped(y) + (n - 123) - 1
      BY <1>0, <1>7, Months
    <3> QED BY <1>7, <2>1, <3>1, <3>2
  <2> QED BY <1>7, <2>2, <2>3
<1>9. YearStart(y) \in Int /\ Leaped(y) \in Int
    BY <1>0, YearType
<1>10. easterSunday(y) = YearStart(y) + 59 + Leaped(y) + 20 + h + l - 7 * m + 1
    BY <1>3, <1>5, <1>6, <1>8, <1>9
<1> QED BY <1>4, <1>10 DEF a, l, m, Age, Wait, Late

\* Easter is a Sunday in the week after the full moon.
LEMMA EasterFollowsFullMoon ==
    ASSUME NEW y \in 1900..2199
    PROVE  /\ easterSunday(y) \in Int /\ FullMoon(y) \in Int
           /\ Weekday(easterSunday(y)) = 0
           /\ easterSunday(y) - FullMoon(y) \in 1..7
<1> DEFINE a == y % 19
           b == y \div 100
           c == y % 100
           h == (19 * a + 24) % 30
           l == (32 + 2 * (b % 4) + 2 * (c \div 4) - h - (c % 4)) % 7
           m == (a + 11 * h + 22 * l) \div 451
           spring == YearStart(y) + 59 + Leaped(y) + 20
<1>0. y \in Int
    OBVIOUS
<1>1. easterSunday(y) = spring + h + l - 7 * m + 1
  <2>1. Age(y) = h /\ Wait(y) = l /\ Late(y) = m
    BY DEF Age, Wait, Late
  <2> HIDE DEF h, l, m
  <2> QED BY <2>1, EasterNumbers
<1>2. spring \in Int /\ Date(y, 3, 21) = spring
  <2>1. YearStart(y) \in Int /\ Leaped(y) \in Int
    BY <1>0, YearType
  <2>2. Date(y, 3, 21) = YearStart(y) + 59 + Leaped(y) + 21 - 1
    BY <1>0, Months
  <2> QED BY <2>1, <2>2
<1>3. FullMoon(y) = spring + (IF h = 29 \/ (h = 28 /\ a > 10) THEN h - 1 ELSE h)
    BY <1>2 DEF FullMoon
<1>4. a \in 0..18 /\ b \in 19..21 /\ c \in 0..99 /\ y = 100 * b + c
    OBVIOUS
<1>5. h \in 0..29
    BY <1>4
<1>6. (spring + 39 + 2 * (b % 4) + 2 * (c \div 4) - (c % 4)) % 7 = 0
  <2>1. CASE b = 19
    BY <1>4, <2>1 DEF YearStart, Leaped, Leap
  <2>2. CASE b = 20
    BY <1>4, <2>2 DEF YearStart, Leaped, Leap
  <2>3. CASE b = 21
    BY <1>4, <2>3 DEF YearStart, Leaped, Leap
  <2> HIDE DEF b
  <2> QED BY <1>4, <2>1, <2>2, <2>3
<1>7. l \in 0..6 /\ (h + l - (32 + 2 * (b % 4) + 2 * (c \div 4) - (c % 4))) % 7 = 0
  <2> HIDE DEF h, b, c
  <2> QED BY <1>4, <1>5
<1> HIDE DEF h, l, a, b, c, spring
<1>8. m \in 0..1 /\ (m = 1 <=> l = 6 /\ (h = 29 \/ (h = 28 /\ a > 10)))
    BY <1>4, <1>5, <1>7
<1> HIDE DEF m
<1>9. easterSunday(y) - FullMoon(y) \in 1..7 /\ easterSunday(y) \in Int /\ FullMoon(y) \in Int
    BY <1>1, <1>2, <1>3, <1>5, <1>7, <1>8
<1>10. Weekday(easterSunday(y)) = 0
    BY <1>1, <1>2, <1>4, <1>5, <1>6, <1>7, <1>8 DEF Weekday
<1> QED BY <1>9, <1>10

-----------------------------------------------------------------------------
(* The code's holidays are those of the exchanges                           *)

\* The holidays with a date, as days after the first of January.
LEMMA FixedDays ==
    ASSUME NEW y \in (FirstYear - 1)..(LastYear + 2), NEW day \in Int,
           YearStart(y) <= day, day < YearStart(y + 1)
    PROVE  Fixed(day) <=> \/ day - YearStart(y) \in {0, 184 + Leaped(y), 358 + Leaped(y)}
                          \/ day - YearStart(y) = 169 + Leaped(y) /\ y >= 2022
<1>1. YearOf(day) = y
    BY YearIs
<1>2. y \in Int
    BY CalendarAssumption
<1>3. YearStart(y) \in Int /\ Leaped(y) \in Int
    BY <1>2, YearType
<1>4. /\ Date(y, 1, 1) = YearStart(y) + 1 - 1
      /\ Date(y, 6, 19) = YearStart(y) + 151 + Leaped(y) + 19 - 1
      /\ Date(y, 7, 4) = YearStart(y) + 181 + Leaped(y) + 4 - 1
      /\ Date(y, 12, 25) = YearStart(y) + 334 + Leaped(y) + 25 - 1
    BY <1>2, Months
<1> QED BY <1>1, <1>3, <1>4 DEF Fixed

\* A weekday is the observed day of a holiday on it, of a Saturday after a Friday, or of a
\* Sunday before a Monday.
LEMMA ObservedDays ==
    ASSUME NEW day \in Int, Weekday(day) \in 1..5, NEW d \in Int
    PROVE  observedHoliday(d) = day <=> \/ day = d
                                        \/ Weekday(day) = 5 /\ day + 1 = d
                                        \/ Weekday(day) = 1 /\ day - 1 = d
BY DEF observedHoliday, Weekday, Saturday, Sunday

\* isUSMarketHoliday is ExchangeHoliday on weekdays: case by case of the code's list, by the
\* place of the day in its year.
LEMMA HolidaysAgree ==
    ASSUME Centuries, NEW y \in Years, NEW day \in Int,
           YearStart(y) <= day, day < YearStart(y + 1), Weekday(day) \in 1..5
    PROVE  isUSMarketHoliday(day) <=> ExchangeHoliday(day)
<1> DEFINE Y == YearStart(y)
           L == Leaped(y)
           w == Weekday(day)
           n == day - Y
<1>1. /\ y \in 1900..2199 /\ y \in Int /\ y + 1 \in Int /\ y - 1 \in Int
      /\ y - 1 \in (FirstYear - 1)..(LastYear + 2)
      /\ y \in (FirstYear - 1)..(LastYear + 2) /\ y + 1 \in (FirstYear - 1)..(LastYear + 2)
    BY CalendarAssumption DEF Centuries, Years
<1>2. YearOf(day) = y
    BY <1>1, YearIs
<1>3. /\ Y \in Int /\ L \in 0..1
      /\ YearStart(y + 1) = Y + 365 + L
      /\ YearStart(y - 1) \in Int /\ Leaped(y - 1) \in 0..1
      /\ Y = YearStart(y - 1) + 365 + Leaped(y - 1)
      /\ YearStart(y + 2) \in Int /\ YearStart(y + 2) > YearStart(y + 1)
  <2>1. Y \in Int /\ L \in 0..1 /\ YearStart(y - 1) \in Int /\ Leaped(y - 1) \in 0..1
        /\ Leaped(y + 1) \in 0..1 /\ YearStart(y + 1) \in Int
    BY <1>1, YearType
  <2>2. YearStart(y + 1) = Y + 365 + L
    BY <1>1, YearsFollow
  <2>3. YearStart((y - 1) + 1) = YearStart(y - 1) + 365 + Leaped(y - 1) /\ (y - 1) + 1 = y
    BY <1>1, YearsFollow
  <2>4. YearStart((y + 1) + 1) = YearStart(y + 1) + 365 + Leaped(y + 1) /\ (y + 1) + 1 = y + 2
    BY <1>1, YearsFollow
  <2> QED BY <2>1, <2>2, <2>3, <2>4
<1>4. w \in 1..5 /\ n \in 0..(364 + L) /\ day = Y + n
    BY <1>3
<1>5. Fixed(day) <=> n \in {0, 184 + L, 358 + L} \/ (n = 169 + L /\ y >= 2022)
    BY <1>1, FixedDays
<1>6. Fixed(day + 1) <=> n + 1 \in {184 + L, 358 + L, 365 + L} \/ (n + 1 = 169 + L /\ y >= 2022)
  <2>1. CASE day + 1 < YearStart(y + 1)
    <3>1. Fixed(day + 1) <=> \/ (day + 1) - Y \in {0, 184 + L, 358 + L}
                             \/ (day + 1) - Y = 169 + L /\ y >= 2022
      BY <1>1, <1>3, <2>1, FixedDays
    <3> QED BY <1>3, <1>4, <2>1, <3>1
  <2>2. CASE day + 1 = YearStart(y + 1)
    <3>1. (y + 1) + 1 = y + 2
      BY <1>1
    <3>2. day + 1 \in Int /\ YearStart(y + 1) <= day + 1 /\ day + 1 < YearStart((y + 1) + 1)
      BY <1>3, <2>2, <3>1
    <3>3. (day + 1) - YearStart(y + 1) = 0
      BY <1>3, <2>2
    <3>4. Fixed(day + 1)
      BY <1>1, <3>2, <3>3, FixedDays
    <3> QED BY <1>3, <1>4, <2>2, <3>4
  <2> QED BY <1>3, <2>1, <2>2
<1>7. Fixed(day - 1) <=> n - 1 \in {0, 184 + L, 358 + L} \/ (n - 1 = 169 + L /\ y >= 2022)
  <2>1. CASE day - 1 >= Y
    <3>1. Fixed(day - 1) <=> \/ (day - 1) - Y \in {0, 184 + L, 358 + L}
                             \/ (day - 1) - Y = 169 + L /\ y >= 2022
      BY <1>1, <1>3, <2>1, FixedDays
    <3> QED BY <1>3, <1>4, <2>1, <3>1
  <2>2. CASE day = Y
    <3>1. (y - 1) + 1 = y
      BY <1>1
    <3>2. day - 1 \in Int /\ YearStart(y - 1) <= day - 1 /\ day - 1 < YearStart((y - 1) + 1)
      BY <1>3, <2>2, <3>1
    <3>3. Fixed(day - 1) <=>
            \/ (day - 1) - YearStart(y - 1) \in {0, 184 + Leaped(y - 1), 358 + Leaped(y - 1)}
            \/ (day - 1) - YearStart(y - 1) = 169 + Leaped(y - 1) /\ y - 1 >= 2022
      BY <1>1, <3>2, FixedDays
    <3>4. (day - 1) - YearStart(y - 1) = 364 + Leaped(y - 1) /\ n = 0
      BY <1>3, <2>2
    <3>5. ~Fixed(day - 1)
      <4> HIDE DEF n
      <4> QED BY <1>3, <3>3, <3>4
    <3> HIDE DEF n, L
    <3> QED BY <1>3, <3>4, <3>5
  <2> QED BY <1>3, <2>1, <2>2
\* The holidays of the code with a date.
<1>8. /\ Date(y, 1, 1) = Y /\ Date(y, 7, 4) = Y + 184 + L /\ Date(y, 12, 25) = Y + 358 + L
      /\ Date(y, 6, 19) = Y + 169 + L /\ Date(y + 1, 1, 1) = Y + 365 + L
  <2>1. /\ Date(y, 1, 1) = YearStart(y) + 1 - 1
        /\ Date(y, 6, 19) = YearStart(y) + 151 + Leaped(y) + 19 - 1
        /\ Date(y, 7, 4) = YearStart(y) + 181 + Leaped(y) + 4 - 1
        /\ Date(y, 12, 25) = YearStart(y) + 334 + Leaped(y) + 25 - 1
        /\ Date(y + 1, 1, 1) = YearStart(y + 1) + 1 - 1
    BY <1>1, Months
  <2> QED BY <1>3, <2>1
<1>9. \A k \in 0..366 :
        observedHoliday(Y + k) = day <=> n = k \/ (w = 5 /\ n + 1 = k) \/ (w = 1 /\ n - 1 = k)
  <2> SUFFICES ASSUME NEW k \in 0..366
               PROVE  observedHoliday(Y + k) = day <=>
                        n = k \/ (w = 5 /\ n + 1 = k) \/ (w = 1 /\ n - 1 = k)
    OBVIOUS
  <2>1. Y + k \in Int
    BY <1>3
  <2>2. observedHoliday(Y + k) = day <=> \/ day = Y + k
                                         \/ Weekday(day) = 5 /\ day + 1 = Y + k
                                         \/ Weekday(day) = 1 /\ day - 1 = Y + k
    BY <2>1, ObservedDays
  <2> QED BY <1>3, <1>4, <2>2
\* The ones with a day of the week, in January, February, May, September and November.
<1>10. /\ nthWeekday(y, 1, Monday, 3) = day <=> w = 1 /\ n \in 14..20
       /\ nthWeekday(y, 2, Monday, 3) = day <=> w = 1 /\ n - 31 \in 14..20
       /\ nthWeekday(y, 9, Monday, 1) = day <=> w = 1 /\ n - 243 - L \in 0..6
       /\ nthWeekday(y, 11, Thursday, 4) = day <=> w = 4 /\ n - 304 - L \in 21..27
       /\ lastWeekday(y, 5, Monday) = day <=> w = 1 /\ n - 120 - L \in 24..30
  <2>1. /\ Date(y, 1, 1) = Y + 1 - 1 /\ Date(y, 2, 1) = Y + 31 + 1 - 1
        /\ Date(y, 9, 1) = Y + 243 + L + 1 - 1 /\ Date(y, 11, 1) = Y + 304 + L + 1 - 1
        /\ Date(y, 6, 0) = Y + 151 + L + 0 - 1
    BY <1>1, Months
  <2>2. \A k \in 0..3, first \in Int, v \in 0..6 :
          first + ((v - Weekday(first)) % 7) + k * 7 = day <=> w = v /\ day - first - k * 7 \in 0..6
    <3> SUFFICES ASSUME NEW k \in 0..3, NEW first \in Int, NEW v \in 0..6
                 PROVE  first + ((v - Weekday(first)) % 7) + k * 7 = day
                          <=> w = v /\ day - first - k * 7 \in 0..6
      OBVIOUS
    <3> DEFINE e == day - k * 7
    <3>1. e \in Int /\ Weekday(first) \in Int
      BY Weekdays
    <3>2. Weekday(e) = w
      BY DEF Weekday
    <3>3. day = e + k * 7
      OBVIOUS
    <3> HIDE DEF e, w
    <3>4. first + ((v - Weekday(first)) % 7) = e <=> Weekday(e) = v /\ e - first \in 0..6
      BY <3>1, Weekdays
    <3>5. (v - Weekday(first)) % 7 \in Int
      BY <3>1
    <3> QED BY <3>1, <3>2, <3>3, <3>4, <3>5
  <2>3. \A last \in Int :
          last - ((Weekday(last) - 1) % 7) = day <=> w = 1 /\ last - day \in 0..6
    BY Weekdays
  <2>4. nthWeekday(y, 1, Monday, 3) = day <=> w = 1 /\ n \in 14..20
    BY <1>3, <1>4, <2>1, <2>2 DEF nthWeekday, Monday
  <2>5. nthWeekday(y, 2, Monday, 3) = day <=> w = 1 /\ n - 31 \in 14..20
    BY <1>3, <1>4, <2>1, <2>2 DEF nthWeekday, Monday
  <2>6. nthWeekday(y, 9, Monday, 1) = day <=> w = 1 /\ n - 243 - L \in 0..6
    BY <1>3, <1>4, <2>1, <2>2 DEF nthWeekday, Monday
  <2>7. nthWeekday(y, 11, Thursday, 4) = day <=> w = 4 /\ n - 304 - L \in 21..27
    BY <1>3, <1>4, <2>1, <2>2 DEF nthWeekday, Thursday
  <2>8. lastWeekday(y, 5, Monday) = day <=> w = 1 /\ n - 120 - L \in 24..30
    BY <1>3, <1>4, <2>1, <2>3 DEF lastWeekday, Monday
  <2> QED BY <2>4, <2>5, <2>6, <2>7, <2>8
<1>11. /\ Within(day, y, 1, 15, 21) <=> n \in 14..20
       /\ Within(day, y, 2, 15, 21) <=> n - 31 \in 14..20
       /\ Within(day, y, 9, 1, 7) <=> n - 243 - L \in 0..6
       /\ Within(day, y, 11, 22, 28) <=> n - 304 - L \in 21..27
       /\ Within(day, y, 5, 25, 31) <=> n - 120 - L \in 24..30
  <2>1. /\ Date(y, 1, 15) = Y + 15 - 1 /\ Date(y, 1, 21) = Y + 21 - 1
        /\ Date(y, 2, 15) = Y + 31 + 15 - 1 /\ Date(y, 2, 21) = Y + 31 + 21 - 1
        /\ Date(y, 9, 1) = Y + 243 + L + 1 - 1 /\ Date(y, 9, 7) = Y + 243 + L + 7 - 1
        /\ Date(y, 11, 22) = Y + 304 + L + 22 - 1 /\ Date(y, 11, 28) = Y + 304 + L + 28 - 1
        /\ Date(y, 5, 25) = Y + 120 + L + 25 - 1 /\ Date(y, 5, 31) = Y + 120 + L + 31 - 1
    BY <1>1, Months
  <2> QED BY <1>3, <1>4, <2>1 DEF Within
<1>12. easterSunday(y) - 2 = day <=> GoodFriday(day)
  <2>1. /\ easterSunday(y) \in Int /\ FullMoon(y) \in Int
        /\ Weekday(easterSunday(y)) = 0
        /\ easterSunday(y) - FullMoon(y) \in 1..7
    BY <1>1, EasterFollowsFullMoon
  <2> QED BY <1>2, <2>1 DEF GoodFriday, Weekday, Friday
<1> DEFINE Dated(k) == n = k \/ (w = 5 /\ n + 1 = k) \/ (w = 1 /\ n - 1 = k)
<1>13. isUSMarketHoliday(day) <=>
         \/ Dated(0) \/ Dated(184 + L) \/ Dated(358 + L) \/ Dated(365 + L)
         \/ y >= 2022 /\ Dated(169 + L)
         \/ w = 1 /\ n \in 14..20
         \/ w = 1 /\ n - 31 \in 14..20
         \/ w = 1 /\ n - 243 - L \in 0..6
         \/ w = 4 /\ n - 304 - L \in 21..27
         \/ w = 1 /\ n - 120 - L \in 24..30
         \/ GoodFriday(day)
  <2>1. /\ observedHoliday(Date(y, 1, 1)) = day <=> Dated(0)
        /\ observedHoliday(Date(y, 7, 4)) = day <=> Dated(184 + L)
        /\ observedHoliday(Date(y, 12, 25)) = day <=> Dated(358 + L)
        /\ observedHoliday(Date(y + 1, 1, 1)) = day <=> Dated(365 + L)
        /\ observedHoliday(Date(y, 6, 19)) = day <=> Dated(169 + L)
    <3>1. /\ Y = Y + 0 /\ Y + 184 + L = Y + (184 + L) /\ Y + 358 + L = Y + (358 + L)
          /\ Y + 365 + L = Y + (365 + L) /\ Y + 169 + L = Y + (169 + L)
          /\ 0 \in 0..366 /\ 184 + L \in 0..366 /\ 358 + L \in 0..366
          /\ 365 + L \in 0..366 /\ 169 + L \in 0..366
      BY <1>3
    <3>2. \A k \in 0..366 : observedHoliday(Y + k) = day <=> Dated(k)
      BY <1>9
    <3> HIDE DEF n, w, Y, L, Dated
    <3> QED BY <1>8, <3>1, <3>2
  <2> HIDE DEF n, w, Y, L, Dated
  <2> QED BY <1>2, <1>10, <1>12, <2>1 DEF isUSMarketHoliday
<1>14. ExchangeHoliday(day) <=>
         \/ Fixed(day)
         \/ w = 5 /\ Fixed(day + 1)
         \/ w = 1 /\ (\/ Fixed(day - 1)
                      \/ n \in 14..20 \/ n - 31 \in 14..20
                      \/ n - 120 - L \in 24..30 \/ n - 243 - L \in 0..6)
         \/ w = 4 /\ n - 304 - L \in 21..27
         \/ GoodFriday(day)
  BY <1>2, <1>11 DEF ExchangeHoliday, Friday, Monday, Thursday
<1> HIDE DEF n, w, Y, L
<1> QED BY <1>3, <1>4, <1>5, <1>6, <1>7, <1>13, <1>14

\* Whether the exchanges trade on a day, by their rules.
Trading(day) == Weekday(day) \in 1..5 /\ ~ExchangeHoliday(day)

\* isUSTradingDay says on which days the exchanges trade.
LEMMA TradingDays ==
    ASSUME Centuries, NEW y \in Years, NEW day \in Int,
           YearStart(y) <= day, day < YearStart(y + 1)
    PROVE  isUSTradingDay(day) <=> Trading(day)
<1>1. Weekday(day) \in 0..6
    BY Weekdays
<1>2. Weekday(day) \in 1..5 => (isUSMarketHoliday(day) <=> ExchangeHoliday(day))
    BY HolidaysAgree
<1>3. Weekday(day) \notin {Saturday, Sunday} <=> Weekday(day) \in 1..5
    BY <1>1 DEF Saturday, Sunday
<1> QED BY <1>2, <1>3 DEF isUSTradingDay, Trading

\* A day of the years whose holidays the code and the rules are compared in.
InYear(y, day) == YearStart(y) <= day /\ day < YearStart(y + 1)
Known(day) == \E y \in Years : InYear(y, day)

\* What TradingDays says of a known day, and that the day after one is known.
LEMMA KnownDays ==
    ASSUME Centuries, NEW day \in Int, Known(day)
    PROVE  /\ isUSTradingDay(day) <=> Trading(day)
           /\ day + 1 < YearStart(LastYear + 2) => Known(day + 1)
<1>1. PICK y \in Years : YearStart(y) <= day /\ day < YearStart(y + 1)
    BY DEF Known, InYear
<1>2. isUSTradingDay(day) <=> Trading(day)
    BY <1>1, TradingDays
<1>3. LastYear \in Int /\ FirstYear \in Int /\ y \in Int /\ y + 1 \in Int
    BY CalendarAssumption DEF Years
<1>4. ASSUME day + 1 < YearStart(LastYear + 2)
      PROVE  Known(day + 1)
  <2>1. /\ YearStart(y) \in Int /\ YearStart(y + 1) \in Int /\ YearStart((y + 1) + 1) \in Int
        /\ YearStart(y + 1) < YearStart((y + 1) + 1)
    <3>1. /\ YearStart(y) \in Int /\ YearStart(y + 1) \in Int /\ Leaped(y + 1) \in 0..1
          /\ YearStart((y + 1) + 1) = YearStart(y + 1) + 365 + Leaped(y + 1)
      BY <1>3, YearsFollow
    <3> QED BY <3>1
  <2>2. CASE day + 1 < YearStart(y + 1)
    BY <1>1, <2>1, <2>2 DEF Known, InYear
  <2>3. CASE day + 1 = YearStart(y + 1)
    <3>1. y + 1 # LastYear + 2
      BY <1>4, <2>1, <2>3
    <3>2. y + 1 \in Years
      BY <1>3, <3>1 DEF Years
    <3> QED BY <2>1, <2>3, <3>2 DEF Known, InYear
  <2> QED BY <1>1, <2>1, <2>2, <2>3
<1> QED BY <1>2, <1>4

\* The search ends: the Tuesday after the first week of a year is no holiday.
FreeTuesday == YearStart(LastYear + 1) + 7 + ((2 - Weekday(YearStart(LastYear + 1) + 7)) % 7)

\* That Tuesday is a day of trade, after the last day of the time that goes on, and known.
LEMMA SearchEnds ==
    ASSUME Centuries
    PROVE  /\ FreeTuesday \in Int /\ Trading(FreeTuesday)
           /\ FreeTuesday + 1 < YearStart(LastYear + 2)
           /\ Date(LastYear, 12, 31) = YearStart(LastYear + 1) - 1
           /\ Date(LastYear, 12, 31) + 1 < FreeTuesday
<1> DEFINE y == LastYear + 1
           week == YearStart(y) + 7
<1>1. /\ y \in Years /\ y \in Int /\ LastYear \in Int /\ y + 1 = LastYear + 2
      /\ y \in (FirstYear - 1)..(LastYear + 2)
    BY CalendarAssumption DEF Centuries, Years
<1>2. /\ YearStart(y) \in Int /\ Leaped(y) \in 0..1
      /\ YearStart(y + 1) = YearStart(y) + 365 + Leaped(y)
      /\ YearStart(LastYear) \in Int /\ Leaped(LastYear) \in 0..1
      /\ YearStart(y) = YearStart(LastYear) + 365 + Leaped(LastYear)
    BY <1>1, YearsFollow
<1>3. FreeTuesday = week + ((2 - Weekday(week)) % 7) /\ week \in Int
    BY <1>2 DEF FreeTuesday
<1>4. FreeTuesday \in Int
    BY <1>3 DEF Weekday
<1>5. Weekday(FreeTuesday) = 2 /\ FreeTuesday - week \in 0..6
  <2> HIDE DEF week
  <2>1. \A w \in 0..6, first \in Int :
          first + ((w - Weekday(first)) % 7) = FreeTuesday
            <=> Weekday(FreeTuesday) = w /\ FreeTuesday - first \in 0..6
    BY <1>4, Weekdays
  <2>2. week + ((2 - Weekday(week)) % 7) = FreeTuesday
          <=> Weekday(FreeTuesday) = 2 /\ FreeTuesday - week \in 0..6
    BY <1>3, <2>1
  <2> QED BY <1>3, <2>2
<1>6. FreeTuesday - YearStart(y) \in 7..13
    BY <1>2, <1>4, <1>5
<1>7. Date(LastYear, 12, 31) = YearStart(y) - 1
  <2>1. Date(LastYear, 12, 31) = YearStart(LastYear) + 334 + Leaped(LastYear) + 31 - 1
    BY <1>1, Months
  <2> QED BY <1>2, <2>1
<1>8. ~Fixed(FreeTuesday)
  <2>1. YearStart(y) <= FreeTuesday /\ FreeTuesday < YearStart(y + 1)
    BY <1>2, <1>4, <1>6
  <2>2. Fixed(FreeTuesday)
          <=> \/ FreeTuesday - YearStart(y) \in {0, 184 + Leaped(y), 358 + Leaped(y)}
              \/ FreeTuesday - YearStart(y) = 169 + Leaped(y) /\ y >= 2022
    BY <1>1, <1>4, <2>1, FixedDays
  <2> QED BY <1>2, <1>4, <1>6, <2>2
<1>9. Trading(FreeTuesday)
    BY <1>5, <1>8 DEF Trading, ExchangeHoliday, GoodFriday, Friday, Monday, Thursday
<1> HIDE DEF y, week
<1> QED BY <1>1, <1>2, <1>4, <1>6, <1>7, <1>9 DEF y

-----------------------------------------------------------------------------
(* An answer holds until the time it names                                  *)

\* From now to that day nobody trades, but for the session of today that is over.
Idle(day) ==
    /\ today < day => ~Trading(today) \/ hour = "late"
    /\ \A d \in (today + 1)..(day - 1) : ~Trading(d)

CalendarType ==
    /\ today \in Int /\ next \in Int /\ hour \in {"early", "session", "late"}
    /\ Known(today) /\ today <= Date(LastYear, 12, 31)

\* The search has passed over idle days, and a day of trade is ahead of it.
SearchInv == next # 0 => today < next /\ next <= FreeTuesday /\ Known(next) /\ Idle(next)

AnswerOpen ==
    /\ answer = [status |-> "OPEN", day |-> today, hour |-> "late"]
    /\ Trading(today) /\ hour # "early"

AnswerClosed ==
    /\ answer = [status |-> "CLOSED", day |-> answer.day, hour |-> "session"]
    /\ answer.day \in Int /\ today <= answer.day
    /\ Trading(answer.day) /\ Idle(answer.day)
    /\ today = answer.day => hour # "late"

AnswerInv == answer = NoAnswer \/ AnswerOpen \/ AnswerClosed

CalendarInv == CalendarType /\ SearchInv /\ AnswerInv

\* Time starts on a known day with no question asked.
LEMMA CalendarStart == ASSUME Centuries PROVE CalendarInit => CalendarInv
<1> SUFFICES ASSUME Centuries, CalendarInit PROVE CalendarInv
    OBVIOUS
<1>1. /\ FirstYear \in Int /\ LastYear \in Int /\ FirstYear \in Years /\ FirstYear <= LastYear
      /\ FirstYear < LastYear + 1
    BY CalendarAssumption DEF Centuries, Years
<1>2. today = YearStart(FirstYear) + 1 - 1
    BY <1>1, Months DEF CalendarInit
<1>3. /\ YearStart(FirstYear) \in Int /\ Leaped(FirstYear) \in 0..1
      /\ YearStart(FirstYear + 1) = YearStart(FirstYear) + 365 + Leaped(FirstYear)
      /\ YearStart(FirstYear + 1) <= YearStart(LastYear + 1)
  <2>1. LastYear + 1 \in Int
    BY <1>1
  <2> QED BY <1>1, <2>1, YearsFollow
<1>4. Date(LastYear, 12, 31) = YearStart(LastYear + 1) - 1 /\ YearStart(LastYear + 1) \in Int
  <2>1. LastYear + 1 \in Int
    BY <1>1
  <2> QED BY <2>1, SearchEnds, YearType
<1>5. CalendarType
    BY <1>1, <1>2, <1>3, <1>4 DEF CalendarType, CalendarInit, Known, InYear
<1> QED BY <1>5 DEF CalendarInv, SearchInv, AnswerInv, CalendarInit

\* Ask and Search pass over idle days only; an answer that is kept is a day nearer.
LEMMA CalendarStep ==
    ASSUME Centuries PROVE CalendarInv /\ [CalendarNext]_calendarVars => CalendarInv'
<1> SUFFICES ASSUME Centuries, CalendarInv, [CalendarNext]_calendarVars
             PROVE  CalendarInv'
    OBVIOUS
<1>1. /\ FreeTuesday \in Int /\ Trading(FreeTuesday) /\ FreeTuesday + 1 < YearStart(LastYear + 2)
      /\ Date(LastYear, 12, 31) + 1 < FreeTuesday /\ Date(LastYear, 12, 31) \in Int
      /\ YearStart(LastYear + 2) \in Int
  <2>1. LastYear + 1 \in Int /\ LastYear + 2 \in Int
    BY CalendarAssumption
  <2>2. YearStart(LastYear + 1) \in Int /\ YearStart(LastYear + 2) \in Int
    BY <2>1, YearType
  <2> QED BY <2>2, SearchEnds
<1>2. /\ today \in Int /\ next \in Int /\ hour \in {"early", "session", "late"}
      /\ Known(today) /\ today <= Date(LastYear, 12, 31)
    BY DEF CalendarInv, CalendarType
<1>3. (isUSTradingDay(today) <=> Trading(today)) /\ Known(today + 1)
    BY <1>1, <1>2, KnownDays
<1>4. ASSUME UNCHANGED <<today, hour, answer>>
      PROVE  CalendarType /\ next' \in Int => CalendarType' /\ AnswerInv'
  BY <1>4 DEF CalendarInv, CalendarType, Known, InYear, AnswerInv, AnswerOpen, AnswerClosed, Idle
<1>5. CASE Ask
  <2>1. next = 0 /\ UNCHANGED <<today, hour>>
    BY <1>5 DEF Ask
  <2>2. CASE isUSTradingDay(today) /\ hour = "session" /\ next' = next
             /\ answer' = [status |-> "OPEN", day |-> today, hour |-> "late"]
    <3>1. CalendarType' /\ SearchInv'
      BY <1>2, <2>1, <2>2 DEF CalendarType, Known, InYear, SearchInv
    <3>2. AnswerOpen'
      BY <1>3, <2>1, <2>2 DEF AnswerOpen
    <3> QED BY <3>1, <3>2 DEF CalendarInv, AnswerInv
  <2>3. CASE isUSTradingDay(today) /\ hour = "early" /\ next' = next
             /\ answer' = [status |-> "CLOSED", day |-> today, hour |-> "session"]
    <3>1. CalendarType' /\ SearchInv'
      BY <1>2, <2>1, <2>3 DEF CalendarType, Known, InYear, SearchInv
    <3>2. AnswerClosed'
      BY <1>2, <1>3, <2>1, <2>3 DEF AnswerClosed, Idle
    <3> QED BY <3>1, <3>2 DEF CalendarInv, AnswerInv
  <2>4. CASE (~isUSTradingDay(today) \/ hour = "late") /\ next' = today + 1 /\ answer' = answer
    <3>1. CalendarType' /\ AnswerInv'
      BY <1>2, <1>4, <2>1, <2>4 DEF CalendarInv
    <3>2. Idle(today + 1)'
      BY <1>2, <1>3, <2>1, <2>4 DEF Idle
    <3>3. SearchInv'
      BY <1>1, <1>2, <1>3, <2>1, <2>4, <3>2 DEF SearchInv, Known, InYear, Idle
    <3> QED BY <3>1, <3>3 DEF CalendarInv
  <2> QED BY <1>5, <2>2, <2>3, <2>4 DEF Ask
<1>6. CASE Search
  <2>1. next # 0 /\ UNCHANGED <<today, hour>>
    BY <1>6 DEF Search
  <2>2. today < next /\ next <= FreeTuesday /\ Known(next) /\ Idle(next)
    BY <2>1 DEF CalendarInv, SearchInv
  <2>3. isUSTradingDay(next) <=> Trading(next)
    BY <1>2, <2>2, KnownDays
  <2>4. CASE ~isUSTradingDay(next) /\ next' = next + 1 /\ answer' = answer
    <3>1. CalendarType' /\ AnswerInv'
      BY <1>2, <1>4, <2>1, <2>4 DEF CalendarInv
    <3>2. next # FreeTuesday
      BY <1>1, <2>3, <2>4
    <3>3. Known(next + 1) /\ next + 1 <= FreeTuesday
      BY <1>1, <1>2, <2>2, <3>2, KnownDays
    <3>4. /\ today < next' => ~Trading(today) \/ hour = "late"
          /\ \A d \in (today + 1)..(next' - 1) : ~Trading(d)
      BY <1>2, <2>2, <2>3, <2>4 DEF Idle
    <3>5. SearchInv'
      BY <1>2, <2>1, <2>2, <2>4, <3>3, <3>4 DEF SearchInv, Known, InYear, Idle
    <3> QED BY <3>1, <3>5 DEF CalendarInv
  <2>5. CASE isUSTradingDay(next) /\ next' = 0
             /\ answer' = [status |-> "CLOSED", day |-> next, hour |-> "session"]
    <3>1. CalendarType' /\ SearchInv'
      BY <1>2, <2>1, <2>5 DEF CalendarType, Known, InYear, SearchInv
    <3>2. AnswerClosed'
      BY <1>2, <2>1, <2>2, <2>3, <2>5 DEF AnswerClosed, Idle
    <3> QED BY <3>1, <3>2 DEF CalendarInv, AnswerInv
  <2> QED BY <1>6, <2>4, <2>5 DEF Search
<1>7. CASE TimePasses
  <2>1. /\ next = 0 /\ next' = 0 /\ today < Date(LastYear, 12, 31)
        /\ answer' = IF Before(answer.day, answer.hour) THEN answer ELSE NoAnswer
    BY <1>7 DEF TimePasses
  <2>2. \/ hour = "early" /\ hour' = "session" /\ today' = today
        \/ hour = "session" /\ hour' = "late" /\ today' = today
        \/ hour = "late" /\ hour' = "early" /\ today' = today + 1
    BY <1>7 DEF TimePasses
  <2>3. CalendarType' /\ SearchInv'
    BY <1>1, <1>2, <1>3, <2>1, <2>2 DEF CalendarType, SearchInv, Known, InYear
  <2>4. CASE answer' = NoAnswer
    BY <2>3, <2>4 DEF CalendarInv, AnswerInv
  <2>5. CASE answer # NoAnswer /\ answer' = answer /\ Before(answer.day, answer.hour)
    <3>1. CASE AnswerOpen
      <4>1. today' = today /\ hour' = "late"
        BY <1>2, <2>2, <2>5, <3>1 DEF AnswerOpen, Before
      <4>2. AnswerOpen'
        BY <2>5, <3>1, <4>1 DEF AnswerOpen
      <4> QED BY <2>3, <4>2 DEF CalendarInv, AnswerInv
    <3>2. CASE AnswerClosed
      <4>1. /\ answer.day \in Int /\ Trading(answer.day)
            /\ answer = [status |-> "CLOSED", day |-> answer.day, hour |-> "session"]
            /\ today < answer.day \/ (today = answer.day /\ hour = "early")
            /\ today < answer.day => ~Trading(today) \/ hour = "late"
            /\ \A d \in (today + 1)..(answer.day - 1) : ~Trading(d)
        BY <2>5, <3>2 DEF AnswerClosed, Idle, Before
      <4>2. today' \in Int /\ today' <= answer.day /\ (today' = answer.day => hour' # "late")
        BY <1>2, <2>2, <4>1
      <4>3. /\ today' < answer.day => ~Trading(today') \/ hour' = "late"
            /\ \A d \in (today' + 1)..(answer.day - 1) : ~Trading(d)
        BY <1>2, <2>2, <4>1
      <4>4. AnswerClosed'
        BY <2>5, <4>1, <4>2, <4>3 DEF AnswerClosed, Idle
      <4> QED BY <2>3, <4>4 DEF CalendarInv, AnswerInv
    <3> QED BY <2>5, <3>1, <3>2 DEF CalendarInv, AnswerInv
  <2> QED BY <2>1, <2>4, <2>5
<1>8. CASE UNCHANGED calendarVars
  <2>1. UNCHANGED <<today, hour, next, answer>>
    BY <1>8 DEF calendarVars
  <2>2. CalendarType' /\ AnswerInv'
    BY <1>2, <1>4, <2>1 DEF CalendarInv
  <2>3. SearchInv'
    BY <2>1 DEF CalendarInv, SearchInv, Known, InYear, Idle
  <2> QED BY <2>2, <2>3 DEF CalendarInv
<1> QED BY <1>5, <1>6, <1>7, <1>8 DEF CalendarNext

\* The days of an answer are days of trade by the rules of the exchanges.
LEMMA CalendarAnswers == CalendarInv => AnswerHolds
<1> SUFFICES ASSUME CalendarInv, answer # NoAnswer PROVE AnswerHolds
    BY DEF AnswerHolds
<1>1. today \in Int /\ hour \in {"early", "session", "late"}
    BY DEF CalendarInv, CalendarType
<1>2. \A d, h : Open(d, h) <=> h = "session" /\ Trading(d)
    BY DEF Open, Trading
<1>3. CASE AnswerOpen
    BY <1>1, <1>2, <1>3 DEF AnswerHolds, AnswerOpen, Before
<1>4. CASE AnswerClosed
  <2>1. /\ answer.status = "CLOSED" /\ answer.hour = "session"
        /\ answer.day \in Int /\ Trading(answer.day)
        /\ today < answer.day => ~Trading(today) \/ hour = "late"
    BY <1>4 DEF AnswerClosed, Idle
  <2> QED BY <1>1, <1>2, <2>1 DEF AnswerHolds, Before
<1> QED BY <1>3, <1>4 DEF CalendarInv, AnswerInv

\* What usRegularMarketStatus answers at any time of these centuries is right until the time
\* the answer names, and at that time the session changes: no holiday, no trading day and no
\* date of Easter is missed, and the search for the next session ends in time.
THEOREM AnswersHold == ASSUME Centuries PROVE CalendarSpec => []AnswerHolds
<1>1. CalendarInit => CalendarInv
    BY CalendarStart
<1>2. CalendarInv /\ [CalendarNext]_calendarVars => CalendarInv'
    BY CalendarStep
<1>3. CalendarInv => AnswerHolds
    BY CalendarAnswers
<1> QED BY <1>1, <1>2, <1>3, PTL DEF CalendarSpec

=============================================================================
