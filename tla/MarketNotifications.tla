-------------------------- MODULE MarketNotifications --------------------------
(***************************************************************************)
(* MarketNotificationWorker on one trading day: every replica looks at the *)
(* clock at each tick of its own ticker and, shortly after the market has  *)
(* opened or closed, tries to claim the announcement with SETNX in Redis   *)
(* and pushes it to the LINE users.  The calendar is left out.             *)
(*                                                                         *)
(* Time is counted in units of which Interval and Minute are multiples.  A *)
(* check is over before the clock moves on: pushes that take longer than   *)
(* an interval, and the ticks the ticker then drops, are left out.         *)
(***************************************************************************)
EXTENDS Naturals

CONSTANTS
    Replicas,    \* the processes with MARKET_NOTIFICATIONS_ENABLED
    Users,       \* the LINE ids of the ACTIVE users
    Interval,    \* MARKET_NOTIFICATION_CHECK_SECONDS
    Minute,      \* time.Minute
    OpenAt,      \* 09:30 in New York
    CloseAt,     \* 16:00 in New York
    Horizon,     \* bound: the end of the modelled day
    MaxFailures  \* bound: the lists of recipients that cannot be read

ASSUME Times ==
    /\ {Interval, Minute, OpenAt, CloseAt, Horizon, MaxFailures} \subseteq Nat
    /\ Interval > 0 /\ OpenAt + Interval + Minute < CloseAt

VARIABLES
    now,       \* the clock
    due,       \* replica -> its next tick
    since,     \* replica -> when it was started (ghost)
    phase,     \* replica -> where it is
    event,     \* replica -> the event of its check
    todo,      \* replica -> the recipients still to be pushed to
    keys,      \* the market-notification keys in Redis
    pushes,    \* event -> user -> the pushes tried (ghost)
    failures,  \* event -> the lists of recipients that could not be read (ghost)
    harmed     \* the events with a check that Redis or a stop has spoilt (ghost)

replica == <<due, since, phase, event, todo>>
vars == <<now, due, since, phase, event, todo, keys, pushes, failures, harmed>>

Events == {"OPEN", "CLOSED"}
At == [OPEN |-> OpenAt, CLOSED |-> CloseAt]

TypeOK ==
    /\ now \in 0..Horizon
    /\ due \in [Replicas -> 0..(Horizon + Interval)]
    /\ since \in [Replicas -> 0..Horizon]
    /\ phase \in [Replicas -> {"stopped", "waiting", "claimed", "pushing"}]
    /\ event \in [Replicas -> Events]
    /\ todo \in [Replicas -> SUBSET Users]
    /\ keys \in SUBSET Events
    /\ pushes \in [Events -> [Users -> Nat]]
    /\ failures \in [Events -> Nat]
    /\ harmed \in SUBSET Events
    /\ \A r \in Replicas : phase[r] \in {"claimed", "pushing"} => event[r] \in keys

Init ==
    /\ now = 0
    /\ due = [r \in Replicas |-> 0]
    /\ since = [r \in Replicas |-> 0]
    /\ phase = [r \in Replicas |-> "stopped"]
    /\ event = [r \in Replicas |-> "OPEN"]
    /\ todo = [r \in Replicas |-> {}]
    /\ keys = {}
    /\ pushes = [e \in Events |-> [u \in Users |-> 0]]
    /\ failures = [e \in Events |-> 0]
    /\ harmed = {}

-----------------------------------------------------------------------------

Move(r, p) == phase' = [phase EXCEPT ![r] = p]

\* Mutant: the window is one interval.
InWindow_Interval(e) == At[e] <= now /\ now - At[e] <= Interval - 1

\* marketTransition: the event that happened at most an interval and a minute ago.
InWindow(e) == At[e] <= now /\ now - At[e] <= Interval + Minute

Start(r) ==
    /\ phase[r] = "stopped"
    /\ Move(r, "waiting")
    /\ due' = [due EXCEPT ![r] = now]
    /\ since' = [since EXCEPT ![r] = now]
    /\ UNCHANGED <<now, event, todo, keys, pushes, failures, harmed>>

\* The process ends: between two checks, or anywhere.
Stop(r) ==
    /\ phase[r] # "stopped"
    /\ harmed' = IF phase[r] = "waiting" THEN harmed ELSE harmed \cup {event[r]}
    /\ Move(r, "stopped")
    /\ todo' = [todo EXCEPT ![r] = {}]
    /\ due' = [due EXCEPT ![r] = 0]
    /\ since' = [since EXCEPT ![r] = 0]
    /\ UNCHANGED <<now, event, keys, pushes, failures>>

Tick(r) ==
    /\ phase[r] = "waiting"
    /\ due[r] <= now
    /\ due' = [due EXCEPT ![r] = @ + Interval]

\* No event, or another replica's.
CheckNothing(r) ==
    /\ Tick(r)
    /\ \A e \in Events : InWindow(e) => e \in keys
    /\ UNCHANGED <<now, since, phase, event, todo, keys, pushes, failures, harmed>>

Claim(r, e) ==
    /\ Tick(r)
    /\ InWindow(e)
    /\ e \notin keys
    /\ keys' = keys \cup {e}
    /\ event' = [event EXCEPT ![r] = e]
    /\ Move(r, "claimed")
    /\ UNCHANGED <<now, since, todo, pushes, failures, harmed>>

\* SETNX fails, or sets the key and its answer is lost.
ClaimError(r, e) ==
    /\ Tick(r)
    /\ InWindow(e)
    /\ keys' \in {keys, keys \cup {e}}
    /\ harmed' = harmed \cup {e}
    /\ UNCHANGED <<now, since, phase, event, todo, pushes, failures>>

Recipients(r) ==
    /\ phase[r] = "claimed"
    /\ todo' = [todo EXCEPT ![r] = Users]
    /\ Move(r, "pushing")
    /\ UNCHANGED <<now, due, since, event, keys, pushes, failures, harmed>>

\* Mutant: the error is logged and the check goes on without recipients.
RecipientsError_Continue(r) ==
    /\ phase[r] = "claimed"
    /\ failures[event[r]] < MaxFailures
    /\ failures' = [failures EXCEPT ![event[r]] = @ + 1]
    /\ keys' = keys \ {event[r]}
    /\ Move(r, "pushing")
    /\ UNCHANGED <<now, due, since, event, todo, pushes, harmed>>

\* The key is deleted again, for a later check; an error of DEL is ignored.
RecipientsError(r) ==
    /\ phase[r] = "claimed"
    /\ failures[event[r]] < MaxFailures
    /\ failures' = [failures EXCEPT ![event[r]] = @ + 1]
    /\ \/ keys' = keys \ {event[r]} /\ UNCHANGED harmed
       \/ harmed' = harmed \cup {event[r]} /\ UNCHANGED keys
    /\ Move(r, "waiting")
    /\ UNCHANGED <<now, due, since, event, todo, pushes>>

\* Mutant: a push that fails gives the announcement back.
Push_Release(r, u) ==
    /\ phase[r] = "pushing"
    /\ u \in todo[r]
    /\ pushes' = [pushes EXCEPT ![event[r]][u] = @ + 1]
    /\ todo' = [todo EXCEPT ![r] = {}]
    /\ keys' = keys \ {event[r]}
    /\ Move(r, "waiting")
    /\ UNCHANGED <<now, due, since, event, failures, harmed>>

\* One user after the other; errors are logged and not retried.
Push(r, u) ==
    /\ phase[r] = "pushing"
    /\ u \in todo[r]
    /\ pushes' = [pushes EXCEPT ![event[r]][u] = @ + 1]
    /\ todo' = [todo EXCEPT ![r] = @ \ {u}]
    /\ UNCHANGED <<now, due, since, phase, event, keys, failures, harmed>>

PushDone(r) ==
    /\ phase[r] = "pushing"
    /\ todo[r] = {}
    /\ Move(r, "waiting")
    /\ UNCHANGED <<now, due, since, event, todo, keys, pushes, failures, harmed>>

\* No check is under way or due.
Pass ==
    /\ now < Horizon
    /\ \A r \in Replicas :
         phase[r] = "stopped" \/ (phase[r] = "waiting" /\ now < due[r])
    /\ now' = now + 1
    /\ UNCHANGED <<replica, keys, pushes, failures, harmed>>

Next ==
    \/ Pass
    \/ \E r \in Replicas :
         \/ Start(r) \/ Stop(r)
         \/ CheckNothing(r) \/ Recipients(r) \/ RecipientsError(r) \/ PushDone(r)
         \/ \E e \in Events : Claim(r, e) \/ ClaimError(r, e)
         \/ \E u \in Users : Push(r, u)

Spec == Init /\ [][Next]_vars

-----------------------------------------------------------------------------

\* No user is pushed the same announcement twice, however many replicas tick in the
\* window, stop, start again or give an announcement back.
AnnouncedOnce == \A e \in Events, u \in Users : pushes[e][u] <= 1

\* Unless Redis fails or a process stops in a check of its event, an announcement
\* reaches every user by the end of its window: a replica that was up when the market
\* opened or closed ticks often enough in the window, an interval and a minute long,
\* for one of its checks to read the recipients if fewer reads fail than it has ticks.
AnnouncedInTime ==
    \A e \in Events, r \in Replicas :
        /\ phase[r] # "stopped" /\ since[r] <= At[e]
        /\ now > At[e] + Interval + Minute
        /\ e \notin harmed
        /\ failures[e] < (Interval + Minute) \div Interval
        => \A u \in Users : pushes[e][u] > 0

=============================================================================
