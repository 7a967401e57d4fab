------------------------------ MODULE LineWebhook ------------------------------
(***************************************************************************)
(* LINE posts batches of events; LineWebhookService.Process answers each   *)
(* event once and keeps it in line_webhook_events.  A batch that gets no   *)
(* 200 may be delivered again, alone or mixed with other events, while the *)
(* first delivery is still in progress (LINE, external).                   *)
(*                                                                         *)
(* Events stand for the event ids; whether an event is answered depends on *)
(* its type, and what the answer says is left out.                         *)
(***************************************************************************)
EXTENDS Naturals, Sequences

CONSTANTS
    Events,     \* line_event_id
    Answered,   \* the follows and text messages with a reply token
    Calls,      \* bound: the requests in progress at once
    Batches,    \* bound: what LINE may post
    MaxAccepted,\* bound: the replies LINE accepts for an event
    Faults      \* whether statements fail, processes stop and answers of LINE get lost

ASSUME EventsAnswered == Answered \subseteq Events
ASSUME BatchesOfEvents == Batches \subseteq Seq(Events)
ASSUME FaultsSwitch == Faults \in BOOLEAN

VARIABLES
    status,        \* event -> status of its row, "none" without one
    accepted,      \* event -> the replies LINE has accepted (ghost)
    lost,          \* event -> those whose answer did not arrive (ghost)
    acknowledged,  \* the events that came with a batch LINE got a 200 for
    todo,          \* call -> the events of its batch still to be looked at
    asked,         \* call -> the events of its batch
    phase          \* call -> where it is with the first event of todo

vars == <<status, accepted, lost, acknowledged, todo, asked, phase>>

Event(c) == Head(todo[c])
EventsOf(s) == {s[i] : i \in DOMAIN s}

\* The calls between a claim of e and what they write about its outcome.
Handlers(e) ==
    {c \in Calls : phase[c] \in {"claimed", "answered", "failed"} /\ Event(c) = e}

TypeOK ==
    /\ status \in [Events -> {"none", "RECEIVED", "PROCESSED", "FAILED"}]
    /\ accepted \in [Events -> Nat]
    /\ lost \in [Events -> Nat]
    /\ acknowledged \in SUBSET Events
    /\ todo \in [Calls -> Seq(Events)]
    /\ asked \in [Calls -> SUBSET Events]
    /\ phase \in [Calls -> {"idle", "next", "claimed", "answered", "failed"}]
    /\ \A c \in Calls : phase[c] \in {"claimed", "answered", "failed"} => todo[c] # <<>>

Init ==
    /\ status = [e \in Events |-> "none"]
    /\ accepted = [e \in Events |-> 0]
    /\ lost = [e \in Events |-> 0]
    /\ acknowledged = {}
    /\ todo = [c \in Calls |-> <<>>]
    /\ asked = [c \in Calls |-> {}]
    /\ phase = [c \in Calls |-> "idle"]

-----------------------------------------------------------------------------

Move(c, p) == phase' = [phase EXCEPT ![c] = p]

NextEvent(c) ==
    /\ Move(c, "next")
    /\ todo' = [todo EXCEPT ![c] = Tail(@)]
    /\ UNCHANGED asked

\* The call is over, with the status LINE takes for a refusal or with none.
Fail(c) ==
    /\ Move(c, "idle")
    /\ todo' = [todo EXCEPT ![c] = <<>>]
    /\ asked' = [asked EXCEPT ![c] = {}]
    /\ UNCHANGED acknowledged

\* LINE posts a batch with an event it has no 200 for.
Deliver(c, batch) ==
    /\ phase[c] = "idle"
    /\ ~(EventsOf(batch) \subseteq acknowledged)
    /\ Move(c, "next")
    /\ todo' = [todo EXCEPT ![c] = batch]
    /\ asked' = [asked EXCEPT ![c] = EventsOf(batch)]
    /\ UNCHANGED <<status, accepted, lost, acknowledged>>

\* Mutant: WHERE status <> 'PROCESSED'.
Claimable_NotProcessed(e) == status[e] # "PROCESSED"

\* Mutant: WHERE status <> 'RECEIVED'.
Claimable_NotReceived(e) == status[e] # "RECEIVED"

\* INSERT ... ON CONFLICT DO UPDATE ... WHERE status = 'FAILED', one statement.
Claimable(e) == status[e] \in {"none", "FAILED"}

ClaimEvent(c) ==
    /\ phase[c] = "next" /\ todo[c] # <<>>
    /\ Claimable(Event(c))
    /\ status' = [status EXCEPT ![Event(c)] = "RECEIVED"]
    /\ Move(c, "claimed")
    /\ UNCHANGED <<accepted, lost, acknowledged, todo, asked>>

\* Mutant: return instead of continue.
Skip_Return(c) ==
    /\ phase[c] = "next" /\ todo[c] # <<>>
    /\ ~Claimable(Event(c))
    /\ Fail(c)
    /\ UNCHANGED <<status, accepted, lost>>

\* The event is, or was, in another delivery's hands.
Skip(c) ==
    /\ phase[c] = "next" /\ todo[c] # <<>>
    /\ ~Claimable(Event(c))
    /\ NextEvent(c)
    /\ UNCHANGED <<status, accepted, lost, acknowledged>>

\* The statement fails, or commits and its result is lost.
ClaimError(c) ==
    /\ Faults
    /\ phase[c] = "next" /\ todo[c] # <<>>
    /\ \/ UNCHANGED status
       \/ /\ Claimable(Event(c))
          /\ status' = [status EXCEPT ![Event(c)] = "RECEIVED"]
    /\ Fail(c)
    /\ UNCHANGED <<accepted, lost>>

\* An event of a kind that gets no answer.
Ignore(c) ==
    /\ phase[c] = "claimed"
    /\ Event(c) \notin Answered
    /\ Move(c, "answered")
    /\ UNCHANGED <<status, accepted, lost, acknowledged, todo, asked>>

\* The account is looked up and LINE accepts the reply.
Reply(c) ==
    /\ phase[c] = "claimed"
    /\ Event(c) \in Answered
    /\ accepted[Event(c)] < MaxAccepted
    /\ accepted' = [accepted EXCEPT ![Event(c)] = @ + 1]
    /\ \/ Move(c, "answered") /\ UNCHANGED lost
       \/ /\ Faults
          /\ Move(c, "failed")
          /\ lost' = [lost EXCEPT ![Event(c)] = @ + 1]
    /\ UNCHANGED <<status, acknowledged, todo, asked>>

\* Mutant: the error of processEvent is ignored.
ReplyError_Ignored(c) ==
    /\ phase[c] = "claimed"
    /\ Event(c) \in Answered
    /\ Move(c, "answered")
    /\ UNCHANGED <<status, accepted, lost, acknowledged, todo, asked>>

\* The lookup fails or LINE refuses the reply.
ReplyError(c) ==
    /\ phase[c] = "claimed"
    /\ Event(c) \in Answered
    /\ Move(c, "failed")
    /\ UNCHANGED <<status, accepted, lost, acknowledged, todo, asked>>

MarkProcessed(c) ==
    /\ phase[c] = "answered"
    /\ status' = [status EXCEPT ![Event(c)] = "PROCESSED"]
    /\ NextEvent(c)
    /\ UNCHANGED <<accepted, lost, acknowledged>>

\* Mutant: an error of MarkProcessed marks the event FAILED, like one of processEvent.
MarkProcessedError_Failed(c) ==
    /\ Faults
    /\ phase[c] = "answered"
    /\ status' = [status EXCEPT ![Event(c)] = "FAILED"]
    /\ Fail(c)
    /\ UNCHANGED <<accepted, lost>>

MarkProcessedError(c) ==
    /\ Faults
    /\ phase[c] = "answered"
    /\ \/ UNCHANGED status
       \/ status' = [status EXCEPT ![Event(c)] = "PROCESSED"]
    /\ Fail(c)
    /\ UNCHANGED <<accepted, lost>>

\* Mutant: continue after MarkFailed.
MarkFailed_Continue(c) ==
    /\ phase[c] = "failed"
    /\ status' = [status EXCEPT ![Event(c)] = "FAILED"]
    /\ NextEvent(c)
    /\ UNCHANGED <<accepted, lost, acknowledged>>

\* Mutant: a status the table does not know.
MarkFailed_Status(c) ==
    /\ phase[c] = "failed"
    /\ status' = [status EXCEPT ![Event(c)] = "ERROR"]
    /\ Fail(c)
    /\ UNCHANGED <<accepted, lost>>

\* Process gives up on the batch, the events after this one included.  An error of
\* MarkFailed itself is ignored: the context may be the one that has just expired.
MarkFailed(c) ==
    /\ phase[c] = "failed"
    /\ \/ status' = [status EXCEPT ![Event(c)] = "FAILED"]
       \/ Faults /\ UNCHANGED status
    /\ Fail(c)
    /\ UNCHANGED <<accepted, lost>>

\* 200: everything in the batch was claimed by this call or skipped.
Acknowledge(c) ==
    /\ phase[c] = "next" /\ todo[c] = <<>>
    /\ \/ acknowledged' = acknowledged \cup asked[c]
       \/ Faults /\ UNCHANGED acknowledged
    /\ Move(c, "idle")
    /\ asked' = [asked EXCEPT ![c] = {}]
    /\ UNCHANGED <<status, accepted, lost, todo>>

\* The process stops.
Crash(c) ==
    /\ Faults
    /\ phase[c] # "idle"
    /\ Fail(c)
    /\ UNCHANGED <<status, accepted, lost>>

Step(c) ==
    \/ ClaimEvent(c) \/ Skip(c) \/ Ignore(c) \/ Reply(c) \/ ReplyError(c)
    \/ MarkProcessed(c) \/ MarkFailed(c) \/ Acknowledge(c)

Next == \E c \in Calls :
    \/ \E batch \in Batches : Deliver(c, batch)
    \/ Step(c)
    \/ ClaimError(c) \/ MarkProcessedError(c) \/ Crash(c)

Spec == Init /\ [][Next]_vars

\* Handlers run; LINE goes on delivering what it has no 200 for, and does not refuse
\* the same reply for ever.
Fairness ==
    /\ \A c \in Calls : WF_vars(Step(c))
    /\ \A e \in Events :
         SF_vars(\E c \in Calls, batch \in Batches :
                    e \in EventsOf(batch) /\ Deliver(c, batch))
    /\ \A c \in Calls, e \in Events :
         SF_vars(phase[c] = "claimed" /\ Event(c) = e /\ Reply(c))

FairSpec == Spec /\ Fairness

-----------------------------------------------------------------------------

\* An event is in the hands of one request at a time, and its row says RECEIVED
\* as long as it is, however many deliveries overlap.
HandledByOne ==
    \A e \in Events :
        /\ \A c, d \in Handlers(e) : c = d
        /\ Handlers(e) # {} => status[e] = "RECEIVED"

\* What was processed is never taken up again.
ProcessedIsFinal ==
    [][\A e \in Events : status[e] = "PROCESSED" => status'[e] = "PROCESSED"]_vars

\* A row says PROCESSED only if LINE has accepted the event's answer.
ProcessedWasAnswered ==
    \A e \in Answered : status[e] = "PROCESSED" => accepted[e] > 0

\* An event is answered again only if the answer to an earlier reply was lost, whatever
\* else fails: the errors after an accepted reply leave the row RECEIVED, which no
\* delivery claims, and a delivery that overlaps does not claim it either.
RepliedOnce == \A e \in Events : accepted[e] <= lost[e] + 1

\* Without failures of our own and with one delivery at a time, LINE gets a 200 for
\* an event only when it is processed: an error in a batch hides none of its events.
AcknowledgedWasProcessed == \A e \in acknowledged : status[e] = "PROCESSED"

\* ... and an event whose answer LINE has refused is processed in the end, and so
\* are the events behind it in its batch.
DeliveredIsProcessed ==
    \A e \in Events : (\E c \in Calls : e \in asked[c]) ~> status[e] = "PROCESSED"

=============================================================================
