-------------------------- MODULE LineWebhookProofs --------------------------
(***************************************************************************)
(* Proofs about LineWebhook, for every set of events, batches and calls.   *)
(***************************************************************************)
EXTENDS LineWebhook, SequenceTheorems, TLAPS

-----------------------------------------------------------------------------
(* Type correctness.                                                       *)

\* Every step keeps the types.
LEMMA StepKeepsType == TypeOK /\ [Next]_vars => TypeOK'
<1> SUFFICES ASSUME TypeOK, [Next]_vars PROVE TypeOK'
  OBVIOUS
<1> USE EventsAnswered DEF TypeOK, Move, Event
<1>1. ASSUME NEW c \in Calls, todo[c] # <<>>
      PROVE  Head(todo[c]) \in Events /\ Tail(todo[c]) \in Seq(Events)
  BY <1>1, HeadTailProperties
<1>2. ASSUME NEW c \in Calls, Fail(c) PROVE
         /\ todo' \in [Calls -> Seq(Events)] /\ asked' \in [Calls -> SUBSET Events]
         /\ phase' \in [Calls -> {"idle", "next", "claimed", "answered", "failed"}]
         /\ acknowledged' \in SUBSET Events
         /\ \A d \in Calls : phase'[d] \in {"claimed", "answered", "failed"} => todo'[d] # <<>>
  BY <1>2, EmptySeq DEF Fail
<1>3. ASSUME NEW c \in Calls, todo[c] # <<>>, NextEvent(c) PROVE
         /\ todo' \in [Calls -> Seq(Events)] /\ asked' \in [Calls -> SUBSET Events]
         /\ phase' \in [Calls -> {"idle", "next", "claimed", "answered", "failed"}]
         /\ \A d \in Calls : phase'[d] \in {"claimed", "answered", "failed"} => todo'[d] # <<>>
  BY <1>1, <1>3 DEF NextEvent
<1>4. ASSUME NEW c \in Calls, NEW batch \in Batches, Deliver(c, batch) PROVE TypeOK'
  <2>1. batch \in Seq(Events) /\ EventsOf(batch) \in SUBSET Events
    BY BatchesOfEvents DEF EventsOf
  <2> QED BY <1>4, <2>1 DEF Deliver
<1>5. ASSUME NEW c \in Calls, \/ ClaimEvent(c) \/ Ignore(c) \/ ReplyError(c)
      PROVE  TypeOK'
  <2>1. CASE ClaimEvent(c)
    BY <1>1, <2>1 DEF ClaimEvent
  <2>2. CASE Ignore(c)
    BY <2>2 DEF Ignore
  <2>3. CASE ReplyError(c)
    BY <2>3 DEF ReplyError
  <2> QED BY <1>5, <2>1, <2>2, <2>3
<1>6. ASSUME NEW c \in Calls, Reply(c) PROVE TypeOK'
  <2>1. Event(c) \in Events
    BY <1>1, <1>6 DEF Reply
  <2>2. lost' = lost \/ lost' = [lost EXCEPT ![Event(c)] = @ + 1]
    BY <1>6 DEF Reply
  <2>3. accepted' \in [Events -> Nat] /\ lost' \in [Events -> Nat]
    <3>1. accepted' \in [Events -> Nat]
      BY <2>1, <1>6 DEF Reply
    <3>2. CASE lost' = lost
      BY <3>1, <3>2
    <3>3. CASE lost' = [lost EXCEPT ![Event(c)] = @ + 1]
      BY <2>1, <3>1, <3>3
    <3> QED BY <2>2, <3>1, <3>2, <3>3
  <2>4. /\ phase' \in [Calls -> {"idle", "next", "claimed", "answered", "failed"}]
        /\ \A d \in Calls : phase'[d] \in {"claimed", "answered", "failed"} => todo[d] # <<>>
    BY <1>6 DEF Reply
  <2>5. UNCHANGED <<status, acknowledged, todo, asked>>
    BY <1>6 DEF Reply
  <2> QED BY <2>3, <2>4, <2>5
<1>7. ASSUME NEW c \in Calls, Skip(c) PROVE TypeOK'
  BY <1>1, <1>3, <1>7 DEF Skip
<1>8. ASSUME NEW c \in Calls, MarkProcessed(c) PROVE TypeOK'
  BY <1>1, <1>3, <1>8 DEF MarkProcessed
<1>9. ASSUME NEW c \in Calls,
             ClaimError(c) \/ MarkProcessedError(c) \/ MarkFailed(c) \/ Crash(c)
      PROVE  TypeOK'
  <2>1. status' \in [Events -> {"none", "RECEIVED", "PROCESSED", "FAILED"}]
    BY <1>1, <1>9 DEF ClaimError, MarkProcessedError, MarkFailed, Crash
  <2>2. Fail(c) /\ UNCHANGED <<accepted, lost>>
    BY <1>9 DEF ClaimError, MarkProcessedError, MarkFailed, Crash
  <2> QED BY <1>2, <2>1, <2>2
<1>10. ASSUME NEW c \in Calls, Acknowledge(c) PROVE TypeOK'
  BY <1>10 DEF Acknowledge
<1>11. CASE UNCHANGED vars
  BY <1>11 DEF vars
<1> QED
  BY <1>4, <1>5, <1>6, <1>7, <1>8, <1>9, <1>10, <1>11 DEF Next, Step

\* A call under way always knows the event it is at, and only the four statuses of
\* the table and the phases of Process are ever reached.
THEOREM TypeCorrect == Spec => []TypeOK
<1>1. Init => TypeOK
  BY EmptySeq DEF Init, TypeOK
<1> QED
  BY <1>1, StepKeepsType, PTL DEF Spec

-----------------------------------------------------------------------------
(* What a step does to the events that are in hand.                        *)

Busy(c) == phase[c] \in {"claimed", "answered", "failed"}

\* c takes up an event nobody has in hand.
Takes(c) ==
    /\ Event(c) \in Events /\ Claimable(Event(c)) /\ Event(c)' = Event(c)
    /\ status' = [status EXCEPT ![Event(c)] = "RECEIVED"]
    /\ phase'[c] = "claimed" /\ accepted' = accepted /\ lost' = lost

\* c goes on with the event it has in hand: unless the reply arrives and so does its
\* answer, no more replies are accepted than answers get lost.
Continues(c) ==
    /\ Busy(c) /\ Event(c)' = Event(c) /\ status' = status
    /\ phase[c] = "claimed" /\ phase'[c] \in {"answered", "failed"}
    /\ \A e \in Events : accepted'[e] >= accepted[e]
    /\ \A e \in Events \ {Event(c)} : accepted'[e] = accepted[e] /\ lost'[e] = lost[e]
    /\ accepted'[Event(c)] + lost[Event(c)] <= accepted[Event(c)] + lost'[Event(c)] + 1
    /\ phase'[c] = "failed" =>
         accepted'[Event(c)] + lost[Event(c)] <= accepted[Event(c)] + lost'[Event(c)]
    /\ phase'[c] = "answered" /\ Event(c) \in Answered => accepted'[Event(c)] > 0

\* c lets go of its event and writes the outcome.
Releases(c) ==
    /\ Busy(c) /\ ~Busy(c)' /\ accepted' = accepted /\ lost' = lost
    /\ \/ status' = status
       \/ /\ status' = [status EXCEPT ![Event(c)] = "PROCESSED"] /\ phase[c] = "answered"
       \/ /\ status' = [status EXCEPT ![Event(c)] = "FAILED"] /\ phase[c] = "failed"

\* c has no event in hand afterwards and has written none, or taken one up and
\* lost it at once.
Passes(c) ==
    /\ ~Busy(c)' /\ accepted' = accepted /\ lost' = lost
    /\ \/ status' = status
       \/ /\ Event(c) \in Events /\ Claimable(Event(c))
          /\ status' = [status EXCEPT ![Event(c)] = "RECEIVED"]

\* Every step is one call's, of one of the four kinds, and disturbs no other call.
LEMMA StepKinds ==
    ASSUME TypeOK, Next
    PROVE  \E c \in Calls :
             /\ Takes(c) \/ Continues(c) \/ Releases(c) \/ Passes(c)
             /\ \A d \in Calls \ {c} : phase'[d] = phase[d] /\ todo'[d] = todo[d]
<1> USE DEF TypeOK, Move, Event, Busy
<1>1. ASSUME NEW c \in Calls, ClaimEvent(c)
      PROVE  Takes(c) /\ \A d \in Calls \ {c} : phase'[d] = phase[d] /\ todo'[d] = todo[d]
  BY <1>1, HeadTailProperties DEF ClaimEvent, Takes
<1>2. ASSUME NEW c \in Calls, Ignore(c) \/ Reply(c) \/ ReplyError(c)
      PROVE  Continues(c) /\ \A d \in Calls \ {c} : phase'[d] = phase[d] /\ todo'[d] = todo[d]
  <2>1. Busy(c) /\ Event(c) \in Events
    BY <1>2, HeadTailProperties DEF Ignore, Reply, ReplyError
  <2>2. CASE Ignore(c)
    BY <2>1, <2>2 DEF Ignore, Continues
  <2>3. CASE Reply(c)
    BY <2>1, <2>3 DEF Reply, Continues
  <2>4. CASE ReplyError(c)
    BY <2>1, <2>4 DEF ReplyError, Continues
  <2> QED BY <1>2, <2>2, <2>3, <2>4
<1>3. ASSUME NEW c \in Calls, MarkProcessed(c) \/ MarkProcessedError(c) \/ MarkFailed(c)
      PROVE  Releases(c) /\ \A d \in Calls \ {c} : phase'[d] = phase[d] /\ todo'[d] = todo[d]
  BY <1>3 DEF MarkProcessed, MarkProcessedError, MarkFailed, NextEvent, Fail, Releases
<1>4. ASSUME NEW c \in Calls, Skip(c) \/ ClaimError(c) \/ Acknowledge(c) \/ Crash(c)
                                \/ \E batch \in Batches : Deliver(c, batch)
      PROVE  Passes(c) /\ \A d \in Calls \ {c} : phase'[d] = phase[d] /\ todo'[d] = todo[d]
  <2>1. todo[c] # <<>> => Event(c) \in Events
    BY HeadTailProperties
  <2> QED BY <1>4, <2>1 DEF Skip, ClaimError, Acknowledge, Crash, Deliver, NextEvent, Fail, Passes
<1> QED
  BY <1>1, <1>2, <1>3, <1>4 DEF Next, Step

-----------------------------------------------------------------------------
(* One request per event.                                                  *)

\* Inductive together: who has an event in hand has it alone, its row says RECEIVED,
\* and past the reply LINE has accepted it.
HandledInv ==
    /\ \A c, d \in Calls : Busy(c) /\ Busy(d) /\ Event(c) = Event(d) => c = d
    /\ \A c \in Calls : Busy(c) => status[Event(c)] = "RECEIVED"
    /\ \A c \in Calls :
         phase[c] = "answered" /\ Event(c) \in Answered => accepted[Event(c)] > 0
    /\ ProcessedWasAnswered

\* Only a claimable event is taken up, and only its holder writes its outcome.
LEMMA StepKeepsHandledInv ==
    ASSUME TypeOK, HandledInv, Next
    PROVE  HandledInv'
<1>1. PICK c \in Calls : /\ Takes(c) \/ Continues(c) \/ Releases(c) \/ Passes(c)
                         /\ \A d \in Calls \ {c} : phase'[d] = phase[d] /\ todo'[d] = todo[d]
  BY StepKinds
<1>2. \A d \in Calls \ {c} : /\ Busy(d)' <=> Busy(d)
                             /\ Event(d)' = Event(d)
                             /\ phase'[d] = phase[d]
  BY <1>1 DEF Busy, Event
<1>3. \A d \in Calls : Busy(d) => Event(d) \in Events
  BY HeadTailProperties DEF TypeOK, Busy, Event
<1>3a. status' \in [Events -> {"none", "RECEIVED", "PROCESSED", "FAILED"}] /\ accepted' \in [Events -> Nat]
  BY StepKeepsType DEF TypeOK
<1>4. ASSUME NEW a \in Calls, NEW b \in Calls, Busy(a)', Busy(b)', Event(a)' = Event(b)'
      PROVE  a = b
  <2>1. CASE Takes(c)
    BY <1>2, <1>4, <2>1 DEF Takes, Claimable, HandledInv
  <2>2. CASE Continues(c)
    BY <1>2, <1>4, <2>2 DEF Continues, HandledInv
  <2>3. CASE Releases(c) \/ Passes(c)
    BY <1>2, <1>4, <2>3 DEF Releases, Passes, HandledInv
  <2> QED BY <1>1, <2>1, <2>2, <2>3
<1>5. ASSUME NEW a \in Calls, Busy(a)'
      PROVE  status'[Event(a)'] = "RECEIVED"
  <2>1. CASE Takes(c)
    BY <1>2, <1>3, <1>5, <2>1 DEF Takes, HandledInv, TypeOK
  <2>2. CASE Continues(c)
    BY <1>2, <1>5, <2>2 DEF Continues, HandledInv
  <2>3. CASE Releases(c)
    <3>1. Busy(a) /\ a # c /\ Event(a)' = Event(a) /\ Event(a) \in Events
      BY <1>2, <1>3, <1>5, <2>3 DEF Releases
    <3>2. Event(a) # Event(c)
      BY <3>1, <2>3 DEF Releases, HandledInv
    <3> QED BY <3>1, <3>2, <2>3 DEF Releases, HandledInv, TypeOK
  <2>4. CASE Passes(c)
    <3>1. Busy(a) /\ a # c /\ Event(a)' = Event(a) /\ Event(a) \in Events
      BY <1>2, <1>3, <1>5, <2>4 DEF Passes
    <3>2. status[Event(a)] = "RECEIVED" /\ (status' = status \/ Event(a) # Event(c))
      BY <3>1, <2>4 DEF Passes, Claimable, HandledInv
    <3> QED BY <3>1, <3>2, <2>4 DEF Passes, TypeOK
  <2> QED BY <1>1, <2>1, <2>2, <2>3, <2>4
<1>6. ASSUME NEW a \in Calls, phase'[a] = "answered", Event(a)' \in Answered
      PROVE  accepted'[Event(a)'] > 0
  <2>1. CASE a = c
    BY <1>1, <1>6, <2>1 DEF Takes, Continues, Releases, Passes, Busy
  <2>2. CASE a # c
    <3>1. phase[a] = "answered" /\ Event(a) \in Answered /\ Event(a)' = Event(a)
      BY <1>2, <1>6, <2>2 DEF Busy
    <3>2. \A e \in Events : accepted'[e] >= accepted[e] /\ accepted'[e] \in Int
      BY <1>1, <1>3a DEF Takes, Continues, Releases, Passes, TypeOK
    <3> QED
      BY <3>1, <3>2, EventsAnswered DEF HandledInv, TypeOK
  <2> QED BY <2>1, <2>2
<1>7. ASSUME NEW e \in Answered, status'[e] = "PROCESSED"
      PROVE  accepted'[e] > 0
  <2>1. accepted'[e] >= accepted[e] /\ e \in Events
    BY <1>1, EventsAnswered DEF Takes, Continues, Releases, Passes, TypeOK
  <2>2. CASE status[e] = "PROCESSED"
    BY <1>3a, <2>1, <2>2 DEF HandledInv, ProcessedWasAnswered, TypeOK
  <2>3. CASE status[e] # "PROCESSED"
    <3>1. phase[c] = "answered" /\ Event(c) = e /\ accepted' = accepted
      BY <1>1, <1>7, <2>1, <2>3 DEF Takes, Continues, Releases, Passes, TypeOK
    <3> QED
      BY <3>1 DEF HandledInv
  <2> QED BY <2>2, <2>3
<1> QED
  BY <1>4, <1>5, <1>6, <1>7 DEF HandledInv, ProcessedWasAnswered

\* HandledInv is inductive.
THEOREM HandledInvariant == Spec => []HandledInv
<1>1. Init => HandledInv
  BY EventsAnswered DEF Init, HandledInv, ProcessedWasAnswered, Busy
<1>2. TypeOK /\ HandledInv /\ [Next]_vars => HandledInv'
  <2>1. CASE UNCHANGED vars
    BY <2>1 DEF vars, HandledInv, ProcessedWasAnswered, Busy, Event
  <2> QED BY <2>1, StepKeepsHandledInv
<1> QED
  BY <1>1, <1>2, TypeCorrect, PTL DEF Spec

\* Overlapping deliveries never have the same event in hand.
THEOREM EventsHandledByOne == Spec => []HandledByOne
<1>1. HandledInv => HandledByOne
  BY DEF HandledInv, HandledByOne, Handlers, Busy
<1> QED
  BY <1>1, HandledInvariant, PTL

\* PROCESSED rows have been answered.
THEOREM ProcessedMeansAnswered == Spec => []ProcessedWasAnswered
<1>1. HandledInv => ProcessedWasAnswered
  BY DEF HandledInv
<1> QED
  BY <1>1, HandledInvariant, PTL

\* PROCESSED is final.
THEOREM ProcessedStays == Spec => ProcessedIsFinal
<1>1. ASSUME TypeOK, HandledInv, [Next]_vars
      PROVE  [\A e \in Events : status[e] = "PROCESSED" => status'[e] = "PROCESSED"]_vars
  <2>1. CASE UNCHANGED vars
    BY <2>1
  <2>2. CASE Next
    <3>1. PICK c \in Calls : Takes(c) \/ Continues(c) \/ Releases(c) \/ Passes(c)
      BY <2>2, <1>1, StepKinds
    <3> QED
      BY <3>1, <1>1 DEF Takes, Continues, Releases, Passes, Claimable, HandledInv, TypeOK
  <2> QED BY <1>1, <2>1, <2>2
<1> QED
  BY <1>1, TypeCorrect, HandledInvariant, PTL DEF Spec, ProcessedIsFinal

-----------------------------------------------------------------------------
(* One reply per event.                                                    *)

\* Inductive with HandledInv: while an event may still be replied to, every reply
\* accepted so far has lost its answer.
ReplyInv ==
    /\ RepliedOnce
    /\ \A e \in Events : Claimable(e) => accepted[e] <= lost[e]
    /\ \A c \in Calls :
         phase[c] \in {"claimed", "failed"} => accepted[Event(c)] <= lost[Event(c)]

\* Only the holder of an event replies, and only from "claimed".
LEMMA StepKeepsReplyInv ==
    ASSUME TypeOK, HandledInv, ReplyInv, Next
    PROVE  ReplyInv'
<1>1. PICK c \in Calls : /\ Takes(c) \/ Continues(c) \/ Releases(c) \/ Passes(c)
                         /\ \A d \in Calls \ {c} : phase'[d] = phase[d] /\ todo'[d] = todo[d]
  BY StepKinds
<1>2. \A d \in Calls \ {c} : phase'[d] = phase[d] /\ Event(d)' = Event(d)
  BY <1>1 DEF Event
<1>3. \A d \in Calls : Busy(d) => Event(d) \in Events
  BY HeadTailProperties DEF TypeOK, Busy, Event
<1>4. \A e \in Events : accepted[e] \in Nat /\ lost[e] \in Nat /\ accepted'[e] \in Nat /\ lost'[e] \in Nat
  BY StepKeepsType DEF TypeOK
<1>5. CASE Continues(c)
  <2>1. Event(c) \in Events /\ ~Claimable(Event(c)) /\ accepted[Event(c)] <= lost[Event(c)]
    BY <1>3, <1>5 DEF Continues, HandledInv, ReplyInv, Claimable
  <2>2. RepliedOnce'
    BY <1>4, <1>5, <2>1 DEF Continues, ReplyInv, RepliedOnce
  <2>3. \A e \in Events : Claimable(e)' => accepted'[e] <= lost'[e]
    BY <1>5, <2>1 DEF Continues, ReplyInv, Claimable
  <2>4. ASSUME NEW d \in Calls \ {c}, phase'[d] \in {"claimed", "failed"}
        PROVE  accepted'[Event(d)'] <= lost'[Event(d)']
    <3>1. Busy(d) /\ Event(d) # Event(c) /\ Event(d) \in Events
      BY <1>2, <1>3, <1>5, <2>4 DEF Busy, Continues, HandledInv
    <3> QED BY <3>1, <1>2, <1>5, <2>4 DEF Continues, ReplyInv
  <2>5. phase'[c] \in {"claimed", "failed"} => accepted'[Event(c)'] <= lost'[Event(c)']
    BY <1>4, <1>5, <2>1 DEF Continues
  <2> QED BY <2>2, <2>3, <2>4, <2>5 DEF ReplyInv
<1>6. CASE Takes(c) \/ Releases(c) \/ Passes(c)
  <2>1. accepted' = accepted /\ lost' = lost
    BY <1>6 DEF Takes, Releases, Passes
  <2>2. RepliedOnce'
    BY <2>1 DEF ReplyInv, RepliedOnce
  <2>3. ASSUME NEW e \in Events, Claimable(e)' PROVE accepted[e] <= lost[e]
    <3>1. CASE status'[e] = status[e]
      BY <2>3, <3>1 DEF ReplyInv, Claimable
    <3>2. CASE status'[e] # status[e]
      <4>1. phase[c] = "failed" /\ Event(c) = e
        BY <1>6, <2>3, <3>2 DEF Takes, Releases, Passes, Claimable, TypeOK
      <4> QED BY <4>1 DEF ReplyInv
    <3> QED BY <3>1, <3>2
  <2>4. ASSUME NEW d \in Calls, phase'[d] \in {"claimed", "failed"}
        PROVE  accepted[Event(d)'] <= lost[Event(d)']
    <3>1. CASE d = c
      BY <1>6, <2>4, <3>1 DEF Takes, Releases, Passes, Busy, ReplyInv
    <3>2. CASE d # c
      BY <1>2, <2>4, <3>2 DEF ReplyInv
    <3> QED BY <3>1, <3>2
  <2> QED BY <2>1, <2>2, <2>3, <2>4 DEF ReplyInv
<1> QED
  BY <1>1, <1>5, <1>6

\* No event is answered again unless an answer of LINE was lost.
THEOREM RepliesOnce == Spec => []RepliedOnce
<1>1. Init => ReplyInv
  BY DEF Init, ReplyInv, RepliedOnce
<1>2. TypeOK /\ HandledInv /\ ReplyInv /\ [Next]_vars => ReplyInv'
  <2>1. CASE UNCHANGED vars
    BY <2>1 DEF vars, ReplyInv, RepliedOnce, Claimable, Event
  <2> QED BY <2>1, StepKeepsReplyInv
<1>3. ReplyInv => RepliedOnce
  BY DEF ReplyInv
<1> QED
  BY <1>1, <1>2, <1>3, TypeCorrect, HandledInvariant, PTL DEF Spec

-----------------------------------------------------------------------------
(* A 200 hides no event.                                                   *)

\* LINE waits for the outcome of a delivery before it begins another.
OneAtATime == \A c, d \in Calls : phase[c] # "idle" /\ phase[d] # "idle" => c = d

\* Inductive without faults and one delivery at a time: a row says RECEIVED only while
\* its event is in hand, so what a call leaves behind in its batch is processed.
BatchInv ==
    /\ AcknowledgedWasProcessed
    /\ \A c \in Calls : \A e \in asked[c] :
         e \in EventsOf(todo[c]) \/ status[e] = "PROCESSED"
    /\ \A e \in Events : status[e] = "RECEIVED" => \E c \in Calls : Busy(c) /\ Event(c) = e

\* An event of a batch is the first or one of the rest.
LEMMA HeadOrTail ==
    ASSUME NEW S, NEW s \in Seq(S), s # <<>>
    PROVE  /\ Head(s) \in S /\ Tail(s) \in Seq(S)
           /\ \A x \in EventsOf(s) : x = Head(s) \/ x \in EventsOf(Tail(s))
<1>1. /\ Head(s) \in S /\ Tail(s) \in Seq(S) /\ Head(s) = s[1] /\ Len(Tail(s)) = Len(s) - 1
      /\ \A i \in 1..Len(Tail(s)) : Tail(s)[i] = s[i + 1]
  BY HeadTailProperties
<1>2. Len(s) \in Nat /\ DOMAIN s = 1..Len(s) /\ DOMAIN Tail(s) = 1..Len(Tail(s))
  BY <1>1, LenProperties
<1>3. ASSUME NEW i \in DOMAIN s, s[i] # Head(s)
      PROVE  s[i] \in EventsOf(Tail(s))
  <2>1. i - 1 \in DOMAIN Tail(s) /\ Tail(s)[i - 1] = s[i]
    BY <1>1, <1>2, <1>3
  <2> QED BY <2>1 DEF EventsOf
<1> QED
  BY <1>1, <1>3 DEF EventsOf

\* Without faults a call leaves an event only when it is processed or marks it FAILED
\* and gives up the batch, so that LINE gets no 200.
LEMMA StepKeepsBatchInv ==
    ASSUME ~Faults, OneAtATime, TypeOK, HandledInv, BatchInv, Next
    PROVE  BatchInv'
<1> USE DEF TypeOK, Move, Busy
<1>0. \A e \in Events : status[e] = "PROCESSED" => status'[e] = "PROCESSED"
  <2>1. PICK c \in Calls : Takes(c) \/ Continues(c) \/ Releases(c) \/ Passes(c)
    BY StepKinds
  <2> QED BY <2>1 DEF Takes, Continues, Releases, Passes, Claimable, HandledInv
<1>1. \A c \in Calls : todo[c] # <<>> =>
        /\ Event(c) \in Events /\ Tail(todo[c]) \in Seq(Events)
        /\ \A x \in EventsOf(todo[c]) : x = Event(c) \/ x \in EventsOf(Tail(todo[c]))
  BY HeadOrTail DEF Event
<1>2. ASSUME NEW c \in Calls, NEW batch \in Batches, Deliver(c, batch) PROVE BatchInv'
  <2>1. /\ phase[c] = "idle" /\ UNCHANGED <<status, acknowledged>>
        /\ phase' = [phase EXCEPT ![c] = "next"] /\ todo' = [todo EXCEPT ![c] = batch]
        /\ asked' = [asked EXCEPT ![c] = EventsOf(batch)]
    BY <1>2 DEF Deliver
  <2>2. \A d \in Calls \ {c} : asked'[d] = asked[d] /\ todo'[d] = todo[d] /\ phase'[d] = phase[d]
    BY <2>1
  <2>3. asked'[c] = EventsOf(batch) /\ todo'[c] = batch
    BY <2>1
  <2> QED BY <2>1, <2>2, <2>3 DEF BatchInv, AcknowledgedWasProcessed, Event
<1>3. ASSUME NEW c \in Calls, ClaimEvent(c) PROVE BatchInv'
  <2>1. /\ todo[c] # <<>> /\ UNCHANGED <<acknowledged, todo, asked>> /\ phase[c] = "next"
        /\ phase' = [phase EXCEPT ![c] = "claimed"]
        /\ status' = [status EXCEPT ![Event(c)] = "RECEIVED"]
    BY <1>3 DEF ClaimEvent
  <2>2. Busy(c)' /\ \A d \in Calls : Event(d)' = Event(d) /\ (Busy(d) => Busy(d)')
    BY <2>1 DEF Event
  <2> QED BY <1>0, <1>1, <2>1, <2>2 DEF BatchInv, AcknowledgedWasProcessed
<1>4. ASSUME NEW c \in Calls, Ignore(c) \/ Reply(c) \/ ReplyError(c) PROVE BatchInv'
  <2>1. /\ UNCHANGED <<status, acknowledged, todo, asked>> /\ Busy(c)
        /\ phase' \in {[phase EXCEPT ![c] = "answered"], [phase EXCEPT ![c] = "failed"]}
    BY <1>4 DEF Ignore, Reply, ReplyError
  <2>2. \A d \in Calls : Event(d)' = Event(d) /\ (Busy(d) => Busy(d)')
    BY <2>1 DEF Event
  <2> QED BY <2>1, <2>2 DEF BatchInv, AcknowledgedWasProcessed
<1>5. ASSUME NEW c \in Calls, Skip(c) \/ MarkProcessed(c) PROVE BatchInv'
  <2>1. /\ todo[c] # <<>> /\ phase[c] # "idle" /\ NextEvent(c) /\ UNCHANGED acknowledged
        /\ status'[Event(c)] = "PROCESSED"
        /\ \A e \in Events \ {Event(c)} : status'[e] = status[e]
    <3>1. CASE MarkProcessed(c)
      BY <1>1, <3>1 DEF MarkProcessed
    <3>2. CASE Skip(c)
      <4>1. /\ todo[c] # <<>> /\ phase[c] = "next" /\ NextEvent(c)
            /\ UNCHANGED <<status, acknowledged>>
            /\ status[Event(c)] \in {"RECEIVED", "PROCESSED"}
        BY <1>1, <3>2 DEF Skip, Claimable
      <4>2. status[Event(c)] # "RECEIVED"
        BY <1>1, <4>1 DEF BatchInv, OneAtATime
      <4> QED BY <4>1, <4>2
    <3> QED BY <1>5, <3>1, <3>2
  <2>2. /\ asked' = asked /\ todo'[c] = Tail(todo[c]) /\ phase'[c] = "next"
        /\ \A d \in Calls \ {c} : /\ todo'[d] = todo[d] /\ phase'[d] = phase[d]
                                  /\ Event(d)' = Event(d) /\ phase[d] = "idle"
    BY <2>1 DEF NextEvent, OneAtATime, Event
  <2>3. ASSUME NEW d \in Calls, NEW e \in asked'[d]
        PROVE  e \in EventsOf(todo'[d]) \/ status'[e] = "PROCESSED"
    <3>1. e \in Events /\ (e \in EventsOf(todo[d]) \/ status[e] = "PROCESSED")
      BY <2>2, <2>3 DEF BatchInv
    <3> QED BY <1>0, <1>1, <2>1, <2>2, <3>1
  <2>4. ASSUME NEW e \in Events, status'[e] = "RECEIVED" PROVE FALSE
    <3>1. e # Event(c) /\ status[e] = "RECEIVED"
      BY <2>1, <2>4
    <3>2. PICK d \in Calls : Busy(d) /\ Event(d) = e
      BY <3>1 DEF BatchInv
    <3>3. d = c
      BY <2>2, <3>2
    <3> QED BY <3>1, <3>2, <3>3
  <2>5. AcknowledgedWasProcessed'
    BY <1>0, <2>1 DEF BatchInv, AcknowledgedWasProcessed
  <2> QED BY <2>3, <2>4, <2>5 DEF BatchInv
<1>6. ASSUME NEW c \in Calls, MarkFailed(c) PROVE BatchInv'
  <2>1. /\ Busy(c) /\ UNCHANGED acknowledged
        /\ status' = [status EXCEPT ![Event(c)] = "FAILED"]
        /\ asked' = [asked EXCEPT ![c] = {}] /\ phase' = [phase EXCEPT ![c] = "idle"]
        /\ todo' = [todo EXCEPT ![c] = <<>>]
    BY <1>6 DEF MarkFailed, Fail
  <2>2. \A d \in Calls \ {c} : asked'[d] = asked[d] /\ todo'[d] = todo[d]
    BY <2>1
  <2>3. \A e \in Events : status'[e] # "RECEIVED"
    BY <2>1, <1>1 DEF BatchInv, OneAtATime
  <2> QED BY <1>0, <2>1, <2>2, <2>3 DEF BatchInv, AcknowledgedWasProcessed
<1>7. ASSUME NEW c \in Calls, Acknowledge(c) PROVE BatchInv'
  <2>1. /\ phase[c] = "next" /\ todo[c] = <<>> /\ UNCHANGED <<status, todo>>
        /\ acknowledged' = acknowledged \cup asked[c]
        /\ phase' = [phase EXCEPT ![c] = "idle"] /\ asked' = [asked EXCEPT ![c] = {}]
    BY <1>7 DEF Acknowledge
  <2>2. EventsOf(todo[c]) = {}
    BY <2>1 DEF EventsOf
  <2>3. \A d \in Calls : Event(d)' = Event(d) /\ (Busy(d) => Busy(d)')
    BY <2>1 DEF Event
  <2> QED BY <2>1, <2>2, <2>3 DEF BatchInv, AcknowledgedWasProcessed
<1>8. \A c \in Calls : ~(ClaimError(c) \/ MarkProcessedError(c) \/ Crash(c))
  BY DEF ClaimError, MarkProcessedError, Crash
<1> QED
  BY <1>2, <1>3, <1>4, <1>5, <1>6, <1>7, <1>8 DEF Next, Step

\* Without failures of our own and with one delivery at a time, LINE gets a 200 for an
\* event only when it is processed: for any batches, of any length and with repetitions.
THEOREM AcknowledgesProcessed ==
    ASSUME ~Faults
    PROVE  Spec /\ []OneAtATime => []AcknowledgedWasProcessed
<1>1. Init => BatchInv
  BY DEF Init, BatchInv, AcknowledgedWasProcessed
<1>2. TypeOK /\ HandledInv /\ OneAtATime /\ BatchInv /\ [Next]_vars => BatchInv'
  <2>1. CASE UNCHANGED vars
    BY <2>1 DEF vars, BatchInv, AcknowledgedWasProcessed, Busy, Event
  <2> QED BY <2>1, StepKeepsBatchInv
<1>3. BatchInv => AcknowledgedWasProcessed
  BY DEF BatchInv
<1> QED
  BY <1>1, <1>2, <1>3, TypeCorrect, HandledInvariant, PTL DEF Spec

=============================================================================
