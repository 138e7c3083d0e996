----------------------------- MODULE Transports -----------------------------
(***************************************************************************)
(* The two ways a transport waits for a change: EventDrivenTransport       *)
(* (transport/event.py) reads a queue that the handlers of the server      *)
(* fill, PollingTransport (transport/polling.py) asks the device again and *)
(* again.  Time is counted in ticks; one wait goes on at a time.           *)
(*                                                                         *)
(* A handler of an HTTP request runs in another thread, and its put_nowait *)
(* does not wake the event loop: an event in the queue may be taken at     *)
(* once, late, or not before the wait is over, and an event may be put     *)
(* between any two steps of a wait.  The handlers of all devices put into  *)
(* the one queue, each when its request comes: late, twice, or after that  *)
(* of a younger screen.  What a wait takes from the queue is then not what *)
(* a device shows now.                                                     *)
(***************************************************************************)
EXTENDS Integers, Sequences

CONSTANTS Screens, FirstScreen, Nothing,
          Timeout,      \* timeout_ms
          Settle,       \* stabilization_ms
          MaxQueue,     \* bound on the events in the queue
          MaxPuts       \* bound on the events that are put during one drain

ASSUME WaitScreensAssumption == FirstScreen \in Screens /\ Nothing \notin Screens
ASSUME DurationAssumption ==
    Timeout \in Nat /\ Settle \in Nat /\ MaxQueue \in Nat /\ MaxPuts \in Nat

VARIABLES
    shown,         \* what the device behind observe() shows
    past,          \* history: the screens that some device has shown
    queue,         \* _events: the events that were published and not taken
    last,          \* history: the event that was published last
    puts,          \* events put since the drain began
    latest,        \* _latest
    wpc,           \* where the wait is
    known, answer, \* previous, and what the wait returned
    left,          \* time until the deadline
    settle,        \* time until the burst has settled
    event,         \* the event or the observation in hand
    newest         \* history: the last event when the wait found no more of them

deviceVars == <<shown, past>>
eventVars == <<queue, last, puts, latest>>
waitState == <<wpc, known, answer, left, settle, event, newest>>
transportVars == <<deviceVars, eventVars, waitState>>

TransportInit ==
    /\ shown = FirstScreen /\ past = {FirstScreen}
    /\ queue = <<>> /\ last = Nothing /\ puts = 0 /\ latest = FirstScreen
    /\ wpc = "idle" /\ known = FirstScreen /\ answer = Nothing
    /\ left = 0 /\ settle = 0 /\ event = Nothing /\ newest = Nothing

\* A device shows another screen, or the same one again: the one behind observe(),
\* or one that only sends events.
ShowScreen ==
    /\ \E s \in Screens : past' = past \cup {s} /\ shown' \in {s, shown}
    /\ UNCHANGED <<eventVars, waitState>>

\* A handler publishes a screen of some device, of now or of before.
Publish ==
    /\ Len(queue) < MaxQueue /\ (wpc = "drain" => puts < MaxPuts)
    /\ \E s \in past : queue' = Append(queue, s) /\ last' = s
    /\ puts' = IF wpc = "drain" THEN puts + 1 ELSE 0
    /\ UNCHANGED <<deviceVars, latest, waitState>>

\* observe() and execute(): what the delegate shows, or else the last event taken
Observe ==
    /\ latest' \in {latest, shown}
    /\ UNCHANGED <<deviceVars, queue, last, puts, waitState>>

Begin(where) ==
    /\ wpc = "idle" /\ wpc' = where
    /\ known' \in past
    /\ left' = Timeout /\ settle' = 0 /\ event' = Nothing /\ newest' = Nothing
    /\ answer' = Nothing
    /\ UNCHANGED <<deviceVars, eventVars>>

Return(value) == /\ wpc' = "idle" /\ answer' = value

\* A tick of the clock, at any step of a wait; the sleep of a burst ends in time.
Pass ==
    /\ wpc # "idle" /\ left > 0
    /\ wpc = "settle" => settle > 0
    /\ left' = left - 1
    /\ settle' = IF wpc = "settle" THEN settle - 1 ELSE 0
    /\ UNCHANGED <<deviceVars, eventVars, wpc, known, answer, event, newest>>

-----------------------------------------------------------------------------
(* EventDrivenTransport.wait_for_change.                                   *)

\* an event arrives before the deadline
Take ==
    /\ wpc = "get" /\ left > 0 /\ queue # <<>>
    /\ queue' = Tail(queue) /\ event' = Head(queue)
    /\ IF Settle > 0
       THEN /\ wpc' = "settle" /\ UNCHANGED newest
            /\ settle' = IF Settle < left THEN Settle ELSE left
       ELSE /\ wpc' = "judge" /\ newest' = event' /\ UNCHANGED settle
    /\ UNCHANGED <<deviceVars, last, puts, latest, known, answer, left>>

\* the sleep is over: the rest of the burst is taken, event by event
Settled ==
    /\ wpc = "settle" /\ settle = 0
    /\ wpc' = "drain" /\ puts' = 0
    /\ UNCHANGED <<deviceVars, queue, last, latest, known, answer, left, settle, event, newest>>

DrainOne_KeepingFirst ==
    /\ wpc = "drain" /\ queue # <<>>
    /\ queue' = Tail(queue)
    /\ UNCHANGED <<deviceVars, last, puts, latest, wpc, known, answer, left, settle, event, newest>>

DrainOne ==
    /\ wpc = "drain" /\ queue # <<>>
    /\ queue' = Tail(queue) /\ event' = Head(queue)
    /\ UNCHANGED <<deviceVars, last, puts, latest, wpc, known, answer, left, settle, newest>>

\* QueueEmpty; an event that is put from now on waits for the next wait
DrainEnds ==
    /\ wpc = "drain" /\ queue = <<>>
    /\ wpc' = "judge" /\ newest' = last
    /\ UNCHANGED <<deviceVars, eventVars, known, answer, left, settle, event>>

\* the event in hand becomes the latest one and is compared with what is known
JudgeEvent_Renewing ==
    /\ wpc = "judge" /\ latest' = event
    /\ IF event # known THEN Return(event) /\ UNCHANGED left
       ELSE wpc' = "get" /\ left' = Timeout /\ UNCHANGED answer
    /\ UNCHANGED <<deviceVars, queue, last, puts, known, settle, event, newest>>

JudgeEvent ==
    /\ wpc = "judge" /\ latest' = event
    /\ IF event # known THEN Return(event) ELSE wpc' = "get" /\ UNCHANGED answer
    /\ UNCHANGED <<deviceVars, queue, last, puts, known, left, settle, event, newest>>

\* wait_for(..., timeout=0) gives up even if an event is there
TimeOut ==
    /\ wpc = "get" /\ left = 0
    /\ Return(Nothing)
    /\ UNCHANGED <<deviceVars, eventVars, known, left, settle, event, newest>>

EventStep == Settled \/ DrainOne \/ DrainEnds \/ JudgeEvent \/ TimeOut

-----------------------------------------------------------------------------
(* PollingTransport.wait_for_change.                                       *)

Poll ==
    /\ wpc = "poll" /\ event' = shown
    /\ IF shown # known THEN Return(shown) ELSE wpc' = "check" /\ UNCHANGED answer
    /\ UNCHANGED <<deviceVars, eventVars, known, left, settle, newest>>

\* the deadline is looked at after the device
Check ==
    /\ wpc = "check"
    /\ IF left = 0 THEN Return(Nothing) /\ UNCHANGED left
       ELSE wpc' = "poll" /\ left' = left - 1 /\ UNCHANGED answer   \* sleep
    /\ UNCHANGED <<deviceVars, eventVars, known, settle, event, newest>>

WaitStep == Take \/ EventStep \/ Poll \/ Check

TransportNext ==
    ShowScreen \/ Publish \/ Observe \/ Begin("get") \/ Begin("poll") \/ Pass \/ WaitStep

\* Time passes, and a wait whose time has come goes on; nothing is known of Take.
TransportSpec ==
    /\ TransportInit /\ [][TransportNext]_transportVars
    /\ WF_transportVars(Pass) /\ WF_transportVars(EventStep)
    /\ WF_transportVars(Poll) /\ WF_transportVars(Check)

-----------------------------------------------------------------------------

\* Events and polls keep the same promise: every wait ends, however many events come
\* in, with a screen that some device has shown and that is not the known one, or
\* with nothing.  A drain has no deadline of its own: that it ends rests on MaxPuts,
\* on handlers that do not put events for ever faster than the loop takes them.
Promise == INSTANCE ChangeWait WITH waiting <- wpc # "idle"
KeepsPromise == Promise!WaitSpec

\* A settled burst is answered with the newest event there was when the queue was
\* found empty, whatever is put between the steps of the drain: no older event of
\* any device outlives it.  (With no settling time it is the event that was taken.)
AnswersTheLastEvent ==
    [][wpc = "judge" /\ answer' \in Screens => answer' = newest]_transportVars

\* A wait that returns nothing took no event, or the last one that it took, or its
\* last look at the device, was what the caller knew.  A change that it did not take
\* any more stays in the queue: if it took events and left none, the newest of all
\* is the known screen.
NothingWasSetAside ==
    wpc = "idle" /\ answer = Nothing =>
        /\ event \in {Nothing, known}
        /\ queue = <<>> /\ newest # Nothing => last = known

\* What a wait answers is the end of what was published, and what it did not answer
\* was the known screen or is still to come.
AnswersAreTrue == AnswersTheLastEvent /\ []NothingWasSetAside
=============================================================================
