-------------------------- MODULE TransportsProofs --------------------------
(***************************************************************************)
(* Both transports keep the safety part of the promise of ChangeWait, for  *)
(* every set of screens, every timeout and every settling time.  That a    *)
(* wait ends is checked by TLC.                                            *)
(***************************************************************************)
EXTENDS Transports, TLAPS

USE WaitScreensAssumption, DurationAssumption

Places == {"idle", "get", "settle", "drain", "judge", "poll", "check"}

WaitTypeOK ==
    /\ past \subseteq Screens /\ shown \in past /\ known \in past
    /\ queue \in Seq(past) /\ last \in past \cup {Nothing}
    /\ event \in past \cup {Nothing} /\ newest \in past \cup {Nothing}
    /\ answer \in past \cup {Nothing}
    /\ wpc \in Places /\ left \in Nat /\ settle \in Nat

\* The event published last is at the end of the queue, or else in hand, or was
\* the last one that the wait took.
LastIsKept ==
    /\ queue # <<>> => queue[Len(queue)] = last
    /\ wpc \in {"settle", "drain"} => event \in past /\ (queue = <<>> => event = last)
    /\ wpc = "judge" => event \in past /\ event = newest
    /\ wpc \notin {"settle", "drain"} /\ queue = <<>> /\ newest # Nothing => newest = last

\* A wait that goes on has returned nothing, and has set aside nothing but what
\* the caller knows.
SetAside ==
    /\ wpc # "idle" => answer = Nothing
    /\ wpc \in {"get", "poll", "check"} \/ (wpc = "idle" /\ answer = Nothing) =>
           event \in {Nothing, known} /\ newest \in {Nothing, known}

WaitInv == WaitTypeOK /\ LastIsKept /\ SetAside

\* The head of the queue and its rest.
LEMMA HeadTail ==
    ASSUME NEW S, NEW q \in Seq(S), q # <<>>
    PROVE  /\ Head(q) \in S /\ Tail(q) \in Seq(S) /\ Len(q) > 0
           /\ Tail(q) # <<>> => Tail(q)[Len(Tail(q))] = q[Len(q)]
           /\ Tail(q) = <<>> => Head(q) = q[Len(q)]
  <1>1. Len(q) \in Nat /\ Len(q) > 0 /\ Head(q) = q[1] /\ q[1] \in S
    OBVIOUS
  <1>2. /\ Tail(q) \in Seq(S) /\ Len(Tail(q)) = Len(q) - 1
        /\ \A i \in 1..Len(q) - 1 : Tail(q)[i] = q[i + 1]
    BY <1>1
  <1>3. Tail(q) # <<>> => Tail(q)[Len(Tail(q))] = q[Len(q)]
    BY <1>1, <1>2
  <1>4. Tail(q) = <<>> => Len(q) = 1
    <2>1. Tail(q) = <<>> => Len(Tail(q)) = Len(<<>>)
      BY Zenon
    <2>2. Len(<<>>) = 0
      OBVIOUS
    <2> QED
      BY <2>1, <2>2, <1>1, <1>2
  <1> QED
    BY <1>1, <1>2, <1>3, <1>4

\* Initially the device shows its first screen and nobody waits.
LEMMA WaitInitInv == TransportInit => WaitInv
  BY DEF TransportInit, WaitInv, WaitTypeOK, LastIsKept, SetAside, Places

\* Every step keeps the invariant.
LEMMA WaitStepInv == WaitInv /\ [TransportNext]_transportVars => WaitInv'
  <1> SUFFICES ASSUME WaitInv, [TransportNext]_transportVars PROVE WaitInv'
    OBVIOUS
  <1>t. WaitTypeOK /\ LastIsKept /\ SetAside
    BY DEF WaitInv
  <1>p. past \subseteq Screens /\ Nothing \notin past
    BY <1>t DEF WaitTypeOK
  <1> USE DEF WaitInv, Places
  <1>1. CASE ShowScreen
    <2>1. PICK s \in Screens : past' = past \cup {s} /\ shown' \in {s, shown}
      BY <1>1 DEF ShowScreen
    <2>2. UNCHANGED <<queue, last, event, newest, answer, wpc, left, settle, known>>
      BY <1>1 DEF ShowScreen, eventVars, waitState
    <2>3. queue' \in Seq(past')
      BY <2>1, <2>2, <1>t DEF WaitTypeOK
    <2>4. WaitTypeOK'
      BY <2>1, <2>2, <2>3, <1>t DEF WaitTypeOK
    <2>5. LastIsKept' /\ SetAside'
      BY <2>1, <2>2, <1>t DEF LastIsKept, SetAside
    <2> QED
      BY <2>4, <2>5
  <1>2. CASE Publish
    <2>1. PICK s \in past : queue' = Append(queue, s) /\ last' = s
      BY <1>2 DEF Publish
    <2>2. queue' \in Seq(past) /\ queue'[Len(queue')] = last' /\ queue' # <<>>
      BY <2>1, <1>t DEF WaitTypeOK
    <2>3. UNCHANGED <<shown, past, event, newest, answer, wpc, left, settle, known>>
      BY <1>2 DEF Publish, deviceVars, waitState
    <2>4. WaitTypeOK'
      BY <2>1, <2>2, <2>3, <1>t DEF WaitTypeOK
    <2>5. LastIsKept' /\ SetAside'
      BY <2>2, <2>3, <1>t DEF LastIsKept, SetAside
    <2> QED
      BY <2>4, <2>5
  <1>3. CASE Observe
    BY <1>3, <1>t DEF Observe, WaitTypeOK, LastIsKept, SetAside, deviceVars, waitState
  <1>4. CASE Begin("get") \/ Begin("poll")
    BY <1>4, <1>t DEF Begin, WaitTypeOK, LastIsKept, SetAside, deviceVars, eventVars
  <1>5. CASE Pass
    BY <1>5, <1>t DEF Pass, WaitTypeOK, LastIsKept, SetAside, deviceVars, eventVars
  <1>6. CASE Take
    <2>1. /\ Head(queue) \in past /\ queue' = Tail(queue) /\ queue' \in Seq(past)
          /\ queue' # <<>> => queue'[Len(queue')] = last
          /\ queue' = <<>> => Head(queue) = last
          /\ event' = Head(queue) /\ wpc = "get"
      BY <1>6, <1>t, HeadTail DEF Take, WaitTypeOK, LastIsKept
    <2>2. UNCHANGED <<shown, past, last, known, answer, left>>
      BY <1>6 DEF Take, deviceVars
    <2>3. \/ wpc' = "settle" /\ newest' = newest /\ settle' \in Nat
          \/ wpc' = "judge" /\ newest' = event' /\ settle' = settle
      BY <1>6, <1>t DEF Take, WaitTypeOK
    <2>4. WaitTypeOK'
      BY <2>1, <2>2, <2>3, <1>t DEF WaitTypeOK
    <2>5. LastIsKept'
      BY <2>1, <2>2, <2>3, <1>t DEF LastIsKept
    <2>6. SetAside'
      BY <2>1, <2>2, <2>3, <1>t DEF SetAside
    <2> QED
      BY <2>4, <2>5, <2>6
  <1>7. CASE Settled
    BY <1>7, <1>t DEF Settled, WaitTypeOK, LastIsKept, SetAside, deviceVars
  <1>8. CASE DrainOne
    <2>1. /\ Head(queue) \in past /\ queue' = Tail(queue) /\ queue' \in Seq(past)
          /\ queue' # <<>> => queue'[Len(queue')] = last
          /\ queue' = <<>> => Head(queue) = last
          /\ event' = Head(queue) /\ wpc = "drain"
      BY <1>8, <1>t, HeadTail DEF DrainOne, WaitTypeOK, LastIsKept
    <2>2. UNCHANGED <<shown, past, last, wpc, known, answer, left, settle, newest>>
      BY <1>8 DEF DrainOne, deviceVars
    <2> QED
      BY <2>1, <2>2, <1>t DEF WaitTypeOK, LastIsKept, SetAside
  <1>9. CASE DrainEnds
    BY <1>9, <1>t DEF DrainEnds, WaitTypeOK, LastIsKept, SetAside, deviceVars, eventVars
  <1>10. CASE JudgeEvent
    <2>1. /\ wpc = "judge" /\ event \in past /\ event = newest
          /\ \/ event # known /\ wpc' = "idle" /\ answer' = event
             \/ event = known /\ wpc' = "get" /\ answer' = answer
          /\ UNCHANGED <<shown, past, queue, last, known, left, settle, event, newest>>
      BY <1>10, <1>t DEF JudgeEvent, Return, LastIsKept, deviceVars
    <2> QED
      BY <2>1, <1>t, <1>p DEF WaitTypeOK, LastIsKept, SetAside
  <1>11. CASE TimeOut
    BY <1>11, <1>t DEF TimeOut, Return, WaitTypeOK, LastIsKept, SetAside, deviceVars, eventVars
  <1>12. CASE Poll
    <2>1. /\ wpc = "poll" /\ event' = shown
          /\ \/ shown # known /\ wpc' = "idle" /\ answer' = shown
             \/ shown = known /\ wpc' = "check" /\ answer' = answer
          /\ UNCHANGED <<shown, past, queue, last, known, left, settle, newest>>
      BY <1>12 DEF Poll, Return, deviceVars, eventVars
    <2> QED
      BY <2>1, <1>t, <1>p DEF WaitTypeOK, LastIsKept, SetAside
  <1>13. CASE Check
    BY <1>13, <1>t DEF Check, Return, WaitTypeOK, LastIsKept, SetAside, deviceVars, eventVars
  <1>14. CASE UNCHANGED transportVars
    BY <1>14, <1>t DEF transportVars, deviceVars, eventVars, waitState,
                       WaitTypeOK, LastIsKept, SetAside
  <1> QED
    BY <1>1, <1>2, <1>3, <1>4, <1>5, <1>6, <1>7, <1>8, <1>9, <1>10, <1>11, <1>12,
       <1>13, <1>14 DEF TransportNext, WaitStep, EventStep

\* The invariant holds throughout.
LEMMA WaitInvHolds == TransportSpec => []WaitInv
  BY WaitInitInv, WaitStepInv, PTL DEF TransportSpec

\* A wait that returns nothing has set aside no change: if it took events and left
\* none in the queue, the newest of all is the known screen.
THEOREM NothingSetAside == TransportSpec => []NothingWasSetAside
  <1>1. WaitInv => NothingWasSetAside
    BY DEF WaitInv, LastIsKept, SetAside, NothingWasSetAside
  <1> QED
    BY <1>1, WaitInvHolds, PTL

\* However the events of all devices come in between the steps of a drain, a wait
\* answers with the newest there was when it found the queue empty.
THEOREM LastEventAnswers == TransportSpec => AnswersTheLastEvent
  <1> DEFINE Newest == wpc = "judge" /\ answer' \in Screens => answer' = newest
  <1>1. WaitInv /\ [TransportNext]_transportVars => [Newest]_transportVars
    <2> SUFFICES ASSUME WaitInv, TransportNext, wpc = "judge", answer' \in Screens
                 PROVE  answer' = newest
      BY DEF TransportNext
    <2>1. answer = Nothing /\ event = newest
      BY DEF WaitInv, SetAside, LastIsKept
    <2>2. CASE JudgeEvent
      BY <2>1, <2>2 DEF JudgeEvent, Return
    <2>3. CASE ShowScreen \/ Publish \/ Observe \/ Pass
      BY <2>1, <2>3 DEF ShowScreen, Publish, Observe, Pass, waitState
    <2> QED
      BY <2>2, <2>3 DEF TransportNext, WaitStep, EventStep, Begin, Take, Settled, DrainOne,
                        DrainEnds, TimeOut, Poll, Check
  <1> QED
    BY <1>1, WaitInvHolds, PTL DEF TransportSpec, AnswersTheLastEvent

\* Events and polls implement the promise: a step of theirs is a step of the
\* promise or leaves it alone.
THEOREM PromiseKept == TransportSpec => Promise!WaitSafety
  <1>1. TransportInit => Promise!WaitInit
    BY DEF TransportInit, Promise!WaitInit
  <1>2. WaitInv /\ [TransportNext]_transportVars => [Promise!WaitNext]_Promise!waitVars
    <2> SUFFICES ASSUME WaitInv, [TransportNext]_transportVars
                 PROVE  Promise!WaitNext \/ UNCHANGED Promise!waitVars
      OBVIOUS
    <2> USE DEF Promise!waitVars
    <2>1. CASE ShowScreen
      BY <2>1 DEF ShowScreen, waitState, Promise!WaitNext, Promise!Show
    <2>2. CASE Publish \/ Observe \/ Pass
      BY <2>2 DEF Publish, Observe, Pass, deviceVars, waitState, eventVars
    <2>3. CASE Begin("get") \/ Begin("poll")
      BY <2>3 DEF Begin, deviceVars, Promise!WaitNext, Promise!Ask
    <2>4. CASE Take
      BY <2>4 DEF Take, deviceVars
    <2>5. CASE Settled \/ DrainOne \/ DrainEnds
      BY <2>5 DEF Settled, DrainOne, DrainEnds, deviceVars
    <2>6. CASE JudgeEvent
      <3>1. event \in past
        BY <2>6 DEF JudgeEvent, WaitInv, LastIsKept
      <3> QED
        BY <2>6, <3>1 DEF JudgeEvent, Return, deviceVars, Promise!WaitNext, Promise!Reply
    <2>7. CASE TimeOut
      BY <2>7 DEF TimeOut, Return, deviceVars, Promise!WaitNext, Promise!Reply
    <2>8. CASE Poll
      BY <2>8 DEF Poll, Return, deviceVars, Promise!WaitNext, Promise!Reply, WaitInv, WaitTypeOK
    <2>9. CASE Check
      BY <2>9 DEF Check, Return, deviceVars, Promise!WaitNext, Promise!Reply
    <2>10. CASE UNCHANGED transportVars
      BY <2>10 DEF transportVars, deviceVars, waitState
    <2> QED
      BY <2>1, <2>2, <2>3, <2>4, <2>5, <2>6, <2>7, <2>8, <2>9, <2>10
      DEF TransportNext, WaitStep, EventStep
  <1> QED
    BY <1>1, <1>2, WaitInvHolds, PTL DEF TransportSpec, Promise!WaitSafety

\* What a wait answers is the end of what was published, and what it did not answer
\* was known or is still in the queue, on every transport and for every timing.
THEOREM AnswersTrue == TransportSpec => AnswersAreTrue
  BY NothingSetAside, LastEventAnswers, PTL DEF AnswersAreTrue
=============================================================================
