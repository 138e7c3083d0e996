--------------------------- MODULE DeviceBridgeProofs ---------------------------
(* Theorems about DeviceBridge, for every value of its constants: what holds *)
(* of the phone and of the store behind a channel that loses and delays.    *)
EXTENDS DeviceBridge, SessionStoreProofs, SequenceTheorems

-----------------------------------------------------------------------------
(* Operators.                                                              *)

\* A bounded sequence is a sequence no longer than its bound.
LEMMA BoundedSeqMember ==
    ASSUME NEW S, NEW n \in Nat, NEW s
    PROVE  s \in BoundedSeq(S, n) <=> s \in Seq(S) /\ Len(s) <= n
<1>1. ASSUME s \in BoundedSeq(S, n) PROVE s \in Seq(S) /\ Len(s) <= n
  <2>1. PICK m \in 0..n : s \in [1..m -> S]
    BY <1>1 DEF BoundedSeq, SeqOf
  <2>2. s \in Seq(S) /\ Len(s) = m
    BY <2>1
  <2>. QED
    BY <2>1, <2>2
<1>2. ASSUME s \in Seq(S), Len(s) <= n PROVE s \in BoundedSeq(S, n)
  <2>1. Len(s) \in 0..n /\ s \in [1..Len(s) -> S]
    BY <1>2, LenProperties
  <2>. QED
    BY <2>1 DEF BoundedSeq, SeqOf
<1>. QED
  BY <1>1, <1>2

\* Remembering a command keeps the memory a sequence of commands, within its
\* capacity.
LEMMA RememberKeepsBound ==
    ASSUME processed \in BoundedSeq(Commands, Capacity), NEW c \in Commands, Remember(c)
    PROVE  processed' \in BoundedSeq(Commands, Capacity)
<1>. USE BridgeBoundsAssumption
<1>1. processed \in Seq(Commands) /\ Len(processed) <= Capacity
  BY BoundedSeqMember
<1>2. CASE Len(processed) = Capacity
  <2>1. processed # <<>>
    BY <1>1, <1>2, EmptySeq
  <2>2. Tail(processed) \in Seq(Commands) /\ Len(Tail(processed)) = Len(processed) - 1
    BY <1>1, <2>1, HeadTailProperties
  <2>3. /\ processed' = Append(Tail(processed), c)
        /\ processed' \in Seq(Commands) /\ Len(processed') = Len(Tail(processed)) + 1
    BY <1>2, <2>2, AppendProperties DEF Remember
  <2>4. Len(processed') <= Capacity
    BY <1>2, <2>2, <2>3
  <2>. QED
    BY <2>3, <2>4, BoundedSeqMember
<1>3. CASE Len(processed) # Capacity
  <2>1. /\ processed' = Append(processed, c)
        /\ processed' \in Seq(Commands) /\ Len(processed') = Len(processed) + 1
    BY <1>1, <1>3, AppendProperties DEF Remember
  <2>2. Len(processed') <= Capacity
    BY <1>1, <1>3, <2>1, LenProperties
  <2>. QED
    BY <2>1, <2>2, BoundedSeqMember
<1>. QED
  BY <1>2, <1>3

-----------------------------------------------------------------------------
(* The store under the bridge.                                             *)

\* Whatever a step of the bridge does, to the store it is a step of its own.
LEMMA BridgeStepsAreStoreSteps ==
    ASSUME PhoneConsistent, [BridgeNext]_allVars
    PROVE  [Next]_vars
<1>. USE PhoneAssumption, ReportsAssumption, NoCommandAssumption
<1>1. ASSUME NEW o \in Observations, HandleUpload(o)
      PROVE  Next
  BY <1>1 DEF HandleUpload, Next
<1>2. ASSUME NEW c \in Commands \cup {NoCommand}, HandlePoll(c)
      PROVE  [Next]_vars
  <2>1. CASE UNCHANGED vars
    BY <2>1
  <2>2. CASE LeaseNext(Phone)
    BY <2>2 DEF Next
  <2>. QED
    BY <1>2, <2>1, <2>2 DEF HandlePoll, LeaseNext
<1>3. ASSUME NEW c \in Commands, NEW s \in DeviceStatuses,
             HandleReport(c, s) \/ RefuseReport(c)
      PROVE  [Next]_vars
  BY <1>3 DEF HandleReport, RefuseReport, Next
<1>4. ASSUME ServerHandles PROVE [Next]_vars
  <2>1. CASE pc = "upload" /\ HandleUpload(uploading)
    BY <1>1, <2>1 DEF PhoneConsistent, BridgeTypeOK, CallsConsistent
  <2>2. CASE pc = "poll" /\ \E c \in Commands \cup {NoCommand} : HandlePoll(c)
    BY <1>2, <2>2
  <2>3. CASE pc = "report" /\ (HandleReport(held, status) \/ RefuseReport(held))
    BY <1>3, <2>3 DEF PhoneConsistent, BridgeTypeOK, CallsConsistent
  <2>. QED
    BY <1>4, <2>1, <2>2, <2>3 DEF ServerHandles
<1>5. ASSUME NEW m \in late, ServerHandlesLate(m) PROVE [Next]_vars
  <2>1. m \in Messages
    BY DEF PhoneConsistent, CallsConsistent
  <2>2. CASE m.call = "upload" /\ HandleUpload(m.observation)
    BY <1>1, <2>1, <2>2 DEF Messages
  <2>3. CASE m.call = "poll" /\ \E c \in Commands \cup {NoCommand} : HandlePoll(c)
    BY <1>2, <2>3
  <2>4. CASE m.call = "report" /\ (HandleReport(m.command, m.status) \/ RefuseReport(m.command))
    <3>1. m.command \in Commands /\ m.status \in DeviceStatuses
      BY <2>1, <2>4 DEF Messages
    <3>. QED
      BY <1>3, <2>4, <3>1
  <2>. QED
    BY <1>5, <2>2, <2>3, <2>4 DEF ServerHandlesLate
<1>6. ASSUME StoreStep PROVE [Next]_vars
  BY <1>6 DEF StoreStep, Next
<1>7. ASSUME \/ \E o \in Observations : Collect(o)
             \/ ScheduleUploadDrain \/ StartDrain \/ StartPoll \/ ExecutorStep
             \/ PhoneRestarts \/ UNCHANGED allVars
      PROVE  UNCHANGED vars
  <2>. USE DEF ExecutorStep
  <2>1. CASE ExecutorStep
    BY <2>1 DEF TakeObservation, NothingToTake, Release, Recheck, UploadAnswered,
       PollAnsweredEmpty, CommandArrives, ReportAnswered, CallFails, ExecutionThrows
  <2>. QED
    BY <1>7, <2>1 DEF Collect, ScheduleUploadDrain, StartDrain, StartPoll,
       PhoneRestarts, allVars
<1>. QED
  BY <1>4, <1>5, <1>6, <1>7 DEF BridgeNext

-----------------------------------------------------------------------------
(* The phone: types, calls, tasks.                                         *)

\* The two threads and the executor's own steps keep the phone consistent.
LEMMA ThreadsKeepPhone ==
    ASSUME PhoneConsistent, TypeOK',
           \/ \E o \in Observations : Collect(o)
           \/ ScheduleUploadDrain \/ StartDrain \/ StartPoll
           \/ TakeObservation \/ NothingToTake \/ Release \/ Recheck
    PROVE  PhoneConsistent'
<1>. USE DEF PhoneConsistent, BridgeTypeOK, CallsConsistent, TasksConsistent,
             handover, call, memory, Calls
<1>1. ASSUME NEW o \in Observations, Collect(o) PROVE PhoneConsistent'
  BY <1>1 DEF Collect
<1>2. CASE ScheduleUploadDrain
  BY <1>2 DEF ScheduleUploadDrain, QueueDrainUnlessScheduled
<1>3. CASE StartDrain
  BY <1>3 DEF StartDrain
<1>4. CASE StartPoll
  BY <1>4, BridgeBoundsAssumption DEF StartPoll, Call
<1>5. CASE TakeObservation
  BY <1>5, BridgeBoundsAssumption DEF TakeObservation, Call
<1>6. CASE NothingToTake
  BY <1>6 DEF NothingToTake
<1>7. CASE Release
  BY <1>7 DEF Release
<1>8. CASE Recheck
  BY <1>8 DEF Recheck, QueueDrainUnlessScheduled
<1>. QED
  BY <1>1, <1>2, <1>3, <1>4, <1>5, <1>6, <1>7, <1>8

\* A call that ends leaves no locals behind.
LEMMA FinishKeepsPhone ==
    ASSUME PhoneConsistent, pc \in Calls, Finish,
           UNCHANGED <<scheduled, drainQueued>>
    PROVE  /\ pc' \in {"idle", "take"} /\ task' \in {"none", "drain"}
           /\ net' = "none" /\ tries' \in [Calls -> 0..Retries]
           /\ uploading' = NoObservation /\ held' = NoCommand /\ status' = Unset
           /\ TasksConsistent'
BY BridgeBoundsAssumption DEF PhoneConsistent, BridgeTypeOK, CallsConsistent,
   TasksConsistent, Finish, NoCall, Calls

\* A retry stays within the budget and keeps the locals of the call.
LEMMA RetryKeepsPhone ==
    ASSUME PhoneConsistent, NEW k \in Calls, k = pc \/ (pc = "report" /\ k = "poll"),
           CanRetry(k), Retry(k), UNCHANGED <<scheduled, drainQueued>>
    PROVE  /\ pc' = k /\ net' = "out" /\ task' = task
           /\ tries' \in [Calls -> 0..Retries]
           /\ uploading' = uploading /\ held' \in {held, NoCommand}
           /\ status' \in {status, Unset}
           /\ k = "report" => held' = held /\ status' = status
           /\ k # "report" => held' = NoCommand /\ status' = Unset
           /\ TasksConsistent'
BY BridgeBoundsAssumption DEF PhoneConsistent, BridgeTypeOK, CallsConsistent,
   TasksConsistent, Retry, CanRetry, Calls

\* What is abandoned is a message.
LEMMA AbandonedIsMessage ==
    ASSUME PhoneConsistent, AbandonCall
    PROVE  late' \subseteq Messages
<1>1. net = "out" => Request \in Messages
  BY DEF PhoneConsistent, BridgeTypeOK, CallsConsistent, Request, Messages, Calls
<1>. QED
  BY <1>1 DEF AbandonCall, PhoneConsistent, CallsConsistent

\* Answers, and answers that do not come, keep the phone consistent.
LEMMA AnswersKeepPhone ==
    ASSUME PhoneConsistent, TypeOK',
           \/ UploadAnswered \/ PollAnsweredEmpty \/ CommandArrives
           \/ ReportAnswered \/ CallFails \/ ExecutionThrows \/ PhoneRestarts
    PROVE  PhoneConsistent'
<1>. USE DEF handover, call, memory
<1>1. CASE UploadAnswered
  BY <1>1, BridgeBoundsAssumption DEF UploadAnswered, Call, PhoneConsistent, BridgeTypeOK,
     CallsConsistent, TasksConsistent, Calls
<1>2. CASE PollAnsweredEmpty \/ ReportAnswered
  <2>1. pc \in Calls
    BY <1>2 DEF PollAnsweredEmpty, ReportAnswered, Calls
  <2>. QED
    BY <1>2, <2>1, FinishKeepsPhone DEF PollAnsweredEmpty, ReportAnswered,
       PhoneConsistent, BridgeTypeOK, CallsConsistent, Calls
<1>3. CASE CommandArrives
  <2>. USE <1>3 DEF CommandArrives, PhoneConsistent, BridgeTypeOK
  <2>1. held \in Commands
    OBVIOUS
  <2>2. processed' \in BoundedSeq(Commands, Capacity)
    BY <2>1, RememberKeepsBound
  <2>3. status' \in DeviceStatuses
    BY DEF RefuseHeld, PerformHeld, DeviceStatuses
  <2>4. effects' \in [Commands -> Seq(DeviceStatuses)]
    <3>1. \A s \in DeviceStatuses : Append(effects[held], s) \in Seq(DeviceStatuses)
      BY <2>1
    <3>2. {"SUCCESS", "ACTION_REJECTED"} \subseteq DeviceStatuses
      BY DEF DeviceStatuses
    <3>. HIDE DEF DeviceStatuses
    <3>. QED
      BY <2>1, <3>1, <3>2 DEF RefuseHeld, PerformHeld
  <2>5. TasksConsistent' /\ tries' \in [Calls -> 0..Retries]
    BY BridgeBoundsAssumption DEF Call, TasksConsistent, Calls
  <2>6. CallsConsistent'
    BY <2>3 DEF Call, CallsConsistent, Calls, DeviceStatuses, Unset
  <2>. QED
    BY <2>2, <2>3, <2>4, <2>5, <2>6 DEF Call, Calls
<1>4. CASE CallFails
  <2>. USE <1>4 DEF CallFails
  <2>1. late' \subseteq Messages /\ pc \in Calls
    BY AbandonedIsMessage DEF PhoneConsistent, CallsConsistent
  <2>2. CASE Finish
    BY <2>1, <2>2, FinishKeepsPhone DEF PhoneConsistent, BridgeTypeOK, CallsConsistent, Calls
  <2>3. ASSUME NEW k \in Calls, k = pc \/ (pc = "report" /\ k = "poll"),
               CanRetry(k), Retry(k)
        PROVE  PhoneConsistent'
    BY <2>1, <2>3, RetryKeepsPhone DEF PhoneConsistent, BridgeTypeOK, CallsConsistent, Calls
  <2>. QED
    BY <2>1, <2>2, <2>3 DEF Calls
<1>5. CASE ExecutionThrows
  <2>. USE <1>5 DEF ExecutionThrows
  <2>1. pc = "poll" /\ held \in Commands /\ pc \in Calls
    BY DEF PhoneConsistent, BridgeTypeOK, Calls
  <2>2. processed' \in BoundedSeq(Commands, Capacity)
    BY <2>1, RememberKeepsBound DEF PhoneConsistent, BridgeTypeOK
  <2>3. CASE Finish
    BY <2>1, <2>2, <2>3, FinishKeepsPhone DEF PhoneConsistent, BridgeTypeOK, CallsConsistent, Calls
  <2>4. CASE CanRetry("poll") /\ Retry("poll")
    BY <2>1, <2>2, <2>4, RetryKeepsPhone DEF PhoneConsistent, BridgeTypeOK, CallsConsistent, Calls
  <2>. QED
    BY <2>3, <2>4
<1>6. CASE PhoneRestarts
  <2>. USE <1>6 DEF PhoneRestarts
  <2>1. late' \subseteq Messages
    BY AbandonedIsMessage
  <2>2. <<>> \in BoundedSeq(Commands, Capacity)
    <3>1. <<>> \in Seq(Commands) /\ Len(<<>>) <= Capacity
      BY BridgeBoundsAssumption
    <3>. QED
      BY <3>1, BridgeBoundsAssumption, BoundedSeqMember
  <2>3. processed' \in BoundedSeq(Commands, Capacity)
    BY <2>2
  <2>4. /\ net' = "none" /\ tries' \in [Calls -> 0..Retries]
        /\ uploading' = NoObservation /\ held' = NoCommand /\ status' = Unset
    BY BridgeBoundsAssumption DEF NoCall
  <2>5. UNCHANGED <<collected, effects>>
    OBVIOUS
  <2>6. pc' = "idle" /\ task' = "none" /\ ~scheduled' /\ ~drainQueued' /\ ~submitting'
    OBVIOUS
  <2>7. TasksConsistent' /\ CallsConsistent'
    BY <2>1, <2>4, <2>6 DEF TasksConsistent, CallsConsistent, Calls
  <2>. QED
    BY <2>3, <2>4, <2>5, <2>6, <2>7 DEF PhoneConsistent, BridgeTypeOK, Calls
<1>. QED
  BY <1>1, <1>2, <1>3, <1>4, <1>5, <1>6

\* The server changes nothing of the phone but what it answers.
LEMMA ServerKeepsPhone ==
    ASSUME PhoneConsistent, TypeOK',
           \/ ServerHandles \/ (\E m \in late : ServerHandlesLate(m)) \/ StoreStep
           \/ UNCHANGED allVars
    PROVE  PhoneConsistent'
<1>. USE DEF PhoneConsistent, BridgeTypeOK, CallsConsistent, TasksConsistent,
             phone, handover, call, memory
<1>1. CASE ServerHandles
  BY <1>1 DEF ServerHandles, Calls
<1>2. ASSUME NEW m \in late, ServerHandlesLate(m) PROVE PhoneConsistent'
  BY <1>2 DEF ServerHandlesLate
<1>3. CASE StoreStep
  BY <1>3 DEF StoreStep
<1>4. CASE UNCHANGED allVars
  BY <1>4 DEF allVars
<1>. QED
  BY <1>1, <1>2, <1>3, <1>4

\* Every variable of phone and store has its type, the locals of a call fit
\* the call, and the upload flag is set exactly while a drain is due or runs.
THEOREM PhoneIsConsistent == BridgeSpec => []PhoneConsistent
<1>1. BridgeInit => PhoneConsistent
  <2>. SUFFICES ASSUME BridgeInit PROVE PhoneConsistent
    OBVIOUS
  <2>1. TypeOK
    BY DEF BridgeInit, Init, TypeOK, NotStored
  <2>2. processed \in BoundedSeq(Commands, Capacity)
    <3>1. <<>> \in Seq(Commands) /\ Len(<<>>) <= Capacity
      BY BridgeBoundsAssumption
    <3>. QED
      BY <3>1, BridgeBoundsAssumption, BoundedSeqMember DEF BridgeInit
  <2>3. /\ tries \in [Calls -> 0..Retries]
        /\ effects \in [Commands -> Seq(DeviceStatuses)]
        /\ collected \in Seq(Observations)
    BY BridgeBoundsAssumption DEF BridgeInit
  <2>4. CallsConsistent /\ TasksConsistent
    BY DEF BridgeInit, CallsConsistent, TasksConsistent, Calls
  <2>5. /\ {slot, uploading, current} \subseteq Observations \cup {NoObservation}
        /\ {submitting, scheduled, drainQueued} \subseteq BOOLEAN
        /\ pc \in {"idle", "take", "release", "recheck"} \cup Calls
        /\ task \in {"none", "drain", "poll"}
        /\ net \in {"none", "out", "ok", "conflict"}
        /\ held \in Commands \cup {NoCommand}
        /\ status \in DeviceStatuses \cup {Unset}
    BY DEF BridgeInit
  <2>. QED
    BY <2>1, <2>2, <2>3, <2>4, <2>5 DEF PhoneConsistent, BridgeTypeOK
<1>2. PhoneConsistent /\ [BridgeNext]_allVars => PhoneConsistent'
  <2>. SUFFICES ASSUME PhoneConsistent, [BridgeNext]_allVars PROVE PhoneConsistent'
    OBVIOUS
  <2>1. TypeOK'
    BY BridgeStepsAreStoreSteps, NextTypeOK DEF PhoneConsistent, BridgeTypeOK
  <2>2. CASE \/ \E o \in Observations : Collect(o)
             \/ ScheduleUploadDrain \/ StartDrain \/ StartPoll
             \/ TakeObservation \/ NothingToTake \/ Release \/ Recheck
    BY <2>1, <2>2, ThreadsKeepPhone
  <2>3. CASE \/ UploadAnswered \/ PollAnsweredEmpty \/ CommandArrives
             \/ ReportAnswered \/ CallFails \/ ExecutionThrows \/ PhoneRestarts
    BY <2>1, <2>3, AnswersKeepPhone
  <2>4. CASE \/ ServerHandles \/ (\E m \in late : ServerHandlesLate(m)) \/ StoreStep
             \/ UNCHANGED allVars
    BY <2>1, <2>4, ServerKeepsPhone
  <2>. QED
    BY <2>2, <2>3, <2>4 DEF BridgeNext, ExecutorStep
<1>. QED
  BY <1>1, <1>2, PTL DEF BridgeSpec

\* The types alone.
THEOREM BridgeTypeCorrect == BridgeSpec => []BridgeTypeOK
BY PhoneIsConsistent, PTL DEF PhoneConsistent

\* To the store, the phone behind its channel is one of the devices it was
\* specified for: every behaviour of the composition is one of the store.
THEOREM BridgeImplementsStore == BridgeSpec => Spec
<1>1. BridgeInit => Init
  BY DEF BridgeInit
<1>2. PhoneConsistent /\ [BridgeNext]_allVars => [Next]_vars
  BY BridgeStepsAreStoreSteps
<1>. QED
  BY <1>1, <1>2, PhoneIsConsistent, PTL DEF BridgeSpec, Spec

\* So the promises of the store hold with this phone and this channel too:
\* the accounts, the limits, and the contract of delivery.
THEOREM StorePromisesKept ==
    ASSUME HonestReports
    PROVE  BridgeSpec => /\ []Accounting /\ []WithinLimits /\ []RecordsAgree
                         /\ DispatchesOnlyCurrent /\ ImplementsDelivery
BY BridgeImplementsStore, AccountingInvariant, LimitsHold, RecordsAgreeAlways,
   DispatchesAreCurrent, StoreImplementsDelivery, PTL

-----------------------------------------------------------------------------
(* The hand-over between the two threads.                                  *)

\* An observation in the slot keeps a thread responsible for it.
LEMMA SlotStaysServed ==
    ASSUME PhoneConsistent, SlotIsServed, [BridgeNext]_allVars
    PROVE  SlotIsServed'
<1>. USE DEF PhoneConsistent, TasksConsistent, SlotIsServed, phone, handover, call, memory
<1>1. ASSUME NEW o \in Observations, Collect(o) PROVE SlotIsServed'
  BY <1>1 DEF Collect
<1>2. CASE ScheduleUploadDrain
  BY <1>2 DEF ScheduleUploadDrain, QueueDrainUnlessScheduled, BridgeTypeOK
<1>3. CASE StartDrain \/ StartPoll
  BY <1>3 DEF StartDrain, StartPoll, Call
<1>4. CASE Recheck
  BY <1>4 DEF Recheck, QueueDrainUnlessScheduled, BridgeTypeOK
<1>5. CASE TakeObservation \/ NothingToTake \/ Release \/ UploadAnswered \/ CommandArrives
  BY <1>5 DEF TakeObservation, NothingToTake, Release, UploadAnswered, CommandArrives
<1>6. CASE PollAnsweredEmpty \/ ReportAnswered \/ CallFails \/ ExecutionThrows
  <2>1. UNCHANGED handover /\ (Finish \/ \E k \in Calls : Retry(k))
    BY <1>6 DEF PollAnsweredEmpty, ReportAnswered, CallFails, ExecutionThrows,
       CallsConsistent, Calls
  <2>2. task = "drain" => task' = "drain"
    BY <2>1 DEF Finish, Retry
  <2>. QED
    BY <2>1, <2>2
<1>7. CASE PhoneRestarts
  BY <1>7 DEF PhoneRestarts
<1>8. CASE ServerHandles \/ (\E m \in late : ServerHandlesLate(m)) \/ StoreStep
           \/ UNCHANGED allVars
  BY <1>8 DEF ServerHandles, ServerHandlesLate, StoreStep, allVars
<1>. QED
  BY <1>1, <1>2, <1>3, <1>4, <1>5, <1>6, <1>7, <1>8 DEF BridgeNext, ExecutorStep

\* No wake-up is lost between the two threads, and no second drain started.
THEOREM DrainIsHandedOver == BridgeSpec => []DrainHandedOver
<1>1. BridgeInit => SlotIsServed
  BY DEF BridgeInit, SlotIsServed
<1>2. PhoneConsistent /\ SlotIsServed /\ [BridgeNext]_allVars => SlotIsServed'
  BY SlotStaysServed
<1>3. PhoneConsistent => OneDrain
  BY DEF PhoneConsistent, TasksConsistent, OneDrain
<1>. QED
  BY <1>1, <1>2, <1>3, PhoneIsConsistent, PTL DEF BridgeSpec, DrainHandedOver

-----------------------------------------------------------------------------
(* What a step can do to a command on the phone: most only forget.         *)

\* the phone learns nothing new of any command
Quiet ==
    /\ effects' = effects
    /\ held' \in {held, NoCommand}
    /\ held' # NoCommand /\ pc' = "poll" => pc = "poll"
    /\ \/ processed' = processed
       \/ processed' = <<>> /\ current' = NoObservation
    /\ \A c \in Commands, s \in DeviceStatuses : UnderWay(c, s)' => UnderWay(c, s)

\* a poll is answered with a command
Receive(c) ==
    /\ Phone \in online /\ LeaseCommand(Phone, c)
    /\ pc = "poll" /\ pc' = "poll" /\ held = NoCommand /\ held' = c
    /\ UNCHANGED <<memory, late>>

\* An abandoned report was under way before.
LEMMA AbandonedUnderWay ==
    ASSUME PhoneConsistent, AbandonCall, NEW c \in Commands, NEW s \in DeviceStatuses,
           [call |-> "report", command |-> c, status |-> s] \in late'
    PROVE  UnderWay(c, s)
<1>. DEFINE msg == [call |-> "report", command |-> c, status |-> s]
<1>1. CASE msg \in late
  BY <1>1 DEF UnderWay
<1>2. CASE net = "out" /\ Request = msg
  <2>1. pc \in {"upload", "poll", "report"}
    BY <1>2 DEF PhoneConsistent, CallsConsistent, Calls
  <2>2. pc = "upload" => Request = [call |-> "upload", observation |-> uploading]
    BY DEF Request
  <2>3. pc = "poll" => Request = [call |-> "poll"]
    BY DEF Request
  <2>4. pc = "report" => Request = [call |-> "report", command |-> held, status |-> status]
    BY DEF Request
  <2>5. msg # [call |-> "upload", observation |-> uploading] /\ msg # [call |-> "poll"]
    <3>1. msg.call = "report"
      OBVIOUS
    <3>. HIDE DEF msg
    <3>2. /\ [call |-> "upload", observation |-> uploading].call = "upload"
          /\ [call |-> "poll"].call = "poll"
      OBVIOUS
    <3>. QED
      BY <3>1, <3>2
  <2>6. pc = "report" /\ msg = [call |-> "report", command |-> held, status |-> status]
    BY <1>2, <2>1, <2>2, <2>3, <2>4, <2>5
  <2>7. held = c /\ status = s
    <3>1. msg.command = c /\ msg.status = s
      OBVIOUS
    <3>. HIDE DEF msg
    <3>. QED
      BY <2>6, <3>1
  <2>. QED
    BY <2>6, <2>7 DEF UnderWay
<1>. QED
  BY <1>1, <1>2 DEF AbandonCall

\* Steps of the two threads that teach the phone nothing.
LEMMA ThreadsAreQuiet ==
    ASSUME PhoneConsistent,
           \/ \E o \in Observations : Collect(o)
           \/ ScheduleUploadDrain \/ StartDrain \/ StartPoll
           \/ TakeObservation \/ NothingToTake \/ Release \/ Recheck
           \/ UploadAnswered
    PROVE  Quiet
<1>. USE DEF Quiet, UnderWay, PhoneConsistent, CallsConsistent, handover, call, memory, Calls
<1>1. ASSUME NEW o \in Observations, Collect(o) PROVE Quiet
  BY <1>1 DEF Collect
<1>2. CASE ScheduleUploadDrain \/ StartDrain
  BY <1>2 DEF ScheduleUploadDrain, StartDrain
<1>3. CASE StartPoll \/ TakeObservation \/ UploadAnswered
  BY <1>3 DEF StartPoll, TakeObservation, UploadAnswered, Call
<1>4. CASE NothingToTake \/ Release \/ Recheck
  BY <1>4 DEF NothingToTake, Release, Recheck
<1>. QED
  BY <1>1, <1>2, <1>3, <1>4

\* Calls that end, are repeated or given up teach the phone nothing.
LEMMA EndsAreQuiet ==
    ASSUME PhoneConsistent,
           PollAnsweredEmpty \/ ReportAnswered \/ CallFails \/ PhoneRestarts
    PROVE  Quiet
<1>. USE DEF handover, call, memory
<1>1. ASSUME PollAnsweredEmpty \/ ReportAnswered PROVE Quiet
  BY <1>1 DEF PollAnsweredEmpty, ReportAnswered, Finish, NoCall, Quiet, UnderWay
<1>2. ASSUME CallFails PROVE Quiet
  <2>1. effects' = effects /\ processed' = processed /\ AbandonCall
    BY <1>2 DEF CallFails
  <2>2. \/ pc' \notin Calls /\ held' = NoCommand
        \/ pc' = "report" /\ pc = "report" /\ held' = held /\ status' = status
        \/ pc' # "report" /\ held' = NoCommand
    BY <1>2 DEF CallFails, Finish, NoCall, Retry, Calls
  <2>3. \A c \in Commands, s \in DeviceStatuses : UnderWay(c, s)' => UnderWay(c, s)
    BY <2>1, <2>2, AbandonedUnderWay DEF UnderWay, Calls
  <2>. QED
    BY <2>1, <2>2, <2>3 DEF Quiet
<1>3. ASSUME PhoneRestarts PROVE Quiet
  <2>1. /\ effects' = effects /\ processed' = <<>> /\ current' = NoObservation
        /\ held' = NoCommand /\ pc' = "idle" /\ AbandonCall
    BY <1>3 DEF PhoneRestarts, NoCall
  <2>2. \A c \in Commands, s \in DeviceStatuses : UnderWay(c, s)' => UnderWay(c, s)
    BY <2>1, AbandonedUnderWay DEF UnderWay
  <2>. QED
    BY <2>1, <2>2 DEF Quiet
<1>. QED
  BY <1>1, <1>2, <1>3

\* Nor does the server, unless it answers a poll with a command.
LEMMA ServerIsQuiet ==
    ASSUME PhoneConsistent,
           \/ ServerHandles \/ (\E m \in late : ServerHandlesLate(m)) \/ StoreStep
           \/ UNCHANGED allVars
    PROVE  Quiet \/ \E c \in Commands : Receive(c)
<1>. USE DEF phone, handover, call, memory
<1>1. ASSUME ServerHandles PROVE Quiet \/ \E c \in Commands : Receive(c)
  <2>1. UNCHANGED <<pc, status, memory, late>>
    BY <1>1 DEF ServerHandles
  <2>2. ASSUME held' = held PROVE Quiet
    BY <2>1, <2>2 DEF Quiet, UnderWay
  <2>3. ASSUME NEW c \in Commands \cup {NoCommand}, pc = "poll", net = "out",
               HandlePoll(c), held' = c
        PROVE  Quiet \/ \E e \in Commands : Receive(e)
    <3>1. held = NoCommand
      BY <2>3 DEF PhoneConsistent, CallsConsistent
    <3>2. CASE c = NoCommand
      BY <2>2, <2>3, <3>1, <3>2
    <3>3. CASE c \in Commands
      BY <2>1, <2>3, <3>1, <3>3, NoCommandAssumption DEF HandlePoll, Receive
    <3>. QED
      BY <3>2, <3>3
  <2>. QED
    BY <1>1, <2>2, <2>3 DEF ServerHandles
<1>2. ASSUME NEW m \in late, ServerHandlesLate(m) PROVE Quiet
  BY <1>2 DEF ServerHandlesLate, Quiet, UnderWay
<1>3. ASSUME StoreStep \/ UNCHANGED allVars PROVE Quiet
  BY <1>3 DEF StoreStep, allVars, Quiet, UnderWay
<1>. QED
  BY <1>1, <1>2, <1>3

\* So there are four kinds of steps to look at.
LEMMA BridgeStepKinds ==
    ASSUME PhoneConsistent, [BridgeNext]_allVars
    PROVE  \/ Quiet \/ (\E c \in Commands : Receive(c))
           \/ CommandArrives \/ ExecutionThrows
<1>1. CASE \/ \E o \in Observations : Collect(o)
           \/ ScheduleUploadDrain \/ StartDrain \/ StartPoll
           \/ TakeObservation \/ NothingToTake \/ Release \/ Recheck
           \/ UploadAnswered
  BY <1>1, ThreadsAreQuiet
<1>2. CASE PollAnsweredEmpty \/ ReportAnswered \/ CallFails \/ PhoneRestarts
  BY <1>2, EndsAreQuiet
<1>3. CASE \/ ServerHandles \/ (\E m \in late : ServerHandlesLate(m)) \/ StoreStep
           \/ UNCHANGED allVars
  BY <1>3, ServerIsQuiet
<1>. QED
  BY <1>1, <1>2, <1>3 DEF BridgeNext, ExecutorStep

-----------------------------------------------------------------------------
(* What a step can do to a command in the store.                           *)

\* Requests stay what they were, leases and retries are counted one by one,
\* and what is stored anew is queued.
LEMMA StoreHistory ==
    ASSUME Accounting, [Next]_vars, NEW c \in Commands
    PROVE  /\ dispatches'[c] \in {dispatches[c], dispatches[c] + 1}
           /\ lifecycle[c] # "NONE" => request'[c] = request[c] /\ lifecycle'[c] # "NONE"
           /\ c \in Stored' /\ c \notin Stored => lifecycle'[c] = "QUEUED"
           /\ c \in Stored /\ c \in Stored' =>
                  retryCount'[c] \in {retryCount[c], retryCount[c] + 1}
<1>. USE DEF Accounting
<1>1. ASSUME NEW d \in Devices, LeaseNext(d)
      PROVE  /\ dispatches'[c] \in {dispatches[c], dispatches[c] + 1}
             /\ request' = request
             /\ lifecycle'[c] = "NONE" <=> lifecycle[c] = "NONE"
             /\ c \in Stored' => c \in Stored
             /\ retryCount'[c] \in {retryCount[c], retryCount[c] + 1}
  <2>1. PICK leased, stale \in SUBSET Candidates(d) : Sweep(d, leased, stale)
    BY <1>1, SweepSets
  <2>2. c \in leased \cup stale \cup Exhausted(d) \cup Expired(d) => c \in Stored
    BY DEF Candidates, Exhausted, Expired, OfDevice
  <2>3. c \notin Stored => lifecycle'[c] = lifecycle[c]
    BY <2>1, <2>2 DEF Sweep
  <2>4. c \in Stored => lifecycle'[c] # "NONE" /\ lifecycle[c] # "NONE"
    BY <2>1 DEF Sweep, Stored, ActionLifecycle, ActiveLifecycles, InFlight, Terminal
  <2>. QED
    BY <2>1, <2>3, <2>4 DEF Sweep, Stored
<1>2. ASSUME NEW e \in Commands, NEW r \in Requests, Check(e, r)
      PROVE  /\ dispatches' = dispatches /\ retryCount' = retryCount
             /\ lifecycle[c] # "NONE" => request'[c] = request[c] /\ lifecycle'[c] # "NONE"
             /\ c \in Stored' => c \in Stored
  BY <1>2 DEF Check, SafetyStops, TypeOK, Stored, ActionLifecycle, ActiveLifecycles, InFlight, Terminal
<1>3. ASSUME NEW e \in Commands, Enqueue(e)
      PROVE  /\ dispatches' = dispatches /\ retryCount' = retryCount /\ request' = request
             /\ lifecycle[c] # "NONE" => lifecycle'[c] # "NONE"
             /\ c \in Stored' /\ c \notin Stored => lifecycle'[c] = "QUEUED"
  <2>1. lifecycle' \in {[lifecycle EXCEPT ![e] = "QUEUED"], [lifecycle EXCEPT ![e] = "REFUSED"]}
    BY <1>3 DEF Enqueue, Insert, ReturnExisting, RefuseConflict, RefuseFull, Refuse
  <2>. QED
    BY <1>3, <2>1 DEF Enqueue, TypeOK, Stored, ActionLifecycle, ActiveLifecycles, InFlight, Terminal
<1>4. ASSUME NEW e \in Commands, NEW s \in DeviceStatuses, NEW l \in ReportLifecycles,
             RecordResult(e, s, l)
      PROVE  /\ dispatches' = dispatches /\ retryCount' = retryCount /\ request' = request
             /\ lifecycle[c] # "NONE" => lifecycle'[c] # "NONE"
             /\ c \in Stored' => c \in Stored
  <2>1. RecordedLifecycle(s, l) \in ActionLifecycle
    BY ReportsAssumption DEF RecordedLifecycle, LifecycleForResult, ActionLifecycle, Terminal
  <2>2. "NONE" \notin ActionLifecycle
    BY DEF ActionLifecycle, ActiveLifecycles, InFlight, Terminal
  <2>. QED
    BY <1>4, <2>1, <2>2 DEF RecordResult, TypeOK, Stored
<1>5. CASE Restart
  BY <1>5 DEF Restart, TypeOK, Stored, ActionLifecycle, ActiveLifecycles, InFlight, Terminal
<1>6. CASE \/ UNCHANGED vars
           \/ \E d \in Devices, o \in Observations : ReceiveObservation(d, o)
           \/ \E e \in Commands : LeaseExpires(e)
           \/ \E d \in Devices : DeviceSilent(d)
  BY <1>6 DEF vars, ReceiveObservation, LeaseExpires, DeviceSilent, Stored
<1>. QED
  BY <1>1, <1>2, <1>3, <1>4, <1>5, <1>6 DEF Next

\* A poll settles only commands without a result, never as a success, and
\* only such that were never leased or whose lease ran out.
LEMMA SweepResults ==
    ASSUME Accounting, NEW d \in Devices, LeaseNext(d), NEW c \in Commands,
           result'[c] # result[c]
    PROVE  /\ c \in Stored /\ result[c] = NoResult /\ result'[c] # "SUCCESS"
           /\ retryCount'[c] # 0 \/ dispatches[c] = 0
<1>. USE DEF Accounting
<1>1. PICK leased, stale \in SUBSET Candidates(d) : Sweep(d, leased, stale)
  BY SweepSets
<1>2. /\ c \in stale \cup Exhausted(d)
      /\ result'[c] \in {"STALE_OBSERVATION", "RETRY_EXHAUSTED"}
  BY <1>1 DEF Sweep
<1>3. c \in Candidates(d) \cup Expired(d)
  BY <1>2 DEF Exhausted
<1>4. c \in Stored /\ lifecycle[c] \in {"QUEUED", "DISPATCHED"}
  BY <1>3 DEF Candidates, Expired, OfDevice, InFlight, Accounted
<1>5. result[c] = NoResult
  BY <1>4 DEF Accounted, Terminal
<1>6. CASE c \in Expired(d)
  <2>1. retryCount'[c] = retryCount[c] + 1 /\ retryCount[c] \in Nat
    BY <1>1, <1>6 DEF Sweep, TypeOK
  <2>. QED
    BY <1>2, <1>4, <1>5, <2>1
<1>7. CASE c \notin Expired(d)
  <2>1. lifecycle[c] = "QUEUED" /\ retryCount'[c] = retryCount[c] /\ dispatches[c] = retryCount[c]
    BY <1>1, <1>3, <1>7 DEF Sweep, Candidates, Accounted
  <2>. QED
    BY <1>2, <1>4, <1>5, <2>1
<1>. QED
  BY <1>6, <1>7

\* A command gets a result from a report under way, or from such a poll.
LEMMA ResultsArrive ==
    ASSUME PhoneConsistent, Accounting, [BridgeNext]_allVars, NEW c \in Commands,
           result'[c] # result[c], result'[c] # NoResult
    PROVE  /\ c \in Stored /\ result[c] = NoResult
           /\ \/ /\ result'[c] \in DeviceStatuses /\ UnderWay(c, result'[c])
                 /\ retryCount' = retryCount
              \/ result'[c] # "SUCCESS" /\ (retryCount'[c] # 0 \/ dispatches[c] = 0)
<1>. DEFINE Arrives == /\ c \in Stored /\ result[c] = NoResult
                       /\ \/ /\ result'[c] \in DeviceStatuses /\ UnderWay(c, result'[c])
                             /\ retryCount' = retryCount
                          \/ result'[c] # "SUCCESS" /\ (retryCount'[c] # 0 \/ dispatches[c] = 0)
<1>1. ASSUME NEW o, HandleUpload(o) PROVE FALSE
  BY <1>1 DEF HandleUpload, ReceiveObservation
<1>2. ASSUME NEW e \in Commands \cup {NoCommand}, HandlePoll(e) PROVE Arrives
  <2>1. ~UNCHANGED vars
    BY DEF vars
  <2>2. LeaseNext(Phone)
    BY <1>2, <2>1, NoCommandAssumption DEF HandlePoll, LeaseNext
  <2>. QED
    BY <2>2, PhoneAssumption, SweepResults
<1>3. ASSUME NEW e \in Commands, NEW s \in DeviceStatuses, UnderWay(e, s),
             HandleReport(e, s) \/ RefuseReport(e)
      PROVE  Arrives
  <2>1. RecordResult(e, s, Unset)
    BY <1>3 DEF HandleReport, RefuseReport, vars
  <2>2. /\ e = c /\ result'[c] = s
    BY <2>1 DEF RecordResult, Accounting, TypeOK
  <2>. QED
    BY <1>3, <2>1, <2>2 DEF RecordResult
<1>4. ASSUME ServerHandles PROVE Arrives
  <2>1. CASE pc = "upload" /\ HandleUpload(uploading)
    BY <1>1, <2>1
  <2>2. CASE pc = "poll" /\ \E e \in Commands \cup {NoCommand} : HandlePoll(e)
    BY <1>2, <2>2
  <2>3. CASE pc = "report" /\ (HandleReport(held, status) \/ RefuseReport(held))
    BY <1>3, <2>3 DEF PhoneConsistent, BridgeTypeOK, CallsConsistent, UnderWay
  <2>. QED
    BY <1>4, <2>1, <2>2, <2>3 DEF ServerHandles
<1>5. ASSUME NEW m \in late, ServerHandlesLate(m) PROVE Arrives
  <2>1. m \in Messages
    BY DEF PhoneConsistent, CallsConsistent
  <2>2. CASE m.call = "upload" /\ HandleUpload(m.observation)
    BY <1>1, <2>2
  <2>3. CASE m.call = "poll" /\ \E e \in Commands \cup {NoCommand} : HandlePoll(e)
    BY <1>2, <2>3
  <2>4. CASE m.call = "report" /\ (HandleReport(m.command, m.status) \/ RefuseReport(m.command))
    <3>1. m.command \in Commands /\ m.status \in DeviceStatuses
      BY <2>1, <2>4 DEF Messages
    <3>2. m = [call |-> "report", command |-> m.command, status |-> m.status]
      BY <2>1, <2>4 DEF Messages
    <3>. QED
      BY <1>3, <2>4, <3>1, <3>2 DEF UnderWay
  <2>. QED
    BY <1>5, <2>2, <2>3, <2>4 DEF ServerHandlesLate
<1>6. ASSUME StoreStep PROVE FALSE
  BY <1>6 DEF StoreStep, Check, SafetyStops, Enqueue, LeaseExpires, DeviceSilent, Restart
<1>7. ASSUME \/ \E o \in Observations : Collect(o)
             \/ ScheduleUploadDrain \/ StartDrain \/ StartPoll \/ ExecutorStep
             \/ PhoneRestarts \/ UNCHANGED allVars
      PROVE  FALSE
  <2>1. CASE ExecutorStep
    BY <2>1 DEF ExecutorStep, TakeObservation, NothingToTake, Release, Recheck, UploadAnswered,
       PollAnsweredEmpty, CommandArrives, ReportAnswered, CallFails, ExecutionThrows, vars
  <2>. QED
    BY <1>7, <2>1 DEF Collect, ScheduleUploadDrain, StartDrain, StartPoll,
       PhoneRestarts, allVars, vars
<1>. QED
  BY <1>4, <1>5, <1>6, <1>7 DEF BridgeNext

-----------------------------------------------------------------------------
(* The memory of the phone.                                                *)

\* A command that is remembered is known; nothing else becomes known, and
\* nothing is forgotten while there is room.
LEMMA RememberKnows ==
    ASSUME processed \in BoundedSeq(Commands, Capacity), NEW h \in Commands, Remember(h)
    PROVE  /\ Known(h)'
           /\ \A c \in Commands : c # h /\ Known(c)' => Known(c)
           /\ Len(processed) < Capacity => \A c \in Commands : Known(c) => Known(c)'
<1>. USE BridgeBoundsAssumption DEF Known, Contains
<1>1. processed \in Seq(Commands) /\ Len(processed) <= Capacity
  BY BoundedSeqMember
<1>2. CASE Len(processed) = Capacity
  <2>1. processed # <<>>
    BY <1>1, <1>2, EmptySeq
  <2>2. /\ Tail(processed) \in Seq(Commands) /\ Len(Tail(processed)) = Len(processed) - 1
        /\ \A i \in 1..Len(Tail(processed)) : Tail(processed)[i] = processed[i+1]
    BY <1>1, <2>1
  <2>3. processed' = Append(Tail(processed), h)
    BY <1>2 DEF Remember
  <2>4. /\ Len(processed') = Len(Tail(processed)) + 1
        /\ processed'[Len(processed')] = h
        /\ \A i \in 1..Len(Tail(processed)) : processed'[i] = Tail(processed)[i]
    BY <2>2, <2>3, AppendProperties
  <2>. QED
    BY <1>1, <1>2, <2>2, <2>4
<1>3. CASE Len(processed) # Capacity
  <2>1. processed' = Append(processed, h)
    BY <1>3 DEF Remember
  <2>2. /\ Len(processed') = Len(processed) + 1
        /\ processed'[Len(processed')] = h
        /\ \A i \in 1..Len(processed) : processed'[i] = processed[i]
    BY <1>1, <2>1, AppendProperties
  <2>. QED
    BY <1>1, <2>2
<1>. QED
  BY <1>2, <1>3

\* Remembering an unknown command keeps the remembered ones different.
LEMMA RememberKeepsOnce ==
    ASSUME processed \in BoundedSeq(Commands, Capacity), NEW h \in Commands, Remember(h),
           ~Known(h), RememberedOnce
    PROVE  RememberedOnce'
<1>. USE BridgeBoundsAssumption DEF Known, Contains, RememberedOnce
<1>1. processed \in Seq(Commands) /\ Len(processed) <= Capacity
  BY BoundedSeqMember
<1>2. CASE Len(processed) = Capacity
  <2>1. processed # <<>>
    BY <1>1, <1>2, EmptySeq
  <2>2. /\ Tail(processed) \in Seq(Commands) /\ Len(Tail(processed)) = Len(processed) - 1
        /\ \A i \in 1..Len(Tail(processed)) : Tail(processed)[i] = processed[i+1]
    BY <1>1, <2>1
  <2>3. processed' = Append(Tail(processed), h)
    BY <1>2 DEF Remember
  <2>4. /\ Len(processed') = Len(processed)
        /\ processed'[Len(processed')] = h
        /\ \A i \in 1..(Len(processed) - 1) : processed'[i] = processed[i+1]
    BY <1>1, <2>2, <2>3, AppendProperties
  <2>5. Len(processed) \in Nat \ {0}
    BY <1>1, <2>1, EmptySeq
  <2>6. \A i \in 1..Len(processed') : i = Len(processed) \/ i \in 1..(Len(processed) - 1)
    BY <2>4, <2>5
  <2>. QED
    BY <2>4, <2>5, <2>6
<1>3. CASE Len(processed) # Capacity
  <2>1. processed' = Append(processed, h)
    BY <1>3 DEF Remember
  <2>2. /\ Len(processed') = Len(processed) + 1
        /\ processed'[Len(processed')] = h
        /\ \A i \in 1..Len(processed) : processed'[i] = processed[i]
    BY <1>1, <2>1, AppendProperties
  <2>. QED
    BY <1>1, <2>2
<1>. QED
  BY <1>2, <1>3

\* While no more commands were handed out than the memory can hold, there is
\* room for one that is not yet known.
LEMMA MemoryHasRoom ==
    ASSUME processed \in BoundedSeq(Commands, Capacity), RememberedOnce, MemorySuffices,
           \A c \in Commands : dispatches[c] \in Nat /\ (Known(c) => dispatches[c] > 0),
           NEW h \in Commands, ~Known(h), dispatches[h] > 0
    PROVE  Len(processed) < Capacity
<1>. DEFINE D == {c \in Commands : dispatches[c] > 0}
<1>1. processed \in Seq(Commands) /\ Len(processed) \in Nat
  BY BridgeBoundsAssumption, BoundedSeqMember, LenProperties
<1>2. IsFiniteSet(D) /\ Cardinality(D) \in Nat
  BY CommandsAssumption, FS_Subset, FS_CardinalityType
<1>3. IsFiniteSet(D \ {h}) /\ Cardinality(D \ {h}) = Cardinality(D) - 1
  BY <1>2, FS_RemoveElement
<1>4. processed \in Injection(1..Len(processed), D \ {h})
  <2>1. \A i \in 1..Len(processed) : processed[i] \in Commands /\ Known(processed[i])
    BY <1>1 DEF Known, Contains
  <2>2. \A i \in 1..Len(processed) : processed[i] \in D \ {h}
    BY <2>1
  <2>3. processed \in [1..Len(processed) -> D \ {h}]
    BY <1>1, <2>2, LenProperties
  <2>. QED
    BY <2>3 DEF Injection, IsInjective, RememberedOnce
<1>. HIDE DEF D
<1>5. Cardinality(1..Len(processed)) <= Cardinality(D \ {h})
  BY <1>3, <1>4, FS_Injection
<1>6. Cardinality(1..Len(processed)) = Len(processed)
  <2>. DEFINE n == Len(processed)
  <2>1. n \in Nat
    BY <1>1
  <2>. HIDE DEF n
  <2>2. Cardinality(1..n) = IF 1 > n THEN 0 ELSE n - 1 + 1
    BY <2>1, FS_Interval
  <2>3. Cardinality(1..n) = n
    BY <2>1, <2>2
  <2>. QED
    BY <2>3 DEF n
<1>7. Cardinality(D) <= Capacity
  BY DEF MemorySuffices, D
<1>. QED
  BY <1>1, <1>2, <1>3, <1>5, <1>6, <1>7, BridgeBoundsAssumption

\* The number of commands that were handed out never shrinks.
LEMMA MemoryOnlyFills ==
    ASSUME Accounting, [Next]_vars, MemorySuffices'
    PROVE  MemorySuffices
<1>. DEFINE D == {c \in Commands : dispatches[c] > 0}
            E == {c \in Commands : dispatches'[c] > 0}
<1>1. D \subseteq E
  BY StoreHistory DEF Accounting, TypeOK
<1>2. IsFiniteSet(E) /\ Cardinality(E) \in Nat
  BY CommandsAssumption, FS_Subset, FS_CardinalityType
<1>3. Cardinality(D) <= Cardinality(E) /\ Cardinality(D) \in Nat
  BY <1>1, <1>2, FS_Subset, FS_CardinalityType
<1>4. Cardinality(E) <= Capacity
  BY DEF MemorySuffices
<1>. QED
  BY <1>2, <1>3, <1>4, BridgeBoundsAssumption DEF MemorySuffices

-----------------------------------------------------------------------------
(* First leases, first reports, first results.                             *)

\* A command that arrives touches nothing but itself, and is performed only
\* when it is unknown and bound to the current observation.
LEMMA ArrivalTouchesOne ==
    ASSUME PhoneConsistent, CommandArrives
    PROVE  /\ held \in Commands /\ pc = "poll" /\ pc' = "report" /\ held' = held
           /\ UNCHANGED <<vars, late, current>>
           /\ \A c \in Commands : c # held =>
                  effects'[c] = effects[c] /\ (Known(c)' => Known(c))
           /\ \A c \in Commands, s \in DeviceStatuses :
                  UnderWay(c, s)' => UnderWay(c, s) \/ (c = held /\ s = status')
           /\ \/ /\ effects'[held] = effects[held] /\ status' # "SUCCESS"
                 /\ Known(held)' => Known(held) \/ Remember(held)
              \/ /\ ~Known(held) /\ Remember(held)
                 /\ request[held].observation_id = current
                 /\ effects'[held] = Append(effects[held], status')
<1>1. /\ held \in Commands /\ pc = "poll" /\ pc' = "report" /\ held' = held
      /\ UNCHANGED <<vars, late, current>>
  BY DEF PhoneConsistent, BridgeTypeOK, CommandArrives, Call
<1>2. \A c \in Commands, s \in DeviceStatuses :
        UnderWay(c, s)' => UnderWay(c, s) \/ (c = held /\ s = status')
  BY <1>1 DEF UnderWay
<1>3. CASE Known(held) /\ status' = "ACTION_REJECTED" /\ UNCHANGED <<processed, effects>>
  BY <1>1, <1>2, <1>3 DEF Known
<1>4. CASE ~Known(held) /\ Remember(held) /\ (RefuseHeld \/ PerformHeld)
  <2>1. \A c \in Commands : c # held => (Known(c)' => Known(c))
    BY <1>1, <1>4, RememberKnows DEF PhoneConsistent, BridgeTypeOK
  <2>2. CASE RefuseHeld
    BY <1>1, <1>2, <1>4, <2>1, <2>2 DEF RefuseHeld
  <2>3. CASE PerformHeld
    <3>1. PICK s : effects' = [effects EXCEPT ![held] = Append(@, s)] /\ status' = s
      BY <2>3 DEF PerformHeld
    <3>2. \A c \in Commands : effects'[c] = IF c = held THEN Append(effects[c], s) ELSE effects[c]
      BY <3>1 DEF PhoneConsistent, BridgeTypeOK
    <3>3. request[held].observation_id = current
      BY <2>3 DEF PerformHeld
    <3>. QED
      BY <1>1, <1>2, <1>4, <2>1, <3>1, <3>2, <3>3
  <2>. QED
    BY <1>4, <2>2, <2>3
<1>. QED
  BY <1>3, <1>4 DEF CommandArrives

\* A lease counts.
LEMMA ReceiveCounts ==
    ASSUME PhoneConsistent, Accounting, Accounting', NEW c \in Commands, Receive(c)
    PROVE  /\ dispatches'[c] = dispatches[c] + 1 /\ result'[c] = NoResult
           /\ \A e \in Commands : Known(e)' <=> Known(e)
           /\ \A e \in Commands, s \in DeviceStatuses : UnderWay(e, s)' => UnderWay(e, s)
<1>1. /\ dispatches' = [e \in Commands |-> IF e \in {c} THEN dispatches[e] + 1 ELSE dispatches[e]]
      /\ lifecycle'[c] = "DISPATCHED"
  BY DEF Receive, LeaseCommand, Sweep
<1>2. result'[c] = NoResult
  BY <1>1 DEF Accounting, Accounted, Terminal
<1>. QED
  BY <1>1, <1>2 DEF Receive, memory, Known, UnderWay

\* What throws leaves no report.
LEMMA ThrowTouchesOne ==
    ASSUME PhoneConsistent, ExecutionThrows
    PROVE  /\ held \in Commands /\ held' = NoCommand
           /\ UNCHANGED <<vars, effects, current>>
           /\ ~Known(held) /\ Remember(held)
           /\ \A c \in Commands : c # held => (Known(c)' => Known(c))
           /\ \A c \in Commands, s \in DeviceStatuses : UnderWay(c, s)' => UnderWay(c, s)
<1>1. /\ held \in Commands /\ UNCHANGED <<vars, effects, current, late>>
      /\ ~Known(held) /\ Remember(held)
  BY DEF PhoneConsistent, BridgeTypeOK, ExecutionThrows
<1>2. held' = NoCommand
  BY DEF ExecutionThrows, Finish, NoCall, Retry
<1>3. \A c \in Commands : c # held => (Known(c)' => Known(c))
  BY <1>1, RememberKnows DEF PhoneConsistent, BridgeTypeOK
<1>. QED
  BY <1>1, <1>2, <1>3, NoCommandAssumption DEF UnderWay

\* What was never leased stays unknown.
LEMMA UnleasedStayUnknown ==
    ASSUME PhoneConsistent, Accounting, Accounting', UnleasedUnknown, [BridgeNext]_allVars
    PROVE  UnleasedUnknown'
<1>. SUFFICES ASSUME NEW c \in Commands, dispatches'[c] = 0
              PROVE  /\ held' # c /\ effects'[c] = <<>> /\ ~Known(c)'
                     /\ \A s \in DeviceStatuses : ~UnderWay(c, s)'
  BY DEF UnleasedUnknown
<1>1. dispatches[c] = 0
  BY BridgeStepsAreStoreSteps, StoreHistory DEF Accounting, TypeOK
<1>2. /\ held # c /\ effects[c] = <<>> /\ ~Known(c)
      /\ \A s \in DeviceStatuses : ~UnderWay(c, s)
  BY <1>1 DEF UnleasedUnknown
<1>3. CASE Quiet
  BY <1>2, <1>3, NoCommandAssumption DEF Quiet, Known, Contains
<1>4. ASSUME NEW e \in Commands, Receive(e)
      PROVE  /\ held' # c /\ effects'[c] = <<>> /\ ~Known(c)'
             /\ \A s \in DeviceStatuses : ~UnderWay(c, s)'
  <2>1. e # c
    BY <1>1, <1>4, ReceiveCounts
  <2>. QED
    BY <1>2, <1>4, <2>1, ReceiveCounts DEF Receive, memory
<1>5. CASE CommandArrives
  BY <1>2, <1>5, ArrivalTouchesOne
<1>6. CASE ExecutionThrows
  BY <1>2, <1>6, ThrowTouchesOne, NoCommandAssumption
<1>. QED
  BY <1>3, <1>4, <1>5, <1>6, BridgeStepKinds

\* While one lease is all there was, the phone finds the command untouched.
LEMMA FirstLeaseStays ==
    ASSUME PhoneConsistent, Accounting, Accounting', UnleasedUnknown, FirstLease,
           [BridgeNext]_allVars
    PROVE  FirstLease'
<1>. SUFFICES ASSUME NEW c \in Commands, pc' = "poll", held' = c, dispatches'[c] <= 1
              PROVE  /\ effects'[c] = <<>> /\ ~Known(c)'
                     /\ \A s \in DeviceStatuses : ~UnderWay(c, s)'
                     /\ c \in Stored' /\ retryCount'[c] = 0 => result'[c] = NoResult
  BY DEF FirstLease
<1>1. [Next]_vars
  BY BridgeStepsAreStoreSteps
<1>2. CASE Quiet
  <2>1. held = c /\ pc = "poll"
    BY <1>2, NoCommandAssumption DEF Quiet
  <2>2. dispatches[c] <= 1 /\ dispatches[c] # 0
    <3>1. dispatches'[c] \in {dispatches[c], dispatches[c] + 1}
      BY <1>1, StoreHistory
    <3>2. dispatches[c] \in Nat /\ dispatches[c] # 0
      BY <2>1 DEF Accounting, TypeOK, UnleasedUnknown
    <3>. QED
      BY <3>1, <3>2
  <2>3. /\ effects[c] = <<>> /\ ~Known(c)
        /\ \A s \in DeviceStatuses : ~UnderWay(c, s)
        /\ c \in Stored /\ retryCount[c] = 0 => result[c] = NoResult
    BY <2>1, <2>2 DEF FirstLease
  <2>4. ASSUME c \in Stored', retryCount'[c] = 0 PROVE result'[c] = NoResult
    <3>1. CASE c \notin Stored
      BY <1>1, <2>4, <3>1, StoreHistory DEF Accounting, Accounted, Terminal
    <3>2. CASE c \in Stored
      <4>1. retryCount[c] = 0
        BY <1>1, <2>4, <3>2, StoreHistory DEF Accounting, TypeOK
      <4>. QED
        BY <2>2, <2>3, <2>4, <3>2, <4>1, ResultsArrive
    <3>. QED
      BY <3>1, <3>2
  <2>. QED
    BY <1>2, <2>3, <2>4 DEF Quiet, Known, Contains
<1>3. ASSUME NEW e \in Commands, Receive(e)
      PROVE  /\ effects'[c] = <<>> /\ ~Known(c)' /\ result'[c] = NoResult
             /\ \A s \in DeviceStatuses : ~UnderWay(c, s)'
  <2>1. e = c
    BY <1>3 DEF Receive
  <2>2. dispatches[c] = 0
    BY <1>3, <2>1, ReceiveCounts DEF Accounting, TypeOK
  <2>. QED
    BY <1>3, <2>1, <2>2, ReceiveCounts DEF UnleasedUnknown, Receive, memory
<1>4. CASE CommandArrives
  BY <1>4, ArrivalTouchesOne
<1>5. CASE ExecutionThrows
  BY <1>5, ThrowTouchesOne, NoCommandAssumption
<1>. QED
  BY <1>2, <1>3, <1>4, <1>5, BridgeStepKinds

\* A report made after one lease tells what was performed.
LEMMA FirstReportStays ==
    ASSUME PhoneConsistent, Accounting, Accounting', FirstLease, FirstReport,
           [BridgeNext]_allVars
    PROVE  FirstReport'
<1>. SUFFICES ASSUME NEW c \in Commands, NEW s \in DeviceStatuses,
                     UnderWay(c, s)', dispatches'[c] <= 1, effects'[c] # <<>>
              PROVE  effects'[c] = <<s>>
  BY DEF FirstReport
<1>1. dispatches[c] <= 1
  <2>1. dispatches'[c] \in {dispatches[c], dispatches[c] + 1}
    BY BridgeStepsAreStoreSteps, StoreHistory
  <2>2. dispatches[c] \in Nat
    BY DEF Accounting, TypeOK
  <2>. QED
    BY <2>1, <2>2
<1>2. ASSUME UnderWay(c, s), effects'[c] = effects[c] PROVE effects'[c] = <<s>>
  BY <1>1, <1>2 DEF FirstReport
<1>3. CASE Quiet
  BY <1>2, <1>3 DEF Quiet
<1>4. ASSUME NEW e \in Commands, Receive(e) PROVE effects'[c] = <<s>>
  BY <1>2, <1>4, ReceiveCounts DEF Receive, memory
<1>5. CASE CommandArrives
  <2>1. CASE c # held
    BY <1>2, <1>5, <2>1, ArrivalTouchesOne
  <2>2. CASE c = held
    <3>1. effects[c] = <<>> /\ ~UnderWay(c, s)
      BY <1>1, <1>5, <2>2, ArrivalTouchesOne DEF FirstLease
    <3>2. s = status' /\ effects'[c] = Append(effects[c], status')
      BY <1>5, <2>2, <3>1, ArrivalTouchesOne
    <3>. QED
      BY <3>1, <3>2
  <2>. QED
    BY <2>1, <2>2
<1>6. CASE ExecutionThrows
  BY <1>2, <1>6, ThrowTouchesOne
<1>. QED
  BY <1>3, <1>4, <1>5, <1>6, BridgeStepKinds

\* Leases and retries of what is stored are counted together.
LEMMA LeasesStayCounted ==
    ASSUME Accounting, Accounting', LeasesCounted, [Next]_vars
    PROVE  LeasesCounted'
<1>. SUFFICES ASSUME NEW c \in Commands, c \in Stored'
              PROVE  dispatches'[c] <= retryCount'[c] + 1
  BY DEF LeasesCounted, Stored
<1>0. dispatches'[c] \in Nat /\ retryCount'[c] \in Nat /\ dispatches[c] \in Nat /\ retryCount[c] \in Nat
  BY DEF Accounting, TypeOK
<1>1. CASE lifecycle'[c] \in {"QUEUED", "DISPATCHED"}
  BY <1>0, <1>1 DEF Accounting, Accounted
<1>2. CASE lifecycle'[c] \notin {"QUEUED", "DISPATCHED"}
  <2>1. c \in Stored
    BY <1>2, StoreHistory
  <2>2. retryCount'[c] >= retryCount[c]
    BY <1>0, <2>1, StoreHistory
  <2>3. dispatches'[c] = dispatches[c]
    <3>1. ASSUME NEW d \in Devices, LeaseNext(d) PROVE dispatches'[c] = dispatches[c]
      <4>1. PICK leased, stale \in SUBSET Candidates(d) : Sweep(d, leased, stale)
        BY <3>1, SweepSets DEF Accounting
      <4>. QED
        BY <1>2, <4>1 DEF Sweep
    <3>. QED
      BY <3>1, OthersDispatchNothing
  <2>. QED
    BY <1>0, <2>1, <2>2, <2>3 DEF LeasesCounted
<1>. QED
  BY <1>1, <1>2

\* What is recorded without a retry is what was performed.
LEMMA FirstResultStays ==
    ASSUME PhoneConsistent, Accounting, Accounting', UnleasedUnknown, FirstLease,
           FirstReport, LeasesCounted, FirstResult, [BridgeNext]_allVars
    PROVE  FirstResult'
<1>. SUFFICES ASSUME NEW c \in Commands, c \in Stored', effects'[c] # <<>>,
                     result'[c] # NoResult, retryCount'[c] = 0
              PROVE  effects'[c] = <<result'[c]>>
  BY DEF FirstResult, Stored
<1>1. [Next]_vars
  BY BridgeStepsAreStoreSteps
<1>2. c \in Stored
  BY <1>1, StoreHistory DEF Accounting, Accounted, Terminal
<1>3. retryCount[c] = 0
  BY <1>1, <1>2, StoreHistory DEF Accounting, TypeOK
<1>4. dispatches[c] <= 1
  BY <1>2, <1>3 DEF LeasesCounted
<1>5. ASSUME effects'[c] = effects[c] PROVE effects'[c] = <<result'[c]>>
  <2>1. CASE result'[c] = result[c]
    BY <1>2, <1>3, <1>5, <2>1 DEF FirstResult
  <2>2. CASE result'[c] # result[c]
    <3>1. dispatches[c] # 0
      BY <1>5 DEF UnleasedUnknown
    <3>2. result'[c] \in DeviceStatuses /\ UnderWay(c, result'[c])
      BY <2>2, <3>1, ResultsArrive
    <3>. QED
      BY <1>4, <1>5, <3>2 DEF FirstReport
  <2>. QED
    BY <2>1, <2>2
<1>6. ASSUME effects'[c] # effects[c] PROVE FALSE
  <2>1. CommandArrives /\ c = held
    BY <1>6, BridgeStepKinds, ArrivalTouchesOne, ThrowTouchesOne DEF Quiet, Receive, memory
  <2>2. result[c] = NoResult
    BY <1>2, <1>3, <1>4, <2>1, ArrivalTouchesOne DEF FirstLease
  <2>3. result'[c] = result[c]
    BY <2>1, ArrivalTouchesOne DEF vars
  <2>. QED
    BY <2>2, <2>3
<1>. QED
  BY <1>5, <1>6

-----------------------------------------------------------------------------
(* Where observations are, and that an action is performed once.           *)

\* An observation is collected, taken from the slot, or uploaded; otherwise
\* the places only lose theirs.
LEMMA ObservationsMove ==
    ASSUME PhoneConsistent, [BridgeNext]_allVars
    PROVE  \/ \E o \in Observations :
                 /\ ~Contains(collected, o) /\ collected' = Append(collected, o)
                 /\ slot' = o /\ UNCHANGED <<uploading, current>>
           \/ /\ slot # NoObservation /\ uploading' = slot /\ slot' = NoObservation
              /\ UNCHANGED <<collected, current>>
           \/ /\ uploading # NoObservation /\ current' = uploading
              /\ uploading' = NoObservation /\ UNCHANGED <<collected, slot>>
           \/ /\ slot' \in {slot, NoObservation} /\ uploading' \in {uploading, NoObservation}
              /\ current' \in {current, NoObservation} /\ UNCHANGED collected
<1>. USE DEF handover, call, memory, phone
<1>1. ASSUME NEW o \in Observations, Collect(o)
      PROVE  /\ ~Contains(collected, o) /\ collected' = Append(collected, o)
             /\ slot' = o /\ UNCHANGED <<uploading, current>>
  BY <1>1 DEF Collect
<1>2. ASSUME TakeObservation
      PROVE  /\ slot # NoObservation /\ uploading' = slot /\ slot' = NoObservation
             /\ UNCHANGED <<collected, current>>
  BY <1>2 DEF TakeObservation
<1>3. ASSUME UploadAnswered
      PROVE  /\ uploading # NoObservation /\ current' = uploading
             /\ uploading' = NoObservation /\ UNCHANGED <<collected, slot>>
  BY <1>3 DEF UploadAnswered, PhoneConsistent, CallsConsistent
<1>. DEFINE Fades == /\ slot' \in {slot, NoObservation} /\ uploading' \in {uploading, NoObservation}
                     /\ current' \in {current, NoObservation} /\ UNCHANGED collected
<1>4. ASSUME \/ ScheduleUploadDrain \/ StartDrain \/ StartPoll \/ NothingToTake \/ Release \/ Recheck
      PROVE  Fades
  BY <1>4 DEF ScheduleUploadDrain, StartDrain, StartPoll, NothingToTake, Release, Recheck
<1>5. ASSUME PollAnsweredEmpty \/ ReportAnswered \/ CommandArrives PROVE Fades
  BY <1>5 DEF PollAnsweredEmpty, ReportAnswered, CommandArrives, Finish, NoCall
<1>6. ASSUME CallFails \/ ExecutionThrows PROVE Fades
  BY <1>6 DEF CallFails, ExecutionThrows, Finish, NoCall, Retry
<1>7. ASSUME PhoneRestarts PROVE Fades
  BY <1>7 DEF PhoneRestarts, NoCall
<1>8. ASSUME \/ ServerHandles \/ (\E m \in late : ServerHandlesLate(m)) \/ StoreStep
             \/ UNCHANGED allVars
      PROVE  Fades
  BY <1>8 DEF ServerHandles, ServerHandlesLate, StoreStep, allVars
<1>. QED
  BY <1>1, <1>2, <1>3, <1>4, <1>5, <1>6, <1>7, <1>8 DEF BridgeNext, ExecutorStep

\* What was collected stays collected.
LEMMA CollectedGrows ==
    ASSUME PhoneConsistent, [BridgeNext]_allVars, NEW o, Contains(collected, o)
    PROVE  Contains(collected', o)
<1>1. collected' = collected \/ \E x \in Observations : collected' = Append(collected, x)
  BY ObservationsMove
<1>2. collected \in Seq(Observations)
  BY DEF PhoneConsistent, BridgeTypeOK
<1>. QED
  BY <1>1, <1>2 DEF Contains

\* Every observation on the phone is a collected one, in one place only.
LEMMA ObservationsStayApart ==
    ASSUME PhoneConsistent, PhoneConsistent', ObservationsPassOn, [BridgeNext]_allVars
    PROVE  ObservationsPassOn'
<1>. USE DEF ObservationsPassOn
<1>1. collected \in Seq(Observations)
  BY DEF PhoneConsistent, BridgeTypeOK
<1>2. ASSUME NEW o \in Observations,
             ~Contains(collected, o), collected' = Append(collected, o),
             slot' = o, UNCHANGED <<uploading, current>>
      PROVE  ObservationsPassOn'
  <2>1. Contains(collected', o)
    <3>1. Len(collected) + 1 \in 1..Len(collected') /\ collected'[Len(collected) + 1] = o
      BY <1>1, <1>2
    <3>. QED
      BY <3>1 DEF Contains
  <2>2. \A x \in {uploading, current} \ {NoObservation} : Contains(collected', x) /\ x # o
    BY <1>2, CollectedGrows
  <2>3. o # NoObservation
    BY ObservationsAssumption
  <2>. QED
    BY <1>2, <2>1, <2>2, <2>3
<1>3. ASSUME slot # NoObservation, uploading' = slot, slot' = NoObservation,
             UNCHANGED <<collected, current>>
      PROVE  ObservationsPassOn'
  BY <1>3
<1>4. ASSUME uploading # NoObservation, current' = uploading,
             uploading' = NoObservation, UNCHANGED <<collected, slot>>
      PROVE  ObservationsPassOn'
  BY <1>4
<1>5. ASSUME slot' \in {slot, NoObservation}, uploading' \in {uploading, NoObservation},
             current' \in {current, NoObservation}, UNCHANGED collected
      PROVE  ObservationsPassOn'
  BY <1>5
<1>. QED
  BY <1>2, <1>3, <1>4, <1>5, ObservationsMove

\* A command is remembered at most once at a time.
LEMMA StaysRememberedOnce ==
    ASSUME PhoneConsistent, RememberedOnce, [BridgeNext]_allVars
    PROVE  RememberedOnce'
<1>1. ASSUME processed' \in {processed, <<>>} PROVE RememberedOnce'
  BY <1>1 DEF RememberedOnce
<1>2. ASSUME held \in Commands, ~Known(held), Remember(held) PROVE RememberedOnce'
  BY <1>2, RememberKeepsOnce DEF PhoneConsistent, BridgeTypeOK
<1>3. CASE CommandArrives
  BY <1>1, <1>2, <1>3 DEF CommandArrives, PhoneConsistent, BridgeTypeOK
<1>4. CASE ExecutionThrows
  BY <1>2, <1>4, ThrowTouchesOne
<1>. QED
  BY <1>1, <1>3, <1>4, BridgeStepKinds DEF Quiet, Receive, memory

\* Once performed, an action is never performed again: the phone has moved
\* past its observation for good, or still knows the command.
LEMMA PerformedStays ==
    ASSUME PhoneConsistent, UnleasedUnknown, PerformedOnce,
           [BridgeNext]_allVars, NEW c \in Commands, effects[c] # <<>>
    PROVE  effects'[c] = effects[c]
<1>1. CASE CommandArrives
  <2>1. c # held \/ Known(held) \/ request[held].observation_id # current
    BY DEF PerformedOnce
  <2>. QED
    BY <1>1, <2>1, ArrivalTouchesOne
<1>. QED
  BY <1>1, BridgeStepKinds, ThrowTouchesOne DEF Quiet, Receive, memory

\* What is known stays known while the observation stays current.
LEMMA StaysKnown ==
    ASSUME PhoneConsistent, Accounting, UnleasedUnknown, RememberedOnce, MemorySuffices,
           [BridgeNext]_allVars, NEW c \in Commands, Known(c)
    PROVE  Known(c)' \/ current' = NoObservation
<1>1. ASSUME processed' = processed PROVE Known(c)'
  BY <1>1 DEF Known
<1>2. ASSUME held \in Commands, ~Known(held), Remember(held) PROVE Known(c)'
  <2>1. \A e \in Commands : dispatches[e] \in Nat /\ (Known(e) => dispatches[e] > 0)
    BY DEF UnleasedUnknown, Accounting, TypeOK
  <2>2. dispatches[held] > 0
    BY <1>2, <2>1 DEF UnleasedUnknown
  <2>3. Len(processed) < Capacity
    BY <1>2, <2>1, <2>2, MemoryHasRoom DEF PhoneConsistent, BridgeTypeOK
  <2>. QED
    BY <1>2, <2>3, RememberKnows DEF PhoneConsistent, BridgeTypeOK
<1>3. CASE CommandArrives
  BY <1>1, <1>2, <1>3 DEF CommandArrives, PhoneConsistent, BridgeTypeOK
<1>4. CASE ExecutionThrows
  BY <1>2, <1>4, ThrowTouchesOne
<1>. QED
  BY <1>1, <1>3, <1>4, BridgeStepKinds DEF Quiet, Receive, memory

\* At most one performance of each action, while the memory suffices.
LEMMA PerformedStaysOnce ==
    ASSUME PhoneConsistent, PhoneConsistent', Accounting, UnleasedUnknown, RememberedOnce,
           MemorySuffices, ObservationsPassOn, PerformedOnce, [BridgeNext]_allVars
    PROVE  PerformedOnce'
<1>. SUFFICES ASSUME NEW c \in Commands, effects'[c] # <<>>
              PROVE  /\ Len(effects'[c]) = 1
                     /\ Contains(collected', request'[c].observation_id)
                     /\ request'[c].observation_id \notin {slot', uploading'}
                     /\ request'[c].observation_id = current' => Known(c)'
  BY DEF PerformedOnce
<1>. DEFINE o == request[c].observation_id
<1>1. CASE effects[c] = <<>>
  <2>1. CommandArrives /\ c = held
    BY <1>1, BridgeStepKinds, ArrivalTouchesOne, ThrowTouchesOne DEF Quiet, Receive, memory
  <2>2. /\ ~Known(c) /\ Remember(c) /\ o = current /\ UNCHANGED <<vars, current>>
        /\ effects'[c] = Append(effects[c], status')
    BY <1>1, <2>1, ArrivalTouchesOne
  <2>3. UNCHANGED <<slot, uploading, collected>>
    BY <2>1 DEF CommandArrives, handover
  <2>4. o \in Observations
    <3>1. lifecycle[c] # "NONE"
      BY <2>1 DEF UnleasedUnknown, Accounting, Accounted
    <3>. QED
      BY <3>1 DEF Accounting, Requested, Requests
  <2>5. Contains(collected, o) /\ o \notin {slot, uploading}
    BY <2>2, <2>4, ObservationsAssumption DEF ObservationsPassOn
  <2>6. Len(effects'[c]) = 1
    BY <1>1, <2>2
  <2>7. Known(c)'
    BY <2>2, RememberKnows DEF PhoneConsistent, BridgeTypeOK
  <2>. QED
    BY <2>2, <2>3, <2>5, <2>6, <2>7 DEF vars
<1>2. CASE effects[c] # <<>>
  <2>1. effects'[c] = effects[c] /\ Len(effects[c]) = 1
    BY <1>2, PerformedStays DEF PerformedOnce
  <2>2. lifecycle[c] # "NONE"
    BY <1>2 DEF UnleasedUnknown, Accounting, Accounted
  <2>3. request'[c] = request[c] /\ o \in Observations
    BY <2>2, BridgeStepsAreStoreSteps, StoreHistory DEF Accounting, Requested, Requests
  <2>4. Contains(collected, o) /\ o \notin {slot, uploading} /\ (o = current => Known(c))
    BY <1>2 DEF PerformedOnce
  <2>5. o # NoObservation
    BY <2>3, ObservationsAssumption
  <2>. HIDE DEF o
  <2>6. o \notin {slot', uploading'}
    BY <2>4, <2>5, ObservationsMove
  <2>7. o = current' => o = current
    BY <2>4, <2>5, ObservationsMove
  <2>8. o = current' => Known(c)'
    BY <2>4, <2>5, <2>7, StaysKnown
  <2>9. Contains(collected', o)
    BY <2>4, CollectedGrows
  <2>. QED
    BY <2>1, <2>3, <2>6, <2>8, <2>9 DEF o
<1>. QED
  BY <1>1, <1>2

\* A success is reported, and recorded, only of what succeeded.
LEMMA SuccessStaysTrue ==
    ASSUME PhoneConsistent, Accounting, Accounting', UnleasedUnknown, PerformedOnce,
           SuccessIsTrue, [BridgeNext]_allVars
    PROVE  SuccessIsTrue'
<1>. SUFFICES ASSUME NEW c \in Commands
              PROVE  /\ UnderWay(c, "SUCCESS")' => effects'[c] = <<"SUCCESS">>
                     /\ c \in Stored' /\ result'[c] = "SUCCESS" => effects'[c] = <<"SUCCESS">>
  BY DEF SuccessIsTrue
<1>. DEFINE S == <<"SUCCESS">>
<1>1. "SUCCESS" \in DeviceStatuses /\ S # <<>>
  BY DEF DeviceStatuses
<1>2. effects[c] = S => effects'[c] = S
  BY <1>1, PerformedStays
<1>3. UnderWay(c, "SUCCESS") => effects'[c] = S
  BY <1>2 DEF SuccessIsTrue
<1>4. UnderWay(c, "SUCCESS")' => effects'[c] = S
  <2>1. CASE CommandArrives
    <3>1. ASSUME c = held, status' = "SUCCESS" PROVE effects'[c] = S
      <4>1. effects'[c] = Append(effects[c], "SUCCESS")
        BY <2>1, <3>1, ArrivalTouchesOne
      <4>2. effects[c] = <<>>
        <5>1. effects[c] \in Seq(DeviceStatuses)
          BY DEF PhoneConsistent, BridgeTypeOK
        <5>2. Append(effects[c], "SUCCESS") # effects[c]
          BY <1>1, <5>1
        <5>. QED
          BY <4>1, <5>2, PerformedStays
      <4>. QED
        BY <4>1, <4>2
    <3>. QED
      BY <1>1, <1>3, <2>1, <3>1, ArrivalTouchesOne
  <2>. QED
    BY <1>1, <1>3, <2>1, BridgeStepKinds, ReceiveCounts, ThrowTouchesOne DEF Quiet
<1>5. ASSUME c \in Stored', result'[c] = "SUCCESS" PROVE effects'[c] = S
  <2>1. CASE result'[c] # result[c]
    BY <1>3, <1>5, <2>1, ResultsArrive DEF NoResult
  <2>2. CASE result'[c] = result[c]
    <3>1. c \in Stored
      BY <1>5, BridgeStepsAreStoreSteps, StoreHistory DEF Accounting, Accounted, Terminal, NoResult
    <3>. QED
      BY <1>2, <1>5, <2>2, <3>1 DEF SuccessIsTrue
  <2>. QED
    BY <2>1, <2>2
<1>. QED
  BY <1>4, <1>5

\* The invariant of phone, channel and store together, for any number of
\* commands, screens, retries and lost, late or repeated calls.
THEOREM BridgeInvariant ==
    ASSUME HonestReports
    PROVE  BridgeSpec => []BridgeInv
<1>1. BridgeInit /\ PhoneConsistent /\ Accounting => BridgeInv
  <2>. SUFFICES ASSUME BridgeInit, PhoneConsistent, Accounting PROVE BridgeInv
    OBVIOUS
  <2>1. /\ \A c \in Commands : effects[c] = <<>> /\ dispatches[c] = 0 /\ ~Known(c)
        /\ pc = "idle" /\ held = NoCommand /\ late = {}
        /\ slot = NoObservation /\ uploading = NoObservation /\ current = NoObservation
        /\ processed = <<>>
    BY DEF BridgeInit, Init, Known, Contains
  <2>2. Stored = {}
    BY DEF BridgeInit, Init, Stored, ActionLifecycle, ActiveLifecycles, InFlight, Terminal
  <2>3. \A c \in Commands, s \in DeviceStatuses : ~UnderWay(c, s)
    BY <2>1 DEF UnderWay
  <2>4. ObservationsPassOn /\ RememberedOnce
    BY <2>1 DEF ObservationsPassOn, RememberedOnce
  <2>5. UnleasedUnknown /\ FirstLease /\ FirstReport
    BY <2>1, <2>3, NoCommandAssumption DEF UnleasedUnknown, FirstLease, FirstReport
  <2>6. LeasesCounted /\ FirstResult
    BY <2>2 DEF LeasesCounted, FirstResult
  <2>7. PerformedOnce
    BY <2>1 DEF PerformedOnce
  <2>8. SuccessIsTrue
    BY <2>2, <2>3 DEF SuccessIsTrue, DeviceStatuses
  <2>. QED
    BY <2>4, <2>5, <2>6, <2>7, <2>8 DEF BridgeInv
<1>2. BridgeInv /\ PhoneConsistent' /\ Accounting' /\ [BridgeNext]_allVars => BridgeInv'
  <2>. SUFFICES ASSUME BridgeInv, PhoneConsistent', Accounting', [BridgeNext]_allVars
                PROVE  BridgeInv'
    OBVIOUS
  <2>. USE DEF BridgeInv
  <2>1. [Next]_vars
    BY BridgeStepsAreStoreSteps
  <2>2. ObservationsPassOn' /\ RememberedOnce'
    BY ObservationsStayApart, StaysRememberedOnce
  <2>3. UnleasedUnknown' /\ FirstLease' /\ FirstReport'
    BY UnleasedStayUnknown, FirstLeaseStays, FirstReportStays
  <2>4. LeasesCounted' /\ FirstResult'
    BY <2>1, LeasesStayCounted, FirstResultStays
  <2>5. MemorySuffices' => PerformedOnce' /\ SuccessIsTrue'
    <3>. SUFFICES ASSUME MemorySuffices' PROVE PerformedOnce' /\ SuccessIsTrue'
      OBVIOUS
    <3>1. MemorySuffices
      BY <2>1, MemoryOnlyFills
    <3>. QED
      BY <3>1, PerformedStaysOnce, SuccessStaysTrue
  <2>. QED
    BY <2>2, <2>3, <2>4, <2>5
<1>. QED
  BY <1>1, <1>2, PhoneIsConsistent, StorePromisesKept, PTL DEF BridgeSpec

\* An action is performed at most once, as long as the phone was handed no
\* more commands than its memory holds.
THEOREM PerformsAtMostOnce ==
    ASSUME HonestReports
    PROVE  BridgeSpec => [](MemorySuffices => PerformedAtMostOnce)
<1>1. BridgeInv => (MemorySuffices => PerformedAtMostOnce)
  <2>. SUFFICES ASSUME BridgeInv, MemorySuffices, NEW c \in Commands
                PROVE  Len(effects[c]) <= 1
    BY DEF PerformedAtMostOnce
  <2>1. CASE effects[c] = <<>>
    <3>1. effects[c] \in Seq(DeviceStatuses)
      BY DEF BridgeInv, PhoneConsistent, BridgeTypeOK
    <3>2. Len(effects[c]) = 0
      BY <2>1, <3>1, EmptySeq
    <3>. QED
      BY <3>2
  <2>2. CASE effects[c] # <<>>
    <3>1. PerformedOnce
      BY DEF BridgeInv
    <3>2. Len(effects[c]) = 1
      BY <2>2, <3>1 DEF PerformedOnce
    <3>. QED
      BY <3>2
  <2>. QED
    BY <2>1, <2>2
<1>. QED
  BY <1>1, BridgeInvariant, PTL

\* What the store records of an action is what the phone did.
THEOREM RecordsHonestly ==
    ASSUME HonestReports
    PROVE  BridgeSpec => [](MemorySuffices => RecordedHonestly)
<1>1. BridgeInv => (MemorySuffices => RecordedHonestly)
  BY DEF BridgeInv, SuccessIsTrue, FirstResult, RecordedHonestly, Stored
<1>. QED
  BY <1>1, BridgeInvariant, PTL

\* With no more commands than the memory holds, both hold without condition.
COROLLARY FewCommands ==
    ASSUME HonestReports, Cardinality(Commands) <= Capacity
    PROVE  BridgeSpec => []PerformedAtMostOnce /\ []RecordedHonestly
<1>1. MemorySuffices
  <2>1. /\ Cardinality({c \in Commands : dispatches[c] > 0}) <= Cardinality(Commands)
        /\ Cardinality({c \in Commands : dispatches[c] > 0}) \in Nat
        /\ Cardinality(Commands) \in Nat
    BY CommandsAssumption, FS_Subset, FS_CardinalityType
  <2>. QED
    BY <2>1, BridgeBoundsAssumption DEF MemorySuffices
<1>. QED
  BY <1>1, PerformsAtMostOnce, RecordsHonestly, PTL

\* The phone performs only what is leased to it, approved by the guard, and
\* bound to the observation it last uploaded, however many commands there are.
THEOREM PerformsOnlyApproved ==
    ASSUME HonestReports
    PROVE  BridgeSpec => PerformsApproved
<1>. DEFINE Approved == \A c \in Commands : effects'[c] # effects[c] =>
                          /\ request[c].observation_id = current
                          /\ current \notin Unsafe
                          /\ dispatches[c] > 0
<1>1. ASSUME BridgeInv, [BridgeNext]_allVars, NEW c \in Commands,
             effects'[c] # effects[c]
      PROVE  /\ request[c].observation_id = current
             /\ current \notin Unsafe
             /\ dispatches[c] > 0
  <2>. USE DEF BridgeInv
  <2>1. CommandArrives /\ c = held
    BY <1>1, BridgeStepKinds, ArrivalTouchesOne, ThrowTouchesOne DEF Quiet, Receive, memory
  <2>2. request[c].observation_id = current
    BY <1>1, <2>1, ArrivalTouchesOne
  <2>3. dispatches[c] > 0
    BY <1>1, <2>1 DEF UnleasedUnknown, Accounting, TypeOK
  <2>4. request[c].observation_id \notin Unsafe
    <3>1. lifecycle[c] # "NONE"
      BY <1>1, <2>3 DEF Accounting, Accounted
    <3>. QED
      BY <1>1, <3>1 DEF Accounting, Requested
  <2>. QED
    BY <2>2, <2>3, <2>4
<1>2. BridgeInv /\ [BridgeNext]_allVars => [Approved]_allVars
  BY <1>1
<1>. QED
  BY <1>2, BridgeInvariant, PTL DEF BridgeSpec, PerformsApproved
=============================================================================
