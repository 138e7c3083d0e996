---------------------------- MODULE DeviceBridge ----------------------------
(***************************************************************************)
(* The Android client (DeviceBridgeClient.kt) talking HTTP to the session  *)
(* store of SessionStore.                                                  *)
(*                                                                         *)
(* Two threads of the phone take part.  The accessibility thread puts a    *)
(* new observation into a one-place slot and schedules a drain; a single   *)
(* executor thread runs the drain and the periodic poll, one HTTP call at  *)
(* a time, each call under withRetry.  A call can fail before the server   *)
(* saw it, after, or so that the server sees it only later (the request    *)
(* is then in "late").                                                     *)
(***************************************************************************)
EXTENDS SessionStore, Sequences, SequencesExt

CONSTANTS Phone,        \* the device_id of this client
          Retries,      \* maxRetries of ExponentialBackoffRetryPolicy
          Capacity,     \* MAX_PROCESSED_COMMAND_IDS
          NoCommand

ASSUME PhoneAssumption == Phone \in Devices
ASSUME BridgeBoundsAssumption == Retries \in Nat /\ Capacity \in Nat \ {0}
ASSUME NoCommandAssumption == NoCommand \notin Commands

VARIABLES
    slot,       \* latestObservation, emptied by the drain
    submitting, \* the accessibility thread is between set and compareAndSet
    scheduled,  \* uploadScheduled
    drainQueued,\* a drain waits in the executor's queue
    pc,         \* what the executor thread is doing
    task,       \* the task it is doing that for
    net,        \* its HTTP call: not handled yet, or how it was answered
    tries,      \* retryNumber of the withRetry around each kind of call
    uploading,  \* the observation being uploaded
    current,    \* currentObservationId
    processed,  \* processedCommandIds, oldest first
    held,       \* the command received and being reported
    status,     \* the status being reported for it
    late,       \* abandoned requests the server may still handle
    collected,  \* history: observations in the order of collection
    effects     \* history: outcomes of performing each command's action

handover == <<slot, submitting, scheduled, drainQueued, collected>>
call     == <<net, tries, uploading, held, status>>
memory   == <<current, processed, effects>>

phone == <<handover, pc, task, call, memory>>
allVars == <<vars, phone, late>>

Calls == {"upload", "poll", "report"}

BridgeInit ==
    /\ Init
    /\ slot = NoObservation /\ current = NoObservation
    /\ submitting = FALSE /\ scheduled = FALSE /\ drainQueued = FALSE
    /\ pc = "idle" /\ task = "none"
    /\ net = "none" /\ tries = [k \in Calls |-> 0]
    /\ uploading = NoObservation /\ held = NoCommand /\ status = Unset
    /\ processed = <<>>
    /\ late = {}
    /\ collected = <<>>
    /\ effects = [c \in Commands |-> <<>>]

-----------------------------------------------------------------------------
(* The accessibility thread: submitObservationAsync, in two steps.         *)

\* an id holds the time of its collection, so it never recurs
Collect(o) ==
    /\ ~submitting
    /\ ~Contains(collected, o)
    /\ slot' = o
    /\ submitting' = TRUE
    /\ collected' = Append(collected, o)
    /\ UNCHANGED <<vars, scheduled, drainQueued, pc, task, call, memory, late>>

\* executor.execute, unless the compareAndSet finds the flag set
QueueDrainUnlessScheduled ==
    scheduled' = TRUE /\ drainQueued' = (drainQueued \/ ~scheduled)

ScheduleUploadDrain ==
    /\ submitting
    /\ submitting' = FALSE
    /\ QueueDrainUnlessScheduled
    /\ UNCHANGED <<vars, slot, collected, pc, task, call, memory, late>>

-----------------------------------------------------------------------------
(* The executor thread: tasks.                                             *)

\* a new call starts, inside the retry loop of an outer one if there is one
Call(k) == pc' = k /\ net' = "out" /\ tries' = [tries EXCEPT ![k] = 0]

\* the locals of the calls under way go out of scope
NoCall ==
    /\ net' = "none" /\ tries' = [k \in Calls |-> 0]
    /\ uploading' = NoObservation /\ held' = NoCommand /\ status' = Unset

\* the end of a poll or of a failed upload: back to the drain loop or to the
\* executor's queue
Finish ==
    /\ pc' = (IF task = "drain" THEN "take" ELSE "idle")
    /\ task' = (IF task = "drain" THEN "drain" ELSE "none")
    /\ NoCall

StartDrain ==
    /\ pc = "idle" /\ drainQueued
    /\ drainQueued' = FALSE
    /\ pc' = "take" /\ task' = "drain"
    /\ UNCHANGED <<vars, slot, submitting, scheduled, collected, call, memory, late>>

TakeObservation ==
    /\ pc = "take" /\ slot # NoObservation
    /\ uploading' = slot /\ slot' = NoObservation
    /\ Call("upload")
    /\ UNCHANGED <<vars, submitting, scheduled, drainQueued, collected, task,
                   held, status, memory, late>>

\* the drain loop is left, then its finally clause runs
NothingToTake ==
    /\ pc = "take" /\ slot = NoObservation
    /\ pc' = "release"
    /\ UNCHANGED <<vars, handover, task, call, memory, late>>

\* Variants: the flag stays set after the drain; the slot is not looked at
\* again once the flag is released.
Release_Skipped ==
    /\ pc = "release"
    /\ pc' = "recheck"
    /\ UNCHANGED <<vars, handover, task, call, memory, late>>

Recheck_Skipped ==
    /\ pc = "recheck"
    /\ pc' = "idle" /\ task' = "none"
    /\ UNCHANGED <<vars, handover, call, memory, late>>

Release ==
    /\ pc = "release"
    /\ scheduled' = FALSE
    /\ pc' = "recheck"
    /\ UNCHANGED <<vars, slot, submitting, drainQueued, collected, task, call,
                   memory, late>>

Recheck ==
    /\ pc = "recheck"
    /\ pc' = "idle" /\ task' = "none"
    /\ IF slot # NoObservation THEN QueueDrainUnlessScheduled
       ELSE UNCHANGED <<scheduled, drainQueued>>
    /\ UNCHANGED <<vars, slot, submitting, collected, call, memory, late>>

\* the periodic poll; it returns at once while nothing was uploaded
StartPoll ==
    /\ pc = "idle" /\ current # NoObservation
    /\ task' = "poll"
    /\ Call("poll")
    /\ UNCHANGED <<vars, handover, uploading, held, status, memory, late>>

-----------------------------------------------------------------------------
(* The server's side of a call.                                            *)

HandleUpload(o) == ReceiveObservation(Phone, o)

\* what the server does with a poll, and the command in its answer
HandlePoll(c) ==
    IF c = NoCommand
    THEN \/ Phone \in online /\ LeaseNothing(Phone)
         \/ Phone \notin online /\ UNCHANGED vars
    ELSE Phone \in online /\ LeaseCommand(Phone, c)

\* a repeated report is accepted and changes nothing; so does one for a
\* command the store does not know, which is refused
HandleReport(c, s) ==
    \/ RecordResult(c, s, Unset)
    \/ c \in Stored /\ result[c] # NoResult /\ UNCHANGED vars

RefuseReport(c) == c \notin Stored /\ UNCHANGED vars

ServerHandles ==
    /\ net = "out"
    /\ \/ pc = "upload" /\ HandleUpload(uploading) /\ net' = "ok"
          /\ UNCHANGED held
       \/ pc = "poll" /\ net' = "ok" /\ \E c \in Commands \cup {NoCommand} :
              HandlePoll(c) /\ held' = c
       \/ pc = "report" /\ HandleReport(held, status) /\ net' = "ok"
          /\ UNCHANGED held
       \/ pc = "report" /\ RefuseReport(held) /\ net' = "conflict"
          /\ UNCHANGED held
    /\ UNCHANGED <<handover, pc, task, tries, uploading, status, memory, late>>

\* an abandoned request that reaches the server after all
ServerHandlesLate(m) ==
    /\ m \in late
    /\ late' = late \ {m}
    /\ \/ m.call = "upload" /\ HandleUpload(m.observation)
       \/ m.call = "poll" /\ \E c \in Commands \cup {NoCommand} : HandlePoll(c)
       \/ m.call = "report" /\ HandleReport(m.command, m.status)
       \/ m.call = "report" /\ RefuseReport(m.command)
    /\ UNCHANGED phone

Request ==
    CASE pc = "upload" -> [call |-> "upload", observation |-> uploading]
      [] pc = "poll"   -> [call |-> "poll"]
      [] pc = "report" -> [call |-> "report", command |-> held,
                           status |-> status]

\* a call that is given up on the way may still arrive
AbandonCall ==
    \/ late' = late
    \/ net = "out" /\ late' = late \cup {Request}

-----------------------------------------------------------------------------
(* The executor thread: answers.                                           *)

UploadAnswered ==
    /\ pc = "upload" /\ net = "ok"
    /\ current' = uploading /\ uploading' = NoObservation
    /\ Call("poll")
    /\ UNCHANGED <<vars, handover, task, held, status, processed, effects, late>>

\* HTTP 204
PollAnsweredEmpty ==
    /\ pc = "poll" /\ net = "ok" /\ held = NoCommand
    /\ Finish
    /\ UNCHANGED <<vars, handover, memory, late>>

\* isDuplicateCommand: remember the id, forget the oldest beyond Capacity
Remember(c) ==
    processed' = IF Len(processed) = Capacity
                 THEN Append(Tail(processed), c) ELSE Append(processed, c)

\* Variant: ids are never recognised.
Known_Never(c) == FALSE

Known(c) == Contains(processed, c)

\* executeCommand: a refusal, or the platform call and its outcome.  The
\* blocked terms of the phone and a STOP action refuse as SAFETY_BLOCKED.
RefuseHeld ==
    /\ status' = IF request[held].observation_id # current
                 THEN "STALE_OBSERVATION" ELSE "SAFETY_BLOCKED"
    /\ UNCHANGED effects

\* Variants: the observation is not compared; success is reported regardless.
PerformHeld_AnyScreen ==
    \E s \in {"SUCCESS", "ACTION_REJECTED"} :
        /\ status' = s
        /\ effects' = [effects EXCEPT ![held] = Append(@, s)]

PerformHeld_ReportsSuccess ==
    /\ request[held].observation_id = current
    /\ \E s \in {"SUCCESS", "ACTION_REJECTED"} :
          /\ status' = "SUCCESS"
          /\ effects' = [effects EXCEPT ![held] = Append(@, s)]

PerformHeld ==
    /\ request[held].observation_id = current
    /\ \E s \in {"SUCCESS", "ACTION_REJECTED"} :
          /\ status' = s
          /\ effects' = [effects EXCEPT ![held] = Append(@, s)]

CommandArrives ==
    /\ pc = "poll" /\ net = "ok" /\ held # NoCommand
    /\ IF Known(held)
       THEN status' = "ACTION_REJECTED" /\ UNCHANGED <<processed, effects>>
       ELSE Remember(held) /\ (RefuseHeld \/ PerformHeld)
    /\ Call("report")
    /\ UNCHANGED <<vars, handover, task, uploading, held, current, late>>

ReportAnswered ==
    /\ pc = "report" /\ net = "ok"
    /\ Finish
    /\ UNCHANGED <<vars, handover, memory, late>>

\* Variant: one attempt too many.
CanRetry_OffByOne(k) == tries[k] <= Retries

\* withRetry: one more attempt of call k if any is left
CanRetry(k) == tries[k] < Retries

Retry(k) ==
    /\ pc' = k /\ net' = "out"
    /\ tries' = [tries EXCEPT ![k] = @ + 1]
    /\ IF k = "report" THEN UNCHANGED <<held, status>>
       ELSE held' = NoCommand /\ status' = Unset
    /\ UNCHANGED <<task, uploading>>

\* No answer, or an error status.  A report that used up its attempts fails
\* the poll around it, which polls again if it has attempts left; an upload
\* or a poll that did is logged and given up.
CallFails ==
    /\ net # "none"
    /\ \/ CanRetry(pc) /\ Retry(pc)
       \/ ~CanRetry(pc) /\ pc = "report" /\ CanRetry("poll") /\ Retry("poll")
       \/ ~CanRetry(pc) /\ ~(pc = "report" /\ CanRetry("poll")) /\ Finish
    /\ AbandonCall
    /\ UNCHANGED <<vars, handover, memory>>

\* executeCommand throws (rootInActiveWindow, an interrupted WAIT): the id is
\* remembered, nothing is reported, and the poll around it fails.
ExecutionThrows ==
    /\ pc = "poll" /\ net = "ok" /\ held # NoCommand
    /\ ~Known(held) /\ request[held].observation_id = current
    /\ Remember(held)
    /\ IF CanRetry("poll") THEN Retry("poll") ELSE Finish
    /\ UNCHANGED <<vars, handover, current, effects, late>>

\* The service is killed and started again: the client's memory is gone.
PhoneRestarts ==
    /\ slot' = NoObservation /\ current' = NoObservation
    /\ submitting' = FALSE /\ scheduled' = FALSE /\ drainQueued' = FALSE
    /\ pc' = "idle" /\ task' = "none" /\ NoCall
    /\ processed' = <<>>
    /\ AbandonCall
    /\ UNCHANGED <<vars, collected, effects>>

-----------------------------------------------------------------------------

ExecutorStep ==
    \/ TakeObservation \/ NothingToTake \/ Release \/ Recheck
    \/ UploadAnswered \/ PollAnsweredEmpty \/ CommandArrives \/ ReportAnswered
    \/ CallFails \/ ExecutionThrows

\* the clients that plan actions, and the time that passes at the server
StoreStep ==
    /\ \/ \E c \in Commands, r \in Requests : r.device = Phone /\ Check(c, r)
       \/ \E c \in Commands : Enqueue(c) \/ LeaseExpires(c)
       \/ DeviceSilent(Phone)
       \/ Restart
    /\ UNCHANGED <<phone, late>>

BridgeNext ==
    \/ \E o \in Observations : Collect(o)
    \/ ScheduleUploadDrain
    \/ StartDrain
    \/ StartPoll
    \/ ExecutorStep
    \/ ServerHandles
    \/ \E m \in late : ServerHandlesLate(m)
    \/ PhoneRestarts
    \/ StoreStep

BridgeSpec == BridgeInit /\ [][BridgeNext]_allVars

\* The two threads of the phone keep running, every call ends (it has a
\* timeout), and the executor serves its queue in order, so a queued drain
\* is not overtaken by polls for ever.
BridgeFairness ==
    /\ WF_allVars(ScheduleUploadDrain)
    /\ WF_allVars(ExecutorStep)
    /\ SF_allVars(StartDrain)

BridgeFairSpec == BridgeSpec /\ BridgeFairness

-----------------------------------------------------------------------------
(* Properties.                                                             *)

\* Every variable of the phone has its type.
BridgeTypeOK ==
    /\ TypeOK
    /\ {slot, uploading, current} \subseteq Observations \cup {NoObservation}
    /\ {submitting, scheduled, drainQueued} \subseteq BOOLEAN
    /\ pc \in {"idle", "take", "release", "recheck"} \cup Calls
    /\ task \in {"none", "drain", "poll"}
    /\ net \in {"none", "out", "ok", "conflict"}
    /\ tries \in [Calls -> 0..Retries]
    /\ processed \in BoundedSeq(Commands, Capacity)
    /\ held \in Commands \cup {NoCommand}
    /\ status \in DeviceStatuses \cup {Unset}
    /\ collected \in Seq(Observations)
    /\ effects \in [Commands -> Seq(DeviceStatuses)]

\* An action is performed at most once, whatever is lost, repeated, late or
\* restarted between the phone and the store.
PerformedAtMostOnce == \A c \in Commands : Len(effects[c]) <= 1

\* The phone acts only on the observation it last uploaded, which passed the
\* guard of the backend, and only on a command leased to it.
PerformsApproved ==
    [][\A c \in Commands : effects'[c] # effects[c] =>
          /\ request[c].observation_id = current
          /\ current \notin Unsafe
          /\ dispatches[c] > 0]_allVars

\* What the store records is what happened: SUCCESS only for an action that
\* was performed successfully; and an action that was performed is recorded
\* differently from its outcome only if a lease of it had run out before.
RecordedHonestly ==
    \A c \in Stored :
        /\ result[c] = "SUCCESS" => effects[c] = <<"SUCCESS">>
        /\ (effects[c] # <<>> /\ result[c] # NoResult /\ retryCount[c] = 0)
               => <<result[c]>> = effects[c]

\* No lost wake-up: an observation in the slot is about to be drained, or
\* the thread that would see to it is still on its way.
SlotIsServed ==
    slot # NoObservation =>
        \/ submitting
        \/ drainQueued
        \/ task = "drain"

\* Never two drains at once, running or queued.
OneDrain ==
    /\ drainQueued => scheduled
    /\ drainQueued => task # "drain" \/ pc = "recheck"

\* The two threads of the phone hand observations over without losing a
\* wake-up and without starting a second drain.
DrainHandedOver == SlotIsServed /\ OneDrain

\* A collected observation does not stay in the slot for ever.
SlotIsEmptied == slot # NoObservation ~> slot = NoObservation

\* The phone performs an action only while the observation it is bound to is
\* the latest the device has (DeviceBridgeClient.kt:151: "command
\* observation does not match the latest device observation").
PerformsOnLatest ==
    [][\A c \in Commands : effects'[c] # effects[c] =>
          request[c].observation_id = Last(collected)]_allVars

-----------------------------------------------------------------------------
(* The inductive invariant behind these properties.                        *)

Messages == [call : {"upload"}, observation : Observations]
            \cup [call : {"poll"}]
            \cup [call : {"report"}, command : Commands, status : DeviceStatuses]

\* what the locals of a call hold while it is under way
CallsConsistent ==
    /\ late \subseteq Messages
    /\ pc \in Calls <=> net # "none"
    /\ net = "conflict" => pc = "report"
    /\ uploading # NoObservation <=> pc = "upload"
    /\ held # NoCommand => pc = "report" \/ (pc = "poll" /\ net = "ok")
    /\ pc = "report" => held # NoCommand /\ status # Unset

\* the task fits the call, and uploadScheduled is set exactly while a drain
\* is queued or has not released it yet
TasksConsistent ==
    /\ task = "none" <=> pc = "idle"
    /\ pc \in {"take", "release", "recheck", "upload"} => task = "drain"
    /\ scheduled <=> drainQueued \/ (task = "drain" /\ pc # "recheck")
    /\ drainQueued => task # "drain" \/ pc = "recheck"

PhoneConsistent == BridgeTypeOK /\ CallsConsistent /\ TasksConsistent

\* the observations on the phone are collected ones, each in one place
ObservationsPassOn ==
    /\ \A o \in {slot, uploading, current} \ {NoObservation} : Contains(collected, o)
    /\ slot # NoObservation => slot \notin {uploading, current}
    /\ uploading # NoObservation => uploading # current

\* a report that the server may still handle
UnderWay(c, s) ==
    \/ pc = "report" /\ held = c /\ status = s
    \/ [call |-> "report", command |-> c, status |-> s] \in late

\* nothing is known on the phone of a command that was never leased
UnleasedUnknown ==
    \A c \in Commands : dispatches[c] = 0 =>
        /\ held # c /\ effects[c] = <<>> /\ ~Known(c)
        /\ \A s \in DeviceStatuses : ~UnderWay(c, s)

\* a command just received by its first lease is untouched
FirstLease ==
    \A c \in Commands : pc = "poll" /\ held = c /\ dispatches[c] <= 1 =>
        /\ effects[c] = <<>> /\ ~Known(c)
        /\ \A s \in DeviceStatuses : ~UnderWay(c, s)
        /\ c \in Stored /\ retryCount[c] = 0 => result[c] = NoResult

\* while a command was leased once, its reports tell what happened
FirstReport ==
    \A c \in Commands, s \in DeviceStatuses :
        UnderWay(c, s) /\ dispatches[c] <= 1 /\ effects[c] # <<>>
            => effects[c] = <<s>>

\* every lease after the first was paid for with a retry
LeasesCounted == \A c \in Stored : dispatches[c] <= retryCount[c] + 1

FirstResult ==
    \A c \in Stored :
        effects[c] # <<>> /\ result[c] # NoResult /\ retryCount[c] = 0
            => effects[c] = <<result[c]>>

\* the ids in the memory differ
RememberedOnce ==
    \A i, j \in 1..Len(processed) : processed[i] = processed[j] => i = j

\* the memory of the phone has room for every command it was ever handed
MemorySuffices == Cardinality({c \in Commands : dispatches[c] > 0}) <= Capacity

\* an observation on which an action was performed is behind the phone, or
\* the phone remembers the action
PerformedOnce ==
    \A c \in Commands : effects[c] # <<>> =>
        /\ Len(effects[c]) = 1
        /\ Contains(collected, request[c].observation_id)
        /\ request[c].observation_id \notin {slot, uploading}
        /\ request[c].observation_id = current => Known(c)

SuccessIsTrue ==
    \A c \in Commands :
        /\ UnderWay(c, "SUCCESS") => effects[c] = <<"SUCCESS">>
        /\ c \in Stored /\ result[c] = "SUCCESS" => effects[c] = <<"SUCCESS">>

BridgeInv ==
    /\ PhoneConsistent /\ Accounting
    /\ ObservationsPassOn /\ RememberedOnce
    /\ UnleasedUnknown /\ FirstLease /\ FirstReport /\ LeasesCounted /\ FirstResult
    /\ MemorySuffices => PerformedOnce /\ SuccessIsTrue
=============================================================================
