---------------------------- MODULE SessionStore ----------------------------
(***************************************************************************)
(* The device session store of the backend (transport/store.py) behind its *)
(* facade (transport/session.py) and its HTTP handlers (main.py).          *)
(*                                                                         *)
(* The handlers are synchronous functions that FastAPI runs on a thread    *)
(* pool; every method of the store holds one lock for its whole body (and  *)
(* the SQLite store runs the lease in one transaction), so a store call is *)
(* one action.  Queueing an action is TWO steps: the facade reads the      *)
(* latest observation and evaluates the guard (Check), and only then calls *)
(* the store (Enqueue); any other call may come in between.                *)
(*                                                                         *)
(* Time is abstracted to what the code compares with the clock: whether    *)
(* leased_until has passed, and whether last_seen is within the device     *)
(* timeout.                                                                *)
(***************************************************************************)
EXTENDS Naturals, FiniteSets

CONSTANTS
    Devices,            \* device_id values
    Commands,           \* command_id values; each one names one request
    ActionIds,          \* action_id values a client may send
    Observations,       \* observations a device may send, one per id
    Unsafe,             \* those whose text makes the SafetyGuard say STOP
    MaxQueue,           \* session_max_queue_size
    MaxRetries,         \* session_max_lease_retries
    ReportLifecycles,   \* values of the optional "lifecycle" of a report
    Durable             \* TRUE: SQLiteSessionStore, FALSE: InMemorySessionStore

CONSTANTS NoObservation, NoRequest     \* None

NoResult == "no-result"
Unset    == "unset"

ASSUME CommandsAssumption == /\ IsFiniteSet(Commands)
                             /\ Commands \cap {Unset, "CONFLICT", "FULL"} = {}
ASSUME BoundsAssumption == MaxQueue \in Nat \ {0} /\ MaxRetries \in Nat
ASSUME DurableAssumption == Durable \in BOOLEAN
ASSUME ObservationsAssumption == Unsafe \subseteq Observations
                              /\ NoObservation \notin Observations

(***************************************************************************)
(* action/models.py: ActionLifecycle, and the statuses that a device or    *)
(* the store puts into an ActionResult.  ACTION_REJECTED stands for every  *)
(* status that is neither success, stale nor safety.                       *)
(***************************************************************************)
InFlight == {"DISPATCHED", "EXECUTING"}
ActiveLifecycles == {"QUEUED"} \cup InFlight
Terminal == {"SUCCESS", "FAILED", "STALE", "SAFETY_BLOCKED"}
ActionLifecycle == ActiveLifecycles \cup Terminal

\* A command_id that is not in the store: not requested yet, checked but
\* not stored yet, refused, or wiped by a restart of the in-memory store.
NotStored == {"NONE", "CHECKED", "REFUSED", "LOST"}

DeviceStatuses == {"SUCCESS", "STALE_OBSERVATION", "SAFETY_BLOCKED",
                   "ACTION_REJECTED"}
Statuses == DeviceStatuses \cup {"RETRY_EXHAUSTED"}

ASSUME ReportsAssumption ==
    /\ Unset \in ReportLifecycles
    /\ ReportLifecycles \subseteq ActionLifecycle \cup {Unset}

Requests == [device : Devices, action_id : ActionIds,
             observation_id : Observations]

VARIABLES
    latest,         \* the stored observation of each device
    online,         \* devices whose last_seen is within the device timeout
    request,        \* what each command_id was created from
    lifecycle,      \* command.lifecycle
    created,        \* command.created_at
    clock,          \* orders the created_at values
    leasedUntil,    \* command.leased_until against now
    retryCount,     \* command.retry_count
    result,         \* status of the stored result
    answer,         \* what the client of each request was told
    dispatches      \* history: how often the command was leased

vars == <<latest, online, request, lifecycle, created, clock, leasedUntil,
          retryCount, result, answer, dispatches>>

Init ==
    /\ latest = [d \in Devices |-> NoObservation]
    /\ online = {}
    /\ request = [c \in Commands |-> NoRequest]
    /\ lifecycle = [c \in Commands |-> "NONE"]
    /\ created = [c \in Commands |-> 0]
    /\ clock = 0
    /\ leasedUntil = [c \in Commands |-> "NULL"]
    /\ retryCount = [c \in Commands |-> 0]
    /\ result = [c \in Commands |-> NoResult]
    /\ answer = [c \in Commands |-> Unset]
    /\ dispatches = [c \in Commands |-> 0]

-----------------------------------------------------------------------------
(* Sets of commands the store selects.                                     *)

Stored == {c \in Commands : lifecycle[c] \in ActionLifecycle}
OfDevice(d) == {c \in Stored : request[c].device = d}

\* _active_count counts these
Active(d) == {c \in OfDevice(d) : lifecycle[c] \in ActiveLifecycles}

\* Variant: the index forgets commands that left the queue.
Existing_QueuedOnly(c) == {e \in OfDevice(request[c].device) :
                    /\ request[e].action_id = request[c].action_id
                    /\ lifecycle[e] = "QUEUED"}

\* the entry of _action_index (the UNIQUE index of SQLite) for c's action_id
Existing(c) == {e \in OfDevice(request[c].device) :
                    request[e].action_id = request[c].action_id}

\* Variant: leases are reclaimed without looking at the clock.
Expired_AnyLease(d) == {c \in OfDevice(d) : lifecycle[c] \in InFlight
                                             /\ leasedUntil[c] # "NULL"}

\* what _reclaim_expired touches
Expired(d) == {c \in OfDevice(d) : lifecycle[c] \in InFlight
                                   /\ leasedUntil[c] = "PAST"}

\* Variant: no command ever runs out of retries.
Exhausted_Never(d) == {}

\* the part of these that ran out of retries
Exhausted(d) == {c \in Expired(d) : retryCount[c] + 1 > MaxRetries}

\* QUEUED commands once the expired leases are reclaimed
Candidates(d) == {c \in OfDevice(d) : lifecycle[c] = "QUEUED"}
                     \cup (Expired(d) \ Exhausted(d))

\* Variant: freshness is only checked when the action is queued.
Fresh_Unchecked(d) == Candidates(d)

\* those that could be leased: planned for the latest observation
Fresh(d) == {c \in Candidates(d) : request[c].observation_id = latest[d]}

-----------------------------------------------------------------------------
(* POST /observations                                                      *)

ReceiveObservation(d, o) ==
    /\ latest' = [latest EXCEPT ![d] = o]
    /\ online' = online \cup {d}
    /\ UNCHANGED <<request, lifecycle, created, clock, leasedUntil,
                   retryCount, result, answer, dispatches>>

\* what the guard says of the texts on the action's screen
SafetyStops(r) == r.observation_id \in Unsafe

(* POST /devices/{id}/actions, first half: the facade compares the action's *)
(* observation with the latest one, runs the guard and builds the command.  *)
(* A request that fails a check changes nothing.                            *)
Check(c, r) ==
    /\ lifecycle[c] = "NONE"
    /\ r.observation_id = latest[r.device]
    /\ ~SafetyStops(r)
    /\ request' = [request EXCEPT ![c] = r]
    /\ lifecycle' = [lifecycle EXCEPT ![c] = "CHECKED"]
    /\ created' = [created EXCEPT ![c] = clock]
    /\ clock' = clock + 1
    /\ UNCHANGED <<latest, online, leasedUntil, retryCount, result, answer,
                   dispatches>>

(* ... second half: the store call.  It looks at no observation.           *)
Refuse(c, told) ==
    /\ lifecycle' = [lifecycle EXCEPT ![c] = "REFUSED"]
    /\ answer' = [answer EXCEPT ![c] = told]

\* Variant: the limit is off by one.
Insert_OffByOne(c) ==
    /\ Existing(c) = {}
    /\ Cardinality(Active(request[c].device)) <= MaxQueue
    /\ lifecycle' = [lifecycle EXCEPT ![c] = "QUEUED"]
    /\ answer' = [answer EXCEPT ![c] = c]

Insert(c) ==
    /\ Existing(c) = {}
    /\ Cardinality(Active(request[c].device)) < MaxQueue
    /\ lifecycle' = [lifecycle EXCEPT ![c] = "QUEUED"]
    /\ answer' = [answer EXCEPT ![c] = c]

ReturnExisting(c) ==
    \E e \in Existing(c) : request[e] = request[c] /\ Refuse(c, e)

RefuseConflict(c) ==
    \E e \in Existing(c) : request[e] # request[c] /\ Refuse(c, "CONFLICT")

RefuseFull(c) ==
    /\ Existing(c) = {}
    /\ Cardinality(Active(request[c].device)) >= MaxQueue
    /\ Refuse(c, "FULL")

Enqueue(c) ==
    /\ lifecycle[c] = "CHECKED"
    /\ Insert(c) \/ ReturnExisting(c) \/ RefuseConflict(c) \/ RefuseFull(c)
    /\ UNCHANGED <<latest, online, request, created, clock, leasedUntil,
                   retryCount, result, dispatches>>

-----------------------------------------------------------------------------
(* GET /devices/{id}/actions/next: one lock section (one transaction) that *)
(* reclaims the expired leases, then walks the queue in created_at order,  *)
(* marking stale commands until it finds one it can lease.                 *)

\* Variant: giving up on a command stores no result.
Sweep_NoResult(d, leased, stale) ==
    /\ lifecycle' = [c \in Commands |->
          IF c \in leased THEN "DISPATCHED"
          ELSE IF c \in stale THEN "STALE"
          ELSE IF c \in Exhausted(d) THEN "FAILED"
          ELSE IF c \in Expired(d) THEN "QUEUED" ELSE lifecycle[c]]
    /\ leasedUntil' = [c \in Commands |->
          IF c \in leased THEN "FUTURE"
          ELSE IF c \in Expired(d) THEN "NULL" ELSE leasedUntil[c]]
    /\ retryCount' = [c \in Commands |->
          IF c \in Expired(d) THEN retryCount[c] + 1 ELSE retryCount[c]]
    /\ result' = [c \in Commands |->
          IF c \in stale THEN "STALE_OBSERVATION" ELSE result[c]]
    /\ dispatches' = [c \in Commands |->
          IF c \in leased THEN dispatches[c] + 1 ELSE dispatches[c]]
    /\ UNCHANGED <<latest, online, request, created, clock, answer>>

Sweep(d, leased, stale) ==
    /\ lifecycle' = [c \in Commands |->
          IF c \in leased THEN "DISPATCHED"
          ELSE IF c \in stale THEN "STALE"
          ELSE IF c \in Exhausted(d) THEN "FAILED"
          ELSE IF c \in Expired(d) THEN "QUEUED" ELSE lifecycle[c]]
    /\ leasedUntil' = [c \in Commands |->
          IF c \in leased THEN "FUTURE"
          ELSE IF c \in Expired(d) THEN "NULL" ELSE leasedUntil[c]]
    /\ retryCount' = [c \in Commands |->
          IF c \in Expired(d) THEN retryCount[c] + 1 ELSE retryCount[c]]
    /\ result' = [c \in Commands |->
          IF c \in stale THEN "STALE_OBSERVATION"
          ELSE IF c \in Exhausted(d) THEN "RETRY_EXHAUSTED" ELSE result[c]]
    /\ dispatches' = [c \in Commands |->
          IF c \in leased THEN dispatches[c] + 1 ELSE dispatches[c]]
    /\ UNCHANGED <<latest, online, request, created, clock, answer>>

LeaseCommand(d, c) ==
    /\ c \in Fresh(d)
    /\ \A e \in Fresh(d) : created[c] <= created[e]
    /\ Sweep(d, {c}, {e \in Candidates(d) : created[e] < created[c]})

\* Variant: a poll that leases nothing leaves the stale commands queued.
LeaseNothing_KeepsStale(d) ==
    /\ Fresh(d) = {}
    /\ Sweep(d, {}, {})

LeaseNothing(d) ==
    /\ Fresh(d) = {}
    /\ Sweep(d, {}, Candidates(d))

\* a device that is not connected gets nothing, and nothing is reclaimed
LeaseNext(d) ==
    /\ d \in online
    /\ LeaseNothing(d) \/ \E c \in Commands : LeaseCommand(d, c)

-----------------------------------------------------------------------------
(* POST /devices/{id}/action-results.  A device reports what it was handed *)
(* at some time, however late; a second report for the same command is     *)
(* accepted and ignored, one for an unknown command answers 409.           *)

LifecycleForResult(status) ==
    IF status = "SUCCESS" THEN "SUCCESS"
    ELSE IF status = "STALE_OBSERVATION" THEN "STALE"
    ELSE IF status = "SAFETY_BLOCKED" THEN "SAFETY_BLOCKED" ELSE "FAILED"

\* Variant: the status itself becomes the lifecycle.
RecordedLifecycle_Raw(status, reported) == status

RecordedLifecycle(status, reported) ==
    IF status = "SUCCESS" \/ reported = Unset
    THEN LifecycleForResult(status) ELSE reported

RecordResult(c, status, reported) ==
    /\ c \in Stored
    /\ dispatches[c] > 0
    /\ result[c] = NoResult
    /\ lifecycle' = [lifecycle EXCEPT ![c] = RecordedLifecycle(status, reported)]
    /\ leasedUntil' = [leasedUntil EXCEPT ![c] = "NULL"]
    /\ result' = [result EXCEPT ![c] = status]
    /\ UNCHANGED <<latest, online, request, created, clock, retryCount,
                   answer, dispatches>>

-----------------------------------------------------------------------------
(* The passing of time, and a restart of the backend process.              *)

LeaseExpires(c) ==
    /\ leasedUntil[c] = "FUTURE"
    /\ leasedUntil' = [leasedUntil EXCEPT ![c] = "PAST"]
    /\ UNCHANGED <<latest, online, request, lifecycle, created, clock,
                   retryCount, result, answer, dispatches>>

DeviceSilent(d) ==
    /\ d \in online
    /\ online' = online \ {d}
    /\ UNCHANGED <<latest, request, lifecycle, created, clock, leasedUntil,
                   retryCount, result, answer, dispatches>>

\* A request between its two halves dies with the process; SQLite keeps
\* everything that was committed, the in-memory store nothing.
Restart ==
    /\ lifecycle' = [c \in Commands |->
          IF lifecycle[c] = "CHECKED" THEN "REFUSED"
          ELSE IF ~Durable /\ c \in Stored THEN "LOST" ELSE lifecycle[c]]
    /\ IF Durable
       THEN UNCHANGED <<latest, online, leasedUntil, retryCount, result>>
       ELSE /\ latest' = [d \in Devices |-> NoObservation]
            /\ online' = {}
            /\ leasedUntil' = [c \in Commands |-> "NULL"]
            /\ retryCount' = [c \in Commands |-> 0]
            /\ result' = [c \in Commands |-> NoResult]
    /\ UNCHANGED <<request, created, clock, answer, dispatches>>

Next ==
    \/ \E d \in Devices, o \in Observations : ReceiveObservation(d, o)
    \/ \E c \in Commands, r \in Requests : Check(c, r)
    \/ \E c \in Commands : Enqueue(c)
    \/ \E d \in Devices : LeaseNext(d)
    \/ \E c \in Commands, s \in DeviceStatuses, l \in ReportLifecycles :
           RecordResult(c, s, l)
    \/ \E c \in Commands : LeaseExpires(c)
    \/ \E d \in Devices : DeviceSilent(d)
    \/ Restart

Spec == Init /\ [][Next]_vars

-----------------------------------------------------------------------------
(* Fairness.  A handler that passed its checks finishes, and time passes.  *)
(* A phone whose service runs polls every 500 ms, but a poll counts only   *)
(* while the phone is connected: if it is so again and again, one of its   *)
(* polls gets through (strong fairness).  Nothing makes a phone that fell  *)
(* silent upload again, answer, or show a new screen.                      *)

Fairness ==
    /\ \A c \in Commands : WF_vars(Enqueue(c)) /\ WF_vars(LeaseExpires(c))
    /\ \A d \in Devices : SF_vars(LeaseNext(d))

FairSpec == Spec /\ Fairness

-----------------------------------------------------------------------------
(* Properties.                                                             *)

\* Every variable has its type.
TypeOK ==
    /\ latest \in [Devices -> Observations \cup {NoObservation}]
    /\ online \in SUBSET Devices
    /\ request \in [Commands -> Requests \cup {NoRequest}]
    /\ lifecycle \in [Commands -> ActionLifecycle \cup NotStored]
    /\ created \in [Commands -> Nat]
    /\ clock \in Nat
    /\ leasedUntil \in [Commands -> {"NULL", "FUTURE", "PAST"}]
    /\ retryCount \in [Commands -> Nat]
    /\ result \in [Commands -> Statuses \cup {NoResult}]
    /\ answer \in [Commands -> Commands \cup {Unset, "CONFLICT", "FULL"}]
    /\ dispatches \in [Commands -> Nat]

(* GET /devices/{id}: the counters of the session snapshot.                *)
Pending(d) == {c \in OfDevice(d) : lifecycle[c] = "QUEUED"}
Leased(d) == {c \in OfDevice(d) : lifecycle[c] \in InFlight}
Completed(d) == {c \in OfDevice(d) : result[c] # NoResult}
Snapshot(d) == [pending |-> Cardinality(Pending(d)),
                leased |-> Cardinality(Leased(d)),
                completed |-> Cardinality(Completed(d))]

\* Backpressure: a device never has more than MaxQueue active commands,
\* however requests, lease expiries and polls interleave (an expired lease
\* puts a command back without asking whether there is room).
QueueBounded == \A d \in Devices : Cardinality(Active(d)) <= MaxQueue

\* The snapshot accounts for every command of the device exactly once: each
\* is pending, leased or completed, and never two of these.
SnapshotConsistent ==
    \A d \in Devices :
        /\ Snapshot(d).pending + Snapshot(d).leased + Snapshot(d).completed
             = Cardinality(OfDevice(d))
        /\ Pending(d) \cup Leased(d) \cup Completed(d) = OfDevice(d)

\* A stored command has a result exactly when its lifecycle is terminal, and
\* the two tell the same story (an expired lease reads FAILED, a command
\* dropped for its observation STALE).
ResultMatchesLifecycle ==
    \A c \in Stored :
        /\ result[c] = NoResult <=> lifecycle[c] \in ActiveLifecycles
        /\ result[c] # NoResult => lifecycle[c] = LifecycleForResult(result[c])

\* A command is dispatched exactly while it holds a lease, so a lease that
\* is never answered can always be reclaimed.
LeasedIffDispatched ==
    \A c \in Commands :
        leasedUntil[c] # "NULL" <=> lifecycle[c] \in InFlight

\* No command is handed out more often than the retry budget allows,
\* whatever the order of expiries, reports and restarts.
DispatchesBounded == \A c \in Commands : dispatches[c] <= MaxRetries + 1

\* The queue and the retry budget hold together: room for a command that an
\* expiry puts back is never given away, and no expiry earns a hand-out more.
WithinLimits == QueueBounded /\ DispatchesBounded

\* What the store keeps of a command in several columns, and counts in three
\* ways, tells one story: its lifecycle, its lease, its result, the snapshot.
RecordsAgree == SnapshotConsistent /\ ResultMatchesLifecycle /\ LeasedIffDispatched

\* Two accepted requests for one (device, action_id) were answered with the
\* same command, also when both passed the checks before either was stored.
OneCommandPerAction ==
    \A c, e \in Commands :
        /\ answer[c] \in Commands
        /\ answer[e] \in Commands
        /\ request[c].device = request[e].device
        /\ request[c].action_id = request[e].action_id
        => answer[c] = answer[e] /\ request[c] = request[e]

\* A command is handed out only to a connected device, only while the
\* observation it was planned for is still the latest and passed the guard,
\* only when no other lease of it is running, alone, and no command of the
\* device that could also go was requested earlier.
DispatchesOnlyCurrent ==
    [][\A c \in Commands : dispatches'[c] # dispatches[c] =>
          /\ request[c].device \in online
          /\ request[c].observation_id = latest[request[c].device]
          /\ latest[request[c].device] \notin Unsafe
          /\ leasedUntil[c] # "FUTURE"
          /\ \A e \in Commands \ {c} :
                /\ dispatches'[e] = dispatches[e]
                /\ (/\ lifecycle[e] = "QUEUED"
                    /\ request[e].device = request[c].device
                    /\ request[e].observation_id = request[c].observation_id)
                   => created[c] < created[e]]_vars

\* While a lease runs, nothing but the report of the device takes the
\* command away from it (the SQLite store also across a restart).
LeaseHonoured ==
    [][\A c \in Commands :
          lifecycle[c] = "DISPATCHED" /\ leasedUntil[c] = "FUTURE" =>
              \/ lifecycle'[c] = "DISPATCHED" /\ dispatches'[c] = dispatches[c]
              \/ result'[c] \in DeviceStatuses]_vars

\* A result is final: no late or repeated report, no expiry, no stale check
\* and no restart of the SQLite store replaces it or revives the command.
ResultsAreFinal ==
    [][\A c \in Commands : result[c] # NoResult =>
          result'[c] = result[c] /\ lifecycle'[c] = lifecycle[c]]_vars

\* Neither a running lease nor a result is taken back by a poll, an upload,
\* an expiry, a late report or a restart of the SQLite store.
NothingIsTakenBack == LeaseHonoured /\ ResultsAreFinal

\* Every command that a client was promised is settled in the end, behind others in
\* the queue, through expiries, stale marking and restarts and without any answer
\* of the device; unless the device falls silent for good: then nothing
\* settles it, and it keeps its place in the queue.
EverySettles ==
    \A c \in Commands, d \in Devices :
        lifecycle[c] \in ActiveLifecycles \cup {"CHECKED"} /\ request[c].device = d
            ~> lifecycle[c] \in Terminal \cup {"REFUSED"} \/ [](d \notin online)

\* A command that has a result is never handed out (again).
SettledNeverDispatched ==
    [][\A c \in Commands : dispatches'[c] # dispatches[c] => result[c] = NoResult]_vars

-----------------------------------------------------------------------------
(* The inductive invariant behind these properties, for devices that send  *)
(* no lifecycle of their own.                                              *)

HonestReports == ReportLifecycles = {Unset}

\* how a command's lease, retry count, result and history go together in
\* each lifecycle
Accounted ==
    \A c \in Commands :
        /\ lifecycle[c] # "EXECUTING"
        /\ leasedUntil[c] # "NULL" <=> lifecycle[c] = "DISPATCHED"
        /\ dispatches[c] <= MaxRetries + 1
        /\ lifecycle[c] \in {"NONE", "CHECKED", "REFUSED"} =>
               dispatches[c] = 0 /\ retryCount[c] = 0
        /\ lifecycle[c] = "QUEUED" =>
               dispatches[c] = retryCount[c] /\ retryCount[c] <= MaxRetries
        /\ lifecycle[c] = "DISPATCHED" =>
               dispatches[c] = retryCount[c] + 1 /\ retryCount[c] <= MaxRetries
        /\ result[c] # NoResult <=> lifecycle[c] \in Terminal
        /\ result[c] # NoResult => lifecycle[c] = LifecycleForResult(result[c])

\* what is known of a command from its request on
Requested ==
    \A c \in Commands :
        /\ lifecycle[c] = "NONE" => answer[c] = Unset
        /\ lifecycle[c] # "NONE" =>
               /\ request[c] \in Requests /\ created[c] < clock
               /\ request[c].observation_id \notin Unsafe
        /\ \A e \in Commands : /\ lifecycle[c] # "NONE" /\ lifecycle[e] # "NONE"
                               /\ created[c] = created[e]
                               => c = e

\* the action index
Indexed ==
    /\ \A c, e \in Stored :
          /\ request[c].device = request[e].device
          /\ request[c].action_id = request[e].action_id
          => c = e
    /\ \A c \in Commands : answer[c] \in Commands =>
          answer[c] \in Stored /\ request[answer[c]] = request[c]

Accounting == TypeOK /\ Accounted /\ Requested

-----------------------------------------------------------------------------
(* Refinement: seen from outside, the store is an ActionDelivery.          *)

StageOf(l) ==
    IF l = "QUEUED" THEN "waiting"
    ELSE IF l \in InFlight THEN "leased"
    ELSE IF l \in Terminal THEN "settled"
    ELSE IF l = "LOST" THEN "forgotten" ELSE "absent"

Delivery == INSTANCE ActionDelivery WITH
    MaxAttempts <- MaxRetries + 1,
    MayForget <- ~Durable,
    stage <- [c \in Commands |-> StageOf(lifecycle[c])],
    attempts <- dispatches,
    outcome <- result

\* The store implements the delivery contract: commands move only forwards
\* through waiting and leased to settled, with a bounded number of leases.
ImplementsDelivery == Delivery!DeliverySpec

=============================================================================
