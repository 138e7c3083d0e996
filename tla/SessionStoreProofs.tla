------------------------- MODULE SessionStoreProofs -------------------------
(* Theorems about SessionStore, for every value of its constants.          *)
EXTENDS SessionStore, FiniteSetTheorems, TLAPS

USE CommandsAssumption, BoundsAssumption, DurableAssumption,
    ObservationsAssumption, ReportsAssumption

\* Whatever a sweep leases and drops, it leaves every variable in its type.
LEMMA SweepTypeOK ==
    ASSUME TypeOK, NEW d \in Devices, NEW leased \in SUBSET Commands,
           NEW stale \in SUBSET Commands, Sweep(d, leased, stale)
    PROVE  TypeOK'
<1>1. lifecycle' \in [Commands -> ActionLifecycle \cup NotStored]
  BY DEF Sweep, TypeOK, ActionLifecycle, ActiveLifecycles, InFlight, Terminal
<1>2. leasedUntil' \in [Commands -> {"NULL", "FUTURE", "PAST"}]
  BY DEF Sweep, TypeOK
<1>3. /\ retryCount' \in [Commands -> Nat]
      /\ dispatches' \in [Commands -> Nat]
  BY DEF Sweep, TypeOK
<1>4. result' \in [Commands -> Statuses \cup {NoResult}]
  BY DEF Sweep, TypeOK, Statuses, DeviceStatuses
<1>. QED
  BY <1>1, <1>2, <1>3, <1>4 DEF Sweep, TypeOK

\* A poll keeps types, whichever command it leases or drops.
LEMMA LeaseNextTypeOK ==
    ASSUME TypeOK, NEW d \in Devices, LeaseNext(d)
    PROVE  TypeOK'
<1>1. Candidates(d) \in SUBSET Commands
  BY DEF Candidates, OfDevice, Expired, Stored
<1>2. CASE LeaseNothing(d)
  BY <1>1, <1>2, SweepTypeOK DEF LeaseNothing
<1>3. ASSUME NEW c \in Commands, LeaseCommand(d, c) PROVE TypeOK'
  BY <1>1, <1>3, SweepTypeOK DEF LeaseCommand
<1>. QED
  BY <1>2, <1>3 DEF LeaseNext

\* Every step of the store keeps the types.
LEMMA NextTypeOK ==
    ASSUME TypeOK, [Next]_vars
    PROVE  TypeOK'
<1>. USE DEF TypeOK
<1>1. ASSUME NEW d \in Devices, NEW o \in Observations, ReceiveObservation(d, o)
      PROVE  TypeOK'
  BY <1>1 DEF ReceiveObservation
<1>2. ASSUME NEW c \in Commands, NEW r \in Requests, Check(c, r)
      PROVE  TypeOK'
  BY <1>2 DEF Check, SafetyStops, NotStored
<1>3. ASSUME NEW c \in Commands, Enqueue(c)
      PROVE  TypeOK'
  <2>1. lifecycle' \in [Commands -> ActionLifecycle \cup NotStored]
    BY <1>3 DEF Enqueue, Insert, ReturnExisting, RefuseConflict, RefuseFull,
                Refuse, NotStored, ActionLifecycle, ActiveLifecycles
  <2>2. answer' \in [Commands -> Commands \cup {Unset, "CONFLICT", "FULL"}]
    BY <1>3 DEF Enqueue, Insert, ReturnExisting, RefuseConflict, RefuseFull,
                Refuse, Existing, OfDevice, Stored
  <2>. QED
    BY <1>3, <2>1, <2>2 DEF Enqueue
<1>4. ASSUME NEW d \in Devices, LeaseNext(d)
      PROVE  TypeOK'
  BY <1>4, LeaseNextTypeOK
<1>5. ASSUME NEW c \in Commands, NEW s \in DeviceStatuses,
             NEW l \in ReportLifecycles, RecordResult(c, s, l)
      PROVE  TypeOK'
  <2>1. RecordedLifecycle(s, l) \in ActionLifecycle
    BY DEF RecordedLifecycle, LifecycleForResult, ActionLifecycle, Terminal
  <2>. QED
    BY <1>5, <2>1 DEF RecordResult, Statuses
<1>6. ASSUME NEW c \in Commands, LeaseExpires(c)
      PROVE  TypeOK'
  BY <1>6 DEF LeaseExpires
<1>7. ASSUME NEW d \in Devices, DeviceSilent(d)
      PROVE  TypeOK'
  BY <1>7 DEF DeviceSilent
<1>8. CASE Restart
  BY <1>8 DEF Restart, NotStored
<1>9. CASE UNCHANGED vars
  BY <1>9 DEF vars
<1>. QED
  BY <1>1, <1>2, <1>3, <1>4, <1>5, <1>6, <1>7, <1>8, <1>9 DEF Next

\* Type correctness, for any devices, commands, bounds and reports.
THEOREM TypeCorrect == Spec => []TypeOK
<1>1. Init => TypeOK
  BY DEF Init, TypeOK, NotStored
<1>2. TypeOK /\ [Next]_vars => TypeOK'
  BY NextTypeOK
<1>. QED
  BY <1>1, <1>2, PTL DEF Spec

-----------------------------------------------------------------------------
(* The accounting of leases, retries and results.                          *)

\* What one sweep leases and drops: fresh commands and stale ones, both from
\* the candidates, and nothing in both sets.
LEMMA SweepSets ==
    ASSUME TypeOK, NEW d \in Devices, LeaseNext(d)
    PROVE  \E leased, stale \in SUBSET Candidates(d) :
              /\ leased \cap stale = {}
              /\ leased \subseteq Fresh(d)
              /\ \A x, y \in leased : x = y
              /\ Sweep(d, leased, stale)
<1>1. CASE LeaseNothing(d)
  <2>. WITNESS {} \in SUBSET Candidates(d), Candidates(d) \in SUBSET Candidates(d)
  <2>. QED
    BY <1>1 DEF LeaseNothing
<1>2. ASSUME NEW c \in Commands, LeaseCommand(d, c)
      PROVE  \E leased, stale \in SUBSET Candidates(d) :
                /\ leased \cap stale = {}
                /\ leased \subseteq Fresh(d)
                /\ \A x, y \in leased : x = y
                /\ Sweep(d, leased, stale)
  <2>. DEFINE older == {e \in Candidates(d) : created[e] < created[c]}
  <2>1. c \in Fresh(d) /\ c \in Candidates(d)
    BY <1>2 DEF LeaseCommand, Fresh
  <2>2. c \notin older
    BY <1>2 DEF TypeOK
  <2>3. Sweep(d, {c}, older)
    BY <1>2 DEF LeaseCommand
  <2>. HIDE DEF older
  <2>4. older \in SUBSET Candidates(d)
    BY DEF older
  <2>5. {c} \in SUBSET Candidates(d) /\ {c} \subseteq Fresh(d) /\ {c} \cap older = {}
    BY <2>1, <2>2
  <2>. QED
    BY <2>3, <2>4, <2>5
<1>. QED
  BY <1>1, <1>2 DEF LeaseNext

\* A sweep keeps the accounting, command by command: a command is leased,
\* dropped, given up, requeued or left alone.
LEMMA SweepAccounted ==
    ASSUME Accounting, NEW d \in Devices,
           NEW leased \in SUBSET Candidates(d),
           NEW stale \in SUBSET Candidates(d),
           leased \cap stale = {}, Sweep(d, leased, stale)
    PROVE  Accounted'
<1>. USE DEF Accounting
<1>. SUFFICES ASSUME NEW c \in Commands
     PROVE  /\ lifecycle'[c] # "EXECUTING"
            /\ leasedUntil'[c] # "NULL" <=> lifecycle'[c] = "DISPATCHED"
            /\ dispatches'[c] <= MaxRetries + 1
            /\ lifecycle'[c] \in {"NONE", "CHECKED", "REFUSED"} =>
                   dispatches'[c] = 0 /\ retryCount'[c] = 0
            /\ lifecycle'[c] = "QUEUED" =>
                   dispatches'[c] = retryCount'[c] /\ retryCount'[c] <= MaxRetries
            /\ lifecycle'[c] = "DISPATCHED" =>
                   dispatches'[c] = retryCount'[c] + 1 /\ retryCount'[c] <= MaxRetries
            /\ result'[c] # NoResult <=> lifecycle'[c] \in Terminal
            /\ result'[c] # NoResult => lifecycle'[c] = LifecycleForResult(result'[c])
  BY DEF Accounted
<1>1. /\ retryCount[c] \in Nat /\ dispatches[c] \in Nat
      /\ leasedUntil[c] \in {"NULL", "FUTURE", "PAST"}
  BY DEF TypeOK
<1>2. /\ c \in leased => lifecycle'[c] = "DISPATCHED"
      /\ c \in stale => lifecycle'[c] = "STALE"
      /\ c \in Exhausted(d) => lifecycle'[c] = "FAILED"
      /\ c \in Expired(d) \ (leased \cup stale \cup Exhausted(d)) => lifecycle'[c] = "QUEUED"
      /\ c \notin Expired(d) \cup leased \cup stale => lifecycle'[c] = lifecycle[c]
  BY DEF Sweep, Candidates, Exhausted, Expired, OfDevice, Stored, InFlight
<1>3. /\ c \in leased => leasedUntil'[c] = "FUTURE"
      /\ c \in Expired(d) \ leased => leasedUntil'[c] = "NULL"
      /\ c \notin Expired(d) \cup leased => leasedUntil'[c] = leasedUntil[c]
      /\ c \in Expired(d) => retryCount'[c] = retryCount[c] + 1
      /\ c \notin Expired(d) => retryCount'[c] = retryCount[c]
  BY DEF Sweep
<1>4. /\ c \in leased => dispatches'[c] = dispatches[c] + 1
      /\ c \notin leased => dispatches'[c] = dispatches[c]
      /\ c \in stale => result'[c] = "STALE_OBSERVATION"
      /\ c \in Exhausted(d) => result'[c] = "RETRY_EXHAUSTED"
      /\ c \notin stale \cup Exhausted(d) => result'[c] = result[c]
  BY DEF Sweep, Candidates, Exhausted, Expired, OfDevice, Stored, InFlight
<1>5. c \in Expired(d) =>
        /\ lifecycle[c] = "DISPATCHED" /\ result[c] = NoResult
        /\ dispatches[c] = retryCount[c] + 1 /\ retryCount[c] <= MaxRetries
  BY DEF Expired, OfDevice, InFlight, Accounted, Terminal
<1>6. c \in Candidates(d) \ Expired(d) =>
        /\ lifecycle[c] = "QUEUED" /\ result[c] = NoResult
        /\ dispatches[c] = retryCount[c] /\ retryCount[c] <= MaxRetries
        /\ leasedUntil[c] = "NULL"
  BY DEF Candidates, OfDevice, Accounted, Terminal
<1>7. c \in Expired(d) \ Exhausted(d) => retryCount[c] + 1 <= MaxRetries
  BY <1>1 DEF Exhausted
<1>8. CASE c \in leased
  <2>1. lifecycle'[c] = "DISPATCHED" /\ leasedUntil'[c] = "FUTURE"
    BY <1>2, <1>3, <1>8
  <2>2. result'[c] = NoResult
    <3>1. c \notin stale /\ c \notin Exhausted(d)
      BY <1>8 DEF Candidates, Exhausted, Expired, InFlight
    <3>2. result[c] = NoResult
      BY <1>5, <1>6, <1>8
    <3>. QED
      BY <1>4, <3>1, <3>2
  <2>3. dispatches'[c] = retryCount'[c] + 1 /\ retryCount'[c] <= MaxRetries
    BY <1>1, <1>3, <1>4, <1>5, <1>6, <1>7, <1>8 DEF Candidates
  <2>4. dispatches'[c] <= MaxRetries + 1
    BY <1>1, <1>3, <2>3
  <2>. QED
    BY <2>1, <2>2, <2>3, <2>4 DEF Terminal
<1>9. CASE c \in stale
  <2>1. lifecycle'[c] = "STALE" /\ result'[c] = "STALE_OBSERVATION"
    BY <1>2, <1>4, <1>9
  <2>2. leasedUntil'[c] = "NULL"
    BY <1>3, <1>6, <1>9
  <2>3. dispatches'[c] <= MaxRetries + 1
    BY <1>4, <1>9 DEF Accounted
  <2>. QED
    BY <2>1, <2>2, <2>3 DEF Terminal, LifecycleForResult, NoResult
<1>10. CASE c \in Exhausted(d)
  <2>1. c \notin leased /\ c \notin stale
    BY <1>10 DEF Candidates, Exhausted, Expired, InFlight
  <2>2. lifecycle'[c] = "FAILED" /\ result'[c] = "RETRY_EXHAUSTED"
    BY <1>2, <1>4, <1>10
  <2>3. leasedUntil'[c] = "NULL" /\ dispatches'[c] <= MaxRetries + 1
    BY <1>3, <1>4, <1>10, <2>1 DEF Accounted, Exhausted
  <2>. QED
    BY <2>2, <2>3 DEF Terminal, LifecycleForResult, NoResult
<1>11. CASE c \in Expired(d) \ (leased \cup stale \cup Exhausted(d))
  <2>1. lifecycle'[c] = "QUEUED" /\ leasedUntil'[c] = "NULL" /\ result'[c] = NoResult
    BY <1>2, <1>3, <1>4, <1>5, <1>11
  <2>2. dispatches'[c] = retryCount'[c] /\ retryCount'[c] <= MaxRetries
    BY <1>1, <1>3, <1>4, <1>5, <1>7, <1>11
  <2>3. dispatches'[c] <= MaxRetries + 1
    BY <1>1, <1>4, <1>11 DEF Accounted
  <2>. QED
    BY <2>1, <2>2, <2>3 DEF Terminal
<1>12. CASE c \notin Expired(d) \cup leased \cup stale
  <2>1. /\ lifecycle'[c] = lifecycle[c] /\ leasedUntil'[c] = leasedUntil[c]
        /\ retryCount'[c] = retryCount[c] /\ dispatches'[c] = dispatches[c]
    BY <1>2, <1>3, <1>4, <1>12
  <2>2. result'[c] = result[c]
    BY <1>4, <1>12 DEF Exhausted
  <2>. QED
    BY <2>1, <2>2 DEF Accounted
<1>. QED
  BY <1>8, <1>9, <1>10, <1>11, <1>12

\* A sweep makes no command known or unknown, and none active that was not.
LEMMA SweepRequested ==
    ASSUME Accounting, NEW d \in Devices,
           NEW leased \in SUBSET Candidates(d),
           NEW stale \in SUBSET Candidates(d),
           Sweep(d, leased, stale)
    PROVE  Requested'
<1>1. \A c \in Commands :
        /\ lifecycle'[c] = "NONE" <=> lifecycle[c] = "NONE"
        /\ lifecycle'[c] \in {"CHECKED"} \cup ActiveLifecycles =>
               lifecycle[c] \in {"CHECKED"} \cup ActiveLifecycles
  BY DEF Sweep, Candidates, Exhausted, Expired, OfDevice, Stored, InFlight,
         ActiveLifecycles, ActionLifecycle, Terminal
<1>2. UNCHANGED <<request, created, clock, answer>>
  BY DEF Sweep
<1>. QED
  BY <1>1, <1>2 DEF Accounting, Requested

\* The unlocked half of a request touches no stored command.
LEMMA CheckAccounting ==
    ASSUME Accounting, NEW c \in Commands, NEW r \in Requests, Check(c, r)
    PROVE  Accounted' /\ Requested'
<1>. USE DEF Accounting
<1>1. Accounted'
  BY DEF Check, SafetyStops, TypeOK, Accounted, Terminal
<1>2. Requested'
  <2>1. \A e \in Commands : e # c =>
          /\ lifecycle'[e] = lifecycle[e] /\ request'[e] = request[e]
          /\ created'[e] = created[e] /\ answer'[e] = answer[e]
    BY DEF Check, SafetyStops, TypeOK
  <2>2. /\ lifecycle'[c] = "CHECKED" /\ request'[c] = r /\ created'[c] = clock
        /\ clock' = clock + 1
    BY DEF Check, SafetyStops, TypeOK
  <2>3. r.observation_id \notin Unsafe
    BY DEF Check, SafetyStops
  <2>4. clock \in Nat /\ \A e \in Commands : created[e] \in Nat
    BY DEF TypeOK
  <2>. QED
    BY <2>1, <2>2, <2>3, <2>4 DEF Requested
<1>. QED
  BY <1>1, <1>2

\* A request that is inserted, answered or refused keeps the accounts.
LEMMA EnqueueAccounting ==
    ASSUME Accounting, NEW c \in Commands, Enqueue(c)
    PROVE  Accounted' /\ Requested'
<1>. USE DEF Accounting
<1>1. /\ lifecycle[c] = "CHECKED"
      /\ lifecycle' \in {[lifecycle EXCEPT ![c] = "QUEUED"],
                        [lifecycle EXCEPT ![c] = "REFUSED"]}
  BY DEF Enqueue, Insert, ReturnExisting, RefuseConflict, RefuseFull, Refuse
<1>2. \A e \in Commands : e # c => answer'[e] = answer[e]
  BY DEF Enqueue, Insert, ReturnExisting, RefuseConflict, RefuseFull, Refuse, TypeOK
<1>3. UNCHANGED <<request, created, clock, leasedUntil, retryCount, result, dispatches>>
  BY DEF Enqueue
<1>4. Accounted'
  BY <1>1, <1>3 DEF TypeOK, Accounted, Terminal
<1>5. Requested'
  BY <1>1, <1>2, <1>3 DEF TypeOK, Requested, ActiveLifecycles
<1>. QED
  BY <1>4, <1>5

\* A report whose lifecycle follows from its status keeps the accounts.
LEMMA RecordResultAccounting ==
    ASSUME HonestReports, Accounting, NEW c \in Commands,
           NEW s \in DeviceStatuses, NEW l \in ReportLifecycles,
           RecordResult(c, s, l)
    PROVE  Accounted' /\ Requested'
<1>. USE DEF Accounting
<1>1. lifecycle' = [lifecycle EXCEPT ![c] = LifecycleForResult(s)]
  BY DEF RecordResult, RecordedLifecycle, HonestReports
<1>2. LifecycleForResult(s) \in Terminal /\ s # NoResult
  BY DEF LifecycleForResult, Terminal, DeviceStatuses, NoResult
<1>3. lifecycle[c] \in ActiveLifecycles
  BY DEF RecordResult, Stored, Accounted, ActionLifecycle
<1>4. /\ result' = [result EXCEPT ![c] = s]
      /\ leasedUntil' = [leasedUntil EXCEPT ![c] = "NULL"]
      /\ UNCHANGED <<request, created, clock, retryCount, answer, dispatches>>
  BY DEF RecordResult
<1>. HIDE DEF LifecycleForResult, DeviceStatuses
<1>5. Accounted'
  BY <1>1, <1>2, <1>4 DEF TypeOK, Accounted, Terminal
<1>6. Requested'
  BY <1>1, <1>2, <1>3, <1>4 DEF TypeOK, Requested, Terminal, ActiveLifecycles, InFlight
<1>. QED
  BY <1>5, <1>6

\* A restart keeps what the store kept, or loses all of it at once.
LEMMA RestartAccounting ==
    ASSUME Accounting, Restart
    PROVE  Accounted' /\ Requested'
<1>. USE DEF Accounting
<1>1. CASE Durable
  BY <1>1 DEF Restart, TypeOK, Accounted, Requested, Terminal, ActiveLifecycles
<1>2. CASE ~Durable
  BY <1>2 DEF Restart, TypeOK, Accounted, Requested, Terminal, ActiveLifecycles,
              Stored, ActionLifecycle, InFlight, NotStored
<1>. QED
  BY <1>1, <1>2 DEF DurableAssumption

\* The accounting is inductive, whatever devices, bounds and kind of store.
THEOREM AccountingInvariant ==
    ASSUME HonestReports
    PROVE  Spec => []Accounting
<1>1. Init => Accounting
  BY DEF Init, Accounting, TypeOK, Accounted, Requested, NotStored, Terminal,
         ActiveLifecycles, InFlight
<1>2. Accounting /\ TypeOK' /\ [Next]_vars => Accounting'
  <2>. SUFFICES ASSUME Accounting, TypeOK', [Next]_vars
                PROVE  Accounted' /\ Requested'
    BY DEF Accounting
  <2>1. ASSUME NEW d \in Devices, NEW o \in Observations, ReceiveObservation(d, o)
        PROVE  Accounted' /\ Requested'
    BY <2>1 DEF ReceiveObservation, Accounting, Accounted, Requested
  <2>2. ASSUME NEW c \in Commands, NEW r \in Requests, Check(c, r)
        PROVE  Accounted' /\ Requested'
    BY <2>2, CheckAccounting
  <2>3. ASSUME NEW c \in Commands, Enqueue(c)
        PROVE  Accounted' /\ Requested'
    BY <2>3, EnqueueAccounting
  <2>4. ASSUME NEW d \in Devices, LeaseNext(d)
        PROVE  Accounted' /\ Requested'
    BY <2>4, SweepSets, SweepAccounted, SweepRequested DEF Accounting
  <2>5. ASSUME NEW c \in Commands, NEW s \in DeviceStatuses,
               NEW l \in ReportLifecycles, RecordResult(c, s, l)
        PROVE  Accounted' /\ Requested'
    BY <2>5, RecordResultAccounting
  <2>6. ASSUME NEW c \in Commands, LeaseExpires(c)
        PROVE  Accounted' /\ Requested'
    BY <2>6 DEF LeaseExpires, Accounting, TypeOK, Accounted, Requested
  <2>7. ASSUME NEW d \in Devices, DeviceSilent(d)
        PROVE  Accounted' /\ Requested'
    BY <2>7 DEF DeviceSilent, Accounting, Accounted, Requested
  <2>8. CASE Restart
    BY <2>8, RestartAccounting
  <2>9. CASE UNCHANGED vars
    BY <2>9 DEF vars, Accounting, Accounted, Requested
  <2>. QED
    BY <2>1, <2>2, <2>3, <2>4, <2>5, <2>6, <2>7, <2>8, <2>9 DEF Next
<1>. QED
  BY <1>1, <1>2, TypeCorrect, PTL DEF Spec

\* Results and lifecycles agree (ResultMatchesLifecycle), a lease is held
\* exactly while a command is dispatched (LeasedIffDispatched), and no command
\* is handed out more than MaxRetries + 1 times (DispatchesBounded).
THEOREM ResultsMatch ==
    ASSUME HonestReports
    PROVE  Spec => []ResultMatchesLifecycle
<1>1. Accounting => ResultMatchesLifecycle
  BY DEF Accounting, TypeOK, Accounted, ResultMatchesLifecycle, Stored,
         ActionLifecycle, ActiveLifecycles, InFlight, Terminal
<1>. QED
  BY <1>1, AccountingInvariant, PTL

\* No lease without a dispatched command, no dispatched command without one.
THEOREM LeasesMatch ==
    ASSUME HonestReports
    PROVE  Spec => []LeasedIffDispatched
<1>1. Accounting => LeasedIffDispatched
  BY DEF Accounting, Accounted, LeasedIffDispatched, InFlight
<1>. QED
  BY <1>1, AccountingInvariant, PTL

\* The retry budget bounds how often a command is handed to a device.
THEOREM DispatchesAreBounded ==
    ASSUME HonestReports
    PROVE  Spec => []DispatchesBounded
<1>1. Accounting => DispatchesBounded
  BY DEF Accounting, Accounted, DispatchesBounded
<1>. QED
  BY <1>1, AccountingInvariant, PTL

\* The snapshot counts every command of a device once.
LEMMA SnapshotAddsUp ==
    ASSUME Accounting
    PROVE  SnapshotConsistent
<1>. SUFFICES ASSUME NEW d \in Devices
              PROVE  /\ Cardinality(Pending(d)) + Cardinality(Leased(d))
                          + Cardinality(Completed(d)) = Cardinality(OfDevice(d))
                     /\ Pending(d) \cup Leased(d) \cup Completed(d) = OfDevice(d)
  BY DEF SnapshotConsistent, Snapshot
<1>1. /\ Pending(d) \cup Leased(d) \cup Completed(d) = OfDevice(d)
      /\ Pending(d) \cap Leased(d) = {}
      /\ (Pending(d) \cup Leased(d)) \cap Completed(d) = {}
      /\ OfDevice(d) \subseteq Commands
  BY DEF Pending, Leased, Completed, OfDevice, Stored, Accounting, Accounted, TypeOK,
         ActionLifecycle, ActiveLifecycles, InFlight, Terminal
<1>2. /\ IsFiniteSet(Pending(d)) /\ IsFiniteSet(Leased(d))
      /\ IsFiniteSet(Completed(d)) /\ IsFiniteSet(Pending(d) \cup Leased(d))
  BY <1>1, CommandsAssumption, FS_Subset
<1>3. Cardinality(Pending(d) \cup Leased(d))
        = Cardinality(Pending(d)) + Cardinality(Leased(d)) - Cardinality(Pending(d) \cap Leased(d))
  BY <1>2, FS_Union
<1>4. Cardinality(OfDevice(d))
        = Cardinality(Pending(d) \cup Leased(d)) + Cardinality(Completed(d))
          - Cardinality((Pending(d) \cup Leased(d)) \cap Completed(d))
  BY <1>1, <1>2, FS_Union
<1>5. /\ Cardinality(Pending(d)) \in Nat /\ Cardinality(Leased(d)) \in Nat
      /\ Cardinality(Completed(d)) \in Nat
  BY <1>2, FS_CardinalityType
<1>6. /\ Cardinality(Pending(d) \cap Leased(d)) = 0
      /\ Cardinality((Pending(d) \cup Leased(d)) \cap Completed(d)) = 0
  BY <1>1, FS_EmptySet, Zenon
<1>7. Cardinality(Pending(d)) + Cardinality(Leased(d)) + Cardinality(Completed(d))
        = Cardinality(OfDevice(d))
  BY <1>3, <1>4, <1>5, <1>6
<1>. QED
  BY <1>1, <1>7

\* Lifecycle, lease, result and snapshot tell one story.
THEOREM RecordsAgreeAlways ==
    ASSUME HonestReports
    PROVE  Spec => []RecordsAgree
<1>1. Accounting => SnapshotConsistent
  BY SnapshotAddsUp
<1>. QED
  BY <1>1, ResultsMatch, LeasesMatch, AccountingInvariant, PTL DEF RecordsAgree

-----------------------------------------------------------------------------
(* What a step may never do.                                               *)

\* A sweep leases only current commands.
LEMMA LeaseNextDispatches ==
    ASSUME Accounting, NEW d \in Devices, LeaseNext(d),
           NEW c \in Commands, dispatches'[c] # dispatches[c]
    PROVE  /\ c \in Fresh(d) /\ d \in online
           /\ \A e \in Fresh(d) : created[c] <= created[e]
           /\ \A e \in Commands \ {c} : dispatches'[e] = dispatches[e]
<1>1. ~LeaseNothing(d)
  BY DEF LeaseNothing, Sweep
<1>2. PICK e \in Commands : LeaseCommand(d, e)
  BY <1>1 DEF LeaseNext
<1>3. dispatches' = [x \in Commands |->
                        IF x \in {e} THEN dispatches[x] + 1 ELSE dispatches[x]]
  BY <1>2 DEF LeaseCommand, Sweep
<1>4. e = c
  BY <1>3
<1>. QED
  BY <1>2, <1>3, <1>4 DEF LeaseCommand, LeaseNext

\* No other action counts a dispatch.
LEMMA OthersDispatchNothing ==
    ASSUME [Next]_vars, ~\E d \in Devices : LeaseNext(d)
    PROVE  dispatches' = dispatches
BY DEF Next, vars, ReceiveObservation, Check, SafetyStops, Enqueue, RecordResult, LeaseExpires,
       DeviceSilent, Restart

\* Only fresh, approved commands of connected devices are handed out, one at
\* a time, oldest first, and none whose lease is running.
THEOREM DispatchesAreCurrent ==
    ASSUME HonestReports
    PROVE  Spec => DispatchesOnlyCurrent
<1>. DEFINE Current(c) ==
        /\ request[c].device \in online
        /\ request[c].observation_id = latest[request[c].device]
        /\ latest[request[c].device] \notin Unsafe
        /\ leasedUntil[c] # "FUTURE"
        /\ \A e \in Commands \ {c} :
              /\ dispatches'[e] = dispatches[e]
              /\ (/\ lifecycle[e] = "QUEUED"
                  /\ request[e].device = request[c].device
                  /\ request[e].observation_id = request[c].observation_id)
                 => created[c] < created[e]
<1>1. ASSUME Accounting, [Next]_vars, NEW c \in Commands,
             dispatches'[c] # dispatches[c]
      PROVE  Current(c)
  <2>1. PICK d \in Devices : LeaseNext(d)
    BY <1>1, OthersDispatchNothing
  <2>2. /\ c \in Fresh(d) /\ d \in online
        /\ \A e \in Fresh(d) : created[c] <= created[e]
        /\ \A e \in Commands \ {c} : dispatches'[e] = dispatches[e]
    BY <1>1, <2>1, LeaseNextDispatches
  <2>3. request[c].device = d /\ request[c].observation_id = latest[d]
    BY <2>2 DEF Fresh, Candidates, Expired, OfDevice
  <2>4. lifecycle[c] \in ActiveLifecycles /\ lifecycle[c] # "NONE"
    BY <2>2 DEF Fresh, Candidates, Expired, OfDevice, ActiveLifecycles, InFlight
  <2>5. request[c].observation_id \notin Unsafe
    BY <1>1, <2>4 DEF Accounting, Requested
  <2>6. leasedUntil[c] # "FUTURE"
    BY <1>1, <2>2 DEF Accounting, Accounted, Fresh, Candidates, Expired, OfDevice
  <2>7. ASSUME NEW e \in Commands \ {c}, lifecycle[e] = "QUEUED",
               request[e].device = request[c].device,
               request[e].observation_id = request[c].observation_id
        PROVE  created[c] < created[e]
    <3>1. e \in Fresh(d)
      BY <2>3, <2>7 DEF Fresh, Candidates, OfDevice, Stored, ActionLifecycle,
                        ActiveLifecycles
    <3>2. created[c] <= created[e]
      BY <2>2, <3>1
    <3>3. created[c] # created[e]
      BY <1>1, <2>4, <2>7 DEF Accounting, Requested
    <3>4. created[c] \in Nat /\ created[e] \in Nat
      BY <1>1 DEF Accounting, TypeOK
    <3>. QED
      BY <3>2, <3>3, <3>4
  <2>. QED
    BY <2>2, <2>3, <2>5, <2>6, <2>7
<1>2. Accounting /\ [Next]_vars =>
        [\A c \in Commands : dispatches'[c] # dispatches[c] => Current(c)]_vars
  BY <1>1
<1>. QED
  BY <1>2, AccountingInvariant, PTL DEF Spec, DispatchesOnlyCurrent

\* A command with a result keeps both result and lifecycle, in the SQLite
\* store through restarts too.
THEOREM ResultsStayFinal ==
    ASSUME HonestReports, Durable
    PROVE  Spec => ResultsAreFinal
<1>1. ASSUME Accounting, [Next]_vars, NEW c \in Commands, result[c] # NoResult
      PROVE  result'[c] = result[c] /\ lifecycle'[c] = lifecycle[c]
  <2>1. lifecycle[c] \in Terminal
    BY <1>1 DEF Accounting, Accounted
  <2>2. ASSUME NEW d \in Devices, LeaseNext(d)
        PROVE  result'[c] = result[c] /\ lifecycle'[c] = lifecycle[c]
    <3>1. c \notin Candidates(d) /\ c \notin Expired(d) /\ c \notin Exhausted(d)
      BY <2>1 DEF Candidates, Expired, Exhausted, OfDevice, Terminal, InFlight
    <3>2. PICK leased, stale \in SUBSET Candidates(d) : Sweep(d, leased, stale)
      BY <1>1, <2>2, SweepSets DEF Accounting
    <3>. QED
      BY <3>1, <3>2 DEF Sweep
  <2>3. ASSUME NEW e \in Commands, NEW r \in Requests, Check(e, r)
        PROVE  result'[c] = result[c] /\ lifecycle'[c] = lifecycle[c]
    BY <1>1, <2>1, <2>3 DEF Check, SafetyStops, Terminal, Accounting, TypeOK
  <2>4. ASSUME NEW e \in Commands, Enqueue(e)
        PROVE  result'[c] = result[c] /\ lifecycle'[c] = lifecycle[c]
    BY <1>1, <2>1, <2>4 DEF Enqueue, Insert, ReturnExisting, RefuseConflict,
       RefuseFull, Refuse, Terminal, Accounting, TypeOK
  <2>5. ASSUME NEW e \in Commands, NEW s \in DeviceStatuses,
               NEW l \in ReportLifecycles, RecordResult(e, s, l)
        PROVE  result'[c] = result[c] /\ lifecycle'[c] = lifecycle[c]
    BY <1>1, <2>5 DEF RecordResult, Accounting, TypeOK
  <2>6. CASE Restart
    BY <1>1, <2>1, <2>6 DEF Restart, Terminal
  <2>. QED
    BY <1>1, <2>2, <2>3, <2>4, <2>5, <2>6
    DEF Next, vars, ReceiveObservation, LeaseExpires, DeviceSilent
<1>2. Accounting /\ [Next]_vars =>
        [\A c \in Commands : result[c] # NoResult =>
            result'[c] = result[c] /\ lifecycle'[c] = lifecycle[c]]_vars
  BY <1>1
<1>. QED
  BY <1>2, AccountingInvariant, PTL DEF Spec, ResultsAreFinal

\* While a lease runs, only the device's report takes the command away.
THEOREM LeasesAreHonoured ==
    ASSUME HonestReports, Durable
    PROVE  Spec => LeaseHonoured
<1>. DEFINE Kept(c) == \/ lifecycle'[c] = "DISPATCHED" /\ dispatches'[c] = dispatches[c]
                       \/ result'[c] \in DeviceStatuses
<1>1. ASSUME Accounting, [Next]_vars, NEW c \in Commands,
             lifecycle[c] = "DISPATCHED", leasedUntil[c] = "FUTURE"
      PROVE  Kept(c)
  <2>1. ASSUME NEW d \in Devices, LeaseNext(d)
        PROVE  Kept(c)
    <3>1. c \notin Candidates(d) /\ c \notin Expired(d) /\ c \notin Exhausted(d)
      BY <1>1 DEF Candidates, Expired, Exhausted
    <3>2. PICK leased, stale \in SUBSET Candidates(d) : Sweep(d, leased, stale)
      BY <1>1, <2>1, SweepSets DEF Accounting
    <3>. QED
      BY <1>1, <3>1, <3>2 DEF Sweep
  <2>2. ASSUME NEW e \in Commands, NEW r \in Requests, Check(e, r)
        PROVE  Kept(c)
    BY <1>1, <2>2 DEF Check, SafetyStops, Accounting, TypeOK
  <2>3. ASSUME NEW e \in Commands, Enqueue(e)
        PROVE  Kept(c)
    BY <1>1, <2>3 DEF Enqueue, Insert, ReturnExisting, RefuseConflict,
       RefuseFull, Refuse, Accounting, TypeOK
  <2>4. ASSUME NEW e \in Commands, NEW s \in DeviceStatuses,
               NEW l \in ReportLifecycles, RecordResult(e, s, l)
        PROVE  Kept(c)
    BY <1>1, <2>4 DEF RecordResult, Accounting, TypeOK
  <2>5. CASE Restart
    BY <1>1, <2>5 DEF Restart
  <2>. QED
    BY <1>1, <2>1, <2>2, <2>3, <2>4, <2>5
    DEF Next, vars, ReceiveObservation, LeaseExpires, DeviceSilent
<1>2. Accounting /\ [Next]_vars =>
        [\A c \in Commands :
            lifecycle[c] = "DISPATCHED" /\ leasedUntil[c] = "FUTURE" => Kept(c)]_vars
  BY <1>1
<1>. QED
  BY <1>2, AccountingInvariant, PTL DEF Spec, LeaseHonoured

\* Neither a running lease nor a result is taken back.
THEOREM NothingTakenBack ==
    ASSUME HonestReports, Durable
    PROVE  Spec => NothingIsTakenBack
<1>. QED
  BY LeasesAreHonoured, ResultsStayFinal DEF NothingIsTakenBack

-----------------------------------------------------------------------------
(* Backpressure.                                                           *)

\* The active commands of a device are finitely many, so they can be counted.
LEMMA ActiveIsFinite ==
    ASSUME NEW d \in Devices
    PROVE  IsFiniteSet(Active(d))
<1>1. Active(d) \subseteq Commands
  BY DEF Active, OfDevice, Stored
<1>. QED
  BY <1>1, FS_Subset

\* Only storing a command adds to the active ones; a sweep moves commands
\* among the active lifecycles or out of them.
LEMMA ActiveChanges ==
    ASSUME HonestReports, Accounting, [Next]_vars, NEW d \in Devices
    PROVE  \/ Active(d)' \subseteq Active(d)
           \/ /\ Cardinality(Active(d)) < MaxQueue
              /\ \E c \in Commands : Active(d)' \subseteq Active(d) \cup {c}
<1>. USE DEF Active, OfDevice, Stored
<1>1. ASSUME NEW e \in Devices, LeaseNext(e)
      PROVE  Active(d)' \subseteq Active(d)
  <2>1. PICK leased, stale \in SUBSET Candidates(e) : Sweep(e, leased, stale)
    BY <1>1, SweepSets DEF Accounting
  <2>2. \A c \in Commands : lifecycle'[c] \in ActiveLifecycles =>
                               lifecycle[c] \in ActiveLifecycles
    BY <2>1 DEF Sweep, Candidates, Exhausted, Expired, ActiveLifecycles, InFlight
  <2>3. request' = request
    BY <2>1 DEF Sweep
  <2>. QED
    BY <2>2, <2>3 DEF ActionLifecycle
<1>2. ASSUME NEW c \in Commands, NEW r \in Requests, Check(c, r)
      PROVE  Active(d)' \subseteq Active(d)
  BY <1>2 DEF Check, SafetyStops, Accounting, TypeOK, ActiveLifecycles, InFlight
<1>3. ASSUME NEW c \in Commands, Enqueue(c), ~Insert(c)
      PROVE  Active(d)' \subseteq Active(d)
  BY <1>3 DEF Enqueue, ReturnExisting, RefuseConflict, RefuseFull, Refuse,
              Accounting, TypeOK, ActiveLifecycles, InFlight
<1>4. ASSUME NEW c \in Commands, Enqueue(c), Insert(c)
      PROVE  \/ Active(d)' \subseteq Active(d)
             \/ /\ Cardinality(Active(d)) < MaxQueue
                /\ \E e \in Commands : Active(d)' \subseteq Active(d) \cup {e}
  <2>1. /\ lifecycle' = [lifecycle EXCEPT ![c] = "QUEUED"]
        /\ request' = request
    BY <1>4 DEF Enqueue, Insert
  <2>2. Active(d)' \subseteq Active(d) \cup {c}
    BY <2>1 DEF Accounting, TypeOK, ActionLifecycle
  <2>3. CASE request[c].device = d
    BY <1>4, <2>2, <2>3 DEF Insert
  <2>4. CASE request[c].device # d
    BY <2>1, <2>2, <2>4
  <2>. QED
    BY <2>3, <2>4
<1>5. ASSUME NEW c \in Commands, NEW s \in DeviceStatuses,
             NEW l \in ReportLifecycles, RecordResult(c, s, l)
      PROVE  Active(d)' \subseteq Active(d)
  <2>1. RecordedLifecycle(s, l) \in Terminal
    BY DEF HonestReports, RecordedLifecycle, LifecycleForResult, Terminal
  <2>. QED
    BY <1>5, <2>1 DEF RecordResult, Accounting, TypeOK, Terminal,
                      ActiveLifecycles, InFlight
<1>6. CASE Restart
  BY <1>6 DEF Restart, ActiveLifecycles, InFlight
<1>. QED
  BY <1>1, <1>2, <1>3, <1>4, <1>5, <1>6
  DEF Next, vars, ReceiveObservation, LeaseExpires, DeviceSilent

\* A device never has more than MaxQueue active commands.
THEOREM QueuesAreBounded ==
    ASSUME HonestReports
    PROVE  Spec => []QueueBounded
<1>1. Init => QueueBounded
  <2>. SUFFICES ASSUME Init, NEW d \in Devices
                PROVE  Cardinality(Active(d)) <= MaxQueue
    BY DEF QueueBounded
  <2>1. Active(d) = {}
    BY DEF Init, Active, OfDevice, Stored, ActionLifecycle, ActiveLifecycles,
           InFlight, Terminal
  <2>. QED
    BY <2>1, FS_EmptySet
<1>2. Accounting /\ QueueBounded /\ [Next]_vars => QueueBounded'
  <2>. SUFFICES ASSUME Accounting, QueueBounded, [Next]_vars, NEW d \in Devices
                PROVE  Cardinality(Active(d)') <= MaxQueue
    BY DEF QueueBounded
  <2>1. IsFiniteSet(Active(d)) /\ Cardinality(Active(d)) \in Nat
    BY ActiveIsFinite, FS_CardinalityType
  <2>2. CASE Active(d)' \subseteq Active(d)
    <3>1. Cardinality(Active(d)') <= Cardinality(Active(d)) /\ Cardinality(Active(d)') \in Nat
      BY <2>1, <2>2, FS_Subset, FS_CardinalityType
    <3>. QED
      BY <2>1, <3>1 DEF QueueBounded
  <2>3. ASSUME Cardinality(Active(d)) < MaxQueue, NEW c \in Commands,
               Active(d)' \subseteq Active(d) \cup {c}
        PROVE  Cardinality(Active(d)') <= MaxQueue
    <3>1. /\ IsFiniteSet(Active(d) \cup {c})
          /\ Cardinality(Active(d) \cup {c}) <= Cardinality(Active(d)) + 1
          /\ Cardinality(Active(d) \cup {c}) \in Nat
      <4>1. IsFiniteSet(Active(d) \cup {c})
        BY <2>1, FS_AddElement
      <4>2. Cardinality(Active(d) \cup {c}) \in
              {Cardinality(Active(d)), Cardinality(Active(d)) + 1}
        BY <2>1, FS_AddElement
      <4>. QED
        BY <2>1, <4>1, <4>2
    <3>2. /\ Cardinality(Active(d)') <= Cardinality(Active(d) \cup {c})
          /\ Cardinality(Active(d)') \in Nat
      BY <2>3, <3>1, FS_Subset, FS_CardinalityType
    <3>. QED
      BY <2>1, <2>3, <3>1, <3>2
  <2>. QED
    BY <2>2, <2>3, ActiveChanges
<1>. QED
  BY <1>1, <1>2, AccountingInvariant, PTL DEF Spec

\* The queue and the retry budget hold together.
THEOREM LimitsHold ==
    ASSUME HonestReports
    PROVE  Spec => []WithinLimits
<1>. QED
  BY QueuesAreBounded, DispatchesAreBounded, PTL DEF WithinLimits

-----------------------------------------------------------------------------
(* The action index.                                                       *)

\* An insert finds its action id free and takes it.
LEMMA InsertIndexed ==
    ASSUME Accounting, Indexed, NEW c \in Commands, Enqueue(c), Insert(c)
    PROVE  Indexed'
<1>1. /\ lifecycle[c] = "CHECKED" /\ c \notin Stored /\ request' = request
      /\ Existing(c) = {}
  BY DEF Enqueue, Insert, Stored, ActionLifecycle, ActiveLifecycles, InFlight, Terminal
<1>2. Stored' = Stored \cup {c}
  BY DEF Insert, Stored, Accounting, TypeOK, ActionLifecycle, ActiveLifecycles
<1>3. \A e \in Stored : ~(/\ request[e].device = request[c].device
                         /\ request[e].action_id = request[c].action_id)
  BY <1>1 DEF Existing, OfDevice
<1>4. answer' = [answer EXCEPT ![c] = c] /\ c \in Commands
  BY DEF Insert
<1>5. \A e \in Commands : answer'[e] \in Commands =>
        answer'[e] \in Stored' /\ request'[answer'[e]] = request'[e]
  <2>. TAKE e \in Commands
  <2>1. CASE e = c
    BY <1>1, <1>2, <1>4, <2>1 DEF Accounting, TypeOK
  <2>2. CASE e # c
    BY <1>1, <1>2, <1>4, <2>2 DEF Accounting, TypeOK, Indexed
  <2>. QED
    BY <2>1, <2>2
<1>6. \A e, f \in Stored' :
        /\ request'[e].device = request'[f].device
        /\ request'[e].action_id = request'[f].action_id
        => e = f
  BY <1>1, <1>2, <1>3 DEF Indexed
<1>. QED
  BY <1>5, <1>6 DEF Indexed

\* A request that inserts nothing is answered with what the index holds.
LEMMA RefuseIndexed ==
    ASSUME Accounting, Indexed, NEW c \in Commands, Enqueue(c), ~Insert(c)
    PROVE  Indexed'
<1>1. PICK told \in Commands \cup {"CONFLICT", "FULL"} :
        /\ Refuse(c, told)
        /\ told \in Commands => told \in Stored /\ request[told] = request[c]
  BY DEF Enqueue, ReturnExisting, RefuseConflict, RefuseFull, Existing, OfDevice,
         Stored, CommandsAssumption
<1>2. Stored' = Stored /\ request' = request
  BY <1>1 DEF Enqueue, Refuse, Stored, Accounting, TypeOK, ActionLifecycle,
              ActiveLifecycles, InFlight, Terminal
<1>3. answer' = [answer EXCEPT ![c] = told]
  BY <1>1 DEF Refuse
<1>. QED
  BY <1>1, <1>2, <1>3 DEF Indexed, Accounting, TypeOK

\* In the SQLite store, the requests that were accepted for one (device,
\* action_id) were all answered with one command, created from equal requests.
THEOREM ActionsAreUnique ==
    ASSUME HonestReports, Durable
    PROVE  Spec => []OneCommandPerAction
<1>1. Init => Indexed
  BY DEF Init, Indexed, Stored, ActionLifecycle, ActiveLifecycles, InFlight, Terminal
<1>2. Accounting /\ Indexed /\ TypeOK' /\ [Next]_vars => Indexed'
  <2>. SUFFICES ASSUME Accounting, Indexed, TypeOK', [Next]_vars
                PROVE  Indexed'
    OBVIOUS
  <2>1. ASSUME Stored' = Stored, request' = request, answer' = answer
        PROVE  Indexed'
    BY <2>1 DEF Indexed
  <2>2. ASSUME NEW c \in Commands, NEW r \in Requests, Check(c, r)
        PROVE  Indexed'
    <3>1. Stored' = Stored /\ c \notin Stored /\ answer' = answer
      BY <2>2 DEF Check, SafetyStops, Stored, Accounting, TypeOK, ActionLifecycle,
                  ActiveLifecycles, InFlight, Terminal
    <3>2. \A e \in Commands \ {c} : request'[e] = request[e]
      BY <2>2 DEF Check, SafetyStops, Accounting, TypeOK
    <3>3. answer[c] = Unset /\ Unset \notin Commands
      BY <2>2 DEF Check, SafetyStops, Accounting, Requested, CommandsAssumption
    <3>. QED
      BY <3>1, <3>2, <3>3 DEF Indexed, Stored
  <2>3. ASSUME NEW c \in Commands, Enqueue(c)
        PROVE  Indexed'
    BY <2>3, InsertIndexed, RefuseIndexed
  <2>4. ASSUME NEW d \in Devices, LeaseNext(d)
        PROVE  Indexed'
    <3>1. PICK leased, stale \in SUBSET Candidates(d) : Sweep(d, leased, stale)
      BY <2>4, SweepSets DEF Accounting
    <3>2. \A c \in Commands : lifecycle'[c] \in ActionLifecycle <=>
                                 lifecycle[c] \in ActionLifecycle
      BY <3>1 DEF Sweep, Candidates, Exhausted, Expired, OfDevice, Stored,
                  ActionLifecycle, ActiveLifecycles, InFlight, Terminal
    <3>3. Stored' = Stored
      BY <3>2 DEF Stored
    <3>. QED
      BY <2>1, <3>1, <3>3 DEF Sweep
  <2>5. ASSUME NEW c \in Commands, NEW s \in DeviceStatuses,
               NEW l \in ReportLifecycles, RecordResult(c, s, l)
        PROVE  Indexed'
    <3>1. RecordedLifecycle(s, l) \in ActionLifecycle
      BY DEF RecordedLifecycle, LifecycleForResult, ActionLifecycle, Terminal
    <3>2. Stored' = Stored
      BY <2>5, <3>1 DEF RecordResult, Stored, Accounting, TypeOK
    <3>. QED
      BY <2>1, <2>5, <3>2 DEF RecordResult
  <2>6. CASE Restart
    <3>1. Stored' = Stored
      BY <2>6 DEF Restart, Stored, ActionLifecycle, ActiveLifecycles, InFlight, Terminal
    <3>. QED
      BY <2>1, <2>6, <3>1 DEF Restart
  <2>7. CASE \/ UNCHANGED vars
             \/ \E d \in Devices, o \in Observations : ReceiveObservation(d, o)
             \/ \E c \in Commands : LeaseExpires(c)
             \/ \E d \in Devices : DeviceSilent(d)
    BY <2>1, <2>7 DEF vars, ReceiveObservation, LeaseExpires, DeviceSilent, Stored
  <2>. QED
    BY <2>2, <2>3, <2>4, <2>5, <2>6, <2>7 DEF Next
<1>3. Accounting /\ Indexed => OneCommandPerAction
  <2>. SUFFICES ASSUME Accounting, Indexed, NEW c \in Commands, NEW e \in Commands,
                       answer[c] \in Commands, answer[e] \in Commands,
                       request[c].device = request[e].device,
                       request[c].action_id = request[e].action_id
                PROVE  answer[c] = answer[e] /\ request[c] = request[e]
    BY DEF OneCommandPerAction
  <2>1. /\ answer[c] \in Stored /\ request[answer[c]] = request[c]
        /\ answer[e] \in Stored /\ request[answer[e]] = request[e]
    BY DEF Indexed
  <2>. QED
    BY <2>1 DEF Indexed
<1>. QED
  BY <1>1, <1>2, <1>3, AccountingInvariant, TypeCorrect, PTL DEF Spec

-----------------------------------------------------------------------------
(* Refinement.                                                             *)

\* A poll of the store is a Poll of the contract.
LEMMA LeaseNextIsPoll ==
    ASSUME Accounting, NEW d \in Devices, LeaseNext(d)
    PROVE  Delivery!DeliveryNext
<1>. USE DEF Accounting
<1>1. PICK leased \in SUBSET Candidates(d), stale \in SUBSET Candidates(d) :
        /\ leased \cap stale = {}
        /\ \A x, y \in leased : x = y
        /\ Sweep(d, leased, stale)
  BY SweepSets
<1>. DEFINE over == Exhausted(d)
            back == Expired(d) \ (leased \cup stale \cup over)
            Stage(c) == StageOf(lifecycle[c])
<1>2. over \subseteq Commands /\ back \subseteq Commands
      /\ leased \subseteq Commands /\ stale \subseteq Commands
  BY DEF Exhausted, Expired, Candidates, OfDevice, Stored
<1>4. \A c \in Expired(d) :
        /\ lifecycle[c] = "DISPATCHED" /\ Stage(c) = "leased"
        /\ dispatches[c] = retryCount[c] + 1 /\ retryCount[c] <= MaxRetries
  BY DEF Expired, OfDevice, Stored, Accounted, StageOf, InFlight
<1>5. \A c \in Candidates(d) \ Expired(d) :
        /\ lifecycle[c] = "QUEUED" /\ Stage(c) = "waiting"
        /\ dispatches[c] = retryCount[c] /\ retryCount[c] <= MaxRetries
  BY DEF Candidates, OfDevice, Stored, Accounted, StageOf
<1>6. \A c \in Commands : retryCount[c] \in Nat /\ dispatches[c] \in Nat
  BY DEF TypeOK
<1>7. \A c \in over : dispatches[c] = MaxRetries + 1
  BY <1>2, <1>4, <1>6 DEF Exhausted
<1>8. \A c \in leased : dispatches[c] < MaxRetries + 1
  <2>. TAKE c \in leased
  <2>1. CASE c \in Expired(d)
    <3>1. retryCount[c] + 1 <= MaxRetries
      BY <1>2, <1>6, <2>1 DEF Candidates, Exhausted, OfDevice, InFlight, Expired
    <3>. QED
      BY <1>2, <1>4, <1>6, <2>1, <3>1
  <2>2. CASE c \notin Expired(d)
    BY <1>2, <1>5, <1>6, <2>2
  <2>. QED
    BY <2>1, <2>2
<1>9. over \cap (leased \cup stale) = {}
  BY <1>4 DEF Candidates, Exhausted
<1>10. \A c \in Commands : Stage(c)' =
          IF c \in leased THEN "leased"
          ELSE IF c \in over \cup stale THEN "settled"
          ELSE IF c \in back THEN "waiting" ELSE Stage(c)
  BY <1>1, <1>9 DEF Sweep, StageOf, InFlight, Terminal, Exhausted
<1>11. \A c \in Commands : result'[c] =
          IF c \in over THEN "RETRY_EXHAUSTED"
          ELSE IF c \in stale THEN "STALE_OBSERVATION" ELSE result[c]
  BY <1>1, <1>9 DEF Sweep
<1>12. /\ back \cup over \subseteq {c \in Commands : Stage(c) = "leased"}
       /\ stale \cup leased \subseteq {c \in Commands : Stage(c) \in {"waiting", "leased"}}
  BY <1>2, <1>4, <1>5 DEF Exhausted
<1>13. dispatches' = [c \in Commands |->
          IF c \in leased THEN dispatches[c] + 1 ELSE dispatches[c]]
  BY <1>1 DEF Sweep
<1>14. result' = [c \in Commands |->
          IF c \in over THEN "RETRY_EXHAUSTED"
          ELSE IF c \in stale THEN "STALE_OBSERVATION" ELSE result[c]]
  BY <1>1, <1>11 DEF Sweep
<1>. HIDE DEF over, back, StageOf, Accounting
<1>15. Delivery!Poll(back, over, stale, leased)
  BY <1>1, <1>7, <1>8, <1>9, <1>10, <1>12, <1>13, <1>14
  DEF Delivery!Poll, back
<1>. QED
  BY <1>2, <1>15 DEF Delivery!DeliveryNext

\* A step that keeps stages, leases counted and results is a stutter.
LEMMA SameStages ==
    ASSUME Accounting, dispatches' = dispatches, result' = result,
           \A c \in Commands : StageOf(lifecycle'[c]) = StageOf(lifecycle[c])
    PROVE  UNCHANGED Delivery!dvars
BY DEF Delivery!dvars

\* The store implements the delivery contract, for honest devices, either kind
\* of store and all bounds.
THEOREM StoreImplementsDelivery ==
    ASSUME HonestReports
    PROVE  Spec => ImplementsDelivery
<1>1. Init => Delivery!DeliveryInit
  BY DEF Init, Delivery!DeliveryInit, StageOf, InFlight, Terminal,
         NoResult, Delivery!Unknown
<1>2. Accounting /\ Accounting' /\ [Next]_vars =>
        [Delivery!DeliveryNext]_(Delivery!dvars)
  <2>. SUFFICES ASSUME Accounting, Accounting', [Next]_vars
                PROVE  Delivery!DeliveryNext \/ UNCHANGED Delivery!dvars
    OBVIOUS
  <2>1. ASSUME NEW c \in Commands, NEW r \in Requests, Check(c, r)
        PROVE  UNCHANGED Delivery!dvars
    <3>1. \A e \in Commands : StageOf(lifecycle'[e]) = StageOf(lifecycle[e])
      BY <2>1 DEF Check, SafetyStops, Accounting, TypeOK, StageOf, InFlight, Terminal
    <3>. QED
      BY <2>1, <3>1, SameStages DEF Check, SafetyStops
  <2>2. ASSUME NEW c \in Commands, Enqueue(c), Insert(c)
        PROVE  Delivery!DeliveryNext
    <3>1. lifecycle[c] = "CHECKED" /\ lifecycle' = [lifecycle EXCEPT ![c] = "QUEUED"]
      BY <2>2 DEF Enqueue, Insert
    <3>2. StageOf("CHECKED") = "absent" /\ StageOf("QUEUED") = "waiting"
      BY DEF StageOf, InFlight, Terminal
    <3>3. dispatches' = dispatches /\ result' = result
      BY <2>2 DEF Enqueue
    <3>. HIDE DEF StageOf
    <3>4. Delivery!Submit(c)
      BY <3>1, <3>2, <3>3 DEF Delivery!Submit, Accounting, TypeOK
    <3>. QED
      BY <3>4 DEF Delivery!DeliveryNext
  <2>3. ASSUME NEW c \in Commands, Enqueue(c), ~Insert(c)
        PROVE  UNCHANGED Delivery!dvars
    <3>1. lifecycle[c] = "CHECKED" /\ lifecycle' = [lifecycle EXCEPT ![c] = "REFUSED"]
      BY <2>3 DEF Enqueue, ReturnExisting, RefuseConflict, RefuseFull, Refuse
    <3>2. \A e \in Commands : StageOf(lifecycle'[e]) = StageOf(lifecycle[e])
      BY <3>1 DEF Accounting, TypeOK, StageOf, InFlight, Terminal
    <3>. QED
      BY <2>3, <3>2, SameStages DEF Enqueue
  <2>4. ASSUME NEW d \in Devices, LeaseNext(d)
        PROVE  Delivery!DeliveryNext
    BY <2>4, LeaseNextIsPoll
  <2>5. ASSUME NEW c \in Commands, NEW s \in DeviceStatuses,
               NEW l \in ReportLifecycles, RecordResult(c, s, l)
        PROVE  Delivery!DeliveryNext
    <3>1. lifecycle' = [lifecycle EXCEPT ![c] = LifecycleForResult(s)]
      BY <2>5 DEF RecordResult, RecordedLifecycle, HonestReports
    <3>2. StageOf(LifecycleForResult(s)) = "settled"
      BY DEF StageOf, LifecycleForResult, InFlight, Terminal
    <3>3. StageOf(lifecycle[c]) \in {"waiting", "leased"}
      BY <2>5 DEF RecordResult, Stored, StageOf, Accounting, Accounted,
                  ActionLifecycle, ActiveLifecycles
    <3>4. /\ dispatches[c] > 0 /\ dispatches' = dispatches
          /\ result' = [result EXCEPT ![c] = s]
      BY <2>5 DEF RecordResult
    <3>. HIDE DEF StageOf, LifecycleForResult
    <3>5. Delivery!Settle(c, s)
      BY <3>1, <3>2, <3>3, <3>4 DEF Delivery!Settle, Accounting, TypeOK
    <3>6. s \in Delivery!Answers
      BY DEF Delivery!Answers, DeviceStatuses
    <3>. QED
      BY <3>5, <3>6 DEF Delivery!DeliveryNext
  <2>6. ASSUME Restart, Durable
        PROVE  UNCHANGED Delivery!dvars
    <3>1. \A e \in Commands : StageOf(lifecycle'[e]) = StageOf(lifecycle[e])
      BY <2>6 DEF Restart, StageOf, InFlight, Terminal
    <3>. QED
      BY <2>6, <3>1, SameStages DEF Restart
  <2>7. ASSUME Restart, ~Durable
        PROVE  Delivery!DeliveryNext
    <3>1. \A c \in Commands : StageOf(lifecycle'[c]) =
              IF StageOf(lifecycle[c]) = "absent" THEN "absent" ELSE "forgotten"
      BY <2>7 DEF Restart, Stored, Accounting, TypeOK, StageOf, NotStored,
                  ActionLifecycle, ActiveLifecycles, InFlight, Terminal
    <3>2. /\ dispatches' = dispatches
          /\ result' = [c \in Commands |-> Delivery!Unknown]
      BY <2>7 DEF Restart, NoResult, Delivery!Unknown
    <3>. HIDE DEF StageOf
    <3>3. Delivery!Forget
      BY <2>7, <3>1, <3>2 DEF Delivery!Forget
    <3>. QED
      BY <3>3 DEF Delivery!DeliveryNext
  <2>8. CASE \/ UNCHANGED vars
             \/ \E d \in Devices, o \in Observations : ReceiveObservation(d, o)
             \/ \E c \in Commands : LeaseExpires(c)
             \/ \E d \in Devices : DeviceSilent(d)
    BY <2>8, SameStages DEF vars, ReceiveObservation, LeaseExpires, DeviceSilent
  <2>. QED
    BY <2>1, <2>2, <2>3, <2>4, <2>5, <2>6, <2>7, <2>8 DEF Next
<1>. QED
  BY <1>1, <1>2, AccountingInvariant, PTL
  DEF Spec, ImplementsDelivery, Delivery!DeliverySpec
=============================================================================
