------------------------- MODULE WorkflowRunProofs -------------------------
(* Theorems about WorkflowRun, for all workflows, pages and limits.        *)
EXTENDS WorkflowRun, TLAPS

USE WorkflowsAssumption, LimitsAssumption, PagesAssumption DEF ToAgent, NoRoute

-----------------------------------------------------------------------------
(* The step at hand and where its routes lead.                             *)

\* While the index points into the workflow there is a step of known type.
LEMMA StepTyped ==
    ASSUME wf \in Workflows, index \in 1..(Len(wf) + 1), index <= Len(wf)
    PROVE  index \in DOMAIN wf /\ Step \in Steps
<1>1. wf \in Seq(Steps)
  OBVIOUS
<1>2. index \in 1..Len(wf)
  BY <1>1
<1>. QED
  BY <1>1, <1>2 DEF Step

\* A route that validate_step_graph let pass leads to the step it names.
LEMMA RouteLeads ==
    ASSUME wf \in Workflows, NEW i \in DOMAIN wf,
           NEW r \in {wf[i].on_success, wf[i].on_failure},
           r \notin {NoRoute, ToAgent}
    PROVE  RouteIndex(r) \in DOMAIN wf /\ wf[RouteIndex(r)].id = r
<1>1. ValidGraph(wf)
  OBVIOUS
<1>2. r \in {wf[j].id : j \in DOMAIN wf}
  BY <1>1 DEF ValidGraph
<1>3. PICK j \in DOMAIN wf : wf[j].id = r
  BY <1>2
<1>. QED
  BY <1>3 DEF RouteIndex

\* Following a route of the step, or none, keeps the index within the
\* workflow or just behind it.
LEMMA GoToTyped ==
    ASSUME wf \in Workflows, index \in 1..(Len(wf) + 1), index <= Len(wf),
           NEW r \in {Step.on_success, Step.on_failure}, r # ToAgent, GoTo(r)
    PROVE  index' \in 1..(Len(wf) + 1) /\ pc' = "next" /\ status' = status
<1>1. wf \in Seq(Steps) /\ index \in DOMAIN wf
  BY StepTyped
<1>2. CASE r = NoRoute
  BY <1>1, <1>2 DEF GoTo
<1>3. CASE r # NoRoute
  <2>1. RouteIndex(r) \in DOMAIN wf
    BY <1>1, <1>3, RouteLeads DEF Step
  <2>. QED
    BY <1>1, <1>3, <2>1 DEF GoTo
<1>. QED
  BY <1>2, <1>3

\* A step that is skipped is recorded, and its failure route is followed.
LEMMA SkipTyped ==
    ASSUME RunTypeOK, index <= Len(wf), pc # "done", Skip
    PROVE  /\ index' \in 1..(Len(wf) + 1) /\ skipped' \in Seq(StepIds)
           /\ \/ pc' = "next" /\ status' = status
              \/ pc' = "done" /\ status' = ToAgent
<1>1. Step \in Steps
  BY StepTyped DEF RunTypeOK
<1>2. skipped' \in Seq(StepIds)
  BY <1>1 DEF Skip, RunTypeOK, Steps
<1>3. CASE Step.on_failure = ToAgent
  BY <1>2, <1>3 DEF Skip, End, RunTypeOK
<1>4. CASE Step.on_failure # ToAgent
  BY <1>2, <1>4, GoToTyped DEF Skip, RunTypeOK
<1>. QED
  BY <1>3, <1>4

-----------------------------------------------------------------------------
(* Type correctness.                                                       *)

\* Whatever the head of the loop decides, every variable keeps its type.
LEMMA StepBeginsTyped ==
    ASSUME RunTypeOK, StepBegins PROVE RunTypeOK'
<1>1. /\ pc = "next" /\ status = "RUNNING" /\ index <= Len(wf)
      /\ index \in 1..(Len(wf) + 1)
  BY DEF StepBegins, RunTypeOK
<1>2. stepCount' \in Nat
  BY DEF StepBegins, RunTypeOK
<1>3. UNCHANGED <<fixed, retryCount, current, known, shown, history>>
  BY DEF StepBegins
<1>4. CASE UnsafeHead
  BY <1>1, <1>2, <1>3, <1>4
     DEF UnsafeHead, SafetyStop, End, RunTypeOK, record, trial, fixed, history
<1>5. CASE GuardFails
  <2>1. CASE Step.optional
    BY <1>1, <1>2, <1>3, <1>5, <2>1, SkipTyped
       DEF GuardFails, RunTypeOK, trial, fixed, history
  <2>2. CASE ~Step.optional
    BY <1>1, <1>2, <1>3, <1>5, <2>2
       DEF GuardFails, End, RunTypeOK, trial, fixed, history
  <2>. QED
    BY <2>1, <2>2
<1>6. CASE AsksAgent
  BY <1>1, <1>2, <1>3, <1>6
     DEF AsksAgent, End, RunTypeOK, record, trial, fixed, history
<1>7. CASE CartRefused
  BY <1>1, <1>2, <1>3, <1>7
     DEF CartRefused, SafetyStop, End, RunTypeOK, record, trial, fixed, history
<1>8. CASE PlanFails
  BY <1>1, <1>2, <1>3, <1>8
     DEF PlanFails, End, RunTypeOK, record, trial, fixed, history
<1>9. CASE Plan
  BY <1>1, <1>2, <1>3, <1>9 DEF Plan, RunTypeOK, record, fixed, history
<1>. QED
  BY <1>4, <1>5, <1>6, <1>7, <1>8, <1>9 DEF StepBegins

\* The screen stays among the versions considered.
LEMMA ScreenTyped ==
    ASSUME shown \in Screens, ScreenMayChange PROVE shown' \in Screens
BY DEF ScreenMayChange, ScreenChanges, Screens, Versions

\* An attempt keeps types, whether the executor refuses or performs.
LEMMA AttemptTyped ==
    ASSUME RunTypeOK, Attempt PROVE RunTypeOK'
<1>1. /\ pc = "attempt" /\ status = "RUNNING" /\ index <= Len(wf)
      /\ index \in 1..(Len(wf) + 1)
  BY DEF Attempt, RunTypeOK
<1>2. /\ registered' \in SUBSET Screens
      /\ UNCHANGED <<fixed, limits, record, current, known, used, attempt,
                     verified>>
  BY DEF Attempt, RunTypeOK
<1>3. Step \in Steps
  BY <1>1, StepTyped DEF RunTypeOK
<1>4. CASE StopsDevice
  BY <1>1, <1>2, <1>4 DEF StopsDevice, RunTypeOK, fixed, limits, record
<1>5. CASE ExecutorBlocks
  BY <1>1, <1>2, <1>5
     DEF ExecutorBlocks, SafetyStop, End, RunTypeOK, fixed, limits, record
<1>6. CASE TargetMissing
  BY <1>1, <1>2, <1>6 DEF TargetMissing, RunTypeOK, fixed, limits, record
<1>7. CASE Perform
  <2>1. shown' \in Screens
    BY <1>7, ScreenTyped DEF Perform, RunTypeOK
  <2>2. acted' \subseteq StepIds \X Screens
    BY <1>3, <1>7 DEF Perform, RunTypeOK, Steps
  <2>. QED
    BY <1>1, <1>2, <1>7, <2>1, <2>2
       DEF Perform, RunTypeOK, fixed, limits, record
<1>. QED
  BY <1>4, <1>5, <1>6, <1>7 DEF Attempt

\* A failed step leaves the run in one of its states.
LEMMA GiveUpTyped ==
    ASSUME RunTypeOK, GiveUp PROVE RunTypeOK'
<1>1. /\ pc = "failed" /\ status = "RUNNING" /\ index <= Len(wf)
      /\ index \in 1..(Len(wf) + 1)
  BY DEF GiveUp, RunTypeOK
<1>2. UNCHANGED <<fixed, limits, completed, current, known, trial, stopped,
                  shown, history>>
  BY DEF GiveUp
<1>3. CASE Step.optional
  BY <1>1, <1>2, <1>3, SkipTyped
     DEF GiveUp, RunTypeOK, fixed, limits, trial, history
<1>4. CASE ~Step.optional
  <2>1. UNCHANGED skipped
    BY <1>4 DEF GiveUp
  <2>2. CASE End(ToAgent) \/ End("FAILED")
    BY <1>1, <1>2, <2>1, <2>2
       DEF End, RunTypeOK, fixed, limits, trial, history
  <2>3. CASE Step.on_failure # ToAgent /\ GoTo(Step.on_failure)
    <3>1. index' \in 1..(Len(wf) + 1) /\ pc' = "next" /\ status' = status
      BY <1>1, <2>3, GoToTyped DEF RunTypeOK
    <3>. QED
      BY <1>1, <1>2, <2>1, <3>1 DEF RunTypeOK, fixed, limits, trial, history
  <2>. QED
    BY <1>4, <2>2, <2>3 DEF GiveUp
<1>. QED
  BY <1>3, <1>4

\* So does a step that completes.
LEMMA StepCompletesTyped ==
    ASSUME RunTypeOK, StepCompletes PROVE RunTypeOK'
<1>1. /\ pc = "passed" /\ status = "RUNNING" /\ index <= Len(wf)
      /\ index \in 1..(Len(wf) + 1)
  BY DEF StepCompletes, RunTypeOK
<1>2. Step \in Steps
  BY <1>1, StepTyped DEF RunTypeOK
<1>3. completed' \in Seq(StepIds)
  BY <1>2 DEF StepCompletes, RunTypeOK, Steps
<1>4. /\ index' \in 1..(Len(wf) + 1)
      /\ \/ pc' = "next" /\ status' = status
         \/ pc' = "done" /\ status' = ToAgent
  <2>1. CASE Step.on_success = ToAgent
    BY <1>1, <2>1 DEF StepCompletes, End
  <2>2. CASE Step.on_success # ToAgent
    BY <1>1, <2>2, GoToTyped DEF StepCompletes, RunTypeOK
  <2>. QED
    BY <2>1, <2>2
<1>. QED
  BY <1>1, <1>3, <1>4
     DEF StepCompletes, RunTypeOK, fixed, limits, trial, history

\* Every step of the engine and of the screen keeps the types.
LEMMA RunTypeStep ==
    ASSUME RunTypeOK, [RunNext]_runVars PROVE RunTypeOK'
<1>1. CASE AllStepsDone
  BY <1>1 DEF AllStepsDone, End, RunTypeOK, fixed, limits, record, trial,
              history
<1>2. CASE LimitReached
  BY <1>2 DEF LimitReached, End, RunTypeOK, fixed, limits, record, trial,
              history
<1>3. CASE StepBegins
  BY <1>3, StepBeginsTyped
<1>4. CASE RepetitionStops
  BY <1>4 DEF RepetitionStops, End, RunTypeOK, fixed, limits, record, history
<1>5. CASE Attempt
  BY <1>5, AttemptTyped
<1>6. CASE Verify
  BY <1>6 DEF Verify, RunTypeOK, fixed, limits, record
<1>7. CASE Retry
  BY <1>7 DEF Retry, RunTypeOK, fixed, record, history
<1>8. CASE GiveUp
  BY <1>8, GiveUpTyped
<1>9. CASE StepCompletes
  BY <1>9, StepCompletesTyped
<1>10. CASE ScreenMoves
  <2>1. shown' \in Screens
    BY <1>10, ScreenTyped DEF ScreenMoves, ScreenMayChange, RunTypeOK
  <2>. QED
    BY <1>10, <2>1 DEF ScreenMoves, RunTypeOK, fixed, limits, record, trial,
                       history
<1>11. CASE UNCHANGED runVars
  BY <1>11 DEF RunTypeOK, runVars, fixed, limits, record, trial, history
<1>. QED
  BY <1>1, <1>2, <1>3, <1>4, <1>5, <1>6, <1>7, <1>8, <1>9, <1>10, <1>11
     DEF RunNext, EngineStep

\* A run begins at the first step of a valid workflow.
LEMMA RunTypeInit == ASSUME RunInit PROVE RunTypeOK
<1>1. wf \in Seq(Steps) /\ wf # <<>>
  BY DEF RunInit, ValidGraph
<1>2. index \in 1..(Len(wf) + 1)
  BY <1>1 DEF RunInit
<1>3. shown \in Screens
  BY DEF RunInit, Screens, Versions
<1>4. completed \in Seq(StepIds) /\ skipped \in Seq(StepIds)
  BY DEF RunInit
<1>. QED
  BY <1>2, <1>3, <1>4 DEF RunInit, RunTypeOK

\* Type correctness: the engine never leaves its workflow, whatever routes it
\* has, and a run has a final status exactly when it is over.
THEOREM RunTypeCorrect == RunSpec => []RunTypeOK
BY RunTypeInit, RunTypeStep, PTL DEF RunSpec

-----------------------------------------------------------------------------
(* The limits and what is checked before the device is asked.              *)

\* Every request for the device is paid for in advance, by a step or a retry
\* that was counted.
EffortPaid ==
    /\ stepCount <= MaxSteps
    /\ performs + (IF pc = "attempt" THEN 1 ELSE 0) <= stepCount + retryCount

\* During a step the cart is allowed if the step needs that, its attempts are
\* within its limit, and after a success its expectation held.
StepVetted ==
    pc \in {"attempt", "verify", "failed", "passed"} =>
        /\ Step.requires_cart_opt_in => allowCart
        /\ attempt <= Step.retry_limit
        /\ pc = "passed" /\ Step.verify /\ ~Step.stop =>
              /\ verified.page \in Step.expected
              /\ Step.change => verified.version # used.version

RunInvariant == RunTypeOK /\ EffortPaid /\ StepVetted

\* Whoever asks the device has raised a counter of the context before.
LEMMA EffortStaysPaid ==
    ASSUME RunTypeOK, EffortPaid, [RunNext]_runVars PROVE EffortPaid'
<1>. USE DEF EffortPaid, RunTypeOK
<1>1. CASE AllStepsDone
  BY <1>1 DEF AllStepsDone, End, limits, history
<1>2. CASE LimitReached
  BY <1>2 DEF LimitReached, End, limits, history
<1>3. CASE StepBegins
  BY <1>3 DEF StepBegins, StepAllowed, history
<1>4. CASE RepetitionStops
  BY <1>4 DEF RepetitionStops, End, limits, history
<1>5. CASE Attempt
  <2>1. performs' \in {performs, performs + 1} /\ UNCHANGED limits /\ pc = "attempt"
    BY <1>5 DEF Attempt, StopsDevice, ExecutorBlocks, TargetMissing, Perform
  <2>2. pc' # "attempt"
    BY <1>5 DEF Attempt, StopsDevice, ExecutorBlocks, SafetyStop, End,
                TargetMissing, Perform
  <2>. QED
    BY <2>1, <2>2 DEF limits
<1>6. CASE Verify
  BY <1>6 DEF Verify, limits
<1>7. CASE Retry
  BY <1>7 DEF Retry, history
<1>8. CASE GiveUp
  <2>1. UNCHANGED <<stepCount, retryCount, performs>> /\ pc = "failed"
    BY <1>8 DEF GiveUp, limits, history
  <2>2. pc' # "attempt"
    BY <1>8 DEF GiveUp, Skip, GoTo, End
  <2>. QED
    BY <2>1, <2>2
<1>9. CASE StepCompletes
  BY <1>9 DEF StepCompletes, GoTo, End, limits, history
<1>10. CASE ScreenMoves
  BY <1>10 DEF ScreenMoves, limits, history
<1>11. CASE UNCHANGED runVars
  BY <1>11 DEF runVars, limits, history
<1>. QED
  BY <1>1, <1>2, <1>3, <1>4, <1>5, <1>6, <1>7, <1>8, <1>9, <1>10, <1>11
     DEF RunNext, EngineStep

\* What was checked before a step holds through all its attempts.
LEMMA StepsStayVetted ==
    ASSUME RunTypeOK, StepVetted, [RunNext]_runVars PROVE StepVetted'
<1>. USE DEF StepVetted
<1>1. CASE AllStepsDone
  BY <1>1 DEF AllStepsDone, End
<1>2. CASE LimitReached
  BY <1>2 DEF LimitReached, End
<1>3. CASE StepBegins
  <2>1. CASE Plan
    <3>1. Step \in Steps
      BY <1>3, StepTyped DEF StepBegins, RunTypeOK
    <3>2. /\ Step' = Step /\ pc' = "attempt" /\ attempt' = 0
          /\ allowCart' = allowCart
      BY <1>3, <2>1 DEF StepBegins, Plan, Step, fixed
    <3>3. Step.requires_cart_opt_in => allowCart
      BY <2>1 DEF Plan, MayAct
    <3>4. 0 <= Step.retry_limit
      BY <3>1 DEF Steps
    <3>. QED
      BY <3>2, <3>3, <3>4
  <2>2. CASE ~Plan
    <3>1. pc' \in {"next", "done"}
      BY <1>3, <2>2 DEF StepBegins, UnsafeHead, SafetyStop, GuardFails, Skip,
                        GoTo, End, AsksAgent, CartRefused, PlanFails
    <3>. QED
      BY <3>1
  <2>. QED
    BY <2>1, <2>2
<1>4. CASE RepetitionStops
  BY <1>4 DEF RepetitionStops, End
<1>5. CASE Attempt
  <2>1. CASE pc' \in {"verify", "failed", "passed"}
    <3>1. index' = index
      BY <1>5 DEF Attempt, StopsDevice, ExecutorBlocks, SafetyStop, End,
                  TargetMissing, Perform
    <3>2. Step' = Step /\ UNCHANGED <<allowCart, attempt>> /\ pc = "attempt"
      BY <1>5, <3>1 DEF Attempt, Step, fixed
    <3>3. pc' = "passed" => Step.stop
      BY <1>5 DEF Attempt, ExecutorBlocks, SafetyStop, End, TargetMissing,
                  Perform
    <3>. QED
      BY <2>1, <3>2, <3>3
  <2>2. CASE pc' = "done"
    BY <2>2
  <2>3. pc' \in {"verify", "failed", "passed", "done"}
    BY <1>5 DEF Attempt, StopsDevice, ExecutorBlocks, SafetyStop, End,
                TargetMissing, Perform
  <2>. QED
    BY <2>1, <2>2, <2>3
<1>6. CASE Verify
  <2>1. Step' = Step /\ UNCHANGED <<allowCart, attempt, used>> /\ pc = "verify"
    BY <1>6 DEF Verify, Step, fixed
  <2>2. pc' = "passed" => Met(Step, used, shown) /\ verified' = shown
    BY <1>6 DEF Verify
  <2>. QED
    BY <2>1, <2>2 DEF Met
<1>7. CASE Retry
  <2>1. /\ Step' = Step /\ allowCart' = allowCart /\ attempt' = attempt + 1
        /\ pc = "failed" /\ pc' = "attempt" /\ attempt < Step.retry_limit
    BY <1>7 DEF Retry, MayRetry, Step, fixed
  <2>2. Step \in Steps /\ attempt \in Nat
    BY <2>1, StepTyped DEF RunTypeOK
  <2>3. attempt + 1 <= Step.retry_limit
    BY <2>1, <2>2 DEF Steps
  <2>. QED
    BY <2>1, <2>3
<1>8. CASE GiveUp
  <2>1. pc' \in {"next", "done"}
    BY <1>8 DEF GiveUp, Skip, GoTo, End
  <2>. QED
    BY <2>1
<1>9. CASE StepCompletes
  BY <1>9 DEF StepCompletes, GoTo, End
<1>10. CASE ScreenMoves
  BY <1>10 DEF ScreenMoves, Step, fixed, trial, history
<1>11. CASE UNCHANGED runVars
  BY <1>11 DEF runVars, Step, fixed, trial, history
<1>. QED
  BY <1>1, <1>2, <1>3, <1>4, <1>5, <1>6, <1>7, <1>8, <1>9, <1>10, <1>11
     DEF RunNext, EngineStep

\* The inductive invariant: types, effort paid in advance, steps vetted.
THEOREM RunInvariantHolds == RunSpec => []RunInvariant
<1>1. RunInit => EffortPaid /\ StepVetted
  BY DEF RunInit, EffortPaid, StepVetted
<1>2. RunTypeOK /\ EffortPaid /\ StepVetted /\ [RunNext]_runVars
         => (EffortPaid /\ StepVetted)'
  BY EffortStaysPaid, StepsStayVetted
<1>. QED
  BY <1>1, <1>2, RunTypeCorrect, PTL DEF RunSpec, RunInvariant

\* The invariant holds in the beginning and is inductive.
LEMMA RunInvariantInit == ASSUME RunInit PROVE RunInvariant
<1>1. EffortPaid /\ StepVetted
  BY DEF RunInit, EffortPaid, StepVetted
<1>. QED
  BY <1>1, RunTypeInit DEF RunInvariant

LEMMA RunInvariantStep ==
    ASSUME RunInvariant, [RunNext]_runVars PROVE RunInvariant'
BY RunTypeStep, EffortStaysPaid, StepsStayVetted DEF RunInvariant

\* The device is never asked for more than the counters of the context say,
\* and the engine enters at most MaxSteps steps, for every workflow, also one
\* whose routes loop.
THEOREM EffortIsAccounted == RunSpec => []EffortAccounted
<1>1. RunInvariant => EffortAccounted
  BY DEF RunInvariant, RunTypeOK, EffortPaid, EffortAccounted
<1>. QED
  BY <1>1, RunInvariantHolds, PTL

\* Only Perform asks the device for an action.
LEMMA OnlyPerformActs ==
    ASSUME RunTypeOK, [RunNext]_runVars, performs' # performs
    PROVE  Attempt /\ Perform
<1>. USE DEF RunTypeOK
<1>1. CASE Attempt
  BY <1>1 DEF Attempt, StopsDevice, ExecutorBlocks, TargetMissing
<1>2. CASE ~Attempt
  BY <1>2 DEF RunNext, EngineStep, AllStepsDone, LimitReached, StepBegins,
              RepetitionStops, Verify, Retry, GiveUp, StepCompletes,
              ScreenMoves, runVars, history
<1>. QED
  BY <1>1, <1>2

\* No action is performed on an unsafe page, without its target, against the
\* cart rule, beyond the retries of its step or twice for one request, retries
\* included.
THEOREM OnlyAllowedIsPerformed == RunSpec => PerformsOnlyAllowed
<1>1. RunInvariant /\ [RunNext]_runVars =>
         (performs' # performs =>
            /\ used.page \in Step.found \ Unsafe
            /\ Step.requires_cart_opt_in => allowCart
            /\ attempt <= Step.retry_limit
            /\ used \notin registered)
  <2>. SUFFICES ASSUME RunInvariant, [RunNext]_runVars, performs' # performs
                PROVE  /\ used.page \in Step.found \ Unsafe
                       /\ Step.requires_cart_opt_in => allowCart
                       /\ attempt <= Step.retry_limit
                       /\ used \notin registered
    OBVIOUS
  <2>1. Attempt /\ Perform
    BY OnlyPerformActs DEF RunInvariant
  <2>2. used.page \in Step.found \ Unsafe
    BY <2>1 DEF Perform, MayPerform, Blocked
  <2>3. pc = "attempt" /\ used \notin registered
    BY <2>1 DEF Attempt, Repeated
  <2>. QED
    BY <2>2, <2>3 DEF RunInvariant, StepVetted
<1>. QED
  BY <1>1, RunInvariantHolds, PTL DEF RunSpec, PerformsOnlyAllowed

\* A step completes only after its expectation held on a screen seen after
\* the action.
THEOREM CompletionIsVerified == RunSpec => CompletedWasVerified
<1>1. RunInvariant /\ [RunNext]_runVars =>
         (completed' # completed /\ Step.verify /\ ~Step.stop =>
            /\ verified.page \in Step.expected
            /\ Step.change => verified.version # used.version)
  <2>. SUFFICES ASSUME RunInvariant, [RunNext]_runVars, completed' # completed
                PROVE  pc = "passed"
    BY DEF RunInvariant, StepVetted
  <2>1. CASE StepCompletes
    BY <2>1 DEF StepCompletes
  <2>2. CASE StepBegins
    BY <2>2 DEF StepBegins, UnsafeHead, GuardFails, AsksAgent, CartRefused,
                PlanFails, Plan, record
  <2>3. CASE ~StepCompletes /\ ~StepBegins
    BY <2>3 DEF RunNext, EngineStep, AllStepsDone, LimitReached, Attempt,
                RepetitionStops, Verify, Retry, GiveUp, ScreenMoves, runVars,
                record
  <2>. QED
    BY <2>1, <2>2, <2>3
<1>. QED
  BY <1>1, RunInvariantHolds, PTL DEF RunSpec, CompletedWasVerified
-----------------------------------------------------------------------------
(* What a run that succeeded has done.                                     *)

\* a step is behind the run: completed, or optional and skipped
Passed(i) == \/ wf[i].id \in ToSet(completed)
             \/ wf[i].optional /\ wf[i].id \in ToSet(skipped)

Routeless ==
    \A i \in DOMAIN wf : {wf[i].on_success, wf[i].on_failure} \cap StepIds = {}

\* The end of the workflow is only reached over its last step; and without
\* routes everything before the index is behind the run.
ProgressKept ==
    /\ status = "SUCCEEDED" => index > Len(wf)
    /\ index > Len(wf) => Passed(Len(wf)) \/ wf[Len(wf)].optional
    /\ Routeless /\ status \in {"RUNNING", "SUCCEEDED"} =>
           /\ \A i \in 1..(index - 1) : Passed(i)
           /\ Len(completed) + Len(skipped) = index - 1

\* Appending adds one element.
LEMMA Appended ==
    ASSUME NEW S, NEW s \in Seq(S), NEW e \in S
    PROVE  /\ ToSet(Append(s, e)) = ToSet(s) \cup {e}
           /\ Len(Append(s, e)) = Len(s) + 1
<1>1. /\ DOMAIN Append(s, e) = 1..(Len(s) + 1) /\ DOMAIN s = 1..Len(s)
      /\ Len(s) \in Nat /\ Len(Append(s, e)) = Len(s) + 1
  OBVIOUS
<1>2. \A i \in 1..Len(s) : Append(s, e)[i] = s[i]
  OBVIOUS
<1>3. Append(s, e)[Len(s) + 1] = e
  OBVIOUS
<1>4. ASSUME NEW x PROVE x \in ToSet(Append(s, e)) <=> x \in ToSet(s) \cup {e}
  <2>1. ASSUME x \in ToSet(Append(s, e)) PROVE x \in ToSet(s) \cup {e}
    <3>1. PICK i \in 1..(Len(s) + 1) : Append(s, e)[i] = x
      BY <1>1, <2>1 DEF ToSet
    <3>2. CASE i = Len(s) + 1
      BY <1>3, <3>1, <3>2
    <3>3. CASE i # Len(s) + 1
      <4>1. i \in 1..Len(s)
        BY <1>1, <3>3
      <4>. QED
        BY <1>1, <1>2, <3>1, <4>1 DEF ToSet
    <3>. QED
      BY <3>2, <3>3
  <2>2. ASSUME x \in ToSet(s) PROVE x \in ToSet(Append(s, e))
    <3>1. PICK i \in 1..Len(s) : s[i] = x
      BY <1>1, <2>2 DEF ToSet
    <3>2. i \in 1..(Len(s) + 1) /\ Append(s, e)[i] = x
      BY <1>1, <1>2, <3>1
    <3>. QED
      BY <1>1, <3>2 DEF ToSet
  <2>3. e \in ToSet(Append(s, e))
    <3>1. Len(s) + 1 \in 1..(Len(s) + 1)
      BY <1>1
    <3>. QED
      BY <1>1, <1>3, <3>1 DEF ToSet
  <2>. QED
    BY <2>1, <2>2, <2>3
<1>. QED
  BY <1>1, <1>4

\* A step that completes or is skipped is behind the run, and the index moves
\* on to the next one, or to where a route leads.
LEMMA PassedOn ==
    ASSUME RunTypeOK, ProgressKept, status = "RUNNING", index <= Len(wf), wf' = wf,
           \/ completed' = Append(completed, Step.id) /\ skipped' = skipped
           \/ skipped' = Append(skipped, Step.id) /\ completed' = completed /\ Step.optional,
           NEW r \in {Step.on_success, Step.on_failure},
           IF r = ToAgent THEN End(ToAgent) ELSE GoTo(r)
    PROVE  ProgressKept'
<1>1. /\ wf \in Seq(Steps) /\ index \in DOMAIN wf /\ index \in Nat
      /\ Step \in Steps /\ Step = wf[index] /\ Len(wf) \in Nat
  BY StepTyped DEF RunTypeOK, Step
<1>2. Step.id \in StepIds /\ completed \in Seq(StepIds) /\ skipped \in Seq(StepIds)
  BY <1>1 DEF RunTypeOK, Steps
<1>3. /\ ToSet(completed) \subseteq ToSet(completed')
      /\ ToSet(skipped) \subseteq ToSet(skipped')
      /\ \/ Step.id \in ToSet(completed')
         \/ Step.optional /\ Step.id \in ToSet(skipped')
      /\ Len(completed') + Len(skipped') = Len(completed) + Len(skipped) + 1
  <2>1. CASE completed' = Append(completed, Step.id) /\ skipped' = skipped
    <3>1. /\ ToSet(completed') = ToSet(completed) \cup {Step.id}
          /\ Len(completed') = Len(completed) + 1
      BY <1>2, <2>1, Appended
    <3>2. Len(completed) \in Nat /\ Len(skipped) \in Nat
      BY <1>2
    <3>. QED
      BY <2>1, <3>1, <3>2
  <2>2. CASE skipped' = Append(skipped, Step.id) /\ completed' = completed /\ Step.optional
    <3>1. /\ ToSet(skipped') = ToSet(skipped) \cup {Step.id}
          /\ Len(skipped') = Len(skipped) + 1
      BY <1>2, <2>2, Appended
    <3>2. Len(completed) \in Nat /\ Len(skipped) \in Nat
      BY <1>2
    <3>. QED
      BY <2>2, <3>1, <3>2
  <2>. QED
    BY <2>1, <2>2
<1>4. ASSUME NEW i \in DOMAIN wf, Passed(i) \/ i = index PROVE Passed(i)'
  BY <1>1, <1>3, <1>4 DEF Passed
<1>5. CASE r = ToAgent
  <2>1. status' = ToAgent /\ index' = index
    BY <1>5 DEF End
  <2>. QED
    BY <1>1, <2>1 DEF ProgressKept
<1>6. CASE r = NoRoute
  <2>1. status' = "RUNNING" /\ index' = index + 1
    BY <1>6 DEF GoTo
  <2>2. index' > Len(wf') => Passed(Len(wf))'
    BY <1>1, <1>4, <2>1
  <2>3. ASSUME Routeless'
        PROVE  /\ \A i \in 1..(index' - 1) : Passed(i)'
               /\ Len(completed') + Len(skipped') = index' - 1
    <3>1. /\ \A i \in 1..(index - 1) : Passed(i)
          /\ Len(completed) + Len(skipped) = index - 1
      BY <2>3 DEF Routeless, ProgressKept
    <3>2. \A i \in 1..(index' - 1) : Passed(i)'
      <4>. TAKE i \in 1..(index' - 1)
      <4>1. CASE i = index
        BY <1>1, <1>4, <4>1
      <4>2. CASE i # index
        <5>1. i \in 1..(index - 1) /\ i \in DOMAIN wf
          BY <1>1, <2>1, <4>2
        <5>. QED
          BY <1>4, <3>1, <5>1
      <4>. QED
        BY <4>1, <4>2
    <3>. QED
      BY <1>1, <1>3, <2>1, <3>1, <3>2
  <2>. QED
    BY <2>1, <2>2, <2>3 DEF ProgressKept
<1>7. CASE r \notin {NoRoute, ToAgent}
  <2>1. status' = "RUNNING" /\ index' = RouteIndex(r)
    BY <1>7 DEF GoTo
  <2>2. index' \in DOMAIN wf /\ wf[index'].id = r
    BY <1>1, <1>7, <2>1, RouteLeads DEF RunTypeOK
  <2>3. index' <= Len(wf) /\ index' \in Nat
    BY <1>1, <2>2
  <2>4. r \in StepIds
    <3>1. wf[index'] \in Steps
      BY <1>1, <2>2
    <3>. QED
      BY <2>2, <3>1 DEF Steps
  <2>5. ~Routeless'
    BY <1>1, <2>4 DEF Routeless
  <2>. QED
    BY <1>1, <2>1, <2>3, <2>5 DEF ProgressKept
<1>. QED
  BY <1>5, <1>6, <1>7

\* A step that leaves the record and the index alone ends the run at most, with
\* success only behind the workflow.
LEMMA ProgressStays ==
    ASSUME RunTypeOK, ProgressKept, UNCHANGED <<wf, index, completed, skipped>>,
           \/ status' = status
           \/ status' \notin {"RUNNING", "SUCCEEDED"}
           \/ status' = "SUCCEEDED" /\ status = "RUNNING" /\ index > Len(wf)
    PROVE  ProgressKept'
BY DEF ProgressKept, Routeless, Passed

\* A required step that failed is left by its failure route.
LEMMA FailureRoute ==
    ASSUME RunTypeOK, ProgressKept, status = "RUNNING", index <= Len(wf),
           UNCHANGED <<wf, completed, skipped>>,
           Step.on_failure \notin {NoRoute, ToAgent}, GoTo(Step.on_failure)
    PROVE  ProgressKept'
<1>1. /\ wf \in Seq(Steps) /\ index \in DOMAIN wf /\ Step = wf[index]
  BY StepTyped DEF RunTypeOK, Step
<1>2. status' = "RUNNING" /\ index' = RouteIndex(Step.on_failure)
  BY DEF GoTo
<1>3. index' \in DOMAIN wf /\ wf[index'].id = Step.on_failure
  BY <1>1, <1>2, RouteLeads DEF RunTypeOK
<1>4. index' <= Len(wf) /\ index' \in Nat /\ Len(wf) \in Nat
  BY <1>1, <1>3
<1>5. Step.on_failure \in StepIds
  <2>1. wf[index'] \in Steps
    BY <1>1, <1>3
  <2>. QED
    BY <1>3, <2>1 DEF Steps
<1>6. ~Routeless'
  BY <1>1, <1>5 DEF Routeless
<1>. QED
  BY <1>2, <1>4, <1>6 DEF ProgressKept

\* Nothing that is required is lost on the way.
LEMMA ProgressStep ==
    ASSUME RunTypeOK, ProgressKept, [RunNext]_runVars PROVE ProgressKept'
<1>. USE DEF RunTypeOK
<1>1. CASE AllStepsDone
  BY <1>1, ProgressStays DEF AllStepsDone, End, record, fixed
<1>2. CASE LimitReached
  BY <1>2, ProgressStays DEF LimitReached, End, record, fixed
<1>3. CASE StepBegins
  <2>1. status = "RUNNING" /\ index <= Len(wf) /\ wf' = wf
    BY <1>3 DEF StepBegins, fixed
  <2>2. CASE GuardFails /\ Step.optional
    <3>1. Skip /\ completed' = completed
      BY <2>2 DEF GuardFails
    <3>2. IF Step.on_failure = ToAgent THEN End(ToAgent) ELSE GoTo(Step.on_failure)
      BY <3>1 DEF Skip
    <3>3. skipped' = Append(skipped, Step.id)
      BY <3>1 DEF Skip
    <3>. QED
      BY <2>1, <2>2, <3>1, <3>2, <3>3, PassedOn
  <2>3. CASE ~(GuardFails /\ Step.optional)
    <3>1. /\ UNCHANGED <<index, completed, skipped>>
          /\ status' = status \/ status' \notin {"RUNNING", "SUCCEEDED"}
      BY <1>3, <2>3 DEF StepBegins, UnsafeHead, SafetyStop, GuardFails, End, AsksAgent,
                        CartRefused, PlanFails, Plan, record
    <3>. QED
      BY <2>1, <3>1, ProgressStays
  <2>. QED
    BY <2>2, <2>3
<1>4. CASE RepetitionStops
  BY <1>4, ProgressStays DEF RepetitionStops, End, record, fixed
<1>5. CASE Attempt
  <2>1. /\ UNCHANGED <<wf, index, completed, skipped>>
        /\ status' = status \/ status' \notin {"RUNNING", "SUCCEEDED"}
    BY <1>5 DEF Attempt, StopsDevice, ExecutorBlocks, SafetyStop, End, TargetMissing,
                Perform, record, fixed
  <2>. QED
    BY <2>1, ProgressStays
<1>6. CASE Verify
  BY <1>6, ProgressStays DEF Verify, record, fixed
<1>7. CASE Retry
  BY <1>7, ProgressStays DEF Retry, record, fixed
<1>8. CASE GiveUp
  <2>1. status = "RUNNING" /\ index <= Len(wf) /\ wf' = wf /\ completed' = completed
    BY <1>8 DEF GiveUp, fixed
  <2>2. CASE Step.optional
    <3>1. Skip
      BY <1>8, <2>2 DEF GiveUp
    <3>2. IF Step.on_failure = ToAgent THEN End(ToAgent) ELSE GoTo(Step.on_failure)
      BY <3>1 DEF Skip
    <3>3. skipped' = Append(skipped, Step.id)
      BY <3>1 DEF Skip
    <3>. QED
      BY <2>1, <2>2, <3>2, <3>3, PassedOn
  <2>3. CASE ~Step.optional
    <3>1. skipped' = skipped
      BY <1>8, <2>3 DEF GiveUp
    <3>2. CASE End(ToAgent) \/ End("FAILED")
      BY <2>1, <3>1, <3>2, ProgressStays DEF End
    <3>3. CASE Step.on_failure \notin {NoRoute, ToAgent} /\ GoTo(Step.on_failure)
      BY <2>1, <3>1, <3>3, FailureRoute
    <3>. QED
      BY <1>8, <2>3, <3>2, <3>3 DEF GiveUp
  <2>. QED
    BY <2>2, <2>3
<1>9. CASE StepCompletes
  <2>1. status = "RUNNING" /\ index <= Len(wf) /\ wf' = wf
    BY <1>9 DEF StepCompletes, fixed
  <2>2. /\ completed' = Append(completed, Step.id) /\ skipped' = skipped
        /\ IF Step.on_success = ToAgent THEN End(ToAgent) ELSE GoTo(Step.on_success)
    BY <1>9 DEF StepCompletes
  <2>. QED
    BY <2>1, <2>2, PassedOn
<1>10. CASE ScreenMoves
  BY <1>10, ProgressStays DEF ScreenMoves, record, fixed
<1>11. CASE UNCHANGED runVars
  BY <1>11, ProgressStays DEF runVars, record, fixed
<1>. QED
  BY <1>1, <1>2, <1>3, <1>4, <1>5, <1>6, <1>7, <1>8, <1>9, <1>10, <1>11
     DEF RunNext, EngineStep

\* A run begins with nothing behind it.
LEMMA ProgressInit == ASSUME RunInit PROVE ProgressKept
<1>1. wf \in Seq(Steps) /\ wf # <<>>
  BY DEF RunInit, ValidGraph
<1>2. index = 1 /\ Len(wf) \in Nat /\ Len(wf) # 0 /\ status = "RUNNING"
  BY <1>1 DEF RunInit
<1>3. Len(completed) = 0 /\ Len(skipped) = 0
  BY DEF RunInit
<1>. QED
  BY <1>2, <1>3 DEF ProgressKept

\* At the end of the workflow this is what success means.
LEMMA ProgressEarns == ASSUME RunTypeOK, ProgressKept PROVE SuccessIsEarned
<1>. SUFFICES ASSUME status = "SUCCEEDED" PROVE SuccessIsEarned
  BY DEF SuccessIsEarned
<1>1. /\ wf \in Seq(Steps) /\ Len(wf) \in Nat /\ Len(wf) # 0
      /\ DOMAIN wf = 1..Len(wf)
  BY DEF RunTypeOK, ValidGraph
<1>2. index = Len(wf) + 1
  BY <1>1 DEF ProgressKept, RunTypeOK
<1>3. Last(wf).id \in ToSet(completed) \/ Last(wf).optional
  BY <1>1, <1>2 DEF ProgressKept, Passed, Last
<1>4. ASSUME Routeless
      PROVE  /\ \A i \in DOMAIN wf : Passed(i)
             /\ Len(completed) + Len(skipped) = Len(wf)
  <2>1. /\ \A i \in 1..(index - 1) : Passed(i)
        /\ Len(completed) + Len(skipped) = index - 1
    BY <1>4 DEF ProgressKept
  <2>2. index - 1 = Len(wf)
    BY <1>1, <1>2
  <2>. QED
    BY <1>1, <2>1, <2>2
<1>. QED
  BY <1>3, <1>4 DEF SuccessIsEarned, Routeless, Passed

\* A run that succeeded did the whole of its workflow, for every workflow: its
\* last step is completed unless it is optional, and without routes every step
\* was completed, or skipped where that is allowed, and recorded once.
THEOREM SuccessEarned == RunSpec => []SuccessIsEarned
BY ProgressInit, ProgressStep, ProgressEarns, RunTypeCorrect, PTL DEF RunSpec
=============================================================================
