---------------------------- MODULE WorkflowRun ----------------------------
(***************************************************************************)
(* One run of the workflow engine (workflow/engine.py) with the executor   *)
(* (action/executor.py), the verifier (action/verifier.py) and the         *)
(* repetition detector (core/reliability.py) it calls.                     *)
(*                                                                         *)
(* The engine is one thread; what interleaves with it is the device, whose *)
(* screen may change between any two of the engine's looks at it.  Hence   *)
(* an action here ends where the code observes or operates the device.     *)
(*                                                                         *)
(* An observation is a version (its observation_id: a new one for every    *)
(* change of the screen) and a page, which stands for all that guards,     *)
(* targets and expectations look at.                                       *)
(***************************************************************************)
EXTENDS Naturals, Sequences, SequencesExt

CONSTANTS Pages,
          Unsafe,       \* pages whose text makes the SafetyGuard say STOP
          StepIds,
          Workflows,    \* the workflow definitions considered
          MaxSteps,     \* max_steps of the engine
          MaxVersion    \* bound on the changes of the screen

NoRoute == "none"
ToAgent == "NEEDS_AGENT_DECISION"

(***************************************************************************)
(* workflow/models.py: WorkflowStep.  The predicates of a step on the      *)
(* screen are sets of pages: "guard" where its precondition holds, "found" *)
(* where its target is matched (all pages for an action without one),      *)
(* "expected" where the state it expects holds.                            *)
(***************************************************************************)
Steps == [id : StepIds,
          stop : BOOLEAN,           \* the action is STOP
          guard : SUBSET Pages,
          found : SUBSET Pages,
          risky : BOOLEAN,          \* its own text is high-risk
          verify : BOOLEAN,         \* it has an expectation
          change : BOOLEAN,         \* require_observation_change of that
          expected : SUBSET Pages,
          plannable : BOOLEAN,      \* its task value and target are there
          retry_limit : Nat,
          optional : BOOLEAN,
          requires_agent_decision : BOOLEAN,
          requires_cart_opt_in : BOOLEAN,
          on_success : StepIds \cup {NoRoute, ToAgent},
          on_failure : StepIds \cup {NoRoute, ToAgent}]

\* WorkflowDefinition.validate_step_graph
ValidGraph(w) ==
    /\ w # <<>>
    /\ \A i, j \in DOMAIN w : w[i].id = w[j].id => i = j
    /\ \A i \in DOMAIN w : {w[i].on_success, w[i].on_failure} \subseteq
           {w[j].id : j \in DOMAIN w} \cup {NoRoute, ToAgent}

ASSUME WorkflowsAssumption ==
    /\ \A w \in Workflows : w \in Seq(Steps) /\ ValidGraph(w)
    /\ StepIds \cap {NoRoute, ToAgent} = {}
ASSUME LimitsAssumption == MaxSteps \in Nat \ {0} /\ MaxVersion \in Nat
ASSUME PagesAssumption == Unsafe \subseteq Pages

VARIABLES
    wf,         \* the workflow being run
    allowCart,  \* context.allow_cart
    pc,         \* where the engine is
    status,     \* context.status
    index,      \* index of the current step
    stepCount,  \* context.step_count
    retryCount, \* context.retry_count
    completed,  \* context.completed_steps
    skipped,    \* context.skipped_steps
    current,    \* the local observation of run()
    known,      \* context.current_observation
    used,       \* the observation of the attempt in _execute_with_retries
    attempt,    \* its number
    registered, \* observations the detector has counted for this request
    result,     \* status of the last attempt
    stopped,    \* device.stop() was called
    shown,      \* what the device would return from observe()
    verified,   \* history: the observation the last success was verified on
    performs,   \* history: number of actions the device was asked for
    acted       \* history: <<step id, observation>> of these

limits == <<stepCount, retryCount>>
record == <<completed, skipped>>
trial == <<used, attempt, registered, result>>
history == <<verified, performs, acted>>
fixed == <<wf, allowCart>>

runVars == <<fixed, pc, status, index, limits, record, current, known, trial,
             stopped, shown, history>>

Versions == 0..MaxVersion
Screens == [version : Versions, page : Pages]

RunInit ==
    /\ wf \in Workflows /\ allowCart \in BOOLEAN
    /\ shown \in [version : {0}, page : Pages]
    /\ current = shown /\ known = shown /\ used = shown
    /\ pc = "next" /\ status = "RUNNING" /\ index = 1
    /\ stepCount = 0 /\ retryCount = 0 /\ attempt = 0
    /\ completed = <<>> /\ skipped = <<>>
    /\ registered = {} /\ result = "none" /\ stopped = FALSE
    /\ verified = shown /\ performs = 0 /\ acted = {}

Step == wf[index]

-----------------------------------------------------------------------------
(* The device.                                                             *)

\* the screen changes, to another page or within one
ScreenChanges ==
    /\ shown.version < MaxVersion
    /\ \E p \in Pages : shown' = [version |-> shown.version + 1, page |-> p]

\* an operation may also have no effect at all
ScreenMayChange == ScreenChanges \/ UNCHANGED shown

ScreenMoves ==
    /\ ScreenChanges
    /\ UNCHANGED <<fixed, pc, status, index, limits, record, current, known,
                   trial, stopped, history>>

-----------------------------------------------------------------------------
(* Routing and ends of a run.                                              *)

\* Variant: a return that leaves context.status alone.
End_StatusKept(s) == pc' = "done" /\ UNCHANGED <<status, index>>

End(s) == status' = s /\ pc' = "done" /\ UNCHANGED index

RouteIndex(route) == CHOOSE i \in DOMAIN wf : wf[i].id = route

\* follow a route, or go on with the next step
GoTo(route) ==
    /\ index' = IF route = NoRoute THEN index + 1 ELSE RouteIndex(route)
    /\ pc' = "next" /\ UNCHANGED status

\* an optional step that failed is recorded as skipped
Skip ==
    /\ skipped' = Append(skipped, Step.id)
    /\ IF Step.on_failure = ToAgent THEN End(ToAgent) ELSE GoTo(Step.on_failure)

SafetyStop == stopped' = TRUE /\ End("SAFETY_STOP")

-----------------------------------------------------------------------------
(* The head of the loop in run().                                          *)

StepAllowed == stepCount < MaxSteps

AllStepsDone ==
    /\ pc = "next" /\ index > Len(wf)
    /\ End("SUCCEEDED")
    /\ UNCHANGED <<fixed, limits, record, current, known, trial, stopped,
                   shown, history>>

LimitReached ==
    /\ pc = "next" /\ index <= Len(wf) /\ ~StepAllowed
    /\ End("FAILED")
    /\ UNCHANGED <<fixed, limits, record, current, known, trial, stopped,
                   shown, history>>

UnsafeHead ==
    /\ current.page \in Unsafe
    /\ SafetyStop /\ UNCHANGED <<record, trial>>

\* Variant: every step is treated as optional.
GuardFails_AllOptional ==
    /\ current.page \notin Unsafe \cup Step.guard
    /\ Skip
    /\ UNCHANGED <<completed, trial, stopped>>

GuardFails ==
    /\ current.page \notin Unsafe \cup Step.guard
    /\ IF Step.optional THEN Skip ELSE End("FAILED") /\ UNCHANGED skipped
    /\ UNCHANGED <<completed, trial, stopped>>

AsksAgent ==
    /\ current.page \in Step.guard \ Unsafe
    /\ Step.requires_agent_decision
    /\ End(ToAgent) /\ UNCHANGED <<record, trial, stopped>>

CartRefused ==
    /\ current.page \in Step.guard \ Unsafe
    /\ ~Step.requires_agent_decision
    /\ Step.requires_cart_opt_in /\ ~allowCart
    /\ SafetyStop /\ UNCHANGED <<record, trial>>

MayAct ==
    /\ current.page \in Step.guard \ Unsafe
    /\ ~Step.requires_agent_decision
    /\ Step.requires_cart_opt_in => allowCart

PlanFails ==
    /\ MayAct /\ ~Step.plannable
    /\ End("FAILED") /\ UNCHANGED <<record, trial, stopped>>

\* every request has an action_id of its own, so the detector's counts for
\* earlier requests never matter again
Plan ==
    /\ MayAct /\ Step.plannable
    /\ used' = current /\ attempt' = 0 /\ registered' = {} /\ result' = "none"
    /\ pc' = "attempt" /\ UNCHANGED <<status, index, record, stopped>>

StepBegins ==
    /\ pc = "next" /\ index <= Len(wf) /\ StepAllowed
    /\ stepCount' = stepCount + 1
    /\ UnsafeHead \/ GuardFails \/ AsksAgent \/ CartRefused \/ PlanFails \/ Plan
    /\ UNCHANGED <<fixed, retryCount, current, known, shown, history>>

-----------------------------------------------------------------------------
(* One attempt: the detector of repetitions, then the executor.            *)

\* RepetitionDetector.register with threshold 2
Repeated == used \in registered

RepetitionStops ==
    /\ pc = "attempt" /\ Repeated
    /\ result' = "REPLAN_REQUIRED" /\ End(ToAgent)
    /\ UNCHANGED <<fixed, limits, record, current, known, used, attempt,
                   registered, stopped, shown, history>>

\* ActionExecutor.execute for an action with the fields of s, planned on the
\* observation o.

\* the executor refuses before it touches the device
Blocked(s, o) == o.page \in Unsafe \/ s.risky

Unmatched(s, o) == ~Blocked(s, o) /\ o.page \notin s.found

\* Variant: the executor leaves the safety check to its caller.
MayPerform_Unguarded(s, o) == o.page \in s.found

MayPerform(s, o) == ~Blocked(s, o) /\ o.page \in s.found

\* Variant: the expectation is held against the observation before.
Met_Before(s, before, fresh) == s.verify => before.page \in s.expected

\* ActionVerifier.verify
Met(s, before, fresh) ==
    s.verify => /\ s.change => fresh.version # before.version
                /\ fresh.page \in s.expected

ExecutorBlocks ==
    /\ Blocked(Step, used)
    /\ result' = "SAFETY_BLOCKED" /\ SafetyStop
    /\ UNCHANGED <<shown, performs, acted>>

TargetMissing ==
    /\ Unmatched(Step, used)
    /\ result' = "TARGET_NOT_FOUND"
    /\ pc' = "failed" /\ UNCHANGED <<status, index, stopped, shown, performs, acted>>

\* a STOP action is answered by the device and not verified
StopsDevice ==
    /\ stopped' = TRUE
    /\ \/ result' = "SUCCESS" /\ pc' = "passed"
       \/ result' = "ACTION_REJECTED" /\ pc' = "failed"
    /\ UNCHANGED <<status, index, shown, performs, acted>>

\* the device accepts and the executor goes on to verify; it rejects; or it
\* times out, whether or not the action took effect
Perform ==
    /\ MayPerform(Step, used)
    /\ performs' = performs + 1
    /\ acted' = acted \cup {<<Step.id, used>>}
    /\ \/ pc' = "verify" /\ ScreenMayChange /\ UNCHANGED result
       \/ pc' = "failed" /\ result' = "ACTION_REJECTED" /\ UNCHANGED shown
       \/ pc' = "failed" /\ result' = "TIMEOUT" /\ ScreenMayChange
    /\ UNCHANGED <<status, index, stopped>>

Attempt ==
    /\ pc = "attempt" /\ ~Repeated
    /\ registered' = registered \cup {used}
    /\ IF Step.stop THEN StopsDevice
       ELSE ExecutorBlocks \/ TargetMissing \/ Perform
    /\ UNCHANGED <<fixed, limits, record, current, known, used, attempt, verified>>

\* Variant: the executor waits for the expected screen.
Verify_Waits ==
    /\ pc = "verify" /\ Met(Step, used, shown)
    /\ pc' = "passed" /\ result' = "SUCCESS" /\ verified' = shown
    /\ UNCHANGED <<fixed, status, index, limits, record, current, known, used,
                   attempt, registered, stopped, shown, performs, acted>>

Verify ==
    /\ pc = "verify"
    /\ IF Met(Step, used, shown)
       THEN pc' = "passed" /\ result' = "SUCCESS" /\ verified' = shown
       ELSE pc' = "failed" /\ result' = "STATE_UNCHANGED" /\ UNCHANGED verified
    /\ UNCHANGED <<fixed, status, index, limits, record, current, known, used,
                   attempt, registered, stopped, shown, performs, acted>>

-----------------------------------------------------------------------------
(* After an attempt: the retry loop, and the rest of the loop in run().    *)

MayRetry == attempt < Step.retry_limit

Retry_Uncounted ==
    /\ pc = "failed" /\ MayRetry
    /\ attempt' = attempt + 1
    /\ used' = shown /\ known' = shown
    /\ pc' = "attempt"
    /\ UNCHANGED <<fixed, status, index, limits, record, current, registered,
                   result, stopped, shown, history>>

\* the request is bound to a new observation; the guard of the step is not
\* evaluated again, and the observation of run() stays the old one
Retry ==
    /\ pc = "failed" /\ MayRetry
    /\ attempt' = attempt + 1 /\ retryCount' = retryCount + 1
    /\ used' = shown /\ known' = shown
    /\ pc' = "attempt"
    /\ UNCHANGED <<fixed, status, index, stepCount, record, current, registered,
                   result, stopped, shown, history>>

\* RETRY_EXHAUSTED
GiveUp ==
    /\ pc = "failed" /\ ~MayRetry
    /\ IF Step.optional THEN Skip
       ELSE /\ UNCHANGED skipped
            /\ IF Step.on_failure = ToAgent THEN End(ToAgent)
               ELSE IF Step.on_failure # NoRoute THEN GoTo(Step.on_failure)
               ELSE End("FAILED")
    /\ UNCHANGED <<fixed, limits, completed, current, known, trial, stopped,
                   shown, history>>

\* Variant: run() goes on with the observation that the step was planned on.
StepCompletes_OldObservation ==
    /\ pc = "passed"
    /\ completed' = Append(completed, Step.id)
    /\ known' = shown /\ UNCHANGED current
    /\ IF Step.on_success = ToAgent THEN End(ToAgent) ELSE GoTo(Step.on_success)
    /\ UNCHANGED <<fixed, limits, skipped, trial, stopped, shown, history>>

StepCompletes ==
    /\ pc = "passed"
    /\ completed' = Append(completed, Step.id)
    /\ current' = shown /\ known' = shown
    /\ IF Step.on_success = ToAgent THEN End(ToAgent) ELSE GoTo(Step.on_success)
    /\ UNCHANGED <<fixed, limits, skipped, trial, stopped, shown, history>>

EngineStep ==
    \/ AllStepsDone \/ LimitReached \/ StepBegins
    \/ RepetitionStops \/ Attempt \/ Verify
    \/ Retry \/ GiveUp \/ StepCompletes

RunNext == EngineStep \/ ScreenMoves

RunSpec == RunInit /\ [][RunNext]_runVars

-----------------------------------------------------------------------------
(* Properties.                                                             *)

\* Every variable has its type; a finished run has a final status.
RunTypeOK ==
    /\ wf \in Workflows /\ allowCart \in BOOLEAN
    /\ pc \in {"next", "attempt", "verify", "failed", "passed", "done"}
    /\ status \in {"RUNNING", "SUCCEEDED", "FAILED", "SAFETY_STOP", ToAgent}
    /\ pc = "done" <=> status # "RUNNING"
    /\ index \in 1..(Len(wf) + 1)
    /\ pc \notin {"next", "done"} => index <= Len(wf)
    /\ stepCount \in Nat /\ retryCount \in Nat /\ performs \in Nat
    /\ completed \in Seq(StepIds) /\ skipped \in Seq(StepIds)
    /\ {current, known, used, shown, verified} \subseteq Screens
    /\ attempt \in Nat /\ registered \subseteq Screens
    /\ result \in {"none", "SUCCESS", "TARGET_NOT_FOUND", "ACTION_REJECTED",
                   "TIMEOUT", "STATE_UNCHANGED", "SAFETY_BLOCKED",
                   "REPLAN_REQUIRED"}
    /\ stopped \in BOOLEAN
    /\ acted \subseteq StepIds \X Screens

\* No action reaches the device on a page that stops the guard, without a
\* target there, without the opt-in for the cart, or beyond its retries, also
\* not a retry, which runs on a page the engine itself never checked; and one
\* request is never made twice on the same observation.
PerformsOnlyAllowed ==
    [][performs' # performs =>
          /\ used.page \in Step.found \ Unsafe
          /\ Step.requires_cart_opt_in => allowCart
          /\ attempt <= Step.retry_limit
          /\ used \notin registered]_runVars

\* A step counts as completed only after its expectation held on a screen
\* seen after the action, and when demanded on a changed one.
CompletedWasVerified ==
    [][completed' # completed /\ Step.verify /\ ~Step.stop =>
          /\ verified.page \in Step.expected
          /\ Step.change => verified.version # used.version]_runVars

\* Whatever the routes, retries and loops, the device is not asked more
\* often than the two counters of the context account for, and the engine
\* enters no more than MaxSteps steps.
EffortAccounted == stepCount <= MaxSteps /\ performs <= stepCount + retryCount

\* A run that succeeded did the whole of its workflow: without routes, every
\* step in its order, each completed or, when it is optional, skipped; with
\* routes, at least the last step.
SuccessIsEarned ==
    status = "SUCCEEDED" =>
        LET done == ToSet(completed)
            left == {i \in DOMAIN wf : wf[i].id \notin done}
        IN /\ Last(wf).id \in done \/ Last(wf).optional
           /\ (\A i \in DOMAIN wf : {wf[i].on_success, wf[i].on_failure}
                                       \cap StepIds = {}) =>
                 /\ \A i \in left : wf[i].optional /\ wf[i].id \in ToSet(skipped)
                 /\ Len(completed) + Len(skipped) = Len(wf)

\* An action is performed only on the newest observation the engine has
\* (interview/project_overview.md:75: the executor checks the observation
\* again and does not go on with old coordinates).
ActsOnNewest == [][performs' # performs => used = known]_runVars

\* The same action is never repeated on the same observation without a
\* replan (interview/project_overview.md:81).
RepetitionReplans ==
    [][performs' # performs => <<Step.id, used>> \notin acted]_runVars
=============================================================================
