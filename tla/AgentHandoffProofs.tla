------------------------- MODULE AgentHandoffProofs -------------------------
(* Theorems about AgentHandoff, for all workflows, decisions and limits.   *)
EXTENDS AgentHandoff, WorkflowRunProofs

USE DecisionsAssumption, CallsAssumption, NoDecisionAssumption

\* The two limits of plan() as one: the smaller of them.
LEMMA SmallerLimit ==
    ASSUME NEW m \in Nat, NEW n \in Nat
    PROVE  /\ Min({m, n}) \in {m, n}
           /\ Min({m, n}) <= m /\ Min({m, n}) <= n
<1>. DEFINE IsMin(x) == x \in {m, n} /\ \A y \in {m, n} : x <= y
<1>1. \E x \in {m, n} : \A y \in {m, n} : x <= y
  <2>1. CASE m <= n
    BY <2>1
  <2>2. CASE n <= m
    BY <2>2
  <2>. QED
    BY <2>1, <2>2
<1>. QED
  BY <1>1 DEF Min

\* The calls made so far are what the budget has lost, until the last one,
\* which is free.
CallsPaid ==
    /\ allowed <= MaxCalls /\ allowed <= granted + 1 /\ calls <= allowed
    /\ budget <= granted
    /\ apc = "idle" => calls = 0 /\ budget = 0 /\ granted = 0
    /\ apc = "plan" => calls = granted - budget /\ calls < allowed
    /\ calls <= granted - budget + 1

\* A decision that is about to be routed passed the planner's checks, in a
\* run that was handed over, and nothing was done before.
DecisionVetted ==
    /\ apc \in {"idle", "plan", "bind"} => agentActs = 0
    /\ apc \in {"plan", "bind"} => pc = "done" /\ status = ToAgent
    /\ apc \in {"idle", "plan", "bind", "check"} => routeStatus = "none"
    /\ apc = "check" => decision \in Decisions
    /\ apc = "bind" => /\ decision \in Decisions
                       /\ decision.action /\ decision.complete
                       /\ decision.confident /\ ~decision.unsafe

HandoffInvariant == AgentTypeOK /\ CallsPaid /\ DecisionVetted

-----------------------------------------------------------------------------
\* The engine does nothing more once its run is over.
LEMMA EngineStopsWhenDone ==
    ASSUME EngineStep PROVE pc # "done"
BY DEF EngineStep, AllStepsDone, LimitReached, StepBegins, RepetitionStops,
       Attempt, Verify, Retry, GiveUp, StepCompletes

\* Steps of the engine and of the screen keep the invariant.
LEMMA RunKeepsInvariant ==
    ASSUME HandoffInvariant, EngineStep \/ ScreenMoves, UNCHANGED agentVars
    PROVE  HandoffInvariant'
<1>1. CASE EngineStep
  <2>1. apc = "idle"
    BY <1>1, EngineStopsWhenDone DEF HandoffInvariant, AgentTypeOK
  <2>. QED
    BY <2>1 DEF HandoffInvariant, AgentTypeOK, CallsPaid, DecisionVetted,
                agentVars, plan
<1>2. CASE ScreenMoves
  BY <1>2 DEF ScreenMoves, HandoffInvariant, AgentTypeOK, CallsPaid,
              DecisionVetted, agentVars, plan
<1>. QED
  BY <1>1, <1>2

\* Taking a handoff fixes a positive number of calls within both limits.
LEMMA TakeHandoffKeepsInvariant ==
    ASSUME HandoffInvariant, TakeHandoff PROVE HandoffInvariant'
<1>1. PICK b \in 0..MaxBudget :
         /\ budget' = b /\ granted' = b /\ allowed' = Min({MaxCalls, b + 1})
  BY DEF TakeHandoff
<1>2. /\ allowed' \in 0..MaxCalls /\ allowed' > 0
      /\ allowed' <= b + 1
  BY <1>1, SmallerLimit
<1>3. /\ apc = "idle" /\ apc' = "plan" /\ pc' = "done" /\ status' = ToAgent
      /\ UNCHANGED <<calls, decision, planStatus, routeStatus, agentActs>>
  BY DEF TakeHandoff, run
<1>. QED
  BY <1>1, <1>2, <1>3
     DEF HandoffInvariant, AgentTypeOK, CallsPaid, DecisionVetted

\* An answer that cannot be used is paid for or ends the plan.
LEMMA UnusableKeepsInvariant ==
    ASSUME HandoffInvariant, apc = "plan", UNCHANGED <<run, agentActs>>,
           NEW s \in {"MALFORMED_OUTPUT", "PROVIDER_ERROR", "INVALID_ACTION",
                      "LOW_CONFIDENCE"},
           Unusable(s)
    PROVE  HandoffInvariant'
<1>. USE DEF HandoffInvariant, AgentTypeOK, CallsPaid, DecisionVetted, run
<1>1. CASE AskAgain
  <2>1. budget - 1 \in Nat
    BY <1>1 DEF AskAgain, MayAskAgain
  <2>. QED
    BY <1>1, <2>1 DEF AskAgain, MayAskAgain
<1>2. CASE Exhausted(s)
  BY <1>2 DEF Exhausted, RejectPlan, PlanEnds, Answer
<1>. QED
  BY <1>1, <1>2 DEF Unusable

\* Every answer of the model keeps the invariant.
LEMMA AskModelKeepsInvariant ==
    ASSUME HandoffInvariant, AskModel PROVE HandoffInvariant'
<1>. USE DEF HandoffInvariant, AgentTypeOK, CallsPaid, DecisionVetted
<1>1. apc = "plan" /\ UNCHANGED <<run, agentActs>>
  BY DEF AskModel
<1>2. ASSUME NEW s \in {"MALFORMED_OUTPUT", "PROVIDER_ERROR",
                        "INVALID_ACTION", "LOW_CONFIDENCE"}, Unusable(s)
      PROVE  HandoffInvariant'
  BY <1>1, <1>2, UnusableKeepsInvariant
<1>3. ASSUME NEW d \in Decisions, Refuse(d) PROVE HandoffInvariant'
  BY <1>1, <1>3 DEF Refuse, RejectPlan, PlanEnds, Answer, run
<1>4. ASSUME NEW d \in Decisions, NothingToDo(d) PROVE HandoffInvariant'
  BY <1>1, <1>4 DEF NothingToDo, RejectPlan, PlanEnds, Answer, run
<1>5. ASSUME NEW d \in Decisions, Accept(d) PROVE HandoffInvariant'
  BY <1>1, <1>5 DEF Accept, PlanEnds, SafeDecision, Executable, Trusted, run,
                    DecisionType
<1>. QED
  BY <1>2, <1>3, <1>4, <1>5 DEF AskModel

\* Routing asks the device at most once, after which the router is past it.
LEMMA RouteKeepsInvariant ==
    ASSUME HandoffInvariant, Route PROVE HandoffInvariant'
<1>. USE DEF HandoffInvariant, AgentTypeOK, CallsPaid, DecisionVetted, run, plan
<1>1. apc = "bind" /\ UNCHANGED <<run, plan>>
  BY DEF Route
<1>2. CASE StopRoute
  BY <1>1, <1>2 DEF StopRoute, Answer
<1>3. CASE RouteStop
  BY <1>1, <1>3 DEF RouteStop, Answer
<1>4. CASE RouteMisses
  BY <1>1, <1>4 DEF RouteMisses, Answer
<1>5. CASE RoutePerforms
  <2>1. agentActs' \in Nat /\ apc' \in {"check", "done"}
    BY <1>5 DEF RoutePerforms, Answer
  <2>2. \/ apc' = "check" /\ routeStatus' = routeStatus
        \/ apc' = "done" /\ routeStatus' = "PLANNER_REJECTED"
    BY <1>5 DEF RoutePerforms, Answer
  <2>. QED
    BY <1>1, <2>1, <2>2
<1>. QED
  BY <1>2, <1>3, <1>4, <1>5 DEF Route

\* So does every step of the composition.
LEMMA NextKeepsInvariant ==
    ASSUME HandoffInvariant, [HandoffNext]_handoffVars PROVE HandoffInvariant'
<1>1. CASE (EngineStep \/ ScreenMoves) /\ UNCHANGED agentVars
  BY <1>1, RunKeepsInvariant
<1>2. CASE InvalidHandoff
  BY <1>2 DEF InvalidHandoff, Answer, run, plan,
         HandoffInvariant, AgentTypeOK, CallsPaid, DecisionVetted
<1>3. CASE TakeHandoff
  BY <1>3, TakeHandoffKeepsInvariant
<1>4. CASE AskModel
  BY <1>4, AskModelKeepsInvariant
<1>5. CASE Route
  BY <1>5, RouteKeepsInvariant
<1>6. CASE RouteVerifies
  BY <1>6 DEF RouteVerifies, Answer, run, plan,
         HandoffInvariant, AgentTypeOK, CallsPaid, DecisionVetted
<1>7. CASE UNCHANGED handoffVars
  BY <1>7 DEF handoffVars, runVars, agentVars, plan,
         HandoffInvariant, AgentTypeOK, CallsPaid, DecisionVetted
<1>. QED
  BY <1>1, <1>2, <1>3, <1>4, <1>5, <1>6, <1>7 DEF HandoffNext, AgentStep

\* The inductive invariant: types, paid calls, vetted decisions.
THEOREM HandoffInvariantHolds == HandoffSpec => []HandoffInvariant
<1>1. HandoffInit => HandoffInvariant
  BY DEF HandoffInit, RunInit, HandoffInvariant, AgentTypeOK, CallsPaid,
         DecisionVetted
<1>. QED
  BY <1>1, NextKeepsInvariant, PTL DEF HandoffSpec

\* The router touches nothing of the run but the device, so that the engine's
\* invariant outlives the run.
LEMMA AgentKeepsRun ==
    ASSUME RunInvariant, AgentStep \/ UNCHANGED handoffVars PROVE RunInvariant'
<1>1. UNCHANGED run /\ stopped' \in BOOLEAN /\ shown' \in Screens
  <2>. USE DEF RunInvariant, RunTypeOK
  <2>1. CASE InvalidHandoff \/ TakeHandoff \/ AskModel \/ RouteVerifies
    BY <2>1 DEF InvalidHandoff, TakeHandoff, AskModel, RouteVerifies
  <2>2. CASE Route
    BY <2>2, ScreenTyped DEF Route, StopRoute, RouteStop, RouteMisses, RoutePerforms,
                             ScreenMayChange
  <2>3. CASE UNCHANGED handoffVars
    BY <2>3 DEF handoffVars, runVars, run, fixed, limits, record, trial, history
  <2>. QED
    BY <2>1, <2>2, <2>3 DEF AgentStep
<1>2. RunTypeOK'
  BY <1>1 DEF RunInvariant, RunTypeOK, run, fixed, limits, record, trial, history
<1>3. EffortPaid' /\ StepVetted'
  BY <1>1 DEF RunInvariant, EffortPaid, StepVetted, Step, run, fixed, limits, record,
              trial, history
<1>. QED
  BY <1>2, <1>3 DEF RunInvariant

\* The engine's invariant holds in the composition too.
THEOREM RunInvariantInHandoff == HandoffSpec => []RunInvariant
<1>1. HandoffInit => RunInvariant
  BY RunInvariantInit DEF HandoffInit
<1>2. RunInvariant /\ [HandoffNext]_handoffVars => RunInvariant'
  BY RunInvariantStep, AgentKeepsRun DEF HandoffNext, RunNext
<1>. QED
  BY <1>1, <1>2, PTL DEF HandoffSpec

\* Engine, planner and router keep their types.
THEOREM HandoffTypeCorrect == HandoffSpec => []HandoffTypeOK
<1>1. HandoffInvariant /\ RunInvariant => HandoffTypeOK
  BY DEF HandoffInvariant, RunInvariant, HandoffTypeOK
<1>. QED
  BY <1>1, HandoffInvariantHolds, RunInvariantInHandoff, PTL

\* The effort of the run stays accounted for, also after it was handed over.
THEOREM EffortInHandoff == HandoffSpec => []EffortAccounted
<1>1. RunInvariant => EffortAccounted
  BY DEF RunInvariant, RunTypeOK, EffortPaid, EffortAccounted
<1>. QED
  BY <1>1, RunInvariantInHandoff, PTL

\* Success still means that the workflow was done; planner and router, which only
\* begin where a run has ended, do not touch its record.
THEOREM SuccessInHandoff == HandoffSpec => []SuccessIsEarned
<1>1. HandoffInit => ProgressKept
  BY ProgressInit DEF HandoffInit
<1>2. RunInvariant /\ ProgressKept /\ [HandoffNext]_handoffVars => ProgressKept'
  <2>. SUFFICES ASSUME RunInvariant, ProgressKept, [HandoffNext]_handoffVars
                PROVE  ProgressKept'
    OBVIOUS
  <2>1. CASE EngineStep \/ ScreenMoves
    BY <2>1, ProgressStep DEF RunInvariant, RunNext
  <2>2. CASE AgentStep \/ UNCHANGED handoffVars
    <3>1. UNCHANGED run
      BY <2>2 DEF AgentStep, InvalidHandoff, TakeHandoff, AskModel, Route,
                  RouteVerifies, handoffVars, runVars, run, fixed, limits, record,
                  trial, history
    <3>. QED
      BY <3>1, ProgressStays DEF RunInvariant, run, fixed, record
  <2>. QED
    BY <2>1, <2>2 DEF HandoffNext
<1>3. RunInvariant /\ ProgressKept => SuccessIsEarned
  BY ProgressEarns DEF RunInvariant
<1>. QED
  BY <1>1, <1>2, <1>3, RunInvariantInHandoff, PTL DEF HandoffSpec

\* The screen, and what the engine goes by, are no older than the last verified
\* effect, except for the observation of run() until the step is completed.
EffectsBehind ==
    /\ shown.version >= verified.version
    /\ pc # "passed" => current.version >= verified.version
    /\ pc \in {"attempt", "verify", "failed"} => used.version >= verified.version

\* The screen only gets newer.
LEMMA ScreenAges ==
    ASSUME RunTypeOK, [HandoffNext]_handoffVars
    PROVE  shown'.version >= shown.version
<1>1. shown.version \in Nat
  BY DEF RunTypeOK, Screens, Versions
<1>2. UNCHANGED shown \/ ScreenChanges
  BY DEF HandoffNext, EngineStep, AllStepsDone, LimitReached, StepBegins, RepetitionStops,
         Attempt, StopsDevice, ExecutorBlocks, TargetMissing, Perform, Verify, Retry, GiveUp,
         StepCompletes, ScreenMoves, ScreenMayChange, AgentStep, InvalidHandoff, TakeHandoff,
         AskModel, Route, StopRoute, RouteStop, RouteMisses, RoutePerforms, RouteVerifies,
         handoffVars, runVars
<1>. QED
  BY <1>1, <1>2 DEF ScreenChanges

\* An attempt is bound to the newest screen or to what run() goes by; a verified
\* effect is the newest screen, and becomes what run() goes by.
LEMMA EngineKeepsEffects ==
    ASSUME RunTypeOK, EffectsBehind, EngineStep, shown'.version >= shown.version
    PROVE  EffectsBehind'
<1>v. /\ shown.version \in Nat /\ verified.version \in Nat /\ current.version \in Nat
      /\ used.version \in Nat
  BY DEF RunTypeOK, Screens, Versions
<1>. USE DEF EffectsBehind
<1>1. CASE AllStepsDone \/ LimitReached
  BY <1>1 DEF AllStepsDone, LimitReached, End, trial, history
<1>2. CASE StepBegins
  <2>1. /\ pc = "next" /\ UNCHANGED <<shown, verified, current>>
        /\ (pc' \in {"next", "done"}) \/ (pc' = "attempt" /\ used' = current)
    BY <1>2 DEF StepBegins, UnsafeHead, GuardFails, AsksAgent, CartRefused, PlanFails, Plan,
                SafetyStop, Skip, GoTo, End, history
  <2>. QED
    BY <2>1
<1>3. CASE RepetitionStops
  BY <1>3 DEF RepetitionStops, End, history
<1>4. CASE Attempt
  <2>1. pc = "attempt" /\ UNCHANGED <<verified, current, used>>
    BY <1>4 DEF Attempt
  <2>2. shown'.version \in Int
    <3>1. UNCHANGED shown \/ ScreenChanges
      BY <1>4 DEF Attempt, StopsDevice, ExecutorBlocks, TargetMissing, Perform, ScreenMayChange
    <3>. QED
      BY <1>v, <3>1 DEF ScreenChanges
  <2>. QED
    BY <2>1, <2>2, <1>v
<1>5. CASE Verify
  <2>1. /\ pc = "verify" /\ UNCHANGED <<shown, current, used>>
        /\ \/ pc' = "passed" /\ verified' = shown
           \/ pc' = "failed" /\ verified' = verified
    BY <1>5 DEF Verify
  <2>. QED
    BY <2>1, <1>v
<1>6. CASE Retry
  BY <1>6 DEF Retry, history
<1>7. CASE GiveUp
  <2>1. pc = "failed" /\ pc' \in {"next", "done"} /\ UNCHANGED <<shown, verified, current>>
    BY <1>7 DEF GiveUp, Skip, GoTo, End, history
  <2>. QED
    BY <2>1
<1>8. CASE StepCompletes
  <2>1. /\ pc' \in {"next", "done"} /\ current' = shown /\ UNCHANGED <<shown, verified>>
    BY <1>8 DEF StepCompletes, GoTo, End, history
  <2>. QED
    BY <2>1
<1>. QED
  BY <1>1, <1>2, <1>3, <1>4, <1>5, <1>6, <1>7, <1>8 DEF EngineStep

\* In the composition as well: planner and router leave all but the screen alone.
LEMMA EffectsStayBehind ==
    ASSUME RunTypeOK, EffectsBehind, [HandoffNext]_handoffVars PROVE EffectsBehind'
<1>1. shown'.version >= shown.version
  BY ScreenAges
<1>2. CASE EngineStep
  BY <1>1, <1>2, EngineKeepsEffects
<1>3. CASE ~EngineStep
  <2>1. UNCHANGED <<pc, verified, current, used>>
    BY <1>3 DEF HandoffNext, ScreenMoves, AgentStep, InvalidHandoff, TakeHandoff, AskModel,
                Route, RouteVerifies, run, handoffVars, runVars, trial, history
  <2>2. /\ shown.version \in Nat /\ shown'.version \in Int /\ verified.version \in Nat
    <3>1. UNCHANGED shown \/ ScreenChanges
      BY <1>3 DEF HandoffNext, ScreenMoves, ScreenMayChange, AgentStep, InvalidHandoff,
                  TakeHandoff, AskModel, Route, StopRoute, RouteStop, RouteMisses,
                  RoutePerforms, RouteVerifies, handoffVars, runVars
    <3> QED
      BY <3>1 DEF ScreenChanges, RunTypeOK, Screens, Versions
  <2>. QED
    BY <1>1, <2>1, <2>2 DEF EffectsBehind
<1>. QED
  BY <1>2, <1>3

\* Neither engine nor router acts on an observation from before the last effect that
\* was verified, for all workflows, decisions and limits.
THEOREM NothingActsBehind == HandoffSpec => ActsBehindNoEffect
<1>. DEFINE Timely == /\ performs' # performs => used.version >= verified.version
                      /\ agentActs' # agentActs => current.version >= verified.version
<1>1. HandoffInit /\ RunInvariant => EffectsBehind
  BY DEF HandoffInit, RunInit, EffectsBehind, RunInvariant, RunTypeOK, Screens, Versions
<1>2. RunInvariant /\ EffectsBehind /\ [HandoffNext]_handoffVars => EffectsBehind'
  BY EffectsStayBehind DEF RunInvariant
<1>3. RunInvariant /\ EffectsBehind /\ HandoffInvariant /\ [HandoffNext]_handoffVars => Timely
  <2>. SUFFICES ASSUME RunInvariant, EffectsBehind, HandoffInvariant, [HandoffNext]_handoffVars
                PROVE  Timely
    OBVIOUS
  <2>1. ASSUME performs' # performs PROVE pc = "attempt"
    BY <2>1 DEF HandoffNext, EngineStep, AllStepsDone, LimitReached, StepBegins,
                RepetitionStops, Attempt, Verify, Retry, GiveUp, StepCompletes, ScreenMoves,
                AgentStep, InvalidHandoff, TakeHandoff, AskModel, Route, RouteVerifies,
                run, handoffVars, runVars, history
  <2>2. ASSUME agentActs' # agentActs PROVE pc = "done"
    <3>1. Route
      BY <2>2 DEF HandoffNext, AgentStep, InvalidHandoff, TakeHandoff, AskModel,
                  RouteVerifies, handoffVars, agentVars
    <3>. QED
      BY <3>1 DEF Route, HandoffInvariant, DecisionVetted
  <2>. QED
    BY <2>1, <2>2 DEF EffectsBehind
<1>. QED
  BY <1>1, <1>2, <1>3, RunInvariantInHandoff, HandoffInvariantHolds, PTL
     DEF HandoffSpec, ActsBehindNoEffect

\* The planner never makes more calls than max_calls or than the budget pays
\* for, and the budget never goes below zero, for all limits and answers.
THEOREM CallsAreBounded == HandoffSpec => []CallsArePaid
<1>1. HandoffInvariant => CallsArePaid
  <2>. SUFFICES ASSUME HandoffInvariant PROVE CallsArePaid
    OBVIOUS
  <2>1. calls <= granted + 1
    BY DEF HandoffInvariant, AgentTypeOK, CallsPaid
  <2>. QED
    BY <2>1 DEF HandoffInvariant, AgentTypeOK, CallsPaid, CallsArePaid
<1>. QED
  BY <1>1, HandoffInvariantHolds, PTL

\* The device acts on the word of the model only for a decision that passed
\* every check, after a handoff, on a safe page with its target, and once.
THEOREM OnlyAcceptedActs == HandoffSpec => AgentActsOnlyAccepted
<1>1. HandoffInvariant /\ [HandoffNext]_handoffVars =>
         (agentActs' # agentActs =>
            /\ status = ToAgent /\ agentActs = 0
            /\ decision.complete /\ decision.confident
            /\ ~decision.unsafe /\ ~decision.refused /\ ~decision.risky
            /\ current.page \in decision.found \ Unsafe)
  <2>. SUFFICES ASSUME HandoffInvariant, [HandoffNext]_handoffVars,
                       agentActs' # agentActs
                PROVE  /\ status = ToAgent /\ agentActs = 0
                       /\ decision.complete /\ decision.confident
                       /\ ~decision.unsafe /\ ~decision.refused /\ ~decision.risky
                       /\ current.page \in decision.found \ Unsafe
    OBVIOUS
  <2>1. Route /\ RoutePerforms
    BY DEF HandoffNext, AgentStep, InvalidHandoff, TakeHandoff, AskModel, Route,
           StopRoute, RouteStop, RouteMisses, RouteVerifies, agentVars,
           handoffVars
  <2>2. apc = "bind"
    BY <2>1 DEF Route
  <2>3. /\ ~decision.refused /\ ~decision.risky
        /\ current.page \in decision.found \ Unsafe
    BY <2>1 DEF RoutePerforms, MayPerform, Blocked
  <2>. QED
    BY <2>2, <2>3 DEF HandoffInvariant, DecisionVetted
<1>. QED
  BY <1>1, HandoffInvariantHolds, PTL DEF HandoffSpec, AgentActsOnlyAccepted
=============================================================================
