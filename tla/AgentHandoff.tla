---------------------------- MODULE AgentHandoff ----------------------------
(***************************************************************************)
(* What follows a run of the workflow engine that ended with               *)
(* NEEDS_AGENT_DECISION: AgentDecisionRouter.route (agent/router.py) asks  *)
(* the planner (agent/planner.py), which asks the language model a bounded *)
(* number of times, and executes a decision that was accepted.  The screen *)
(* goes on changing while the model thinks.                                *)
(***************************************************************************)
EXTENDS WorkflowRun, FiniteSetsExt

CONSTANTS Decisions,    \* the well-formed answers of the model considered
          NoDecision,
          MaxCalls,     \* max_calls of the planner
          MaxBudget     \* bound on the retry_budget a caller gives

\* AgentDecision with its action.  An action matches its target on the pages
\* "found"; the only expectation the router has is that the screen changes.
DecisionType ==
    [action : BOOLEAN,      \* it has an action
     complete : BOOLEAN,    \* a click or an input names what it needs
     unsafe : BOOLEAN,      \* the planner's guard refuses its text
     refused : BOOLEAN,     \* the router's guard does
     risky : BOOLEAN,       \* the executor's guard does
     confident : BOOLEAN,   \* it reaches confidence_threshold
     stop : BOOLEAN,
     found : SUBSET Pages,
     verify : BOOLEAN,      \* requires_verification
     change : {TRUE},
     expected : {Pages}]

ASSUME DecisionsAssumption == Decisions \subseteq DecisionType
ASSUME CallsAssumption == MaxCalls \in Nat \ {0} /\ MaxBudget \in Nat
ASSUME NoDecisionAssumption == NoDecision \notin Decisions

VARIABLES
    apc,          \* where the router is
    budget,       \* context.retry_budget
    granted,      \* history: the budget the caller gave
    allowed,      \* attempts_allowed of plan()
    calls,        \* attempts of plan()
    decision,     \* the decision of an accepted plan
    planStatus,   \* AgentPlanResult.status
    routeStatus,  \* AgentRouteResult.status
    agentActs     \* history: actions the device was asked for by the router

plan == <<budget, granted, allowed, calls, decision, planStatus>>
agentVars == <<apc, plan, routeStatus, agentActs>>
handoffVars == <<runVars, agentVars>>

HandoffInit ==
    /\ RunInit
    /\ apc = "idle" /\ budget = 0 /\ granted = 0 /\ allowed = 0 /\ calls = 0
    /\ decision = NoDecision /\ planStatus = "none" /\ routeStatus = "none"
    /\ agentActs = 0

\* what the router leaves alone of the run, all but the device
run == <<fixed, pc, status, index, limits, record, current, known, trial,
         history>>

Answer(r) == routeStatus' = r /\ apc' = "done"

-----------------------------------------------------------------------------
(* AgentDecisionRouter.route, up to its call of the planner.               *)

InvalidHandoff ==
    /\ apc = "idle" /\ pc = "done" /\ status # ToAgent
    /\ Answer("INVALID_HANDOFF")
    /\ UNCHANGED <<run, stopped, shown, plan, agentActs>>

TakeHandoff ==
    /\ apc = "idle" /\ pc = "done" /\ status = ToAgent
    /\ \E b \in 0..MaxBudget :
           /\ budget' = b /\ granted' = b
           /\ allowed' = Min({MaxCalls, b + 1})
    /\ apc' = "plan"
    /\ UNCHANGED <<run, stopped, shown, calls, decision, planStatus, routeStatus,
                   agentActs>>

-----------------------------------------------------------------------------
(* AgentPlanner.plan: one call of the model per step.                      *)

PlanEnds(s) == planStatus' = s /\ UNCHANGED <<budget, granted, allowed>>

\* the router's answer to a plan that was not accepted
RejectPlan(s) ==
    /\ PlanEnds(s) /\ UNCHANGED decision
    /\ Answer(IF s = "SAFETY_STOP" THEN s ELSE "PLANNER_REJECTED")

MayAskAgain == calls + 1 < allowed

\* Variant: a repeated call costs nothing.
AskAgain_Free ==
    /\ MayAskAgain
    /\ calls' = calls + 1
    /\ UNCHANGED <<apc, budget, granted, allowed, decision, planStatus,
                   routeStatus>>

AskAgain ==
    /\ MayAskAgain
    /\ calls' = calls + 1 /\ budget' = budget - 1
    /\ UNCHANGED <<apc, granted, allowed, decision, planStatus, routeStatus>>

Exhausted(s) ==
    /\ ~MayAskAgain
    /\ calls' = calls + 1
    /\ RejectPlan(IF allowed > 1 THEN "RETRY_EXHAUSTED" ELSE s)

Unusable(s) == AskAgain \/ Exhausted(s)

\* Variant: the confidence of a decision is not looked at.
Trusted_Always(d) == TRUE

Trusted(d) == d.confident

Executable(d) == d.action => d.complete

Refuse(d) ==
    /\ Executable(d) /\ d.action /\ d.unsafe
    /\ calls' = calls + 1
    /\ RejectPlan("SAFETY_STOP")

SafeDecision(d) == Executable(d) /\ ~(d.action /\ d.unsafe)

NothingToDo(d) ==
    /\ SafeDecision(d) /\ Trusted(d) /\ ~d.action
    /\ calls' = calls + 1
    /\ RejectPlan("INVALID_ACTION")

Accept(d) ==
    /\ SafeDecision(d) /\ Trusted(d) /\ d.action
    /\ calls' = calls + 1
    /\ PlanEnds("ACCEPTED") /\ decision' = d
    /\ apc' = "bind" /\ UNCHANGED routeStatus

\* the model fails, answers something that is not a decision, or decides
AskModel ==
    /\ apc = "plan"
    /\ \/ \E s \in {"MALFORMED_OUTPUT", "PROVIDER_ERROR"} : Unusable(s)
       \/ \E d \in Decisions :
             \/ ~Executable(d) /\ Unusable("INVALID_ACTION")
             \/ SafeDecision(d) /\ ~Trusted(d) /\ Unusable("LOW_CONFIDENCE")
             \/ Refuse(d) \/ NothingToDo(d) \/ Accept(d)
    /\ UNCHANGED <<run, stopped, shown, agentActs>>

-----------------------------------------------------------------------------
(* The rest of route: the action is bound to the final observation of the  *)
(* run, which is not looked at again, and executed.                        *)

\* by the router's own guard or the executor's
StopRoute ==
    /\ decision.refused \/ (~decision.stop /\ Blocked(decision, current))
    /\ stopped' = TRUE /\ Answer("SAFETY_STOP")
    /\ UNCHANGED <<shown, agentActs>>

RouteStop ==
    /\ ~decision.refused /\ decision.stop
    /\ stopped' = TRUE
    /\ Answer("EXECUTED") \/ Answer("PLANNER_REJECTED")
    /\ UNCHANGED <<shown, agentActs>>

RouteMisses ==
    /\ ~decision.refused /\ ~decision.stop /\ Unmatched(decision, current)
    /\ Answer("PLANNER_REJECTED") /\ UNCHANGED <<stopped, shown, agentActs>>

RoutePerforms ==
    /\ ~decision.refused /\ ~decision.stop /\ MayPerform(decision, current)
    /\ agentActs' = agentActs + 1
    /\ \/ apc' = "check" /\ ScreenMayChange /\ UNCHANGED routeStatus
       \/ Answer("PLANNER_REJECTED") /\ ScreenMayChange
    /\ UNCHANGED stopped

Route ==
    /\ apc = "bind"
    /\ StopRoute \/ RouteStop \/ RouteMisses \/ RoutePerforms
    /\ UNCHANGED <<run, plan>>

RouteVerifies ==
    /\ apc = "check"
    /\ Answer(IF Met(decision, current, shown) THEN "EXECUTED"
              ELSE "PLANNER_REJECTED")
    /\ UNCHANGED <<run, stopped, shown, plan, agentActs>>

AgentStep ==
    InvalidHandoff \/ TakeHandoff \/ AskModel \/ Route \/ RouteVerifies

HandoffNext ==
    \/ EngineStep /\ UNCHANGED agentVars
    \/ ScreenMoves /\ UNCHANGED agentVars
    \/ AgentStep

\* The engine, the planner and the router are one thread that always goes on:
\* the device answers every call or lets it time out, a call of the model ends
\* with an answer or a ProviderError.  Nothing is asked of the screen.
HandoffSpec == HandoffInit /\ [][HandoffNext]_handoffVars
HandoffFairSpec ==
    HandoffSpec /\ WF_handoffVars(EngineStep /\ UNCHANGED agentVars)
                /\ WF_handoffVars(AgentStep)

-----------------------------------------------------------------------------
(* Properties.                                                             *)

\* Every variable of planner and router has its type.
AgentTypeOK ==
    /\ apc \in {"idle", "plan", "bind", "check", "done"}
    /\ apc # "idle" => pc = "done"
    /\ budget \in Nat /\ granted \in Nat /\ calls \in Nat /\ agentActs \in Nat
    /\ allowed \in 0..MaxCalls
    /\ decision \in Decisions \cup {NoDecision}
    /\ planStatus \in {"none", "ACCEPTED", "MALFORMED_OUTPUT", "PROVIDER_ERROR",
                       "INVALID_ACTION", "LOW_CONFIDENCE", "SAFETY_STOP",
                       "RETRY_EXHAUSTED"}
    /\ routeStatus \in {"none", "INVALID_HANDOFF", "PLANNER_REJECTED",
                        "SAFETY_STOP", "EXECUTED"}

\* In the composition the engine keeps its types as well.
HandoffTypeOK == RunTypeOK /\ AgentTypeOK

\* The device is asked for something on the word of the model only after a
\* handoff, for a decision that passed every check, on a safe page that has
\* its target, and once.
AgentActsOnlyAccepted ==
    [][agentActs' # agentActs =>
          /\ status = ToAgent /\ agentActs = 0
          /\ decision.complete /\ decision.confident
          /\ ~decision.unsafe /\ ~decision.refused /\ ~decision.risky
          /\ current.page \in decision.found \ Unsafe]_handoffVars

\* Neither limit on the calls of the model is passed, the budget pays for
\* every repeated call, and never goes below zero.
CallsArePaid ==
    /\ calls <= MaxCalls /\ calls <= granted + 1
    /\ budget >= 0 /\ calls <= granted - budget + 1

\* Neither the engine, on any route or retry, nor the router, after the calls of the
\* model, acts on an observation from before the last effect that was verified.
\* (The screens of attempts that failed may be newer than what both go by, and
\* the screen of the moment always may.)
ActsBehindNoEffect ==
    [][/\ performs' # performs => used.version >= verified.version
       /\ agentActs' # agentActs => current.version >= verified.version]_handoffVars

\* Every run ends, also one whose routes form a loop and whose screen never
\* shows what is expected, and whatever the model answers or fails to answer,
\* the router answers.
RouterAnswers == <>(apc = "done")
=============================================================================
