--------------------------- MODULE MCWorkflowRun ---------------------------
(* Instances of WorkflowRun for TLC: a shop with a home page, a result     *)
(* page and a payment page, and small workflows over it.                   *)
EXTENDS WorkflowRun

AllPages == {"home", "result", "pay"}
PayUnsafe == {"pay"}
ThreeSteps == {"open", "pick", "read"}

\* a step that is bound to nothing; the workflows below override fields
AnyStep(id) ==
    [id |-> id, stop |-> FALSE, guard |-> AllPages, found |-> AllPages,
     risky |-> FALSE, verify |-> FALSE, change |-> FALSE,
     expected |-> AllPages, plannable |-> TRUE, retry_limit |-> 0,
     optional |-> FALSE, requires_agent_decision |-> FALSE,
     requires_cart_opt_in |-> FALSE, on_success |-> NoRoute,
     on_failure |-> NoRoute]

\* open the result page, with a retry
Open == [AnyStep("open") EXCEPT
    !.found = {"home", "pay"}, !.verify = TRUE, !.change = TRUE,
    !.expected = {"result"}, !.retry_limit = 1]
\* pick something on it
Pick == [AnyStep("pick") EXCEPT !.guard = {"result"}, !.found = {"result"}]
\* read it: nothing to match, the screen need not change
Read == [AnyStep("read") EXCEPT
    !.verify = TRUE, !.expected = {"result"}, !.retry_limit = 2]

\* in line: a step that may be skipped between two that may not
Straight == <<Open, [Pick EXCEPT !.optional = TRUE],
              [Read EXCEPT !.guard = {"result"}]>>
\* a loop: reading falls back on opening, which falls back on picking, which
\* is optional and falls back on opening
Loop == <<[Open EXCEPT !.on_failure = "pick", !.on_success = "read"],
          [Pick EXCEPT !.optional = TRUE, !.on_failure = "open"],
          [Read EXCEPT !.retry_limit = 0, !.on_failure = "open"]>>
\* the cart: opt-in, then the device is stopped, then a risky step
Cart == <<[Pick EXCEPT !.requires_cart_opt_in = TRUE],
          [AnyStep("read") EXCEPT !.stop = TRUE, !.retry_limit = 1],
          [AnyStep("open") EXCEPT !.risky = TRUE]>>
\* ends that ask the agent
AskOnSkip == <<[Pick EXCEPT !.optional = TRUE, !.on_failure = ToAgent],
               [Read EXCEPT !.on_success = ToAgent]>>
AskOnFailure == <<[Open EXCEPT !.on_failure = ToAgent],
                  [AnyStep("pick") EXCEPT !.requires_agent_decision = TRUE]>>
Unplannable == <<[Open EXCEPT !.retry_limit = 0, !.optional = TRUE],
                 [AnyStep("pick") EXCEPT !.plannable = FALSE]>>

AllWorkflows == {Straight, Loop, Cart, AskOnSkip, AskOnFailure, Unplannable}
LoopOnly == {Loop}
=============================================================================
