------------------------------- MODULE MockShop -------------------------------
(***************************************************************************)
(* MockShoppingDevice (platform/mock_shopping.py), the device of the end-  *)
(* to-end tests, seen through its adapter (platform/mock/adapter.py) and   *)
(* acted on by callers that hold an observation of it: freely, or along    *)
(* the scenario of run_mock_e2e (platform/mock_e2e.py).                    *)
(*                                                                         *)
(* A node stands for its id; of a text only the terms that a decision of   *)
(* the code looks for are kept.                                            *)
(***************************************************************************)
EXTENDS Integers, Sequences

CONSTANT MaxRevision   \* bound on the revisions of the device

ASSUME RevisionAssumption == MaxRevision \in Nat

VARIABLES
    page, spec, coupon, cart, loaded, revision,   \* MockShoppingState
    halted,      \* safety_stop_requested
    view,        \* the observation a caller acts on
    at, outcome  \* step of the scenario (0: the callers act freely), its end

stateVars == <<page, spec, coupon, cart, loaded>>
shopVars == <<stateVars, revision, halted, view, at, outcome>>

\* what an observation shows, and its observation_id
Screen == [page |-> page, spec |-> page = "detail" /\ spec, coupon |-> page = "cart" /\ coupon,
           loaded |-> IF page = "results" THEN loaded ELSE 0]
Observed == [id |-> <<page, revision>>, screen |-> Screen]

ShopInit ==
    /\ page = "home" /\ spec = FALSE /\ coupon = FALSE /\ cart = 0 /\ loaded = 10
    /\ revision = 0 /\ halted = FALSE /\ view = Observed
    /\ at \in {0, 1} /\ outcome = "none"

-----------------------------------------------------------------------------
(* The device.                                                             *)

\* The nodes of the pages that can be acted on; loading more ends at 30.
NodesOn ==
    [home |-> {"home.search", "home.empty_action"}, search |-> {"search.input", "search.submit"},
     results |-> {"result.cola.1", "result.cola.2", "result.cola.330", "results.load_more"},
     detail |-> {"detail.spec_selector", "detail.coupon", "detail.add_to_cart"},
     spec_dialog |-> {"spec.capacity", "spec.2bottles"}, coupons |-> {"coupon.claim"},
     cart |-> {"cart.checkout"}, order_confirm |-> {"order.submit"}, payment |-> {}]

Nodes(s) == {n \in NodesOn[s.page] : n = "results.load_more" => s.loaded < 30}

Links == {<<"home", "home.search", "search">>, <<"search", "search.submit", "results">>,
          <<"results", "result.cola.1", "detail">>,
          <<"results", "results.load_more", "results">>,
          <<"detail", "detail.spec_selector", "spec_dialog">>,
          <<"spec_dialog", "spec.2bottles", "detail">>,
          <<"detail", "detail.coupon", "coupons">>, <<"coupons", "coupon.claim", "coupons">>,
          <<"detail", "detail.add_to_cart", "cart">>, <<"cart", "cart.checkout", "order_confirm">>,
          <<"order_confirm", "order.submit", "payment">>}

Lower(x, y) == IF x < y THEN x ELSE y

Click(id) ==
    \E link \in Links :
        /\ link[1] = page /\ link[2] = id /\ page' = link[3]
        /\ spec' = (spec \/ id = "spec.2bottles")
        /\ coupon' = (coupon \/ id = "coupon.claim")
        /\ cart' = IF id = "detail.add_to_cart" THEN 2 ELSE cart
        /\ loaded' = IF id = "results.load_more" THEN Lower(30, loaded + 10) ELSE loaded

SetText(id) == page = "search" /\ id = "search.input" /\ UNCHANGED stateVars

Scroll(forward) ==
    /\ page = "results"
    /\ loaded' = IF forward THEN Lower(30, loaded + 10)
                 ELSE IF loaded > 20 THEN loaded - 10 ELSE 10
    /\ UNCHANGED <<page, spec, coupon, cart>>

BackLinks_CouponsToResults ==
    {<<"search", "home">>, <<"results", "search">>, <<"detail", "results">>,
     <<"spec_dialog", "detail">>, <<"coupons", "results">>, <<"cart", "detail">>,
     <<"order_confirm", "cart">>, <<"payment", "order_confirm">>}

BackLinks ==
    {<<"search", "home">>, <<"results", "search">>, <<"detail", "results">>,
     <<"spec_dialog", "detail">>, <<"coupons", "detail">>, <<"cart", "detail">>,
     <<"order_confirm", "cart">>, <<"payment", "order_confirm">>}

Back == /\ \E link \in BackLinks : page = link[1] /\ page' = link[2]
        /\ UNCHANGED <<spec, coupon, cart, loaded>>

Wait == UNCHANGED stateVars

\* An operation the device accepts raises its revision.
Do_OnNewPage(action) ==
    /\ \/ action.type = "click" /\ Click(action.node)
       \/ action.type = "set_text" /\ SetText(action.node)
       \/ action.type = "scroll" /\ Scroll(action.forward)
       \/ action.type = "back" /\ Back
       \/ action.type = "wait" /\ Wait
    /\ revision' = IF page' # page THEN revision + 1 ELSE revision

Do(action) ==
    /\ \/ action.type = "click" /\ Click(action.node)
       \/ action.type = "set_text" /\ SetText(action.node)
       \/ action.type = "scroll" /\ Scroll(action.forward)
       \/ action.type = "back" /\ Back
       \/ action.type = "wait" /\ Wait
    /\ revision' = revision + 1

Accepts(action) ==
    \/ action.type = "click" /\ \E l \in Links : l[1] = page /\ l[2] = action.node
    \/ action.type = "set_text" /\ page = "search" /\ action.node = "search.input"
    \/ action.type = "scroll" /\ page = "results"
    \/ action.type = "back" /\ page # "home"
    \/ action.type = "wait"

\* The app it stands for; its dialog lies over the detail page.
App == INSTANCE ShopApp WITH page <- IF page = "spec_dialog" THEN "detail" ELSE page

-----------------------------------------------------------------------------
(* The adapter.                                                            *)

PageType(p) ==
    IF p \in {"search", "cart"} THEN p
    ELSE IF p \in {"detail", "spec_dialog", "coupons"} THEN "product" ELSE "unknown"

\* identify_page: the type of the page, else its title
Identify(p) ==
    IF PageType(p) # "unknown" THEN PageType(p) ELSE p

\* extract_product needs the node of the title
ReadsProduct(s) == Identify(s.page) = "product" /\ s.page = "detail"

ReadsList(s) == Identify(s.page) = "results"

\* _selector_map: the nodes the adapter names a role for
Roles == [search |-> {"home.search"}, search_input |-> {"search.input"},
          search_submit |-> {"search.submit"},
          product_result |-> {"result.cola.1", "result.cola.2", "result.cola.330"},
          spec_selector |-> {"detail.spec_selector"}, coupon |-> {"detail.coupon"},
          add_to_cart |-> {"detail.add_to_cart"}, coupon_claim |-> {"coupon.claim"},
          checkout |-> {"cart.checkout"}]

Selectors(s, role) == Nodes(s) \cap Roles[role]

CartAllowed(s, safe, allow) == (safe => allow) /\ Selectors(s, "add_to_cart") # {}

-----------------------------------------------------------------------------
(* The callers.                                                            *)

\* the SafetyGuard reads the whole text of the observation
Guarded_PaymentPage(s) == s.page = "payment"

Guarded(s) == s.page \in {"order_confirm", "payment"}

Actions(s) ==
    {[type |-> "click", node |-> n] : n \in Nodes(s)}
    \cup {[type |-> "set_text", node |-> n] : n \in Nodes(s) \cap {"search.input"}}
    \cup {[type |-> "scroll", forward |-> f] : f \in BOOLEAN}
    \cup {[type |-> "back"], [type |-> "wait"]}

Look ==
    /\ at = 0 /\ view' = Observed
    /\ UNCHANGED <<stateVars, revision, halted, at, outcome>>

\* ActionExecutor.execute on the observation in hand; another caller may have
\* acted since, and the observation taken after the action may be its own.
Execute ==
    /\ at = 0 /\ revision < MaxRevision
    /\ \E s \in {view.screen, Screen} : \E action \in Actions(s) :
           /\ ~Guarded(s)
           /\ Do(action)
    /\ view' \in {view, Observed'}
    /\ UNCHANGED <<halted, at, outcome>>

Stop ==
    /\ at = 0 /\ halted' = TRUE
    /\ UNCHANGED <<stateVars, revision, view, at, outcome>>

-----------------------------------------------------------------------------
(* run_mock_e2e.                                                           *)

\* The steps of its workflows, with the page type they expect; the agent makes
\* the fourth.
ClickOn(id, expected) == [do |-> [type |-> "click", node |-> id], expected |-> expected]
Scenario ==
    <<ClickOn("home.search", "search"),
      [do |-> [type |-> "set_text", node |-> "search.input"], expected |-> "any"],
      ClickOn("search.submit", "unknown"), ClickOn("result.cola.1", "any"),
      ClickOn("detail.spec_selector", "product"), ClickOn("spec.2bottles", "product"),
      ClickOn("detail.coupon", "product"), ClickOn("coupon.claim", "product"),
      [do |-> [type |-> "back"], expected |-> "product"],
      ClickOn("detail.add_to_cart", "cart"), ClickOn("cart.checkout", "unknown"),
      ClickOn("order.submit", "any")>>

Acting == at \in DOMAIN Scenario /\ outcome = "none"

Expected(step, p) == step.expected \in {"any", PageType(p)}

\* a step that is accepted and verified on the observation after it
ScenarioStep ==
    /\ Acting /\ ~Guarded(Screen) /\ Accepts(Scenario[at].do)
    /\ Do(Scenario[at].do) /\ Expected(Scenario[at], page')
    /\ view' = Observed' /\ at' = at + 1
    /\ outcome' = IF at = Len(Scenario) THEN "failure" ELSE outcome
    /\ UNCHANGED halted

\* or not: the scenario has failed
ScenarioFails ==
    /\ Acting /\ ~Guarded(Screen)
    /\ IF Accepts(Scenario[at].do)
       THEN Do(Scenario[at].do) /\ ~Expected(Scenario[at], page') ELSE UNCHANGED <<stateVars, revision>>
    /\ outcome' = "failure"
    /\ UNCHANGED <<halted, view, at>>

\* the engine stops the device; that is the end only of the last step
ScenarioStops ==
    /\ Acting /\ Guarded(Screen) /\ halted' = TRUE
    /\ outcome' = IF at = Len(Scenario) /\ App!CartPrice = 1090 THEN "success" ELSE "failure"
    /\ UNCHANGED <<stateVars, revision, view, at>>

ShopNext == Look \/ Execute \/ Stop \/ ScenarioStep \/ ScenarioFails \/ ScenarioStops
ShopSpec == /\ ShopInit /\ [][ShopNext]_shopVars
            /\ WF_shopVars(ScenarioStep \/ ScenarioFails \/ ScenarioStops)

-----------------------------------------------------------------------------

\* The device behaves as the app does.
ShowsTheApp == App!AppSpec

\* Whatever observation a caller acts on, however old, the guard keeps it from
\* the page of the payment.
NeverPays == page # "payment"

\* An observation whose id is still the device's shows what the device shows, so
\* that comparing ids is enough to tell that nothing has changed; and what the
\* adapter reads off an observation holds on the device: a product comes only from
\* the detail page, a list only from the results, the cart is allowed only where it
\* can be filled, and every selector, a result's aside, names a node the device
\* accepts.
ObservationsTellTruth ==
    /\ view.id = Observed.id => view.screen = Screen
    /\ ReadsProduct(Screen) = (page = "detail") /\ ReadsList(Screen) = (page = "results")
    /\ \A role \in DOMAIN Roles \ {"product_result"}, n \in Nodes(Screen) :
           n \in Roles[role] =>
               \E t \in {"click", "set_text"} : Accepts([type |-> t, node |-> n])
    /\ CartAllowed(Screen, TRUE, TRUE) = (page = "detail")

\* The scenario ends, on the page of the order, with the device stopped, two
\* pieces in the cart at the coupon's price and nothing submitted.
ScenarioSucceeds ==
    at = 1 ~> /\ outcome = "success" /\ page = "order_confirm" /\ halted
              /\ cart = 2 /\ spec /\ App!CartPrice = 1090
=============================================================================
