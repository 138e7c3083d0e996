--------------------------- MODULE SurfaceProofs ---------------------------
(***************************************************************************)
(* Theorems about the surfaces the shops are seen through: the mock device *)
(* (MockShop), the pages of a browser (BrowserPages) and the elements on   *)
(* them (BrowserNodes).                                                    *)
(***************************************************************************)
EXTENDS MockShop, BrowserPages, BrowserNodes, FiniteSetTheorems, WellFoundedInduction, TLAPS

-----------------------------------------------------------------------------
(* The mock shop.                                                          *)

ShopPages == {"home", "search", "results", "detail", "spec_dialog", "coupons", "cart",
              "order_confirm", "payment"}
ShopScreens == [page : ShopPages, spec : BOOLEAN, coupon : BOOLEAN, loaded : Nat]
Observations == [id : ShopPages \X Nat, screen : ShopScreens]

ShopTypeOK ==
    /\ page \in ShopPages /\ spec \in BOOLEAN /\ coupon \in BOOLEAN
    /\ cart \in Nat /\ loaded \in Nat /\ revision \in Nat
    /\ view \in Observations

\* An observation is not from the future, and one of this revision is this one.
ViewIsPast ==
    /\ view.id[2] <= revision
    /\ view.id[2] = revision => view = Observed

\* The inductive invariant of the mock shop.
ShopInv == ShopTypeOK /\ ViewIsPast /\ NeverPays

\* What is observed has its type.
LEMMA ObservedTyped == ASSUME ShopTypeOK PROVE Observed \in Observations
BY DEF ShopTypeOK, Observed, Observations, Screen, ShopScreens

\* An operation that is accepted keeps the types and raises the revision.
LEMMA DoTyped ==
    ASSUME ShopTypeOK, NEW action, Do(action)
    PROVE  /\ page' \in ShopPages /\ spec' \in BOOLEAN /\ coupon' \in BOOLEAN
           /\ cart' \in Nat /\ loaded' \in Nat /\ revision' = revision + 1
<1>. USE DEF ShopTypeOK
<1>1. revision' = revision + 1
  BY DEF Do
<1>2. CASE Click(action.node)
  BY <1>1, <1>2 DEF Click, Links, ShopPages, Lower
<1>3. CASE SetText(action.node) \/ Wait
  BY <1>1, <1>3 DEF SetText, Wait, stateVars
<1>4. CASE Scroll(action.forward)
  BY <1>1, <1>4 DEF Scroll, Lower, ShopPages
<1>5. CASE Back
  BY <1>1, <1>5 DEF Back, BackLinks, ShopPages
<1>. QED
  BY <1>2, <1>3, <1>4, <1>5 DEF Do

\* Only the button of the order leads to the page of the payment.
LEMMA OnlySubmitPays ==
    ASSUME ShopTypeOK, NeverPays, NEW action, Do(action), page' = "payment"
    PROVE  action.type = "click" /\ action.node = "order.submit" /\ page = "order_confirm"
<1>. USE DEF NeverPays
<1>1. CASE action.type = "click" /\ Click(action.node)
  BY <1>1 DEF Click, Links
<1>2. CASE ~(action.type = "click" /\ Click(action.node))
  BY <1>2 DEF Do, SetText, Scroll, Back, BackLinks, Wait, stateVars
<1>. QED
  BY <1>1, <1>2

\* That button is only on the page of the order, where the guard says STOP.
LEMMA GuardHidesSubmit ==
    ASSUME NEW s \in ShopScreens, ~Guarded(s), NEW action \in Actions(s),
           action.type = "click"
    PROVE  action.node # "order.submit"
<1>1. action.node \in Nodes(s)
  BY DEF Actions
<1>2. "order.submit" \notin NodesOn[s.page]
  BY DEF NodesOn, Guarded, ShopScreens, ShopPages
<1>. QED
  BY <1>1, <1>2 DEF Nodes

\* A caller that operates the device, on whatever observation, keeps the invariant.
LEMMA ExecuteKeeps ==
    ASSUME ShopInv, Execute PROVE ShopInv'
<1>. USE DEF ShopInv
<1>1. PICK s \in {view.screen, Screen} : \E action \in Actions(s) : ~Guarded(s) /\ Do(action)
  BY DEF Execute
<1>2. PICK action \in Actions(s) : ~Guarded(s) /\ Do(action)
  BY <1>1
<1>3. s \in ShopScreens
  <2>1. view.screen \in ShopScreens
    BY DEF ShopTypeOK, Observations
  <2>2. Screen \in ShopScreens
    BY DEF ShopTypeOK, Screen, ShopScreens
  <2>. QED
    BY <2>1, <2>2
<1>4. NeverPays'
  BY <1>2, <1>3, OnlySubmitPays, GuardHidesSubmit DEF NeverPays
<1>5. /\ page' \in ShopPages /\ spec' \in BOOLEAN /\ coupon' \in BOOLEAN
      /\ cart' \in Nat /\ loaded' \in Nat /\ revision' = revision + 1
  BY <1>2, DoTyped
<1>6. Observed' \in Observations
  BY <1>5 DEF ShopTypeOK, Observed, Observations, Screen, ShopScreens
<1>7. ShopTypeOK'
  BY <1>5, <1>6 DEF Execute, ShopTypeOK
<1>8. ViewIsPast'
  <2>1. CASE view' = view
    <3>1. view.id[2] <= revision /\ view.id[2] \in Nat /\ revision \in Nat
      BY DEF ViewIsPast, ShopTypeOK, Observations
    <3>. QED
      BY <1>5, <2>1, <3>1 DEF ViewIsPast
  <2>2. CASE view' = Observed'
    <3>1. Observed'.id[2] = revision' /\ revision' \in Nat
      BY <1>5 DEF Observed, ShopTypeOK
    <3>. QED
      BY <2>2, <3>1 DEF ViewIsPast
  <2>. QED
    BY <2>1, <2>2 DEF Execute
<1>. QED
  BY <1>4, <1>7, <1>8

\* So does a step of the scenario, accepted or not.
LEMMA ScenarioKeeps ==
    ASSUME ShopInv, ScenarioStep \/ ScenarioFails PROVE ShopInv'
<1>. USE DEF ShopInv
<1>1. page \notin {"order_confirm", "payment"}
  BY DEF ScenarioStep, ScenarioFails, Guarded, Screen
<1>2. CASE Do(Scenario[at].do)
  <2>1. /\ page' \in ShopPages /\ spec' \in BOOLEAN /\ coupon' \in BOOLEAN
        /\ cart' \in Nat /\ loaded' \in Nat /\ revision' = revision + 1
    BY <1>2, DoTyped
  <2>2. NeverPays'
    BY <1>1, <1>2, OnlySubmitPays DEF NeverPays
  <2>3. Observed' \in Observations /\ Observed'.id[2] = revision' /\ revision' \in Nat
    BY <2>1 DEF ShopTypeOK, Observed, Observations, Screen, ShopScreens
  <2>4. view' \in {view, Observed'}
    BY DEF ScenarioStep, ScenarioFails
  <2>5. ShopTypeOK'
    BY <2>1, <2>3, <2>4 DEF ShopTypeOK
  <2>6. view.id[2] <= revision /\ view.id[2] \in Nat /\ revision \in Nat
    BY DEF ViewIsPast, ShopTypeOK, Observations
  <2>7. ViewIsPast'
    BY <2>1, <2>3, <2>4, <2>6 DEF ViewIsPast
  <2>. QED
    BY <2>2, <2>5, <2>7
<1>3. CASE ~Do(Scenario[at].do)
  <2>1. UNCHANGED <<stateVars, revision, view>>
    BY <1>3 DEF ScenarioStep, ScenarioFails
  <2>. QED
    BY <2>1 DEF stateVars, ShopTypeOK, ViewIsPast, Observed, Screen, NeverPays
<1>. QED
  BY <1>2, <1>3

\* The invariant holds in the beginning and is inductive.
LEMMA ShopInvHolds == ShopSpec => []ShopInv
<1>1. ShopInit => ShopInv
  <2>. SUFFICES ASSUME ShopInit PROVE ShopInv
    OBVIOUS
  <2>1. ShopTypeOK
    BY DEF ShopInit, ShopTypeOK, ShopPages, Observed, Observations, Screen, ShopScreens
  <2>. QED
    BY <2>1 DEF ShopInit, ShopInv, ViewIsPast, NeverPays, Observed
<1>2. ShopInv /\ [ShopNext]_shopVars => ShopInv'
  <2>. SUFFICES ASSUME ShopInv, [ShopNext]_shopVars PROVE ShopInv'
    OBVIOUS
  <2>1. CASE Look
    <3>1. Observed \in Observations
      BY ObservedTyped DEF ShopInv
    <3>2. view' = Observed /\ Observed' = Observed
      BY <2>1 DEF Look, stateVars, Observed, Screen
    <3>3. Observed.id[2] = revision /\ revision \in Nat
      BY DEF Observed, ShopInv, ShopTypeOK
    <3>. QED
      BY <2>1, <3>1, <3>2, <3>3 DEF Look, stateVars, ShopInv, ShopTypeOK, ViewIsPast, NeverPays
  <2>2. CASE Execute
    BY <2>2, ExecuteKeeps
  <2>3. CASE ScenarioStep \/ ScenarioFails
    BY <2>3, ScenarioKeeps
  <2>4. CASE Stop \/ ScenarioStops \/ UNCHANGED shopVars
    BY <2>4 DEF Stop, ScenarioStops, shopVars, stateVars, ShopInv, ShopTypeOK, ViewIsPast,
       Observed, Screen, NeverPays
  <2>. QED
    BY <2>1, <2>2, <2>3, <2>4 DEF ShopNext
<1>. QED
  BY <1>1, <1>2, PTL DEF ShopSpec

\* Nobody gets to the page of the payment, however old the observation that is
\* acted on and however many callers act.
THEOREM ShopNeverPays == ShopSpec => []NeverPays
<1>1. ShopInv => NeverPays
  BY DEF ShopInv
<1>. QED
  BY <1>1, ShopInvHolds, PTL

\* What the adapter reads off the current observation is true of the device.
LEMMA AdapterReadsTruth ==
    ASSUME ShopTypeOK
    PROVE  /\ ReadsProduct(Screen) = (page = "detail")
           /\ ReadsList(Screen) = (page = "results")
           /\ CartAllowed(Screen, TRUE, TRUE) = (page = "detail")
<1>1. Screen.page = page
  BY DEF Screen
<1>2. ReadsProduct(Screen) = (page = "detail")
  BY <1>1 DEF ReadsProduct, Identify, PageType
<1>3. ReadsList(Screen) = (page = "results")
  BY <1>1 DEF ReadsList, Identify, PageType, ShopTypeOK, ShopPages
<1>4. "detail.add_to_cart" \in NodesOn[page] <=> page = "detail"
  BY DEF ShopTypeOK, ShopPages, NodesOn
<1>5. Selectors(Screen, "add_to_cart") # {} <=> page = "detail"
  BY <1>1, <1>4 DEF Selectors, Roles, Nodes
<1>. QED
  BY <1>2, <1>3, <1>5 DEF CartAllowed

\* A node with a role, a result's aside, can be operated where it is.
LEMMA RolesAreAccepted ==
    ASSUME ShopTypeOK, NEW role \in DOMAIN Roles \ {"product_result"},
           NEW n \in Nodes(Screen), n \in Roles[role]
    PROVE  \E t \in {"click", "set_text"} : Accepts([type |-> t, node |-> n])
<1>1. n \in NodesOn[page] /\ page \in ShopPages
  BY DEF Nodes, Screen, ShopTypeOK
<1>2. n \in {"home.search", "search.input", "search.submit", "detail.spec_selector",
             "detail.coupon", "detail.add_to_cart", "coupon.claim", "cart.checkout"}
  BY DEF Roles
<1>3. CASE n = "search.input"
  <2>1. page = "search"
    BY <1>1, <1>3 DEF NodesOn, ShopPages
  <2>. QED
    BY <1>3, <2>1 DEF Accepts
<1>4. CASE n # "search.input"
  <2>1. \E l \in Links : l[1] = page /\ l[2] = n
    BY <1>1, <1>2, <1>4 DEF NodesOn, ShopPages, Links
  <2>. QED
    BY <2>1 DEF Accepts
<1>. QED
  BY <1>3, <1>4

\* Comparing ids tells whether anything has changed, and what the adapter reads
\* off an observation holds on the device.
THEOREM ObservationsAreTrue == ShopSpec => []ObservationsTellTruth
<1>1. ShopInv => ObservationsTellTruth
  <2>. SUFFICES ASSUME ShopInv PROVE ObservationsTellTruth
    OBVIOUS
  <2>1. view.id = Observed.id => view.screen = Screen
    BY DEF ShopInv, ViewIsPast, Observed
  <2>. QED
    BY <2>1, AdapterReadsTruth, RolesAreAccepted DEF ShopInv, ObservationsTellTruth
<1>. QED
  BY <1>1, ShopInvHolds, PTL

\* Every operation of the device is something its app does, or shows no change of
\* what the app has: a text typed, a list scrolled, a dialog over the detail page.
LEMMA DoesAsTheApp ==
    ASSUME ShopTypeOK, NEW action, Do(action)
    PROVE  App!AppNext \/ UNCHANGED App!appVars
<1>. USE DEF ShopTypeOK, App!AppNext, App!appVars
<1>1. CASE Click(action.node)
  <2>1. PICK link \in Links :
           /\ link[1] = page /\ link[2] = action.node /\ page' = link[3]
           /\ spec' = (spec \/ action.node = "spec.2bottles")
           /\ coupon' = (coupon \/ action.node = "coupon.claim")
    BY <1>1 DEF Click
  <2>2. CASE link[2] \in {"results.load_more", "detail.spec_selector"}
    BY <2>1, <2>2 DEF Links
  <2>3. CASE link[2] = "spec.2bottles"
    <3>1. page = "spec_dialog" /\ page' = "detail"
      BY <2>1, <2>3 DEF Links
    <3>2. action.node = "spec.2bottles" /\ action.node # "coupon.claim"
      BY <2>1, <2>3
    <3>3. spec' /\ spec' \in BOOLEAN
      BY <2>1, <3>2
    <3>4. coupon' = coupon
      BY <2>1, <3>2
    <3>. QED
      BY <3>1, <3>3, <3>4 DEF App!ChooseSpec
  <2>4. CASE link[2] = "coupon.claim"
    <3>1. page = "coupons" /\ page' = "coupons"
      BY <2>1, <2>4 DEF Links
    <3>2. action.node = "coupon.claim" /\ action.node # "spec.2bottles"
      BY <2>1, <2>4
    <3>3. coupon' /\ coupon' \in BOOLEAN
      BY <2>1, <3>2
    <3>4. spec' = spec
      BY <2>1, <3>2
    <3>. QED
      BY <3>1, <3>3, <3>4 DEF App!Claim
  <2>5. CASE link[2] \notin {"results.load_more", "detail.spec_selector",
                             "spec.2bottles", "coupon.claim"}
    <3>1. spec' = spec /\ coupon' = coupon
      BY <2>1, <2>5
    <3>. QED
      BY <2>1, <2>5, <3>1 DEF Links, App!Press, App!Buttons
  <2>. QED
    BY <2>2, <2>3, <2>4, <2>5
<1>2. CASE SetText(action.node) \/ Wait
  BY <1>2 DEF SetText, Wait, stateVars
<1>3. CASE Scroll(action.forward)
  BY <1>3 DEF Scroll
<1>4. CASE Back
  BY <1>4 DEF Back, BackLinks, App!BackPressed, App!Previous
<1>. QED
  BY <1>1, <1>2, <1>3, <1>4 DEF Do

\* The mock device implements the app it stands for.
THEOREM ShopShowsTheApp == ShopSpec => ShowsTheApp
<1>1. ShopInit => App!AppInit
  BY DEF ShopInit, App!AppInit
<1>2. ShopInv /\ [ShopNext]_shopVars => [App!AppNext]_(App!appVars)
  <2>. SUFFICES ASSUME ShopInv, [ShopNext]_shopVars
                PROVE  App!AppNext \/ UNCHANGED App!appVars
    OBVIOUS
  <2>0. ShopTypeOK
    BY DEF ShopInv
  <2>1. CASE Look \/ Stop \/ ScenarioStops \/ UNCHANGED shopVars
    BY <2>1 DEF Look, Stop, ScenarioStops, shopVars, stateVars, App!appVars
  <2>2. CASE Execute
    BY <2>0, <2>2, DoesAsTheApp DEF Execute
  <2>3. CASE ScenarioStep
    BY <2>0, <2>3, DoesAsTheApp DEF ScenarioStep
  <2>4. CASE ScenarioFails
    <3>1. CASE Accepts(Scenario[at].do)
      BY <2>0, <2>4, <3>1, DoesAsTheApp DEF ScenarioFails
    <3>2. CASE ~Accepts(Scenario[at].do)
      BY <2>4, <3>2 DEF ScenarioFails, stateVars, App!appVars
    <3>. QED
      BY <3>1, <3>2
  <2>. QED
    BY <2>1, <2>2, <2>3, <2>4 DEF ShopNext
<1>. QED
  BY <1>1, <1>2, ShopInvHolds, PTL DEF ShopSpec, ShowsTheApp, App!AppSpec

-----------------------------------------------------------------------------
(* The pages of a browser.                                                 *)

\* Both adapters read products only from a page where they may.
FoundInShops ==
    found.items # {} =>
        /\ Allowed(found.page)
        /\ found.by = "taobao" => /\ ~found.page.risk /\ ~found.page.login
                                  /\ ~found.page.loading /\ found.page.dialog = "none"
        /\ found.by = "web" => found.page.words \cap {"cart", "order title", "order"} = {}

PageStates == {"UNKNOWN", "RISK_BLOCKED", "LOGIN_REQUIRED", "POPUP", "LOADING",
               "PRODUCT_DETAIL", "SEARCH_RESULT", "PRODUCT_LIST", "EMPTY_RESULT"}
Reports == [status : {"NOT_VERIFIED", "BLOCKED", "LIVE_READONLY_VERIFIED"},
            state : PageStates, host : BOOLEAN, items : Nat]

\* Where the runner is: it looks before it assesses, its verdict is on the page it
\* holds, and it calls nothing verified before the end.
RunnerOnItsWay ==
    /\ held \in Sites \cup {NoPage} /\ site \in Sites /\ report \in Reports
    /\ phase = "snapshot" => runner \in {"look", "look again", "free"}
    /\ runner = "conclude" => report.state = Assess(held)
    /\ report.status = "LIVE_READONLY_VERIFIED" =>
         /\ runner = "done" /\ found.page = held /\ report.state = Assess(held)
         /\ report.items > 0 /\ report.items = Cardinality(found.items)

\* The inductive invariant of the browser.
BrowserInv == FoundInShops /\ RunnerOnItsWay

\* The Taobao adapter finds products only on undisturbed pages of allowed hosts.
LEMMA TaobaoFindsInShops ==
    ASSUME NEW s, TaobaoProducts(s) # {}
    PROVE  Allowed(s) /\ ~s.risk /\ ~s.login /\ ~s.loading /\ s.dialog = "none"
BY DEF TaobaoProducts, Assess, Recognised

\* The web adapter finds them on no page that looks like a cart or an order.
LEMMA WebFindsInShops ==
    ASSUME NEW s, WebProducts(s) # {}
    PROVE  Allowed(s) /\ s.words \cap {"cart", "order title", "order"} = {}
BY DEF WebProducts, WebPage, TypeOf, Recognised

\* The same holds of the one product of a detail page.
LEMMA DetailFindsInShops ==
    ASSUME NEW s
    PROVE  /\ DetailedProduct(s, TaobaoPage(s)) # {} =>
                  Allowed(s) /\ ~s.risk /\ ~s.login /\ ~s.loading /\ s.dialog = "none"
           /\ DetailedProduct(s, WebPage(s)) # {} =>
                  Allowed(s) /\ s.words \cap {"cart", "order title", "order"} = {}
<1>1. DetailedProduct(s, TaobaoPage(s)) # {} =>
          Allowed(s) /\ ~s.risk /\ ~s.login /\ ~s.loading /\ s.dialog = "none"
  BY DEF DetailedProduct, TaobaoPage, Assess, Recognised
<1>2. DetailedProduct(s, WebPage(s)) # {} =>
          Allowed(s) /\ s.words \cap {"cart", "order title", "order"} = {}
  BY DEF DetailedProduct, WebPage, TypeOf, Recognised
<1>. QED
  BY <1>1, <1>2

\* Assessing a page gives one of its states.
LEMMA AssessTyped == ASSUME NEW s PROVE Assess(s) \in PageStates
BY DEF Assess, PageStates

\* There are finitely many cards.
LEMMA CardsFinite == IsFiniteSet(Card)
<1>. DEFINE texts == {"none", "price", "title"}
            triples == (SUBSET (1..5)) \X (BOOLEAN \X texts)
            of == [p \in triples |-> [shapes |-> p[1], marked |-> p[2][1], text |-> p[2][2]]]
<1>1. IsFiniteSet(BOOLEAN) /\ IsFiniteSet(texts)
  <2>1. IsFiniteSet({TRUE} \cup {FALSE}) /\ IsFiniteSet(({"none"} \cup {"price"}) \cup {"title"})
    BY FS_Singleton, FS_Union
  <2>2. BOOLEAN = {TRUE} \cup {FALSE} /\ texts = ({"none"} \cup {"price"}) \cup {"title"}
    OBVIOUS
  <2>. QED
    BY <2>1, <2>2
<1>2. IsFiniteSet(SUBSET (1..5))
  <2>1. \A a, b \in Int : IsFiniteSet(a..b)
    BY FS_Interval
  <2>2. 1 \in Int /\ 5 \in Int
    OBVIOUS
  <2>3. IsFiniteSet(1..5)
    BY <2>1, <2>2, Zenon
  <2>. QED
    BY <2>3, FS_SUBSET
<1>3. IsFiniteSet(triples)
  BY <1>1, <1>2, FS_Product
<1>4. of \in Surjection(triples, Card)
  <2>1. of \in [triples -> Card]
    BY DEF Card
  <2>2. ASSUME NEW c \in Card PROVE \E p \in triples : of[p] = c
    <3>1. <<c.shapes, <<c.marked, c.text>>>> \in triples
      BY DEF Card
    <3>2. of[<<c.shapes, <<c.marked, c.text>>>>] = c
      BY <3>1 DEF Card
    <3>. QED
      BY <3>1, <3>2
  <2>. QED
    BY <2>1, <2>2 DEF Surjection
<1>. QED
  BY <1>3, <1>4, FS_Surjection

\* So a page has finitely many products, which can be counted.
LEMMA ProductsCounted ==
    ASSUME NEW s \in Sites, TaobaoProducts(s) # {}
    PROVE  Cardinality(TaobaoProducts(s)) \in Nat /\ Cardinality(TaobaoProducts(s)) > 0
<1>. DEFINE titled == {d \in CardNodes(s) : d.text = "title"}
            of == [c \in titled |-> [card |-> c, confidence |-> SelectorConfidence(c)]]
<1>1. titled \in SUBSET Card
  BY SitesAssumption DEF CardNodes, SiteType
<1>2. IsFiniteSet(titled)
  BY <1>1, CardsFinite, FS_Subset
<1>3. TaobaoProducts(s) = {[card |-> c, confidence |-> SelectorConfidence(c)] : c \in titled}
  BY DEF TaobaoProducts
<1>4. of \in Surjection(titled, TaobaoProducts(s))
  BY <1>3 DEF Surjection
<1>5. IsFiniteSet(TaobaoProducts(s))
  BY <1>2, <1>4, FS_Surjection
<1>. QED
  BY <1>5, FS_CardinalityType, FS_EmptySet

\* The runner's conclusion is about the page in its hands.
LEMMA ConcludeKeeps == ASSUME BrowserInv, Conclude PROVE BrowserInv'
<1>. USE DEF BrowserInv, RunnerOnItsWay
<1>1. runner = "conclude" /\ runner' = "done" /\ UNCHANGED <<site, phase, held>>
      /\ report.state = Assess(held) /\ report.status # "LIVE_READONLY_VERIFIED"
      /\ phase # "snapshot"
  BY DEF Conclude
<1>2. CASE report.state \in Blocking
  <2>1. report' = [report EXCEPT !.status = "BLOCKED"] /\ found' = found
    BY <1>2 DEF Conclude
  <2>2. report' \in Reports /\ report'.status = "BLOCKED"
    BY <2>1 DEF Reports
  <2>. QED
    BY <1>1, <2>1, <2>2 DEF FoundInShops, Allowed
<1>3. CASE report.state \notin Blocking
  <2>1. /\ found' = [by |-> "taobao", page |-> held, items |-> TaobaoProducts(held)]
        /\ report' = [report EXCEPT !.items = Cardinality(TaobaoProducts(held)),
                            !.status = IF TaobaoProducts(held) = {} THEN @
                                       ELSE "LIVE_READONLY_VERIFIED"]
    BY <1>3 DEF Conclude
  <2>2. FoundInShops'
    BY <2>1, TaobaoFindsInShops DEF FoundInShops, Allowed
  <2>3. CASE TaobaoProducts(held) = {}
    <3>1. report' = [report EXCEPT !.items = 0]
      BY <2>1, <2>3, FS_EmptySet DEF Reports
    <3>2. report' \in Reports /\ report'.status = report.status
      BY <3>1 DEF Reports
    <3>. QED
      BY <1>1, <2>2, <3>2
  <2>4. CASE TaobaoProducts(held) # {}
    <3>1. held \in Sites
      BY <2>4, TaobaoFindsInShops DEF TaobaoProducts, Assess, Recognised
    <3>2. Cardinality(TaobaoProducts(held)) \in Nat /\ Cardinality(TaobaoProducts(held)) > 0
      BY <2>4, <3>1, ProductsCounted
    <3>3. /\ report' \in Reports /\ report'.state = report.state
          /\ report'.items = Cardinality(TaobaoProducts(held))
      BY <2>1, <2>4, <3>2 DEF Reports
    <3>4. found'.page = held /\ found'.items = TaobaoProducts(held)
      BY <2>1
    <3>5. Assess(held') = Assess(held)
      BY <1>1
    <3>. QED
      BY <1>1, <2>2, <3>2, <3>3, <3>4, <3>5
  <2>. QED
    BY <2>3, <2>4
<1>. QED
  BY <1>2, <1>3

\* A host is allowed or it is not.
LEMMA AllowedTyped == ASSUME NEW s PROVE Allowed(s) \in BOOLEAN
BY SMT DEF Allowed

\* Every step of page, runtime, callers and runner keeps the invariant.
LEMMA BrowserStepKeeps ==
    ASSUME BrowserInv, [BrowserNext]_browserVars PROVE BrowserInv'
<1>. USE DEF BrowserInv, FoundInShops, RunnerOnItsWay, Allowed
<1>1. CASE Navigate \/ CheckHost \/ ClickOrBack \/ ClickFails \/ TypeScrollOrWait
           \/ UNCHANGED browserVars
  BY <1>1 DEF Navigate, CheckHost, MayLook, ClickOrBack, ClickFails, TypeScrollOrWait,
              Idle, browserVars, reportVars
<1>2. CASE LookFails
  <2>1. report' \in {report, [report EXCEPT !.status = "BLOCKED"]}
        /\ runner' \in {"free", "done"} /\ phase' = "idle" /\ UNCHANGED <<site, held, found>>
    BY <1>2 DEF LookFails
  <2>2. report.status # "LIVE_READONLY_VERIFIED"
    BY <1>2 DEF LookFails, MayLook
  <2>3. report' \in Reports /\ report'.status # "LIVE_READONLY_VERIFIED"
    BY <2>1, <2>2 DEF Reports
  <2>. QED
    BY <2>1, <2>3
<1>3. CASE Snapshot
  BY <1>3 DEF Snapshot
<1>4. CASE ReadProducts
  <2>1. /\ runner = "free" /\ phase = "idle"
        /\ UNCHANGED <<site, phase, held, halt, accepted, runner, report>>
    BY <1>4 DEF ReadProducts, Idle, reportVars
  <2>2. RunnerOnItsWay'
    BY <2>1
  <2>3. CASE found' = [by |-> "taobao", page |-> held, items |-> TaobaoProducts(held)]
    BY <2>2, <2>3, TaobaoFindsInShops
  <2>4. CASE found' = [by |-> "web", page |-> held, items |-> WebProducts(held)]
    BY <2>2, <2>4, WebFindsInShops
  <2>. QED
    BY <1>4, <2>3, <2>4 DEF ReadProducts
<1>5. CASE Use
  BY <1>5 DEF Use
<1>6. CASE Launch
  <2>1. /\ report' = [report EXCEPT !.host = TRUE]
        /\ runner = "start" /\ runner' = "look" /\ site' \in Sites
        /\ UNCHANGED <<phase, held, halt, accepted, found>>
    BY <1>6 DEF Launch
  <2>2. report' \in Reports /\ report'.status = report.status
    BY <2>1 DEF Reports
  <2>. QED
    BY <2>1, <2>2
<1>7. CASE LaunchFails
  <2>1. PICK given \in Sites :
            report' = [report EXCEPT !.status = "BLOCKED", !.host = Allowed(given)]
    BY <1>7 DEF LaunchFails
  <2>2. /\ runner = "start" /\ runner' = "done"
        /\ UNCHANGED <<site, phase, held, halt, accepted, found>>
    BY <1>7 DEF LaunchFails
  <2>3. Allowed(given) \in BOOLEAN
    BY AllowedTyped
  <2>4. report' \in Reports /\ report'.status = "BLOCKED"
    BY <2>1, <2>3 DEF Reports
  <2>. QED
    BY <2>2, <2>4
<1>8. CASE AssessFirst
  <2>1. /\ report' = [report EXCEPT !.state = Assess(held), !.host = Recognised(held)]
        /\ runner = "assess" /\ runner' \in {"look again", "conclude"}
        /\ UNCHANGED <<site, phase, held, halt, accepted, found>>
    BY <1>8 DEF AssessFirst
  <2>2. Recognised(held) \in BOOLEAN /\ Assess(held) \in PageStates
    BY AssessTyped DEF Recognised
  <2>3. report' \in Reports /\ report'.status = report.status /\ report'.state = Assess(held)
    BY <2>1, <2>2 DEF Reports
  <2>4. Assess(held') = Assess(held)
    BY <2>1
  <2>. QED
    BY <2>1, <2>3, <2>4
<1>9. CASE AssessAgain
  <2>1. /\ report' = [report EXCEPT !.state = Assess(held)]
        /\ runner = "assess again" /\ runner' = "conclude"
        /\ UNCHANGED <<site, phase, held, halt, accepted, found>>
    BY <1>9 DEF AssessAgain
  <2>2. report' \in Reports /\ report'.status = report.status /\ report'.state = Assess(held)
    BY <2>1, AssessTyped DEF Reports
  <2>3. Assess(held') = Assess(held)
    BY <2>1
  <2>. QED
    BY <2>1, <2>2, <2>3
<1>10. CASE Conclude
  BY <1>10, ConcludeKeeps
<1>11. CASE ReadProduct
  <2>1. /\ runner = "free" /\ phase = "idle"
        /\ UNCHANGED <<site, phase, held, halt, accepted, runner, report>>
    BY <1>11 DEF ReadProduct, Idle, reportVars
  <2>2. RunnerOnItsWay'
    BY <2>1
  <2>3. CASE found' = [by |-> "taobao", page |-> held,
                       items |-> DetailedProduct(held, TaobaoPage(held))]
    BY <2>2, <2>3, DetailFindsInShops
  <2>4. CASE found' = [by |-> "web", page |-> held,
                       items |-> DetailedProduct(held, WebPage(held))]
    BY <2>2, <2>4, DetailFindsInShops
  <2>. QED
    BY <1>11, <2>3, <2>4 DEF ReadProduct
<1>. QED
  BY <1>1, <1>2, <1>3, <1>4, <1>5, <1>6, <1>7, <1>8, <1>9, <1>10, <1>11
     DEF BrowserNext, RunnerStep

\* Products come only from allowed, undisturbed pages, however the page moves while
\* it is observed, and the runner calls verified only what it has in its hands.
THEOREM ProductsFromShops == BrowserSpec => []ProductsComeFromShops
<1>1. BrowserInit => BrowserInv
  BY DEF BrowserInit, BrowserInv, FoundInShops, RunnerOnItsWay, NothingFound, NoReport,
         Reports, PageStates
<1>2. BrowserInv => ProductsComeFromShops
  BY DEF BrowserInv, FoundInShops, RunnerOnItsWay, ProductsComeFromShops
<1>. QED
  BY <1>1, <1>2, BrowserStepKeeps, PTL DEF BrowserSpec

-----------------------------------------------------------------------------
(* The elements of a page.                                                 *)

NodesTypeOK ==
    /\ look \in [Elements -> {"seen", "faded", "hidden"}]
    /\ mark \in [Elements -> Int] /\ same \in BOOLEAN

\* While the page stays as it was observed, the nodes are the places of the
\* elements that are seen, and each of these carries its place; what carries an
\* older number is not seen, or carries the number of its place again.
PlacesCarried ==
    same => /\ DOMAIN nodes = {Place(e) : e \in Seen}
            /\ \A n \in DOMAIN nodes : nodes[n] \in Seen /\ Place(nodes[n]) = n
            /\ \A e \in Seen : mark[e] = Place(e)

\* The inductive invariant of the observed elements.
NodesInv == NodesTypeOK /\ PlacesCarried /\ OperatesOnObserved

\* Places are natural numbers, and no two elements that are seen share one.
LEMMA PlacesDiffer ==
    ASSUME NEW d \in Seen, NEW e \in Seen
    PROVE  Place(d) \in Nat /\ (Place(d) = Place(e) => d = e)
<1>1. Seen \subseteq Elements /\ Elements \subseteq Nat /\ IsFiniteSet(Elements)
  BY ElementsAssumption DEF Seen
<1>. DEFINE before(c) == {x \in Seen : x < c}
<1>2. ASSUME NEW c \in Seen PROVE IsFiniteSet(before(c)) /\ Place(c) = Cardinality(before(c))
  <2>1. before(c) \in SUBSET Elements
    BY <1>1
  <2>. QED
    BY <1>1, <2>1, FS_Subset DEF Place
<1>3. ASSUME NEW a \in Seen, NEW b \in Seen, a < b PROVE Place(a) # Place(b)
  <2>0. a \in Nat /\ b \in Nat /\ \A x \in Seen : x \in Nat
    BY <1>1
  <2>a. \A x \in Seen : x < a => x < b
    BY <2>0, <1>3
  <2>b. ~(a < a)
    BY <2>0
  <2>1. before(a) \in SUBSET before(b) /\ a \in before(b) /\ a \notin before(a)
    BY <1>3, <2>a, <2>b
  <2>2. IsFiniteSet(before(b)) /\ before(a) # before(b)
    BY <1>2, <2>1
  <2>. HIDE DEF before
  <2>3. Cardinality(before(a)) # Cardinality(before(b))
    BY <2>1, <2>2, FS_Subset
  <2>. QED
    BY <1>2, <2>3
<1>4. Place(d) \in Nat
  <2>. HIDE DEF before
  <2>. QED
    BY <1>2, FS_CardinalityType
<1>5. d \in Nat /\ e \in Nat
  BY <1>1
<1>. QED
  BY <1>3, <1>4, <1>5

\* The number of the first element that carries one is among them.
LEMMA FirstCarries ==
    ASSUME NodesTypeOK, NEW n, Carriers(n) # {}
    PROVE  Min(Carriers(n)) \in Carriers(n)
<1>1. Carriers(n) \subseteq Nat
  BY ElementsAssumption DEF Carriers
<1>2. PICK x \in Carriers(n) : \A y \in Carriers(n) : ~(<<y, x>> \in OpToRel(<, Nat))
  BY <1>1, NatLessThanWellFounded, WFMin
<1>3. \A y \in Carriers(n) : ~(y < x)
  BY <1>1, <1>2 DEF OpToRel
<1>4. \A y \in Carriers(n) : x <= y
  <2>. HIDE DEF Carriers
  <2>. QED
    BY <1>1, <1>3
<1>. QED
  BY <1>4 DEF Min

\* On a page that has not changed, the first element with a number is the one that
\* was observed, or one that is not seen.
LEMMA LocatesObserved ==
    ASSUME NodesInv, same, NEW n \in DOMAIN nodes, First(n) \notin {nodes[n], Nowhere}
    PROVE  First(n) \in Elements \ Seen /\ look[First(n)] \in {"faded", "hidden"}
<1>1. Carriers(n) # {} /\ First(n) = Min(Carriers(n))
  BY DEF First
<1>2. First(n) \in Elements /\ mark[First(n)] = n
  BY <1>1, FirstCarries DEF NodesInv, Carriers
<1>3. First(n) \notin Seen
  <2>. SUFFICES ASSUME First(n) \in Seen PROVE FALSE
    OBVIOUS
  <2>1. nodes[n] \in Seen /\ Place(nodes[n]) = n /\ Place(First(n)) = n
    BY <1>2 DEF NodesInv, PlacesCarried
  <2>. QED
    BY <2>1, PlacesDiffer
<1>. QED
  BY <1>2, <1>3 DEF NodesInv, NodesTypeOK, Seen

\* The observation that has just been made numbers what is seen.
LEMMA CollectKeeps == ASSUME NodesInv, Collect PROVE NodesInv'
<1>1. /\ mark' = Marks /\ same' = TRUE /\ hit' = NoHit /\ look' = look
      /\ nodes' = [n \in {Place(e) : e \in Seen} |-> CHOOSE e \in Seen : Place(e) = n]
  BY DEF Collect
<1>2. Seen' = Seen /\ \A e : Place(e)' = Place(e)
  BY <1>1 DEF Seen, Place
<1>3. \A e \in Seen : e \in Elements /\ Place(e) \in Nat
  BY PlacesDiffer DEF Seen
<1>4. mark' \in [Elements -> Int] /\ \A e \in Seen : mark'[e] = Place(e)
  BY <1>1, <1>3 DEF Marks, NodesInv, NodesTypeOK
<1>5. DOMAIN nodes' = {Place(e) : e \in Seen}
  BY <1>1
<1>6. ASSUME NEW n \in DOMAIN nodes' PROVE nodes'[n] \in Seen /\ Place(nodes'[n]) = n
  <2>1. \E e \in Seen : Place(e) = n
    BY <1>5, <1>6
  <2>2. nodes'[n] = CHOOSE e \in Seen : Place(e) = n
    BY <1>1, <1>6
  <2>. QED
    BY <2>1, <2>2
<1>7. PlacesCarried'
  <2>1. DOMAIN nodes' = {Place(e)' : e \in Seen'}
    BY <1>2, <1>5
  <2>2. \A n \in DOMAIN nodes' : nodes'[n] \in Seen' /\ Place(nodes[n])' = n
    <3>1. ASSUME NEW n \in DOMAIN nodes' PROVE Place(nodes[n])' = n
      <4>1. Place(nodes[n])' = Place(nodes'[n])
        BY <1>1, <1>2 DEF Place
      <4>. QED
        BY <1>6, <4>1
    <3>. QED
      BY <1>2, <1>6, <3>1
  <2>3. \A e \in Seen' : mark'[e] = Place(e)'
    BY <1>2, <1>4
  <2>. QED
    BY <2>1, <2>2, <2>3 DEF PlacesCarried
<1>8. OperatesOnObserved'
  BY <1>1 DEF OperatesOnObserved, NoHit
<1>. QED
  BY <1>1, <1>4, <1>7, <1>8 DEF NodesInv, NodesTypeOK

\* As long as nothing changes, places and numbers agree.
LEMMA ObservationStays ==
    ASSUME NodesTypeOK, PlacesCarried, UNCHANGED <<look, mark, nodes, same>>
    PROVE  NodesTypeOK' /\ PlacesCarried'
<1>1. Seen' = Seen /\ \A e : Place(e)' = Place(e)
  BY DEF Seen, Place
<1>2. \A n : Place(nodes[n])' = Place(nodes[n])
  BY DEF Seen, Place
<1>. QED
  BY <1>1, <1>2 DEF NodesTypeOK, PlacesCarried

\* A click, an input or a scroll reaches what was observed, or what is gone.
LEMMA OperationsKeep ==
    ASSUME NodesInv, ClickNode \/ FillNode \/ ScrollNode PROVE NodesInv'
<1>1. UNCHANGED <<look, mark, nodes, same>>
  BY DEF ClickNode, FillNode, ScrollNode
<1>2. NodesTypeOK' /\ PlacesCarried'
  BY <1>1, ObservationStays DEF NodesInv
<1>3. PICK n \in DOMAIN nodes :
        \/ \E e \in AtBounds : hit' = Reached(n, e, "bounds")
        \/ hit' = Reached(n, Located(n), "number")
        \/ hit' = Reached(n, First(n), "scroll")
  BY DEF ClickNode, FillNode, ScrollNode
<1>4. CASE \E e \in AtBounds : hit' = Reached(n, e, "bounds")
  <2>1. hit'.by = "bounds"
    BY <1>4 DEF Reached
  <2>. QED
    BY <1>2, <2>1 DEF NodesInv, OperatesOnObserved
<1>5. ASSUME NEW e, NEW by \in {"number", "scroll"}, hit' = Reached(n, e, by), e = First(n),
             by = "number" => look[e] # "hidden"
      PROVE  OperatesOnObserved'
  <2>1. /\ hit'.same = same /\ hit'.wanted = nodes[n] /\ hit'.got = e /\ hit'.by = by
        /\ hit'.as = IF e = Nowhere THEN "none" ELSE look[e]
    BY <1>5 DEF Reached
  <2>2. ASSUME same, e \notin {nodes[n], Nowhere}
        PROVE  /\ look[e] = "faded" \/ (look[e] = "hidden" /\ by = "scroll")
               /\ \A m \in DOMAIN nodes : nodes[m] # e
    <3>1. e \in Elements \ Seen /\ look[e] \in {"faded", "hidden"}
      BY <1>5, <2>2, LocatesObserved
    <3>2. \A m \in DOMAIN nodes : nodes[m] \in Seen
      BY <2>2 DEF NodesInv, PlacesCarried
    <3>. QED
      BY <1>5, <3>1, <3>2
  <2>. QED
    BY <1>1, <2>1, <2>2 DEF OperatesOnObserved
<1>6. CASE hit' = Reached(n, First(n), "scroll")
  BY <1>2, <1>5, <1>6 DEF NodesInv
<1>7. CASE hit' = Reached(n, Located(n), "number")
  <2>1. CASE Located(n) = Nowhere
    <3>1. hit'.got = Nowhere
      BY <1>7, <2>1 DEF Reached
    <3>. QED
      BY <1>2, <3>1 DEF NodesInv, OperatesOnObserved
  <2>2. CASE Located(n) # Nowhere
    <3>1. Located(n) = First(n) /\ look[First(n)] # "hidden"
      BY <2>2 DEF Located
    <3>. QED
      BY <1>2, <1>5, <1>7, <3>1 DEF NodesInv
  <2>. QED
    BY <2>1, <2>2
<1>. QED
  BY <1>3, <1>4, <1>6, <1>7

\* An operation by the number of a node reaches the element that was observed, or
\* none, on a page that has not changed; only an element that has faded out may
\* take its place, and one that is hidden in a scroll, for all sets of elements.
THEOREM OperatesOnSeen == NodesSpec => []OperatesOnObserved
<1>1. NodesInit => NodesInv
  <2>. SUFFICES ASSUME NodesInit PROVE NodesInv
    OBVIOUS
  <2>1. mark = [e \in Elements |-> -1] /\ -1 \in Int
    BY DEF NodesInit, NoMark
  <2>2. mark \in [Elements -> Int]
    BY <2>1
  <2>. QED
    BY <2>2 DEF NodesInit, NodesInv, NodesTypeOK, PlacesCarried, OperatesOnObserved, NoHit
<1>2. NodesInv => OperatesOnObserved
  BY DEF NodesInv
<1>3. NodesInv /\ [NodesNext]_nodeVars => NodesInv'
  <2>. SUFFICES ASSUME NodesInv, [NodesNext]_nodeVars PROVE NodesInv'
    OBVIOUS
  <2>1. CASE Collect
    BY <2>1, CollectKeeps
  <2>2. CASE PageChanges
    <3>1. look' \in [Elements -> {"seen", "faded", "hidden"}] /\ same' = FALSE
          /\ hit' = NoHit /\ UNCHANGED <<mark, nodes>>
      BY <2>2 DEF PageChanges, NodesInv, NodesTypeOK
    <3>. QED
      BY <3>1 DEF NodesInv, NodesTypeOK, PlacesCarried, OperatesOnObserved, NoHit
  <2>3. CASE NewDocument
    <3>1. mark' = [e \in Elements |-> -1] /\ -1 \in Int
      BY <2>3 DEF NewDocument, NoMark
    <3>2. mark' \in [Elements -> Int]
      BY <3>1
    <3>. QED
      BY <2>3, <3>2 DEF NewDocument, NodesInv, NodesTypeOK, PlacesCarried,
                        OperatesOnObserved, NoHit
  <2>4. CASE ClickNode \/ FillNode \/ ScrollNode
    BY <2>4, OperationsKeep
  <2>5. CASE UNCHANGED nodeVars
    <3>1. UNCHANGED <<look, mark, nodes, same, hit>>
      BY <2>5 DEF nodeVars
    <3>. QED
      BY <3>1, ObservationStays DEF NodesInv, OperatesOnObserved
  <2>. QED
    BY <2>1, <2>2, <2>3, <2>4, <2>5 DEF NodesNext
<1>. QED
  BY <1>1, <1>2, <1>3, PTL DEF NodesSpec
=============================================================================
