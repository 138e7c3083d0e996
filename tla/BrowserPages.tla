----------------------------- MODULE BrowserPages -----------------------------
(***************************************************************************)
(* BrowserRuntime (runtime/browser.py) on a page that may navigate at any  *)
(* moment, the adapters that read its observations (platform/taobao and    *)
(* platform/web), and the read-only runner of Taobao                       *)
(* (scripts/run_taobao_readonly.py).                                       *)
(*                                                                         *)
(* A page is given by what the tests of the adapters find in its address,  *)
(* its title, its text and its nodes.  A title node is a sign of a detail  *)
(* page by itself.                                                         *)
(***************************************************************************)
EXTENDS Integers, FiniteSetsExt

CONSTANTS Sites,         \* the pages the browser may show
          AllowedHosts   \* the hosts it was started for

VARIABLES site,      \* the page shown
          phase,     \* observe() has checked the host, and takes the snapshot next
          held,      \* the last observation
          halt,      \* stopped
          accepted,  \* what the last operation returned
          found,     \* the page and the products an adapter made of an observation
          runner, report   \* of the runner

reportVars == <<runner, report>>
browserVars == <<site, phase, held, halt, accepted, found, reportVars>>

\* A node that may be a product: the selectors of _product_nodes_with_evidence
\* that it fits, whether it has what the web adapter looks for, and its text.
Card == [shapes : SUBSET (1..5), marked : BOOLEAN, text : {"none", "price", "title"}]

SiteType ==
    [host : STRING,
     risk : BOOLEAN, login : BOOLEAN, loading : BOOLEAN, empty : BOOLEAN,
     dialog : {"none", "plain", "login"},
     detail : BOOLEAN, search : BOOLEAN,   \* _detail_signal, _search_signal
     titled : BOOLEAN,   \* a node is marked as the product's title, and has a text
     words : SUBSET {"cart", "order title", "order", "submit", "search", "result", "product"},
     cards : SUBSET Card]

ASSUME SitesAssumption ==
    Sites \subseteq SiteType /\ \A s \in Sites : s.titled => s.detail
ASSUME HostsAssumption == \A h \in AllowedHosts : h \in {s.host : s \in Sites}

NoPage == [host |-> "none"]
NoReport == [status |-> "NOT_VERIFIED", state |-> "UNKNOWN", host |-> FALSE, items |-> 0]

NothingFound == [by |-> "nobody", page |-> NoPage, items |-> {}]

BrowserInit ==
    /\ site \in Sites /\ phase = "idle" /\ held = NoPage /\ halt = FALSE
    /\ accepted = FALSE /\ found = NothingFound
    /\ runner = "start" /\ report = NoReport

Allowed(s) == s.host \in AllowedHosts

-----------------------------------------------------------------------------
(* The Taobao adapter.                                                     *)

\* the cards that fit a selector, and the first that each fits
CardNodes(s) == {c \in s.cards : c.shapes # {}}
Level(c) == Min(c.shapes)
SelectorConfidence(c) == Max({50, 100 - 10 * (Level(c) - 1)})

Recognised_AnyHost(s) == s # NoPage

\* identify_platform
Recognised(s) == s # NoPage /\ Allowed(s)

\* assess_page: the first of these that the page shows
Assess(s) ==
    IF ~Recognised(s) THEN "UNKNOWN"
    ELSE IF s.risk THEN "RISK_BLOCKED"
    ELSE IF s.login \/ s.dialog = "login" THEN "LOGIN_REQUIRED"
    ELSE IF s.dialog # "none" THEN "POPUP"
    ELSE IF s.loading THEN "LOADING"
    ELSE IF CardNodes(s) # {}
    THEN IF s.detail THEN "PRODUCT_DETAIL"
         ELSE IF s.search THEN "SEARCH_RESULT" ELSE "PRODUCT_LIST"
    ELSE IF s.empty /\ s.search THEN "EMPTY_RESULT"
    ELSE IF s.detail THEN "PRODUCT_DETAIL" ELSE "UNKNOWN"

\* identify_page
TaobaoPage(s) ==
    IF Assess(s) \in {"SEARCH_RESULT", "PRODUCT_LIST"} THEN "results"
    ELSE IF Assess(s) = "PRODUCT_DETAIL" THEN "product"
    ELSE IF Assess(s) = "EMPTY_RESULT" THEN "search" ELSE "unknown"

Blocking == {"LOGIN_REQUIRED", "RISK_BLOCKED", "POPUP", "LOADING"}

\* extract_products: no products, no extraction
TaobaoProducts(s) ==
    IF Assess(s) \notin {"SEARCH_RESULT", "PRODUCT_LIST"} THEN {}
    ELSE {[card |-> c, confidence |-> SelectorConfidence(c)] : c \in {d \in CardNodes(s) : d.text = "title"}}

-----------------------------------------------------------------------------
(* The web adapter, on the page type that the runtime gives the observation. *)
(* Its products have the confidence that a product has by default.          *)

TypeOf(s) ==
    IF s.words \cap {"cart", "order title", "order"} # {} THEN "cart"
    ELSE IF "search" \in s.words /\ "result" \notin s.words THEN "search"
    ELSE IF "product" \in s.words THEN "product" ELSE "unknown"

Marked(s) == {c \in s.cards : c.marked /\ c.text # "none"}

WebPage(s) ==
    IF ~Recognised(s) THEN "unknown"
    ELSE IF TypeOf(s) = "cart" /\ s.words \cap {"order", "submit"} # {} THEN "order_confirm"
    ELSE IF TypeOf(s) # "unknown" THEN TypeOf(s)
    ELSE IF Marked(s) # {} THEN "results"
    ELSE IF "submit" \in s.words THEN "order_confirm" ELSE "unknown"

WebProducts(s) ==
    IF WebPage(s) # "results" THEN {} ELSE {[card |-> c, confidence |-> 0] : c \in Marked(s)}

TitleNode == [shapes |-> {}, marked |-> FALSE, text |-> "title"]

\* extract_product, which the Taobao adapter inherits: the page is the adapter's
DetailedProduct(s, page) ==
    IF page = "product" /\ s.titled THEN {[card |-> TitleNode, confidence |-> 0]} ELSE {}

-----------------------------------------------------------------------------
(* BrowserRuntime.                                                         *)

Navigate ==
    /\ site' \in Sites
    /\ UNCHANGED <<phase, held, halt, accepted, found, reportVars>>

\* observe(): the host is checked, then the page is read
MayLook == phase = "idle" /\ runner \in {"look", "look again", "free"}

CheckHost ==
    /\ MayLook /\ Allowed(site)
    /\ phase' = "snapshot"
    /\ UNCHANGED <<site, held, halt, accepted, found, reportVars>>

\* or it raises: for the host, or since the page went away; the exception ends
\* the runner's report
LookFails ==
    /\ (MayLook /\ ~Allowed(site)) \/ phase = "snapshot"
    /\ phase' = "idle"
    /\ runner' = IF runner = "free" THEN "free" ELSE "done"
    /\ report' = IF runner = "free" THEN report ELSE [report EXCEPT !.status = "BLOCKED"]
    /\ UNCHANGED <<site, held, halt, accepted, found>>

Snapshot ==
    /\ phase = "snapshot" /\ phase' = "idle" /\ held' = site
    /\ runner' = IF runner = "look" THEN "assess"
                 ELSE IF runner = "look again" THEN "assess again" ELSE runner
    /\ UNCHANGED <<site, halt, accepted, found, report>>

Idle == runner = "free" /\ phase = "idle" /\ held # NoPage

\* click and back: whatever the page makes of it, then the host
ClickOrBack ==
    /\ Idle /\ site' \in Sites
    /\ accepted' = Allowed(site') /\ halt' = (halt \/ ~Allowed(site'))
    /\ UNCHANGED <<phase, held, found, reportVars>>

\* neither the node nor its bounds could be clicked
ClickFails ==
    /\ Idle /\ accepted' = FALSE
    /\ UNCHANGED <<site, phase, held, halt, found, reportVars>>

\* set_text, scroll and wait do not look at the host
TypeScrollOrWait ==
    /\ Idle /\ accepted' \in BOOLEAN
    /\ UNCHANGED <<site, phase, held, halt, found, reportVars>>

ReadProducts ==
    /\ Idle
    /\ \/ found' = [by |-> "taobao", page |-> held, items |-> TaobaoProducts(held)]
       \/ found' = [by |-> "web", page |-> held, items |-> WebProducts(held)]
    /\ UNCHANGED <<site, phase, held, halt, accepted, reportVars>>

\* the one product of a detail page
ReadProduct ==
    /\ Idle
    /\ \/ found' = [by |-> "taobao", page |-> held,
                     items |-> DetailedProduct(held, TaobaoPage(held))]
       \/ found' = [by |-> "web", page |-> held,
                     items |-> DetailedProduct(held, WebPage(held))]
    /\ UNCHANGED <<site, phase, held, halt, accepted, reportVars>>

-----------------------------------------------------------------------------
(* The runner.                                                             *)

Use ==   \* the runtime is used by others
    /\ runner = "start" /\ runner' = "free"
    /\ UNCHANGED <<site, phase, held, halt, accepted, found, report>>

\* the address it is given, and the page that this address leads to
Launch ==
    /\ runner = "start" /\ \E given \in Sites : Allowed(given)
    /\ site' \in Sites /\ runner' = "look"
    /\ report' = [report EXCEPT !.host = TRUE]
    /\ UNCHANGED <<phase, held, halt, accepted, found>>

\* an address of another host, or one that cannot be opened
LaunchFails ==
    /\ runner = "start" /\ runner' = "done"
    /\ \E given \in Sites :
         report' = [report EXCEPT !.status = "BLOCKED", !.host = Allowed(given)]
    /\ UNCHANGED <<site, phase, held, halt, accepted, found>>

AssessFirst ==
    /\ runner = "assess"
    /\ report' = [report EXCEPT !.state = Assess(held), !.host = Recognised(held)]
    /\ runner' = IF Assess(held) = "LOADING" THEN "look again" ELSE "conclude"
    /\ UNCHANGED <<site, phase, held, halt, accepted, found>>

AssessAgain ==
    /\ runner = "assess again" /\ runner' = "conclude"
    /\ report' = [report EXCEPT !.state = Assess(held)]
    /\ UNCHANGED <<site, phase, held, halt, accepted, found>>

Conclude ==
    /\ runner = "conclude" /\ runner' = "done"
    /\ IF report.state \in Blocking
       THEN report' = [report EXCEPT !.status = "BLOCKED"] /\ UNCHANGED found
       ELSE /\ found' = [by |-> "taobao", page |-> held, items |-> TaobaoProducts(held)]
            /\ report' = [report EXCEPT !.items = Cardinality(TaobaoProducts(held)),
                            !.status = IF TaobaoProducts(held) = {} THEN @
                                       ELSE "LIVE_READONLY_VERIFIED"]
    /\ UNCHANGED <<site, phase, held, halt, accepted>>

RunnerStep ==
    CheckHost \/ LookFails \/ Snapshot \/ AssessFirst \/ AssessAgain \/ Conclude

BrowserNext ==
    \/ Navigate \/ RunnerStep \/ Use \/ Launch \/ LaunchFails
    \/ ClickOrBack \/ ClickFails \/ TypeScrollOrWait
    \/ ReadProducts \/ ReadProduct

BrowserSpec == BrowserInit /\ [][BrowserNext]_browserVars

-----------------------------------------------------------------------------

\* Products come only from pages of an allowed host, however the page moves while
\* it is observed; the Taobao adapter finds none behind a captcha, a login, a
\* dialog or a page that still loads, the web adapter none on a cart or an order;
\* and the runner calls itself verified only with products, and a report of the
\* page they were on.
ProductsComeFromShops ==
    /\ found.items # {} =>
         /\ Allowed(found.page)
         /\ found.by = "taobao" => /\ ~found.page.risk /\ ~found.page.login
                                   /\ ~found.page.loading /\ found.page.dialog = "none"
         /\ found.by = "web" => found.page.words \cap {"cart", "order title", "order"} = {}
    /\ report.status = "LIVE_READONLY_VERIFIED" =>
         /\ runner = "done" /\ found.page = held /\ report.state = Assess(held)
         /\ report.items > 0 /\ report.items = Cardinality(found.items)
=============================================================================
