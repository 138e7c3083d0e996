------------------------------- MODULE MCShops -------------------------------
(***************************************************************************)
(* The parts around the device and the server, on small instances in one   *)
(* run: which part a behaviour is about is chosen at the start, and the    *)
(* others stay as they begin.                                              *)
(***************************************************************************)
EXTENDS PriceReading, ProductReading, OfferComparison, Transports, MockShop,
        BrowserPages, BrowserNodes, ScreenTree

VARIABLE part

-----------------------------------------------------------------------------
(* Prices: amounts of 0.2, 1, 2, 3 and 4 yuan.                             *)

Amount(a, s, w, i) == [amount |-> a, shapes |-> s, word |-> w, inCoupon |-> i]

MCMentions ==
    {Amount(400, {2, 7}, 1, FALSE), Amount(800, {6}, 2, FALSE), Amount(800, {2}, 0, FALSE),
     Amount(400, {6, 7}, 4, FALSE), Amount(400, {1, 7}, 3, FALSE),
     Amount(1200, {4, 6}, 5, FALSE), Amount(80, {7}, 6, TRUE), Amount(80, {2, 7}, 7, TRUE)}

MCCards ==
    {c \in [source : {"web", "taobao"}, range : BOOLEAN,
            mentions : {S \in SUBSET MCMentions : Cardinality(S) <= 2},
            coupon : {[base |-> 0, off |-> 0], [base |-> 400, off |-> 80]},
            voucher : {[least |-> 0, off |-> 0], [least |-> 800, off |-> 800]},
            threshold : BOOLEAN, second : {"none", "half", "free"}, count : {1, 2},
            original : {0, 1600}] :
        /\ c.voucher.off # 0 => c.threshold
        /\ c.coupon.base # 0 <=> \E m \in c.mentions : m.inCoupon
        /\ c.source = "web" => c.original = 0}

PriceRule(t, a, r, l, c) == [type |-> t, amount |-> a, ratio |-> r, least |-> l, confirmed |-> c]

MCRules ==
    {PriceRule("direct", 200, "none", 0, TRUE), PriceRule("coupon", 400, "none", 0, TRUE),
     PriceRule("threshold", 100, "none", 400, TRUE), PriceRule("multi", 0, "half", 0, TRUE),
     PriceRule("shipping", 100, "none", 0, TRUE), PriceRule("direct", 100, "none", 0, FALSE)}

MCRuleLists == UNION {[1..n -> MCRules] : n \in 0..3}
MCAmounts == {400, 1200}

-----------------------------------------------------------------------------
(* Titles: "2x500ml" with "500ml" and "2 bottles" inside of it, and apart a *)
(* count, "128GB" and a wrapping.                                          *)

Piece(f, s, e, u, a, n) ==
    [start |-> s, end |-> e, form |-> f, explicit |-> f > 1, unit |-> u, amount |-> a, count |-> n]

MCMatches ==
    {Piece(3, 2, 6, "ml", 500, 2), Piece(1, 4, 6, "ml", 500, 1), Piece(2, 3, 6, "g", 500, 3),
     Piece(4, 3, 4, "piece", 0, 2), Piece(4, 7, 8, "piece", 0, 2), Piece(1, 8, 9, "size", 128, 1),
     Piece(4, 0, 1, "wrap", 0, 2)}

Title(S, combo, review, gift) ==
    [matches |-> S, combo |-> combo, review |-> review, gift |-> gift,
     promoted |-> gift \/ combo, name |-> "cola",
     length |-> 9]

MCTitles ==
    {Title(S, a, b, c) : S \in {T \in SUBSET MCMatches : Cardinality(T) <= 3},
                         a, b, c \in BOOLEAN}

MCRequirements ==
    {[Title({m}, FALSE, FALSE, FALSE) EXCEPT !.name = x] : m \in MCMatches, x \in {"cola", "tea"}}

MCSuggestions ==
    [name : {"cola"}, confidence : {60, 90}, unit : {"ml", "none", "size"}, amount : {500},
     count : {1}]

-----------------------------------------------------------------------------
(* Offers: one text at two prices, and a card that cannot be priced.       *)

ShopCard(t, p, f, r) ==
    [text |-> t, price |-> p, confidence |-> f, comparable |-> TRUE, raises |-> r]

MCProducts == {ShopCard("a", 2, 5, FALSE), ShopCard("a", 1, 5, FALSE), ShopCard("c", 1, 9, TRUE)}
MCShelves == {<<>>} \cup {<<x>> : x \in MCProducts}

-----------------------------------------------------------------------------
(* Pages of a browser.                                                     *)

Plain ==
    [host |-> "shop", risk |-> FALSE, login |-> FALSE, loading |-> FALSE, empty |-> FALSE,
     dialog |-> "none", detail |-> FALSE, search |-> TRUE, titled |-> FALSE, words |-> {}, cards |-> {}]

OneCard == [shapes |-> {1, 5}, marked |-> TRUE, text |-> "title"]

Results ==
    [Plain EXCEPT !.cards = {OneCard, [OneCard EXCEPT !.shapes = {3}, !.marked = FALSE],
                             [OneCard EXCEPT !.text = "price"]}]

MCSites ==
    {Results, [Results EXCEPT !.host = "elsewhere"], [Results EXCEPT !.loading = TRUE],
     [Results EXCEPT !.dialog = "login"], [Results EXCEPT !.dialog = "plain"],
     [Results EXCEPT !.risk = TRUE, !.words = {"cart", "order"},
                     !.detail = TRUE, !.titled = TRUE],
     [Results EXCEPT !.search = FALSE, !.words = {"search", "result"},
                     !.cards = {[OneCard EXCEPT !.shapes = {}]}],
     [Results EXCEPT !.detail = TRUE, !.titled = TRUE, !.words = {"product"}],
     [Plain EXCEPT !.empty = TRUE, !.words = {"search"}]}

-----------------------------------------------------------------------------
(* Screens: those a device collects, with a slot of no child or without    *)
(* one, and lists that a client may send.                                  *)

Kind(x, r, acts, visible) ==
    [label |-> x, resource |-> r, class |-> "View", bounds |-> IF acts THEN 2 ELSE 1,
     acts |-> acts, visible |-> visible]

MCKinds == {Kind("", "", FALSE, TRUE), Kind("buy", "", FALSE, TRUE), Kind("Buy", "", TRUE, TRUE),
            Kind("buy", "", FALSE, FALSE)}

OtherKinds == {Kind("buys", "", FALSE, TRUE), Kind("buyer", "", FALSE, TRUE),
               Kind("", "id", FALSE, TRUE), Kind("Buy", "id", TRUE, TRUE)}

\* the nodes from "hole" on stand one slot further, if they have siblings
Lay(ps, ks, extra, hole) ==
    [extra |-> extra,
     nodes |-> [i \in DOMAIN ps |->
        ks[i] @@ [parent |-> ps[i], slot |-> Cardinality({j \in 1..i : ps[j] = ps[i]}) + (IF i > 1 /\ i >= hole THEN 1 ELSE 0)]]]

NoHole == 9

Preorders(n) ==
    {ps \in [1..n -> 0..(n - 1)] :
        LET up[i \in 0..n] == IF i = 0 THEN {} ELSE {i} \cup up[IF ps[i] < i THEN ps[i] ELSE 0]
        IN  ps[1] = 0 /\ \A i \in 2..n : ps[i] \in up[i - 1]}

MCLayouts ==
    {Lay(<<>>, <<>>, {}, NoHole)}
    \cup {Lay(ps, ks, {}, NoHole) : ps \in Preorders(4), ks \in [1..4 -> MCKinds]}
    \cup {Lay(ps, ks, {}, NoHole) : ps \in Preorders(3), ks \in [1..3 -> OtherKinds]}
    \cup {Lay(ps, ks, {}, h) : ps \in Preorders(3), ks \in [1..3 -> MCKinds], h \in {2, 3}}
    \cup {Lay(ps, ks, x, NoHole) : ps \in [1..3 -> 0..3], ks \in [1..3 -> {Kind("", "", FALSE, TRUE), Kind("Buy", "", TRUE, TRUE)}],
                                   x \in {{}, {<<1, 3>>}, {<<3, 1>>}, {<<2, 2>>}}}

OneLayout ==
    Lay(<<0, 1, 1>>,
        <<Kind("", "", FALSE, TRUE), Kind("buy", "", FALSE, TRUE), Kind("Buy", "", TRUE, TRUE)>>, {}, 3)

MCWords == {"buy", "Buy", "buys", "buyer", "id", "View"}
MCNormal == [w \in MCWords |-> IF w = "Buy" THEN "buy" ELSE w]
MCRatio ==
    [p \in MCWords \X MCWords |->
        IF p[1] = p[2] THEN 100
        ELSE IF {p[1], p[2]} = {"buy", "buys"} THEN 86
        ELSE IF {p[1], p[2]} = {"buy", "buyer"} THEN 75
        ELSE IF {p[1], p[2]} = {"buys", "buyer"} THEN 67 ELSE 20]

AskFor(r, i, exact, hints, b) ==
    [resource |-> r, node |-> i, exact |-> exact, hints |-> hints, bounds |-> b]

\* by each of the stages, and by one that gives way to the next
MCTargets ==
    {AskFor("id", 2, {}, {}, 0), AskFor("", 2, {"buy"}, {}, 0), AskFor("", 0, {"buy"}, {}, 0),
     AskFor("", 0, {}, {"Buy"}, 2), AskFor("", 0, {"buys"}, {}, 0), AskFor("id", 0, {}, {}, 2),
     AskFor("", 0, {"View"}, {}, 0)}

-----------------------------------------------------------------------------
Parts == {"prices", "titles", "offers", "transports", "mock shop", "pages", "elements", "screens"}

MCInit ==
    /\ part \in Parts
    /\ PriceInit /\ ReadingInit /\ CompareInit /\ TransportInit
    /\ ShopInit /\ (part # "mock shop" => at = 0)
    /\ BrowserInit /\ (part # "pages" => site = Results)
    /\ NodesInit /\ (part # "elements" => \A e \in Elements : look[e] = "seen")
    /\ (part # "screens" /\ layout = OneLayout) \/ part = "screens"
    /\ TreeInit

Scanners == <<priceVars, readingVars, compareVars>>
Surfaces == <<browserVars, nodeVars, treeVars>>

In(p) == part = p /\ UNCHANGED part

Prices ==
    /\ In("prices") /\ PriceNext
    /\ UNCHANGED <<readingVars, compareVars, transportVars, shopVars, Surfaces>>

ProductTitles ==
    /\ In("titles") /\ ReadingNext
    /\ UNCHANGED <<priceVars, compareVars, transportVars, shopVars, Surfaces>>

Comparisons ==
    /\ In("offers") /\ CompareNext
    /\ UNCHANGED <<priceVars, readingVars, transportVars, shopVars, Surfaces>>

OfTransports(A) == In("transports") /\ A /\ UNCHANGED <<Scanners, shopVars, Surfaces>>

OfShop(A) == In("mock shop") /\ A /\ UNCHANGED <<Scanners, transportVars, Surfaces>>

Pages ==
    /\ In("pages") /\ BrowserNext
    /\ UNCHANGED <<Scanners, transportVars, shopVars, nodeVars, treeVars>>

PageElements ==
    /\ In("elements") /\ NodesNext
    /\ UNCHANGED <<Scanners, transportVars, shopVars, browserVars, treeVars>>

Trees ==
    /\ In("screens") /\ TreeNext
    /\ UNCHANGED <<Scanners, transportVars, shopVars, browserVars, nodeVars>>

MCNext ==
    \/ Prices \/ ProductTitles \/ Comparisons
    \/ OfTransports(TransportNext) \/ OfShop(ShopNext)
    \/ Pages \/ PageElements \/ Trees

allVars == <<part, Scanners, transportVars, shopVars, Surfaces>>

\* The fairness of TransportSpec and of ShopSpec; the other parts need none.
MCSpec ==
    /\ MCInit /\ [][MCNext]_allVars
    /\ WF_allVars(OfTransports(Pass)) /\ WF_allVars(OfTransports(EventStep))
    /\ WF_allVars(OfTransports(Poll)) /\ WF_allVars(OfTransports(Check))
    /\ WF_allVars(OfShop(ScenarioStep \/ ScenarioFails \/ ScenarioStops))
=============================================================================
