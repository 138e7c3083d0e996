---------------------------- MODULE PriceReading ----------------------------
(***************************************************************************)
(* From the text of a product card to the price of an offer: PriceParser   *)
(* (parser/price.py), PromotionParser (parser/specification.py), the       *)
(* price rules (comparison/pricing.py), normalize_product                  *)
(* (platform/base.py) and _final_price (comparison/engine.py).             *)
(*                                                                         *)
(* A text is given by what its patterns find in it.  Money is counted in   *)
(* quarters of a cent, so that both halvings of a price stay exact; 0 is a *)
(* missing amount.                                                         *)
(***************************************************************************)
EXTENDS Integers, FiniteSetsExt, SequencesExt

CONSTANTS Cards,      \* the cards considered
          RuleLists,  \* sequences of rules given to PricingEngine itself
          Amounts     \* amounts of money a caller gives

VARIABLES card, stage, reading, offer, quote

priceVars == <<card, stage, reading, offer, quote>>

Cent == 4
Absent == 0

\* whole cents: the patterns of a price read two decimals
Money == {a \in Nat : a % Cent = 0}

\* One amount in the text: the patterns that match it (in the order of
\* _candidates), the place of its text in alphabetic order, and whether it
\* lies inside what the coupon pattern matched.
Mention == [amount : Money \ {Absent}, shapes : (SUBSET (1..7)) \ {{}}, word : Nat,
            inCoupon : BOOLEAN]

CardType ==
    [source : {"web", "taobao"},
     range : BOOLEAN,                \* "10-20元"
     mentions : SUBSET Mention,
     coupon : [base : Money, off : Money],        \* "99元，10元券", or zeros
     voucher : [least : Nat, off : Nat],          \* "优惠券满100减20", or zeros
     threshold : BOOLEAN,            \* "满100减20", in a voucher or not
     second : {"none", "half", "free"},           \* "第二件半价"
     count : Nat,                    \* of the primary quantity, 0 without one
     original : Money]               \* the attribute data-original-price

ASSUME CardsAssumption ==
    Cards \subseteq CardType /\ \A c \in Cards : IsFiniteSet(c.mentions)

-----------------------------------------------------------------------------
(* PriceParser.                                                            *)

KindOf == <<"after_sale", "displayed", "original", "member", "starting",
            "displayed", "displayed">>
RankOf == <<100, 80, 20, 10, 5, 70, 70>>

\* _candidates: the first pattern that matches a piece of text claims it; the
\* two loose ones leave out the discount inside a coupon.
Candidates_NoCouponCheck(c) ==
    {[amount |-> m.amount, word |-> m.word, kind |-> KindOf[Min(m.shapes)],
      rank |-> RankOf[Min(m.shapes)]] : m \in c.mentions}

Candidates(c) ==
    {[amount |-> m.amount, word |-> m.word, kind |-> KindOf[Min(m.shapes)],
      rank |-> RankOf[Min(m.shapes)]] :
        m \in {n \in c.mentions :
                 Min(n.shapes) >= 6 /\ n.inCoupon => n.amount = c.coupon.base}}

Best(c, kind) ==
    LET all == {x \in Candidates(c) : x.kind = kind}
    IN  {x \in all : \A y \in all : x.rank >= y.rank}

\* _select: the best rank, and of these the first in alphabetic order
Select(c, kind) ==
    IF Best(c, kind) = {} THEN Absent
    ELSE (CHOOSE x \in Best(c, kind) : \A y \in Best(c, kind) : x.word <= y.word).amount

HasConflict_Never(c) == FALSE
HasConflict(c) == Cardinality({x.amount : x \in Best(c, "displayed")}) > 1

Parsed(displayed, effective, status) ==
    [displayed |-> displayed, effective |-> effective, status |-> status]

CouponApplies(c) ==
    ~c.threshold /\ c.coupon.base > c.coupon.off

\* parse_prices: the first of these that the text allows
ParsePrices(c) ==
    LET shown == Select(c, "displayed")
        after == Select(c, "after_sale")
        two == c.count = 2 /\ shown # Absent
    IN  IF c.range \/ HasConflict(c) THEN Parsed(Absent, Absent, "UNRESOLVED")
        ELSE IF after # Absent THEN Parsed(shown, after, "RESOLVED")
        ELSE IF CouponApplies(c)
        THEN Parsed(shown, c.coupon.base - c.coupon.off, "RESOLVED")
        ELSE IF c.second = "free" /\ two THEN Parsed(shown, shown \div 2, "RESOLVED")
        ELSE IF c.second = "half" /\ two
        THEN Parsed(shown, (shown * 3) \div 4, "RESOLVED")
        ELSE IF c.second # "none" THEN Parsed(shown, Absent, "NEED_MORE_EVIDENCE")
        ELSE IF c.threshold \/ Select(c, "member") # Absent
        THEN Parsed(shown, Absent, "UNRESOLVED")
        ELSE Parsed(shown, shown,
                    IF shown # Absent THEN "RESOLVED" ELSE "NEED_MORE_EVIDENCE")

\* parse, what the Taobao adapter asks: no check of a conflict
ParseOne(c) ==
    IF c.range THEN Absent
    ELSE IF Select(c, "displayed") # Absent THEN Select(c, "displayed")
    ELSE Select(c, "after_sale")

\* the price of the product an adapter makes of a card
PriceOf(c) == IF c.source = "taobao" THEN ParseOne(c) ELSE ParsePrices(c).displayed

-----------------------------------------------------------------------------
(* PricingEngine.calculate: every rule in turn, until one does not hold.   *)

\* ratio is the part of the price that is taken off: none, half of it or
\* nothing (the pattern of a free second item)
Rule == [type : {"direct", "coupon", "threshold", "multi", "shipping"},
         amount : Nat, ratio : {"none", "half", "zero"}, least : Nat,
         confirmed : BOOLEAN]

ASSUME RulesAssumption == RuleLists \subseteq Seq(Rule) /\ Amounts \subseteq Nat

Holds(rule, subtotal) ==
    /\ rule.confirmed
    /\ rule.type = "threshold" => /\ subtotal # Absent /\ rule.least # Absent
                                  /\ subtotal >= rule.least
    /\ rule.type = "shipping" => rule.amount # Absent

Reduction(rule, current) == IF rule.ratio = "half" THEN current \div 2 ELSE rule.amount

ApplyRule_FreeShipping(sum, rule, subtotal) ==
    IF ~sum.ok \/ ~Holds(rule, subtotal) THEN [sum EXCEPT !.ok = FALSE]
    ELSE IF rule.type = "shipping"
    THEN [sum EXCEPT !.shipping = @ + rule.amount]
    ELSE LET off == Reduction(rule, sum.current)
         IN  IF off = 0 \/ off > sum.current THEN [sum EXCEPT !.ok = FALSE]
             ELSE [sum EXCEPT !.current = @ - off, !.discount = @ + off]

ApplyRule(sum, rule, subtotal) ==
    IF ~sum.ok \/ ~Holds(rule, subtotal) THEN [sum EXCEPT !.ok = FALSE]
    ELSE IF rule.type = "shipping"
    THEN [sum EXCEPT !.current = @ + rule.amount, !.shipping = @ + rule.amount]
    ELSE LET off == Reduction(rule, sum.current)
         IN  IF off = 0 \/ off > sum.current THEN [sum EXCEPT !.ok = FALSE]
             ELSE [sum EXCEPT !.current = @ - off, !.discount = @ + off]

NoRules(listed) ==
    [ok |-> listed # Absent, current |-> listed, discount |-> 0, shipping |-> 0]

\* the sums after each of the rules
Sums(listed, rules, subtotal) ==
    LET sum[n \in 0..Len(rules)] ==
            IF n = 0 THEN NoRules(listed) ELSE ApplyRule(sum[n - 1], rules[n], subtotal)
    IN  sum

Calculate(listed, rules, subtotal) ==
    LET sum == Sums(listed, rules, subtotal)[Len(rules)]
    IN  [resolved |-> sum.ok, discount |-> sum.discount, shipping |-> sum.shipping,
         effective |-> IF sum.ok THEN Max({Cent, sum.current}) ELSE Absent]

-----------------------------------------------------------------------------
(* From the card to the offer.                                             *)

\* PromotionParser.parse: the promotions that carry an amount or a ratio, in
\* its order.  "count" is whether the caller asks for two pieces.
Rules(c, price, two) ==
    LET second == [type |-> "multi", amount |-> Absent, least |-> Absent,
                   ratio |-> IF c.second = "free" THEN "zero" ELSE "half",
                   confirmed |-> two => c.count = 2]
        coupon == [type |-> "coupon", amount |-> c.voucher.off, ratio |-> "none",
                   least |-> c.voucher.least,
                   confirmed |-> price >= c.voucher.least]
    IN  (IF c.second # "none" THEN <<second>> ELSE <<>>)
        \o (IF c.voucher.off # Absent THEN <<coupon>> ELSE <<>>)

\* A rule with ratio zero cannot be built: pydantic raises out of compare().
Raises(c) == c.second = "free"

\* normalize_product: the base price and the price after the promotions
Normalised(c) ==
    LET price == PriceOf(c) IN
    [base |-> IF c.original # Absent THEN c.original ELSE price,
     effective |-> Calculate(price, Rules(c, price, TRUE), price).effective]

\* _final_price: the price after the promotions, or else their rules again on
\* the base price, without the condition on the number of pieces
FinalPrice(c) ==
    LET n == Normalised(c) IN
    IF n.base = Absent THEN [listed |-> Absent, amount |-> Absent]
    ELSE [listed |-> n.base,
          amount |-> IF n.effective # Absent THEN n.effective
                     ELSE Calculate(n.base, Rules(c, n.base, FALSE), n.base).effective]

NoCard == [source |-> "none"]
NoOffer == [listed |-> Absent, amount |-> Absent]
NoQuote == [listed |-> Absent, rules |-> <<>>, subtotal |-> Absent]

PriceInit ==
    /\ card = NoCard /\ stage = "start" /\ reading = Parsed(Absent, Absent, "none")
    /\ offer = NoOffer /\ quote = NoQuote

\* An adapter reads one card.
ReadCard ==
    /\ stage = "start"
    /\ \E c \in Cards : card' = c /\ reading' = ParsePrices(c)
    /\ stage' = "read"
    /\ UNCHANGED <<offer, quote>>

\* The comparison engine prices it.
PriceCard ==
    /\ stage = "read" /\ ~(Raises(card) /\ Normalised(card).base # Absent)
    /\ offer' = FinalPrice(card)
    /\ stage' = "priced"
    /\ UNCHANGED <<card, reading, quote>>

AbortComparison ==
    /\ stage = "read" /\ Raises(card) /\ Normalised(card).base # Absent
    /\ stage' = "raised"
    /\ UNCHANGED <<card, reading, offer, quote>>

\* A caller asks the price rules directly.
AskQuote ==
    /\ stage = "start"
    /\ \E l, s \in Amounts \cup {Absent}, rs \in RuleLists :
           quote' = [listed |-> l, rules |-> rs, subtotal |-> s]
    /\ stage' = "quoted"
    /\ UNCHANGED <<card, reading, offer>>

PriceNext == ReadCard \/ PriceCard \/ AbortComparison \/ AskQuote
PriceSpec == PriceInit /\ [][PriceNext]_priceVars

-----------------------------------------------------------------------------

\* the patterns of the kinds that may be the price of an offer
Priced == {i \in 1..7 : KindOf[i] \in {"displayed", "after_sale"}}

\* An offer starts from an amount the card spells out for one piece: the
\* attribute of the original price, or an amount of a text that names no range,
\* which is not the price of a member, a price that was or one to start from.
\* What a coupon takes off is such an amount only under a label of its own
\* ("99元，现价10元券" sells for 10); a loose amount in a coupon is its base.  Any
\* other amount is the work of a promotion the card names, which makes the offer
\* neither free nor dearer than what it started from.
OffersAreEvidenced ==
    stage = "priced" /\ offer.amount # Absent =>
        /\ IF card.original # Absent THEN offer.listed = card.original
           ELSE ~card.range /\ \E x \in card.mentions :
                                 /\ x.amount = offer.listed /\ Min(x.shapes) \in Priced
                                 /\ x.inCoupon => \/ Min(x.shapes) < 6
                                                  \/ x.amount = card.coupon.base
        /\ \/ offer.amount \in {offer.listed, PriceOf(card)}
           \/ card.second # "none" \/ card.voucher.off # Absent
        /\ Cent <= offer.amount
        /\ offer.amount <= Max({offer.listed, PriceOf(card), Cent})

\* PriceParser never gives a displayed price when the text has two of the same
\* standing, or a range; what it calls RESOLVED has a price, and nothing else
\* has one.
ReadingAbstains ==
    stage # "start" /\ stage # "quoted" =>
        /\ (reading.status = "RESOLVED") = (reading.effective # Absent)
        /\ reading.displayed # Absent =>
             /\ ~card.range
             /\ \A a, b \in Candidates(card) :
                  a.kind = "displayed" /\ b.kind = "displayed" /\ a.rank = b.rank
                  /\ a.amount # b.amount
                  => \E x \in Candidates(card) : x.kind = "displayed" /\ x.rank > a.rank

\* What PricingEngine answers accounts for every step: the effective price is
\* the listed price less the discount plus the shipping fee (at least a cent),
\* a discount never exceeds what it is taken from, and an order of the rules
\* matters only when a ratio is among them.
QuotesAccount ==
    stage = "quoted" =>
        LET q == Calculate(quote.listed, quote.rules, quote.subtotal)
            back == Calculate(quote.listed, Reverse(quote.rules), quote.subtotal)
        IN  q.resolved =>
            /\ q.discount <= quote.listed + q.shipping
            /\ q.effective = Max({Cent, quote.listed - q.discount + q.shipping})
            /\ back.resolved /\ (\A r \in ToSet(quote.rules) : r.ratio = "none")
                 => back = q

\* A discount for a second piece applies to two pieces: an offer of another
\* number, or of a number nobody stated, has no price.
UnconfirmedIsUnpriced ==
    stage = "priced" /\ card.second # "none" /\ card.count # 2 =>
        offer.amount = Absent
=============================================================================
