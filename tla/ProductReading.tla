--------------------------- MODULE ProductReading ---------------------------
(***************************************************************************)
(* From the text of a title to a product: QuantityParser.parse_all         *)
(* (parser/quantity.py), ProductParser (parser/product.py), the second     *)
(* opinion of a language model (parser/hybrid.py, llm/) and the match of a *)
(* product with a requirement (comparison/matcher.py).                     *)
(*                                                                         *)
(* A title is given by the matches of the patterns in its text.            *)
(* Confidence is counted in hundredths.                                    *)
(***************************************************************************)
EXTENDS Integers, FiniteSetsExt

CONSTANTS Titles,       \* the titles considered
          Requirements, \* the titles a user asks for
          Suggestions,  \* well-formed answers of the model
          Threshold     \* confidence_threshold of the hybrid parser

ASSUME ThresholdAssumption == Threshold \in 0..100

VARIABLES title, parsed, wish, verdict

readingVars == <<title, parsed, wish, verdict>>

\* A match of one of the patterns: where it starts and ends, which pattern
\* it is of (1 the measure, 2 with a count before it, 3 "2 x 500ml", 4 a count
\* alone), whether a count is written, and what it says.  A unit measures the
\* content of a piece, the piece itself, its size, or is a mere wrapping.
Match == [start : Nat, end : Nat, form : 1..4, explicit : BOOLEAN,
          unit : {"ml", "g", "piece", "size", "wrap"}, amount : Nat, count : Nat \ {0}]

TitleType == [matches : SUBSET Match, combo : BOOLEAN, review : BOOLEAN,
              gift : BOOLEAN, promoted : BOOLEAN, name : STRING, length : Nat]

Apart(m, n) == m.end <= n.start \/ n.end <= m.start

\* Matches lie in the text and are not empty; those of one pattern (finditer)
\* do not overlap.
ASSUME TitlesAssumption ==
    /\ Titles \cup Requirements \subseteq TitleType
    /\ \A t \in Titles \cup Requirements : \A m \in t.matches :
           /\ m.start < m.end /\ m.end <= t.length
           /\ \A n \in t.matches : m.form = n.form => m = n \/ Apart(m, n)

-----------------------------------------------------------------------------
(* QuantityParser.                                                         *)

NothingTaken == [taken |-> {}, until |-> -1]

\* parse_all: at each position the first pattern, unless a measure taken before
\* goes on there; the others that start with it lie inside of it.
TakeAt(read, p, t) ==
    LET here == {m \in t.matches : m.form # 4 /\ m.start = p}
        first == CHOOSE m \in here : \A n \in here : m.form <= n.form
    IN  IF here = {} \/ p < read.until THEN read
        ELSE [taken |-> read.taken \cup {first}, until |-> first.end]

\* the measures taken and occupied_until, before each position of the text
Scan(t) ==
    LET at[p \in 0..t.length] == IF p = 0 THEN NothingTaken ELSE TakeAt(at[p - 1], p - 1, t)
    IN  at

Measures_Overlapping(t) == {m \in t.matches : m.form # 4}

Measures(t) == Scan(t)[t.length].taken

\* and the counts that do not start before the end of the last of them
Quantities(t) ==
    Measures(t) \cup {m \in t.matches : m.form = 4 /\ m.start >= Scan(t)[t.length].until}

\* is_product_quantity: a capacity or a length describes the product instead
IsProductQuantity(m) == m.unit # "size"

ConfidenceOf(m) == IF m.form = 4 THEN 88 ELSE IF m.explicit THEN 98 ELSE 94

-----------------------------------------------------------------------------
(* ProductParser.parse.                                                    *)

NoQuantity == [unit |-> "none", amount |-> 0, count |-> 0]

\* litres are millilitres and kilos grams by now; a wrapping counts no content
QuantityOf(m) == [unit |-> IF m.unit = "wrap" THEN "none" ELSE m.unit,
                  amount |-> IF m.form = 4 THEN 0 ELSE m.amount, count |-> m.count]

ProductQuantities(t) == {m \in Quantities(t) : IsProductQuantity(m)}

Primary(t) ==
    CHOOSE m \in ProductQuantities(t) : \A n \in ProductQuantities(t) : m.start <= n.start

Ambiguous_FirstWins(t) ==
    ProductQuantities(t) = {} \/ t.combo \/ t.review

Ambiguous(t) ==
    \/ ProductQuantities(t) = {} \/ t.combo \/ t.review
    \/ Cardinality(ProductQuantities(t)) > 1 /\ ~t.gift

Confidence(t) ==
    LET found == ProductQuantities(t) # {}
        sure == IF found THEN ConfidenceOf(Primary(t)) ELSE 45
        mixed == IF t.combo THEN Min({sure, 58}) ELSE sure
        reviewed == IF t.review THEN Min({mixed, 70}) ELSE mixed
    IN  IF t.promoted /\ found /\ ~t.combo THEN Min({100, reviewed + 1}) ELSE reviewed

\* the name is the text beside the primary quantity, without its aliases
RuleResult(t) ==
    [name |-> t.name, ambiguous |-> Ambiguous(t), confidence |-> Confidence(t),
     quantity |-> IF ProductQuantities(t) = {} THEN NoQuantity ELSE QuantityOf(Primary(t)),
     source |-> "RULE"]

-----------------------------------------------------------------------------
(* HybridProductParser.parse.                                              *)

\* What becomes of a call of the model: complete() raises ProviderError for a
\* failed request, an answer of another shape and one that is not text; the
\* text may not be a suggestion.
Outcomes == {"request failed", "other shape", "not text", "not a suggestion", "suggestion"}

Suggestion == [name : STRING, confidence : 0..100,
               unit : {"ml", "g", "piece", "size", "none"}, amount : Nat, count : Nat]

ASSUME SuggestionsAssumption == Suggestions \subseteq Suggestion

MayDecide(r) == ~r.ambiguous /\ r.confidence >= Threshold

FellBack(r) == [r EXCEPT !.source = "RULE_FALLBACK"]

ModelResult(s) ==
    [name |-> s.name, ambiguous |-> s.confidence < Threshold, confidence |-> s.confidence,
     quantity |-> IF s.unit \in {"size", "none"} THEN NoQuantity
                  ELSE [unit |-> s.unit, amount |-> s.amount, count |-> s.count],
     source |-> "LLM"]

-----------------------------------------------------------------------------
(* ProductMatcher.match, on the names in their canonical form.             *)

Matches(want, have) ==
    /\ want.name # "" /\ want.name = have.name
    /\ want.quantity # NoQuantity /\ have.quantity # NoQuantity
    /\ want.quantity.count = have.quantity.count
    /\ want.quantity.unit = have.quantity.unit
    /\ want.quantity.amount = have.quantity.amount

\* _effective_unit_price divides by this: the content, else the pieces
Content(q) == IF q.amount # 0 THEN q.amount * q.count ELSE q.count

-----------------------------------------------------------------------------

NoTitle == [name |-> "none"]
Unread == [source |-> "none"]

ReadingInit == title = NoTitle /\ parsed = Unread /\ wish = Unread /\ verdict = FALSE

\* A title is read by the rules; the hybrid parser keeps a certain result.
ReadTitle ==
    /\ parsed = Unread
    /\ \E t \in Titles : title' = t /\ parsed' = RuleResult(t)
    /\ UNCHANGED <<wish, verdict>>

\* Otherwise it asks the model, once.
AskModel ==
    /\ parsed.source = "RULE" /\ wish = Unread /\ ~MayDecide(parsed)
    /\ \E o \in Outcomes :
           IF o = "suggestion" THEN \E s \in Suggestions : parsed' = ModelResult(s)
           ELSE parsed' = FellBack(parsed)
    /\ UNCHANGED <<title, wish, verdict>>

\* The engine compares a product read by the rules with a requirement.
MatchProduct ==
    /\ parsed.source = "RULE" /\ wish = Unread
    /\ \E t \in Requirements : wish' = RuleResult(t) /\ verdict' = Matches(RuleResult(t), parsed)
    /\ UNCHANGED <<title, parsed>>

ReadingNext == ReadTitle \/ AskModel \/ MatchProduct

ReadingSpec == ReadingInit /\ [][ReadingNext]_readingVars

-----------------------------------------------------------------------------

\* Every piece of a title is counted once: no two quantities overlap, and a
\* measure left out lies inside one that was taken.  Products that match one
\* requirement hold the same content in as many pieces, so that their prices
\* per unit stand in the order of their prices.
QuantitiesCount ==
    /\ parsed # Unread =>
        /\ \A m, n \in Quantities(title) : m = n \/ Apart(m, n)
        /\ \A m \in title.matches \ Quantities(title) :
               m.form # 4 => \E n \in Quantities(title) : n.start <= m.start /\ m.start < n.end
    /\ verdict => /\ Content(wish.quantity) = Content(parsed.quantity)
                  /\ Content(wish.quantity) > 0
                  /\ wish.quantity.count = parsed.quantity.count

\* A result that is not ambiguous rests on something: rules decide alone only
\* on one quantity of the product (a gift's aside) in a title without a combo or
\* words that need a review; an answer of the model that is no suggestion decides
\* nothing, and the model decides only with enough confidence.
CertaintyIsEarned ==
    parsed # Unread /\ ~parsed.ambiguous =>
        IF parsed.source = "LLM" THEN parsed.confidence >= Threshold
        ELSE /\ parsed.quantity # NoQuantity /\ ~title.combo /\ ~title.review
             /\ title.gift \/ \A m, n \in ProductQuantities(title) : m = n
             /\ parsed.confidence >= Threshold
=============================================================================
