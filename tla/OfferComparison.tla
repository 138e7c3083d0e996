-------------------------- MODULE OfferComparison --------------------------
(***************************************************************************)
(* ComparisonEngine.compare (comparison/engine.py) with its OfferCache     *)
(* (cache/offer.py): product by product it takes a cached offer or prices  *)
(* the card and stores the offer.  Meanwhile time passes, the shops change *)
(* their shelves, and the cache may be cleared, closed, or opened again by *)
(* a new process.                                                          *)
(***************************************************************************)
EXTENDS Integers, Sequences

CONSTANTS Stores,     \* platform and store of an observation
          Products,   \* product cards
          Shelves,    \* the lists of products an observation may show
          TTL,        \* ttl_seconds
          MaxTime,    \* bound on the clock
          HasFile     \* the cache was given a path

\* A card: the text goes into the key of the cache (product and
\* specification); the unit price (0 when it was not resolved) and the
\* confidence, here in percent, also depend on attributes that do not.  A card that "raises"
\* has a promotion no price rule can be built from.
ProductRecord == [text : STRING, price : Nat, confidence : 0..100, comparable : BOOLEAN,
                  raises : BOOLEAN]

ASSUME StoreAssumption == Products \subseteq ProductRecord /\ Shelves \subseteq Seq(Products)
ASSUME TimeAssumption == TTL \in Nat \ {0} /\ MaxTime \in Nat
ASSUME FileAssumption == HasFile \in BOOLEAN

Texts == {c.text : c \in Products}

VARIABLES
    now,
    entries,    \* OfferCache._entries
    disk,       \* the table of the file
    open,       \* _connection is not None
    comparing,  \* compare() runs
    pending,    \* the sources it has not come to
    seen,       \* what their observations show
    source, todo,   \* the source it is at, and its products still to do
    offers,     \* the offers so far
    winner      \* recommended_platform of the last comparison

cacheVars == <<entries, disk, open>>
runVarsC == <<comparing, seen, pending, source, todo, offers, winner>>
compareVars == <<now, cacheVars, runVarsC>>

NoStore == "no store"
NoEntry == [text |-> "no entry"]

Key(store, text) == <<store, text>>
Keys == Stores \X Texts

NoShelves == [s \in Stores |-> <<>>]
Empty == [k \in Keys |-> NoEntry]

CompareInit ==
    /\ now = 0
    /\ entries = Empty /\ disk = Empty /\ open = HasFile
    /\ comparing = FALSE /\ seen = NoShelves /\ pending = {} /\ source = NoStore
    /\ todo = <<>> /\ offers = <<>> /\ winner = NoStore

-----------------------------------------------------------------------------
(* OfferCache.                                                             *)

Cached == IF open THEN disk ELSE entries

\* lookup finds an entry that has not expired
Hit_Late(key) == Cached[key] # NoEntry /\ Cached[key].expires >= now
Hit(key) == Cached[key] # NoEntry /\ Cached[key].expires > now

\* An expired entry goes; set() then takes its place.
Set(key, offer) ==
    LET entry == [offer |-> offer, created |-> now, expires |-> now + TTL]
    IN  IF open THEN disk' = [disk EXCEPT ![key] = entry] /\ UNCHANGED entries
        ELSE entries' = [entries EXCEPT ![key] = entry] /\ UNCHANGED disk

\* a card that cannot be priced raises between lookup and set
Forget(key) ==
    IF open THEN disk' = [disk EXCEPT ![key] = NoEntry] /\ UNCHANGED entries
    ELSE entries' = [entries EXCEPT ![key] = NoEntry] /\ UNCHANGED disk

Clear ==
    /\ entries' = Empty
    /\ disk' = IF open THEN Empty ELSE disk
    /\ UNCHANGED <<now, open, runVarsC>>

\* close: a cache with a file goes on in memory
Close ==
    /\ open /\ open' = FALSE
    /\ UNCHANGED <<now, entries, disk, runVarsC>>

\* The process ends, in the middle of a comparison too; a new one begins.
Restart ==
    /\ entries' = Empty /\ open' = HasFile
    /\ comparing' = FALSE /\ pending' = {} /\ source' = NoStore /\ todo' = <<>>
    /\ seen' = NoShelves /\ offers' = <<>> /\ winner' = NoStore
    /\ UNCHANGED <<now, disk>>

-----------------------------------------------------------------------------
(* ComparisonEngine.compare.                                               *)

Compare ==
    /\ ~comparing /\ comparing' = TRUE
    /\ seen' \in [Stores -> Shelves]     \* what the shops show by now
    /\ pending' = Stores /\ source' = NoStore
    /\ todo' = <<>> /\ offers' = <<>> /\ winner' = NoStore
    /\ UNCHANGED <<now, cacheVars>>

\* The next source; an observation that is not recognised shows no products.
TakeSource ==
    /\ comparing /\ todo = <<>>
    /\ \E s \in pending :
           /\ pending' = pending \ {s} /\ source' = s /\ todo' = seen[s]
           /\ seen' = [seen EXCEPT ![s] = <<>>]
    /\ UNCHANGED <<now, cacheVars, comparing, offers, winner>>

KeyOf(card) == Key(source, card.text)

AddOffer(offer, at) ==
    /\ offers' = Append(offers, [offer |-> offer, asked |-> Head(todo), from |-> source,
                                 priced |-> at, used |-> now])
    /\ todo' = Tail(todo)
    /\ UNCHANGED <<now, open, comparing, seen, pending, source, winner>>

UseCached ==
    /\ comparing /\ todo # <<>> /\ Hit(KeyOf(Head(todo)))
    /\ AddOffer(Cached[KeyOf(Head(todo))].offer, Cached[KeyOf(Head(todo))].created)
    /\ UNCHANGED <<entries, disk>>

PriceAnew ==
    /\ comparing /\ todo # <<>> /\ ~Hit(KeyOf(Head(todo))) /\ ~Head(todo).raises
    /\ LET offer == [store |-> source, card |-> Head(todo)]
       IN  AddOffer(offer, now) /\ Set(KeyOf(Head(todo)), offer)

Abort ==
    /\ comparing /\ todo # <<>> /\ ~Hit(KeyOf(Head(todo))) /\ Head(todo).raises
    /\ Forget(KeyOf(Head(todo)))
    /\ comparing' = FALSE /\ pending' = {} /\ source' = NoStore /\ todo' = <<>>
    /\ seen' = NoShelves /\ offers' = <<>>
    /\ UNCHANGED <<now, open, winner>>

\* the places of the offers that may be recommended
Usable == {i \in DOMAIN offers : offers[i].offer.card.comparable
                                 /\ offers[i].offer.card.price # 0}

\* min() by unit price, then by confidence: the first of the best
Better_Listed(i, j) == i <= j
Better(i, j) ==
    LET a == offers[i].offer.card   b == offers[j].offer.card IN
    \/ a.price < b.price
    \/ a.price = b.price /\ a.confidence > b.confidence
    \/ a.price = b.price /\ a.confidence = b.confidence /\ i <= j

Finish ==
    /\ comparing /\ todo = <<>> /\ pending = {}
    /\ comparing' = FALSE
    /\ winner' = IF \A i, j \in Usable : i = j THEN NoStore
                 ELSE offers[CHOOSE i \in Usable : \A j \in Usable : Better(i, j)].offer.store
    /\ UNCHANGED <<now, cacheVars, seen, pending, source, todo, offers>>

-----------------------------------------------------------------------------
(* What goes on around it.                                                 *)

Tick ==
    /\ now < MaxTime /\ now' = now + 1
    /\ UNCHANGED <<cacheVars, runVarsC>>

ComparisonStep == TakeSource \/ UseCached \/ PriceAnew \/ Abort \/ Finish

CompareNext ==
    Compare \/ ComparisonStep \/ Clear \/ Close \/ Restart \/ Tick

CompareSpec == CompareInit /\ [][CompareNext]_compareVars

-----------------------------------------------------------------------------

\* An offer, cached or not, was made for the store and the very text the
\* comparison has in front of it, and was priced less than the TTL before it
\* was used: what changes besides the text (a price attribute, the confidence of
\* a selector) is never older than that.
OffersAreFresh ==
    \A i \in DOMAIN offers :
        LET o == offers[i] IN
        /\ o.offer.store = o.from /\ o.offer.card.text = o.asked.text
        /\ o.priced <= o.used /\ o.used < o.priced + TTL

\* A store is recommended only over another: two offers with a price matched,
\* and none of them has a lower unit price, or the same one with a surer parse.
WinnerIsCheapest ==
    winner # NoStore =>
        /\ \E i, j \in Usable : i # j
        /\ \E i \in Usable :
             /\ offers[i].offer.store = winner
             /\ \A j \in Usable :
                  LET a == offers[i].offer.card   b == offers[j].offer.card IN
                  a.price < b.price \/ (a.price = b.price /\ a.confidence >= b.confidence)

\* The cache keeps what it says: an entry stands under the key of its own offer
\* and lives for the TTL, on disk as well as in memory, across closing, clearing
\* and a new process; memory is used only while no file is open.
CacheIsHonest ==
    /\ \A k \in Keys : \A e \in {entries[k], disk[k]} :
           e # NoEntry => /\ e.offer.store = k[1] /\ e.offer.card.text = k[2]
                          /\ e.created <= now /\ e.expires = e.created + TTL
    /\ open => entries = Empty

\* Whatever the order of comparing, expiring, closing, clearing and restarting,
\* a comparison uses no offer but a fresh one of its own store and text.
OffersCanBeTrusted == OffersAreFresh /\ CacheIsHonest
=============================================================================
