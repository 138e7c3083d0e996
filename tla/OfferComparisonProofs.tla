----------------------- MODULE OfferComparisonProofs -----------------------
(***************************************************************************)
(* The cache keeps what it says and no comparison uses an offer of another *)
(* card or one that has expired, for every TTL, every set of stores and    *)
(* cards, with a file and without one.                                     *)
(***************************************************************************)
EXTENDS OfferComparison, WellFoundedInduction, TLAPS

USE StoreAssumption, TimeAssumption, FileAssumption

Offer == [store : Stores, card : Products]
Entry == [offer : Offer, created : Nat, expires : Nat]
Shown == [offer : Offer, asked : Products, from : Stores, priced : Nat, used : Nat]

\* The types the argument needs; a product is looked up only at a source.
CompareTypeOK ==
    /\ now \in Nat /\ open \in BOOLEAN
    /\ entries \in [Keys -> Entry \cup {NoEntry}]
    /\ disk \in [Keys -> Entry \cup {NoEntry}]
    /\ seen \in [Stores -> Seq(Products)]
    /\ pending \subseteq Stores /\ todo \in Seq(Products)
    /\ todo # <<>> => source \in Stores
    /\ offers \in Seq(Shown)

\* One entry under a key says the truth at a time.
Honest(k, e, t) ==
    e # NoEntry => /\ e.offer.store = k[1] /\ e.offer.card.text = k[2]
                   /\ e.created <= t /\ e.expires = e.created + TTL

\* One offer is of the card in front of the comparison and has not expired.
Fresh(o) ==
    /\ o.offer.store = o.from /\ o.offer.card.text = o.asked.text
    /\ o.priced <= o.used /\ o.used < o.priced + TTL

\* The inductive invariant: an offer is fresh because the entry it came from
\* was honest when it was used.
CompareInv == CompareTypeOK /\ CacheIsHonest /\ OffersAreFresh

\* The marker of an empty place is no entry, by its only field.
LEMMA NoEntryIsNone == NoEntry \notin Entry
  BY DEF NoEntry, Entry

\* The key of a product of the current source is a key of the cache.
LEMMA KeyIsKey ==
    ASSUME CompareTypeOK, todo # <<>>
    PROVE  /\ Head(todo) \in Products /\ source \in Stores
           /\ KeyOf(Head(todo)) = <<source, Head(todo).text>>
           /\ KeyOf(Head(todo)) \in Keys
  <1>1. Head(todo) \in Products /\ source \in Stores
    BY DEF CompareTypeOK
  <1> QED
    BY <1>1 DEF KeyOf, Key, Keys, Texts

\* CacheIsHonest, entry by entry.
LEMMA HonestEntries ==
    CacheIsHonest <=> /\ \A k \in Keys : Honest(k, entries[k], now) /\ Honest(k, disk[k], now)
                      /\ open => entries = Empty
  BY DEF CacheIsHonest, Honest

\* An empty cache is a cache.
LEMMA EmptyIsCache == /\ Empty \in [Keys -> Entry \cup {NoEntry}]
                      /\ \A k \in Keys : Empty[k] = NoEntry
  BY DEF Empty

\* Initially nothing is cached and nothing is offered.
LEMMA CompareInitInv == CompareInit => CompareInv
  <1> SUFFICES ASSUME CompareInit PROVE CompareInv
    OBVIOUS
  <1>1. CompareTypeOK
    BY EmptyIsCache DEF CompareInit, CompareTypeOK, NoShelves
  <1>2. CacheIsHonest
    BY EmptyIsCache DEF CompareInit, CacheIsHonest
  <1>3. OffersAreFresh
    BY DEF CompareInit, OffersAreFresh
  <1> QED
    BY <1>1, <1>2, <1>3 DEF CompareInv

\* An offer that is added leaves the others as they were.
LEMMA AddedOffer ==
    ASSUME CompareInv, todo # <<>>, NEW o \in Offer, NEW at \in Nat,
           AddOffer(o, at), o.store = source, o.card.text = Head(todo).text,
           at <= now, now < at + TTL
    PROVE  OffersAreFresh' /\ offers' \in Seq(Shown) /\ todo' \in Seq(Products)
  <1> DEFINE new == [offer |-> o, asked |-> Head(todo), from |-> source,
                     priced |-> at, used |-> now]
  <1>1. new \in Shown /\ Fresh(new)
    BY KeyIsKey DEF CompareInv, CompareTypeOK, Shown, Fresh
  <1>2. offers' = Append(offers, new) /\ offers \in Seq(Shown) /\ todo' = Tail(todo)
    BY DEF AddOffer, CompareInv, CompareTypeOK
  <1>3. \A i \in DOMAIN offers : Fresh(offers[i])
    BY DEF CompareInv, OffersAreFresh, Fresh
  <1> HIDE DEF new
  <1>4. \A i \in DOMAIN offers' : Fresh(offers'[i])
    <2> TAKE i \in DOMAIN offers'
    <2>1. CASE i \in DOMAIN offers
      BY <2>1, <1>2, <1>3
    <2>2. CASE i \notin DOMAIN offers
      BY <2>2, <1>1, <1>2
    <2> QED
      BY <2>1, <2>2
  <1>5. todo' \in Seq(Products)
    BY <1>2 DEF CompareInv, CompareTypeOK
  <1> QED
    BY <1>1, <1>2, <1>4, <1>5 DEF OffersAreFresh, Fresh

\* Every step keeps the invariant.
LEMMA CompareStep == CompareInv /\ [CompareNext]_compareVars => CompareInv'
  <1> SUFFICES ASSUME CompareInv, [CompareNext]_compareVars PROVE CompareInv'
    OBVIOUS
  <1>t. CompareTypeOK /\ CacheIsHonest /\ OffersAreFresh
    BY DEF CompareInv
  <1>h. (\A k \in Keys : Honest(k, entries[k], now) /\ Honest(k, disk[k], now))
        /\ (open => entries = Empty)
    BY <1>t, HonestEntries
  <1>k. CacheIsHonest' <=>
          /\ \A k \in Keys : Honest(k, entries'[k], now') /\ Honest(k, disk'[k], now')
          /\ open' => entries' = Empty
    BY DEF CacheIsHonest, Honest, Empty, Keys, Texts
  <1>1. CASE Compare
    <2>1. CompareTypeOK'
      BY <1>1, <1>t DEF Compare, CompareTypeOK, cacheVars
    <2>2. CacheIsHonest'
      BY <1>1, <1>t DEF Compare, CacheIsHonest, cacheVars
    <2>3. OffersAreFresh'
      BY <1>1 DEF Compare, OffersAreFresh
    <2> QED
      BY <2>1, <2>2, <2>3 DEF CompareInv
  <1>2. CASE TakeSource
    <2>1. CompareTypeOK'
      BY <1>2, <1>t DEF TakeSource, CompareTypeOK, cacheVars
    <2>2. CacheIsHonest' /\ OffersAreFresh'
      BY <1>2, <1>t DEF TakeSource, CacheIsHonest, OffersAreFresh, cacheVars
    <2> QED
      BY <2>1, <2>2 DEF CompareInv
  <1>3. CASE UseCached
    <2> DEFINE k == KeyOf(Head(todo))
               e == Cached[k]
    <2>1. todo # <<>> /\ k \in Keys /\ k = <<source, Head(todo).text>>
      BY <1>3, <1>t, KeyIsKey DEF UseCached
    <2>2. Honest(k, e, now) /\ e \in Entry /\ e.expires > now
      BY <1>3, <1>t, <1>h, <2>1 DEF UseCached, Hit, Cached, CompareTypeOK
    <2>3. AddOffer(e.offer, e.created)
      BY <1>3 DEF UseCached
    <2>4. /\ e.offer \in Offer /\ e.created \in Nat /\ e.created <= now
          /\ now < e.created + TTL /\ e.offer.store = source
          /\ e.offer.card.text = Head(todo).text
      BY <2>1, <2>2, NoEntryIsNone, <1>t DEF Honest, Entry, CompareTypeOK
    <2>5. OffersAreFresh' /\ offers' \in Seq(Shown) /\ todo' \in Seq(Products)
      BY <2>1, <2>3, <2>4, AddedOffer
    <2>6. CompareTypeOK'
      BY <1>3, <1>t, <2>1, <2>5 DEF UseCached, AddOffer, CompareTypeOK
    <2>7. CacheIsHonest'
      BY <1>3, <1>t DEF UseCached, AddOffer, CacheIsHonest
    <2> QED
      BY <2>5, <2>6, <2>7 DEF CompareInv
  <1>4. CASE PriceAnew
    <2> DEFINE k == KeyOf(Head(todo))
               o == [store |-> source, card |-> Head(todo)]
               e == [offer |-> o, created |-> now, expires |-> now + TTL]
    <2>1. /\ todo # <<>> /\ k \in Keys /\ k = <<source, Head(todo).text>>
          /\ source \in Stores /\ Head(todo) \in Products
      BY <1>4, <1>t, KeyIsKey DEF PriceAnew
    <2>2. AddOffer(o, now) /\ Set(k, o) /\ o \in Offer
      BY <1>4, <2>1 DEF PriceAnew, Offer
    <2>3. OffersAreFresh' /\ offers' \in Seq(Shown) /\ todo' \in Seq(Products)
      <3>1. now \in Nat /\ now <= now /\ now < now + TTL
        BY <1>t DEF CompareTypeOK
      <3> QED
        BY <2>1, <2>2, <3>1, AddedOffer
    <2>4. now' = now /\ open' = open
      BY <2>2 DEF AddOffer
    <2>5. e \in Entry /\ Honest(k, e, now')
      BY <2>1, <2>2, <2>4, <1>t DEF Entry, Honest, CompareTypeOK
    <2>6. \/ open /\ disk' = [disk EXCEPT ![k] = e] /\ entries' = entries
          \/ ~open /\ entries' = [entries EXCEPT ![k] = e] /\ disk' = disk
      BY <2>2, <1>t DEF Set, CompareTypeOK
    <2> HIDE DEF e, o, k
    <2>7. CompareTypeOK'
      <3>1. /\ entries' \in [Keys -> Entry \cup {NoEntry}]
            /\ disk' \in [Keys -> Entry \cup {NoEntry}]
        BY <2>1, <2>5, <2>6, <1>t DEF CompareTypeOK
      <3> QED
        BY <3>1, <2>1, <2>2, <2>3, <1>t DEF AddOffer, CompareTypeOK
    <2>8. \A j \in Keys : Honest(j, entries'[j], now') /\ Honest(j, disk'[j], now')
      <3> TAKE j \in Keys
      <3>1. CASE j = k
        BY <3>1, <2>1, <2>4, <2>5, <2>6, <1>t, <1>h DEF Honest, CompareTypeOK
      <3>2. CASE j # k
        BY <3>2, <2>1, <2>4, <2>6, <1>t, <1>h DEF Honest, CompareTypeOK
      <3> QED
        BY <3>1, <3>2
    <2>9. open' => entries' = Empty
      BY <2>4, <2>6, <1>h
    <2> QED
      BY <2>3, <2>7, <2>8, <2>9, <1>k DEF CompareInv
  <1>5. CASE Abort
    <2> DEFINE k == KeyOf(Head(todo))
    <2>1. k \in Keys /\ now' = now /\ open' = open
      BY <1>5, <1>t, KeyIsKey DEF Abort
    <2>2. \/ open /\ disk' = [disk EXCEPT ![k] = NoEntry] /\ entries' = entries
          \/ ~open /\ entries' = [entries EXCEPT ![k] = NoEntry] /\ disk' = disk
      BY <1>5, <1>t DEF Abort, Forget, CompareTypeOK
    <2> HIDE DEF k
    <2>3. CompareTypeOK'
      <3>1. /\ entries' \in [Keys -> Entry \cup {NoEntry}]
            /\ disk' \in [Keys -> Entry \cup {NoEntry}]
        BY <2>1, <2>2, <1>t DEF CompareTypeOK
      <3>2. NoShelves \in [Stores -> Seq(Products)]
        BY DEF NoShelves
      <3> QED
        BY <1>5, <2>1, <3>1, <3>2, <1>t DEF Abort, CompareTypeOK
    <2>4. \A j \in Keys : Honest(j, entries'[j], now') /\ Honest(j, disk'[j], now')
      BY <2>1, <2>2, <1>t, <1>h DEF Honest, CompareTypeOK
    <2>5. open' => entries' = Empty
      BY <2>1, <2>2, <1>h
    <2>6. OffersAreFresh'
      BY <1>5 DEF Abort, OffersAreFresh
    <2> QED
      BY <2>3, <2>4, <2>5, <2>6, <1>k DEF CompareInv
  <1>6. CASE Finish \/ Close
    <2>1. CompareTypeOK'
      BY <1>6, <1>t DEF Finish, Close, CompareTypeOK, cacheVars, runVarsC
    <2>2. CacheIsHonest' /\ OffersAreFresh'
      BY <1>6, <1>t DEF Finish, Close, CacheIsHonest, OffersAreFresh, cacheVars, runVarsC
    <2> QED
      BY <2>1, <2>2 DEF CompareInv
  <1>7. CASE Clear
    <2>1. CompareTypeOK' /\ OffersAreFresh'
      BY <1>7, <1>t, EmptyIsCache DEF Clear, CompareTypeOK, OffersAreFresh, runVarsC
    <2>2. \A j \in Keys : Honest(j, entries'[j], now') /\ Honest(j, disk'[j], now')
      BY <1>7, <1>h, EmptyIsCache DEF Clear, Honest
    <2> QED
      BY <1>7, <2>1, <2>2, <1>k DEF Clear, CompareInv
  <1>8. CASE Restart
    <2>1. CompareTypeOK' /\ OffersAreFresh'
      BY <1>8, <1>t, EmptyIsCache DEF Restart, CompareTypeOK, OffersAreFresh, NoShelves
    <2>2. \A j \in Keys : Honest(j, entries'[j], now') /\ Honest(j, disk'[j], now')
      BY <1>8, <1>h, EmptyIsCache DEF Restart, Honest
    <2> QED
      BY <1>8, <2>1, <2>2, <1>k DEF Restart, CompareInv
  <1>9. CASE Tick
    <2>1. CompareTypeOK' /\ OffersAreFresh'
      BY <1>9, <1>t DEF Tick, CompareTypeOK, OffersAreFresh, cacheVars, runVarsC
    <2>2. \A j \in Keys : Honest(j, entries'[j], now') /\ Honest(j, disk'[j], now')
      <3> SUFFICES ASSUME NEW j \in Keys, NEW e \in Entry \cup {NoEntry}, Honest(j, e, now)
                   PROVE  Honest(j, e, now + 1)
        BY <1>9, <1>h, <1>t DEF Tick, CompareTypeOK, cacheVars, Honest
      <3> QED
        BY <1>t DEF Honest, Entry, CompareTypeOK
    <2> QED
      BY <1>9, <1>h, <2>1, <2>2, <1>k DEF Tick, cacheVars, CompareInv
  <1>10. CASE UNCHANGED compareVars
    BY <1>10, <1>t DEF compareVars, cacheVars, runVarsC, CompareInv, CompareTypeOK,
       CacheIsHonest, OffersAreFresh
  <1> QED
    BY <1>1, <1>2, <1>3, <1>4, <1>5, <1>6, <1>7, <1>8, <1>9, <1>10
    DEF CompareNext, ComparisonStep

\* The invariant holds throughout.
LEMMA CompareInvHolds == CompareSpec => []CompareInv
  BY CompareInitInv, CompareStep, PTL DEF CompareSpec

\* Whatever a shop changes without changing the text of a card is never older
\* than the TTL in a comparison, and no offer is taken for another card's.
THEOREM OffersFresh == CompareSpec => []OffersAreFresh
  <1>1. CompareInv => OffersAreFresh
    BY DEF CompareInv
  <1> QED
    BY <1>1, CompareInvHolds, PTL

\* Entries stand under their own keys and live for the TTL, in memory and on
\* disk, across closing, clearing and a new process.
THEOREM CacheHonest == CompareSpec => []CacheIsHonest
  <1>1. CompareInv => CacheIsHonest
    BY DEF CompareInv
  <1> QED
    BY <1>1, CompareInvHolds, PTL

\* The cache can be trusted: what it keeps and what is taken from it.
THEOREM OffersTrusted == CompareSpec => []OffersCanBeTrusted
  <1>1. CompareInv => OffersCanBeTrusted
    BY DEF CompareInv, OffersCanBeTrusted
  <1> QED
    BY <1>1, CompareInvHolds, PTL
-----------------------------------------------------------------------------
(* The recommendation.                                                     *)

\* A set of natural numbers has a least element.
LEMMA LeastNumber ==
    ASSUME NEW T, T \subseteq Nat, T # {}
    PROVE  \E x \in T : \A y \in T : x <= y
  <1>1. PICK x \in T : \A y \in T : ~(<<y, x>> \in OpToRel(<, Nat))
    BY NatLessThanWellFounded, WFMin
  <1>2. \A y \in T : ~(y < x)
    BY <1>1 DEF OpToRel
  <1> QED
    BY <1>2

\* What is usable is an offer with a price and a confidence.
LEMMA UsableTyped ==
    ASSUME CompareTypeOK, NEW i \in Usable
    PROVE  /\ i \in Nat /\ offers[i].offer.card.price \in Nat
           /\ offers[i].offer.card.confidence \in Int
           /\ offers[i].offer.card.confidence <= 100
  <1>1. i \in DOMAIN offers /\ offers \in Seq(Shown)
    BY DEF Usable, CompareTypeOK
  <1>2. offers[i] \in Shown /\ i \in Nat
    BY <1>1
  <1>3. offers[i].offer \in Offer
    BY <1>2 DEF Shown
  <1>4. offers[i].offer.card \in ProductRecord
    BY <1>3 DEF Offer
  <1>5. offers[i].offer.card.confidence \in 0..100
    BY <1>4 DEF ProductRecord
  <1>6. offers[i].offer.card.price \in Nat
    BY <1>4 DEF ProductRecord
  <1> HIDE DEF Usable
  <1>7. ASSUME NEW x \in 0..100 PROVE x \in Int /\ x <= 100
    OBVIOUS
  <1> QED
    BY <1>2, <1>5, <1>6, <1>7

\* min() finds an offer: among the usable ones there is a first of the best.
LEMMA BestExists ==
    ASSUME CompareTypeOK, Usable # {}
    PROVE  \E i \in Usable : \A j \in Usable : Better(i, j)
  <1> DEFINE card(i) == offers[i].offer.card
             prices == {card(i).price : i \in Usable}
  <1>1. \A i \in Usable : /\ card(i).price \in Nat /\ i \in Nat
                          /\ card(i).confidence \in Int /\ card(i).confidence <= 100
    BY UsableTyped
  <1> HIDE DEF card
  <1>2. PICK p \in prices : \A q \in prices : p <= q
    <2>1. prices \subseteq Nat /\ prices # {}
      BY <1>1
    <2> QED
      BY <2>1, LeastNumber
  <1> DEFINE cheap == {i \in Usable : card(i).price = p}
             doubts == {100 - card(i).confidence : i \in cheap}
  <1>3. PICK d \in doubts : \A e \in doubts : d <= e
    <2>1. cheap # {}
      BY <1>2
    <2>2. doubts \subseteq Nat /\ doubts # {}
      BY <1>1, <2>1
    <2> QED
      BY <2>2, LeastNumber
  <1> DEFINE sure == {i \in cheap : 100 - card(i).confidence = d}
  <1>4. PICK i \in sure : \A j \in sure : i <= j
    <2>1. sure \subseteq Nat /\ sure # {}
      BY <1>1, <1>3
    <2> QED
      BY <2>1, LeastNumber
  <1>5. ASSUME NEW j \in Usable PROVE Better(i, j)
    <2>0. i \in Usable /\ card(i).price = p /\ 100 - card(i).confidence = d
      BY <1>4
    <2>1. CASE card(j).price # p
      <3>1. card(j).price \in prices
        OBVIOUS
      <3>2. p <= card(j).price /\ p \in Nat /\ card(j).price \in Nat
        BY <1>1, <1>2, <2>0, <3>1
      <3>3. card(i).price < card(j).price
        BY <2>0, <2>1, <3>2
      <3> QED
        BY <3>3 DEF Better, card
    <2>2. CASE card(j).price = p /\ 100 - card(j).confidence # d
      <3>1. 100 - card(j).confidence \in doubts
        BY <2>2
      <3>2. d <= 100 - card(j).confidence
        BY <1>3, <3>1
      <3>3. card(i).confidence \in Int /\ card(j).confidence \in Int
        BY <1>1, <2>0
      <3>4. card(i).confidence > card(j).confidence
        BY <2>0, <2>2, <3>2, <3>3
      <3> QED
        BY <2>0, <2>2, <3>4 DEF Better, card
    <2>3. CASE card(j).price = p /\ 100 - card(j).confidence = d
      <3>1. i <= j
        BY <1>4, <2>3
      <3>2. card(i).confidence \in Int /\ card(j).confidence \in Int
        BY <1>1, <2>0
      <3>3. card(i).confidence = card(j).confidence
        BY <2>0, <2>3, <3>2
      <3> QED
        BY <2>0, <2>3, <3>1, <3>3 DEF Better, card
    <2> QED
      BY <2>1, <2>2, <2>3
  <1> QED
    BY <1>4, <1>5

\* While a comparison runs there is no recommendation.
WinnerInv == (comparing => winner = NoStore) /\ WinnerIsCheapest

\* The recommendation that is made is one of the best.
LEMMA FinishIsCheapest ==
    ASSUME CompareTypeOK, Finish PROVE WinnerInv'
  <1>1. comparing' = FALSE /\ offers' = offers
    BY DEF Finish
  <1>2. CASE \A i, j \in Usable : i = j
    BY <1>1, <1>2 DEF Finish, WinnerInv, WinnerIsCheapest
  <1>3. CASE \E i, j \in Usable : i # j
    <2> DEFINE b == CHOOSE i \in Usable : \A j \in Usable : Better(i, j)
    <2>1. b \in Usable /\ \A j \in Usable : Better(b, j)
      BY <1>3, BestExists
    <2>2. winner' = offers[b].offer.store
      BY <1>3 DEF Finish
    <2> HIDE DEF b
    <2>3. \A i \in Usable : offers[i].offer.card.confidence \in Int
      BY UsableTyped
    <2>4. \A j \in Usable :
            LET a == offers[b].offer.card   c == offers[j].offer.card IN
            a.price < c.price \/ (a.price = c.price /\ a.confidence >= c.confidence)
      BY <2>1, <2>3 DEF Better
    <2>5. Usable' = Usable
      BY <1>1 DEF Usable
    <2>6. WinnerIsCheapest'
      BY <1>1, <1>3, <2>1, <2>2, <2>4, <2>5 DEF WinnerIsCheapest
    <2> QED
      BY <1>1, <2>6 DEF WinnerInv
  <1> QED
    BY <1>2, <1>3

\* Everything else keeps offers and recommendation together or withdraws both.
LEMMA WinnerStep ==
    ASSUME CompareTypeOK, WinnerInv, [CompareNext]_compareVars PROVE WinnerInv'
  <1>1. CASE Finish
    BY <1>1, FinishIsCheapest
  <1>2. CASE Compare \/ Restart
    BY <1>2 DEF Compare, Restart, WinnerInv, WinnerIsCheapest
  <1>3. CASE TakeSource \/ Clear \/ Close \/ Tick \/ UNCHANGED compareVars
    BY <1>3 DEF TakeSource, Clear, Close, Tick, compareVars, runVarsC, cacheVars,
       WinnerInv, WinnerIsCheapest, Usable
  <1>4. CASE UseCached \/ PriceAnew \/ Abort
    <2>1. comparing /\ winner' = winner
      BY <1>4 DEF UseCached, PriceAnew, Abort, AddOffer
    <2> QED
      BY <2>1 DEF WinnerInv, WinnerIsCheapest
  <1> QED
    BY <1>1, <1>2, <1>3, <1>4 DEF CompareNext, ComparisonStep

\* A store is recommended only over another, and none of the offers compared
\* has a lower unit price, or the same one with a surer parse.
THEOREM CheapestWins == CompareSpec => []WinnerIsCheapest
  <1>1. CompareInit => WinnerInv
    BY DEF CompareInit, WinnerInv, WinnerIsCheapest
  <1>2. CompareInv /\ WinnerInv /\ [CompareNext]_compareVars => WinnerInv'
    BY WinnerStep DEF CompareInv
  <1>3. WinnerInv => WinnerIsCheapest
    BY DEF WinnerInv
  <1> QED
    BY <1>1, <1>2, <1>3, CompareInvHolds, PTL DEF CompareSpec
=============================================================================
