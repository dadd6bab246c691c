---------------------------- MODULE PagesProofs ----------------------------
(***************************************************************************)
(* Proofs about the pages of the drops, those of the market and the forms  *)
(* on them: DropFeed, MarketPages and Forms, for every value of their      *)
(* constants.                                                              *)
(***************************************************************************)
EXTENDS DropFeed, MarketPages, Forms, FiniteSums, SequenceTheorems, FiniteSetTheorems, TLAPS

----------------------------------------------------------------------------
(* The stock of a drop *)

(* Whatever is on its way to a page, or on it, is a stock of the past, and  *)
(* until the scripts run the stock only falls.                              *)
OldStockIsMore ==
  restocks = 0 =>
    /\ \A m \in outbox : m.left >= left
    /\ \A p \in ListPages : \A n \in answers[p] : n # Asked => n >= left

DropFeedInv == DropFeedTypeOK /\ OldStockIsMore /\ NeverShowsTooFew

(* What a stock is, and a number a page may show or wait for. *)
LEMMA StockTypes ==
  /\ Stock \in Nat /\ MaxPurchases \in Nat /\ Restocks \in Nat
  /\ Asked = -1 /\ NotLoaded = -1
  /\ -1 \in -1..Stock
  /\ \A n \in 0..Stock : n \in -1..Stock /\ n \in Int /\ n # -1
  /\ ListPages \subseteq Pages /\ DetailPages \subseteq Pages
  BY DropFeedAssumption DEF Asked, NotLoaded, Pages

(* Both changes of the stock, and every way a number comes to a page. *)
LEMMA SaleSteps ==
  ASSUME DropFeedInv, Purchase \/ Restock
  PROVE  DropFeedInv'
<1>1. CASE Purchase
  <2> USE <1>1 DEF DropFeedInv, Purchase, InStock
  <2>1. left' \in 0..Stock /\ left' < left /\ sold' \in 1..MaxPurchases
    BY StockTypes DEF DropFeedTypeOK
  <2>2. DropFeedTypeOK'
    <3>1. [no |-> sold + 1, left |-> left - 1] \in Update
      BY <2>1 DEF Update
    <3>2. outbox' \subseteq Update
      BY <3>1 DEF DropFeedTypeOK
    <3> QED BY <2>1, <3>2, StockTypes DEF DropFeedTypeOK
  <2>3. OldStockIsMore'
    <3>1. \A m \in outbox : m.left \in Int BY DEF DropFeedTypeOK, Update
    <3>2. \A p \in ListPages : \A n \in answers[p] : n \in Int BY DEF DropFeedTypeOK
    <3>3. ASSUME restocks' = 0, NEW m \in outbox' PROVE m.left >= left'
      BY <2>1, <3>1, <3>3, StockTypes DEF DropFeedTypeOK, OldStockIsMore
    <3>4. ASSUME restocks' = 0, NEW p \in ListPages, NEW n \in answers'[p], n # Asked
          PROVE  n >= left'
      BY <2>1, <3>2, <3>4, StockTypes DEF DropFeedTypeOK, OldStockIsMore
    <3> QED BY <3>3, <3>4 DEF OldStockIsMore, Asked
  <2>4. NeverShowsTooFew'
    <3>1. \A p \in Pages : shown[p] \in Int BY DEF DropFeedTypeOK
    <3> QED BY <2>1, <3>1, StockTypes DEF NeverShowsTooFew, DropFeedTypeOK, NotLoaded
  <2> QED BY <2>2, <2>3, <2>4
<1>2. CASE Restock
  <2>1. restocks' \in 0..Restocks /\ restocks' # 0
    BY <1>2, StockTypes DEF DropFeedInv, DropFeedTypeOK, Restock
  <2>2. DropFeedTypeOK'
    BY <1>2, <2>1, StockTypes DEF DropFeedInv, DropFeedTypeOK, Restock
  <2> QED BY <2>1, <2>2 DEF DropFeedInv, OldStockIsMore, NeverShowsTooFew
<1> QED BY <1>1, <1>2

LEMMA PageSteps ==
  ASSUME DropFeedInv, NEW p \in Pages,
         OpenPage(p) \/ (p \in DetailPages /\ (Join(p) \/ Disconnect(p)))
  PROVE  DropFeedInv'
<1> USE DEF DropFeedInv
<1>1. CASE OpenPage(p)
  <2> USE <1>1 DEF OpenPage, saleVars
  <2>1. left \in 0..Stock /\ shown' = [shown EXCEPT ![p] = left] BY DEF DropFeedTypeOK
  <2>2. DropFeedTypeOK' BY <2>1, StockTypes DEF DropFeedTypeOK
  <2>3. OldStockIsMore' BY DEF OldStockIsMore, Asked
  <2>4. NeverShowsTooFew'
    BY <2>1, StockTypes DEF NeverShowsTooFew, DropFeedTypeOK, NotLoaded
  <2> QED BY <2>2, <2>3, <2>4
<1>2. CASE p \in DetailPages /\ (Join(p) \/ Disconnect(p))
  BY <1>2 DEF Join, Disconnect, saleVars, DropFeedTypeOK, OldStockIsMore,
     NeverShowsTooFew, NotLoaded, Asked
<1> QED BY <1>1, <1>2

LEMMA DeliverStep ==
  ASSUME DropFeedInv, NEW m \in outbox, NEW arrives \in BOOLEAN, Deliver(m, arrives)
  PROVE  DropFeedInv'
<1> USE DEF DropFeedInv, Deliver
<1>1. m.left \in 0..Stock BY DEF DropFeedTypeOK, Update
<1>2. \A p \in Pages : shown'[p] = shown[p] \/ shown'[p] = m.left
  BY DEF Applied
<1>3. DropFeedTypeOK'
  <2>1. \A p \in Pages : shown'[p] \in -1..Stock
    BY <1>1, <1>2, StockTypes DEF DropFeedTypeOK
  <2>2. shown' \in [Pages -> -1..Stock] BY <2>1
  <2> QED BY <2>2 DEF DropFeedTypeOK
<1>4. OldStockIsMore' BY DEF OldStockIsMore, Asked
<1>5. NeverShowsTooFew'
  BY <1>2 DEF NeverShowsTooFew, OldStockIsMore, NotLoaded
<1> QED BY <1>3, <1>4, <1>5

LEMMA PollSteps ==
  ASSUME DropFeedInv, NEW p \in ListPages,
         \/ Poll(p) \/ ServerReads(p)
         \/ \E n \in answers[p], ok \in BOOLEAN : Arrives(p, n, ok)
  PROVE  DropFeedInv'
<1> USE DEF DropFeedInv
<1>1. CASE Poll(p) \/ ServerReads(p)
  <2>1. \A q \in ListPages : \A n \in answers'[q] : n \in answers[q] \/ n = Asked \/ n = left
    BY <1>1 DEF Poll, ServerReads, DropFeedTypeOK
  <2>2. UNCHANGED <<saleVars, shown, joined>> BY <1>1 DEF Poll, ServerReads
  <2>3. answers' \in [ListPages -> SUBSET (-1..Stock)]
    <3>1. Asked \in -1..Stock /\ left \in -1..Stock BY StockTypes DEF DropFeedTypeOK
    <3> QED BY <1>1, <3>1 DEF Poll, ServerReads, DropFeedTypeOK
  <2>4. DropFeedTypeOK' BY <2>2, <2>3 DEF DropFeedTypeOK, saleVars
  <2>5. OldStockIsMore'
    BY <2>1, <2>2, StockTypes DEF OldStockIsMore, saleVars, DropFeedTypeOK
  <2>6. NeverShowsTooFew' BY <2>2 DEF NeverShowsTooFew, saleVars, NotLoaded
  <2> QED BY <2>4, <2>5, <2>6
<1>2. ASSUME NEW n \in answers[p], NEW ok \in BOOLEAN, Arrives(p, n, ok) PROVE DropFeedInv'
  <2> USE <1>2 DEF Arrives
  <2>1. n \in 0..Stock /\ n # Asked BY StockTypes DEF DropFeedTypeOK
  <2>2. \A q \in ListPages : answers'[q] \subseteq answers[q] BY DEF DropFeedTypeOK
  <2>3. answers' \in [ListPages -> SUBSET (-1..Stock)] BY DEF DropFeedTypeOK
  <2>4. shown' \in [Pages -> -1..Stock] BY <2>1, StockTypes DEF DropFeedTypeOK
  <2>5. DropFeedTypeOK' BY <2>3, <2>4 DEF DropFeedTypeOK, saleVars
  <2>6. OldStockIsMore' BY <2>2 DEF OldStockIsMore, saleVars, Asked
  <2>7. \A q \in Pages : shown'[q] = shown[q] \/ shown'[q] = n BY DEF DropFeedTypeOK
  <2>8. restocks = 0 => n >= left BY <2>1 DEF OldStockIsMore
  <2>9. NeverShowsTooFew' BY <2>7, <2>8 DEF NeverShowsTooFew, saleVars, NotLoaded
  <2> QED BY <2>5, <2>6, <2>9
<1> QED BY <1>1, <1>2

LEMMA DropFeedInvHolds == DropFeedSpec => []DropFeedInv
<1>1. DropFeedInit => DropFeedInv
  BY StockTypes DEF DropFeedInit, DropFeedInv, DropFeedTypeOK, OldStockIsMore, NeverShowsTooFew
<1>2. DropFeedInv /\ [DropFeedNext]_dropFeedVars => DropFeedInv'
  <2> SUFFICES ASSUME DropFeedInv, [DropFeedNext]_dropFeedVars PROVE DropFeedInv'
    OBVIOUS
  <2>1. CASE UNCHANGED dropFeedVars
    BY <2>1 DEF dropFeedVars, saleVars, DropFeedInv, DropFeedTypeOK, OldStockIsMore,
                NeverShowsTooFew, Asked, NotLoaded
  <2>2. CASE DropFeedNext
    BY <2>2, SaleSteps, PageSteps, DeliverStep, PollSteps, StockTypes DEF DropFeedNext
  <2> QED BY <2>1, <2>2
<1> QED BY <1>1, <1>2, PTL DEF DropFeedSpec

(* DropFeed: until the scripts restock the drop, no page shows fewer packs  *)
(* than there are, for any stock, pages and purchases, whichever way the    *)
(* updates and answers come in.                                             *)
THEOREM NoPageShowsTooFew == DropFeedSpec => []NeverShowsTooFew
<1>1. DropFeedInv => NeverShowsTooFew BY DEF DropFeedInv
<1> QED BY <1>1, DropFeedInvHolds, PTL

----------------------------------------------------------------------------
(* The pages of the market *)

(* On the collection, the market and a listing page: a fetch still wanted   *)
(* was asked for after the page was last told, so what it brings is no      *)
(* older.                                                                   *)
Counted == commits \in Nat /\ told \in Nat /\ told <= commits /\ seen \in Int
           /\ failed \in BOOLEAN

FetchRows == fetches \subseteq [to : {"reveal", "contents"}, wanted : BOOLEAN, of : Int]

WantedAreNews ==
  /\ phase.kind = "loading"
  /\ \A f \in fetches :
       /\ f.to = "contents" /\ f.of # Refused
       /\ f.wanted /\ f.of # Awaited => f.of >= told

MarketInv ==
  Counted /\ FetchRows /\ (kind = "market" => WantedAreNews) /\ AtRestShowsTheNews

LEMMA FetchRow ==
  ASSUME NEW to \in {"reveal", "contents"}
  PROVE  /\ Fetch(to) \in [to : {"reveal", "contents"}, wanted : BOOLEAN, of : Int]
         /\ Fetch(to).to = to /\ Fetch(to).wanted = TRUE /\ Fetch(to).of = Awaited
         /\ Awaited = -1 /\ Refused = -2
  BY DEF Fetch, Awaited, Refused

(* What a page asks for anew leaves nothing else wanted. *)
LEMMA ReloadStep ==
  ASSUME MarketInv, kind = "market", Reload, UNCHANGED <<commits, kind, phase, seen, failed>>
  PROVE  MarketInv'
<1> DEFINE new == Fetch("contents")
<1>1. \A f \in fetches' : f = new \/ \E g \in fetches : f = [g EXCEPT !.wanted = FALSE]
  BY DEF Reload, Cancelled
<1>2. \A f \in fetches' : f = new \/ \E g \in fetches :
        f \in [to : {"reveal", "contents"}, wanted : BOOLEAN, of : Int]
          /\ f.to = g.to /\ f.of = g.of /\ f.wanted = FALSE
  BY <1>1 DEF MarketInv, FetchRows
<1>3. new \in fetches' BY DEF Reload
<1>4. told' = commits BY DEF Reload
<1>5. Counted' BY <1>4 DEF MarketInv, Counted
<1>6. FetchRows' BY <1>2, FetchRow DEF FetchRows
<1>7. WantedAreNews'
  BY <1>2, FetchRow DEF MarketInv, WantedAreNews
<1>8. AtRestShowsTheNews' BY <1>3, FetchRow DEF AtRestShowsTheNews
<1> QED BY <1>5, <1>6, <1>7, <1>8 DEF MarketInv

(* The server answers with what it holds by then. *)
LEMMA ServerStep ==
  ASSUME MarketInv, NEW f \in fetches, ServerReadsFor(f)
  PROVE  MarketInv'
<1> USE DEF ServerReadsFor, MarketInv
<1> DEFINE answered == [f EXCEPT !.of = IF Refuses(f.to) THEN Refused ELSE commits]
<1>1. /\ answered.to = f.to /\ answered.wanted = f.wanted
      /\ answered \in [to : {"reveal", "contents"}, wanted : BOOLEAN, of : Int]
      /\ answered.of = IF Refuses(f.to) THEN Refused ELSE commits
  BY FetchRow DEF FetchRows, Counted
<1>2. fetches' = (fetches \ {f}) \cup {answered} OBVIOUS
<1> HIDE DEF answered
<1>3. UNCHANGED <<commits, kind, seen, failed, told, phase>> BY DEF serverVars
<1>4. Counted' BY <1>3 DEF Counted
<1>5. FetchRows' BY <1>1, <1>2 DEF FetchRows
<1>6. ASSUME kind' = "market" PROVE WantedAreNews'
  <2>1. f.to = "contents" /\ ~Refuses(f.to) BY <1>3, <1>6 DEF WantedAreNews, Refuses
  <2>2. answered.of = commits /\ commits # Refused /\ commits >= told
    BY <1>1, <2>1, FetchRow DEF Counted
  <2> QED BY <1>1, <1>2, <1>3, <1>6, <2>1, <2>2 DEF WantedAreNews
<1>7. AtRestShowsTheNews'
  BY <1>1, <1>2, <1>3 DEF AtRestShowsTheNews
<1> QED BY <1>4, <1>5, <1>6, <1>7

(* An answer still wanted is shown, and a failure is owned up to. *)
LEMMA AnswerStep ==
  ASSUME MarketInv, NEW f \in fetches,
         \/ PageAnswered(f) \/ PackLoads(f) \/ PackRefused(f) \/ ContentsArrive(f) \/ FetchFails(f)
  PROVE  MarketInv'
<1> USE DEF MarketInv
<1>1. f.of \in Int /\ f.wanted \in BOOLEAN BY DEF FetchRows
<1>2. CASE kind # "market"
  <2>1. /\ kind' # "market" /\ UNCHANGED <<commits, told>> /\ seen' \in Int /\ failed' \in BOOLEAN
        /\ \A g \in fetches' : g \in fetches \/ g = Fetch("contents")
    BY <1>1, <1>2 DEF PageAnswered, PackLoads, PackRefused, ContentsArrive, FetchFails,
       Counted, serverVars
  <2>2. FetchRows' BY <2>1, FetchRow DEF FetchRows
  <2> QED BY <2>1, <2>2 DEF Counted, AtRestShowsTheNews
<1>3. CASE kind = "market"
  <2>1. phase.kind = "loading" /\ f.of # Refused BY <1>3 DEF WantedAreNews
  <2>2. PageAnswered(f) \/ FetchFails(f)
    BY <1>3, <2>1 DEF PackLoads, PackRefused, ContentsArrive
  <2>3. /\ fetches' = fetches \ {f} /\ UNCHANGED <<kind, phase, commits, told>>
        /\ IF f.wanted THEN failed' \/ (f.of # Awaited /\ seen' = f.of)
           ELSE UNCHANGED <<seen, failed>>
        /\ seen' \in {seen, f.of} /\ failed' \in BOOLEAN
    BY <1>1, <1>3, <2>2 DEF PageAnswered, FetchFails, revealVars, serverVars, Counted
  <2>4. Counted' /\ FetchRows' BY <1>1, <2>3 DEF Counted, FetchRows
  <2>5. WantedAreNews' BY <1>3, <2>3 DEF WantedAreNews
  <2>6. AtRestShowsTheNews'
    <3>1. CASE f.wanted
      BY <1>3, <2>3, <3>1 DEF WantedAreNews, AtRestShowsTheNews
    <3>2. CASE ~f.wanted
      BY <2>3, <3>2 DEF AtRestShowsTheNews
    <3> QED BY <3>1, <3>2
  <2> QED BY <2>4, <2>5, <2>6
<1> QED BY <1>2, <1>3

LEMMA BroadcastStep ==
  ASSUME MarketInv, NEW e \in events, Broadcast(e) \/ BroadcastLost(e)
  PROVE  MarketInv'
<1> USE DEF Broadcast, BroadcastLost, tabVars, revealVars
<1>1. CASE kind = "market" /\ Reload
  BY <1>1, ReloadStep
<1>2. CASE UNCHANGED <<fetches, told>>
  BY <1>2 DEF MarketInv, Counted, FetchRows, WantedAreNews, AtRestShowsTheNews
<1>3. CASE kind # "market" /\ fetches' = fetches \cup {Fetch("contents")} /\ UNCHANGED told
  <2>1. FetchRows' BY <1>3, FetchRow DEF FetchRows, MarketInv
  <2> QED BY <1>3, <2>1 DEF MarketInv, Counted, AtRestShowsTheNews
<1> QED BY <1>1, <1>2, <1>3

(* Everything else leaves the fetches, and what is shown, alone. *)
LEMMA OtherPageSteps ==
  ASSUME MarketInv,
         \/ RefreshCommits \/ ListingCommits \/ RevealElsewhere \/ TurnCard \/ Skip
         \/ JoinRooms \/ LoseConnection \/ UNCHANGED pagesVars
  PROVE  MarketInv'
<1>1. /\ UNCHANGED <<kind, fetches, seen, failed, told>>
      /\ commits' = commits \/ commits' = commits + 1
  BY DEF RefreshCommits, ListingCommits, RevealElsewhere, TurnCard, Skip, JoinRooms,
         LoseConnection, pagesVars, serverVars, tabVars, revealVars
<1>2. kind = "market" => UNCHANGED phase
  BY DEF MarketInv, WantedAreNews, RefreshCommits, ListingCommits, RevealElsewhere, TurnCard,
         Skip, JoinRooms, LoseConnection, pagesVars, serverVars, tabVars, revealVars
<1> QED BY <1>1, <1>2 DEF MarketInv, Counted, FetchRows, WantedAreNews, AtRestShowsTheNews

LEMMA MarketInvHolds == PagesSpec => []MarketInv
<1>1. PagesInit => MarketInv
  <2> SUFFICES ASSUME PagesInit PROVE MarketInv OBVIOUS
  <2>1. fetches = {Fetch(IF kind = "animate" THEN "reveal" ELSE "contents")}
    BY DEF PagesInit
  <2>2. FetchRows BY <2>1, FetchRow DEF FetchRows
  <2>3. kind = "market" => WantedAreNews
    BY <2>1, FetchRow DEF PagesInit, WantedAreNews
  <2>4. AtRestShowsTheNews BY <2>1, FetchRow DEF AtRestShowsTheNews
  <2>5. Counted
    <3>1. commits = 0 /\ told = 0 /\ seen = -1 /\ failed = FALSE BY DEF PagesInit, Unloaded
    <3>2. commits \in Nat /\ told \in Nat /\ told <= commits /\ seen \in Int BY <3>1
    <3>3. failed \in BOOLEAN BY <3>1, Zenon
    <3> QED BY <3>2, <3>3 DEF Counted
  <2> QED BY <2>2, <2>3, <2>4, <2>5 DEF MarketInv
<1>2. MarketInv /\ [PagesNext]_pagesVars => MarketInv'
  <2> SUFFICES ASSUME MarketInv, [PagesNext]_pagesVars PROVE MarketInv' OBVIOUS
  <2>1. ASSUME UserReloads PROVE MarketInv'
    BY <2>1, ReloadStep DEF UserReloads, serverVars, revealVars
  <2> QED BY <2>1, ServerStep, AnswerStep, BroadcastStep, OtherPageSteps DEF PagesNext
<1> QED BY <1>1, <1>2, PTL DEF PagesSpec

(* MarketPages: a page that waits for nothing and shows no error shows what *)
(* it was last told of, for any number of commits and reloads.              *)
THEOREM PagesAtRestShowTheNews == PagesSpec => []AtRestShowsTheNews
<1>1. MarketInv => AtRestShowsTheNews BY DEF MarketInv
<1> QED BY <1>1, MarketInvHolds, PTL

----------------------------------------------------------------------------
(* The sort leaves no choice *)

LEMMA SlotTypes ==
  /\ Len(PackSlots) \in Nat /\ IsFiniteSet(Slots) /\ Cardinality(Slots) = Len(PackSlots)
  /\ \A s \in Slots : s \in Nat /\ PackSlots[s].rarity \in Nat
<1>1. Len(PackSlots) \in Nat BY PagesAssumption
<1>2. IsFiniteSet(Slots) /\ Cardinality(Slots) = Len(PackSlots)
  BY <1>1, FS_Interval DEF Slots
<1>3. ASSUME NEW s \in Slots PROVE s \in Nat /\ PackSlots[s].rarity \in Nat
  <2>1. s \in 1..Len(PackSlots) BY DEF Slots
  <2>2. PackSlots[s] \in [card : PricedCards, rarity : Nat]
    BY <2>1, PagesAssumption, ElementOfSeq
  <2> QED BY <2>1, <2>2, <1>1
<1> QED BY <1>1, <1>2, <1>3

(* Every slot is served somewhere. *)
LEMMA AllServed ==
  ASSUME NEW rows \in ContentsServed, NEW s \in Slots
  PROVE  \E i \in Slots : rows[i] = s
<1>1. rows \in Injection(Slots, Slots) BY DEF ContentsServed, AnyRowOrder, Injection, IsInjective
<1>2. rows \in Surjection(Slots, Slots) BY <1>1, SlotTypes, FS_Injection
<1> QED BY <1>2 DEF Surjection

(* Slots that agree up to i agree at i: the one is not before the other. *)
LEMMA AgreeUpTo ==
  ASSUME NEW rows \in ContentsServed, NEW others \in ContentsServed, NEW i \in Slots,
         \A j \in Slots : j < i => rows[j] = others[j]
  PROVE  NoLater(others[i], rows[i])
<1>1. rows[i] \in Slots /\ others[i] \in Slots BY DEF ContentsServed, AnyRowOrder
<1>2. PICK k \in Slots : others[k] = rows[i] BY <1>1, AllServed
<1>3. ~(k < i)
  BY <1>2 , SlotTypes DEF ContentsServed, AnyRowOrder, IsInjective
<1>4. CASE k = i BY <1>1, <1>2, <1>4, SlotTypes DEF NoLater
<1>5. CASE i < k BY <1>2, <1>5 DEF ContentsServed, Sorted
<1> QED BY <1>3, <1>4, <1>5, SlotTypes

LEMMA OneOrder ==
  ASSUME NEW rows \in ContentsServed, NEW others \in ContentsServed
  PROVE  rows = others
<1> DEFINE D == {i \in Slots : rows[i] # others[i]}
<1>1. ASSUME D # {} PROVE FALSE
  <2>1. D \subseteq Nat BY SlotTypes
  <2>2. PICK i \in D : \A j \in D : i <= j BY <1>1, <2>1, LeastOfNaturals
  <2>3. \A j \in Slots : j < i => rows[j] = others[j] BY <2>2, SlotTypes
  <2>4. rows[i] \in Slots /\ others[i] \in Slots /\ rows[i] # others[i]
    BY DEF ContentsServed, AnyRowOrder
  <2>5. NoLater(others[i], rows[i]) BY <2>3, AgreeUpTo
  <2>6. NoLater(rows[i], others[i]) BY <2>3, AgreeUpTo
  <2> QED BY <2>4, <2>5, <2>6, SlotTypes DEF NoLater
<1>2. \A i \in Slots : rows[i] = others[i] BY <1>1
<1> QED BY <1>2 DEF ContentsServed, AnyRowOrder

----------------------------------------------------------------------------
(* The reveal page *)

Phase == [kind : {"loading", "animating", "done", "error"}, turned : Nat]

TurnInv ==
  /\ phase \in Phase
  /\ phase.kind = "animating" => order \in ContentsServed /\ phase.turned <= Len(PackSlots)

LEMMA ServedLength ==
  ASSUME NEW rows \in ContentsServed
  PROVE  Len(rows) = Len(PackSlots)
BY SlotTypes DEF ContentsServed, AnyRowOrder, Slots

(* What is turned is a finite set, and one more turned is one more in it. *)
LEMMA FaceUpCounts ==
  ASSUME NEW rows, NEW n \in Nat
  PROVE  LET T == {rows[i] : i \in 1..n}
         IN  IsFiniteSet(T) /\ Cardinality(T) \in Nat
<1> DEFINE T == {rows[i] : i \in 1..n}
<1>1. IsFiniteSet(1..n) BY FS_Interval
<1>2. [i \in 1..n |-> rows[i]] \in Surjection(1..n, T) BY DEF Surjection
<1> QED BY <1>1, <1>2, FS_Surjection, FS_CardinalityType

LEMMA TurnStep ==
  ASSUME TurnInv, [PagesNext]_pagesVars
  PROVE  /\ TurnInv'
         /\ phase.kind = "animating" =>
              /\ FaceUp \subseteq FaceUp'
              /\ Cardinality(FaceUp') <= Cardinality(FaceUp) + 1
<1>1. CASE TurnCard
  <2> DEFINE n == phase.turned
  <2>1. /\ n \in Nat /\ order \in ContentsServed /\ n <= Len(PackSlots)
        /\ order' = order /\ n < Len(order)
        /\ phase' = [kind |-> AfterTurn(n + 1), turned |-> n + 1]
    BY <1>1 DEF TurnCard, TurnInv, Phase
  <2>2. Len(order) = Len(PackSlots) BY <2>1, ServedLength
  <2>3. TurnInv' BY <2>1, <2>2, SlotTypes DEF TurnInv, Phase, AfterTurn
  <2>4. FaceUp' = FaceUp \cup {order[n + 1]}
    <3>1. 1..(n + 1) = (1..n) \cup {n + 1} BY <2>1
    <3>2. phase'.turned = n + 1 BY <2>1
    <3> QED BY <2>1, <3>1, <3>2 DEF FaceUp
  <2>5. IsFiniteSet(FaceUp) /\ Cardinality(FaceUp) \in Nat
    BY <2>1, FaceUpCounts DEF FaceUp
  <2>6. Cardinality(FaceUp') <= Cardinality(FaceUp) + 1
    BY <2>4, <2>5, FS_AddElement
  <2> QED BY <2>3, <2>4, <2>6
<1>2. CASE phase.kind = "animating" /\ ~TurnCard
  <2>1. /\ phase' \in Phase /\ phase'.turned = phase.turned
        /\ order' = order \/ order' \in ContentsServed
    BY <1>2 DEF TurnInv, Phase, PagesNext, RefreshCommits, ListingCommits, RevealElsewhere,
       Broadcast, BroadcastLost, ServerReadsFor, PageAnswered, PackLoads, PackRefused,
       ContentsArrive, FetchFails, UserReloads, Skip, JoinRooms, LoseConnection,
       pagesVars, tabVars, revealVars
  <2>2. order \in ContentsServed /\ phase.turned \in Nat /\ phase.turned <= Len(PackSlots)
    BY <1>2 DEF TurnInv, Phase
  <2>3. order' = order BY <2>1, <2>2, OneOrder
  <2>4. TurnInv' BY <2>1, <2>2, <2>3 DEF TurnInv
  <2>5. FaceUp' = FaceUp BY <2>1, <2>3 DEF FaceUp
  <2>6. Cardinality(FaceUp) \in Nat BY <2>2, FaceUpCounts DEF FaceUp
  <2> QED BY <2>4, <2>5, <2>6
<1>3. CASE phase.kind # "animating"
  <2>1. /\ phase' \in Phase
        /\ phase'.kind = "animating" => order' \in ContentsServed /\ phase'.turned = 0
    BY <1>3 DEF TurnInv, Phase, PagesNext, RefreshCommits, ListingCommits, RevealElsewhere,
       Broadcast, BroadcastLost, ServerReadsFor, PageAnswered, PackLoads, PackRefused,
       ContentsArrive, FetchFails, UserReloads, TurnCard, Skip, JoinRooms, LoseConnection,
       pagesVars, tabVars, revealVars
  <2> QED BY <1>3, <2>1, SlotTypes DEF TurnInv
<1> QED BY <1>1, <1>2, <1>3

LEMMA TurnInvHolds == PagesSpec => []TurnInv
<1>1. PagesInit => TurnInv BY DEF PagesInit, TurnInv, Phase
<1>2. TurnInv /\ [PagesNext]_pagesVars => TurnInv' BY TurnStep
<1> QED BY <1>1, <1>2, PTL DEF PagesSpec

(* MarketPages: a card turned over stays, and none shows up before its      *)
(* turn, for a pack of any length and any rarities.                         *)
THEOREM TurnedCardsStay == PagesSpec => CardsTurnOnce
<1>1. TurnInv /\ [PagesNext]_pagesVars =>
        [phase.kind = "animating" =>
           /\ FaceUp \subseteq FaceUp'
           /\ Cardinality(FaceUp') <= Cardinality(FaceUp) + 1]_pagesVars
  BY TurnStep
<1> QED BY <1>1, TurnInvHolds, PTL DEF PagesSpec, CardsTurnOnce

----------------------------------------------------------------------------
(* The forms *)

Request ==
  [thing : 0..MaxThings, result : {"none", "done", "refused"}, page : {"waits", "heard", "deaf"}]

Requests == 1..Len(sent)

----------------------------------------------------------------------------
(* The inductive invariant *)

HeardDone(i, t) ==
  sent[i].thing = t /\ sent[i].page = "heard" /\ sent[i].result = "done"

(* A request that has given its thing, to the knowledge of the page, or may *)
(* still do so.                                                             *)
Counts(i, t) ==
  sent[i].thing = t /\ (sent[i].page = "waits" \/ HeardDone(i, t))

(* One request is out at a time, while the form is busy, ...                *)
OneOut ==
  /\ \A i \in Requests : sent[i].page = "waits" => busy /\ said.what = "nothing"
  /\ \A i, j \in Requests : sent[i].page = "waits" /\ sent[j].page = "waits" => i = j

(* ... of all things wanted before, ...                                     *)
ThingsAreOld == \A i \in Requests : sent[i].thing <= thing

(* ... and a form that is filled in or open again is about a thing the user *)
(* has not been told of.                                                    *)
WantsUndone ==
  (form = "pack" /\ open) \/ (form \in Typed /\ filled) =>
    \A i \in Requests : ~HeardDone(i, thing)

OneCounts ==
  form \notin Lingering =>
    \A t \in 0..MaxThings : \A i, j \in Requests : Counts(i, t) /\ Counts(j, t) => i = j

(* The server's part: what is not a pack or a deposit succeeds once.        *)
ServedOnce ==
  form \notin Dialogs =>
    \A i, j \in Requests :
      (sent[i].result = "done" /\ sent[j].result = "done" /\ sent[i].thing = sent[j].thing)
        => i = j

HeardOfAnswers == \A i \in Requests : sent[i].page = "heard" => sent[i].result # "none"

RefusalStands ==
  said.what = "refused" /\ form \notin Lingering =>
    \A i \in Requests : ~HeardDone(i, said.about)

FormsInv ==
  /\ FormsTypeOK /\ OneOut /\ ThingsAreOld /\ WantsUndone
  /\ OneCounts /\ ServedOnce /\ HeardOfAnswers /\ RefusalStands

(* What the parts of the invariant that are about requests say of them.     *)
LEMMA RequestTypes ==
  ASSUME FormsTypeOK
  PROVE  /\ sent \in Seq(Request) /\ Len(sent) \in Nat /\ DOMAIN sent = Requests
         /\ \A i \in Requests : sent[i] \in Request
         /\ thing \in Nat /\ MaxThings \in Nat
         /\ open \in BOOLEAN /\ filled \in BOOLEAN /\ busy \in BOOLEAN
  <1>1. sent \in Seq(Request)
    BY DEF FormsTypeOK, Request
  <1> QED
    BY <1>1, ElementOfSeq, FormsAssumption DEF FormsTypeOK, Requests

----------------------------------------------------------------------------
(* The steps *)

LEMMA WantsTypes ==
  ASSUME FormsInv, Wants \/ WantsNext \/ UNCHANGED thing
  PROVE  /\ thing' \in 0..MaxThings /\ thing' \in {thing, thing + 1}
         /\ Wants \/ WantsNext => \A i \in Requests : ~HeardDone(i, thing')
  <1> USE RequestTypes DEF FormsInv
  <1>1. thing' \in 0..MaxThings /\ thing' \in {thing, thing + 1}
    BY FormsAssumption DEF Wants, WantsNext, FormsTypeOK
  <1>2. ASSUME thing' = thing + 1 PROVE \A i \in Requests : ~HeardDone(i, thing')
    BY <1>2 DEF ThingsAreOld, HeardDone, Request
  <1>3. ASSUME ~Told, thing' = thing PROVE \A i \in Requests : ~HeardDone(i, thing')
    BY <1>3 DEF Told, Done, HeardDone
  <1>4. Wants \/ WantsNext => thing' = thing + 1 \/ (~Told /\ thing' = thing)
    BY DEF Wants, WantsNext
  <1> QED
    BY <1>1, <1>2, <1>3, <1>4

(* Steps that send and hear nothing. *)
LEMMA NothingSent ==
  ASSUME FormsInv, sent' = sent, form' = form,
         open' \in BOOLEAN, filled' \in BOOLEAN, busy' = busy,
         said' = said \/ said' = Silence,
         thing' \in 0..MaxThings, thing' >= thing,
         WantsUndone'
  PROVE  FormsInv'
  <1> USE DEF FormsInv
  <1>1. FormsTypeOK'
    BY RequestTypes, FormsAssumption DEF FormsTypeOK, Silence
  <1>2. OneOut' /\ RefusalStands'
    BY DEF OneOut, RefusalStands, Requests, Silence, HeardDone
  <1>3. ThingsAreOld'
    BY RequestTypes DEF ThingsAreOld, Requests, Request
  <1>4. OneCounts' /\ ServedOnce' /\ HeardOfAnswers'
    BY DEF OneCounts, ServedOnce, HeardOfAnswers, Requests, Counts, HeardDone
  <1> QED
    BY <1>1, <1>2, <1>3, <1>4

LEMMA UserSteps ==
  ASSUME FormsInv, OpenDialog \/ CloseDialog \/ Type
  PROVE  FormsInv'
  <1> USE RequestTypes DEF FormsInv
  <1>1. CASE OpenDialog
    <2>1. thing' \in 0..MaxThings /\ thing' >= thing
      BY <1>1, WantsTypes DEF OpenDialog
    <2>2. WantsUndone'
      <3>1. CASE form = "pack"
        BY <1>1, <3>1, WantsTypes DEF OpenDialog, WantsUndone, Requests, HeardDone, Typed
      <3>2. CASE form # "pack"
        BY <1>1, <3>2 DEF OpenDialog, WantsUndone, Requests, HeardDone
      <3> QED
        BY <3>1, <3>2
    <2> QED
      BY <1>1, <2>1, <2>2, NothingSent DEF OpenDialog
  <1>2. CASE CloseDialog
    <2>1. WantsUndone'
      BY <1>2 DEF CloseDialog, WantsUndone, Requests, HeardDone
    <2>2. said' = said \/ said' = Silence
      BY <1>2 DEF CloseDialog
    <2>3. filled' \in BOOLEAN
      BY <1>2 DEF CloseDialog
    <2>4. thing' \in 0..MaxThings /\ thing' >= thing
      BY <1>2 DEF CloseDialog, FormsTypeOK
    <2> QED
      BY <1>2, <2>1, <2>2, <2>3, <2>4, NothingSent DEF CloseDialog
  <1>3. CASE Type
    <2>1. thing' \in 0..MaxThings /\ thing' >= thing
      BY <1>3, WantsTypes DEF Type
    <2>2. WantsUndone'
      BY <1>3, WantsTypes DEF Type, WantsUndone, Requests, HeardDone
    <2> QED
      BY <1>3, <2>1, <2>2, NothingSent DEF Type
  <1> QED
    BY <1>1, <1>2, <1>3

LEMMA ClickStep ==
  ASSUME FormsInv, Click
  PROVE  FormsInv'
  <1> USE RequestTypes DEF FormsInv
  <1> DEFINE new == [thing |-> thing, result |-> "none", page |-> "waits"]
             n == Len(sent) + 1
  <1>1. new \in Request
    BY DEF FormsTypeOK, Request
  <1>2. /\ sent' = Append(sent, new) /\ busy' = TRUE /\ said' = Silence /\ thing' = thing
        /\ form' = form /\ open' = open /\ filled' = filled /\ ~busy /\ open /\ filled
    BY DEF Click, Enabled
  <1>3. new.thing = thing /\ new.page = "waits" /\ new.result = "none"
    OBVIOUS
  <1> HIDE DEF new
  <1>4. /\ sent' \in Seq(Request) /\ Requests' = 1..n
        /\ \A i \in Requests : sent'[i] = sent[i]
        /\ sent'[n] = new
    BY <1>1, <1>2, AppendProperties DEF Requests
  <1>5. \A i \in 1..n : i \in Requests \/ i = n
    BY DEF Requests
  <1>6. \A i \in Requests : sent[i].page # "waits"
    BY <1>2 DEF OneOut
  <1>7. FormsTypeOK'
    BY <1>2, <1>4, FormsAssumption DEF FormsTypeOK, Silence, Request
  <1>8. OneOut' /\ HeardOfAnswers' /\ RefusalStands'
    BY <1>2, <1>3, <1>4, <1>5, <1>6
       DEF OneOut, HeardOfAnswers, RefusalStands, Silence, HeardDone
  <1>9. ThingsAreOld'
    BY <1>2, <1>3, <1>4, <1>5 DEF ThingsAreOld
  <1>10. WantsUndone'
    BY <1>2, <1>3, <1>4, <1>5 DEF WantsUndone, HeardDone
  <1>11. ServedOnce'
    BY <1>2, <1>3, <1>4, <1>5 DEF ServedOnce
  <1>12. OneCounts'
    <2> SUFFICES ASSUME form \notin Lingering, NEW t \in 0..MaxThings,
                        NEW i \in 1..n, NEW j \in 1..n, Counts(i, t)', Counts(j, t)'
                 PROVE  i = j
      BY <1>2, <1>4 DEF OneCounts
    <2>1. (form = "pack" /\ open) \/ (form \in Typed /\ filled)
      BY <1>2, FormsAssumption DEF FormsTypeOK, Dialogs, Typed, Lingering
    <2>2. \A k \in Requests : ~HeardDone(k, thing)
      BY <2>1 DEF WantsUndone
    <2>3. ASSUME NEW k \in Requests, Counts(k, t)' PROVE Counts(k, t) /\ t # thing
      <3>1. sent'[k] = sent[k]
        BY <1>4
      <3>2. HeardDone(k, t)
        BY <1>6, <2>3, <3>1 DEF Counts, HeardDone
      <3> QED
        BY <2>2, <3>2 DEF Counts, HeardDone
    <2>4. ASSUME NEW k \in 1..n, k = n, Counts(k, t)' PROVE t = thing
      <3>1. sent'[k].thing = t
        BY <2>4 DEF Counts
      <3> QED
        BY <1>3, <1>4, <2>4, <3>1
    <2>5. CASE t = thing
      BY <1>5, <2>3, <2>5
    <2>6. CASE t # thing
      BY <1>5, <2>3, <2>4, <2>6 DEF OneCounts
    <2> QED
      BY <2>5, <2>6
  <1> QED
    BY <1>7, <1>8, <1>9, <1>10, <1>11, <1>12

LEMMA LeaveStep ==
  ASSUME FormsInv, Leave
  PROVE  FormsInv'
  <1> USE RequestTypes DEF FormsInv
  <1>1. /\ busy' = FALSE /\ said' = Silence /\ form' = form
        /\ open' = (form \notin Dialogs) /\ filled' = (form \notin Typed)
    BY DEF Leave, Fresh
  <1>2. thing' \in 0..MaxThings /\ thing' >= thing
    BY WantsTypes DEF Leave
  <1>3. sent' = [i \in Requests |-> IF sent[i].page = "waits"
                                     THEN [sent[i] EXCEPT !.page = "deaf"] ELSE sent[i]]
    BY DEF Leave
  <1>4. \A i \in Requests : [sent[i] EXCEPT !.page = "deaf"] \in Request
    BY DEF Request
  <1>5. sent' \in [Requests -> Request]
    BY <1>3, <1>4
  <1>6. sent' \in Seq(Request) /\ Requests' = Requests
    BY <1>3, <1>5 DEF Requests
  <1>7. \A i \in Requests :
          /\ sent'[i].thing = sent[i].thing /\ sent'[i].result = sent[i].result
          /\ sent'[i].page # "waits"
          /\ sent'[i].page = "heard" => sent[i].page = "heard"
    BY <1>3 DEF Request
  <1>8. FormsTypeOK'
    <2>1. open' \in BOOLEAN /\ filled' \in BOOLEAN /\ busy' \in BOOLEAN
      BY <1>1, Zenon
    <2>2. said' \in [what : {"nothing", "done", "refused", "error"}, about : 0..MaxThings]
      BY <1>1, FormsAssumption DEF Silence
    <2> QED
      BY <1>1, <1>2, <1>6, <2>1, <2>2 DEF FormsTypeOK, Request
  <1>9. OneOut' /\ HeardOfAnswers' /\ ServedOnce' /\ RefusalStands'
    BY <1>1, <1>6, <1>7 DEF OneOut, HeardOfAnswers, ServedOnce, RefusalStands, Silence
  <1>10. ThingsAreOld'
    BY <1>2, <1>6, <1>7 DEF ThingsAreOld, Request
  <1>11. WantsUndone'
    BY <1>1 DEF WantsUndone, Dialogs, Typed
  <1>12. OneCounts'
    BY <1>1, <1>6, <1>7 DEF OneCounts, Counts, HeardDone
  <1> QED
    BY <1>8, <1>9, <1>10, <1>11, <1>12

(* One request changes, which keeps what it is for. *)
LEMMA OneChanges ==
  ASSUME FormsInv, NEW i \in Requests, NEW row \in Request,
         sent' = [sent EXCEPT ![i] = row], row.thing = sent[i].thing
  PROVE  /\ sent' \in Seq(Request) /\ Requests' = Requests
         /\ sent'[i] = row
         /\ \A j \in Requests \ {i} : sent'[j] = sent[j]
  <1>1. sent \in Seq(Request) /\ i \in 1..Len(sent)
    BY RequestTypes DEF FormsInv, Requests
  <1>2. sent' \in Seq(Request) /\ Len(sent') = Len(sent)
    BY <1>1, ExceptSeq
  <1> QED
    BY <1>1, <1>2 DEF Requests

LEMMA HandleStep ==
  ASSUME FormsInv, NEW i \in DOMAIN sent, Handle(i)
  PROVE  FormsInv'
  <1> USE RequestTypes DEF FormsInv
  <1>1. PICK result \in {"done", "refused"} :
          /\ result = "done" => form \in Dialogs \/ Done(sent[i].thing) = {}
          /\ sent' = [sent EXCEPT ![i].result = result]
    BY DEF Handle
  <1> DEFINE row == [sent[i] EXCEPT !.result = result]
  <1>2. row \in Request /\ row.thing = sent[i].thing /\ row.page = sent[i].page
        /\ row.result = result
    BY DEF Request
  <1>3. /\ sent[i].result = "none" /\ form' = form /\ open' = open /\ filled' = filled
        /\ busy' = busy /\ said' = said /\ thing' = thing
    BY DEF Handle
  <1>4. sent' = [sent EXCEPT ![i] = row]
    BY <1>1
  <1> HIDE DEF row
  <1>5. /\ sent' \in Seq(Request) /\ Requests' = Requests /\ sent'[i] = row
        /\ \A j \in Requests \ {i} : sent'[j] = sent[j]
    BY <1>2, <1>4, OneChanges
  <1>6. sent[i].page # "heard"
    BY <1>3 DEF HeardOfAnswers
  <1>7. \A j \in Requests :
          /\ sent'[j].thing = sent[j].thing /\ sent'[j].page = sent[j].page
          /\ sent[j].page = "heard" => sent'[j].result = sent[j].result
    BY <1>2, <1>5, <1>6
  <1>8. FormsTypeOK'
    BY <1>3, <1>5 DEF FormsTypeOK, Request
  <1>9. OneOut' /\ HeardOfAnswers' /\ ThingsAreOld'
    BY <1>3, <1>5, <1>7 DEF OneOut, HeardOfAnswers, ThingsAreOld
  <1>10. WantsUndone' /\ RefusalStands' /\ OneCounts'
    BY <1>3, <1>5, <1>7 DEF WantsUndone, RefusalStands, OneCounts, Counts, HeardDone
  <1>11. ServedOnce'
    <2> SUFFICES ASSUME form \notin Dialogs, NEW j \in Requests, NEW k \in Requests,
                        sent'[j].result = "done", sent'[k].result = "done",
                        sent'[j].thing = sent'[k].thing
                 PROVE  j = k
      BY <1>3, <1>5 DEF ServedOnce
    <2>1. ASSUME NEW p \in Requests, sent[p].result = "done",
                 sent[p].thing = sent[i].thing
          PROVE  result # "done"
      BY <1>1, <2>1 DEF Done
    <2> QED
      BY <1>2, <1>5, <1>7, <2>1 DEF ServedOnce
  <1> QED
    BY <1>8, <1>9, <1>10, <1>11

LEMMA HearStep ==
  ASSUME FormsInv, NEW i \in DOMAIN sent, Hear(i)
  PROVE  FormsInv'
  <1> USE RequestTypes DEF FormsInv
  <1> DEFINE row == [sent[i] EXCEPT !.page = "heard"]
  <1>1. row \in Request /\ row.thing = sent[i].thing /\ row.page = "heard"
        /\ row.result = sent[i].result
    BY DEF Request
  <1>2. /\ sent[i].page = "waits" /\ sent[i].result \in {"done", "refused"}
        /\ sent' = [sent EXCEPT ![i] = row]
        /\ said' = [what |-> sent[i].result, about |-> sent[i].thing]
        /\ busy' = FALSE /\ form' = form /\ thing' = thing
        /\ open' = (open /\ ~(form \in Dialogs /\ sent[i].result = "done"))
        /\ filled' = (filled /\ ~(form \in Typed /\ sent[i].result = "done"))
    BY DEF Hear, FilledAfter, Request
  <1> HIDE DEF row
  <1>3. /\ sent' \in Seq(Request) /\ Requests' = Requests /\ sent'[i] = row
        /\ \A j \in Requests \ {i} : sent'[j] = sent[j]
    BY <1>1, <1>2, OneChanges
  <1>4. \A j \in Requests :
          /\ sent'[j].thing = sent[j].thing /\ sent'[j].result = sent[j].result
          /\ sent'[j].page # "waits"
    BY <1>1, <1>2, <1>3 DEF OneOut
  <1>5. FormsTypeOK'
    <2>1. said' \in [what : {"nothing", "done", "refused", "error"}, about : 0..MaxThings]
      BY <1>2 DEF Request
    <2> QED
      BY <1>2, <1>3, <2>1 DEF FormsTypeOK, Request
  <1>6. OneOut' /\ ThingsAreOld' /\ ServedOnce'
    BY <1>2, <1>3, <1>4 DEF OneOut, ThingsAreOld, ServedOnce
  <1>7. HeardOfAnswers'
    BY <1>1, <1>2, <1>3 DEF HeardOfAnswers
  <1>8. \A j \in Requests, t \in 0..MaxThings :
          HeardDone(j, t)' => Counts(j, t) /\ (j # i => HeardDone(j, t))
    BY <1>1, <1>2, <1>3 DEF HeardDone, Counts
  <1>9. OneCounts'
    BY <1>2, <1>3, <1>4, <1>8 DEF OneCounts, Counts
  <1>10. WantsUndone'
    <2>1. CASE sent[i].result = "done"
      BY <1>2, <2>1 DEF WantsUndone, Dialogs
    <2>2. CASE sent[i].result # "done"
      BY <1>1, <1>2, <1>3, <2>2 DEF WantsUndone, HeardDone
    <2> QED
      BY <2>1, <2>2
  <1>11. RefusalStands'
    <2>1. PICK t \in 0..MaxThings : t = sent[i].thing
      BY DEF Request
    <2> SUFFICES ASSUME sent[i].result = "refused", form \notin Lingering,
                        NEW j \in Requests, HeardDone(j, t)'
                 PROVE  FALSE
      <3>1. said'.what = sent[i].result /\ said'.about = sent[i].thing
        BY <1>2
      <3> QED
        BY <1>2, <1>3, <2>1, <3>1 DEF RefusalStands, HeardDone
    <2>2. j # i
      BY <1>1, <1>3 DEF HeardDone
    <2>3. Counts(i, t)
      BY <1>2, <2>1 DEF Counts
    <2>4. Counts(j, t)
      <3>1. sent'[j].thing = t /\ sent'[j].page = "heard" /\ sent'[j].result = "done"
        BY DEF HeardDone
      <3>2. sent'[j] = sent[j]
        BY <1>3, <2>2
      <3> QED
        BY <3>1, <3>2 DEF Counts, HeardDone
    <2> QED
      BY <2>2, <2>3, <2>4 DEF OneCounts
  <1> QED
    BY <1>5, <1>6, <1>7, <1>9, <1>10, <1>11

LEMMA FailToHearStep ==
  ASSUME FormsInv, NEW i \in DOMAIN sent, FailToHear(i)
  PROVE  FormsInv'
  <1> USE RequestTypes DEF FormsInv
  <1> DEFINE row == [sent[i] EXCEPT !.page = "deaf"]
  <1>1. row \in Request /\ row.thing = sent[i].thing /\ row.page = "deaf"
        /\ row.result = sent[i].result
    BY DEF Request
  <1>2. /\ sent[i].page = "waits" /\ sent' = [sent EXCEPT ![i] = row]
        /\ form' = form /\ open' = open /\ filled' = filled /\ thing' = thing
        /\ busy' \in BOOLEAN
        /\ said' = said \/ said' = [what |-> "error", about |-> sent[i].thing]
    BY DEF FailToHear
  <1> HIDE DEF row
  <1>3. /\ sent' \in Seq(Request) /\ Requests' = Requests /\ sent'[i] = row
        /\ \A j \in Requests \ {i} : sent'[j] = sent[j]
    BY <1>1, <1>2, OneChanges
  <1>4. \A j \in Requests :
          /\ sent'[j].thing = sent[j].thing /\ sent'[j].result = sent[j].result
          /\ sent'[j].page # "waits"
          /\ sent'[j].page = "heard" => sent[j].page = "heard"
    BY <1>1, <1>2, <1>3 DEF OneOut
  <1>5. FormsTypeOK'
    <2>1. said' \in [what : {"nothing", "done", "refused", "error"}, about : 0..MaxThings]
      BY <1>2 DEF Request, FormsTypeOK
    <2> QED
      BY <1>2, <1>3, <2>1 DEF FormsTypeOK, Request
  <1>6. OneOut' /\ ThingsAreOld' /\ ServedOnce' /\ HeardOfAnswers'
    BY <1>2, <1>3, <1>4 DEF OneOut, ThingsAreOld, ServedOnce, HeardOfAnswers
  <1>7. OneCounts' /\ WantsUndone'
    BY <1>2, <1>3, <1>4 DEF OneCounts, WantsUndone, Counts, HeardDone
  <1>8. RefusalStands'
    <2>1. said'.what = "refused" => said' = said
      BY <1>2
    <2> QED
      BY <1>2, <1>3, <1>4, <2>1 DEF RefusalStands, HeardDone
  <1> QED
    BY <1>5, <1>6, <1>7, <1>8

LEMMA FormsInductive == FormsSpec => []FormsInv
  <1>1. FormsInit => FormsInv
    <2> SUFFICES ASSUME FormsInit PROVE FormsInv
      OBVIOUS
    <2>1. Requests = {} /\ sent \in Seq(Request)
      BY DEF FormsInit, Requests
    <2>2. thing \in 0..MaxThings
      BY FormsAssumption DEF FormsInit
    <2>3. FormsTypeOK
      <3>1. open \in BOOLEAN /\ filled \in BOOLEAN /\ busy \in BOOLEAN
        BY Zenon DEF FormsInit
      <3>2. said \in [what : {"nothing", "done", "refused", "error"}, about : 0..MaxThings]
        BY FormsAssumption DEF FormsInit, Silence
      <3> QED
        BY <2>1, <2>2, <3>1, <3>2 DEF FormsInit, FormsTypeOK, Request
    <2> QED
      BY <2>1, <2>3
         DEF FormsInit, FormsInv, OneOut, ThingsAreOld, WantsUndone, OneCounts, ServedOnce,
             HeardOfAnswers, RefusalStands, Silence
  <1>2. FormsInv /\ [FormsNext]_formVars => FormsInv'
    <2> SUFFICES ASSUME FormsInv, [FormsNext]_formVars PROVE FormsInv'
      OBVIOUS
    <2>1. CASE UNCHANGED formVars
      BY <2>1 DEF formVars, FormsInv, FormsTypeOK, OneOut, ThingsAreOld, WantsUndone,
                  OneCounts, ServedOnce, HeardOfAnswers, RefusalStands, Requests, Counts,
                  HeardDone
    <2> QED
      BY <2>1, UserSteps, ClickStep, LeaveStep, HandleStep, HearStep, FailToHearStep
         DEF FormsNext
  <1> QED
    BY <1>1, <1>2, PTL DEF FormsSpec

----------------------------------------------------------------------------
(* Whatever a user clicks, reloads and reopens, what is wanted once happens *)
(* once, but for answers that never reached the page.                       *)
THEOREM WantedOnceDoneOnce == FormsSpec => []EachOnce
  <1>1. FormsInv => EachOnce
    <2> SUFFICES ASSUME FormsInv, NEW t \in 0..MaxThings
                 PROVE  Cardinality(Done(t)) <= 1 + Cardinality(Deaf(t))
      BY DEF EachOnce
    <2> USE RequestTypes DEF FormsInv
    <2>1. IsFiniteSet(Done(t)) /\ IsFiniteSet(Deaf(t))
      <3>1. IsFiniteSet(1..Len(sent))
        BY FS_Interval
      <3>2. Done(t) \in SUBSET (1..Len(sent)) /\ Deaf(t) \in SUBSET (1..Len(sent))
        BY DEF Done, Deaf
      <3> QED
        BY <3>1, <3>2, FS_Subset
    <2>2. \A i, j \in Done(t) \ Deaf(t) : i = j
      <3> SUFFICES ASSUME NEW i \in Done(t) \ Deaf(t), NEW j \in Done(t) \ Deaf(t)
                   PROVE  i = j
        OBVIOUS
      <3>1. /\ i \in Requests /\ sent[i].thing = t /\ sent[i].result = "done"
            /\ j \in Requests /\ sent[j].thing = t /\ sent[j].result = "done"
            /\ sent[i].page # "deaf" /\ sent[j].page # "deaf"
        BY DEF Done, Deaf
      <3>2. CASE form \in Lingering
        BY <3>1, <3>2 DEF ServedOnce, Lingering, Dialogs
      <3>3. CASE form \notin Lingering
        <4>1. Counts(i, t) /\ Counts(j, t)
          BY <3>1 DEF Counts, HeardDone, Request
        <4> QED
          BY <3>1, <3>3, <4>1 DEF OneCounts
      <3> QED
        BY <3>2, <3>3
    <2>3. PICK k : Done(t) \subseteq Deaf(t) \cup {k}
      BY <2>2
    <2>4. /\ IsFiniteSet(Deaf(t) \cup {k})
          /\ Cardinality(Deaf(t) \cup {k}) <= Cardinality(Deaf(t)) + 1
      <3>1. /\ IsFiniteSet(Deaf(t) \cup {k})
            /\ Cardinality(Deaf(t) \cup {k})
                 = IF k \in Deaf(t) THEN Cardinality(Deaf(t)) ELSE Cardinality(Deaf(t)) + 1
        BY <2>1, FS_AddElement, Zenon
      <3>2. Cardinality(Deaf(t)) \in Nat
        BY <2>1, FS_CardinalityType
      <3> QED
        BY <3>1, <3>2
    <2>5. Cardinality(Done(t)) <= Cardinality(Deaf(t) \cup {k})
      BY <2>3, <2>4, FS_Subset
    <2>6. /\ Cardinality(Done(t)) \in Nat /\ Cardinality(Deaf(t)) \in Nat
          /\ Cardinality(Deaf(t) \cup {k}) \in Nat
      BY <2>1, <2>4, FS_CardinalityType
    <2> QED
      BY <2>4, <2>5, <2>6
  <1> QED
    BY <1>1, FormsInductive, PTL

(* A form that says it was refused, and has heard of all its requests, has  *)
(* not got what was wanted.                                                 *)
THEOREM RefusalsAreHonest == FormsSpec => []RefusalIsHonest
  <1>1. FormsInv => RefusalIsHonest
    <2> SUFFICES ASSUME FormsInv, said.what = "refused", form \notin Lingering,
                        Deaf(said.about) = {}, NEW i \in Done(said.about)
                 PROVE  FALSE
      BY DEF RefusalIsHonest
    <2> USE RequestTypes DEF FormsInv
    <2>1. i \in Requests /\ sent[i].thing = said.about /\ sent[i].result = "done"
      BY DEF Done
    <2>2. sent[i].page \in {"waits", "heard"}
      BY <2>1 DEF Deaf, Request
    <2>3. sent[i].page # "waits"
      BY <2>1 DEF OneOut
    <2>4. HeardDone(i, said.about)
      BY <2>1, <2>2, <2>3 DEF HeardDone
    <2> QED
      BY <2>1, <2>4 DEF RefusalStands
  <1> QED
    BY <1>1, FormsInductive, PTL
=============================================================================
