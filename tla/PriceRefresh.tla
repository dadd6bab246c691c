---------------------------- MODULE PriceRefresh ----------------------------
(***************************************************************************)
(* An admin's refresh of the card prices: a route that guards itself with  *)
(* two variables of the process, and a refresh that reads the cards, asks  *)
(* pokemontcg.io set by set, and writes prices, stale marks and snapshots  *)
(* in one transaction.                                                     *)
(*                                                                         *)
(* Whoever asks is an admin.  What upstream says of a card, after the      *)
(* jitter, is any of Prices, or nothing: its set failed or lacks it.  The  *)
(* price cache in Redis is left out, since nothing fills it.               *)
(***************************************************************************)
EXTENDS Integers, FiniteSets

CONSTANTS
  Cards,         (* rows of cards                                           *)
  Prices,        (* what a card may cost                                    *)
  Requests,      (* POST /api/admin/prices/refresh, by any admin            *)
  NoRequest,     (* NULL of runningRefresh                                  *)
  MinInterval,   (* MIN_INTERVAL_MS                                         *)
  MaxTime        (* bound on waiting                                        *)

ASSUME RefreshAssumption ==
  /\ Prices \subseteq Nat \ {0} /\ Prices # {}
  /\ NoRequest \notin Requests
  /\ MinInterval \in Nat \ {0} /\ MaxTime \in Nat

VARIABLES
  now,
  cardRow,       (* base_price, last_priced_at, stale_since                 *)
  snapshots,     (* price_snapshots                                         *)
  runningRefresh, lastRefreshAt,
  refresh,       (* what each request has got to                            *)
  overlapped     (* history: two refreshes have been at work at a time      *)

priceVars == <<cardRow, snapshots>>
guardVars == <<runningRefresh, lastRefreshAt, overlapped>>
refreshVars == <<now, priceVars, guardVars, refresh>>

Missing == 0                 \* no answer of upstream about a card
Never == 0                   \* NULL instants; the clock starts later

Stages == {"none", "refused", "body", "started", "fetching", "fetched",
           "committed", "failed", "emit", "done"}
CardRow == [price : Prices, pricedAt : Nat, staleSince : Nat]
RefreshRow == [stage : Stages, read : [Cards -> Prices \cup {Missing}],
               answer : [Cards -> Prices \cup {Missing}], at : Nat]
Snapshot == [card : Cards, price : Prices, at : Nat]

(* Refreshes that have begun and not ended.                                 *)
Working == {r \in Requests :
              refresh[r].stage \in {"started", "fetching", "fetched", "committed", "failed"}}

(* A request that knows nothing yet, or any more.                           *)
Idle(stage) == [stage |-> stage, read |-> [c \in Cards |-> Missing],
                answer |-> [c \in Cards |-> Missing], at |-> Never]

Put(r, row) == refresh' = [refresh EXCEPT ![r] = row]
MoveTo(r, stage) == Put(r, [refresh[r] EXCEPT !.stage = stage])

RefreshInit ==
  /\ now = MinInterval
  /\ cardRow \in [Cards -> {[price |-> p, pricedAt |-> Never, staleSince |-> Never] : p \in Prices}]
  /\ snapshots = {}
  /\ runningRefresh = NoRequest /\ lastRefreshAt = 0 /\ overlapped = FALSE
  /\ refresh = [r \in Requests |-> Idle("none")]

----------------------------------------------------------------------------
(* The route *)

TooSoon == now - lastRefreshAt < MinInterval

(* The checks of a request, before it awaits its body.                      *)
Arrive(r) ==
  /\ refresh[r].stage = "none"
  /\ MoveTo(r, IF runningRefresh # NoRequest \/ TooSoon THEN "refused" ELSE "body")
  /\ UNCHANGED <<now, priceVars, guardVars>>

(* The body is there: the flag is set and the refresh begins.               *)
StartRefresh(r) ==
  /\ refresh[r].stage = "body"
  /\ MoveTo(r, "started")
  /\ runningRefresh' = r
  /\ overlapped' = (overlapped \/ Working # {})
  /\ UNCHANGED <<now, priceVars, lastRefreshAt>>

(* Whoever ends clears the flag, also that of another.                      *)
Finish(r) ==
  /\ refresh[r].stage \in {"committed", "failed"}
  /\ IF refresh[r].stage = "committed" THEN MoveTo(r, "emit") ELSE Put(r, Idle("done"))
  /\ lastRefreshAt' = now
  /\ runningRefresh' = NoRequest
  /\ UNCHANGED <<now, priceVars, overlapped>>

----------------------------------------------------------------------------
(* refreshAllCards *)

ReadCards(r) ==
  /\ refresh[r].stage = "started"
  /\ Put(r, [refresh[r] EXCEPT !.stage = "fetching",
                               !.read = [c \in Cards |-> cardRow[c].price]])
  /\ UNCHANGED <<now, priceVars, guardVars>>

(* All sets have answered or failed, which takes time; the refresh is dated *)
(* now, before its transaction.                                             *)
FetchPrices(r) ==
  /\ refresh[r].stage = "fetching"
  /\ now' = now + 1
  /\ \E answer \in [Cards -> Prices \cup {Missing}] :
       Put(r, [refresh[r] EXCEPT !.stage = "fetched", !.answer = answer, !.at = now'])
  /\ UNCHANGED <<priceVars, guardVars>>

Fresh(r) == {c \in Cards : refresh[r].answer[c] # Missing}

(* Mutant of Changes: every card that was fetched counts as changed. *)
ChangesIfFetched(r) == Fresh(r)

(* The change list: what was fetched against what was read at the start.    *)
Changes(r) == {c \in Fresh(r) : refresh[r].answer[c] # refresh[r].read[c]}

(* Mutant of Repriced: the stale mark stays. *)
RepricedStillStale(row, price, at) == [row EXCEPT !.price = price, !.pricedAt = at]

Repriced(row, price, at) == [price |-> price, pricedAt |-> at, staleSince |-> Never]

CommitPrices(r) ==
  /\ refresh[r].stage = "fetched"
  /\ cardRow' = [c \in Cards |->
       IF c \in Fresh(r) THEN Repriced(cardRow[c], refresh[r].answer[c], refresh[r].at)
                         ELSE [cardRow[c] EXCEPT !.staleSince = refresh[r].at]]
  /\ snapshots' = snapshots \cup
       {[card |-> c, price |-> refresh[r].answer[c], at |-> refresh[r].at] : c \in Fresh(r)}
  /\ MoveTo(r, "committed")
  /\ UNCHANGED <<now, guardVars>>

(* The read of the cards or the transaction throws: nothing is written.     *)
RefreshFails(r) ==
  /\ refresh[r].stage \in {"started", "fetched"}
  /\ MoveTo(r, "failed")
  /\ UNCHANGED <<now, priceVars, guardVars>>

Tick ==
  /\ now < MaxTime             \* bound
  /\ now' = now + 1
  /\ UNCHANGED <<priceVars, guardVars, refresh>>

(* The change list goes to the room "prices", once, whether or not a page   *)
(* hears it; MarketPages has the other end.                                 *)
Broadcast(r) ==
  /\ refresh[r].stage = "emit"
  /\ Put(r, Idle("done"))
  /\ UNCHANGED <<now, priceVars, guardVars>>

RefreshStep(r) ==
  \/ Arrive(r) \/ StartRefresh(r) \/ Finish(r) \/ Broadcast(r)
  \/ ReadCards(r) \/ FetchPrices(r) \/ CommitPrices(r) \/ RefreshFails(r)

RefreshNext == Tick \/ (\E r \in Requests : RefreshStep(r))

RefreshSpec == RefreshInit /\ [][RefreshNext]_refreshVars

----------------------------------------------------------------------------
(* What the solver reads *)

(* The latest snapshot of a card, its own price if it has none.             *)
LatestPrices(c) ==
  LET own == {s \in snapshots : s.card = c}
  IN IF own = {} THEN {cardRow[c].price}
     ELSE {s.price : s \in {t \in own : \A u \in own : u.at <= t.at}}

----------------------------------------------------------------------------
(* Properties *)

RefreshTypeOK ==
  /\ now \in Nat /\ lastRefreshAt \in Nat
  /\ cardRow \in [Cards -> CardRow]
  /\ snapshots \subseteq Snapshot
  /\ runningRefresh \in Requests \cup {NoRequest}
  /\ refresh \in [Requests -> RefreshRow]
  /\ overlapped \in BOOLEAN

(* "Second call while the first runs returns 409" is the route's comment.   *)
(* It holds of a call that arrives while one refresh is at work; those that *)
(* await their body by then go on, and whoever ends first takes the flag of *)
(* the others away.                                                         *)
LaterCallsAreRefused ==
  [][ \A r \in Requests :
        refresh[r].stage = "none" /\ Working # {} /\ ~overlapped =>
          refresh'[r].stage \in {"none", "refused"} ]_refreshVars

(* As long as refreshes have not overlapped, the two places a price is kept *)
(* agree: pages, which show base_price, and the weight solver, which takes  *)
(* the latest snapshot; and a card marked stale was priced before the mark. *)
TablesAgree ==
  ~overlapped => \A c \in Cards :
    /\ LatestPrices(c) = {cardRow[c].price}
    /\ cardRow[c].staleSince # Never => cardRow[c].pricedAt < cardRow[c].staleSince

(* The change list, made from a read before the transaction, is exactly     *)
(* what the transaction changes, as long as refreshes have not overlapped:  *)
(* a page that ignores the event for not finding its cards misses nothing.  *)
ChangesAreWhatChanged ==
  [][ \A r \in Requests :
        refresh[r].stage = "fetched" /\ refresh'[r].stage = "committed" /\ ~overlapped =>
          Changes(r) = {c \in Cards : cardRow'[c].price # cardRow[c].price} ]_refreshVars
=============================================================================
