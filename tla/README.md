# PullVault in TLA+

Specifications of the PullVault backend (`src/apps/web`, `src/apps/ws`): a shop
for packs of trading cards, with a fixed-price market and auctions for the cards
in them. Users hold a balance, buy packs from timed drops, reveal the cards, and
sell them to each other. The specifications are about what happens to money,
cards and stock when requests of many users interleave.

Contents: inventory of the system, the modules and how they correspond to the
code, what each run checks, what is proved, what disagrees with the
documentation, what is not modelled, and the plan.

## 1. Inventory

### Processes

- **web**: Next.js route handlers, any number of requests at a time. Each money
  path is one Prisma transaction, READ COMMITTED, that takes row locks with
  `SELECT … FOR UPDATE`.
- **Postgres**: all durable state. **Redis**: rate limits, the two-second bid
  slot, price cache; every use of it fails open.
- **ws**: a socket.io relay. It rebroadcasts what web posts to it after a commit
  (best effort, one second timeout, never retried) and runs the *close worker*,
  which posts to `settle-due` every second unless the last call is still open.
- **browsers**: pages that refetch when an event arrives or a clock runs out.

### Components

| component | state | operations | interacts through | must hold |
|---|---|---|---|---|
| accounts (`api/funds/add`) | `users.balance`, `balance_held`, `ledger` | deposit | user rows | no overdraft; balance = sum of ledger |
| auctions (`api/auctions/**`, `internal/auctions/settle-due`) | `auctions`, `bids` | create, bid, cancel, settle | user rows, `user_cards`, clock | holds match leads, one settlement, ladder of bids, room to answer, every auction ends |
| listings (`api/listings/**`) | `listings` | create, purchase, cancel | user rows, `user_cards` | a card is for sale once, only by its owner, never free |
| drops and packs (`api/drops/**`, `api/packs/**`, restock scripts) | `drops`, `user_packs`, `pack_cards` | purchase, reveal, restock | user rows, `user_cards`, weights | packs sold + left = stocked; limit per user; revealed once |
| pack weights (`admin/economics/rebalance`, `lib/active-weights.ts`) | `pack_weight_versions`, cache per process | rebalance, read, invalidate | purchases pin a version | what a purchase draws from is at most the cache's time to live old, and never goes back; a pack's version never changes |
| fairness (`lib/fairness`, `verify/pack`) | `pack_fairness` | commit, roll, reproduce | purchase, browser | the browser reproduces the roll; a tier's promised rarity is in every pack |
| allocation (`lib/spend-allocation.ts`) | none | split a pack's price over its cards | reveal | parts add up to the price |
| price refresh (`admin/prices/refresh`, `lib/pricing.ts`) | `cards.base_price`, `stale_since`, `price_snapshots`, refresh flag of the process | refresh | everything that shows a price, the weight solver | the two tables with prices agree; the change list is what changed |
| rate limits (`lib/ratelimit.ts`, `middleware.ts`) | Redis sets | admit, refuse, fail open | every request, purchase | at most `max` in any window; whoever waits as told is not refused again |
| row locks, connection pool (`lib/db.ts`, every money path) | locks and connections held | begin, lock, commit | all transactions | no circle of waiting, but of two refreshes, or of purchases that have the whole pool |
| close worker (`apps/ws`), settle-due call | in-flight flag, batch, queue of announcements | tick, abort, settle, announce | auctions, relay | every due auction is settled; a close is announced at most once |
| live feed (`ws-emit`, `broadcast`, `ws-client`, pages) | rooms, fetches in flight, timers, what a page shows | emit, join, refetch, poll | all of the above | a page never goes back, and comes to show the end |
| pages with prices and listings, reveal page | fetches in flight, cards turned | load, refetch, turn, skip | live feed | at rest as new as the last event; a turned card stays |
| forms (`confirm-purchase-modal.tsx`, `add-funds-button.tsx`, `sell-form.tsx`, detail pages) | what is filled in, busy, said | open, type, click, hear | routes without idempotency keys | what is wanted once happens once; a refusal is one |
| alerts (`lib/alerts.ts`, `admin/economics/health`, `alerts/[id]/ack`) | `admin_alerts` | evaluate, look up, insert, acknowledge | sales | an open alert per tier, and one whenever a tier drifts |
| wash-trade flags (`lib/wash-trade-detect.ts`) | `auction_flags` | count, insert | settle-due calls | a repeated pair is flagged |

### What is hard here

Everything contended is guarded by row locks, so the interesting orders are the
ones between transactions and the few places where code reads *before* it locks:
the owner check of listing creation, the balance read of a pack purchase, the
active-weights cache, the refresh flag, the open alert that is looked for before
one is written. Holds for bids are moved by three different routes. A fee is taken
in two steps. Closing times move under the
bidders. A call of the close worker outlives the worker's patience, and what it
settled is announced only afterwards. Broadcasts are lost, late and out of
order, and nobody sends them twice, so each page has to find out by itself.
Two rebalances do not see each other's rows, and two price refreshes lock the same
cards in different orders. Limits are asked one after the
other at instants their callers stamped, and answer late or never. A purchase
asks for a second connection while it holds one. No request carries a key, so a
second click is up to the form. `PROJECT.json` lists each hazard at
its line, with the properties that would catch it.

## 2. Modules

```
AuctionMath        increments, cap, anti-snipe, fees (integers)
  Accounts         users, ledger, user_cards; deposit
    AuctionHouse   auctions and bids, clock        -> implements AuctionPromise
    Marketplace    listings and create requests
      Exchange     AuctionHouse + Marketplace + deposits
    DropSale       drops, packs, purchases in flight
  SettleWorker     the worker, settle-due calls, broadcasts
    LiveFeed       SettleWorker + pages that show an auction
PackDraw           roll, its copy in the browser, split of the price
  PackOdds         weight versions, rebalances, cache, packs
DropFeed           pages that show the stock of a drop
MarketPages        pages that show prices and listings; the reveal page
Forms              buttons and dialogs of a tab
RowLocks           transactions as what they wait for; the pool
PriceRefresh, Alerts, WashFlags, RateLimit         each by itself
FiniteSums         lemmas: least elements, sums over finite sets
AuctionHouseProofs, ExchangeProofs, DropSaleProofs, PackOddsProofs
LiveFeedProofs     theorems about SettleWorker and LiveFeed
PagesProofs        theorems about DropFeed, MarketPages and Forms
PartsProofs        theorems about PriceRefresh, Alerts, WashFlags, RateLimit
                   and RowLocks
MCAuctionHouse, MCExchange, MCDropSale, MCSettleWorker,
MCLiveFeed, MCPackOdds                                 instances for TLC
MCHouseAndPages    AuctionHouse, DropFeed, MarketPages and Forms side by side
MCPacks            DropSale and PackOdds side by side
MCParts            PriceRefresh, Alerts, WashFlags, RateLimit and RowLocks
                   side by side
```

**AuctionMath.** Amounts are integers in units of 1/10000 dollar, the scale of
the `Decimal(18,4)` columns, instants are milliseconds. `CeilCents` is the
ceiling to the next cent all three percentages use; `MinNextBid`,
`IsExcessiveOverbid`, `ApplyAntiSnipe`, `AuctionFee`, `TradeFee` are the functions
of `auction-math.ts`, `auction-integrity.ts`, `marketplace-fee.ts`.
`SellerCredit` is what the routes add to a seller's balance: the price less the
fee, and the fee once more.

**Accounts.** `balance`, `held`, `ledgerSum` (the ledger as its sum per user)
and `card` (owner and status of a `user_cards` row). `AddFunds` is the deposit
route, `Affords` the funds check the money paths share. An update of a user row
that the code computes from a value read under the row's lock is written as a
change of the current value (`Post`).

**AuctionHouse.** One action per route. Every one takes all its locks before it
decides (auction, then users by id, then card), so the transaction is one step.

| action | code |
|---|---|
| `CreateAuction` | `POST /api/auctions`; `auctions.user_card_id` is unique, so a card has one auction row in its life and `auction` is indexed by card |
| `CancelAuction` | `DELETE /api/auctions/:id` |
| `PlaceBid` | `POST /api/auctions/:id/bid`: increment rule, funds, release of the previous hold, own hold, anti-snipe, bid row |
| `SettleUnsold`, `SettleSold` | the two branches of `settleNextDue`; any due auction may be next because of `SKIP LOCKED` |
| `Tick` | the clock; web process and database are taken to agree |

**AuctionPromise.** What an auction is from outside: an item is offered by its
owner, the lead is taken by others with rising prices, at the end the last
leader gets the item and pays the price, or the owner keeps it. It knows no
clock, hold, increment or ledger. `worth` is all the money of a user
(`balance + held` under the refinement mapping), so it says that bidding as such
costs nobody anything and outbidding refunds in full.

**Marketplace.** `CheckListable` and `CommitListing`/`RefuseListing` are the two
halves of listing creation: the owner and status check on a plain read, and the
transaction that locks the card and looks at its status only. `BuyListing`,
`CancelListing` are the other two routes.

**Exchange.** Both over the same accounts, and deposits.

**DropSale.** A purchase is two steps, `ReadForPurchase` and `CommitPurchase`
(or `AbortPurchase`): the drop row is locked in between (`DropUnlocked` is the
guard of everyone else), the user row is not, and both are written as absolute
values computed from what was read. `Restock` is what `reset-drops.ts` and
`go-live-now.ts` do to each drop. `WindowMoves` is the clock passing `starts_at`
or `ends_at`. `supplied` is a history variable: all packs ever stocked.

**SettleWorker.** An auction from the side of those who close it: its row is a
status, a close, extensions and a number of bids; money and card are in
AuctionHouse. How long a call takes is left open, so the abort after five
seconds may come at any moment.

| action | code |
|---|---|
| `Tick`, `Abort` | `close-worker.ts`: nothing while a call is open; a reply, an error or the timeout frees the flag |
| `SettleOne`, `EndLoop` | the loop of `settle-due`, up to `BatchSize` auctions, each a transaction |
| `Announce`, `Reply` | the broadcasts after the loop, one at a time |
| `SettlementThrows`, `WebRestarts` | a call that ends without its announcements |
| `Create`, `Cancel`, `Bid`, `SendFromRoute` | the other routes: commit, then a broadcast of their own |

**LiveFeed.** Adds browsers to SettleWorker: `auction-detail.tsx` and
`auctions-browse.tsx`, both an effect that fetches and throws away the answer of
the fetch before. A fetch is asked (`Reload`), read by the server
(`ServerAnswers`) and applied (`AnswerArrives`), with anything in between.
`PageTick` is the one-second clock of the detail page, which sets its two-second
timer anew, `LateSecond` a second without it. `of` in a view counts the steps
the row had made when it was read.

**DropFeed.** The same question for the stock of a drop: the detail page takes
the number out of each `inventory_update` and never refetches, the list polls
and applies any answer.

**MarketPages.** One tab, of one of three kinds. `"market"` stands for the
collection, market and listing pages (`collection-view.tsx`, `market-browse.tsx`,
`listing-detail.tsx`), which are one effect: load, join the room, load again on
every event, throw away the answer of the load before. `"animate"` and
`"static"` are `reveal-flow.tsx` for a fresh and for a revealed pack: `PackLoads`,
`PackRefused` (the 409 after which it asks for the contents instead), `TurnCard`,
`Skip`, and `ContentsArrive`, the refetch on a price event whose cards are in the
pack. `commits` numbers the transactions that change what is shown; a fetch
carries the number it read. `ContentsServed` is the order the route sorts the
rows into, whatever order they come out of the database in.

**Forms.** One tab with one form. `thing` is a history variable, what the user
wants now, and each request remembers the thing it is for; the user wants
something new once told that it is done. `Click` sends, `Handle` is the route
(`DropSale`, `Exchange` and `AuctionHouse` say more about it), `Hear` and
`FailToHear` are the two ends of the form's `fetch`; after a failure the page says
so, or, where the handler has no `catch` (`onCancel` of `auction-detail.tsx`), says
nothing. What distinguishes the six
forms is whether they are dialogs that close, whether an accepted amount is
cleared, and whether they stay enabled until the page moves on.

**PackDraw.** Pure operators: `RollPack` and `ApplyRollToPool` are `roll.ts`,
`ReproduceCards` is the page `/verify/pack/:id`, `AllocateSpend` is
`spend-allocation.ts`. A seed is the two streams of uniforms its HMACs yield;
uniforms and weights are integers in units of 1/`One`.

**PackOdds.** One tier. A rebalance is `StartUpdate` (the `UPDATE` sees the
active rows), `UpdateAndCreate` (it gets their locks, looks at them again, and
the new row is inserted), `CommitRebalance`, `InvalidateActiveWeights`; the
script `activate-solver.ts`, another process, ends with the commit. A reader
that misses the cache asks, reads and is answered in three steps
(`AskDatabase`, `ReadActive`, `DrawFromDatabase` or `AnswerTooLate`), and what it
puts into the cache carries the time it asked. `NewPack` draws and pins;
`Reveal` books the cards. Versions are numbered in the order of `created_at`.

**PriceRefresh.** `Arrive` is the check of flag and interval, before the route
awaits its body; `StartRefresh` sets the flag after it. `ReadCards`,
`FetchPrices`, `CommitPrices` are `refreshAllCards`: read, ask upstream, one
transaction. `Finish` is the `finally`, which clears the flag of whoever holds
it; `Broadcast` the emit after it. `overlapped` remembers that two refreshes
have been at work at once, which the flag is there to prevent and does not
(section 5); `TablesAgree` and `ChangesAreWhatChanged` are about the time before.

**Alerts.** An evaluation is a GET of the health page: `StartEvaluation` reads
all margins, then per tier `LookUp` and `WriteAlert`, two statements with no
transaction. `PersistFails` is the `try` around each tier. `Acknowledge` is the
admin's route. `met` and `ackedBefore` are history.

**WashFlags.** A settle-due call closes sales (`CloseSale`), and only then, one
by one between its broadcasts, counts (`CountSignals`) and writes the flags, a
statement each (`WriteFlag`, `FlagsWritten`); those written before a failure stay
(`CutShort`). `DetectorFails` and `CallDies` are the two ways an auction is
never looked at. Days, not instants: only the window matters.

**RateLimit.** A limit is a sorted set of instants. `SendScript` stamps the
instant, `RunScript` is the Lua script at some later time, in any order, or
never; `FailOpen` is a caller without an answer. `Path` is the list of limits a
call passes one after the other.

**RowLocks.** Each of the eleven kinds of transaction, an admin's price refresh and
rebalance among them, is the list of the statements that lock or decide (`Steps`),
each row lock has its mode, and a lock that is not free is waited for. `Plan` is
the rows an admin's transaction updates, in the order its statements come upon
them: a refresh updates the cards it has prices for and then the stale ones, so two
refreshes may meet the same cards in different orders; a rebalance goes through the
tiers in one order. `AskForWeights` and `ReadWeights` are the read of the active
weights inside a purchase, which goes through the global client and so takes a second
connection of the pool. All that is left of the rows is what decides which lock
comes next.

Two conventions. Status strings are the enum values of `schema.prisma`, with
`"NONE"` for a row that does not exist; `NoUser` stands for NULL. A row is
updated by one `EXCEPT` with the columns inside it (`![c] = [@ EXCEPT !.a = …,
!.b = …]`): tlapm 1.4.5 does not read several updates of the same index in one
`EXCEPT` one after the other, and proves too much from them. Nor does it read an
`@` inside the `@` of an outer `EXCEPT`, where a row is named by a `LET` instead.

## 3. Runs

| run | instance | shows |
|---|---|---|
| `house_and_pages` | 3 users with $0.35, 1 card, bids from $0.00 in dimes, ticks of 9.9 s, two extensions; or 1 drop of 2 packs, a detail page and a list, 3 purchases, 1 restock; or a page with 2 priced cards, a pack of 3 cards, 3 commits; or a form, 3 things wanted, 4 clicks | bids form a ladder, money leaves the users by sales and by nothing else, closing schedule, room to answer, every auction ends, the routes implement `AuctionPromise`; nobody sees too few packs, the list comes to show the stock; pages at rest show the news, turned cards stay; what is wanted once happens once, and a refusal is one |
| `exchange` | 3 users, 2 cards, 2 listings, 2 create requests in flight, auctions, deposits | holds are the leads and move with them; cards follow auctions; a card is for sale once and never had for free; nobody overspends on both markets together; the ledger explains the balance of whoever has won no auction |
| `packs` | 2 users, 2 drops of 2 packs, limit 2, 2 requests in flight, 3 packs, restock up to 3; or 2 rebalances, 3 versions, 1 buyer waiting, 1 pack of 3 cards, 4 cards, 2 seeds, TTL 2 of 3 ticks | stock is exact, limit holds, reads under the lock stay true; weights less than TTL old that never go back; packs that reproduce in the browser, keep the promise and are booked at their price |
| `settle_worker` | 2 auctions, 2 calls, batch of 1, three kinds of faults | one call carries a close, every auction is settled |
| `live_feed` | 1 auction, 1 call, 1 page of either kind, four kinds of faults | what a page shows never goes back and is what it was told; a list drops the ended auction |
| `parts` | 2 cards at 2 prices, 2 refreshes; or 2 tiers, 2 evaluations; or 3 sales of 2 pairs, 2 calls; or 3 calls on 2 limits; or 3 transactions out of 17 on a pool of 2 | tables agree, change lists are exact; alerts double only if they overlapped, drift is never silent; repeated pairs are flagged; windows do not overflow, waiting as told suffices; no circle of waiting but the two known ones |
| `auction_fee`, `auction_ledger`, `stale_owner`, `drop_ledger`, `feed_missed_close`, `two_active` | the same modules, one property each | a documented property the code does not have (section 5) |

`house_and_pages`, `packs` and `parts` each check modules that have no variable in
common. A behaviour picks one of them at the start and the others stand still, so
that the states add up instead of multiplying; every property is about one module.

Why the bounds are enough. Three users are a seller and two bidders who outbid
each other, two cards are what it takes to lead two auctions with one balance,
and the opening balance of `exchange` covers one bid, or two of the smallest, so
the funds check refuses some of them, the one that counts holds of another
auction included. `house_and_pages` has one auction: four dimes are more than
anyone has, each dime is the exact increment over the last, and it starts at
nothing because `parseMoney` rounds tiny amounts to zero. It ticks every 9.9 s,
so that the time left is no whole number of seconds and the rounding of
`applyAntiSnipe` matters. Extensions are capped at 2 instead of 20 to reach the
cap, and at none in `exchange`, which is about money and cards. Two create
requests and two purchases in flight are the least that race; every further one
meets the same locks. A batch of one makes a second due auction wait for another
call; two calls overlap after an abort. One page has any number of fetches in
flight. Two rebalances are what it takes to leave two active versions, and a
third version to find them again. One buyer's question can be overtaken by any
number of commits, invalidations and purchases from the cache; a second one would
fill the same entry. The pool of cards lacks an UNCOMMON and the solved weights
lack COMMON or add up to less than one, so the fallbacks of the roll are taken;
one card is worth nothing and the price is 5, so the shares are rounded.

On the pages, three purchases empty the drop, a restock fills it again; the pack
has the same card twice and two equal rarities, so the order is one of several;
three commits leave one event behind another; four clicks are two for each of
two things. In `parts`, two refreshes overlap in every way, and upstream may
answer for either card or for none; two evaluations at once with figures above
and below both thresholds, and at the least number of packs; three sales are the
threshold for a pair; the fourth of four calls would find the windows as the third
does, each limit admits one; three transactions over shared rows are what it
takes for a circle that no two of them form, and slots, which differ in nothing
but what they ask, are taken in one order (`InOrder`). A pool of two is used up by
two transactions, by one purchase that asks for its second connection, and by two
purchases that each hold one. Both circles that `NoDeadlock` allows, two refreshes
that cross (`RefreshesCross`) and purchases that have all connections
(`PurchasesHoldThePool`), are among the states of the run.

`MaxTime`, `MaxDay`, `MaxInstant`, `MaxBalance`, `MaxSupply`, `MaxBids`,
`MaxPurchases`, `Restocks`, `MaxVersions`, `MaxCommits`, `MaxReloads`,
`MaxThings`, `MaxClicks`, `Listings`, `Packs` and `Sales` bound clocks,
deposits, restocks, users' patience and rows; the models that run into them and
stop say `CHECK_DEADLOCK FALSE`. So does `parts`, where transactions end; which of
them may wait for ever is what `NoDeadlock` says, of waiting and not of
stopping. Users, cards, drops, packs, listings, requests, evaluations, calls and
rebalances are interchangeable and are symmetry sets, except in the runs with
liveness.

Each module has a type invariant. TLAPS proves those of AuctionHouse,
Marketplace, DropSale, SettleWorker, PackOdds, PriceRefresh, Alerts, RateLimit and
Forms (section 4; those of the other modules are part of the inductive
invariants there), and no run repeats them: a run's properties are the ones that
could be wrong for more than a slip of the pen.

**Fairness** is assumed where a run checks liveness, and only of the service
and of timers, never of users, of a socket or of a broadcast:

- `AuctionFairness`, in the behaviours of `house_and_pages` that are about auctions:
  time passes, and each due auction is settled eventually. That this is so is what
  `SettleWorker` then shows.
- `WorkerFairness`: the clock moves, the worker ticks every second and never
  stops after an error, a call that has settled what it may goes on to announce
  and to reply (weak), and an auction that is due over and over is not found
  locked, or its settlement failing, every time (strong: bids and other calls
  hold the row for a moment only, and `SKIP LOCKED` orders by the close).
- `FeedFairness`: the above, and a page's interval and clock go off (weak); of
  the fetches a page still wants, some are read and arrive (strong, since each
  new fetch cancels the one before). Nothing is assumed of `Join` or of
  events: socket.io is set to give up after five attempts.
- `DropFeedFairness`, in the behaviours of `house_and_pages` that are about drops: the
  list's interval goes off, the server reads, and answers that say `n` do not
  fail every time.

Each property has a mutant in `PROJECT.json`: the definition of the
specification it depends on, changed as a slip in the code would change it. The
mutated operators stand before the originals, marked "Mutant of".

## 4. Theorems

Every safety property that a run checks and finds true is also proved, by TLAPS
and for all values of the constants: any number of users, cards, drops, requests,
calls, pages, evaluations and transactions; any amounts, weights, durations, clock
step, batch size. The assumptions on the constants are the named ones of the
modules. Most say that amounts, instants and bounds are natural numbers, that the
values standing for NULL are none of the ids, and that what is counted or added up
is finite (users, cards, sales, the slots of the pool). The ones that say more:

- extensions are no shorter than the anti-snipe window (`MathAssumption`; both are
  30 seconds in the code);
- a tier is listed once (`Alerts`), and a request asks each rate limit once
  (`LimitAssumption`: the keys of one `checkLimits` differ);
- the pool of cards is not empty and the floor of a tier is a rarity
  (`DrawAssumption`); that the pool has the rarities a floor calls for is no
  assumption but the condition `PoolCovers` in `GuaranteeKept`;
- in RowLocks an auction or listing that is open has a card that is not HELD and no
  other open row has, which `ForSaleOnce` and `CardFollowsAuction` say of the states
  the transactions start from, and the drops of purchases are rows of their own
  (`RowsAssumption`); rebalances come upon their rows in one order, by `TIERS`
  of the route and, within a tier, by the scan of the table (`PlanAssumption`). Nothing
  is assumed of the order in which a refresh does.

| theorem | states |
|---|---|
| `AuctionTypeCorrect` | `[]AuctionTypeOK` |
| `CardsFollowAuctions` | `[]CardFollowsAuction` |
| `HoldsFollowLeads` | `HoldsMoveWithTheLead`: a transaction touches one auction and moves each hold by what its user's lead moved |
| `RoomIsLeft` | `RoomToAnswer`; needs `AntiSnipeExtendSec >= AntiSnipeWindowSec` |
| `NobodyOverdraws` | `[]NoOverdraft` of the auctions alone, if the accepted prices cover their fees; `NobodyOverspends` below is about both markets, and is what the run checks |
| `HoldsAddUp` | `[]HeldIsTheLeads`: what is held of a user is the sum of the bids the user leads |
| `LedgersExplainTheRest` | `[]LedgerExplainsTheRest`: the ledger of a user who has won no auction adds up to the balance |
| `MoneyLeavesBySalesAlone` | `[]MoneyLeavesOnlyBySales`: all money together shrinks once per sale, by what the seller does not get of the bid, whatever the fee |
| `BidsFormLadder` | `[]BidLadder` |
| `ClosesOnSchedule` | `[]ClosingSchedule`: the close is the planned one and whole extensions, at most the cap, each paid for by a bid |
| `AuctionsKeepTheirPromise` | `KeepsPromise`: AuctionHouse implements AuctionPromise |
| `CardsForSaleOnce` | `[]ForSaleOnce`, with both markets and deposits over the same rows |
| `AuctionedCardsStay`, `HoldsFollowLeadsOnTheExchange` | `[]CardFollowsAuction`, `HoldsMoveWithTheLead` of the whole exchange |
| `HoldsAddUpOnTheExchange`, `LedgersExplainTheRestOnTheExchange` | `[]HeldIsTheLeads`, `[]LedgerExplainsTheRest` of the whole exchange, purchases, trades and deposits included |
| `NobodyOverspendsOnTheExchange` | `[]NobodyOverspends`: no balance below zero, if the prices accepted on both markets cover their fees |
| `CardsArePaidFor` | `NoFreeTransfer`: a card changes hands only in a sale its new owner pays for in that transaction |
| `DropTypeCorrect` | `[]DropTypeOK` |
| `StockIsExact` | `[]StockAccountedFor` |
| `LimitHolds` | `[]LimitPerUser` |
| `ReadsStayFresh` | `[]LockedReadsStayFresh` |
| `PurchasesAreCovered` | `[]PurchasesNeverOverdraw`: what a purchase writes as the new balance is not negative; the theorem stands for a run |
| `StaleWeightsBounded` | `StaleAtMostTTL`: a purchase draws from weights that were current less than TTL before it asked |
| `WeightsOnlyMoveOn` | `WeightsNeverGoBack`: the database never answers with an earlier version than before |
| `OddsTypeCorrect` | `[]OddsTypeOK` |
| `VerifierAlwaysAgrees` | `[]VerifierAgrees`: the roll's second implementation finds the cards of every pack |
| `GuaranteeAlwaysKept` | `[]GuaranteeKept`: a card of the tier's floor or above in every pack, if the pool has such cards |
| `SpendAlwaysAddsUp` | `[]SpendAddsUp`: the parts are the price together, and each near its share |
| `WorkerTypeCorrect` | `[]WorkerTypeOK` |
| `ClosesAnnouncedOnce` | `[]OneCallCarriesAClose`, for any number of calls, faults included |
| `PagesAtRestShowWhatTheyWereTold` | `[]AtRestShowsWhatItWasTold`, for any number of pages of either kind |
| `ViewsOnlyMoveOn` | `ViewNeverGoesBack` |
| `FeedRunsTheWorker` | `WorkerSpec`: LiveFeed implements SettleWorker, so the two theorems above hold of it too |
| `NoPageShowsTooFew` | `[]NeverShowsTooFew` |
| `PagesAtRestShowTheNews` | `[]AtRestShowsTheNews` |
| `TurnedCardsStay` | `CardsTurnOnce`, for packs of any length |
| `WantedOnceDoneOnce` | `[]EachOnce`, for any number of clicks |
| `RefusalsAreHonest` | `[]RefusalIsHonest` |
| `RefreshTypeCorrect` | `[]RefreshTypeOK` |
| `BothTablesAgree` | `[]TablesAgree` |
| `ChangeListIsExact` | `ChangesAreWhatChanged` |
| `OneRefreshTellsTheNext` | `LaterCallsAreRefused`: a call that arrives while one refresh is at work is told 409; the theorem stands for a run |
| `AlertsTypeCorrect` | `[]AlertsTypeOK` |
| `OnlyOverlapsDouble` | `[]DoublesOverlapped` |
| `DriftIsRaised` | `DriftIsNeverSilent` |
| `RepeatedPairsAreFlagged` | `[]RepeatPairsAreFlagged`, for any number of sales and overlapping calls |
| `LimitsTypeCorrect` | `[]LimitTypeOK` |
| `WindowsNeverOverflow` | `[]WindowNeverOverflows` |
| `WaitingSuffices` | `RetryAfterSuffices` |
| `PassingMeansCounted` | `[]PassesAreCounted`: who passed has been counted by each limit that answered; the theorem stands for a run |
| `NoRequestsInACircle` | `[]NoDeadlock`: a circle of waiting is one of crossing refreshes or of purchases that have the pool, for any number of transactions and connections |

*Auctions.* Types alone are not inductive: settling pays `auction[c].seller`, and
only a row that exists has one. `HouseInv` adds `NullsAgree` (which columns are
NULL in which status) and `CardFollowsAuction`; the latter also says that seller
and leader differ, which the settlement needs. Each action preserves each
conjunct. The hold theorem is a step property that follows from `HouseInv`. For
the ladder, the arithmetic lemmas show that `CeilCents` is monotone, hence
`MinNextBid` too: a bid that clears the increment over the top rung clears it
over every lower one. The closing schedule needs the ladder: a new bid is higher
than every row there is, so it adds one to their number, and that number stays
ahead of the extensions. For the promise, each transaction is matched with the
step people see: create with `Offer`, bid with `TakeLead` (what a hold takes from
one column of a user row it adds to the other, the outbid leader's included),
`SettleSold` with `Award`, cancel and `SettleUnsold` with `Withdraw`, the clock with
nothing.

*Sums of money.* `SumFunction` adds up a function in an order it chooses, by a
recursion over sets, and induction over data is out of reach here. What stands in
for it is a least counterexample: of the sets for which the claim fails take one
with the fewest elements, remove one, and the claim holds (`FiniteSums`, from the
well-foundedness of the naturals). So proved: that the recursion has a solution, that
any element may be taken out first (`SumFunRemove`), that a sum changes by what one
or two of its terms do (`SumMoves`, `SumMovesTwice`), and that sums of terms that
are close are close (`SumsAreClose`). Each transaction then comes down to the
one auction and the at most three users it touches: holds move as leads do
(`HoldsMove`), the gap between balance and ledger as wins do (`GapsMove`; that a
gap is the wins, `GapIsTheWins`, is inductive, and leaves none where there is no win,
`GapExplained`), and all money as what one seller does not get (`KeptMoves`). The
exchange adds transactions that move none of these terms,
or two of them against each other.

*Exchange.* `ExchangeInv` is `HouseInv`, the types of the market, that an active
listing names a card, and that a card is LISTED exactly while one active listing
offers it. The last is inductive although the check of a create request is stale
when it commits, since the transaction looks at the card's status again under its
lock; it is the owner that is not looked at again (`stale_owner`). Market steps
touch no card in AUCTION, auction steps none that is LISTED, and so each keeps what
the other needs. For `NobodyOverspends` an ask is one of the amounts sellers may ask
(`AsksKnown`): a purchase takes what the buyer has been seen to have, and gives the
seller the price less two fees, which `TradeFeesCovered` says is not negative.

*Drops.* That stock never goes negative and the limit holds rests on the lock:
at most one purchase in flight per drop (`OneSalePerDrop`), whose reads still
describe the row (`LockedReadsStayFresh`). `SaleInv` is these, the type
invariant, `StockAccountedFor` and `LimitPerUser`; counts of packs use the
library facts about finite sets.

*Weights.* `OddsInv` says of a cache entry, and of an answer under way, that its
version was current at the time it carries or later (`AnswersCurrent`): a
retirement after that time only makes the recorded time of retirement later.
It needs that an active version is not retired and that there is one from the
first commit on (`VersionsMakeSense`): a commit activates its own row, whatever
it deactivates. A rebalance deactivates only versions older than its own
(`CreatesLast`), so the latest active one is replaced by a later one or stays.
That a nonempty set of versions has a latest is proved from the
well-foundedness of the naturals. The packs play no part in it.

*Worker.* `OneCallCarriesAClose` counts calls, and does not say that one call
has a close only once in its queue; `WorkerInv` does (`CarriedOnce`), and that
what waits in a queue has not been sent and is closed (`CarriedUnsent`). A
settlement needs a live auction, so nobody carries it yet; an announcement takes
the only place there is away and sends it; everything else leaves queues alone
or empties them.

*Packs.* `PacksAreDraws`: every row is what `NewPack` made of some seed and some
version, the one it is pinned to, before the reveal or after it. The rest is about a
single draw. The browser compares slots one by one where the server takes the least
place with the least rarity; both are the same slot (`LowestSlotIs`), and the two
ways to replace an empty bucket pick the same cards (`BrowserReproduces`). A weight
that is zero is never rolled, but for COMMON and for what is left when the weights
add up to less than one (`RarityPicked`); pity leaves one slot at the floor or above
(`PityLifts`); a card comes from the bucket of its slot if that has any
(`CardsDrawn`). A rounded share is at most half a unit off
(`RoundedToTheNearest`), and the last share, the price less the others, is off by
their errors together (`SumsAreClose`).

*Pages.* On all three kinds of pages the argument is about what is under way. Of an
auction's page: at most one fetch is wanted, its answer, once there, is no older
than what the page was told when it asked and than what it shows, and nothing on
its way is newer than the row (`PageInv`); the row's progress, status and number of
bids, only grows, which needs the worker's steps and no more. Of the stock: whatever
is in an update or an answer is a stock of the past, and until a restock the stock
only falls (`OldStockIsMore`). Of the market: a fetch still wanted was asked for after
the last event (`WantedAreNews`). On the reveal page the contents come back in any
order of rows, but the sort leaves none: two orders that agree up to a place agree
at it (`AgreeUpTo`), so every answer shows the same card at the same place.

*Prices.* `RefreshInv` says of a refresh what it has read and fetched, and, while
none have overlapped, that only one is at work (`OneAtWork`) and that its reads still
hold (`ReadsHold`), and that the flag is up (`FlagIsUp`); snapshots are dated, later
ones later (`DatesPassed`,
`DatedLater`).

*Alerts.* Evaluations at work together have met (`WorkersMet`). One that is about to
write found no open alert when it looked, so whoever has an open alert of that tier
wrote it since and was at work then (`OpenSinceLookUp`); an evaluation has no alert
of a tier it has yet to come to (`AheadIsBlank`), and an acknowledged alert stays so
(`AckedStays`).

*Wash trades.* Of three sales of a pair, each within the window of each evaluation,
the one that was evaluated last counted the other two, since a sale is closed before
it is queued; so it has its flag or its call is about to write it (`LastOneFlags`).
The other way round, what is found was counted (`FlagsHaveReasons`).

*Limits.* The set kept for a key has at most `max` members (`WindowsFit`), and an
admitted call is a member as long as both its stamp and the run of its script are
within the window (`LogsKeep`): a script removes only what is older than its own
stamp allows, and the expiry of the key is put off by a whole window at each
admission. A call asks each key once, so members and calls are as many
(`AsksOnce`). For `RetryAfterSuffices`: the refusal named the time at which the
oldest member leaves, rounded up.

*Locks.* `LocksInv`: every lock is of a step its transaction has taken (`Justified`),
the first lock, on the item or the card, is held to the end (`HasFirst`), and so what
was found under it stays true (`Decided`); a card that is free to sell is no open
item's (`CardsSpokenFor`); a lock on a row of a plan is of a transaction that has
come to that row or passed it (`HasRow`). Suppose a set of requests wait for each
other. None waits
for the card of its item: whoever has that card is about to find it taken, or to
commit (`CardIsFreeSoon`). None waits for a user: the one that has the row would wait
for a later user, and so on without end. None waits for a row of a plan, unless
refreshes cross: a rebalance would wait for one that has come further, and so on
without end. So none waits for a card of its own, or for
an item, but for the drop of a purchase that waits for the pool. What is left are
purchases that hold one connection each, and all connections together
(`PurchasesHoldThePool`).

*Forms.* `FormsInv`: one request is out at a time, while the form is busy and says
nothing (`OneOut`); a dialog that is open, or an amount that is filled in, is about a
thing not yet heard to be done (`WantsUndone`), so that of the requests for a thing
the page has heard of or waits for only one counts (`OneCounts`). Forms that stay
enabled are left to the server, which does their thing once (`ServedOnce`).

Only model-checked: the liveness properties `EveryAuctionEnds`, `EveryDueSettles`,
`ListsDropTheEnded` and `ListsShowTheStock`, which rest on fairness and so on
ENABLED. That the reals of the solver and the hashes behind the seeds are what the
constants `Solved` and `Seeds` say is assumed in both. No induction over data is
used: what `Least`, `Nth`, `SumFunction` and `RoundHalfUp` return is proved from
least counterexamples, counting and division.

## 5. Disagreements with the documentation

Shown by a run, which checks the documented property and finds it violated:

- **Two fees for a sale** (`auction_fee`). `computeAuctionFee` returns the bid less
  the fee, and the settlement adds that and subtracts the fee once more
  (`settle-due/route.ts:165-166`). "Winner fee: 10% of final bid"
  (`ARCHITECTURE.md:141`, and `auction-math.test.ts:64`). The purchase of a listing
  does the same (`listings/[id]/purchase/route.ts:103-104`), against "Net effect on
  seller balance = priceAsk - fee" (`:27`) and "fee $1.00, seller nets $19.00"
  (`ARCHITECTURE.md:177`). Below two cents a sale costs its seller money, which is
  why `NobodyOverspends` carries `TradeFeesCovered` and `FeesCovered`.
  `MoneyLeavesOnlyBySales` holds with one fee or two: it is about when money leaves,
  not how much.
- **A win is in the ledger twice** (`auction_ledger`). `AUCTION_WIN` repeats what
  `BID_HOLD` had written, while "`users.balance` is always reconstructable as
  `SUM(ledger.delta)`" (`ARCHITECTURE.md:90`). `LedgerExplainsTheRest` says that of
  users who have won nothing the sentence is true, on both markets.
- **Stale owner** (`stale_owner`). Two requests to list a card pass the owner
  check; one lists it, it is sold, and the other lists it for its former owner,
  who is paid when it sells. The card is still for sale only once, and its
  buyer pays (`ForSaleOnce`, `NoFreeTransfer` hold).
- **Lost updates of the balance** (`drop_ledger`). A deposit between the balance
  read and the balance write of a pack purchase is undone by the write.
- **A close nobody sees** (`feed_missed_close`). The detail page means to refetch
  two seconds after the close; the effect with that timer runs again every
  second and starts it anew. A page that missed `auction_closed` stays at
  "closing…". Lists poll and do not have the problem (`ListsDropTheEnded`).
- **Two active versions** (`two_active`). Two rebalances that overlap do not see
  each other's row and both leave one active. Purchases agree on the later one
  (`WeightsNeverGoBack`), and the next rebalance deactivates both.

Seen while modelling, without a run of their own:

- Auctions settled before a settlement that throws in the same call are never
  announced (`settle-due/route.ts:44`, `apps/ws/README.md:45`): `SettlementThrows`.
- An extension moves the close from the old close, not from the bid
  (`auction-math.ts:46`, `ARCHITECTURE.md:165`); `ClosingSchedule` has the code's rule.
- `sealed_phase_started` is sent for every bid in the final minute, not once
  (`ARCHITECTURE_PART_B.md:239`), and no page listens to it.
- `inventory_update` broadcasts can overtake each other, and the page shows the
  older number (`apps/ws/README.md:80`); it is never too small (`NeverShowsTooFew`).
- "The next purchase reads the new weights" (`rebalance/route.ts:22-24`,
  `activate-solver.ts:62`): for up to a minute it may not, when an answer to an
  older read fills the cache after the invalidation, and always after the script.
  `StaleAtMostTTL` is what holds.
- "Second call while the first runs returns 409" (`admin/prices/refresh/route.ts:34`).
  The flag is tested, the body of the request awaited, and the flag set after it
  (`:49`, `:65`, `:79`): two that await their bodies at the same time both refresh, and
  whoever ends first clears the flag, so a third may start. `LaterCallsAreRefused` is
  what holds until then. Their transactions may also lock the same cards in opposite
  orders, and the database then ends one (`RefreshesCross` in `NoDeadlock`).
- "All sets failed: 502, the database untouched" (`admin/prices/README.md:47,80`):
  failures are caught set by set, the cards are marked stale and the answer is
  207; nothing can lead to the 502. The price cache in Redis is read and cleared
  and never filled.
- The reveal page takes the answers to its refetches in the order they arrive; it
  may show older prices than before. `CardsTurnOnce` is what holds.
- An open yellow alert keeps the red one of the same tier from being written
  (`lib/alerts.ts:107` looks for kind and tier); `DriftIsNeverSilent` asks for
  some alert, not for one as severe. Two evaluations at once write two.
- `behavioralSignals` is to be called "on purchase + reveal"
  (`ARCHITECTURE_PART_B.md:135`) and is not called at all; so `account_links` is
  never written and the flag for linked accounts never raised.
- "Sliding-window-log is exact": of calls that were stamped and counted within one
  window (`WindowNeverOverflows`). A script that is run late counts at its
  stamp. A retry the hourly limit refuses has used up the limit per minute, and a
  bid claims its slot of two seconds before it is validated.
- "No cycle, no deadlock" (`ARCHITECTURE.md:88`), said of the user rows, holds of
  all row locks of the users' requests and of settlements. A purchase that finds no
  cached weights reads them with the global client inside its transaction
  (`drops/[id]/purchase/route.ts:114`); with `connection_limit=1`
  (`DATABASE.md:322`, `.env.example:3`, `prisma/README.md:52`) it waits for the
  connection it holds itself until Prisma's timeout, and so do as many purchases as
  there are connections. `NoDeadlock` says that this and the crossing refreshes are
  the only circles.
- The dialog for adding funds catches no network error and stays disabled until the
  page is reloaded (`Forms!FailToHear`). The buttons to sell, buy and cancel stay
  enabled for 600 or 800 ms after they are done; a second click there is told
  `not_active` of what has succeeded (the exception in `RefusalIsHonest`).
- A pack bought on the weights compiled in cannot be verified by the page: its
  record has no weights (`fairness/[purchaseId]/route.ts:65`, `DATABASE.md:249`).
  `VerifierAgrees` leaves these packs out.

## 6. Not modelled, and the plan

Not modelled:

- sessions and passwords, read-only pages and dashboards (`economics.ts`, the
  `economics-dashboard*.tsx`): they read and show, and change nothing
  that others depend on;
- the weight solver and its simulation (`lib/economics/`, `calibrate-rarity.ts`):
  real-valued, beyond TLC; PackOdds takes what it finds as `Solved`;
- the unseeded picker, used by scripts only;
- the bid slot in Redis: it keeps a user's bids two seconds apart, and no
  property depends on it, since every bid locks the auction;
- the upstream price API, hashes and HMACs: modelled from their use.

Next, in this order:

1. Proofs: the abstract sides of DropSale and PackOdds as specifications of their
   own, with the refinements; type invariants of DropFeed and MarketPages as
   theorems by name.
2. `Platform`: Exchange and DropSale over one set of accounts, where a stale
   balance write meets bids and holds.
3. The clamping order of the weight solver, as a pure algorithm.
