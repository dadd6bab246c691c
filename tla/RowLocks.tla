------------------------------ MODULE RowLocks ------------------------------
(***************************************************************************)
(* The transactions of the web process as what they wait for: a connection *)
(* of the pool, the row locks their statements take one by one, and, for a *)
(* purchase whose weights are not cached, a second connection while it     *)
(* holds the first.  The other modules take a transaction for one step;    *)
(* this one says in which circles they can wait for each other.            *)
(*                                                                         *)
(* What the rows hold is left out, but for what decides which lock comes   *)
(* next: whether an item (auction, listing, drop or pack) is open, who     *)
(* leads it, and the status of a card.  Locks are let go at the end.       *)
(***************************************************************************)
EXTENDS Integers, Sequences, FiniteSets, FiniteSetsExt

CONSTANTS
  Slots,        (* requests in flight                                       *)
  Menu,         (* what a request may be: kind, user, item                  *)
  Users,        (* users.id, in its order                                   *)
  Nobody,       (* NULL                                                     *)
  FirstItems,   (* auctions, listings, drops and packs, by id: state,       *)
                (* seller, leader, card                                     *)
  FirstCards,   (* status of every card                                     *)
  Plan,         (* rows an admin's refresh or rebalance updates, as its     *)
                (* statements meet them, by item                            *)
  PoolSize      (* connection_limit                                         *)

ASSUME PoolAssumption ==
  /\ PoolSize \in Nat \ {0} /\ Users \subseteq Nat /\ Nobody \notin Users
  /\ IsFiniteSet(Slots) /\ IsFiniteSet(Users)

VARIABLES
  item, cardStatus,
  request,      (* what each slot asks for, and its next step               *)
  locks,        (* row locks held: slot, row, mode                          *)
  connected,    (* slots with a transaction                                 *)
  second,       (* slots with a second connection                           *)
  cached        (* the active weights are in the cache, and fresh           *)

rowVars == <<item, cardStatus>>
poolVars == <<connected, second, cached>>
lockVars == <<rowVars, request, locks, poolVars>>

(* The statements of a transaction that lock or decide, in their order; the *)
(* checks that need no lock of their own are at the one before.             *)
Steps ==
  [bid      |-> <<"item", "open", "users", "check", "commit">>,
   settle   |-> <<"skip_locked", "open", "users", "card", "commit">>,
   auction  |-> <<"own_card", "held", "seller", "commit">>,
   list     |-> <<"own_card", "held", "seller", "commit">>,
   buy      |-> <<"item", "open", "users", "check", "card", "commit">>,
   cancel   |-> <<"item", "open", "card", "commit">>,
   deposit  |-> <<"balance", "commit">>,
   purchase |-> <<"item", "open", "weights", "balance", "commit">>,
   reveal   |-> <<"item", "open", "seller", "commit">>,
   refresh  |-> <<"rows", "commit">>,
   rebalance |-> <<"rows", "commit">>]

ItemRows == DOMAIN FirstItems
CardRows == DOMAIN FirstCards

(* Only the worker's settlements have no user.                              *)
ASSUME MenuAssumption ==
  /\ Menu \subseteq [kind : DOMAIN Steps, user : Users \cup {Nobody}, item : ItemRows]
  /\ \A q \in Menu : q.user = Nobody => q.kind = "settle"

(* Auctions and listings; what a purchase locks is a drop.                  *)
Traded ==
  {q.item : q \in {p \in Menu : p.kind \in {"bid", "settle", "auction", "list", "buy", "cancel"}}}

(* The rows there are at first: an open auction or listing has its card to  *)
(* itself, and the status of the card says so (ForSaleOnce of Exchange).    *)
ASSUME RowsAssumption ==
  /\ FirstItems \in [ItemRows -> [state : {"none", "open", "shut"}, seller : Users \cup {Nobody},
                               leader : Users \cup {Nobody}, card : CardRows]]
  /\ FirstCards \in [CardRows -> {"HELD", "LISTED", "AUCTION"}]
  /\ \A i, j \in Traded : FirstItems[i].state = "open" =>
       /\ FirstCards[FirstItems[i].card] # "HELD"
       /\ FirstItems[j].state = "open" /\ FirstItems[j].card = FirstItems[i].card => i = j
  /\ \A p, q \in Menu : p.kind = "purchase" /\ q.item = p.item => q.kind \in {"purchase", "deposit"}

(* A rebalance goes from tier to tier in one order.  A refresh updates the  *)
(* cards it has prices for and then those it has none for: two that heard   *)
(* different answers meet the same cards in different orders.               *)
ASSUME PlanAssumption ==
  /\ Plan \in [ItemRows -> Seq(Nat)]
  /\ \A q \in Menu : q.kind = "rebalance" =>
       \A i, j \in DOMAIN Plan[q.item] : i < j => Plan[q.item][i] < Plan[q.item][j]

(* SELECT ... FOR UPDATE, an UPDATE of no key column, the FOR KEY SHARE of  *)
(* an insert on the row its foreign key names.                              *)
Conflict(m, n) ==
  \/ m = "update" \/ n = "update"
  \/ m = "no_key_update" /\ n = "no_key_update"

Asks(r) == request[r].asks
Step(r) == Steps[Asks(r).kind][request[r].step]
InTransaction == {r \in Slots : request[r].stage = "working"}
At(r, step) == r \in InTransaction /\ Step(r) = step

Held(r) == {l \in locks : l.slot = r}
Free(r, row, mode) == \A l \in locks : l.slot # r /\ l.row = row => ~Conflict(l.mode, mode)

LocksInit ==
  /\ item = FirstItems /\ cardStatus = FirstCards
  /\ request \in [Slots -> {[asks |-> q, stage |-> "new", step |-> 1] : q \in Menu}]
  /\ locks = {} /\ connected = {} /\ second = {} /\ cached = FALSE

----------------------------------------------------------------------------
(* Which row a step locks *)

(* Mutant of NextUser: whoever asks comes first. *)
NextUserOwnFirst(r, wanted) ==
  IF Asks(r).user \in wanted THEN Asks(r).user ELSE Min(wanted)

(* ORDER BY id                                                              *)
NextUser(r, wanted) == Min(wanted)

(* The users of a bid, a trade or a settlement, as the locked item has them *)
Parties(r) ==
  LET i == item[Asks(r).item]
  IN {u \in {IF Asks(r).kind = "settle" THEN i.leader ELSE Asks(r).user,
             IF Asks(r).kind = "bid" THEN i.leader ELSE i.seller} : u # Nobody}

(* An auction nobody bid on is settled without a look at any user.          *)
Wanted(r) ==
  IF Asks(r).kind = "settle" /\ item[Asks(r).item].leader = Nobody THEN {}
  ELSE {u \in Parties(r) : \A l \in Held(r) : l.row # <<"user", u>>}

(* Places in its plan whose row a refresh or rebalance has not locked.      *)
Left(r) ==
  {i \in DOMAIN Plan[Asks(r).item] :
     \A l \in Held(r) : l.row # <<Asks(r).kind, Plan[Asks(r).item][i]>>}

(* The cards of a refresh are not those that are traded, but what they are  *)
(* copies of.                                                               *)
RowOf(r) ==
  CASE Step(r) \in {"item", "skip_locked"} -> <<"item", Asks(r).item>>
    [] Step(r) \in {"card", "own_card"}    -> <<"card", item[Asks(r).item].card>>
    [] Step(r) = "users"                   -> <<"user", NextUser(r, Wanted(r))>>
    [] Step(r) \in {"seller", "balance"}   -> <<"user", Asks(r).user>>
    [] Step(r) = "rows" -> <<Asks(r).kind, Plan[Asks(r).item][Min(Left(r))]>>

ModeOf(r) ==
  CASE Step(r) \in {"item", "skip_locked", "own_card", "users"} -> "update"
    [] Step(r) \in {"card", "balance", "rows"} -> "no_key_update"
    [] Step(r) = "seller"              -> "key_share"

(* A step that locks a row, now.                                            *)
Locking(r) ==
  /\ r \in InTransaction
  /\ Step(r) \in {"item", "skip_locked", "card", "own_card", "seller", "balance", "users", "rows"}
  /\ Step(r) = "users" => Wanted(r) # {}
  /\ Step(r) = "rows" => Left(r) # {}

----------------------------------------------------------------------------
(* The steps *)

InUse == Cardinality(connected) + Cardinality(second)

Begin(r) ==
  /\ request[r].stage = "new" /\ InUse < PoolSize
  /\ request' = [request EXCEPT ![r].stage = "working"]
  /\ connected' = connected \cup {r}
  /\ UNCHANGED <<rowVars, locks, second, cached>>

(* On to the next statement.                                                *)
Advance(r) == request' = [request EXCEPT ![r].step = @ + 1]

(* An item that is open, a card that is held: whoever finds it otherwise    *)
(* stops here.                                                              *)
Passes(r) ==
  IF Step(r) = "open" THEN item[Asks(r).item].state = "open"
                      ELSE cardStatus[item[Asks(r).item].card] = "HELD"

(* A statement that locks several rows has more than the next to lock.      *)
MoreRows(r) ==
  \/ Step(r) = "users" /\ Cardinality(Wanted(r)) > 1
  \/ Step(r) = "rows" /\ Cardinality(Left(r)) > 1

TakeLock(r) ==
  /\ Locking(r) /\ Free(r, RowOf(r), ModeOf(r))
  /\ locks' = locks \cup {[slot |-> r, row |-> RowOf(r), mode |-> ModeOf(r)]}
  /\ IF MoreRows(r) THEN UNCHANGED request ELSE Advance(r)
  /\ UNCHANGED <<rowVars, poolVars>>

GoOn(r) ==
  /\ \/ At(r, "users") /\ Wanted(r) = {}
     \/ At(r, "rows") /\ Left(r) = {}
     \/ At(r, "check")
     \/ Passes(r) /\ (At(r, "open") \/ At(r, "held"))
  /\ Advance(r)
  /\ UNCHANGED <<rowVars, locks, poolVars>>

(* COMMIT or ROLLBACK lets go of all locks.                                 *)
Ends(r) ==
  /\ request' = [request EXCEPT ![r].stage = "done", ![r].step = 1]
  /\ locks' = locks \ Held(r)
  /\ connected' = connected \ {r}
  /\ UNCHANGED <<second, cached>>

(* A check fails, the auction is locked by another call and skipped, or the *)
(* request is refused for what is not modelled: funds, owner, amount, time. *)
RollBack(r) ==
  /\ \/ At(r, "open") \/ At(r, "held")
     \/ At(r, "skip_locked") /\ ~Free(r, RowOf(r), ModeOf(r))
     \/ At(r, "check")
  /\ Ends(r)
  /\ UNCHANGED rowVars

(* What a request writes to the rows that others decide on.                 *)
Commit(r) ==
  LET q == Asks(r)
      Put(state, status) ==
        /\ item' = [item EXCEPT ![q.item].state = state]
        /\ cardStatus' = [cardStatus EXCEPT ![item[q.item].card] = status]
  IN /\ At(r, "commit")
     /\ CASE q.kind = "bid" ->
               item' = [item EXCEPT ![q.item].leader = q.user] /\ UNCHANGED cardStatus
          [] q.kind \in {"settle", "buy", "cancel"} -> Put("shut", "HELD")
          [] q.kind = "auction" -> Put("open", "AUCTION")
          [] q.kind = "list"    -> Put("open", "LISTED")
          [] q.kind = "reveal"  ->
               item' = [item EXCEPT ![q.item].state = "shut"] /\ UNCHANGED cardStatus
          [] OTHER -> UNCHANGED rowVars
     /\ Ends(r)

(* getActiveWeights, called inside the transaction: from the cache, or with *)
(* a connection of its own.                                                 *)
UseCachedWeights(r) ==
  /\ At(r, "weights") /\ r \notin second /\ cached
  /\ Advance(r)
  /\ UNCHANGED <<rowVars, locks, poolVars>>

AskForWeights(r) ==
  /\ At(r, "weights") /\ r \notin second /\ ~cached
  /\ InUse < PoolSize
  /\ second' = second \cup {r}
  /\ UNCHANGED <<rowVars, request, locks, connected, cached>>

(* Only a version in the database is remembered.                            *)
ReadWeights(r) ==
  /\ r \in second
  /\ second' = second \ {r}
  /\ cached' \in BOOLEAN
  /\ Advance(r)
  /\ UNCHANGED <<rowVars, locks, connected>>

(* The time to live is over, or a rebalance has committed.                  *)
Expire ==
  /\ cached /\ cached' = FALSE
  /\ UNCHANGED <<rowVars, request, locks, connected, second>>

RequestStep(r) ==
  \/ Begin(r) \/ TakeLock(r) \/ GoOn(r) \/ RollBack(r) \/ Commit(r)
  \/ UseCachedWeights(r) \/ AskForWeights(r) \/ ReadWeights(r)

LocksNext == Expire \/ \E r \in Slots : RequestStep(r)

LocksSpec == LocksInit /\ [][LocksNext]_lockVars

----------------------------------------------------------------------------
(* Properties *)

(* r can do nothing until one of S does: it wants a row that one of them    *)
(* has, or a connection and they have them all.                             *)
WaitsFor(r, S) ==
  \/ /\ Locking(r) /\ Step(r) # "skip_locked"
     /\ \E l \in locks : /\ l.slot \in S \ {r} /\ l.row = RowOf(r)
                         /\ Conflict(l.mode, ModeOf(r))
  \/ /\ request[r].stage = "new" \/ (At(r, "weights") /\ r \notin second /\ ~cached)
     /\ InUse >= PoolSize /\ connected \subseteq S

(* Two refreshes at once (overlapped in PriceRefresh), each with cards      *)
(* locked that the other is to update.                                      *)
RefreshesCross(S) ==
  \E r, s \in S : /\ r # s /\ At(r, "rows") /\ At(s, "rows")
                  /\ Asks(r).kind = "refresh" /\ Asks(s).kind = "refresh"

(* Purchases have all connections, one at least asks for another, and the   *)
(* rest queue for a drop.                                                   *)
PurchasesHoldThePool(S) ==
  /\ connected \subseteq S /\ second = {} /\ InUse >= PoolSize
  /\ \A r \in connected : /\ Asks(r).kind = "purchase"
                          /\ At(r, "item") \/ At(r, "weights")
  /\ \E r \in connected : At(r, "weights")

(* Requests wait for each other in a circle, or one for itself, in two ways *)
(* only: two refreshes that update the same cards, and purchases that ask   *)
(* for a connection while they have them all.  Bids, sales, settlements,    *)
(* cancellations, deposits, reveals and rebalances never close a circle:    *)
(* "Two concurrent transactions on the same pair always take the locks in   *)
(* the same order -> no cycle -> no deadlock" (ARCHITECTURE.md).            *)
NoDeadlock ==
  \A S \in SUBSET Slots : S # {} /\ (\A r \in S : WaitsFor(r, S)) =>
    RefreshesCross(S) \/ PurchasesHoldThePool(S)
=============================================================================
