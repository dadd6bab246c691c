------------------------------ MODULE PackOdds ------------------------------
(***************************************************************************)
(* The weights packs of one tier are drawn with: rebalances that write a   *)
(* new version, the reader with its cache per process, the purchases that  *)
(* draw a pack and pin the version, the reveal.  A rebalance of several    *)
(* tiers does the same to each tier inside one transaction.                *)
(*                                                                         *)
(* The statements of a rebalance run at READ COMMITTED: the update sees    *)
(* the rows active when it starts, waits for those another rebalance has   *)
(* changed, and looks at these again, but at no others.  Stock, money and  *)
(* limits of a purchase are in DropSale.                                   *)
(***************************************************************************)
EXTENDS PackDraw

CONSTANTS
  MaxVersions,    (* bound: rows of pack_weight_versions                   *)
  Solved,         (* weights_json of a version, as the solver finds them   *)
  StaticWeights,  (* RARITY_WEIGHTS of the tier                            *)
  Rebalances,     (* rebalances that may run at once                       *)
  Buyers,         (* purchases that may wait for the database at once      *)
  Packs,          (* user_packs.id                                         *)
  Seeds,          (* the seeds newCommit may come up with                  *)
  Captured,       (* pack_cards.priced_captured of a card                  *)
  TierPrice,      (* TIER_PRICES_USD of the tier                           *)
  TTL,            (* PACK_WEIGHT_TTL_MS                                    *)
  MaxTime         (* bound                                                 *)

(* pack_weight_versions.id, numbered as created_at goes, and NULL: the      *)
(* weights compiled in.                                                     *)
Versions == 1..MaxVersions
Static == 0

ASSUME OddsAssumption ==
  /\ MaxVersions \in Nat
  /\ Solved \in [Versions -> Weights] /\ StaticWeights \in Weights
  /\ Seeds \subseteq Seed
  /\ Captured \in [Pool -> Nat] /\ TierPrice \in Nat
  /\ TTL \in Nat \ {0} /\ MaxTime \in Nat

VARIABLES
  now,            (* Date.now()                                            *)
  version,        (* pack_weight_versions, as committed                    *)
  rebalance,      (* the transactions that write them                      *)
  cache,          (* the cache entry of the tier                           *)
  asking,         (* calls of getActiveWeights that missed the cache       *)
  pack,           (* user_packs with pack_fairness and pack_cards          *)
  first           (* history: when the tier got its first version          *)

vars == <<now, version, rebalance, cache, asking, pack, first>>

Time == 0..MaxTime
Never == MaxTime + 1

(* retired is history: when the deactivation of the version was committed. *)
VersionRow ==
  [state : {"none", "active", "inactive"}, retired : Time \cup {Never}]
NoVersion == [state |-> "none", retired |-> Never]

(* set: the versions the update found active, once it is through the ones   *)
(* it has deactivated and locked.                                           *)
RebalanceRow ==
  [phase : {"idle", "updating", "created", "committed"}, set : SUBSET Versions,
   row : Versions \cup {Static}]
NoRebalance == [phase |-> "idle", set |-> {}, row |-> Static]

Entry == [version : Versions, fetchedAt : Time]
NoEntry == [version |-> Static, fetchedAt |-> 0]

AskRow == [phase : {"idle", "asked", "read"}, at : Time, row : Versions \cup {Static}]
NoAsk == [phase |-> "idle", at |-> 0, row |-> Static]

PackRow ==
  [version : Versions \cup {Static}, seed : Seeds, cards : [Slots -> Pool],
   revealed : BOOLEAN, spend : [Slots -> Int]]
NoPack == [version |-> Static]

OddsInit ==
  /\ now = 0
  /\ version = [v \in Versions |-> NoVersion]
  /\ rebalance = [r \in Rebalances |-> NoRebalance]
  /\ cache = NoEntry
  /\ asking = [b \in Buyers |-> NoAsk]
  /\ pack = [p \in Packs |-> NoPack]
  /\ first = Never

Active == {v \in Versions : version[v].state = "active"}

----------------------------------------------------------------------------
(* Rebalance *)

StartUpdate(r) ==
  /\ rebalance[r] = NoRebalance
  /\ rebalance' = [rebalance EXCEPT ![r] = [phase |-> "updating", set |-> Active, row |-> Static]]
  /\ UNCHANGED <<now, version, cache, asking, pack, first>>

Locked(v) == \E r \in Rebalances : rebalance[r].phase = "created" /\ v \in rebalance[r].set

(* Ids later than every row there is, committed or not. *)
Unused ==
  {v \in Versions : \A w \in Versions :
     version[w] # NoVersion \/ (\E r \in Rebalances : rebalance[r].row = w) => w < v}

(* The update gets its locks, and the insert follows. *)
UpdateAndCreate(r) ==
  /\ rebalance[r].phase = "updating"
  /\ \A v \in rebalance[r].set : ~Locked(v)
  /\ Unused # {}
  /\ rebalance' = [rebalance EXCEPT ![r] =
       [phase |-> "created", set |-> @.set \cap Active, row |-> Least(Unused)]]
  /\ UNCHANGED <<now, version, cache, asking, pack, first>>

VersionsAfter(r) ==
  [v \in Versions |->
     IF v = rebalance[r].row
     THEN [state |-> "active", retired |-> Never]
     ELSE IF v \in rebalance[r].set
     THEN [state |-> "inactive", retired |-> now]
     ELSE version[v]]

(* The route goes on to invalidate the cache; activate-solver, another      *)
(* process, has no way to.                                                  *)
CommitRebalance(r) ==
  /\ rebalance[r].phase = "created"
  /\ version' = VersionsAfter(r)
  /\ first' = IF first = Never THEN now ELSE first
  /\ \E next \in {[NoRebalance EXCEPT !.phase = "committed"], NoRebalance} :
       rebalance' = [rebalance EXCEPT ![r] = next]
  /\ UNCHANGED <<now, cache, asking, pack>>

RollBackRebalance(r) ==
  /\ rebalance[r].phase \in {"updating", "created"}
  /\ rebalance' = [rebalance EXCEPT ![r] = NoRebalance]
  /\ UNCHANGED <<now, version, cache, asking, pack, first>>

InvalidateActiveWeights(r) ==
  /\ rebalance[r].phase = "committed"
  /\ cache' = NoEntry
  /\ rebalance' = [rebalance EXCEPT ![r] = NoRebalance]
  /\ UNCHANGED <<now, version, asking, pack, first>>

----------------------------------------------------------------------------
(* Purchase and reveal *)

(* Mutant of Latest: the query without its orderBy. *)
LatestUnordered ==
  IF Active = {} THEN Static ELSE CHOOSE v \in Active : \A w \in Active : v <= w

(* The latest of the active versions by created_at, if there is one. *)
Latest == IF Active = {} THEN Static ELSE CHOOSE v \in Active : \A w \in Active : w <= v

WeightsOf(v) == IF v = Static THEN StaticWeights ELSE Solved[v]

(* Mutant of NewPack: the version is looked up again when it is pinned. *)
NewPackPinnedAnew(seed, v) ==
  LET cards == ApplyRollToPool(RollPack(seed, WeightsOf(v)), seed, Pool)
  IN  [version |-> Latest, seed |-> seed, cards |-> cards, revealed |-> FALSE,
       spend |-> [i \in Slots |-> 0]]

(* The pack is drawn from the weights of the version it is pinned to. *)
NewPack(seed, v) ==
  LET cards == ApplyRollToPool(RollPack(seed, WeightsOf(v)), seed, Pool)
  IN  [version |-> v, seed |-> seed, cards |-> cards, revealed |-> FALSE,
       spend |-> [i \in Slots |-> 0]]

CacheFresh == cache # NoEntry /\ now - cache.fetchedAt < TTL

DrawFromCache(p, seed) ==
  /\ pack[p] = NoPack
  /\ CacheFresh
  /\ pack' = [pack EXCEPT ![p] = NewPack(seed, cache.version)]
  /\ UNCHANGED <<now, version, rebalance, cache, asking, first>>

AskDatabase(b) ==
  /\ asking[b] = NoAsk
  /\ ~CacheFresh
  /\ asking' = [asking EXCEPT ![b] = [phase |-> "asked", at |-> now, row |-> Static]]
  /\ UNCHANGED <<now, version, rebalance, cache, pack, first>>

ReadActive(b) ==
  /\ asking[b].phase = "asked"
  /\ asking' = [asking EXCEPT ![b] = [phase |-> "read", at |-> @.at, row |-> Latest]]
  /\ UNCHANGED <<now, version, rebalance, cache, pack, first>>

(* Mutant of CacheAfter: the entry is stamped when the answer arrives. *)
CacheAfterStampedLate(b) ==
  IF asking[b].row = Static THEN cache ELSE [version |-> asking[b].row, fetchedAt |-> now]

(* An answer always fills the cache, stamped with the time of the question. *)
CacheAfter(b) ==
  IF asking[b].row = Static THEN cache ELSE [version |-> asking[b].row, fetchedAt |-> asking[b].at]

(* The answer arrives: in time, or after the purchase has timed out. *)
Answered(b) ==
  /\ asking[b].phase = "read"
  /\ cache' = CacheAfter(b)
  /\ asking' = [asking EXCEPT ![b] = NoAsk]
  /\ UNCHANGED <<now, version, rebalance, first>>

DrawFromDatabase(b, p, seed) ==
  /\ pack[p] = NoPack
  /\ Answered(b)
  /\ pack' = [pack EXCEPT ![p] = NewPack(seed, asking[b].row)]

AnswerTooLate(b) == Answered(b) /\ UNCHANGED pack

RevealedPack(row) ==
  [row EXCEPT !.revealed = TRUE,
     !.spend = AllocateSpend([i \in Slots |-> Captured[row.cards[i]]], TierPrice)]

Reveal(p) ==
  /\ pack[p] # NoPack
  /\ ~pack[p].revealed
  /\ pack' = [pack EXCEPT ![p] = RevealedPack(@)]
  /\ UNCHANGED <<now, version, rebalance, cache, asking, first>>

Tick ==
  /\ now < MaxTime     \* bound
  /\ now' = now + 1
  /\ UNCHANGED <<version, rebalance, cache, asking, pack, first>>

OddsNext ==
  \/ \E r \in Rebalances :
       \/ StartUpdate(r)
       \/ UpdateAndCreate(r)
       \/ CommitRebalance(r)
       \/ RollBackRebalance(r)
       \/ InvalidateActiveWeights(r)
  \/ \E p \in Packs, seed \in Seeds : DrawFromCache(p, seed)
  \/ \E b \in Buyers :
       \/ AskDatabase(b)
       \/ ReadActive(b)
       \/ \E p \in Packs, seed \in Seeds : DrawFromDatabase(b, p, seed)
       \/ AnswerTooLate(b)
  \/ \E p \in Packs : Reveal(p)
  \/ Tick

OddsSpec == OddsInit /\ [][OddsNext]_vars

----------------------------------------------------------------------------
(* Properties *)

(* Every row keeps its shape; the fallback is never in the cache. *)
OddsTypeOK ==
  /\ now \in Time
  /\ version \in [Versions -> VersionRow]
  /\ rebalance \in [Rebalances -> RebalanceRow]
  /\ cache \in Entry \cup {NoEntry}
  /\ asking \in [Buyers -> AskRow]
  /\ \A p \in Packs : pack[p] = NoPack \/ pack[p] \in PackRow

(* What the database answers never goes back to an earlier version or to    *)
(* none, though concurrent rebalances can leave several active, deactivate  *)
(* versions of each other, commit out of order and roll back.               *)
WeightsNeverGoBack ==
  [][Latest # Static => Latest' # Static /\ Latest <= Latest']_vars

(* Weights of version v are not too old for a purchase that asked at time t. *)
RecentAt(v, t) == IF v = Static THEN first >= t ELSE version[v].retired > t - TTL

(* "TTL self-heals if invalidation is missed": whatever reads, answers and  *)
(* invalidations overtake each other, no purchase draws from a version that *)
(* had been retired for TTL when it asked, nor from the weights compiled in *)
(* when there had been a version before it asked.                           *)
StaleAtMostTTL ==
  [][\A p \in Packs : pack[p] = NoPack /\ pack'[p] # NoPack =>
       LET v == pack'[p].version
       IN  \/ RecentAt(v, now)
           \/ \E b \in Buyers : /\ asking[b].phase = "read" /\ asking'[b] = NoAsk
                                /\ asking[b].row = v /\ RecentAt(v, asking[b].at)]_vars

(* The page /verify/pack/:id, which has the roll in a second copy and the   *)
(* weights only by way of the pinned version, finds the cards of the pack.  *)
VerifierAgrees ==
  \A p \in Packs : pack[p] # NoPack /\ pack[p].version # Static =>
    ReproduceCards(pack[p].seed, Solved[pack[p].version], Pool, Pity) = pack[p].cards

(* The pool has cards of the floor and of every rarity above it that can be *)
(* rolled: an empty bucket is replaced by the first that is not, a lower    *)
(* one.                                                                     *)
PoolCovers ==
  Pity # NoPity =>
    \A r \in Rarities :
      /\ r >= Pity
      /\ r \in {Pity, LEGENDARY} \/ \E v \in Versions \cup {Static} : WeightsOf(v)[r] > 0
      => Bucket(Pool, r) # {}

(* Every pack has a card of the rarity its tier promises, whatever the      *)
(* solver does to the weights.                                              *)
GuaranteeKept ==
  PoolCovers =>
    \A p \in Packs : pack[p] # NoPack => \E i \in Slots : RarityOf[pack[p].cards[i]] >= Pity

(* The cards of a pack are booked at exactly its price together, and each   *)
(* at its share of it up to the rounding; the last, which takes the         *)
(* roundings of all the others, can even be booked below nothing.           *)
SpendAddsUp ==
  \A p \in Packs : pack[p] # NoPack /\ pack[p].revealed =>
    LET captured == [i \in Slots |-> Captured[pack[p].cards[i]]]
        total == SumFunction(captured)
        off(i) == 2 * (pack[p].spend[i] * total - captured[i] * TierPrice)
        slack(i) == IF i = CardsPerPack THEN (CardsPerPack - 1) * total ELSE total
    IN  /\ SumFunction(pack[p].spend) = TierPrice
        /\ \A i \in Slots : off(i) <= slack(i) /\ -off(i) <= slack(i)

(* What the table of the columns says, and the code does not do.            *)

(* "is_active: exactly one true row per tier at any time".                  *)
OneActive == Cardinality(Active) <= 1
=============================================================================
