------------------------------ MODULE PackDraw ------------------------------
(***************************************************************************)
(* What is in a pack: the roll of lib/fairness/roll.ts, its second         *)
(* implementation in the page /verify/pack/:id, and the split of the       *)
(* pack's price over its cards.                                            *)
(*                                                                         *)
(* A seed stands for the two HMAC streams it keys: per slot a uniform that *)
(* picks the rarity and one that picks the card.  Uniforms and weights are *)
(* integers in units of 1/One.  A card is its place in the order of ids.   *)
(***************************************************************************)
EXTENDS Integers, FiniteSets, Functions

CONSTANTS
  CardsPerPack,   (* CARDS_PER_PACK, 5 in the code                         *)
  One,            (* 2^48 in the code                                      *)
  Pool,           (* cards.id                                              *)
  RarityOf,       (* cards.rarity_bucket                                   *)
  Pity            (* TIER_PITY of the tier, or NoPity                      *)

Rarities == 0..4              \* RARITY_ORDER: COMMON, ..., LEGENDARY
LEGENDARY == 4
NoPity == -1
Slots == 1..CardsPerPack

Weights == [Rarities -> 0..One]
Seed == [rarity : [Slots -> 0..(One - 1)], card : [Slots -> 0..(One - 1)]]

ASSUME DrawAssumption ==
  /\ CardsPerPack \in Nat \ {0} /\ One \in Nat \ {0}
  /\ Pool \subseteq Nat /\ Pool # {} /\ IsFiniteSet(Pool)
  /\ RarityOf \in [Pool -> Rarities]
  /\ Pity \in Rarities \cup {NoPity}

Least(S) == CHOOSE x \in S : \A y \in S : x <= y

----------------------------------------------------------------------------
(* The server's roll *)

Cumulative(w, r) == SumFunctionOnSet(w, 0..r)

(* The first rarity whose cumulative weight reaches u; LEGENDARY when the   *)
(* weights add up to less than u.                                           *)
PickRarity(u, w) ==
  LET reached == {r \in Rarities : u <= Cumulative(w, r)}
  IN  IF reached = {} THEN LEGENDARY ELSE Least(reached)

LowestSlot(slots) == Least({i \in Slots : \A j \in Slots : slots[i] <= slots[j]})

BelowFloor(slots) == \A i \in Slots : slots[i] < Pity

(* Mutant of ApplyPity: the slot goes up one rarity instead of to the floor. *)
ApplyPityByOne(slots) ==
  IF BelowFloor(slots) THEN [slots EXCEPT ![LowestSlot(slots)] = @ + 1] ELSE slots

(* A pack below the tier's floor has its lowest slot raised to the floor.   *)
ApplyPity(slots) ==
  IF BelowFloor(slots) THEN [slots EXCEPT ![LowestSlot(slots)] = Pity] ELSE slots

RollPack(seed, w) == ApplyPity([i \in Slots |-> PickRarity(seed.rarity[i], w)])

Bucket(pool, r) == {c \in pool : RarityOf[c] = r}

(* The bucket a slot is picked from: when its own is empty, the first that  *)
(* is not.                                                                  *)
BucketOrFirst(pool, r) ==
  IF Bucket(pool, r) # {} THEN Bucket(pool, r)
  ELSE Bucket(pool, Least({q \in Rarities : Bucket(pool, q) # {}}))

Nth(cards, n) == CHOOSE c \in cards : Cardinality({d \in cards : d < c}) = n

PickCard(cards, u) == Nth(cards, (u * Cardinality(cards)) \div One)

ApplyRollToPool(slots, seed, pool) ==
  [i \in Slots |-> PickCard(BucketOrFirst(pool, slots[i]), seed.card[i])]

----------------------------------------------------------------------------
(* The browser's own copy of the roll, over the published record *)

BrowserPity(rolled, floor) ==
  LET lowest == CHOOSE i \in Slots :
        \A j \in Slots : rolled[i] < rolled[j] \/ (rolled[i] = rolled[j] /\ i <= j)
  IN  IF floor # NoPity /\ \A i \in Slots : rolled[i] < floor
      THEN [rolled EXCEPT ![lowest] = floor] ELSE rolled

ReproduceCards(seed, w, pool, floor) ==
  LET rolled == [i \in Slots |-> PickRarity(seed.rarity[i], w)]
      final == BrowserPity(rolled, floor)
      first == Least({RarityOf[c] : c \in pool})
      bucket(r) == IF \E c \in pool : RarityOf[c] = r THEN r ELSE first
      from(i) == {c \in pool : RarityOf[c] = bucket(final[i])}
  IN  [i \in Slots |-> Nth(from(i), (seed.card[i] * Cardinality(from(i))) \div One)]

----------------------------------------------------------------------------
(* What each card of a pack is booked at *)

(* a / b to the nearest unit, a half upwards. *)
RoundHalfUp(a, b) == (2 * a + b) \div (2 * b)

(* Mutant of LastShare: the last card is rounded like the others. *)
LastShareRounded(share, price) == share[CardsPerPack - 1]

(* The last card takes what the rounding of the others leaves. *)
LastShare(share, price) == price - SumFunctionOnSet(share, 1..(CardsPerPack - 1))

(* In proportion to the captured prices; equal parts if these are all zero. *)
AllocateSpend(captured, price) ==
  LET total == SumFunction(captured)
      share == [i \in Slots |-> IF total = 0 THEN RoundHalfUp(price, CardsPerPack)
                                ELSE RoundHalfUp(captured[i] * price, total)]
  IN  [share EXCEPT ![CardsPerPack] = LastShare(share, price)]
=============================================================================
