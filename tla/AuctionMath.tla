---------------------------- MODULE AuctionMath ----------------------------
(***************************************************************************)
(* The arithmetic of the money paths: bid increments, the fat-finger cap,  *)
(* anti-snipe, the sealed window and the two platform fees.                *)
(*                                                                         *)
(* Amounts are integers in units of 1/10000 dollar, the scale of the       *)
(* Decimal(18,4) columns; instants are integers in milliseconds, the scale *)
(* of a JavaScript Date.                                                   *)
(***************************************************************************)
EXTENDS Integers

CONSTANTS
  AntiSnipeWindowSec,     (* ANTI_SNIPE_WINDOW_SEC, 30 in the code         *)
  AntiSnipeExtendSec,     (* ANTI_SNIPE_EXTEND_SEC, 30 in the code         *)
  AntiSnipeMaxExtensions, (* ANTI_SNIPE_MAX_EXTENSIONS, 20 in the code     *)
  MaxOverbidFactor,       (* MAX_OVERBID_FACTOR, 5 in the code             *)
  SealedPhaseSec          (* SEALED_PHASE_SEC, 60 in the code              *)

ASSUME MathAssumption ==
  /\ AntiSnipeWindowSec \in Nat
  /\ AntiSnipeExtendSec \in Nat
  /\ AntiSnipeMaxExtensions \in Nat
  /\ MaxOverbidFactor \in Nat \ {0}
  /\ SealedPhaseSec \in Nat
  /\ AntiSnipeExtendSec >= AntiSnipeWindowSec

Cent == 100                 (* one cent, in units of 1/10000 dollar *)
BidIncrementFloor == 1000   (* BID_INCREMENT_FLOOR, $0.10 *)
MsPerSec == 1000

(* pct percent of m, rounded up to the next whole cent: a percentage of a  *)
(* four-decimal amount has six decimals, so the division by 100 of the     *)
(* percentage and the one by Cent are one exact ceiling.                   *)
CeilCents(m, pct) == ((pct * m + 100 * Cent - 1) \div (100 * Cent)) * Cent

(* The least amount that may follow the high bid cur. *)
MinNextBid(cur) ==
  LET step == CeilCents(cur, 5)
  IN  cur + (IF step > BidIncrementFloor THEN step ELSE BidIncrementFloor)

IsExcessiveOverbid(cur, proposed) ==
  /\ cur # 0
  /\ proposed > cur * MaxOverbidFactor

(* Mutant of ExtendsClose: milliseconds compared with the window's seconds. *)
ExtendsCloseInMs(now, closesAt, ext) ==
  /\ closesAt - now <= AntiSnipeWindowSec
  /\ ext < AntiSnipeMaxExtensions

(* Whole seconds left, rounded down, are compared with the window. *)
ExtendsClose(now, closesAt, ext) ==
  /\ (closesAt - now) \div MsPerSec <= AntiSnipeWindowSec
  /\ ext < AntiSnipeMaxExtensions

(* Mutant of ApplyAntiSnipe: the extension counts from now. *)
ApplyAntiSnipeFromNow(now, closesAt, ext) ==
  IF ExtendsClose(now, closesAt, ext)
  THEN [closesAt |-> now + AntiSnipeExtendSec * MsPerSec, ext |-> ext + 1]
  ELSE [closesAt |-> closesAt, ext |-> ext]

ApplyAntiSnipe(now, closesAt, ext) ==
  IF ExtendsClose(now, closesAt, ext)
  THEN [closesAt |-> closesAt + AntiSnipeExtendSec * MsPerSec, ext |-> ext + 1]
  ELSE [closesAt |-> closesAt, ext |-> ext]

IsInSealedWindow(now, closesAt) ==
  /\ closesAt - now > 0
  /\ closesAt - now <= SealedPhaseSec * MsPerSec

AuctionFee(price) == CeilCents(price, 10)
TradeFee(price) == CeilCents(price, 5)

(* What the settlement and the listing purchase add to the seller's        *)
(* balance: the credit of sellerNet = price - fee, then the fee row.       *)
SellerCredit(price, fee) == (price - fee) - fee
=============================================================================
