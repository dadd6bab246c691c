------------------------------ MODULE DropFeed ------------------------------
(***************************************************************************)
(* The stock of one drop as browsers show it.  A purchase broadcasts what  *)
(* is left after its commit, each request on its own; the detail page      *)
(* takes the number as it comes and never refetches.  The list of drops    *)
(* refetches every thirty seconds.  The restock scripts tell nobody.       *)
(*                                                                         *)
(* DropSale has the purchase itself; here it is one step on the stock.     *)
(***************************************************************************)
EXTENDS Integers

CONSTANTS
  Stock,         (* packs in a fresh drop, and after a restock              *)
  DetailPages,   (* open on /drops/:id                                      *)
  ListPages,     (* open on /drops                                          *)
  MaxPurchases,  (* bound                                                   *)
  Restocks       (* bound: how often the scripts are run                    *)

ASSUME DropFeedAssumption ==
  /\ Stock \in Nat \ {0} /\ MaxPurchases \in Nat /\ Restocks \in Nat
  /\ DetailPages \cap ListPages = {}

VARIABLES
  left,          (* drops.remaining                                         *)
  sold,          (* history: purchases so far                               *)
  restocks,      (* history: restocks so far                                *)
  outbox,        (* inventory_update broadcasts past their commit           *)
  shown,         (* the number a page shows, or NotLoaded                   *)
  joined,        (* detail pages in the room of the drop                    *)
  answers        (* fetches of a list page in flight                        *)

saleVars == <<left, sold, restocks, outbox>>
dropFeedVars == <<saleVars, shown, joined, answers>>

Pages == DetailPages \cup ListPages
NotLoaded == -1
Update == [no : 1..MaxPurchases, left : 0..Stock]
Asked == -1                    \* a fetch the server has not read for yet

DropFeedInit ==
  /\ left = Stock /\ sold = 0 /\ restocks = 0
  /\ outbox = {} /\ joined = {}
  /\ shown = [p \in Pages |-> NotLoaded]
  /\ answers = [p \in ListPages |-> {}]

----------------------------------------------------------------------------
InStock == left > 0

Purchase ==
  /\ InStock
  /\ sold < MaxPurchases         \* bound
  /\ left' = left - 1
  /\ sold' = sold + 1
  /\ outbox' = outbox \cup {[no |-> sold + 1, left |-> left - 1]}
  /\ UNCHANGED <<restocks, shown, joined, answers>>

Restock ==
  /\ restocks < Restocks         \* bound
  /\ left' = Stock
  /\ restocks' = restocks + 1
  /\ UNCHANGED <<sold, outbox, shown, joined, answers>>

(* The server renders the page with the stock of that moment; the browser   *)
(* joins the room later.                                                    *)
OpenPage(p) ==
  /\ shown[p] = NotLoaded
  /\ shown' = [shown EXCEPT ![p] = left]
  /\ UNCHANGED <<saleVars, joined, answers>>

Join(p) ==
  /\ shown[p] # NotLoaded
  /\ joined' = joined \cup {p}
  /\ UNCHANGED <<saleVars, shown, answers>>

Disconnect(p) ==
  /\ joined' = joined \ {p}
  /\ UNCHANGED <<saleVars, shown, answers>>

(* Mutant of Applied: every update takes one off. *)
AppliedAsTick(p, m) == IF shown[p] > 0 THEN shown[p] - 1 ELSE 0

(* What page p shows after update m.                                        *)
Applied(p, m) == m.left

(* The relay passes m on to whoever is in the room, in any order of the     *)
(* updates, or m is lost.                                                   *)
Deliver(m, arrives) ==
  /\ m \in outbox
  /\ outbox' = outbox \ {m}
  /\ shown' = [p \in Pages |-> IF arrives /\ p \in joined THEN Applied(p, m) ELSE shown[p]]
  /\ UNCHANGED <<left, sold, restocks, joined, answers>>

(* Mutant of Polls: a list that shows nothing left stops asking. *)
PollsWhileStocked(p) == shown[p] > 0

Polls(p) == shown[p] # NotLoaded

(* An answer is applied whichever fetch it belongs to; an error is ignored. *)
Poll(p) ==
  /\ Polls(p)
  /\ answers' = [answers EXCEPT ![p] = @ \cup {Asked}]
  /\ UNCHANGED <<saleVars, shown, joined>>

ServerReads(p) ==
  /\ Asked \in answers[p]
  /\ answers' = [answers EXCEPT ![p] = (@ \ {Asked}) \cup {left}]
  /\ UNCHANGED <<saleVars, shown, joined>>

Arrives(p, n, ok) ==
  /\ n \in answers[p] \ {Asked}
  /\ answers' = [answers EXCEPT ![p] = @ \ {n}]
  /\ shown' = IF ok THEN [shown EXCEPT ![p] = n] ELSE shown
  /\ UNCHANGED <<saleVars, joined>>

----------------------------------------------------------------------------
DropFeedNext ==
  \/ Purchase \/ Restock
  \/ \E p \in Pages : OpenPage(p)
  \/ \E p \in DetailPages : Join(p) \/ Disconnect(p)
  \/ \E m \in outbox, arrives \in BOOLEAN : Deliver(m, arrives)
  \/ \E p \in ListPages :
       \/ Poll(p) \/ ServerReads(p)
       \/ \E n \in answers[p], ok \in BOOLEAN : Arrives(p, n, ok)

DropFeedSpec == DropFeedInit /\ [][DropFeedNext]_dropFeedVars

(* Timers go off, the server answers, and what it says of the stock is not  *)
(* lost every time.                                                         *)
DropFeedFairness ==
  \A p \in ListPages :
    /\ WF_dropFeedVars(Poll(p))
    /\ WF_dropFeedVars(ServerReads(p))
    /\ \A n \in 0..Stock : SF_dropFeedVars(Arrives(p, n, TRUE))

----------------------------------------------------------------------------
(* Properties *)

DropFeedTypeOK ==
  /\ left \in 0..Stock /\ sold \in 0..MaxPurchases /\ restocks \in 0..Restocks
  /\ outbox \subseteq Update
  /\ shown \in [Pages -> -1..Stock]
  /\ joined \subseteq DetailPages
  /\ answers \in [ListPages -> SUBSET (-1..Stock)]

(* Until the scripts run, no page shows fewer packs than there are, however *)
(* updates and answers are lost, delayed or reordered: a page that says     *)
(* sold out is right.                                                       *)
NeverShowsTooFew ==
  restocks = 0 => \A p \in Pages : shown[p] # NotLoaded => shown[p] >= left

(* Once the stock stays at n, every open list comes to show n.              *)
ListsShowTheStock ==
  \A p \in ListPages, n \in 0..Stock :
    (<>[](left = n /\ shown[p] # NotLoaded)) => (<>[](shown[p] = n))
=============================================================================
