-------------------------- MODULE MCHouseAndPages --------------------------
(***************************************************************************)
(* Small instances of AuctionHouse, DropFeed, MarketPages and Forms.  The  *)
(* auctions on the server, the pages of the drops, those of the market and *)
(* the forms have no variable in common, so one run checks them: a         *)
(* behaviour is about one side, and the other sides stand still.           *)
(***************************************************************************)
EXTENDS MCAuctionHouse, DropFeed, MarketPages, Forms

CONSTANTS x1, x2

(* Two equal rarities around the rarest card; the same card twice.          *)
MCPack == <<[card |-> x1, rarity |-> 0], [card |-> x1, rarity |-> 4], [card |-> x1, rarity |-> 0]>>

VARIABLE side

allVars == <<houseVars, dropFeedVars, pagesVars, formVars, side>>

(* Sides that stand still start in one of their initial states only.        *)
MCInit ==
  /\ AuctionInit /\ DropFeedInit /\ PagesInit /\ FormsInit
  /\ side \in {"auctions", "drops", "market", "forms"}
  /\ (side # "market" => kind = "market") /\ (side # "forms" => form = "buy")
  /\ (side # "auctions" => \A c \in Cards : card[c].owner = CHOOSE u \in Users : TRUE)

MCNext ==
  \/ side = "auctions" /\ AuctionNext /\ UNCHANGED <<dropFeedVars, pagesVars, formVars, side>>
  \/ side = "drops" /\ DropFeedNext /\ UNCHANGED <<houseVars, pagesVars, formVars, side>>
  \/ side = "market" /\ PagesNext /\ UNCHANGED <<houseVars, dropFeedVars, formVars, side>>
  \/ side = "forms" /\ FormsNext /\ UNCHANGED <<houseVars, dropFeedVars, pagesVars, side>>

MCSpec == MCInit /\ [][MCNext]_allVars
  /\ (side = "auctions" => AuctionFairness)
  /\ (side = "drops" => DropFeedFairness)
=============================================================================
