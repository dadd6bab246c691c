------------------------------- MODULE MCPacks -------------------------------
(***************************************************************************)
(* Small instances of DropSale and PackOdds: a row of user_packs as it is  *)
(* sold out of a drop, and as it is drawn from weights.  The one is about  *)
(* stock and money, the other about versions and rolls, and they have no   *)
(* column in common, so one run checks them: a behaviour is about one      *)
(* side, and the other stands still.  Sales and rebalances, the requests   *)
(* in flight, have the same names, so that one symmetry does for both.     *)
(***************************************************************************)
EXTENDS MCDropSale, MCPackOdds

VARIABLE side

allVars == <<accountVars, dropVars, vars, side>>

MCInit == SaleInit /\ OddsInit /\ side \in {"drops", "odds"}

MCNext ==
  \/ side = "drops" /\ SaleNext /\ UNCHANGED <<vars, side>>
  \/ side = "odds" /\ OddsNext /\ UNCHANGED <<accountVars, dropVars, side>>

MCSpec == MCInit /\ [][MCNext]_allVars
=============================================================================
