----------------------------- MODULE MCPackOdds -----------------------------
(* Packs of three cards of a tier that promises a RARE, from a pool without *)
(* an UNCOMMON; uniforms and weights in quarters, prices in units.          *)
EXTENDS PackOdds, TLC

MCPool == {1, 2, 3, 4}
MCRarityOf == 1 :> 0 @@ 2 :> 4 @@ 3 :> 0 @@ 4 :> 2
MCCaptured == 1 :> 1 @@ 2 :> 7 @@ 3 :> 0 @@ 4 :> 0

Vector(c, u, r, e, l) == 0 :> c @@ 1 :> u @@ 2 :> r @@ 3 :> e @@ 4 :> l

(* Compiled in, then what the solver finds: without COMMON, and adding up   *)
(* to less than One.                                                        *)
MCStaticWeights == Vector(2, 1, 1, 0, 0)
MCSolved == 1 :> Vector(0, 2, 2, 0, 0) @@ 2 :> Vector(1, 1, 0, 0, 1) @@ 3 :> Vector(3, 0, 0, 0, 1)

(* All low, which calls for pity; and the quarters in no order. *)
MCSeeds ==
  {[rarity |-> <<0, 0, 0>>, card |-> <<0, 3, 2>>],
   [rarity |-> <<3, 1, 2>>, card |-> <<1, 0, 3>>]}

OddsSymmetry == Permutations(Rebalances)
=============================================================================
