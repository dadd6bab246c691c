------------------------------- MODULE MCParts -------------------------------
(***************************************************************************)
(* Small instances of the parts that stand by themselves: the refresh of   *)
(* the prices, the alerts, the wash-trade queue, the rate limits and the   *)
(* row locks.  They share no variable, so one run checks them: a behaviour *)
(* is about one part, and the others stand still.                          *)
(***************************************************************************)
EXTENDS PriceRefresh, Alerts, WashFlags, RateLimit, RowLocks, TLC

CONSTANTS a1, a2, b, e1, e2, r1, r2, k1, k2

MCTiers == <<"STARTER", "PREMIUM">>
MCFigures == {[packs |-> 50, drift |-> 7], [packs |-> 51, drift |-> -4], [packs |-> 51, drift |-> 7]}

(* Two purchases of one user and another request of the same address.       *)
MCPath == (a1 :> <<"ip", "user">>) @@ (a2 :> <<"ip", "user">>) @@ (b :> <<"ip">>)
MCLimit == [ip |-> [window |-> 3, max |-> 1], user |-> [window |-> 3, max |-> 1]]

(* Three users.  User 1's card c1 is under auction, user 3 leads; user 2's  *)
(* card c2 is listed; c3 is in user 1's hands.  A drop, a pack of user 1.   *)
Row(state, seller, leader, c) == [state |-> state, seller |-> seller, leader |-> leader, card |-> c]

MCFirstItems ==
     "a1" :> Row("open", 1, 3, "c1") @@ "l2" :> Row("open", 2, Nobody, "c2")
  @@ "a3" :> Row("none", 1, Nobody, "c3") @@ "l1" :> Row("none", 1, Nobody, "c1")
  @@ "d" :> Row("open", Nobody, Nobody, "none") @@ "p" :> Row("open", 1, Nobody, "none")
  @@ "f1" :> Row("none", Nobody, Nobody, "none") @@ "f2" :> Row("none", Nobody, Nobody, "none")
  @@ "w" :> Row("none", Nobody, Nobody, "none")
MCFirstCards == "c1" :> "AUCTION" @@ "c2" :> "LISTED" @@ "c3" :> "HELD" @@ "none" :> "HELD"

(* Two refreshes that heard of one card each, a rebalance of two tiers.     *)
MCPlan ==
  [i \in DOMAIN MCFirstItems |->
     IF i = "f2" THEN <<2, 1>> ELSE IF i \in {"f1", "w"} THEN <<1, 2>> ELSE <<>>]

Ask(kind, user, i) == [kind |-> kind, user |-> user, item |-> i]

Asked ==
  <<Ask("bid", 2, "a1"), Ask("bid", 3, "a1"), Ask("settle", Nobody, "a1"),
    Ask("auction", 1, "a3"), Ask("settle", Nobody, "a3"), Ask("cancel", 1, "a3"),
    Ask("list", 1, "l1"), Ask("buy", 1, "l2"), Ask("buy", 3, "l2"), Ask("cancel", 2, "l2"),
    Ask("deposit", 1, "d"), Ask("purchase", 1, "d"), Ask("purchase", 2, "d"), Ask("reveal", 1, "p"),
    Ask("refresh", 1, "f1"), Ask("refresh", 2, "f2"), Ask("rebalance", 1, "w")>>
MCMenu == {Asked[i] : i \in DOMAIN Asked}

(* Slots differ in nothing but what they ask: one order of it is enough.    *)
InOrder ==
  \A r, s \in Slots : r < s =>
    \E i, j \in DOMAIN Asked : i <= j /\ Asked[i] = Asks(r) /\ Asked[j] = Asks(s)

MCSymmetry ==
  Permutations({a1, a2}) \cup Permutations({e1, e2})
    \cup Permutations({r1, r2}) \cup Permutations({k1, k2})

VARIABLE part

allVars == <<refreshVars, alertVars, washVars, limitVars, lockVars, part>>

(* Parts that stand still start in one of their initial states only.        *)
MCInit ==
  /\ part \in {"prices", "alerts", "wash", "limits", "locks"}
  /\ RefreshInit /\ AlertsInit /\ WashInit /\ LimitInit /\ LocksInit
  /\ IF part = "prices" THEN TRUE
     ELSE cardRow = [c \in Cards |-> [price |-> CHOOSE p \in Prices : TRUE,
                                      pricedAt |-> Never, staleSince |-> Never]]
  /\ IF part = "alerts" THEN TRUE ELSE realised = [t \in Tiers |-> CHOOSE row \in Figures : TRUE]
  /\ IF part = "locks" THEN InOrder ELSE \A r \in Slots : Asks(r) = Asked[1]
  /\ IF part = "wash" THEN TRUE ELSE \A s \in Sales : sale[s].pair = CHOOSE p \in Pairs : TRUE

MCNext ==
  \/ part = "prices" /\ RefreshNext /\ UNCHANGED <<alertVars, washVars, limitVars, lockVars, part>>
  \/ part = "alerts" /\ AlertsNext /\ UNCHANGED <<refreshVars, washVars, limitVars, lockVars, part>>
  \/ part = "wash" /\ WashNext /\ UNCHANGED <<refreshVars, alertVars, limitVars, lockVars, part>>
  \/ part = "limits" /\ LimitNext /\ UNCHANGED <<refreshVars, alertVars, washVars, lockVars, part>>
  \/ part = "locks" /\ LocksNext /\ UNCHANGED <<refreshVars, alertVars, washVars, limitVars, part>>

MCSpec == MCInit /\ [][MCNext]_allVars
=============================================================================
