--------------------------- MODULE DropSaleProofs ---------------------------
(***************************************************************************)
(* For any number of drops, packs, users and purchase requests: the stock  *)
(* column and the limit per user are exact because a purchase holds the    *)
(* lock of the drop row from its reads to its commit, and no balance goes  *)
(* negative because the value a purchase writes back is the one it checked.*)
(***************************************************************************)
EXTENDS DropSale, FiniteSetTheorems, TLAPS

PacksIn(d) == {p \in UserPacks : userPack[p].drop = d}

(* A drop row has one lock. *)
OneSalePerDrop ==
  \A s, t \in Sales : (sale[s] # NoSale /\ sale[s].drop = sale[t].drop) => s = t

(* A request in flight has a user and a drop, and its price is covered by   *)
(* the balance it has read; a pack has an owner when it has a drop.         *)
SalesMakeSense ==
  /\ \A s \in Sales : sale[s] # NoSale =>
       sale[s].user \in Users /\ sale[s].drop \in Drops
         /\ sale[s].balance >= Price[sale[s].drop]
  /\ \A p \in UserPacks : userPack[p].drop = NoDrop <=> userPack[p].owner = NoUser

SaleInv ==
  /\ DropTypeOK
  /\ OneSalePerDrop
  /\ SalesMakeSense
  /\ StockAccountedFor
  /\ LimitPerUser
  /\ LockedReadsStayFresh

----------------------------------------------------------------------------
(* The sold packs of a drop, before and after one more. *)

LEMMA PacksFinite ==
  ASSUME NEW u, NEW d
  PROVE  /\ IsFiniteSet(PacksIn(d)) /\ Cardinality(PacksIn(d)) \in Nat
         /\ IsFiniteSet(PacksOf(u, d)) /\ Cardinality(PacksOf(u, d)) \in Nat
<1>1. PacksIn(d) \subseteq UserPacks /\ PacksOf(u, d) \subseteq UserPacks
  BY DEF PacksIn, PacksOf
<1> QED
  BY <1>1, FS_Subset, FS_CardinalityType, DropAssumption

LEMMA PackSold ==
  ASSUME DropTypeOK, NEW s \in Sales, NEW p \in UserPacks, CommitPurchase(s, p),
         NEW d \in Drops, NEW u \in Users
  PROVE  /\ Cardinality(PacksIn(d)') = Cardinality(PacksIn(d)) + (IF d = sale[s].drop THEN 1 ELSE 0)
         /\ Cardinality(PacksOf(u, d)') = Cardinality(PacksOf(u, d))
              + (IF d = sale[s].drop /\ u = sale[s].user THEN 1 ELSE 0)
<1>1. userPack[p] = UnsoldPack /\ userPack \in [UserPacks -> UserPackRow]
  BY DEF CommitPurchase, DropTypeOK
<1>2. userPack' = [userPack EXCEPT ![p] = [owner |-> sale[s].user, drop |-> sale[s].drop, revealed |-> FALSE]]
  BY DEF CommitPurchase
<1>3. p \notin PacksIn(d) /\ p \notin PacksOf(u, d)
  BY <1>1, DropAssumption DEF PacksIn, PacksOf, UnsoldPack
<1>4. PacksIn(d)' = IF d = sale[s].drop THEN PacksIn(d) \cup {p} ELSE PacksIn(d)
  BY <1>1, <1>2, <1>3 DEF PacksIn
<1>5. PacksOf(u, d)' = IF d = sale[s].drop /\ u = sale[s].user
                       THEN PacksOf(u, d) \cup {p} ELSE PacksOf(u, d)
  BY <1>1, <1>2, <1>3 DEF PacksOf
<1>6. /\ Cardinality(PacksIn(d) \cup {p}) = Cardinality(PacksIn(d)) + 1
      /\ Cardinality(PacksOf(u, d) \cup {p}) = Cardinality(PacksOf(u, d)) + 1
  BY <1>3, PacksFinite, FS_AddElement
<1> QED
  BY <1>4, <1>5, <1>6, PacksFinite

(* A step that sells no pack leaves both counts alone. *)
LEMMA NoPackSold ==
  ASSUME \A p \in UserPacks : userPack'[p].drop = userPack[p].drop /\ userPack'[p].owner = userPack[p].owner,
         NEW d, NEW u
  PROVE  PacksIn(d)' = PacksIn(d) /\ PacksOf(u, d)' = PacksOf(u, d)
BY DEF PacksIn, PacksOf

----------------------------------------------------------------------------
(* Types *)

LEMMA DropTypeStep == ASSUME SaleInv, [SaleNext]_saleVars PROVE DropTypeOK'
<1> USE DEF SaleInv, DropTypeOK, AccountsTypeOK
<1>1. ASSUME NEW s \in Sales, NEW u \in Users, NEW d \in Drops, ReadForPurchase(s, u, d)
      PROVE  DropTypeOK'
  <2> DEFINE row == [user |-> u, drop |-> d, balance |-> balance[u], remaining |-> drop[d].remaining]
  <2>1. row \in SaleRow
    BY DEF SaleRow, DropRow
  <2>2. sale' = [sale EXCEPT ![s] = row]
    BY <1>1 DEF ReadForPurchase
  <2> HIDE DEF row
  <2> QED
    BY <1>1, <2>1, <2>2 DEF ReadForPurchase, accountVars
<1>2. ASSUME NEW s \in Sales, NEW p \in UserPacks, CommitPurchase(s, p)
      PROVE  DropTypeOK'
  <2> DEFINE x == sale[s]
             left == x.remaining - 1
             row == [drop[x.drop] EXCEPT !.remaining = left, !.status = StatusAfter(x.drop, left)]
             packRow == [owner |-> x.user, drop |-> x.drop, revealed |-> FALSE]
  <2>1. /\ x \in SaleRow /\ x # NoSale /\ x.drop \in Drops /\ x.user \in Users
        /\ left \in Nat
    BY <1>2 DEF CommitPurchase, SaleRow, SalesMakeSense, LockedReadsStayFresh
  <2>2. drop[x.drop] \in DropRow /\ StatusAfter(x.drop, left) \in {"SCHEDULED", "LIVE", "SOLD_OUT"}
    BY <2>1 DEF StatusAfter, DropRow
  <2>3. row \in DropRow
    BY <2>1, <2>2 DEF DropRow
  <2>4. packRow \in UserPackRow /\ NoSale \in SaleRow
    BY <2>1 DEF UserPackRow, SaleRow, NoSale
  <2>5. /\ drop' = [drop EXCEPT ![x.drop] = row]
        /\ userPack' = [userPack EXCEPT ![p] = packRow]
        /\ sale' = [sale EXCEPT ![s] = NoSale]
    BY <1>2, <2>1 DEF CommitPurchase, DropRow
  <2>6. BalanceAfter(x) \in Int /\ ledgerSum[x.user] - Price[x.drop] \in Int
    BY <2>1, DropAssumption DEF BalanceAfter, SaleRow
  <2>7. /\ balance' = [balance EXCEPT ![x.user] = BalanceAfter(x)]
        /\ ledgerSum' = [ledgerSum EXCEPT ![x.user] = ledgerSum[x.user] - Price[x.drop]]
        /\ held' = held /\ card' = card
    BY <1>2, <2>1, DropAssumption DEF CommitPurchase, Post
  <2> HIDE DEF x, row, packRow
  <2> QED
    BY <2>3, <2>4, <2>5, <2>6, <2>7
<1>3. ASSUME NEW s \in Sales, AbortPurchase(s)
      PROVE  DropTypeOK'
  <2>1. NoSale \in SaleRow
    BY DEF NoSale, SaleRow
  <2> QED
    BY <1>3, <2>1 DEF AbortPurchase, accountVars
<1>4. ASSUME NEW u \in Users, NEW p \in UserPacks, RevealPack(u, p)
      PROVE  DropTypeOK'
  <2>1. userPack' \in [UserPacks -> UserPackRow]
    BY <1>4 DEF RevealPack, UserPackRow
  <2> QED
    BY <1>4, <2>1 DEF RevealPack, accountVars
<1>5. ASSUME NEW d \in Drops, WindowMoves(d)
      PROVE  DropTypeOK'
  <2>1. drop' \in [Drops -> DropRow]
    BY <1>5 DEF WindowMoves, DropRow
  <2> QED
    BY <1>5, <2>1 DEF WindowMoves, accountVars
<1>6. ASSUME NEW d \in Drops,
             Restock(d, "before", "SCHEDULED") \/ Restock(d, "open", "LIVE")
      PROVE  DropTypeOK'
  <2> PICK window \in {"before", "open"}, status \in {"SCHEDULED", "LIVE"} : Restock(d, window, status)
    BY <1>6
  <2> DEFINE more == drop[d].supplied + Stock - drop[d].remaining
             row == [remaining |-> Stock, window |-> window, status |-> status, supplied |-> more]
  <2>1. drop[d].remaining + Cardinality(PacksIn(d)) = drop[d].supplied
    BY DEF StockAccountedFor, PacksIn
  <2>2. more \in Nat
    <3>1. Cardinality(PacksIn(d)) \in Nat
      BY PacksFinite
    <3>2. drop[d].remaining \in Nat /\ drop[d].supplied \in Nat /\ Stock \in Nat
      BY DropAssumption DEF DropRow
    <3> QED
      BY <2>1, <3>1, <3>2
  <2>3. row \in DropRow
    BY <2>2, DropAssumption DEF DropRow
  <2>4. drop' = [drop EXCEPT ![d] = row]
    BY DEF Restock
  <2> HIDE DEF row
  <2> QED
    BY <2>3, <2>4 DEF Restock, accountVars
<1>7. ASSUME DepositStep
      PROVE  DropTypeOK'
  BY <1>7, AccountsAssumption DEF DepositStep, AddFunds, Post, dropVars
<1>8. CASE UNCHANGED saleVars
  BY <1>8 DEF saleVars, accountVars, dropVars
<1> QED
  BY <1>1, <1>2, <1>3, <1>4, <1>5, <1>6, <1>7, <1>8 DEF SaleNext, DropNext

----------------------------------------------------------------------------
(* Locks *)

(* What a request holds while it is in flight is what it read when it took  *)
(* the lock, and no other request can take the same one.                    *)
LEMMA LockStep == ASSUME SaleInv, [SaleNext]_saleVars PROVE OneSalePerDrop' /\ SalesMakeSense'
<1> USE DEF SaleInv, OneSalePerDrop, SalesMakeSense
<1>1. ASSUME NEW s \in Sales, NEW u \in Users, NEW d \in Drops, ReadForPurchase(s, u, d)
      PROVE  OneSalePerDrop' /\ SalesMakeSense'
  <2> DEFINE row == [user |-> u, drop |-> d, balance |-> balance[u], remaining |-> drop[d].remaining]
  <2>1. /\ sale' = [sale EXCEPT ![s] = row] /\ userPack' = userPack
        /\ balance[u] >= Price[d]
        /\ \A t \in Sales : sale[t].drop # d
    BY <1>1 DEF ReadForPurchase, Affords, DropUnlocked
  <2>2. \A t \in Sales : sale'[t] = IF t = s THEN row ELSE sale[t]
    BY <2>1 DEF DropTypeOK
  <2>3. sale[s] = NoSale
    BY <1>1 DEF ReadForPurchase
  <2>4. row.user = u /\ row.drop = d /\ row.balance = balance[u]
    OBVIOUS
  <2> HIDE DEF row
  <2>5. OneSalePerDrop'
    BY <2>1, <2>2, <2>4
  <2>6. SalesMakeSense'
    BY <2>1, <2>2, <2>4
  <2> QED
    BY <2>5, <2>6
<1>2. ASSUME NEW s \in Sales, NEW p \in UserPacks, CommitPurchase(s, p)
      PROVE  OneSalePerDrop' /\ SalesMakeSense'
  <2> DEFINE packRow == [owner |-> sale[s].user, drop |-> sale[s].drop, revealed |-> FALSE]
  <2>1. /\ sale' = [sale EXCEPT ![s] = NoSale]
        /\ userPack' = [userPack EXCEPT ![p] = packRow]
        /\ sale[s].user \in Users /\ sale[s].drop \in Drops
    BY <1>2 DEF CommitPurchase
  <2>2. /\ \A t \in Sales : sale'[t] = IF t = s THEN NoSale ELSE sale[t]
        /\ \A q \in UserPacks : userPack'[q] = IF q = p THEN packRow ELSE userPack[q]
    BY <2>1 DEF DropTypeOK
  <2>3. packRow.drop # NoDrop /\ packRow.owner # NoUser
    BY <2>1, DropAssumption, AccountsAssumption
  <2> HIDE DEF packRow
  <2> QED
    BY <2>2, <2>3, DropAssumption DEF NoSale
<1>3. ASSUME NEW s \in Sales, AbortPurchase(s)
      PROVE  OneSalePerDrop' /\ SalesMakeSense'
  <2>1. userPack' = userPack /\ \A t \in Sales : sale'[t] = IF t = s THEN NoSale ELSE sale[t]
    BY <1>3 DEF AbortPurchase, DropTypeOK
  <2> QED
    BY <2>1, DropAssumption DEF NoSale
<1>4. ASSUME NEW u \in Users, NEW p \in UserPacks, RevealPack(u, p)
      PROVE  OneSalePerDrop' /\ SalesMakeSense'
  <2>1. sale' = sale /\ \A q \in UserPacks : userPack'[q].drop = userPack[q].drop /\ userPack'[q].owner = userPack[q].owner
    BY <1>4 DEF RevealPack, DropTypeOK, UserPackRow
  <2> QED
    BY <2>1
<1>5. CASE UNCHANGED <<sale, userPack>>
  BY <1>5
<1> QED
  BY <1>1, <1>2, <1>3, <1>4, <1>5
     DEF SaleNext, DropNext, WindowMoves, Restock, DepositStep, saleVars, dropVars

----------------------------------------------------------------------------
(* Stock and limit *)

LEMMA StockStep ==
  ASSUME SaleInv, [SaleNext]_saleVars
  PROVE  StockAccountedFor' /\ LimitPerUser' /\ LockedReadsStayFresh'
<1> USE DEF SaleInv
<1>1. ASSUME NEW s \in Sales, NEW u \in Users, NEW d \in Drops, ReadForPurchase(s, u, d)
      PROVE  StockAccountedFor' /\ LimitPerUser' /\ LockedReadsStayFresh'
  <2> DEFINE row == [user |-> u, drop |-> d, balance |-> balance[u], remaining |-> drop[d].remaining]
  <2>1. /\ drop' = drop /\ userPack' = userPack
        /\ \A t \in Sales : sale'[t] = IF t = s THEN row ELSE sale[t]
    BY <1>1 DEF ReadForPurchase, DropTypeOK
  <2>2. drop[d].remaining > 0 /\ Cardinality(PacksOf(u, d)) < MaxPacksPerUser
    BY <1>1 DEF ReadForPurchase, InStock, UnderLimit
  <2>3. StockAccountedFor' /\ LimitPerUser'
    BY <2>1 DEF StockAccountedFor, LimitPerUser, PacksOf
  <2>4. row.user = u /\ row.drop = d /\ row.remaining = drop[d].remaining
    OBVIOUS
  <2> HIDE DEF row
  <2>5. ASSUME NEW t \in Sales, sale'[t] # NoSale
        PROVE  /\ sale'[t].remaining = drop'[sale'[t].drop].remaining
               /\ sale'[t].remaining > 0
               /\ Cardinality(PacksOf(sale'[t].user, sale'[t].drop)) < MaxPacksPerUser
    BY <2>1, <2>2, <2>4, <2>5 DEF LockedReadsStayFresh
  <2>6. LockedReadsStayFresh'
    BY <2>1, <2>5 DEF LockedReadsStayFresh, PacksOf
  <2> QED
    BY <2>3, <2>6
<1>2. ASSUME NEW s \in Sales, NEW p \in UserPacks, CommitPurchase(s, p)
      PROVE  StockAccountedFor' /\ LimitPerUser' /\ LockedReadsStayFresh'
  <2> DEFINE x == sale[s]
  <2>1. /\ x # NoSale /\ x.drop \in Drops /\ x.user \in Users
        /\ x.remaining = drop[x.drop].remaining /\ x.remaining > 0
        /\ Cardinality(PacksOf(x.user, x.drop)) < MaxPacksPerUser
    BY <1>2 DEF CommitPurchase, SalesMakeSense, LockedReadsStayFresh
  <2>2. ASSUME NEW d \in Drops
        PROVE  /\ drop'[d].remaining = drop[d].remaining - (IF d = x.drop THEN 1 ELSE 0)
               /\ drop'[d].supplied = drop[d].supplied
               /\ drop'[d].status = IF d = x.drop /\ drop'[d].remaining = 0
                                    THEN "SOLD_OUT" ELSE drop[d].status
               /\ drop[d].remaining \in Nat /\ drop[d].supplied \in Nat
    BY <1>2, <2>1 DEF CommitPurchase, DropTypeOK, DropRow, StatusAfter
  <2>3. StockAccountedFor'
    <3> SUFFICES ASSUME NEW d \in Drops
                 PROVE  /\ drop'[d].remaining + Cardinality(PacksIn(d)') = drop'[d].supplied
                        /\ drop'[d].status = "SOLD_OUT" <=> drop'[d].remaining = 0
      BY DEF StockAccountedFor, PacksIn
    <3>1. Cardinality(PacksIn(d)') = Cardinality(PacksIn(d)) + (IF d = x.drop THEN 1 ELSE 0)
      BY <1>2, <2>1, PackSold
    <3>2. /\ drop[d].remaining + Cardinality(PacksIn(d)) = drop[d].supplied
          /\ drop[d].status = "SOLD_OUT" <=> drop[d].remaining = 0
      BY DEF StockAccountedFor, PacksIn
    <3>3. Cardinality(PacksIn(d)) \in Nat
      BY PacksFinite
    <3> HIDE DEF x
    <3> QED
      BY <2>1, <2>2, <3>1, <3>2, <3>3
  <2>4. LimitPerUser'
    <3> SUFFICES ASSUME NEW u \in Users, NEW d \in Drops
                 PROVE  Cardinality(PacksOf(u, d)') <= MaxPacksPerUser
      BY DEF LimitPerUser, PacksOf
    <3>1. Cardinality(PacksOf(u, d)') = Cardinality(PacksOf(u, d))
            + (IF d = x.drop /\ u = x.user THEN 1 ELSE 0)
      BY <1>2, <2>1, PackSold
    <3>2. Cardinality(PacksOf(u, d)) \in Nat /\ Cardinality(PacksOf(u, d)) <= MaxPacksPerUser
      BY PacksFinite DEF LimitPerUser
    <3> HIDE DEF x
    <3> QED
      BY <2>1, <3>1, <3>2, DropAssumption
  <2>5. LockedReadsStayFresh'
    <3> SUFFICES ASSUME NEW t \in Sales, sale'[t] # NoSale,
                        NEW u, u = sale'[t].user, NEW d, d = sale'[t].drop
                 PROVE  /\ sale'[t].remaining = drop'[d].remaining
                        /\ sale'[t].remaining > 0
                        /\ Cardinality(PacksOf(u, d)') < MaxPacksPerUser
      BY DEF LockedReadsStayFresh, PacksOf
    <3>1. t # s /\ sale'[t] = sale[t]
      BY <1>2 DEF CommitPurchase, DropTypeOK
    <3>2. d # x.drop /\ d \in Drops /\ u \in Users
      BY <2>1, <3>1 DEF OneSalePerDrop, SalesMakeSense
    <3>3. drop'[d].remaining = drop[d].remaining
      BY <2>2, <3>2 DEF DropTypeOK, DropRow
    <3>4. /\ sale[t].remaining = drop[d].remaining /\ sale[t].remaining > 0
          /\ Cardinality(PacksOf(u, d)) < MaxPacksPerUser
      BY <3>1 DEF LockedReadsStayFresh
    <3>5. \A q \in UserPacks : userPack'[q] = IF q = p THEN [owner |-> x.user, drop |-> x.drop, revealed |-> FALSE]
                                       ELSE userPack[q]
      BY <1>2 DEF CommitPurchase, DropTypeOK
    <3>6. PacksOf(u, d)' = PacksOf(u, d)
      BY <1>2, <3>1, <3>2, <3>5, DropAssumption DEF PacksOf, CommitPurchase, UnsoldPack
    <3> QED
      BY <3>1, <3>3, <3>4, <3>6
  <2> QED
    BY <2>3, <2>4, <2>5
<1>3. ASSUME \A d \in Drops : /\ drop'[d].remaining = drop[d].remaining
                              /\ drop'[d].supplied = drop[d].supplied
                              /\ drop'[d].status = drop[d].status,
             \A p \in UserPacks : userPack'[p].drop = userPack[p].drop /\ userPack'[p].owner = userPack[p].owner,
             \A t \in Sales : sale'[t] = sale[t] \/ sale'[t] = NoSale
      PROVE  StockAccountedFor' /\ LimitPerUser' /\ LockedReadsStayFresh'
  <2>1. \A u, d : PacksIn(d)' = PacksIn(d) /\ PacksOf(u, d)' = PacksOf(u, d)
    BY <1>3 DEF PacksIn, PacksOf
  <2>2. StockAccountedFor'
    BY <1>3, <2>1 DEF StockAccountedFor, PacksIn
  <2>3. LimitPerUser'
    BY <2>1 DEF LimitPerUser
  <2>4. LockedReadsStayFresh'
    <3> SUFFICES ASSUME NEW t \in Sales, sale'[t] # NoSale,
                        NEW u, u = sale'[t].user, NEW d, d = sale'[t].drop
                 PROVE  /\ sale'[t].remaining = drop'[d].remaining
                        /\ sale'[t].remaining > 0
                        /\ Cardinality(PacksOf(u, d)') < MaxPacksPerUser
      BY DEF LockedReadsStayFresh, PacksOf
    <3>1. sale'[t] = sale[t] /\ d \in Drops
      BY <1>3 DEF SalesMakeSense
    <3>2. /\ sale[t].remaining = drop[d].remaining /\ sale[t].remaining > 0
          /\ Cardinality(PacksOf(u, d)) < MaxPacksPerUser
      BY <3>1 DEF LockedReadsStayFresh
    <3>3. PacksOf(u, d)' = PacksOf(u, d)
      BY <1>3 DEF PacksOf
    <3> QED
      BY <1>3, <3>1, <3>2, <3>3
  <2> QED
    BY <2>2, <2>3, <2>4
<1>4. ASSUME NEW s \in Sales, AbortPurchase(s)
      PROVE  StockAccountedFor' /\ LimitPerUser' /\ LockedReadsStayFresh'
  <2>1. drop' = drop /\ userPack' = userPack /\ \A t \in Sales : sale'[t] = sale[t] \/ sale'[t] = NoSale
    BY <1>4 DEF AbortPurchase, DropTypeOK
  <2> QED
    BY <1>3, <2>1
<1>5. ASSUME NEW u \in Users, NEW p \in UserPacks, RevealPack(u, p)
      PROVE  StockAccountedFor' /\ LimitPerUser' /\ LockedReadsStayFresh'
  <2>1. /\ drop' = drop /\ sale' = sale
        /\ \A q \in UserPacks : userPack'[q].drop = userPack[q].drop /\ userPack'[q].owner = userPack[q].owner
    BY <1>5 DEF RevealPack, DropTypeOK, UserPackRow
  <2> QED
    BY <1>3, <2>1
<1>6. ASSUME NEW d \in Drops, WindowMoves(d)
      PROVE  StockAccountedFor' /\ LimitPerUser' /\ LockedReadsStayFresh'
  <2>1. /\ userPack' = userPack /\ sale' = sale
        /\ \A e \in Drops : /\ drop'[e].remaining = drop[e].remaining
                            /\ drop'[e].supplied = drop[e].supplied
                            /\ drop'[e].status = drop[e].status
    BY <1>6 DEF WindowMoves, DropTypeOK, DropRow
  <2> QED
    BY <1>3, <2>1
<1>7. ASSUME NEW d \in Drops,
             Restock(d, "before", "SCHEDULED") \/ Restock(d, "open", "LIVE")
      PROVE  StockAccountedFor' /\ LimitPerUser' /\ LockedReadsStayFresh'
  <2> PICK window \in {"before", "open"}, status \in {"SCHEDULED", "LIVE"} : Restock(d, window, status)
    BY <1>7
  <2> DEFINE more == drop[d].supplied + Stock - drop[d].remaining
             row == [remaining |-> Stock, window |-> window, status |-> status, supplied |-> more]
  <2>1. /\ userPack' = userPack /\ sale' = sale
        /\ \A e \in Drops : drop'[e] = IF e = d THEN row ELSE drop[e]
        /\ \A t \in Sales : sale[t].drop # d
    BY DEF Restock, DropUnlocked, DropTypeOK
  <2>2. /\ row.remaining = Stock /\ row.supplied = more /\ row.status # "SOLD_OUT"
    OBVIOUS
  <2> HIDE DEF row
  <2>3. StockAccountedFor'
    <3> SUFFICES ASSUME NEW e \in Drops
                 PROVE  /\ drop'[e].remaining + Cardinality(PacksIn(e)) = drop'[e].supplied
                        /\ drop'[e].status = "SOLD_OUT" <=> drop'[e].remaining = 0
      BY <2>1 DEF StockAccountedFor, PacksIn
    <3>1. /\ drop[e].remaining + Cardinality(PacksIn(e)) = drop[e].supplied
          /\ drop[e].status = "SOLD_OUT" <=> drop[e].remaining = 0
      BY DEF StockAccountedFor, PacksIn
    <3>2. Cardinality(PacksIn(e)) \in Nat
      BY PacksFinite
    <3>3. drop[e].remaining \in Nat /\ drop[e].supplied \in Nat
      BY DEF DropTypeOK, DropRow
    <3> QED
      BY <2>1, <2>2, <3>1, <3>2, <3>3, DropAssumption
  <2>4. LimitPerUser' /\ LockedReadsStayFresh'
    BY <2>1 DEF LimitPerUser, LockedReadsStayFresh, PacksOf, SalesMakeSense
  <2> QED
    BY <2>3, <2>4
<1>8. CASE UNCHANGED dropVars
  BY <1>3, <1>8 DEF dropVars
<1> QED
  BY <1>1, <1>2, <1>4, <1>5, <1>6, <1>7, <1>8 DEF SaleNext, DropNext, DepositStep, saleVars

----------------------------------------------------------------------------
(* Theorems *)

LEMMA SaleInductive == SaleSpec => []SaleInv
<1>1. SaleInit => SaleInv
  <2> SUFFICES ASSUME SaleInit PROVE SaleInv
    OBVIOUS
  <2> USE DEF SaleInit, DropInit
  <2>1. DropTypeOK
    BY AccountsAssumption, DropAssumption
       DEF AccountsInit, DropTypeOK, AccountsTypeOK, DropRow, UserPackRow, SaleRow, UnsoldPack, NoSale,
           CardRow, CardStatus
  <2>2. OneSalePerDrop /\ SalesMakeSense /\ LockedReadsStayFresh
    BY DEF OneSalePerDrop, SalesMakeSense, LockedReadsStayFresh, UnsoldPack
  <2>3. \A u \in Users, d \in Drops : PacksIn(d) = {} /\ PacksOf(u, d) = {}
    BY DropAssumption DEF PacksIn, PacksOf, UnsoldPack
  <2>4. Cardinality({}) = 0
    BY FS_EmptySet
  <2>5. \A d \in Drops : PacksIn(d) = {}
    BY DropAssumption DEF PacksIn, UnsoldPack
  <2>6. StockAccountedFor
    BY <2>4, <2>5, DropAssumption DEF StockAccountedFor, PacksIn
  <2>7. LimitPerUser
    BY <2>3, <2>4, DropAssumption DEF LimitPerUser
  <2> QED
    BY <2>1, <2>2, <2>6, <2>7 DEF SaleInv
<1>2. SaleInv /\ [SaleNext]_saleVars => SaleInv'
  BY DropTypeStep, LockStep, StockStep DEF SaleInv
<1> QED
  BY <1>1, <1>2, PTL DEF SaleSpec

(* Whatever purchases, restocks, timeouts and deposits interleave, every    *)
(* row of a drop, a pack and a purchase keeps its type: in particular the   *)
(* stock is never negative.                                                 *)
THEOREM DropTypeCorrect == SaleSpec => []DropTypeOK
<1>1. SaleInv => DropTypeOK
  BY DEF SaleInv
<1> QED
  BY <1>1, SaleInductive, PTL

(* No drop ever sells a pack it does not have, or loses one it has.         *)
THEOREM StockIsExact == SaleSpec => []StockAccountedFor
<1>1. SaleInv => StockAccountedFor
  BY DEF SaleInv
<1> QED
  BY <1>1, SaleInductive, PTL

(* The limit per user holds across any number of requests in flight.        *)
THEOREM LimitHolds == SaleSpec => []LimitPerUser
<1>1. SaleInv => LimitPerUser
  BY DEF SaleInv
<1> QED
  BY <1>1, SaleInductive, PTL

(* What a purchase has read under the drop lock is still true when it       *)
(* writes, in whatever order requests, scripts and deposits run.            *)
THEOREM ReadsStayFresh == SaleSpec => []LockedReadsStayFresh
<1>1. SaleInv => LockedReadsStayFresh
  BY DEF SaleInv
<1> QED
  BY <1>1, SaleInductive, PTL

(* A purchase that writes back a stale balance can lose somebody's deposit, *)
(* but cannot make a balance negative: it writes what it checked.           *)
THEOREM PurchasesAreCovered == SaleSpec => []PurchasesNeverOverdraw
<1>1. SaleInit => PurchasesNeverOverdraw
  BY AccountsAssumption DEF SaleInit, AccountsInit, PurchasesNeverOverdraw
<1>2. SaleInv /\ PurchasesNeverOverdraw /\ [SaleNext]_saleVars => PurchasesNeverOverdraw'
  <2> SUFFICES ASSUME SaleInv, PurchasesNeverOverdraw, [SaleNext]_saleVars
               PROVE  PurchasesNeverOverdraw'
    OBVIOUS
  <2>0. balance \in [Users -> Int]
    BY DEF SaleInv, DropTypeOK, AccountsTypeOK
  <2>1. ASSUME NEW s \in Sales, NEW p \in UserPacks, CommitPurchase(s, p)
        PROVE  PurchasesNeverOverdraw'
    <3>1. /\ balance' = [balance EXCEPT ![sale[s].user] = BalanceAfter(sale[s])]
          /\ sale[s].balance >= Price[sale[s].drop] /\ sale[s].drop \in Drops
          /\ sale[s].balance \in Int
      BY <2>1 DEF CommitPurchase, SaleInv, SalesMakeSense, DropTypeOK, SaleRow
    <3>2. BalanceAfter(sale[s]) >= 0
      BY <3>1, DropAssumption DEF BalanceAfter
    <3> QED
      BY <2>0, <3>1, <3>2 DEF PurchasesNeverOverdraw
  <2>2. CASE DepositStep
    BY <2>0, <2>2, AccountsAssumption DEF DepositStep, AddFunds, Post, PurchasesNeverOverdraw
  <2>3. CASE UNCHANGED balance
    BY <2>3 DEF PurchasesNeverOverdraw
  <2> QED
    BY <2>1, <2>2, <2>3
       DEF SaleNext, DropNext, ReadForPurchase, AbortPurchase, RevealPack, WindowMoves, Restock,
           saleVars, accountVars
<1> QED
  BY <1>1, <1>2, SaleInductive, PTL DEF SaleSpec
=============================================================================
