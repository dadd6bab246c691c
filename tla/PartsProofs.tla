----------------------------- MODULE PartsProofs -----------------------------
(***************************************************************************)
(* Proofs about the parts that stand by themselves, PriceRefresh, Alerts,  *)
(* WashFlags, RateLimit and RowLocks, for every value of their constants.  *)
(***************************************************************************)
EXTENDS PriceRefresh, Alerts, WashFlags, RateLimit, RowLocks, FiniteSums,
        SequenceTheorems, FiniteSetTheorems, TLAPS

----------------------------------------------------------------------------
(* The refresh of the prices.  As long as no two refreshes have been at     *)
(* work at a time, the tables agree and the change list is what changes,    *)
(* for any cards, prices and number of requests.                            *)

(* Nothing is dated in the future.                                          *)
DatesPassed ==
  /\ now >= MinInterval
  /\ \A s \in snapshots : s.at <= now
  /\ \A c \in Cards : cardRow[c].pricedAt <= now
  /\ \A r \in Requests : refresh[r].at <= now

OneAtWork == ~overlapped => \A r, q \in Working : r = q

(* What a refresh has read still stands when it commits.                    *)
ReadsHold ==
  ~overlapped => \A r \in Requests : refresh[r].stage \in {"fetching", "fetched"} =>
    \A c \in Cards : refresh[r].read[c] = cardRow[c].price

(* What a refresh is about to write is dated after all there is.            *)
DatedLater ==
  ~overlapped => \A r \in Requests : refresh[r].stage = "fetched" =>
    /\ \A s \in snapshots : s.at < refresh[r].at
    /\ \A c \in Cards : cardRow[c].pricedAt < refresh[r].at

RefreshInv ==
  /\ RefreshTypeOK /\ DatesPassed /\ OneAtWork /\ ReadsHold /\ DatedLater /\ TablesAgree

----------------------------------------------------------------------------
(* Rows *)

LEMMA IdleIsARow ==
  ASSUME NEW stage \in Stages
  PROVE  /\ Idle(stage) \in RefreshRow
         /\ Idle(stage).stage = stage /\ Idle(stage).at = 0
BY DEF Idle, RefreshRow, Missing, Never

LEMMA MovedIsARow ==
  ASSUME NEW row \in RefreshRow, NEW stage \in Stages
  PROVE  /\ [row EXCEPT !.stage = stage] \in RefreshRow
         /\ [row EXCEPT !.stage = stage].stage = stage
         /\ [row EXCEPT !.stage = stage].at = row.at
         /\ [row EXCEPT !.stage = stage].read = row.read
BY DEF RefreshRow

(* A step that puts a row.                                                  *)
LEMMA PutIsTyped ==
  ASSUME refresh \in [Requests -> RefreshRow], NEW r \in Requests,
         NEW row \in RefreshRow, Put(r, row)
  PROVE  /\ refresh' \in [Requests -> RefreshRow]
         /\ refresh'[r] = row
         /\ \A q \in Requests \ {r} : refresh'[q] = refresh[q]
BY DEF Put

----------------------------------------------------------------------------
(* Steps that leave prices, snapshots and dates of refreshes alone *)

(* A refresh goes from one stage to another without touching the tables.    *)
LEMMA MoveKeepsInv ==
  ASSUME RefreshInv, NEW r \in Requests, NEW row \in RefreshRow, Put(r, row),
         UNCHANGED priceVars, now' \in Nat, now' >= now, row.at <= now',
         lastRefreshAt' \in Nat, runningRefresh' \in Requests \cup {NoRequest},
         overlapped' \in BOOLEAN, ~overlapped' => ~overlapped,
         row.stage \in {"started", "fetching", "fetched", "committed", "failed"} =>
           (~overlapped' => Working \subseteq {r}),
         row.stage \in {"fetching", "fetched"} =>
           (~overlapped' => \A c \in Cards : row.read[c] = cardRow[c].price),
         row.stage = "fetched" => row.at > now \/ row = refresh[r]
  PROVE  RefreshInv'
<1>0. /\ refresh \in [Requests -> RefreshRow] /\ refresh' \in [Requests -> RefreshRow]
      /\ refresh'[r] = row
      /\ \A q \in Requests \ {r} : refresh'[q] = refresh[q]
  BY PutIsTyped DEF RefreshInv, RefreshTypeOK
<1>1. RefreshTypeOK'
  BY <1>0 DEF RefreshInv, RefreshTypeOK, priceVars
<1>2. DatesPassed'
  <2>1. \A q \in Requests : refresh'[q].at <= now'
    <3>. SUFFICES ASSUME NEW q \in Requests PROVE refresh'[q].at <= now'
      OBVIOUS
    <3>1. CASE q = r  BY <3>1, <1>0
    <3>2. CASE q # r
      <4>1. refresh[q].at \in Nat /\ refresh[q].at <= now /\ now \in Nat
        BY <1>0 DEF RefreshInv, DatesPassed, RefreshTypeOK, RefreshRow
      <4>. QED BY <4>1, <3>2, <1>0
    <3>. QED BY <3>1, <3>2
  <2>2. \A s \in snapshots : s.at \in Nat /\ s.at <= now
    BY DEF RefreshInv, RefreshTypeOK, DatesPassed, Snapshot
  <2>3. \A c \in Cards : cardRow[c].pricedAt \in Nat /\ cardRow[c].pricedAt <= now
    BY DEF RefreshInv, RefreshTypeOK, DatesPassed, CardRow
  <2>4. now \in Nat /\ MinInterval \in Nat /\ now >= MinInterval
    BY RefreshAssumption DEF RefreshInv, RefreshTypeOK, DatesPassed
  <2>. QED BY <2>1, <2>2, <2>3, <2>4 DEF DatesPassed, priceVars
<1>3. OneAtWork'
  <2>. SUFFICES ASSUME ~overlapped', NEW p \in Working', NEW q \in Working'
                PROVE  p = q
    BY DEF OneAtWork
  <2>1. \A x \in Requests \ {r} : x \in Working' => x \in Working
    BY <1>0 DEF Working
  <2>2. r \in Working' => Working \subseteq {r}
    BY <1>0 DEF Working
  <2>3. p \in Requests /\ q \in Requests
    BY DEF Working
  <2>. QED BY <2>1, <2>2, <2>3 DEF RefreshInv, OneAtWork
<1>4. ReadsHold'
  BY <1>0 DEF RefreshInv, ReadsHold, priceVars
<1>5. DatedLater'
  <2>. SUFFICES ASSUME ~overlapped', NEW q \in Requests, refresh'[q].stage = "fetched"
                PROVE  /\ \A s \in snapshots : s.at < refresh'[q].at
                       /\ \A c \in Cards : cardRow[c].pricedAt < refresh'[q].at
    BY DEF DatedLater, priceVars
  <2>1. CASE refresh'[q] = refresh[q]
    BY <2>1 DEF RefreshInv, DatedLater
  <2>2. CASE refresh'[q] # refresh[q]
    <3>1. q = r /\ row.at > now
      BY <2>2, <1>0
    <3>2. row.at \in Nat /\ now \in Nat
      BY DEF RefreshRow, RefreshInv, RefreshTypeOK
    <3>3. \A s \in snapshots : s.at \in Nat /\ s.at <= now
      BY DEF RefreshInv, RefreshTypeOK, DatesPassed, Snapshot
    <3>4. \A c \in Cards : cardRow[c].pricedAt \in Nat /\ cardRow[c].pricedAt <= now
      BY DEF RefreshInv, RefreshTypeOK, DatesPassed, CardRow
    <3>. QED BY <3>1, <3>2, <3>3, <3>4, <1>0
  <2>. QED BY <2>1, <2>2
<1>6. TablesAgree'
  BY DEF RefreshInv, TablesAgree, LatestPrices, priceVars
<1>. QED BY <1>1, <1>2, <1>3, <1>4, <1>5, <1>6 DEF RefreshInv

(* Who is at work, works alone.                                             *)
LEMMA WorksAlone ==
  ASSUME RefreshInv, NEW r \in Working, ~overlapped
  PROVE  Working \subseteq {r}
BY DEF RefreshInv, OneAtWork

----------------------------------------------------------------------------
(* The steps *)

LEMMA RefreshInitHolds == RefreshInit => RefreshInv
<1>. SUFFICES ASSUME RefreshInit PROVE RefreshInv
  OBVIOUS
<1>1. \A r \in Requests : /\ refresh[r] \in RefreshRow
                          /\ refresh[r].stage = "none" /\ refresh[r].at = 0
  <2>. "none" \in Stages
    BY DEF Stages
  <2>. QED BY IdleIsARow DEF RefreshInit
<1>2. \A c \in Cards :
        cardRow[c] \in CardRow /\ cardRow[c].pricedAt = 0 /\ cardRow[c].staleSince = 0
  BY RefreshAssumption DEF RefreshInit, CardRow, Never
<1>3. RefreshTypeOK
  BY <1>1, <1>2, RefreshAssumption DEF RefreshInit, RefreshTypeOK
<1>4. DatesPassed
  BY <1>1, <1>2, RefreshAssumption DEF RefreshInit, DatesPassed
<1>5. OneAtWork
  BY <1>1 DEF OneAtWork, Working
<1>6. ReadsHold /\ DatedLater
  BY <1>1 DEF ReadsHold, DatedLater
<1>7. TablesAgree
  BY <1>2 DEF RefreshInit, TablesAgree, LatestPrices, Never
<1>. QED BY <1>3, <1>4, <1>5, <1>6, <1>7 DEF RefreshInv

LEMMA TickKeepsInv == RefreshInv /\ Tick => RefreshInv'
<1>. SUFFICES ASSUME RefreshInv, Tick PROVE RefreshInv'
  OBVIOUS
<1>1. now \in Nat /\ now' = now + 1
  BY DEF RefreshInv, RefreshTypeOK, Tick
<1>2. RefreshTypeOK'
  BY <1>1 DEF RefreshInv, RefreshTypeOK, Tick, priceVars, guardVars
<1>3. DatesPassed'
  <2>1. \A r \in Requests : refresh[r].at \in Nat /\ refresh[r].at <= now
    BY DEF RefreshInv, RefreshTypeOK, RefreshRow, DatesPassed
  <2>2. \A s \in snapshots : s.at \in Nat /\ s.at <= now
    BY DEF RefreshInv, RefreshTypeOK, DatesPassed, Snapshot
  <2>3. \A c \in Cards : cardRow[c].pricedAt \in Nat /\ cardRow[c].pricedAt <= now
    BY DEF RefreshInv, RefreshTypeOK, DatesPassed, CardRow
  <2>4. MinInterval \in Nat /\ now >= MinInterval
    BY RefreshAssumption DEF RefreshInv, DatesPassed
  <2>. QED BY <1>1, <2>1, <2>2, <2>3, <2>4 DEF Tick, DatesPassed, priceVars
<1>4. (OneAtWork /\ ReadsHold /\ DatedLater /\ TablesAgree)'
  BY DEF RefreshInv, Tick, OneAtWork, Working, ReadsHold, DatedLater, TablesAgree,
         LatestPrices, priceVars, guardVars
<1>. QED BY <1>2, <1>3, <1>4 DEF RefreshInv

LEMMA CommitKeepsInv ==
  ASSUME RefreshInv, NEW r \in Requests, CommitPrices(r)
  PROVE  /\ RefreshInv'
         /\ ~overlapped => Changes(r) = {c \in Cards : cardRow'[c].price # cardRow[c].price}
<1> DEFINE at == refresh[r].at
           answer == refresh[r].answer
           done == [refresh[r] EXCEPT !.stage = "committed"]
<1>1. /\ refresh[r] \in RefreshRow /\ refresh[r].stage = "fetched"
      /\ at \in Nat /\ at <= now /\ now \in Nat
      /\ answer \in [Cards -> Prices \cup {Missing}]
  BY DEF RefreshInv, RefreshTypeOK, DatesPassed, CommitPrices, RefreshRow
<1>2. /\ done \in RefreshRow /\ done.stage = "committed" /\ done.at = at
      /\ refresh' \in [Requests -> RefreshRow] /\ refresh'[r] = done
      /\ \A q \in Requests \ {r} : refresh'[q] = refresh[q]
  <2>1. "committed" \in Stages
    BY DEF Stages
  <2>2. done \in RefreshRow /\ done.stage = "committed" /\ done.at = at
    BY <1>1, <2>1, MovedIsARow
  <2>3. Put(r, done)
    BY DEF CommitPrices, MoveTo
  <2>4. refresh \in [Requests -> RefreshRow]
    BY DEF RefreshInv, RefreshTypeOK
  <2>. QED BY <2>2, <2>3, <2>4, PutIsTyped
<1>3. \A c \in Fresh(r) : /\ answer[c] \in Prices /\ cardRow'[c] \in CardRow
                          /\ cardRow'[c].price = answer[c]
                          /\ cardRow'[c].pricedAt = at /\ cardRow'[c].staleSince = Never
  BY <1>1 DEF CommitPrices, Fresh, Repriced, CardRow, Never
<1>4. \A c \in Cards \ Fresh(r) :
        /\ cardRow'[c] \in CardRow
        /\ cardRow'[c].price = cardRow[c].price /\ cardRow'[c].pricedAt = cardRow[c].pricedAt
        /\ cardRow'[c].staleSince = at
  BY <1>1 DEF CommitPrices, CardRow, RefreshInv, RefreshTypeOK
<1>5. Fresh(r) \subseteq Cards
  BY DEF Fresh
<1>6. snapshots' = snapshots \cup {[card |-> c, price |-> answer[c], at |-> at] : c \in Fresh(r)}
  BY DEF CommitPrices
<1>7. UNCHANGED <<now, runningRefresh, lastRefreshAt, overlapped>>
  BY DEF CommitPrices, guardVars
<1> HIDE DEF at, answer, done
<1>8. RefreshTypeOK'
  <2>1. cardRow' \in [Cards -> CardRow]
    <3>1. cardRow' = [c \in Cards |-> cardRow'[c]]
      BY DEF CommitPrices
    <3>2. \A c \in Cards : cardRow'[c] \in CardRow
      BY <1>3, <1>4
    <3>. QED BY <3>1, <3>2
  <2>2. snapshots' \subseteq Snapshot
    BY <1>1, <1>3, <1>5, <1>6 DEF Snapshot, RefreshInv, RefreshTypeOK
  <2>. QED BY <1>2, <1>7, <2>1, <2>2 DEF RefreshInv, RefreshTypeOK
<1>9. DatesPassed'
  <2>1. \A q \in Requests : refresh'[q].at <= now'
    BY <1>1, <1>2, <1>7 DEF RefreshInv, DatesPassed
  <2>2. \A s \in snapshots' : s.at <= now'
    BY <1>1, <1>6, <1>7 DEF RefreshInv, DatesPassed
  <2>3. \A c \in Cards : cardRow'[c].pricedAt <= now'
    BY <1>1, <1>3, <1>4, <1>7 DEF RefreshInv, DatesPassed
  <2>. QED BY <1>7, <2>1, <2>2, <2>3 DEF RefreshInv, DatesPassed
<1>10. r \in Working
  BY <1>1 DEF Working
<1>11. OneAtWork'
  <2>1. Working' = Working
    BY <1>1, <1>2 DEF Working
  <2>. QED BY <1>7, <2>1 DEF RefreshInv, OneAtWork
<1>12. ~overlapped => \A q \in Requests : refresh'[q].stage \notin {"fetching", "fetched"}
  <2>. SUFFICES ASSUME ~overlapped, NEW q \in Requests
                PROVE  refresh'[q].stage \notin {"fetching", "fetched"}
    OBVIOUS
  <2>1. CASE q = r  BY <2>1, <1>2
  <2>2. CASE q # r
    <3>1. q \notin Working
      BY <1>10, <2>2, WorksAlone
    <3>. QED BY <3>1, <2>2, <1>2 DEF Working
  <2>. QED BY <2>1, <2>2
<1>13. ReadsHold' /\ DatedLater'
  BY <1>7, <1>12 DEF ReadsHold, DatedLater
<1>14. TablesAgree'
  <2>. SUFFICES ASSUME ~overlapped, NEW c \in Cards
                PROVE  /\ LatestPrices(c)' = {cardRow'[c].price}
                       /\ cardRow'[c].staleSince # Never =>
                            cardRow'[c].pricedAt < cardRow'[c].staleSince
    BY <1>7 DEF TablesAgree
  <2> DEFINE own == {s \in snapshots : s.card = c}
             new == [card |-> c, price |-> answer[c], at |-> at]
  <2>1. /\ \A s \in snapshots : s.at \in Nat /\ s.at < at
        /\ cardRow[c].pricedAt < at
    BY <1>1 DEF RefreshInv, DatedLater, RefreshTypeOK, Snapshot, at
  <2>2. CASE c \in Fresh(r)
    <3>1. {s \in snapshots' : s.card = c} = own \cup {new}
      BY <1>6, <2>2
    <3>2. {t \in own \cup {new} : \A u \in own \cup {new} : u.at <= t.at} = {new}
      <4>1. new.at = at /\ at \in Nat /\ \A u \in own : u.at \in Nat /\ u.at < at
        BY <1>1, <2>1
      <4>2. \A u \in own \cup {new} : u.at <= new.at
        BY <4>1
      <4>3. \A t \in own : ~(new.at <= t.at)
        BY <4>1
      <4>. HIDE DEF own, new
      <4>. QED BY <4>2, <4>3
    <3>3. LatestPrices(c)' = {answer[c]}
      <4>1. LatestPrices(c)' = {s.price : s \in {t \in own \cup {new} :
                                   \A u \in own \cup {new} : u.at <= t.at}}
        BY <3>1 DEF LatestPrices
      <4>2. new.price = answer[c]
        OBVIOUS
      <4>. HIDE DEF own, new
      <4>3. LatestPrices(c)' = {s.price : s \in {new}}
        BY <4>1, <3>2
      <4>. QED BY <4>2, <4>3
    <3>. QED BY <3>3, <2>2, <1>3
  <2>3. CASE c \notin Fresh(r)
    <3>1. {s \in snapshots' : s.card = c} = own
      BY <1>6, <2>3
    <3>2. LatestPrices(c)' = LatestPrices(c)
      BY <3>1, <2>3, <1>4 DEF LatestPrices
    <3>. QED BY <3>2, <2>1, <2>3, <1>4 DEF RefreshInv, TablesAgree
  <2>. QED BY <2>2, <2>3
<1>15. ASSUME ~overlapped
       PROVE  Changes(r) = {c \in Cards : cardRow'[c].price # cardRow[c].price}
  <2>1. \A c \in Cards : refresh[r].read[c] = cardRow[c].price
    BY <1>1, <1>15 DEF RefreshInv, ReadsHold
  <2>. QED BY <1>3, <1>4, <1>5, <2>1 DEF Changes, answer
<1>. QED BY <1>8, <1>9, <1>11, <1>13, <1>14, <1>15 DEF RefreshInv

(* Every other step of a request moves it alone.                            *)
LEMMA RequestKeepsInv ==
  ASSUME RefreshInv, NEW r \in Requests, RefreshStep(r)
  PROVE  RefreshInv'
<1>1. /\ refresh[r] \in RefreshRow /\ refresh[r].at \in Nat /\ refresh[r].at <= now
      /\ now \in Nat /\ lastRefreshAt \in Nat /\ overlapped \in BOOLEAN
      /\ runningRefresh \in Requests \cup {NoRequest}
      /\ cardRow \in [Cards -> CardRow] /\ MinInterval \in Nat
  BY RefreshAssumption DEF RefreshInv, RefreshTypeOK, DatesPassed, RefreshRow
<1>2. Stages = {"none", "refused", "body", "started", "fetching", "fetched",
                "committed", "failed", "emit", "done"}
  BY DEF Stages
<1>3. CASE Arrive(r)
  <2> DEFINE stage == IF runningRefresh # NoRequest \/ TooSoon THEN "refused" ELSE "body"
             row == [refresh[r] EXCEPT !.stage = stage]
  <2>1. stage \in {"refused", "body"} /\ stage \in Stages
    BY <1>2
  <2>2. Put(r, row)
    BY <1>3 DEF Arrive, MoveTo
  <2>3. row \in RefreshRow /\ row.stage = stage /\ row.at = refresh[r].at
    BY <1>1, <2>1, MovedIsARow
  <2>. HIDE DEF stage, row
  <2>. QED BY <1>1, <1>3, <2>1, <2>2, <2>3, MoveKeepsInv DEF Arrive, guardVars
<1>4. CASE StartRefresh(r)
  <2> DEFINE row == [refresh[r] EXCEPT !.stage = "started"]
  <2>1. Put(r, row)
    BY <1>4 DEF StartRefresh, MoveTo
  <2>2. row \in RefreshRow /\ row.stage = "started" /\ row.at = refresh[r].at
    BY <1>1, <1>2, MovedIsARow
  <2>3. ~overlapped' => ~overlapped /\ Working = {}
    BY <1>4 DEF StartRefresh
  <2>4. /\ overlapped' \in BOOLEAN /\ runningRefresh' = r
        /\ UNCHANGED <<now, priceVars, lastRefreshAt>>
    BY <1>4 DEF StartRefresh
  <2>. HIDE DEF row
  <2>. QED BY <1>1, <2>1, <2>2, <2>3, <2>4, MoveKeepsInv
<1>5. CASE Finish(r)
  <2> DEFINE row == IF refresh[r].stage = "committed"
                      THEN [refresh[r] EXCEPT !.stage = "emit"] ELSE Idle("done")
  <2>1. Put(r, row)
    BY <1>5 DEF Finish, MoveTo
  <2>2. row \in RefreshRow /\ row.stage \in {"emit", "done"} /\ row.at <= now
    <3>1. "emit" \in Stages /\ "done" \in Stages
      BY <1>2
    <3>2. Idle("done") \in RefreshRow /\ Idle("done").stage = "done" /\ Idle("done").at = 0
      BY <3>1, IdleIsARow
    <3>3. /\ [refresh[r] EXCEPT !.stage = "emit"] \in RefreshRow
          /\ [refresh[r] EXCEPT !.stage = "emit"].stage = "emit"
          /\ [refresh[r] EXCEPT !.stage = "emit"].at = refresh[r].at
      BY <1>1, <3>1, MovedIsARow
    <3>. QED BY <1>1, <3>2, <3>3
  <2>3. UNCHANGED <<now, priceVars, overlapped>> /\ lastRefreshAt' = now
        /\ runningRefresh' = NoRequest
    BY <1>5 DEF Finish
  <2>. HIDE DEF row
  <2>. QED BY <1>1, <2>1, <2>2, <2>3, MoveKeepsInv
<1>6. CASE Broadcast(r)
  <2>1. Idle("done") \in RefreshRow /\ Idle("done").stage = "done" /\ Idle("done").at <= now
    BY <1>1, <1>2, IdleIsARow
  <2>2. Put(r, Idle("done")) /\ UNCHANGED <<now, priceVars, guardVars>>
    BY <1>6 DEF Broadcast
  <2>. QED BY <1>1, <2>1, <2>2, MoveKeepsInv DEF guardVars
<1>7. CASE ReadCards(r)
  <2> DEFINE read == [c \in Cards |-> cardRow[c].price]
             row == [refresh[r] EXCEPT !.stage = "fetching", !.read = read]
  <2>1. Put(r, row) /\ UNCHANGED <<now, priceVars, guardVars>> /\ r \in Working
    BY <1>7 DEF ReadCards, Working
  <2>2. read \in [Cards -> Prices \cup {Missing}]
    BY <1>1 DEF CardRow
  <2>3. \A c \in Cards : read[c] = cardRow[c].price
    OBVIOUS
  <2>. HIDE DEF read
  <2>4. row \in RefreshRow /\ row.stage = "fetching" /\ row.at = refresh[r].at /\ row.read = read
    BY <1>1, <1>2, <2>2 DEF RefreshRow
  <2>5. ~overlapped => Working \subseteq {r}
    BY <2>1, WorksAlone
  <2>. HIDE DEF row
  <2>. QED BY <1>1, <2>1, <2>3, <2>4, <2>5, MoveKeepsInv DEF guardVars
<1>8. CASE FetchPrices(r)
  <2>1. PICK answer \in [Cards -> Prices \cup {Missing}] :
          Put(r, [refresh[r] EXCEPT !.stage = "fetched", !.answer = answer, !.at = now'])
    BY <1>8 DEF FetchPrices
  <2> DEFINE row == [refresh[r] EXCEPT !.stage = "fetched", !.answer = answer, !.at = now']
  <2>2. /\ now' = now + 1 /\ UNCHANGED <<priceVars, guardVars>>
        /\ refresh[r].stage = "fetching" /\ r \in Working
    BY <1>8 DEF FetchPrices, Working
  <2>3. now' \in Nat /\ now' > now
    BY <1>1, <2>2
  <2>4. row \in RefreshRow /\ row.stage = "fetched" /\ row.at = now' /\ row.read = refresh[r].read
    BY <1>1, <1>2, <2>3 DEF RefreshRow
  <2>5. ~overlapped => /\ Working \subseteq {r}
                       /\ \A c \in Cards : refresh[r].read[c] = cardRow[c].price
    BY <2>2, WorksAlone DEF RefreshInv, ReadsHold
  <2>6. Put(r, row)
    BY <2>1
  <2>. HIDE DEF row
  <2>. QED BY <1>1, <2>2, <2>3, <2>4, <2>5, <2>6, MoveKeepsInv DEF guardVars
<1>9. CASE CommitPrices(r)
  BY <1>9, CommitKeepsInv
<1>10. CASE RefreshFails(r)
  <2> DEFINE row == [refresh[r] EXCEPT !.stage = "failed"]
  <2>1. Put(r, row) /\ UNCHANGED <<now, priceVars, guardVars>> /\ r \in Working
    BY <1>10 DEF RefreshFails, MoveTo, Working
  <2>2. row \in RefreshRow /\ row.stage = "failed" /\ row.at = refresh[r].at
    BY <1>1, <1>2, MovedIsARow
  <2>3. ~overlapped => Working \subseteq {r}
    BY <2>1, WorksAlone
  <2>. HIDE DEF row
  <2>. QED BY <1>1, <2>1, <2>2, <2>3, MoveKeepsInv DEF guardVars
<1>. QED BY <1>3, <1>4, <1>5, <1>6, <1>7, <1>8, <1>9, <1>10 DEF RefreshStep

LEMMA StutterKeepsRefreshInv == RefreshInv /\ UNCHANGED refreshVars => RefreshInv'
BY DEF RefreshInv, RefreshTypeOK, DatesPassed, OneAtWork, Working, ReadsHold, DatedLater,
       TablesAgree, LatestPrices, refreshVars, priceVars, guardVars

LEMMA RefreshInvHolds == RefreshSpec => []RefreshInv
<1>1. RefreshInv /\ [RefreshNext]_refreshVars => RefreshInv'
  BY TickKeepsInv, RequestKeepsInv, StutterKeepsRefreshInv DEF RefreshNext
<1>. QED BY <1>1, RefreshInitHolds, PTL DEF RefreshSpec

----------------------------------------------------------------------------
(* Theorems *)

(* Rows of cards and snapshots hold prices, whatever upstream answers.      *)
THEOREM RefreshTypeCorrect == RefreshSpec => []RefreshTypeOK
<1>1. RefreshInv => RefreshTypeOK
  BY DEF RefreshInv
<1>. QED BY <1>1, RefreshInvHolds, PTL

(* As long as refreshes have not overlapped, base_price is the price of the *)
(* latest snapshot, and stale marks are later than the prices they are on.  *)
THEOREM BothTablesAgree == RefreshSpec => []TablesAgree
<1>1. RefreshInv => TablesAgree
  BY DEF RefreshInv
<1>. QED BY <1>1, RefreshInvHolds, PTL

(* The flag is up while one refresh is at work.                             *)
FlagIsUp == ~overlapped /\ Working # {} => runningRefresh # NoRequest

LEMMA FlagStaysUp ==
  ASSUME RefreshInv, FlagIsUp, NEW r \in Requests, RefreshStep(r)
  PROVE  FlagIsUp'
<1>1. refresh \in [Requests -> RefreshRow] /\ refresh[r] \in RefreshRow
  BY DEF RefreshInv, RefreshTypeOK
<1>2. \A row : Put(r, row) => /\ refresh'[r] = row
                              /\ \A q \in Requests \ {r} : refresh'[q] = refresh[q]
  BY <1>1 DEF Put
<1>3. \A stage : MoveTo(r, stage) => /\ refresh'[r].stage = stage
                                     /\ \A q \in Requests \ {r} : refresh'[q] = refresh[q]
  BY <1>1, <1>2 DEF MoveTo, RefreshRow
<1>4. \A stage : Idle(stage).stage = stage
  BY DEF Idle
<1>5. CASE StartRefresh(r)
  BY <1>5, RefreshAssumption DEF StartRefresh, FlagIsUp
<1>6. CASE Finish(r)
  <2>. SUFFICES ASSUME ~overlapped PROVE Working' = {}
    BY <1>6 DEF Finish, FlagIsUp
  <2>1. Working \subseteq {r}
    BY <1>6, WorksAlone DEF Finish, Working
  <2>2. /\ refresh'[r].stage \in {"emit", "done"}
        /\ \A q \in Requests \ {r} : refresh'[q] = refresh[q]
    BY <1>6, <1>2, <1>3, <1>4 DEF Finish
  <2>. QED BY <2>1, <2>2 DEF Working
<1>7. CASE Arrive(r) \/ Broadcast(r)
  <2>1. /\ refresh'[r].stage \in {"refused", "body", "done"}
        /\ \A q \in Requests \ {r} : refresh'[q] = refresh[q]
    BY <1>7, <1>2, <1>3, <1>4 DEF Arrive, Broadcast
  <2>2. Working' \subseteq Working
    BY <2>1 DEF Working
  <2>. QED BY <1>7, <2>2 DEF Arrive, Broadcast, guardVars, FlagIsUp
<1>8. CASE ReadCards(r) \/ FetchPrices(r) \/ CommitPrices(r) \/ RefreshFails(r)
  <2>1. r \in Working
    <3>1. CASE ReadCards(r) \/ FetchPrices(r)
      <4>1. refresh[r].stage = "started" \/ refresh[r].stage = "fetching"
        BY <3>1, Zenon DEF ReadCards, FetchPrices
      <4>. QED BY <4>1 DEF Working
    <3>2. CASE CommitPrices(r) \/ RefreshFails(r)
      BY <3>2 DEF CommitPrices, RefreshFails, Working
    <3>. QED BY <1>8, <3>1, <3>2
  <2>2. runningRefresh' = runningRefresh /\ overlapped' = overlapped
    <3>1. CASE ReadCards(r)  BY <3>1 DEF ReadCards, guardVars
    <3>2. CASE FetchPrices(r)  BY <3>2 DEF FetchPrices, guardVars
    <3>3. CASE CommitPrices(r)  BY <3>3 DEF CommitPrices, guardVars
    <3>4. CASE RefreshFails(r)  BY <3>4 DEF RefreshFails, guardVars
    <3>. QED BY <1>8, <3>1, <3>2, <3>3, <3>4
  <2>. QED BY <2>1, <2>2 DEF FlagIsUp
<1>. QED BY <1>5, <1>6, <1>7, <1>8 DEF RefreshStep

(* A call that arrives while one refresh is at work is told 409.            *)
THEOREM OneRefreshTellsTheNext == RefreshSpec => LaterCallsAreRefused
<1> DEFINE Refused == \A r \in Requests :
      refresh[r].stage = "none" /\ Working # {} /\ ~overlapped =>
        refresh'[r].stage \in {"none", "refused"}
<1>1. RefreshInit => FlagIsUp
  BY DEF RefreshInit, FlagIsUp, Working, Idle
<1>2. RefreshInv /\ FlagIsUp /\ [RefreshNext]_refreshVars => FlagIsUp'
  <2>1. RefreshInv /\ FlagIsUp /\ Tick => FlagIsUp'
    BY DEF Tick, FlagIsUp, Working, guardVars
  <2>2. FlagIsUp /\ UNCHANGED refreshVars => FlagIsUp'
    BY DEF refreshVars, guardVars, FlagIsUp, Working
  <2>. QED BY <2>1, <2>2, FlagStaysUp DEF RefreshNext
<1>3. RefreshInv /\ FlagIsUp /\ [RefreshNext]_refreshVars => [Refused]_refreshVars
  <2>. SUFFICES ASSUME RefreshInv, FlagIsUp, RefreshNext, NEW r \in Requests,
                       refresh[r].stage = "none", Working # {}, ~overlapped
                PROVE  refresh'[r].stage \in {"none", "refused"}
    OBVIOUS
  <2>1. refresh \in [Requests -> RefreshRow] /\ refresh[r] \in RefreshRow
    BY DEF RefreshInv, RefreshTypeOK
  <2>2. CASE Tick
    BY <2>2 DEF Tick
  <2>3. ASSUME NEW q \in Requests, q # r, RefreshStep(q) PROVE refresh'[r] = refresh[r]
    <3>1. \A row : Put(q, row) => refresh'[r] = refresh[r]
      BY <2>1, <2>3 DEF Put
    <3>2. \A stage : MoveTo(q, stage) => refresh'[r] = refresh[r]
      BY <3>1 DEF MoveTo
    <3>3. CASE Arrive(q) \/ StartRefresh(q) \/ Finish(q) \/ Broadcast(q)
      BY <3>1, <3>2, <3>3 DEF Arrive, StartRefresh, Finish, Broadcast
    <3>4. CASE ReadCards(q)  BY <3>1, <3>4 DEF ReadCards
    <3>5. CASE FetchPrices(q)  BY <3>1, <3>5 DEF FetchPrices
    <3>6. CASE CommitPrices(q) \/ RefreshFails(q)
      BY <3>2, <3>6 DEF CommitPrices, RefreshFails
    <3>. QED BY <2>3, <3>3, <3>4, <3>5, <3>6 DEF RefreshStep
  <2>4. CASE RefreshStep(r)
    <3>1. Arrive(r)
      BY <2>4 DEF RefreshStep, StartRefresh, Finish, Broadcast, ReadCards, FetchPrices,
                  CommitPrices, RefreshFails
    <3>2. MoveTo(r, "refused")
      BY <3>1 DEF Arrive, FlagIsUp
    <3>. QED BY <2>1, <3>2 DEF MoveTo, Put, RefreshRow
  <2>. QED BY <2>2, <2>3, <2>4 DEF RefreshNext
<1>. QED BY <1>1, <1>2, <1>3, RefreshInvHolds, PTL DEF RefreshSpec, LaterCallsAreRefused

(* The change list that is broadcast after a commit is what it changed.     *)
THEOREM ChangeListIsExact == RefreshSpec => ChangesAreWhatChanged
<1> DEFINE Exact == \A r \in Requests :
      refresh[r].stage = "fetched" /\ refresh'[r].stage = "committed" /\ ~overlapped =>
        Changes(r) = {c \in Cards : cardRow'[c].price # cardRow[c].price}
<1>1. RefreshInv /\ [RefreshNext]_refreshVars => [Exact]_refreshVars
  <2>. SUFFICES ASSUME RefreshInv, RefreshNext, NEW r \in Requests,
                       refresh[r].stage = "fetched", refresh'[r].stage = "committed", ~overlapped
                PROVE  Changes(r) = {c \in Cards : cardRow'[c].price # cardRow[c].price}
    OBVIOUS
  <2>1. CommitPrices(r)
    <3>1. ~Tick
      BY DEF Tick
    <3>2. PICK q \in Requests : RefreshStep(q)
      BY <3>1 DEF RefreshNext
    <3>3. PICK row : Put(q, row)
      BY <3>2 DEF RefreshStep, Arrive, StartRefresh, Finish, Broadcast, ReadCards,
                  FetchPrices, CommitPrices, RefreshFails, MoveTo
    <3>4. q = r
      BY <3>3 DEF Put, RefreshInv, RefreshTypeOK
    <3>5. refresh[r] \in RefreshRow /\ refresh \in [Requests -> RefreshRow]
      BY DEF RefreshInv, RefreshTypeOK
    <3>6. ~RefreshFails(r)
      BY <3>5 DEF RefreshFails, MoveTo, Put, RefreshRow
    <3>. QED BY <3>2, <3>4, <3>6 DEF RefreshStep, Arrive, StartRefresh, Finish, Broadcast,
                                     ReadCards, FetchPrices
  <2>. QED BY <2>1, CommitKeepsInv
<1>. QED BY <1>1, RefreshInvHolds, PTL DEF RefreshSpec, ChangesAreWhatChanged, Exact

----------------------------------------------------------------------------
(* The alerts.  Doubles come of evaluations at work at the same time        *)
(* only, and no drift an evaluation has seen stays silent, for any tiers,   *)
(* figures and number of evaluations.                                       *)

(* Evaluations at work at the same time have met.                           *)
WorkersMet == \A e, f \in AtWork : e = f \/ {e, f} \in met

(* What has become open since an evaluation found nothing open is of one it *)
(* has met.                                                                 *)
OpenSinceLookUp ==
  \A e \in Evaluations : evaluation[e].stage = "writing" =>
    \A y \in OpenFor(TierOf(e)) : y[1] = e \/ {e, y[1]} \in met

(* An evaluation has written nothing for the tiers it has still to look at. *)
AheadIsBlank ==
  \A e \in Evaluations : evaluation[e].stage # "done" =>
    \A i \in evaluation[e].tier..Len(TierOrder) : alert[<<e, TierOrder[i]>>].state = "none"

(* What was acknowledged when one began stays so, and is none of its own.   *)
AckedStays ==
  /\ ackedBefore \in [Evaluations -> SUBSET AlertIds]
  /\ \A e \in Evaluations : ackedBefore[e] \subseteq {x \in Acked : x[1] # e}

AlertsInv ==
  /\ AlertsTypeOK /\ WorkersMet /\ OpenSinceLookUp /\ AheadIsBlank /\ AckedStays
  /\ \A e \in Evaluations : evaluation[e].stage = "none" => evaluation[e].tier = 1
  /\ DoublesOverlapped

EvalRow == [stage : {"none", "looking", "writing", "done"}, tier : 1..Len(TierOrder),
            saw : [Tiers -> Figures]]

----------------------------------------------------------------------------
(* Tiers and rows *)

LEMMA TiersInOrder ==
  /\ Len(TierOrder) \in Nat /\ 1 \in 1..Len(TierOrder)
  /\ DOMAIN TierOrder = 1..Len(TierOrder)
  /\ \A i \in 1..Len(TierOrder) : TierOrder[i] \in Tiers
  /\ \A t \in Tiers : \E i \in 1..Len(TierOrder) : t = TierOrder[i]
<1>1. TierOrder \in Seq(ToSet(TierOrder)) /\ TierOrder # <<>>
  BY TiersAssumption
<1> DEFINE S == ToSet(TierOrder)
<1> HIDE DEF S
<1>2. Len(TierOrder) \in Nat /\ DOMAIN TierOrder = 1..Len(TierOrder) /\ Len(TierOrder) > 0
  BY <1>1 DEF S
<1>3. Tiers = {TierOrder[i] : i \in DOMAIN TierOrder}
  BY DEF Tiers, ToSet
<1>. QED BY <1>2, <1>3

LEMMA TierIsOne ==
  ASSUME AlertsTypeOK, NEW e \in Evaluations
  PROVE  /\ evaluation[e] \in EvalRow /\ TierOf(e) \in Tiers
         /\ <<e, TierOf(e)>> \in AlertIds
BY TiersInOrder DEF AlertsTypeOK, EvalRow, TierOf, AlertIds

LEMMA NoFigureMissing ==
  ASSUME AlertsTypeOK
  PROVE  [t \in Tiers |-> CHOOSE r \in Figures : TRUE] \in [Tiers -> Figures]
BY TiersInOrder DEF AlertsTypeOK

(* On to the next tier: what is left to look at becomes less.               *)
LEMMA NextTierRow ==
  ASSUME AlertsTypeOK, NEW e \in Evaluations, NextTier(e)
  PROVE  /\ evaluation' \in [Evaluations -> EvalRow]
         /\ evaluation'[e].stage \in {"looking", "done"}
         /\ evaluation'[e].stage = "looking" => evaluation'[e].tier = evaluation[e].tier + 1
         /\ \A f \in Evaluations \ {e} : evaluation'[f] = evaluation[f]
<1> DEFINE row == evaluation[e]
           blank == [t \in Tiers |-> CHOOSE r \in Figures : TRUE]
           last == [row EXCEPT !.stage = "done", !.saw = blank]
           next == [row EXCEPT !.stage = "looking", !.tier = row.tier + 1]
<1>1. row \in EvalRow /\ evaluation \in [Evaluations -> EvalRow]
  BY TierIsOne DEF AlertsTypeOK, EvalRow
<1>2. evaluation' = [evaluation EXCEPT ![e] = IF row.tier = Len(TierOrder) THEN last ELSE next]
  BY DEF NextTier
<1>3. blank \in [Tiers -> Figures]
  BY NoFigureMissing
<1>4. Len(TierOrder) \in Nat
  BY TiersInOrder
<1>. HIDE DEF row, blank
<1>5. last \in EvalRow /\ last.stage = "done"
  BY <1>1, <1>3 DEF EvalRow
<1>6. ASSUME row.tier # Len(TierOrder)
      PROVE  next \in EvalRow /\ next.stage = "looking" /\ next.tier = row.tier + 1
  <2>1. row.tier + 1 \in 1..Len(TierOrder)
    BY <1>1, <1>4, <1>6 DEF EvalRow
  <2>. QED BY <1>1, <2>1 DEF EvalRow
<1>. HIDE DEF last, next
<1>7. CASE row.tier = Len(TierOrder)  BY <1>1, <1>2, <1>5, <1>7
<1>8. CASE row.tier # Len(TierOrder)  BY <1>1, <1>2, <1>6, <1>8 DEF row
<1>. QED BY <1>7, <1>8

----------------------------------------------------------------------------
(* The steps *)

LEMMA AlertsInitHolds == AlertsInit => AlertsInv
<1>. SUFFICES ASSUME AlertsInit PROVE AlertsInv
  OBVIOUS
<1>1. Unraised \in AlertRow /\ Unraised.state = "none"
  BY DEF Unraised, AlertRow
<1>2. \A x \in AlertIds : alert[x].state = "none"
  BY <1>1 DEF AlertsInit
<1>3. \A e \in Evaluations : evaluation[e].stage = "none" /\ evaluation[e].tier = 1
  BY DEF AlertsInit
<1>4. AlertsTypeOK
  BY <1>1, TiersInOrder DEF AlertsInit, AlertsTypeOK
<1>5. WorkersMet /\ OpenSinceLookUp
  BY <1>3 DEF WorkersMet, AtWork, OpenSinceLookUp
<1>6. AheadIsBlank
  BY <1>2, <1>3, TiersInOrder DEF AheadIsBlank, AlertIds
<1>7. AckedStays
  BY DEF AlertsInit, AckedStays
<1>8. DoublesOverlapped
  BY <1>2 DEF DoublesOverlapped, OpenFor
<1>. QED BY <1>3, <1>4, <1>5, <1>6, <1>7, <1>8 DEF AlertsInv

LEMMA StartKeepsInv ==
  ASSUME AlertsInv, NEW e \in Evaluations, StartEvaluation(e)
  PROVE  AlertsInv'
<1> DEFINE row == [stage |-> "looking", tier |-> 1, saw |-> realised]
<1>1. /\ evaluation \in [Evaluations -> EvalRow] /\ evaluation[e].stage = "none"
      /\ realised \in [Tiers -> Figures] /\ evaluation[e].tier = 1
  BY DEF AlertsInv, AlertsTypeOK, StartEvaluation, EvalRow
<1>2. row \in EvalRow /\ row.stage = "looking" /\ row.tier = 1
  BY <1>1, TiersInOrder DEF EvalRow
<1>3. evaluation' = [evaluation EXCEPT ![e] = row]
  BY DEF StartEvaluation
<1>4. /\ met' = met \cup {{e, f} : f \in AtWork}
      /\ ackedBefore' = [ackedBefore EXCEPT ![e] = Acked]
      /\ UNCHANGED <<realised, alert>>
  BY DEF StartEvaluation
<1>. HIDE DEF row
<1>5. /\ evaluation' \in [Evaluations -> EvalRow] /\ evaluation'[e] = row
      /\ \A f \in Evaluations \ {e} : evaluation'[f] = evaluation[f]
  BY <1>1, <1>2, <1>3
<1>6. AlertsTypeOK'
  BY <1>4, <1>5 DEF AlertsInv, AlertsTypeOK, EvalRow
<1>7. WorkersMet'
  <2>. SUFFICES ASSUME NEW g \in AtWork', NEW f \in AtWork', g # f
                PROVE  {g, f} \in met'
    BY DEF WorkersMet
  <2>1. \A x \in AtWork' : x \in Evaluations /\ (x = e \/ x \in AtWork)
    BY <1>5 DEF AtWork
  <2>2. CASE g = e
    BY <2>1, <2>2, <1>4
  <2>3. CASE f = e
    <3>1. g \in AtWork /\ {g, f} = {e, g}
      BY <2>1, <2>3
    <3>. QED BY <3>1, <1>4
  <2>4. CASE g # e /\ f # e
    BY <2>1, <2>4, <1>4 DEF AlertsInv, WorkersMet
  <2>. QED BY <2>2, <2>3, <2>4
<1>8. OpenSinceLookUp'
  <2>. SUFFICES ASSUME NEW f \in Evaluations, evaluation'[f].stage = "writing",
                       NEW y \in OpenFor(TierOf(f))'
                PROVE  y[1] = f \/ {f, y[1]} \in met'
    BY DEF OpenSinceLookUp
  <2>1. f # e /\ evaluation'[f] = evaluation[f]
    BY <1>2, <1>5
  <2>2. y \in OpenFor(TierOf(f))
    BY <2>1, <1>4 DEF OpenFor, TierOf
  <2>. QED BY <2>1, <2>2, <1>4 DEF AlertsInv, OpenSinceLookUp
<1>9. AheadIsBlank'
  <2>. SUFFICES ASSUME NEW f \in Evaluations, evaluation'[f].stage # "done",
                       NEW i \in evaluation'[f].tier..Len(TierOrder)
                PROVE  alert[<<f, TierOrder[i]>>].state = "none"
    BY <1>4 DEF AheadIsBlank
  <2>1. evaluation[f].stage # "done" /\ evaluation'[f].tier = evaluation[f].tier
    BY <1>1, <1>2, <1>5
  <2>. QED BY <2>1 DEF AlertsInv, AheadIsBlank
<1>10. AckedStays'
  <2>1. \A x \in Acked : x[1] # e
    <3>. SUFFICES ASSUME NEW x \in AlertIds, alert[x].state = "acked", x[1] = e
                  PROVE  FALSE
      BY DEF Acked
    <3>1. PICK t \in Tiers : x = <<e, t>>
      BY DEF AlertIds
    <3>2. PICK i \in 1..Len(TierOrder) : t = TierOrder[i]
      BY TiersInOrder
    <3>3. alert[<<e, TierOrder[i]>>].state = "none"
      BY <1>1, <3>2 DEF AlertsInv, AheadIsBlank
    <3>. QED BY <3>1, <3>2, <3>3
  <2>2. Acked' = Acked
    BY <1>4 DEF Acked
  <2>3. \A f \in Evaluations : ackedBefore'[f] \subseteq {x \in Acked : x[1] # f}
    <3>. SUFFICES ASSUME NEW f \in Evaluations
                  PROVE  ackedBefore'[f] \subseteq {x \in Acked : x[1] # f}
      OBVIOUS
    <3>1. CASE f = e
      <4>1. ackedBefore'[e] \subseteq Acked
        BY <1>4 DEF AlertsInv, AckedStays
      <4>. QED BY <3>1, <4>1, <2>1
    <3>2. CASE f # e
      <4>1. ackedBefore'[f] = ackedBefore[f]
        BY <1>4, <3>2 DEF AlertsInv, AckedStays
      <4>. QED BY <4>1 DEF AlertsInv, AckedStays
    <3>. QED BY <3>1, <3>2
  <2>4. ackedBefore' \in [Evaluations -> SUBSET AlertIds]
    BY <1>4 DEF AlertsInv, AckedStays, Acked
  <2>. QED BY <2>2, <2>3, <2>4 DEF AckedStays
<1>11. DoublesOverlapped'
  BY <1>4 DEF AlertsInv, DoublesOverlapped, OpenFor
<1>12. \A f \in Evaluations : evaluation'[f].stage = "none" => evaluation'[f].tier = 1
  BY <1>2, <1>5 DEF AlertsInv
<1>. QED BY <1>6, <1>7, <1>8, <1>9, <1>10, <1>11, <1>12 DEF AlertsInv

(* A look-up, a write and an error go on to the next tier; the last two     *)
(* differ in what they write.                                               *)
LEMMA GoneOn ==
  ASSUME AlertsInv, NEW e \in Evaluations, evaluation[e].stage \in {"looking", "writing"},
         NextTier(e), UNCHANGED <<realised, alertHistory>>,
         \/ UNCHANGED alert
         \/ alert' = [alert EXCEPT ![<<e, TierOf(e)>>] = [state |-> "open", severity |-> Saw(e)]]
  PROVE  /\ WorkersMet' /\ AheadIsBlank' /\ AckedStays'
         /\ evaluation' \in [Evaluations -> EvalRow]
         /\ \A f \in Evaluations : evaluation'[f].stage = "none" => evaluation'[f].tier = 1
<1>1. /\ evaluation \in [Evaluations -> EvalRow] /\ alert \in [AlertIds -> AlertRow]
      /\ evaluation[e] \in EvalRow
  BY DEF AlertsInv, AlertsTypeOK, EvalRow
<1>2. /\ evaluation' \in [Evaluations -> EvalRow]
      /\ evaluation'[e].stage \in {"looking", "done"}
      /\ evaluation'[e].stage = "looking" => evaluation'[e].tier = evaluation[e].tier + 1
      /\ \A f \in Evaluations \ {e} : evaluation'[f] = evaluation[f]
  BY NextTierRow DEF AlertsInv
<1>3. UNCHANGED <<met, ackedBefore>>
  BY DEF alertHistory
<1>4. \A x \in AlertIds : x # <<e, TierOf(e)>> => alert'[x] = alert[x]
  BY <1>1
<1>5. alert[<<e, TierOf(e)>>].state = "none"
  <2>1. evaluation[e].tier \in evaluation[e].tier..Len(TierOrder)
    BY <1>1, TiersInOrder DEF EvalRow
  <2>. QED BY <2>1 DEF AlertsInv, AheadIsBlank, TierOf
<1>6. WorkersMet'
  <2>1. AtWork' \subseteq AtWork
    BY <1>2 DEF AtWork
  <2>. QED BY <2>1, <1>3 DEF AlertsInv, WorkersMet
<1>7. AheadIsBlank'
  <2>. SUFFICES ASSUME NEW f \in Evaluations, evaluation'[f].stage # "done",
                       NEW i \in evaluation'[f].tier..Len(TierOrder)
                PROVE  alert'[<<f, TierOrder[i]>>].state = "none"
    BY DEF AheadIsBlank
  <2>1. evaluation'[f].tier \in Nat \ {0} /\ Len(TierOrder) \in Nat
    BY <1>2, TiersInOrder DEF EvalRow
  <2>2. i \in 1..Len(TierOrder)
    BY <2>1
  <2>3. <<f, TierOrder[i]>> \in AlertIds
    BY <2>2, TiersInOrder DEF AlertIds
  <2>4. CASE f # e
    <3>1. alert[<<f, TierOrder[i]>>].state = "none"
      BY <1>2, <2>4 DEF AlertsInv, AheadIsBlank
    <3>. QED BY <3>1, <2>3, <2>4, <1>4
  <2>5. CASE f = e
    <3>1. evaluation'[e].tier = evaluation[e].tier + 1 /\ evaluation[e].tier \in 1..Len(TierOrder)
      BY <1>1, <1>2, <2>5 DEF EvalRow
    <3>2. i # evaluation[e].tier /\ i \in evaluation[e].tier..Len(TierOrder)
      BY <3>1, <2>1, <2>5
    <3>3. TierOrder[i] # TierOf(e)
      BY <3>1, <3>2, <2>2, TiersInOrder, TiersAssumption DEF TierOf
    <3>4. alert[<<e, TierOrder[i]>>].state = "none"
      BY <3>2 DEF AlertsInv, AheadIsBlank
    <3>. QED BY <3>3, <3>4, <2>3, <2>5, <1>4
  <2>. QED BY <2>4, <2>5
<1>8. AckedStays'
  <2>1. Acked \subseteq Acked'
    BY <1>4, <1>5 DEF Acked
  <2>. QED BY <2>1, <1>3 DEF AlertsInv, AckedStays
<1>9. \A f \in Evaluations : evaluation'[f].stage = "none" => evaluation'[f].tier = 1
  BY <1>2 DEF AlertsInv
<1>. QED BY <1>2, <1>6, <1>7, <1>8, <1>9

LEMMA GoneOnUnwritten ==
  ASSUME AlertsInv, NEW e \in Evaluations, evaluation[e].stage \in {"looking", "writing"},
         NextTier(e), UNCHANGED <<realised, alert, alertHistory>>
  PROVE  AlertsInv'
<1>1. /\ WorkersMet' /\ AheadIsBlank' /\ AckedStays'
      /\ evaluation' \in [Evaluations -> EvalRow]
      /\ \A f \in Evaluations : evaluation'[f].stage = "none" => evaluation'[f].tier = 1
  BY GoneOn
<1>2. AlertsTypeOK'
  BY <1>1 DEF AlertsInv, AlertsTypeOK, EvalRow
<1>3. OpenSinceLookUp'
  <2>. SUFFICES ASSUME NEW f \in Evaluations, evaluation'[f].stage = "writing",
                       NEW y \in OpenFor(TierOf(f))'
                PROVE  y[1] = f \/ {f, y[1]} \in met
    BY DEF OpenSinceLookUp, alertHistory
  <2>1. f # e /\ evaluation'[f] = evaluation[f]
    BY NextTierRow DEF AlertsInv
  <2>2. y \in OpenFor(TierOf(f))
    BY <2>1 DEF OpenFor, TierOf
  <2>. QED BY <2>1, <2>2 DEF AlertsInv, OpenSinceLookUp
<1>4. DoublesOverlapped'
  BY DEF AlertsInv, DoublesOverlapped, OpenFor, alertHistory
<1>. QED BY <1>1, <1>2, <1>3, <1>4 DEF AlertsInv

LEMMA WriteKeepsInv ==
  ASSUME AlertsInv, NEW e \in Evaluations, WriteAlert(e)
  PROVE  AlertsInv'
<1> DEFINE mine == <<e, TierOf(e)>>
           row == [state |-> "open", severity |-> Saw(e)]
<1>1. /\ WorkersMet' /\ AheadIsBlank' /\ AckedStays'
      /\ evaluation' \in [Evaluations -> EvalRow]
      /\ \A f \in Evaluations : evaluation'[f].stage = "none" => evaluation'[f].tier = 1
  BY GoneOn DEF WriteAlert
<1>2. /\ evaluation[e].stage = "writing" /\ alert' = [alert EXCEPT ![mine] = row]
      /\ UNCHANGED <<realised, met>> /\ NextTier(e)
      /\ alert \in [AlertIds -> AlertRow] /\ evaluation \in [Evaluations -> EvalRow]
  BY DEF WriteAlert, alertHistory, AlertsInv, AlertsTypeOK, EvalRow
<1>3. row \in AlertRow /\ row.state = "open"
  BY DEF AlertRow, Saw, Severity, MarginSeverity
<1>4. mine \in AlertIds /\ mine[1] = e
  BY TierIsOne DEF AlertsInv
<1>. HIDE DEF mine, row
<1>5. /\ alert' \in [AlertIds -> AlertRow]
      /\ \A y \in AlertIds \ {mine} : alert'[y] = alert[y]
  BY <1>2, <1>3, <1>4
<1>6. AlertsTypeOK'
  BY <1>1, <1>2, <1>5 DEF AlertsInv, AlertsTypeOK, EvalRow
<1>7. \A f \in Evaluations \ {e} : evaluation'[f] = evaluation[f]
  BY <1>2, NextTierRow DEF AlertsInv
<1>8. \A t : \A y \in OpenFor(t)' : y = mine \/ y \in OpenFor(t)
  BY <1>5 DEF OpenFor
<1>9. OpenSinceLookUp'
  <2>. SUFFICES ASSUME NEW f \in Evaluations, evaluation'[f].stage = "writing",
                       NEW y \in OpenFor(TierOf(f))'
                PROVE  y[1] = f \/ {f, y[1]} \in met
    BY <1>2 DEF OpenSinceLookUp
  <2>1. f # e /\ evaluation'[f] = evaluation[f]
    BY <1>2, <1>7, NextTierRow DEF AlertsInv
  <2>2. CASE y = mine
    <3>1. f \in AtWork /\ e \in AtWork
      BY <1>2, <2>1 DEF AtWork
    <3>. QED BY <3>1, <2>1, <2>2, <1>4 DEF AlertsInv, WorkersMet
  <2>3. CASE y # mine
    <3>1. TierOf(f)' = TierOf(f)
      BY <2>1 DEF TierOf
    <3>2. y \in OpenFor(TierOf(f))
      BY <3>1, <2>3, <1>8
    <3>. QED BY <3>2, <2>1 DEF AlertsInv, OpenSinceLookUp
  <2>. QED BY <2>2, <2>3
<1>10. DoublesOverlapped'
  <2>. SUFFICES ASSUME NEW t \in Tiers, NEW x \in OpenFor(t)', NEW y \in OpenFor(t)'
                PROVE  x = y \/ {x[1], y[1]} \in met
    BY <1>2 DEF DoublesOverlapped
  <2>1. \A z \in OpenFor(t)' : mine \in OpenFor(t)' => z = mine \/ {e, z[1]} \in met
    <3>. SUFFICES ASSUME NEW z \in OpenFor(t)', z # mine, mine \in OpenFor(t)'
                  PROVE  {e, z[1]} \in met
      OBVIOUS
    <3>1. t = TierOf(e)
      BY DEF OpenFor, mine
    <3>2. z \in OpenFor(TierOf(e))
      BY <1>8, <3>1
    <3>3. z[1] # e
      BY <3>2 DEF OpenFor, AlertIds, mine
    <3>. QED BY <1>2, <3>2, <3>3 DEF AlertsInv, OpenSinceLookUp
  <2>2. CASE x = mine
    BY <2>1, <2>2, <1>4
  <2>3. CASE y = mine
    <3>1. {x[1], y[1]} = {e, x[1]}
      BY <2>3, <1>4
    <3>. QED BY <2>1, <2>3, <3>1
  <2>4. CASE x # mine /\ y # mine
    BY <2>4, <1>8 DEF AlertsInv, DoublesOverlapped
  <2>. QED BY <2>2, <2>3, <2>4
<1>. QED BY <1>1, <1>6, <1>9, <1>10 DEF AlertsInv

(* Nothing is open when a look-up decides to write.                         *)
LEMMA LookUpKeepsInv ==
  ASSUME AlertsInv, NEW e \in Evaluations, LookUp(e)
  PROVE  AlertsInv'
<1>1. evaluation[e].stage = "looking" /\ UNCHANGED <<realised, alert, alertHistory>>
  BY DEF LookUp
<1>2. CASE NextTier(e)
  BY <1>1, <1>2, GoneOnUnwritten
<1>3. CASE ~NextTier(e)
  <2> DEFINE row == [evaluation[e] EXCEPT !.stage = "writing"]
  <2>1. OpenFor(TierOf(e)) = {} /\ evaluation' = [evaluation EXCEPT ![e].stage = "writing"]
    BY <1>3 DEF LookUp, AlreadyOpen
  <2>2. evaluation \in [Evaluations -> EvalRow] /\ evaluation[e] \in EvalRow
    BY DEF AlertsInv, AlertsTypeOK, EvalRow
  <2>3. /\ row \in EvalRow /\ row.stage = "writing" /\ row.tier = evaluation[e].tier
        /\ evaluation' = [evaluation EXCEPT ![e] = row]
    BY <2>1, <2>2 DEF EvalRow
  <2>. HIDE DEF row
  <2>4. /\ evaluation' \in [Evaluations -> EvalRow] /\ evaluation'[e] = row
        /\ \A f \in Evaluations \ {e} : evaluation'[f] = evaluation[f]
    BY <2>2, <2>3
  <2>5. AtWork' = AtWork
    BY <1>1, <2>3, <2>4 DEF AtWork
  <2>6. \A f \in Evaluations : TierOf(f)' = TierOf(f)
    BY <2>3, <2>4 DEF TierOf
  <2>7. \A t : OpenFor(t)' = OpenFor(t)
    BY <1>1 DEF OpenFor
  <2>8. AlertsTypeOK'
    BY <1>1, <2>4 DEF AlertsInv, AlertsTypeOK, EvalRow
  <2>9. WorkersMet'
    BY <1>1, <2>5 DEF AlertsInv, WorkersMet, alertHistory
  <2>10. OpenSinceLookUp'
    BY <1>1, <2>1, <2>4, <2>6, <2>7 DEF AlertsInv, OpenSinceLookUp, alertHistory
  <2>11. AheadIsBlank'
    BY <1>1, <2>3, <2>4 DEF AlertsInv, AheadIsBlank
  <2>12. AckedStays' /\ DoublesOverlapped'
    BY <1>1, <2>7 DEF AlertsInv, AckedStays, Acked, DoublesOverlapped, alertHistory
  <2>13. \A f \in Evaluations : evaluation'[f].stage = "none" => evaluation'[f].tier = 1
    BY <2>3, <2>4 DEF AlertsInv
  <2>. QED BY <2>8, <2>9, <2>10, <2>11, <2>12, <2>13 DEF AlertsInv
<1>. QED BY <1>2, <1>3

LEMMA AcknowledgeKeepsInv ==
  ASSUME AlertsInv, NEW x \in AlertIds, Acknowledge(x)
  PROVE  AlertsInv'
<1>1. /\ alert \in [AlertIds -> AlertRow] /\ alert[x].state = "open"
      /\ alert' = [alert EXCEPT ![x].state = "acked"]
      /\ UNCHANGED <<realised, evaluation, met, ackedBefore>>
  BY DEF Acknowledge, AlertsInv, AlertsTypeOK, alertHistory
<1>2. alert' \in [AlertIds -> AlertRow] /\ alert'[x].state = "acked"
  BY <1>1 DEF AlertRow
<1>3. \A y \in AlertIds \ {x} : alert'[y] = alert[y]
  BY <1>1
<1>4. AlertsTypeOK'
  BY <1>1, <1>2 DEF AlertsInv, AlertsTypeOK
<1>5. \A t : OpenFor(t)' \subseteq OpenFor(t)
  BY <1>2, <1>3 DEF OpenFor
<1>6. Acked \subseteq Acked'
  BY <1>2, <1>3 DEF Acked
<1>7. WorkersMet'
  BY <1>1 DEF AlertsInv, WorkersMet, AtWork
<1>8. OpenSinceLookUp'
  <2>1. \A f \in Evaluations : TierOf(f)' = TierOf(f)
    BY <1>1 DEF TierOf
  <2>. QED BY <1>1, <1>5, <2>1 DEF AlertsInv, OpenSinceLookUp
<1>9. AheadIsBlank'
  <2>. SUFFICES ASSUME NEW f \in Evaluations, evaluation[f].stage # "done",
                       NEW i \in evaluation[f].tier..Len(TierOrder)
                PROVE  alert'[<<f, TierOrder[i]>>].state = "none"
    BY <1>1 DEF AheadIsBlank
  <2>1. alert[<<f, TierOrder[i]>>].state = "none"
    BY DEF AlertsInv, AheadIsBlank
  <2>2. evaluation[f] \in EvalRow
    BY DEF AlertsInv, AlertsTypeOK, EvalRow
  <2>3. i \in 1..Len(TierOrder)
    BY <2>2, TiersInOrder DEF EvalRow
  <2>4. <<f, TierOrder[i]>> \in AlertIds /\ <<f, TierOrder[i]>> # x
    BY <1>1, <2>1, <2>3, TiersInOrder DEF AlertIds
  <2>. QED BY <2>1, <2>4, <1>3
<1>10. AckedStays'
  BY <1>1, <1>6 DEF AlertsInv, AckedStays
<1>11. DoublesOverlapped'
  BY <1>1, <1>5 DEF AlertsInv, DoublesOverlapped
<1>. QED BY <1>1, <1>4, <1>7, <1>8, <1>9, <1>10, <1>11 DEF AlertsInv

LEMMA SalesKeepInv ==
  ASSUME AlertsInv, NEW t \in Tiers, SalesMove(t)
  PROVE  AlertsInv'
<1>1. UNCHANGED <<alert, evaluation, alertHistory>> /\ realised' \in [Tiers -> Figures]
  BY DEF SalesMove, AlertsInv, AlertsTypeOK
<1>. QED BY <1>1 DEF AlertsInv, AlertsTypeOK, WorkersMet, AtWork, OpenSinceLookUp, OpenFor,
                     TierOf, AheadIsBlank, AckedStays, Acked, DoublesOverlapped, alertHistory

LEMMA StutterKeepsAlertsInv == AlertsInv /\ UNCHANGED alertVars => AlertsInv'
BY DEF AlertsInv, AlertsTypeOK, WorkersMet, AtWork, OpenSinceLookUp, OpenFor, TierOf,
       AheadIsBlank, AckedStays, Acked, DoublesOverlapped, alertVars, alertHistory

LEMMA AlertsInvHolds == AlertsSpec => []AlertsInv
<1>1. AlertsInv /\ [AlertsNext]_alertVars => AlertsInv'
  <2>. SUFFICES ASSUME AlertsInv, [AlertsNext]_alertVars PROVE AlertsInv'
    OBVIOUS
  <2>1. ASSUME NEW e \in Evaluations, PersistFails(e) PROVE AlertsInv'
    BY <2>1, GoneOnUnwritten DEF PersistFails
  <2>. QED BY <2>1, StartKeepsInv, LookUpKeepsInv, WriteKeepsInv, AcknowledgeKeepsInv,
              SalesKeepInv, StutterKeepsAlertsInv DEF AlertsNext
<1>. QED BY <1>1, AlertsInitHolds, PTL DEF AlertsSpec

----------------------------------------------------------------------------
(* Theorems *)

(* Alerts and evaluations have their types.                                 *)
THEOREM AlertsTypeCorrect == AlertsSpec => []AlertsTypeOK
<1>1. AlertsInv => AlertsTypeOK
  BY DEF AlertsInv
<1>. QED BY <1>1, AlertsInvHolds, PTL

(* Two open alerts of one tier are of evaluations that were at work at the  *)
(* same time.                                                               *)
THEOREM OnlyOverlapsDouble == AlertsSpec => []DoublesOverlapped
<1>1. AlertsInv => DoublesOverlapped
  BY DEF AlertsInv
<1>. QED BY <1>1, AlertsInvHolds, PTL

(* An evaluation goes on from a tier it saw drift only once an alert is     *)
(* there that was not acknowledged before it began.                         *)
THEOREM DriftIsRaised == AlertsSpec => DriftIsNeverSilent
<1> DEFINE Raised == \A e \in Evaluations :
      Saw(e) # "none" /\ (WriteAlert(e) \/ (LookUp(e) /\ evaluation'[e].stage # "writing")) =>
        \E x \in AlertIds :
          x[2] = TierOf(e) /\ alert'[x].state # "none" /\ x \notin ackedBefore[e]
<1>1. AlertsInv /\ [AlertsNext]_alertVars => [Raised]_alertVars
  <2>. SUFFICES ASSUME AlertsInv, NEW e \in Evaluations, Saw(e) # "none",
                       WriteAlert(e) \/ (LookUp(e) /\ evaluation'[e].stage # "writing")
                PROVE  \E x \in AlertIds :
                         x[2] = TierOf(e) /\ alert'[x].state # "none" /\ x \notin ackedBefore[e]
    OBVIOUS
  <2>1. /\ alert \in [AlertIds -> AlertRow] /\ evaluation \in [Evaluations -> EvalRow]
    BY DEF AlertsInv, AlertsTypeOK, EvalRow
  <2>2. CASE WriteAlert(e)
    <3> DEFINE mine == <<e, TierOf(e)>>
    <3>1. mine \in AlertIds /\ mine[1] = e /\ mine[2] = TierOf(e)
      BY TierIsOne DEF AlertsInv
    <3>2. alert'[mine].state = "open"
      BY <2>1, <2>2, <3>1 DEF WriteAlert
    <3>3. mine \notin ackedBefore[e]
      BY <3>1 DEF AlertsInv, AckedStays
    <3>. QED BY <3>1, <3>2, <3>3
  <2>3. CASE LookUp(e) /\ evaluation'[e].stage # "writing"
    <3>1. evaluation' # [evaluation EXCEPT ![e].stage = "writing"]
      BY <2>1, <2>3 DEF EvalRow
    <3>2. OpenFor(TierOf(e)) # {} /\ UNCHANGED alert
      BY <2>3, <3>1 DEF LookUp, AlreadyOpen
    <3>3. PICK x \in OpenFor(TierOf(e)) : TRUE
      BY <3>2
    <3>4. x \in AlertIds /\ x[2] = TierOf(e) /\ alert[x].state = "open"
      BY DEF OpenFor
    <3>5. x \notin ackedBefore[e]
      BY <3>4 DEF AlertsInv, AckedStays, Acked
    <3>. QED BY <3>2, <3>4, <3>5
  <2>. QED BY <2>2, <2>3
<1>. QED BY <1>1, AlertsInvHolds, PTL DEF AlertsSpec, DriftIsNeverSilent, Raised

----------------------------------------------------------------------------
(* The wash-trade queue.  A repeated pair is flagged, however many          *)
(* settlements are under way.                                               *)

SettleRow ==
  [stage : {"none", "settling", "evaluating", "flagging", "done"},
   queue : Seq(Sales), found : SUBSET Reasons]

WashTypes ==
  /\ day \in 0..MaxDay
  /\ sale \in [Sales -> SaleRow]
  /\ settleCall \in [SettleCalls -> SettleRow]
  /\ flags \subseteq Sales \X Reasons
  /\ evaluatedAt \in [Sales -> (0..MaxDay) \cup {NoDay}]

(* Only what is closed is queued or evaluated, and no evaluation is of a    *)
(* day to come.                                                             *)
ClosedFirst ==
  /\ \A c \in SettleCalls : \A s \in ToSet(settleCall[c].queue) : sale[s].closed
  /\ \A c \in SettleCalls : settleCall[c].stage = "flagging" => settleCall[c].queue # <<>>
  /\ \A s \in Sales : evaluatedAt[s] # NoDay => sale[s].closed /\ evaluatedAt[s] <= day

(* Call c is about to flag s as one of a repeated pair.                     *)
AboutToFlag(c, s) ==
  /\ settleCall[c].stage = "flagging" /\ Head(settleCall[c].queue) = s
  /\ "repeat_pair" \in settleCall[c].found

FlaggedSoon(s) ==
  <<s, "repeat_pair">> \in flags \/ \E c \in SettleCalls : AboutToFlag(c, s)

(* Three sales of a pair, evaluated, each within the window of each.        *)
Repeats(trio) ==
  /\ trio \subseteq Sales /\ Cardinality(trio) = RepeatPairThreshold
  /\ \A s, x \in trio : sale[s].pair = sale[x].pair
  /\ \A s \in trio : evaluatedAt[s] # NoDay
  /\ \A s, x \in trio : sale[s].at >= evaluatedAt[x] - WindowDays

(* Whichever of the three was evaluated last has counted them all.          *)
LastOneFlags == \A trio : Repeats(trio) => \E s \in trio : FlaggedSoon(s)

(* Two other closed sales of the pair of s.                                 *)
HasTwoMore(s) ==
  \E x, y \in Sales \ {s} :
    /\ x # y /\ sale[x].pair = sale[s].pair /\ sale[y].pair = sale[s].pair
    /\ sale[x].closed /\ sale[y].closed

FlagsHaveReasons == \A s \in Sales : FlaggedSoon(s) => HasTwoMore(s)

WashInv == WashTypes /\ ClosedFirst /\ LastOneFlags /\ FlagsHaveReasons

----------------------------------------------------------------------------
(* Counting *)

LEMMA TwoAmongThree ==
  ASSUME NEW S, IsFiniteSet(S), Cardinality(S) >= 3, NEW s
  PROVE  \E x, y \in S \ {s} : x # y
<1>0. Cardinality(S) \in Nat BY FS_CardinalityType
<1>1. /\ IsFiniteSet(S \ {s})
      /\ Cardinality(S \ {s}) = IF s \in S THEN Cardinality(S) - 1 ELSE Cardinality(S)
  BY FS_RemoveElement, Zenon
<1>a. Cardinality(S \ {s}) >= 2 BY <1>0, <1>1
<1>2. PICK x \in S \ {s} : TRUE BY <1>1, <1>a, FS_EmptySet
<1>3. S \ {s} # {x} BY <1>1, <1>a, FS_Singleton
<1> QED BY <1>2, <1>3

LEMMA SettleTypes ==
  ASSUME WashTypes, NEW c \in SettleCalls
  PROVE  /\ settleCall[c] \in SettleRow /\ settleCall[c].queue \in Seq(Sales)
         /\ settleCall[c].found \in SUBSET Reasons
         /\ settleCall[c].queue # <<>> =>
              /\ Head(settleCall[c].queue) \in Sales
              /\ Head(settleCall[c].queue) \in ToSet(settleCall[c].queue)
              /\ Tail(settleCall[c].queue) \in Seq(Sales)
              /\ ToSet(Tail(settleCall[c].queue)) \subseteq ToSet(settleCall[c].queue)
<1>1. /\ settleCall[c] \in SettleRow /\ settleCall[c].queue \in Seq(Sales)
      /\ settleCall[c].found \in SUBSET Reasons
  BY DEF WashTypes, SettleRow
<1>2. ASSUME NEW q \in Seq(Sales), q # <<>>
      PROVE  /\ Head(q) \in Sales /\ Head(q) \in ToSet(q)
             /\ Tail(q) \in Seq(Sales) /\ ToSet(Tail(q)) \subseteq ToSet(q)
  <2>1. Len(q) \in Nat /\ Len(q) >= 1 /\ Head(q) = q[1] BY <1>2, EmptySeq
  <2>2. Head(q) \in Sales /\ Head(q) \in ToSet(q)
    BY <2>1, ElementOfSeq DEF ToSet
  <2>3. /\ Tail(q) \in Seq(Sales) /\ Len(Tail(q)) = Len(q) - 1
        /\ \A i \in 1..Len(Tail(q)) : Tail(q)[i] = q[i + 1]
    BY <1>2, HeadTailProperties
  <2>4. \A i \in 1..Len(Tail(q)) : i + 1 \in 1..Len(q)
    BY <2>1, <2>3
  <2>5. DOMAIN q = 1..Len(q) /\ DOMAIN Tail(q) = 1..Len(Tail(q)) BY <2>3
  <2> QED BY <2>2, <2>3, <2>4, <2>5 DEF ToSet
<1> QED BY <1>1, <1>2

(* The sets of queues. *)
LEMMA SeqElements ==
  ASSUME NEW q \in Seq(Sales)
  PROVE  ToSet(q) \subseteq Sales
  BY ElementOfSeq DEF ToSet

LEMMA AppendElements ==
  ASSUME NEW q \in Seq(Sales), NEW s \in Sales
  PROVE  ToSet(Append(q, s)) \subseteq ToSet(q) \cup {s}
<1>1. /\ Len(q) \in Nat /\ DOMAIN q = 1..Len(q)
      /\ Append(q, s) \in Seq(Sales) /\ Len(Append(q, s)) = Len(q) + 1
      /\ \A i \in 1..Len(q) : Append(q, s)[i] = q[i]
      /\ Append(q, s)[Len(q) + 1] = s
  BY AppendProperties
<1>2. DOMAIN Append(q, s) = 1..(Len(q) + 1) BY <1>1
<1>3. \A i \in 1..(Len(q) + 1) : i \in 1..Len(q) \/ i = Len(q) + 1 BY <1>1
<1> QED BY <1>1, <1>2, <1>3 DEF ToSet

LEMMA CallSet ==
  ASSUME WashTypes, NEW c \in SettleCalls, NEW row \in SettleRow, SetCall(c, row)
  PROVE  /\ settleCall' \in [SettleCalls -> SettleRow] /\ settleCall'[c] = row
         /\ \A d \in SettleCalls \ {c} : settleCall'[d] = settleCall[d]
  BY DEF WashTypes, SetCall

LEMMA FlaggedLater ==
  ASSUME NEW c \in SettleCalls, NEW s
  PROVE  AboutToFlag(c, s) => FlaggedSoon(s)
  BY DEF FlaggedSoon

----------------------------------------------------------------------------
(* What keeps the two parts of the property *)

LEMMA LastOneKept ==
  ASSUME WashInv,
         \A s \in Sales : evaluatedAt'[s] \in {evaluatedAt[s], NoDay},
         \A s \in Sales : evaluatedAt[s] # NoDay => sale'[s] = sale[s],
         \A s \in Sales : FlaggedSoon(s) => FlaggedSoon(s)' \/ evaluatedAt'[s] = NoDay
  PROVE  LastOneFlags'
<1> SUFFICES ASSUME NEW trio, Repeats(trio)' PROVE (\E s \in trio : FlaggedSoon(s))'
  BY DEF LastOneFlags
<1>1. trio \subseteq Sales /\ \A s \in trio : evaluatedAt'[s] # NoDay BY DEF Repeats
<1>2. \A s \in trio : evaluatedAt'[s] = evaluatedAt[s] /\ sale'[s] = sale[s] BY <1>1
<1>3. Repeats(trio) BY <1>1, <1>2 DEF Repeats
<1>4. PICK s \in trio : FlaggedSoon(s) BY <1>3 DEF WashInv, LastOneFlags
<1>5. FlaggedSoon(s)' BY <1>1, <1>4
<1> QED BY <1>5

LEMMA ReasonsKept ==
  ASSUME WashInv,
         \A s \in Sales : sale'[s].pair = sale[s].pair /\ (sale[s].closed => sale'[s].closed),
         \A s \in Sales : FlaggedSoon(s)' => FlaggedSoon(s)
  PROVE  FlagsHaveReasons'
<1> SUFFICES ASSUME NEW s \in Sales, FlaggedSoon(s)' PROVE HasTwoMore(s)'
  BY DEF FlagsHaveReasons
<1>1. HasTwoMore(s) BY DEF WashInv, FlagsHaveReasons
<1>2. PICK x, y \in Sales \ {s} :
        /\ x # y /\ sale[x].pair = sale[s].pair /\ sale[y].pair = sale[s].pair
        /\ sale[x].closed /\ sale[y].closed
  BY <1>1 DEF HasTwoMore
<1> QED BY <1>2 DEF HasTwoMore

(* A call that neither was nor is about to flag anything.                   *)
LEMMA NotFlagging ==
  ASSUME NEW c \in SettleCalls, settleCall[c].stage # "flagging",
         settleCall'[c].stage # "flagging",
         \A d \in SettleCalls \ {c} : settleCall'[d] = settleCall[d], flags' = flags, NEW s
  PROVE  FlaggedSoon(s)' <=> FlaggedSoon(s)
<1>1. \A d \in SettleCalls \ {c} : AboutToFlag(d, s)' <=> AboutToFlag(d, s)
  BY DEF AboutToFlag
<1>2. ~AboutToFlag(c, s) /\ ~AboutToFlag(c, s)' BY DEF AboutToFlag
<1> QED BY <1>1, <1>2 DEF FlaggedSoon

----------------------------------------------------------------------------
(* The steps *)

(* Days, and calls that begin, go on to evaluate, and end.                  *)
LEMMA QuietSteps ==
  ASSUME WashInv,
         NextDay \/ \E c \in SettleCalls : StartSettling(c) \/ EndSettling(c) \/ EndCall(c)
  PROVE  WashInv'
<1>0. WashTypes /\ ClosedFirst BY DEF WashInv
<1>1. CASE NextDay
  <2>1. /\ day \in Nat /\ MaxDay \in Nat /\ day' = day + 1 /\ day' \in 0..MaxDay
        /\ UNCHANGED <<sale, settleCall, flags, evaluatedAt>>
    BY <1>0, <1>1, WashAssumption DEF NextDay, WashTypes
  <2>2. WashTypes' BY <1>0, <2>1 DEF WashTypes, SettleRow
  <2>3. ClosedFirst'
    <3>1. \A s \in Sales : evaluatedAt[s] # NoDay => evaluatedAt[s] \in Nat
      BY <1>0 DEF WashTypes
    <3> QED BY <1>0, <2>1, <3>1 DEF ClosedFirst
  <2>4. \A s : FlaggedSoon(s)' <=> FlaggedSoon(s) BY <2>1 DEF FlaggedSoon, AboutToFlag
  <2> QED BY <2>1, <2>2, <2>3, <2>4, LastOneKept, ReasonsKept DEF WashInv
<1>2. ASSUME NEW c \in SettleCalls, StartSettling(c) \/ EndSettling(c) \/ EndCall(c)
      PROVE  WashInv'
  <2>1. PICK row \in SettleRow :
          /\ SetCall(c, row) /\ settleCall[c].stage # "flagging" /\ row.stage # "flagging"
          /\ row.queue \in {<<>>, settleCall[c].queue}
    <3>1. \A stage \in {"settling", "done"} :
            /\ IdleSettleCall(stage) \in SettleRow
            /\ IdleSettleCall(stage).stage = stage /\ IdleSettleCall(stage).queue = <<>>
      BY EmptySeq DEF IdleSettleCall, SettleRow
    <3>2. [settleCall[c] EXCEPT !.stage = "evaluating"] \in SettleRow
          /\ [settleCall[c] EXCEPT !.stage = "evaluating"].stage = "evaluating"
          /\ [settleCall[c] EXCEPT !.stage = "evaluating"].queue = settleCall[c].queue
      BY <1>0, SettleTypes DEF SettleRow
    <3>3. CASE StartSettling(c) BY <3>1, <3>3 DEF StartSettling
    <3>4. CASE EndSettling(c) BY <3>2, <3>4 DEF EndSettling
    <3>5. CASE EndCall(c) BY <3>1, <3>5 DEF EndCall
    <3> QED BY <1>2, <3>3, <3>4, <3>5
  <2>2. UNCHANGED <<day, sale, flags, evaluatedAt>>
    BY <1>2 DEF StartSettling, EndSettling, EndCall
  <2>3. /\ settleCall' \in [SettleCalls -> SettleRow] /\ settleCall'[c] = row
        /\ \A d \in SettleCalls \ {c} : settleCall'[d] = settleCall[d]
    BY <1>0, <2>1, CallSet
  <2>4. WashTypes' BY <1>0, <2>2, <2>3 DEF WashTypes
  <2>5. ClosedFirst'
    <3>1. \A s \in ToSet(row.queue) : sale[s].closed BY <1>0, <2>1 DEF ClosedFirst, ToSet
    <3> QED BY <1>0, <2>1, <2>2, <2>3, <3>1 DEF ClosedFirst
  <2>6. \A s : FlaggedSoon(s)' <=> FlaggedSoon(s) BY <2>1, <2>2, <2>3, NotFlagging
  <2> QED BY <2>2, <2>4, <2>5, <2>6, LastOneKept, ReasonsKept DEF WashInv
<1> QED BY <1>1, <1>2

(* A settlement: only a sale that no evaluation has been of changes.        *)
LEMMA CloseStep ==
  ASSUME WashInv, NEW c \in SettleCalls, NEW s \in Sales, CloseSale(c, s)
  PROVE  WashInv'
<1>0. WashTypes /\ ClosedFirst BY DEF WashInv
<1> DEFINE row == [settleCall[c] EXCEPT !.queue = Append(@, s)]
           closed == [sale[s] EXCEPT !.closed = TRUE, !.at = day]
<1>1. /\ row \in SettleRow /\ row.queue = Append(settleCall[c].queue, s)
      /\ row.stage = settleCall[c].stage
  <2>1. Append(settleCall[c].queue, s) \in Seq(Sales) BY <1>0, SettleTypes, AppendProperties
  <2> QED BY <1>0, <2>1, SettleTypes DEF SettleRow
<1>2. /\ closed \in SaleRow /\ closed.closed = TRUE /\ closed.at = day
      /\ closed.pair = sale[s].pair
  BY <1>0 DEF WashTypes, SaleRow
<1>3. /\ SetCall(c, row) /\ sale' = [sale EXCEPT ![s] = closed]
      /\ settleCall[c].stage = "settling" /\ ~sale[s].closed
      /\ UNCHANGED <<day, flags, evaluatedAt>>
  BY DEF CloseSale
<1> HIDE DEF row, closed
<1>4. /\ settleCall' \in [SettleCalls -> SettleRow] /\ settleCall'[c] = row
      /\ \A d \in SettleCalls \ {c} : settleCall'[d] = settleCall[d]
  BY <1>0, <1>1, <1>3, CallSet
<1>5. /\ sale' \in [Sales -> SaleRow] /\ sale'[s] = closed
      /\ \A x \in Sales \ {s} : sale'[x] = sale[x]
  BY <1>0, <1>2, <1>3 DEF WashTypes
<1>6. WashTypes' BY <1>0, <1>3, <1>4, <1>5 DEF WashTypes
<1>7. ClosedFirst'
  <2>1. \A x \in Sales : sale[x].closed => sale'[x].closed BY <1>2, <1>5
  <2>2. \A d \in SettleCalls : ToSet(settleCall[d].queue) \subseteq Sales
    BY <1>0, SettleTypes, SeqElements
  <2>3. ToSet(row.queue) \subseteq ToSet(settleCall[c].queue) \cup {s}
    BY <1>0, <1>1, SettleTypes, AppendElements
  <2>4. \A d \in SettleCalls : \A x \in ToSet(settleCall'[d].queue) : sale'[x].closed
    BY <1>0, <1>2, <1>4, <1>5, <2>1, <2>2, <2>3 DEF ClosedFirst
  <2>5. \A d \in SettleCalls : settleCall'[d].stage = "flagging" => settleCall'[d].queue # <<>>
    BY <1>0, <1>1, <1>3, <1>4 DEF ClosedFirst
  <2> QED BY <1>0, <1>3, <2>1, <2>4, <2>5 DEF ClosedFirst
<1>8. \A x : FlaggedSoon(x)' <=> FlaggedSoon(x)
  BY <1>1, <1>3, <1>4, NotFlagging
<1>9. LastOneFlags'
  <2>1. evaluatedAt[s] = NoDay BY <1>0, <1>3 DEF ClosedFirst
  <2> QED BY <1>3, <1>5, <1>8, <2>1, LastOneKept
<1>10. FlagsHaveReasons'
  BY <1>2, <1>5, <1>8, ReasonsKept
<1> QED BY <1>6, <1>7, <1>9, <1>10 DEF WashInv

(* Counting: what is evaluated last of a repeated pair finds all three.     *)
LEMMA CountStep ==
  ASSUME WashInv, NEW c \in SettleCalls, CountSignals(c)
  PROVE  WashInv'
<1>0. WashTypes /\ ClosedFirst /\ LastOneFlags /\ FlagsHaveReasons BY DEF WashInv
<1>s. PICK s \in Sales : s = Head(settleCall[c].queue)
  BY <1>0, SettleTypes DEF CountSignals
<1> DEFINE found == {r \in Reasons :
                \/ r = "repeat_pair" /\ Cardinality(PairCloses(s)) >= RepeatPairThreshold
                \/ r = "thin_low_clearance" /\ s \in ThinSales}
           row == [settleCall[c] EXCEPT !.stage = "flagging", !.found = found]
<1>1. /\ s \in Sales /\ sale[s].closed
      /\ settleCall[c].stage = "evaluating" /\ settleCall[c].queue # <<>>
  BY <1>0, <1>s, SettleTypes DEF CountSignals, ClosedFirst
<1>2. /\ row \in SettleRow /\ row.stage = "flagging" /\ row.queue = settleCall[c].queue
      /\ row.found = found
      /\ "repeat_pair" \in found <=> Cardinality(PairCloses(s)) >= RepeatPairThreshold
  BY <1>0, SettleTypes DEF SettleRow, Reasons
<1>3. /\ SetCall(c, row) /\ evaluatedAt' = [evaluatedAt EXCEPT ![s] = day]
      /\ UNCHANGED <<day, sale, flags>>
  BY <1>s DEF CountSignals
<1>4. s = Head(row.queue) BY <1>s, <1>2
<1> HIDE DEF row, found
<1>5. /\ settleCall' \in [SettleCalls -> SettleRow] /\ settleCall'[c] = row
      /\ \A d \in SettleCalls \ {c} : settleCall'[d] = settleCall[d]
  BY <1>0, <1>2, <1>3, CallSet
<1>6. /\ day \in Nat /\ day # NoDay /\ day \in 0..MaxDay
      /\ evaluatedAt'[s] = day /\ \A x \in Sales \ {s} : evaluatedAt'[x] = evaluatedAt[x]
      /\ evaluatedAt' \in [Sales -> (0..MaxDay) \cup {NoDay}]
  BY <1>0, <1>1, <1>3, WashAssumption DEF WashTypes, NoDay
<1>7. WashTypes' BY <1>0, <1>3, <1>5, <1>6 DEF WashTypes
<1>8. ClosedFirst'
  <2>1. \A d \in SettleCalls : settleCall'[d].queue = settleCall[d].queue BY <1>2, <1>5
  <2>2. \A d \in SettleCalls : settleCall'[d].stage = "flagging" => settleCall'[d].queue # <<>>
    BY <1>0, <1>1, <1>2, <1>5, <2>1 DEF ClosedFirst
  <2>3. \A x \in Sales : evaluatedAt'[x] # NoDay => sale'[x].closed /\ evaluatedAt'[x] <= day'
    BY <1>0, <1>1, <1>3, <1>6 DEF ClosedFirst
  <2>4. \A d \in SettleCalls : \A x \in ToSet(settleCall'[d].queue) : sale'[x].closed
    BY <1>0, <1>3, <2>1 DEF ClosedFirst
  <2> QED BY <2>2, <2>3, <2>4 DEF ClosedFirst
<1>9. \A x : FlaggedSoon(x) => FlaggedSoon(x)'
  <2>1. \A d \in SettleCalls : \A x : AboutToFlag(d, x) => AboutToFlag(d, x)'
    BY <1>1, <1>5 DEF AboutToFlag
  <2> QED BY <1>3, <2>1 DEF FlaggedSoon
<1>10. AboutToFlag(c, s)' <=> Cardinality(PairCloses(s)) >= RepeatPairThreshold
  BY <1>2, <1>4, <1>5 DEF AboutToFlag
<1>11. LastOneFlags'
  <2> SUFFICES ASSUME NEW trio, Repeats(trio)' PROVE (\E x \in trio : FlaggedSoon(x))'
    BY DEF LastOneFlags
  <2>1. CASE s \notin trio
    <3>1. Repeats(trio) BY <1>3, <1>6, <2>1 DEF Repeats
    <3> QED BY <1>0, <1>9, <3>1 DEF LastOneFlags
  <2>2. CASE s \in trio
    <3>1. /\ trio \subseteq Sales /\ Cardinality(trio) = RepeatPairThreshold
          /\ \A x \in trio : sale[x].pair = sale[s].pair
          /\ \A x \in trio : evaluatedAt'[x] # NoDay
          /\ \A x \in trio : sale[x].at >= day - WindowDays
      BY <1>3, <1>6, <2>2 DEF Repeats
    <3>2. \A x \in trio : sale[x].closed
      BY <1>0, <1>1, <1>6, <3>1 DEF ClosedFirst
    <3>3. trio \subseteq PairCloses(s) BY <3>1, <3>2 DEF PairCloses
    <3>4. IsFiniteSet(PairCloses(s))
      BY WashAssumption, FS_Subset DEF PairCloses
    <3>5. Cardinality(trio) <= Cardinality(PairCloses(s)) BY <3>3, <3>4, FS_Subset
    <3>6. AboutToFlag(c, s)' BY <1>10, <3>1, <3>5
    <3>7. FlaggedSoon(s)' BY <3>6 DEF FlaggedSoon
    <3> QED BY <2>2, <3>7
  <2> QED BY <2>1, <2>2
<1>12. FlagsHaveReasons'
  <2>1. ASSUME NEW x \in Sales PROVE HasTwoMore(x)' <=> HasTwoMore(x)
    BY <1>3 DEF HasTwoMore
  <2>2. ASSUME Cardinality(PairCloses(s)) >= RepeatPairThreshold PROVE HasTwoMore(s)
    <3>1. IsFiniteSet(PairCloses(s)) BY WashAssumption, FS_Subset DEF PairCloses
    <3>2. PICK x, y \in PairCloses(s) \ {s} : x # y
      BY <2>2, <3>1, TwoAmongThree DEF RepeatPairThreshold
    <3> QED BY <3>2 DEF PairCloses, HasTwoMore
  <2>3. ASSUME NEW x \in Sales, FlaggedSoon(x)'
        PROVE  FlaggedSoon(x) \/ (x = s /\ Cardinality(PairCloses(s)) >= RepeatPairThreshold)
    <3>1. CASE <<x, "repeat_pair">> \in flags' BY <1>3, <3>1 DEF FlaggedSoon
    <3>2. ASSUME NEW d \in SettleCalls \ {c}, AboutToFlag(d, x)' PROVE FlaggedSoon(x)
      BY <1>5, <3>2 DEF AboutToFlag, FlaggedSoon
    <3>3. CASE AboutToFlag(c, x)'
      <4>1. x = s BY <1>4, <1>5, <3>3 DEF AboutToFlag
      <4> QED BY <1>10, <3>3, <4>1
    <3> QED BY <2>3, <3>1, <3>2, <3>3 DEF FlaggedSoon
  <2> QED BY <1>0, <1>1, <2>1, <2>2, <2>3 DEF FlagsHaveReasons
<1> QED BY <1>7, <1>8, <1>11, <1>12 DEF WashInv

(* A row of a flag: what was about to be flagged is, and nothing else.      *)
LEMMA WriteStep ==
  ASSUME WashInv, NEW c \in SettleCalls, WriteFlag(c)
  PROVE  WashInv'
<1>0. WashTypes /\ ClosedFirst BY DEF WashInv
<1>1. PICK r \in settleCall[c].found :
        /\ flags' = flags \cup {<<Head(settleCall[c].queue), r>>}
        /\ SetCall(c, [settleCall[c] EXCEPT !.found = @ \ {r}])
  BY DEF WriteFlag
<1> DEFINE row == [settleCall[c] EXCEPT !.found = @ \ {r}]
           s == Head(settleCall[c].queue)
<1>2. /\ row \in SettleRow /\ row.stage = "flagging" /\ row.queue = settleCall[c].queue
      /\ row.found = settleCall[c].found \ {r}
  BY <1>0, SettleTypes DEF SettleRow, WriteFlag
<1>3. SetCall(c, row) /\ flags' = flags \cup {<<s, r>>} BY <1>1
<1>4. settleCall[c].stage = "flagging" /\ UNCHANGED <<day, sale, evaluatedAt>> BY DEF WriteFlag
<1>5. s \in Sales /\ r \in Reasons BY <1>0, <1>4, SettleTypes DEF ClosedFirst
<1>6. s = Head(row.queue) BY <1>2
<1> HIDE DEF row
<1>7. /\ settleCall' \in [SettleCalls -> SettleRow] /\ settleCall'[c] = row
      /\ \A d \in SettleCalls \ {c} : settleCall'[d] = settleCall[d]
  BY <1>0, <1>2, <1>3, CallSet
<1>8. WashTypes' BY <1>0, <1>3, <1>4, <1>5, <1>7 DEF WashTypes
<1>9. ClosedFirst'
  <2>1. \A d \in SettleCalls : settleCall'[d].queue = settleCall[d].queue BY <1>2, <1>7
  <2>2. \A d \in SettleCalls : settleCall'[d].stage = "flagging" => settleCall'[d].queue # <<>>
    BY <1>0, <1>4, <1>7, <2>1 DEF ClosedFirst
  <2> QED BY <1>0, <1>4, <2>1, <2>2 DEF ClosedFirst
<1>10. ASSUME NEW x \in Sales PROVE FlaggedSoon(x)' <=> FlaggedSoon(x)
  <2>1. \A d \in SettleCalls \ {c} : AboutToFlag(d, x)' <=> AboutToFlag(d, x)
    BY <1>7 DEF AboutToFlag
  <2>2. AboutToFlag(c, x) <=> x = s /\ "repeat_pair" \in settleCall[c].found
    BY <1>4 DEF AboutToFlag
  <2>3. AboutToFlag(c, x)' <=> x = s /\ "repeat_pair" \in settleCall[c].found \ {r}
    BY <1>2, <1>6, <1>7 DEF AboutToFlag
  <2>4. <<x, "repeat_pair">> \in flags' <=>
          <<x, "repeat_pair">> \in flags \/ (x = s /\ r = "repeat_pair")
    BY <1>3
  <2> HIDE DEF s
  <2>5. (AboutToFlag(c, x)' \/ <<x, "repeat_pair">> \in flags') <=>
          (AboutToFlag(c, x) \/ <<x, "repeat_pair">> \in flags)
    BY <2>2, <2>3, <2>4
  <2>6. FlaggedSoon(x) <=> \/ <<x, "repeat_pair">> \in flags \/ AboutToFlag(c, x)
                           \/ \E d \in SettleCalls \ {c} : AboutToFlag(d, x)
    BY DEF FlaggedSoon
  <2>7. FlaggedSoon(x)' <=> \/ <<x, "repeat_pair">> \in flags' \/ AboutToFlag(c, x)'
                            \/ \E d \in SettleCalls \ {c} : AboutToFlag(d, x)'
    BY DEF FlaggedSoon
  <2> QED BY <2>1, <2>5, <2>6, <2>7
<1>11. LastOneFlags' BY <1>4, <1>10, LastOneKept
<1>12. FlagsHaveReasons' BY <1>4, <1>10, ReasonsKept
<1> QED BY <1>8, <1>9, <1>11, <1>12 DEF WashInv

(* The end of an evaluation, whether its flags are written or it fails, and *)
(* the end of a call in the middle of one.                                  *)
LEMMA EndStep ==
  ASSUME WashInv, NEW c \in SettleCalls, FlagsWritten(c) \/ DetectorFails(c) \/ CallDies(c)
  PROVE  WashInv'
<1>0. WashTypes /\ ClosedFirst BY DEF WashInv
<1>1. PICK row \in SettleRow :
        /\ SetCall(c, row) /\ row.stage # "flagging"
        /\ ToSet(row.queue) \subseteq ToSet(settleCall[c].queue)
  <2>1. CASE settleCall[c].queue # <<>> /\ NextSale(c)
    <3> DEFINE row == [stage |-> "evaluating", queue |-> Tail(settleCall[c].queue), found |-> {}]
    <3>1. /\ row \in SettleRow /\ row.stage # "flagging"
          /\ ToSet(row.queue) \subseteq ToSet(settleCall[c].queue)
      BY <1>0, <2>1, SettleTypes DEF SettleRow
    <3> QED BY <2>1, <3>1 DEF NextSale
  <2>2. CASE SetCall(c, IdleSettleCall("done"))
    <3>1. /\ IdleSettleCall("done") \in SettleRow
          /\ IdleSettleCall("done").stage # "flagging" /\ IdleSettleCall("done").queue = <<>>
      BY EmptySeq DEF IdleSettleCall, SettleRow
    <3>2. ToSet(<<>>) = {} BY DEF ToSet
    <3> QED BY <2>2, <3>1, <3>2
  <2> QED BY <1>0, <2>1, <2>2 DEF FlagsWritten, DetectorFails, CallDies, ClosedFirst
<1>2. /\ settleCall' \in [SettleCalls -> SettleRow] /\ settleCall'[c] = row
      /\ \A d \in SettleCalls \ {c} : settleCall'[d] = settleCall[d]
  BY <1>0, <1>1, CallSet
<1>3. UNCHANGED <<day, sale, flags>> BY DEF FlagsWritten, DetectorFails, CallDies
<1>4. /\ evaluatedAt' \in [Sales -> (0..MaxDay) \cup {NoDay}]
      /\ \A s \in Sales : evaluatedAt'[s] \in {evaluatedAt[s], NoDay}
  <2>1. CASE UNCHANGED evaluatedAt BY <1>0, <2>1 DEF WashTypes
  <2>2. CASE /\ settleCall[c].queue # <<>>
             /\ evaluatedAt' = [evaluatedAt EXCEPT ![Head(settleCall[c].queue)] = NoDay]
    <3>1. PICK s \in Sales : s = Head(settleCall[c].queue) BY <1>0, <2>2, SettleTypes
    <3> QED BY <1>0, <2>2, <3>1 DEF WashTypes
  <2> QED BY <1>0, <2>1, <2>2 DEF FlagsWritten, DetectorFails, CallDies, CutShort, ClosedFirst
<1>6. WashTypes' BY <1>0, <1>2, <1>3, <1>4 DEF WashTypes
<1>7. ClosedFirst'
  <2>1. \A d \in SettleCalls : \A s \in ToSet(settleCall'[d].queue) : sale'[s].closed
    BY <1>0, <1>1, <1>2, <1>3 DEF ClosedFirst
  <2>2. \A d \in SettleCalls : settleCall'[d].stage = "flagging" => settleCall'[d].queue # <<>>
    BY <1>0, <1>1, <1>2 DEF ClosedFirst
  <2>3. \A s \in Sales : evaluatedAt'[s] # NoDay => sale'[s].closed /\ evaluatedAt'[s] <= day'
    BY <1>0, <1>3, <1>4 DEF ClosedFirst
  <2> QED BY <2>1, <2>2, <2>3 DEF ClosedFirst
<1>8. ASSUME NEW s \in Sales PROVE FlaggedSoon(s)' => FlaggedSoon(s)
  <2>1. \A d \in SettleCalls : AboutToFlag(d, s)' => AboutToFlag(d, s)
    BY <1>1, <1>2 DEF AboutToFlag
  <2> QED BY <1>3, <2>1 DEF FlaggedSoon
<1>9. ASSUME NEW s \in Sales, FlaggedSoon(s) PROVE FlaggedSoon(s)' \/ evaluatedAt'[s] = NoDay
  <2>1. CASE <<s, "repeat_pair">> \in flags BY <1>3, <2>1 DEF FlaggedSoon
  <2>2. ASSUME NEW d \in SettleCalls \ {c}, AboutToFlag(d, s) PROVE FlaggedSoon(s)'
    BY <1>2, <2>2 DEF AboutToFlag, FlaggedSoon
  <2>3. CASE AboutToFlag(c, s)
    <3>1. /\ settleCall[c].stage = "flagging" /\ Head(settleCall[c].queue) = s
          /\ "repeat_pair" \in settleCall[c].found
      BY <2>3 DEF AboutToFlag
    <3>2. ~FlagsWritten(c) BY <3>1 DEF FlagsWritten
    <3> QED BY <1>0, <3>1, <3>2 DEF DetectorFails, CallDies, CutShort, WashTypes
  <2> QED BY <1>9, <2>1, <2>2, <2>3 DEF FlaggedSoon
<1>10. LastOneFlags' BY <1>3, <1>4, <1>9, LastOneKept
<1>11. FlagsHaveReasons' BY <1>3, <1>8, ReasonsKept
<1> QED BY <1>6, <1>7, <1>10, <1>11 DEF WashInv

LEMMA WashInvHolds == WashSpec => []WashInv
<1>1. WashInit => WashInv
  <2> SUFFICES ASSUME WashInit PROVE WashInv OBVIOUS
  <2>1. /\ day = 0 /\ flags = {} /\ evaluatedAt = [s \in Sales |-> NoDay]
        /\ settleCall = [c \in SettleCalls |-> IdleSettleCall("none")]
    BY DEF WashInit
  <2>2. /\ IdleSettleCall("none") \in SettleRow /\ IdleSettleCall("none").stage = "none"
        /\ IdleSettleCall("none").queue = <<>>
    BY EmptySeq DEF IdleSettleCall, SettleRow
  <2>3. sale \in [Sales -> SaleRow]
    <3>1. \A p \in Pairs : [closed |-> FALSE, pair |-> p, at |-> 0] \in SaleRow
      BY WashAssumption DEF SaleRow
    <3>2. sale \in [Sales -> {[closed |-> FALSE, pair |-> p, at |-> 0] : p \in Pairs}]
      BY DEF WashInit
    <3> QED BY <3>1, <3>2
  <2>4. WashTypes BY <2>1, <2>2, <2>3, WashAssumption DEF WashTypes
  <2>5. ToSet(<<>>) = {} BY DEF ToSet
  <2>6. ClosedFirst BY <2>1, <2>2, <2>5 DEF ClosedFirst
  <2>7. \A s : ~FlaggedSoon(s) BY <2>1, <2>2 DEF FlaggedSoon, AboutToFlag
  <2>8. LastOneFlags
    <3> SUFFICES ASSUME NEW trio, Repeats(trio) PROVE FALSE BY DEF LastOneFlags
    <3>1. trio # {} BY FS_EmptySet DEF Repeats, RepeatPairThreshold
    <3> QED BY <2>1, <3>1 DEF Repeats
  <2> QED BY <2>4, <2>6, <2>7, <2>8 DEF WashInv, FlagsHaveReasons
<1>2. WashInv /\ [WashNext]_washVars => WashInv'
  <2> SUFFICES ASSUME WashInv, [WashNext]_washVars PROVE WashInv' OBVIOUS
  <2>1. CASE NextDay \/ \E c \in SettleCalls : StartSettling(c) \/ EndSettling(c) \/ EndCall(c)
    BY <2>1, QuietSteps
  <2>2. CASE \E c \in SettleCalls :
               \/ CountSignals(c) \/ WriteFlag(c) \/ FlagsWritten(c) \/ DetectorFails(c)
               \/ CallDies(c) \/ \E s \in Sales : CloseSale(c, s)
    BY <2>2, CountStep, WriteStep, EndStep, CloseStep
  <2>3. CASE UNCHANGED washVars
    <3>1. /\ WashTypes' /\ ClosedFirst'
      BY <2>3 DEF washVars, WashInv, WashTypes, ClosedFirst
    <3>2. LastOneFlags'
      BY <2>3 DEF washVars, WashInv, LastOneFlags, Repeats, FlaggedSoon, AboutToFlag
    <3>3. FlagsHaveReasons'
      BY <2>3 DEF washVars, WashInv, FlagsHaveReasons, HasTwoMore, FlaggedSoon, AboutToFlag
    <3> QED BY <3>1, <3>2, <3>3 DEF WashInv
  <2> QED BY <2>1, <2>2, <2>3 DEF WashNext
<1> QED BY <1>1, <1>2, PTL DEF WashSpec

(* The last evaluation of some, by the day.                                 *)
LEMMA LastOfSome ==
  ASSUME WashTypes, NEW trio, trio \subseteq Sales, trio # {},
         \A s \in trio : evaluatedAt[s] # NoDay
  PROVE  \E last \in trio : \A x \in trio : evaluatedAt[x] <= evaluatedAt[last]
<1>1. \A s \in trio : evaluatedAt[s] \in 0..MaxDay BY DEF WashTypes
<1> DEFINE left == {MaxDay - evaluatedAt[s] : s \in trio}
<1>2. left \subseteq Nat /\ left # {} BY <1>1, WashAssumption
<1>3. PICK n \in left : \A m \in left : n <= m BY <1>2, LeastOfNaturals
<1>4. PICK last \in trio : n = MaxDay - evaluatedAt[last] OBVIOUS
<1>5. \A x \in trio : MaxDay - evaluatedAt[last] <= MaxDay - evaluatedAt[x] BY <1>3, <1>4
<1> QED BY <1>1, <1>5, WashAssumption

(* WashFlags: three sales of a pair within the window, all evaluated, leave *)
(* a flag, and no flag is without two other sales; for any number of sales, *)
(* pairs and calls that overlap, and any window.                            *)
THEOREM RepeatedPairsAreFlagged == WashSpec => []RepeatPairsAreFlagged
<1>1. WashInv => RepeatPairsAreFlagged
  <2> SUFFICES ASSUME WashInv PROVE RepeatPairsAreFlagged OBVIOUS
  <2>0. WashTypes /\ ClosedFirst BY DEF WashInv
  <2> DEFINE Latest(trio) == CHOOSE s \in trio : \A x \in trio : evaluatedAt[x] <= evaluatedAt[s]
  <2>1. ASSUME NEW trio \in SUBSET Sales, Cardinality(trio) = RepeatPairThreshold,
               \A s, x \in trio : sale[s].pair = sale[x].pair,
               \A s \in trio : evaluatedAt[s] # NoDay /\ s \notin Flagging,
               \A s \in trio : sale[s].at >= evaluatedAt[Latest(trio)] - WindowDays
        PROVE  \E s \in trio : <<s, "repeat_pair">> \in flags
    <3>1. trio # {} BY <2>1, FS_EmptySet DEF RepeatPairThreshold
    <3>2. Latest(trio) \in trio /\ \A x \in trio : evaluatedAt[x] <= evaluatedAt[Latest(trio)]
      BY <2>0, <2>1, <3>1, LastOfSome
    <3> HIDE DEF Latest
    <3>3. \A s \in trio : evaluatedAt[s] \in Nat /\ sale[s].at \in Nat
      BY <2>0, <2>1, WashAssumption DEF WashTypes, SaleRow
    <3>4. \A s, x \in trio : sale[s].at >= evaluatedAt[x] - WindowDays
      BY <2>1, <3>2, <3>3, WashAssumption
    <3>5. Repeats(trio) BY <2>1, <3>4 DEF Repeats
    <3>6. PICK s \in trio : FlaggedSoon(s) BY <3>5 DEF WashInv, LastOneFlags
    <3>7. ASSUME NEW c \in SettleCalls, AboutToFlag(c, s) PROVE s \in Flagging
      <4>1. settleCall[c].stage = "flagging" /\ s \in ToSet(settleCall[c].queue)
        BY <2>0, <3>7, SettleTypes DEF AboutToFlag, ClosedFirst
      <4> QED BY <4>1 DEF Flagging
    <3> QED BY <2>1, <3>6, <3>7 DEF FlaggedSoon
  <2>2. ASSUME NEW s \in Sales, <<s, "repeat_pair">> \in flags
        PROVE  \E x, y \in Sales \ {s} : x # y /\ {sale[x].pair, sale[y].pair} = {sale[s].pair}
                                           /\ sale[x].closed /\ sale[y].closed
    BY <2>2 DEF WashInv, FlagsHaveReasons, FlaggedSoon, HasTwoMore
  <2> QED BY <2>1, <2>2 DEF RepeatPairsAreFlagged
<1> QED BY <1>1, WashInvHolds, PTL

----------------------------------------------------------------------------
(* The rate limits.  No window admits more than its limit, and what a       *)
(* refusal tells its caller is true, for any limits, paths and number of    *)
(* calls.                                                                   *)

CallRow == [stage : {"asking", "waiting", "refused", "passed"}, at : Nat \ {0}]
Script == [call : Calls, at : Nat \ {0}, stamp : 0..MaxInstant]
Entry == [call : Calls, at : 0..MaxInstant]
Admission == [call : Calls, stamp : 0..MaxInstant, run : 0..MaxInstant]

(* Limit i of c's path has been asked. *)
Asked(c, i) == i < call[c].at \/ (i = call[c].at /\ call[c].stage # "asking")

LimitTypes ==
  /\ LimitTypeOK
  /\ \A c \in Calls : call[c].at \in DOMAIN Path[c]
  /\ \A s \in sent : s.at \in DOMAIN Path[s.call] /\ s.stamp <= instant
  /\ \A k \in Keys :
       /\ expiry[k] \in Int
       /\ admitted[k] \subseteq Admission
       /\ promised[k] \in Int
  /\ window \in [Keys -> SUBSET Entry]
  /\ DOMAIN expiry = Keys /\ DOMAIN admitted = Keys /\ DOMAIN promised = Keys

(* Of each limit of its path a call has one script at most, sent or run. *)
AsksOnce ==
  /\ \A s \in sent : Asked(s.call, s.at)
  /\ \A s, t \in sent : s.call = t.call /\ s.at = t.at => s = t
  /\ \A k \in Keys : \A e \in admitted[k] : \A i \in DOMAIN Path[e.call] :
       Path[e.call][i] = k =>
         /\ Asked(e.call, i)
         /\ \A s \in sent : ~(s.call = e.call /\ s.at = i)
  /\ \A k \in Keys : \A e, f \in admitted[k] : e.call = f.call => e = f

LEMMA PathFacts ==
  ASSUME NEW c \in Calls
  PROVE  /\ Path[c] \in Seq(Keys) /\ Len(Path[c]) \in Nat /\ Len(Path[c]) >= 1
         /\ DOMAIN Path[c] = 1..Len(Path[c])
         /\ \A i \in DOMAIN Path[c] : Path[c][i] \in Keys /\ i \in Nat \ {0}
         /\ \A i, j \in DOMAIN Path[c] : Path[c][i] = Path[c][j] => i = j
  <1>1. Path[c] \in Seq(Keys) /\ Path[c] # <<>> /\ IsInjective(Path[c])
    BY LimitAssumption DEF Keys
  <1>2. Len(Path[c]) \in Nat /\ DOMAIN Path[c] = 1..Len(Path[c]) /\ Len(Path[c]) # 0
    BY <1>1, EmptySeq
  <1>3. \A i \in DOMAIN Path[c] : Path[c][i] \in Keys
    BY <1>1, <1>2, ElementOfSeq
  <1> QED
    BY <1>1, <1>2, <1>3 DEF IsInjective

LEMMA LimitFacts ==
  ASSUME NEW k \in Keys
  PROVE  Limit[k].window \in Nat \ {0} /\ Limit[k].max \in Nat \ {0}
  BY LimitAssumption DEF Keys

LEMMA PassedOnType ==
  ASSUME LimitTypes, NEW c \in Calls
  PROVE  /\ PassedOn(c) \in CallRow /\ PassedOn(c).at \in DOMAIN Path[c]
         /\ PassedOn(c).at >= call[c].at
         /\ PassedOn(c).at = call[c].at => PassedOn(c).stage = "passed"
  <1>1. call[c] \in CallRow /\ call[c].at \in DOMAIN Path[c]
    BY DEF LimitTypes, LimitTypeOK, CallRow
  <1>2. CASE call[c].at = Len(Path[c])
    BY <1>1, <1>2 DEF PassedOn, CallRow
  <1>3. CASE call[c].at # Len(Path[c])
    <2>1. call[c].at + 1 \in DOMAIN Path[c] /\ call[c].at \in Nat
      BY <1>1, <1>3, PathFacts
    <2> QED
      BY <1>1, <1>3, <2>1 DEF PassedOn, CallRow
  <1> QED
    BY <1>2, <1>3

LEMMA OneMore ==
  ASSUME NEW S, NEW x, IsFiniteSet(S)
  PROVE  /\ IsFiniteSet(S \cup {x}) /\ Cardinality(S \cup {x}) \in Nat
         /\ Cardinality(S \cup {x}) <= Cardinality(S) + 1
  <1>1. IsFiniteSet(S \cup {x}) /\ Cardinality(S) \in Nat /\ Cardinality(S \cup {x}) \in Nat
    BY FS_AddElement, FS_CardinalityType
  <1>2. Cardinality(S \cup {x}) = Cardinality(S) \/ Cardinality(S \cup {x}) = Cardinality(S) + 1
    BY FS_AddElement
  <1> QED
    BY <1>1, <1>2

LEMMA MinOfNaturals ==
  ASSUME NEW S, S \subseteq Nat, S # {}
  PROVE  Min(S) \in S /\ \A y \in S : Min(S) <= y
  BY LeastOfNaturals DEF Min

LEMMA MinOfTwo ==
  ASSUME NEW a \in Int, NEW b \in Int
  PROVE  Min({a, b}) \in {a, b} /\ Min({a, b}) <= a /\ Min({a, b}) <= b
  <1>1. \E x \in {a, b} : \A y \in {a, b} : x <= y
    <2>1. CASE a <= b
      BY <2>1
    <2>2. CASE b <= a
      BY <2>2
    <2> QED
      BY <2>1, <2>2
  <1> QED
    BY <1>1 DEF Min

LEMMA MaxOfTwo ==
  ASSUME NEW a \in Int, NEW b \in Int
  PROVE  Max({a, b}) \in {a, b} /\ Max({a, b}) >= a /\ Max({a, b}) >= b
  <1>1. \E x \in {a, b} : \A y \in {a, b} : x >= y
    <2>1. CASE a >= b
      BY <2>1
    <2>2. CASE b >= a
      BY <2>2
    <2> QED
      BY <2>1, <2>2
  <1> QED
    BY <1>1 DEF Max

(* Rounded up to whole units, a span is no shorter. *)
LEMMA RoundedUp ==
  ASSUME NEW d \in Nat \ {0}, NEW a \in Int
  PROVE  /\ (a + d - 1) \div d \in Int
         /\ d * ((a + d - 1) \div d) >= a
  <1> DEFINE x == a + d - 1
             q == x \div d
             r == x % d
  <1>1. x \in Int /\ q \in Int /\ r \in 0..(d - 1) /\ x = d * q + r
    OBVIOUS
  <1>2. d * q \in Int
    BY <1>1
  <1> QED
    BY <1>1, <1>2

LEMMA RetryLeaves ==
  ASSUME NEW key \in Keys, NEW stamp \in Int,
         NEW entries, entries \subseteq Entry, entries # {}
  PROVE  /\ RetryAfter(entries, key, stamp) \in Int
         /\ stamp + Second * RetryAfter(entries, key, stamp) \in Int
         /\ \E e \in entries :
              stamp + Second * RetryAfter(entries, key, stamp) >= e.at + Limit[key].window
  <1> DEFINE times == {e.at : e \in entries}
             w == Limit[key].window
  <1>1. times \subseteq Nat /\ times # {}
    BY DEF Entry
  <1>2. Min(times) \in times
    <2> HIDE DEF times
    <2> QED
      BY <1>1, MinOfNaturals
  <1>3. PICK e \in entries : Min(times) = e.at
    BY <1>2
  <1>4. e.at \in Int /\ w \in Int /\ Second \in Nat \ {0}
    BY LimitFacts, LimitAssumption DEF Entry
  <1> DEFINE span == e.at + w - stamp
             q == (span + Second - 1) \div Second
  <1>5. span \in Int
    BY <1>4
  <1>6. q \in Int /\ Second * q >= span
    <2> HIDE DEF span
    <2> QED
      BY <1>4, <1>5, RoundedUp
  <1>7. RetryAfter(entries, key, stamp) = Max({1, q})
    BY <1>3 DEF RetryAfter
  <1> HIDE DEF q
  <1>8. Max({1, q}) \in Int /\ Max({1, q}) >= q
    <2>1. 1 \in Int
      OBVIOUS
    <2>2. Max({1, q}) \in {1, q} /\ Max({1, q}) >= q
      BY <1>6, <2>1, MaxOfTwo, Zenon
    <2> QED
      BY <1>6, <2>2
  <1>9. \A m \in Int : m >= q => Second * m \in Int /\ Second * m >= Second * q
    BY <1>4, <1>6
  <1>10. /\ Second * Max({1, q}) \in Int /\ Second * q \in Int
         /\ Second * Max({1, q}) >= span
    <2>1. /\ Second * Max({1, q}) \in Int /\ Second * Max({1, q}) >= Second * q
          /\ Second * q \in Int
      BY <1>4, <1>6, <1>8, <1>9
    <2> HIDE DEF span
    <2> QED
      BY <2>1, <1>5, <1>6
  <1>11. stamp + Second * Max({1, q}) >= e.at + w
    BY <1>4, <1>10
  <1>12. stamp + Second * Max({1, q}) \in Int
    BY <1>10
  <1> QED
    BY <1>7, <1>8, <1>11, <1>12, Zenon

(* The two outcomes of the script s. *)
KeyOf(s) == Path[s.call][s.at]
CountedBy(s) == Counted(KeyOf(s), s.stamp)

Refuses(s) ==
  /\ Cardinality(CountedBy(s)) >= Limit[KeyOf(s)].max
  /\ window' = [window EXCEPT ![KeyOf(s)] = CountedBy(s)]
  /\ UNCHANGED <<expiry, admitted>>
  /\ \A k \in Keys \ {KeyOf(s)} : promised'[k] = promised[k]
  /\ DOMAIN promised' = Keys
  /\ promised'[KeyOf(s)] \in Int
  /\ \/ /\ promised[KeyOf(s)] # NoPromise
        /\ promised'[KeyOf(s)] = promised[KeyOf(s)]
     \/ \E e \in CountedBy(s) : promised'[KeyOf(s)] >= e.at + Limit[KeyOf(s)].window

Admits(s) ==
  /\ ~ Cardinality(CountedBy(s)) >= Limit[KeyOf(s)].max
  /\ window' = [window EXCEPT ![KeyOf(s)] = CountedBy(s) \cup {[call |-> s.call, at |-> s.stamp]}]
  /\ expiry' = [expiry EXCEPT ![KeyOf(s)] = instant + Limit[KeyOf(s)].window]
  /\ admitted' = [admitted EXCEPT ![KeyOf(s)] =
                    @ \cup {[call |-> s.call, stamp |-> s.stamp, run |-> instant]}]
  /\ promised' = [promised EXCEPT ![KeyOf(s)] = NoPromise]

LEMMA SmallWindow == 
  ASSUME NEW S, IsFiniteSet(S), NEW m \in Nat \ {0}, Cardinality(S) >= m
  PROVE  S # {}
  BY FS_EmptySet

WindowsFit == \A k \in Keys : IsFiniteSet(window[k]) /\ Cardinality(window[k]) <= Limit[k].max

LEMMA ScriptOutcome ==
  ASSUME LimitTypes, WindowsFit, NEW s \in sent, RunScript(s)
  PROVE  /\ Refuses(s) \/ Admits(s)
         /\ sent' = sent \ {s} /\ UNCHANGED <<instant, bypassed>>
         /\ KeyOf(s) \in Keys /\ CountedBy(s) \subseteq window[KeyOf(s)]
         /\ s.call \in Calls /\ s.stamp \in 0..MaxInstant /\ s.at \in DOMAIN Path[s.call]
  <1>1. /\ s.call \in Calls /\ s.stamp \in 0..MaxInstant /\ s.stamp \in Int
        /\ s.at \in DOMAIN Path[s.call]
    BY DEF LimitTypes, LimitTypeOK
  <1>2. KeyOf(s) \in Keys
    BY <1>1, PathFacts DEF KeyOf
  <1>3. CountedBy(s) \subseteq window[KeyOf(s)]
    BY DEF CountedBy, Counted
  <1>4. sent' = sent \ {s} /\ UNCHANGED <<instant, bypassed>>
    BY DEF RunScript
  <1>5. CASE Cardinality(CountedBy(s)) >= Limit[KeyOf(s)].max
    <2> DEFINE until == s.stamp + Second * RetryAfter(CountedBy(s), KeyOf(s), s.stamp)
               k == KeyOf(s)
    <2>1. /\ window' = [window EXCEPT ![k] = CountedBy(s)]
          /\ UNCHANGED <<expiry, admitted>>
          /\ promised' = [promised EXCEPT ![k] = IF @ = NoPromise THEN until ELSE Min({@, until})]
      BY <1>5 DEF RunScript, KeyOf, CountedBy
    <2>2. CountedBy(s) \subseteq Entry /\ CountedBy(s) # {}
      <3>1. IsFiniteSet(CountedBy(s))
        BY <1>2, <1>3, FS_Subset DEF WindowsFit
      <3> QED
        BY <1>2, <1>3, <1>5, <3>1, SmallWindow, LimitFacts DEF LimitTypes
    <2>3. until \in Int /\ \E e \in CountedBy(s) : until >= e.at + Limit[k].window
      BY <1>1, <1>2, <2>2, RetryLeaves
    <2> HIDE DEF until, k
    <2>4. promised[k] \in Int /\ DOMAIN promised = Keys /\ k \in Keys
      BY <1>2 DEF LimitTypes, k
    <2>5. promised'[k] = IF promised[k] = NoPromise THEN until ELSE Min({promised[k], until})
      BY <2>1, <2>4
    <2>6. Min({promised[k], until}) \in {promised[k], until}
      BY <2>3, <2>4, MinOfTwo
    <2>7. \/ promised'[k] = until
          \/ promised'[k] = promised[k] /\ promised[k] # NoPromise
      BY <2>5, <2>6
    <2>8. /\ \A j \in Keys \ {k} : promised'[j] = promised[j]
          /\ DOMAIN promised' = Keys
      BY <2>1, <2>4
    <2>9. Refuses(s)
      BY <1>5, <2>1, <2>3, <2>4, <2>7, <2>8 DEF Refuses, k
    <2> QED
      BY <1>1, <1>2, <1>3, <1>4, <2>9
  <1>6. CASE ~ Cardinality(CountedBy(s)) >= Limit[KeyOf(s)].max
    BY <1>1, <1>2, <1>3, <1>4, <1>6 DEF RunScript, KeyOf, CountedBy, Admits
  <1> QED
    BY <1>5, <1>6

(* What the caller makes of the answer. *)
LEMMA CallAfterScript ==
  ASSUME LimitTypes, NEW s \in sent, RunScript(s)
  PROVE  /\ call' \in [Calls -> CallRow]
         /\ \A c \in Calls :
              /\ call'[c].at \in DOMAIN Path[c]
              /\ \/ call'[c] = call[c]
                 \/ /\ c = s.call /\ call[c].stage = "waiting" /\ call[c].at = s.at
                    /\ \/ /\ Cardinality(CountedBy(s)) >= Limit[KeyOf(s)].max
                          /\ call'[c] = [call[c] EXCEPT !.stage = "refused"]
                       \/ /\ ~ Cardinality(CountedBy(s)) >= Limit[KeyOf(s)].max
                          /\ call'[c] = PassedOn(c)
  <1> DEFINE c == s.call
             waits == call[c].stage = "waiting" /\ call[c].at = s.at
             full == Cardinality(CountedBy(s)) >= Limit[KeyOf(s)].max
             row == IF full THEN [call[c] EXCEPT !.stage = "refused"] ELSE PassedOn(c)
  <1>1. c \in Calls /\ call \in [Calls -> CallRow]
    BY DEF LimitTypes, LimitTypeOK, CallRow
  <1>2. call' = IF waits THEN [call EXCEPT ![c] = row] ELSE call
    BY DEF RunScript, KeyOf, CountedBy
  <1>3. row \in CallRow /\ row.at \in DOMAIN Path[c]
    <2>1. CASE full
      <3>1. row = [call[c] EXCEPT !.stage = "refused"]
        BY <2>1
      <3>2. row \in CallRow /\ row.at = call[c].at
        BY <1>1, <3>1 DEF CallRow
      <3> QED
        BY <1>1, <3>2 DEF LimitTypes
    <2>2. CASE ~full
      BY <1>1, <2>2, PassedOnType
    <2> QED
      BY <2>1, <2>2
  <1>4. \A d \in Calls : call[d].at \in DOMAIN Path[d]
    BY DEF LimitTypes
  <1>5. row = IF full THEN [call[c] EXCEPT !.stage = "refused"] ELSE PassedOn(c)
    OBVIOUS
  <1>6. CASE ~waits
    BY <1>1, <1>2, <1>4, <1>6
  <1>7. CASE waits
    <2> HIDE DEF row
    <2>1. call' = [call EXCEPT ![c] = row]
      BY <1>2, <1>7
    <2>2. call'[c] = row /\ \A d \in Calls \ {c} : call'[d] = call[d]
      BY <1>1, <2>1
    <2>3. call' \in [Calls -> CallRow]
      BY <1>1, <1>3, <2>1
    <2> QED
      BY <1>1, <1>3, <1>4, <1>5, <1>7, <2>2, <2>3
  <1> QED
    BY <1>6, <1>7

LEMMA LimitTypesStep ==
  ASSUME LimitTypes, WindowsFit, [LimitNext]_limitVars
  PROVE  LimitTypes'
  <1> USE DEF LimitTypes, LimitTypeOK
  <1>1. /\ instant \in 0..MaxInstant /\ instant \in Int /\ MaxInstant \in Nat
        /\ \A c \in Calls : call[c] \in CallRow /\ call[c].at \in DOMAIN Path[c]
    BY LimitAssumption DEF CallRow
  <1>a. ASSUME call' \in [Calls -> CallRow], \A d \in Calls : call'[d].at \in DOMAIN Path[d],
               sent' \subseteq sent, instant' = instant, window' \in [Keys -> SUBSET Entry],
               DOMAIN expiry' = Keys, \A k \in Keys : expiry'[k] \in Int,
               DOMAIN admitted' = Keys, \A k \in Keys : admitted'[k] \subseteq Admission,
               DOMAIN promised' = Keys, \A k \in Keys : promised'[k] \in Int
        PROVE  LimitTypes'
    <2>1. \A k \in Keys : window'[k] \subseteq Entry
      BY <1>a
    <2>2. LimitTypeOK'
      BY <1>1, <1>a, <2>1 DEF CallRow, Entry
    <2>3. \A s \in sent' : s.at \in DOMAIN Path[s.call] /\ s.stamp <= instant'
      BY <1>a
    <2> QED
      BY <1>a, <2>2, <2>3
  <1>2. CASE NextInstant
    BY <1>1, <1>2 DEF NextInstant, limitHistory
  <1>3. ASSUME NEW c \in Calls, SendScript(c)
        PROVE  LimitTypes'
    <2> DEFINE row == [call[c] EXCEPT !.stage = "waiting"]
               new == [call |-> c, at |-> call[c].at, stamp |-> instant]
    <2>1. call' = [call EXCEPT ![c] = row] /\ row \in CallRow /\ row.at = call[c].at
      BY <1>1, <1>3 DEF SendScript, CallRow
    <2>2. sent' = sent \cup {new} /\ new \in Script /\ new.stamp = instant
          /\ new.at = call[c].at /\ new.call = c
      BY <1>1, <1>3 DEF SendScript, CallRow, Script
    <2> HIDE DEF row, new
    <2>3. \A d \in Calls : call'[d] \in CallRow /\ call'[d].at = call[d].at
      BY <1>1, <2>1
    <2>4. \A s \in sent' : /\ s \in Script /\ s.at \in DOMAIN Path[s.call]
                           /\ s.stamp <= instant
      BY <1>1, <2>2 DEF Script
    <2> QED
      BY <1>1, <1>3, <2>1, <2>2, <2>3, <2>4 DEF SendScript, limitHistory, CallRow, Script
  <1>4. ASSUME NEW c \in Calls, FailOpen(c)
        PROVE  LimitTypes'
    <2>1. \A d \in Calls : call'[d] \in CallRow /\ call'[d].at \in DOMAIN Path[d]
      BY <1>1, <1>4, PassedOnType DEF FailOpen
    <2>2. call' \in [Calls -> CallRow]
      BY <1>4, <2>1 DEF FailOpen
    <2> QED
      BY <1>1, <1>4, <2>1, <2>2 DEF FailOpen, CallRow
  <1>5. ASSUME NEW s \in sent, RunScript(s)
        PROVE  LimitTypes'
    <2>1. call' \in [Calls -> CallRow] /\ \A d \in Calls : call'[d].at \in DOMAIN Path[d]
      BY <1>5, CallAfterScript
    <2> DEFINE k == KeyOf(s)
               new == [call |-> s.call, at |-> s.stamp]
               adm == [call |-> s.call, stamp |-> s.stamp, run |-> instant]
    <2>2. /\ k \in Keys /\ CountedBy(s) \subseteq window[k] /\ sent' = sent \ {s}
          /\ instant' = instant /\ (Refuses(s) \/ Admits(s))
      BY <1>5, ScriptOutcome
    <2>3. new \in Entry /\ adm \in Admission
      BY <1>1, <1>5, ScriptOutcome DEF Entry, Admission
    <2>4. Limit[k].window \in Int /\ instant + Limit[k].window \in Int /\ NoPromise \in Int
      BY <1>1, <2>2, LimitFacts DEF NoPromise
    <2>5. CASE Refuses(s)
      <3>1. window' \in [Keys -> SUBSET Entry]
        BY <2>2, <2>5 DEF Refuses
      <3>2. \A j \in Keys : promised'[j] \in Int
        BY <2>5 DEF Refuses
      <3>3. /\ DOMAIN expiry' = Keys /\ \A j \in Keys : expiry'[j] \in Int
            /\ DOMAIN admitted' = Keys /\ \A j \in Keys : admitted'[j] \subseteq Admission
            /\ DOMAIN promised' = Keys
        BY <2>5 DEF Refuses
      <3> HIDE DEF LimitTypes, LimitTypeOK, k, new, adm
      <3> QED
        BY <1>a, <2>1, <2>2, <3>1, <3>2, <3>3
    <2>6. CASE Admits(s)
      <3> HIDE DEF new, adm
      <3>1. window' = [window EXCEPT ![k] = CountedBy(s) \cup {new}]
        BY <2>6 DEF Admits, new
      <3>2. window' \in [Keys -> SUBSET Entry]
        BY <2>2, <2>3, <3>1
      <3>3. admitted' = [admitted EXCEPT ![k] = @ \cup {adm}]
        BY <2>6 DEF Admits, adm
      <3>4. DOMAIN admitted' = Keys /\ \A j \in Keys : admitted'[j] \subseteq Admission
        BY <2>2, <2>3, <3>3
      <3>5. /\ DOMAIN promised' = Keys /\ \A j \in Keys : promised'[j] \in Int
            /\ DOMAIN expiry' = Keys /\ \A j \in Keys : expiry'[j] \in Int
        BY <2>2, <2>4, <2>6 DEF Admits
      <3> HIDE DEF LimitTypes, LimitTypeOK, k
      <3> QED
        BY <1>a, <2>1, <2>2, <3>2, <3>4, <3>5
    <2> QED
      BY <2>2, <2>5, <2>6
  <1>6. CASE UNCHANGED limitVars
    BY <1>6 DEF limitVars, limitHistory
  <1> QED
    BY <1>2, <1>3, <1>4, <1>5, <1>6 DEF LimitNext

(* A call only moves on: what has been asked stays asked. *)
LEMMA CallMovesOn ==
  ASSUME LimitTypes, WindowsFit, [LimitNext]_limitVars, NEW c \in Calls
  PROVE  \/ call'[c] = call[c]
         \/ /\ call[c].stage \in {"asking", "waiting"}
            /\ call'[c].at = call[c].at /\ call'[c].stage # "asking"
         \/ call[c].stage \in {"asking", "waiting"} /\ call'[c] = PassedOn(c)
  <1>1. call \in [Calls -> CallRow]
    BY DEF LimitTypes, LimitTypeOK, CallRow
  <1>2. ASSUME NEW d \in Calls, SendScript(d)
        PROVE  \/ call'[c] = call[c]
               \/ /\ call[c].stage \in {"asking", "waiting"}
                  /\ call'[c].at = call[c].at /\ call'[c].stage # "asking"
    BY <1>1, <1>2 DEF SendScript, CallRow
  <1>3. ASSUME NEW d \in Calls, FailOpen(d)
        PROVE  \/ call'[c] = call[c]
               \/ call[c].stage \in {"asking", "waiting"} /\ call'[c] = PassedOn(c)
    BY <1>1, <1>3 DEF FailOpen
  <1>4. ASSUME NEW s \in sent, RunScript(s)
        PROVE  \/ call'[c] = call[c]
               \/ /\ call[c].stage \in {"asking", "waiting"}
                  /\ call'[c].at = call[c].at /\ call'[c].stage # "asking"
               \/ call[c].stage \in {"asking", "waiting"} /\ call'[c] = PassedOn(c)
    <2>1. CASE call'[c] = [call[c] EXCEPT !.stage = "refused"] /\ call[c].stage = "waiting"
      <3>1. call[c] \in CallRow
        BY <1>1
      <3> QED
        BY <2>1, <3>1 DEF CallRow
    <2> QED
      BY <1>4, <2>1, CallAfterScript
  <1>5. CASE NextInstant \/ UNCHANGED limitVars
    BY <1>5 DEF NextInstant, limitVars
  <1> QED
    BY <1>2, <1>3, <1>4, <1>5 DEF LimitNext

LEMMA AskedStays ==
  ASSUME LimitTypes, WindowsFit, [LimitNext]_limitVars, NEW c \in Calls, NEW i \in Nat,
         Asked(c, i)
  PROVE  Asked(c, i)'
  <1>1. call[c] \in CallRow
    BY DEF LimitTypes, LimitTypeOK, CallRow
  <1>2. CASE call'[c] = call[c]
    BY <1>2 DEF Asked
  <1>3. CASE call'[c].at = call[c].at /\ call'[c].stage # "asking"
    BY <1>3 DEF Asked
  <1>4. CASE call'[c] = PassedOn(c)
    <2>1. /\ PassedOn(c).at \in Nat /\ PassedOn(c).at >= call[c].at /\ call[c].at \in Nat
          /\ PassedOn(c).at = call[c].at => PassedOn(c).stage # "asking"
      BY <1>1, PassedOnType DEF CallRow
    <2> HIDE DEF PassedOn
    <2> QED
      BY <1>4, <2>1 DEF Asked
  <1> QED
    BY <1>2, <1>3, <1>4, CallMovesOn

LEMMA AsksOnceStep ==
  ASSUME LimitTypes, LimitTypes', WindowsFit, AsksOnce, [LimitNext]_limitVars
  PROVE  AsksOnce'
  <1>1. /\ \A c \in Calls : call[c] \in CallRow
        /\ \A s \in sent : s \in Script /\ s.at \in Nat
        /\ \A k \in Keys : \A e \in admitted[k] : e \in Admission /\ e.call \in Calls
    BY DEF LimitTypes, LimitTypeOK, CallRow, Script, Admission
  <1>2. \A c \in Calls : \A i \in Nat : Asked(c, i) => Asked(c, i)'
    BY AskedStays
  <1>a. \A c \in Calls : \A i \in DOMAIN Path[c] : i \in Nat
    BY PathFacts
  <1>b. ASSUME sent' \subseteq sent, admitted' = admitted
        PROVE  AsksOnce'
    <2>1. \A s \in sent' : Asked(s.call, s.at)'
      BY <1>1, <1>2, <1>b DEF AsksOnce, Script
    <2>2. \A s, t \in sent' : s.call = t.call /\ s.at = t.at => s = t
      BY <1>b DEF AsksOnce
    <2>3. \A k \in Keys : \A e \in admitted'[k] : \A i \in DOMAIN Path[e.call] :
            Path[e.call][i] = k =>
              /\ Asked(e.call, i)'
              /\ \A s \in sent' : ~(s.call = e.call /\ s.at = i)
      BY <1>1, <1>2, <1>a, <1>b DEF AsksOnce
    <2>4. \A k \in Keys : \A e, f \in admitted'[k] : e.call = f.call => e = f
      BY <1>b DEF AsksOnce
    <2> QED
      BY <2>1, <2>2, <2>3, <2>4 DEF AsksOnce
  <1>3. CASE NextInstant
    BY <1>b, <1>3 DEF NextInstant, limitHistory
  <1>4. ASSUME NEW c \in Calls, SendScript(c)
        PROVE  AsksOnce'
    <2> DEFINE new == [call |-> c, at |-> call[c].at, stamp |-> instant]
    <2>1. /\ sent' = sent \cup {new} /\ admitted' = admitted
          /\ new.call = c /\ new.at = call[c].at
          /\ call[c].stage = "asking" /\ call'[c].stage = "waiting"
          /\ call'[c].at = call[c].at /\ call[c].at \in Nat
      <3>1. call \in [Calls -> CallRow]
        BY DEF LimitTypes, LimitTypeOK, CallRow
      <3>2. /\ call' = [call EXCEPT ![c] = [call[c] EXCEPT !.stage = "waiting"]]
            /\ sent' = sent \cup {new} /\ admitted' = admitted /\ call[c].stage = "asking"
        BY <1>4 DEF SendScript, limitHistory
      <3>3. [call[c] EXCEPT !.stage = "waiting"].stage = "waiting"
            /\ [call[c] EXCEPT !.stage = "waiting"].at = call[c].at /\ call[c].at \in Nat
        BY <3>1 DEF CallRow
      <3>4. call'[c] = [call[c] EXCEPT !.stage = "waiting"]
        BY <3>1, <3>2
      <3> QED
        BY <3>2, <3>3, <3>4
    <2> HIDE DEF new
    <2>2. ~Asked(c, call[c].at)
      BY <1>1, <2>1 DEF Asked
    <2>3. Asked(c, call[c].at)'
      BY <2>1 DEF Asked
    <2>4. \A s \in sent' : Asked(s.call, s.at)'
      <3> TAKE s \in sent'
      <3>1. CASE s = new
        BY <2>1, <3>1 DEF Asked
      <3>2. CASE s \in sent
        BY <1>1, <1>2, <3>2 DEF AsksOnce, Script
      <3> QED
        BY <2>1, <3>1, <3>2
    <2>5. \A s \in sent : ~(s.call = c /\ s.at = call[c].at)
      BY <2>2 DEF AsksOnce
    <2>6. \A s, t \in sent' : s.call = t.call /\ s.at = t.at => s = t
      BY <2>1, <2>5 DEF AsksOnce
    <2>7. \A k \in Keys : \A e \in admitted'[k] : \A i \in DOMAIN Path[e.call] :
            Path[e.call][i] = k =>
              /\ Asked(e.call, i)'
              /\ \A s \in sent' : ~(s.call = e.call /\ s.at = i)
      <3> TAKE k \in Keys
      <3> TAKE e \in admitted'[k]
      <3> TAKE i \in DOMAIN Path[e.call]
      <3> HAVE Path[e.call][i] = k
      <3>1. /\ e \in admitted[k] /\ Asked(e.call, i) /\ e.call \in Calls /\ i \in Nat
            /\ \A s \in sent : ~(s.call = e.call /\ s.at = i)
        BY <1>1, <1>a, <2>1 DEF AsksOnce
      <3>2. ~(e.call = c /\ i = call[c].at)
        BY <2>2, <3>1
      <3> QED
        BY <1>2, <2>1, <3>1, <3>2
    <2>8. \A k \in Keys : \A e, f \in admitted'[k] : e.call = f.call => e = f
      BY <2>1 DEF AsksOnce
    <2> QED
      BY <2>4, <2>6, <2>7, <2>8 DEF AsksOnce
  <1>5. ASSUME NEW c \in Calls, FailOpen(c)
        PROVE  AsksOnce'
    BY <1>b, <1>5 DEF FailOpen
  <1>6. ASSUME NEW s \in sent, RunScript(s)
        PROVE  AsksOnce'
    <2> DEFINE key == KeyOf(s)
               adm == [call |-> s.call, stamp |-> s.stamp, run |-> instant]
    <2>1. /\ key \in Keys /\ sent' = sent \ {s} /\ (Refuses(s) \/ Admits(s))
          /\ s.call \in Calls /\ s.at \in DOMAIN Path[s.call] /\ Path[s.call][s.at] = key
      BY <1>6, ScriptOutcome DEF KeyOf
    <2>2. CASE Refuses(s)
      BY <1>b, <2>1, <2>2 DEF Refuses
    <2>3. CASE Admits(s)
      <3>1. admitted' = [admitted EXCEPT ![key] = @ \cup {adm}] /\ adm.call = s.call
        BY <2>3 DEF Admits
      <3> HIDE DEF adm, key
      <3>2. /\ admitted'[key] = admitted[key] \cup {adm}
            /\ \A k \in Keys \ {key} : admitted'[k] = admitted[k]
        BY <2>1, <3>1 DEF LimitTypes
      <3>3. \A e \in admitted[key] : e.call # s.call
        BY <2>1 DEF AsksOnce
      <3>4. \A t \in sent' : Asked(t.call, t.at)'
        BY <1>1, <1>2, <2>1 DEF AsksOnce, Script
      <3>5. \A t, u \in sent' : t.call = u.call /\ t.at = u.at => t = u
        BY <2>1 DEF AsksOnce
      <3>6. \A k \in Keys : \A e \in admitted'[k] : \A i \in DOMAIN Path[e.call] :
              Path[e.call][i] = k =>
                /\ Asked(e.call, i)'
                /\ \A t \in sent' : ~(t.call = e.call /\ t.at = i)
        <4> TAKE k \in Keys
        <4> TAKE e \in admitted'[k]
        <4> TAKE i \in DOMAIN Path[e.call]
        <4> HAVE Path[e.call][i] = k
        <4>1. CASE e \in admitted[k]
          BY <1>1, <1>2, <1>a, <2>1, <4>1 DEF AsksOnce
        <4>2. CASE e = adm /\ k = key
          <5>1. e.call = s.call /\ i = s.at
            BY <2>1, <3>1, <4>2, PathFacts
          <5>2. Asked(s.call, s.at)'
            BY <1>1, <1>2, <2>1 DEF AsksOnce
          <5>3. \A t \in sent' : ~(t.call = s.call /\ t.at = s.at)
            BY <2>1 DEF AsksOnce
          <5>4. Asked(e.call, i)'
            BY <5>1, <5>2 DEF Asked
          <5> QED
            BY <5>1, <5>3, <5>4
        <4> QED
          BY <3>2, <4>1, <4>2
      <3>7. \A k \in Keys : \A e, f \in admitted'[k] : e.call = f.call => e = f
        BY <3>1, <3>2, <3>3 DEF AsksOnce
      <3> QED
        BY <3>4, <3>5, <3>6, <3>7 DEF AsksOnce
    <2> QED
      BY <2>1, <2>2, <2>3
  <1>7. CASE UNCHANGED limitVars
    BY <1>b, <1>7 DEF limitVars, limitHistory
  <1> QED
    BY <1>3, <1>4, <1>5, <1>6, <1>7 DEF LimitNext

LEMMA WindowsFitStep ==
  ASSUME LimitTypes, WindowsFit, [LimitNext]_limitVars
  PROVE  WindowsFit'
  <1>1. ASSUME NEW s \in sent, RunScript(s)
        PROVE  WindowsFit'
    <2> DEFINE key == KeyOf(s)
               new == [call |-> s.call, at |-> s.stamp]
    <2>1. /\ key \in Keys /\ CountedBy(s) \subseteq window[key]
          /\ (Refuses(s) \/ Admits(s)) /\ DOMAIN window = Keys
      BY <1>1, ScriptOutcome DEF LimitTypes
    <2>2. /\ IsFiniteSet(CountedBy(s)) /\ Cardinality(CountedBy(s)) <= Cardinality(window[key])
          /\ Cardinality(CountedBy(s)) \in Nat /\ Cardinality(window[key]) \in Nat
          /\ Cardinality(window[key]) <= Limit[key].max /\ Limit[key].max \in Nat
      BY <2>1, FS_Subset, FS_CardinalityType, LimitFacts DEF WindowsFit
    <2>3. IsFiniteSet(window'[key]) /\ Cardinality(window'[key]) <= Limit[key].max
      <3>1. CASE Refuses(s)
        BY <2>1, <2>2, <3>1 DEF Refuses
      <3>2. CASE Admits(s)
        <4>1. window'[key] = CountedBy(s) \cup {new}
          BY <2>1, <3>2 DEF Admits
        <4>2. Cardinality(CountedBy(s)) < Limit[key].max
          BY <2>2, <3>2 DEF Admits
        <4> HIDE DEF new, key
        <4>3. /\ IsFiniteSet(CountedBy(s) \cup {new})
              /\ Cardinality(CountedBy(s) \cup {new}) <= Cardinality(CountedBy(s)) + 1
          BY <2>2, OneMore
        <4>4. Cardinality(CountedBy(s) \cup {new}) \in Nat
          BY <4>3, FS_CardinalityType
        <4> QED
          BY <2>2, <4>1, <4>2, <4>3, <4>4
      <3> QED
        BY <2>1, <3>1, <3>2
    <2>4. \A k \in Keys \ {key} : window'[k] = window[k]
      BY <2>1 DEF Refuses, Admits
    <2> QED
      BY <2>3, <2>4 DEF WindowsFit
  <1>2. window' = window => WindowsFit'
    BY DEF WindowsFit
  <1>3. ASSUME NEW c \in Calls, SendScript(c) \/ FailOpen(c)
        PROVE  WindowsFit'
    BY <1>2, <1>3 DEF SendScript, FailOpen
  <1>4. CASE NextInstant \/ UNCHANGED limitVars
    BY <1>2, <1>4 DEF NextInstant, limitVars
  <1> QED
    BY <1>1, <1>3, <1>4 DEF LimitNext

(* What Redis remembers of the admissions that still count. *)
LogsKeep ==
  \A k \in Keys :
    /\ IsFiniteSet(admitted[k])
    /\ \A e \in admitted[k] :
         /\ e.stamp <= e.run /\ e.run <= instant /\ e.run + Limit[k].window <= expiry[k]
         /\ e.stamp > instant - Limit[k].window /\ e.run > instant - Limit[k].window =>
              [call |-> e.call, at |-> e.stamp] \in window[k]

LEMMA LogsKeepStep ==
  ASSUME LimitTypes, LimitTypes', WindowsFit, LogsKeep, [LimitNext]_limitVars
  PROVE  LogsKeep'
  <1>1. /\ instant \in Nat /\ instant' \in Nat
        /\ \A k \in Keys : Limit[k].window \in Nat /\ expiry[k] \in Int /\ expiry'[k] \in Int
        /\ \A k \in Keys : \A e \in admitted[k] : e.stamp \in Int /\ e.run \in Int
    BY LimitFacts DEF LimitTypes, LimitTypeOK, Admission
  <1>2. ASSUME NEW s \in sent, RunScript(s)
        PROVE  LogsKeep'
    <2> DEFINE key == KeyOf(s)
               new == [call |-> s.call, at |-> s.stamp]
               adm == [call |-> s.call, stamp |-> s.stamp, run |-> instant]
               w == Limit[key].window
    <2>1. /\ key \in Keys /\ (Refuses(s) \/ Admits(s)) /\ instant' = instant
          /\ DOMAIN window = Keys /\ DOMAIN admitted = Keys /\ DOMAIN expiry = Keys
          /\ s.stamp \in Int /\ s.stamp <= instant
      BY <1>2, ScriptOutcome DEF LimitTypes
    <2>2. ASSUME NEW e \in admitted[key],
                 e.stamp > instant - w, e.run > instant - w
          PROVE  [call |-> e.call, at |-> e.stamp] \in CountedBy(s)
      <3>1. /\ [call |-> e.call, at |-> e.stamp] \in window[key]
            /\ e.run + w <= expiry[key]
        BY <2>1, <2>2 DEF LogsKeep
      <3>2. instant < expiry[key] /\ e.stamp > s.stamp - w
        BY <1>1, <2>1, <2>2, <3>1
      <3> QED
        BY <3>1, <3>2 DEF CountedBy, Counted
    <2>3. CASE Refuses(s)
      <3>1. /\ window' = [window EXCEPT ![key] = CountedBy(s)]
            /\ UNCHANGED <<expiry, admitted>>
        BY <2>3 DEF Refuses
      <3> HIDE DEF key
      <3>2. window'[key] = CountedBy(s) /\ \A k \in Keys \ {key} : window'[k] = window[k]
        BY <2>1, <3>1
      <3> QED
        BY <2>1, <2>2, <3>1, <3>2 DEF LogsKeep
    <2>4. CASE Admits(s)
      <3>1. /\ window' = [window EXCEPT ![key] = CountedBy(s) \cup {new}]
            /\ expiry' = [expiry EXCEPT ![key] = instant + w]
            /\ admitted' = [admitted EXCEPT ![key] = @ \cup {adm}]
            /\ adm.stamp = s.stamp /\ adm.run = instant
            /\ new = [call |-> adm.call, at |-> adm.stamp]
        BY <2>4 DEF Admits
      <3> HIDE DEF key, new, adm
      <3>2. /\ window'[key] = CountedBy(s) \cup {new} /\ expiry'[key] = instant + w
            /\ admitted'[key] = admitted[key] \cup {adm}
            /\ \A k \in Keys \ {key} : /\ window'[k] = window[k] /\ expiry'[k] = expiry[k]
                                       /\ admitted'[k] = admitted[k]
        BY <2>1, <3>1
      <3>3. IsFiniteSet(admitted'[key])
        BY <2>1, <3>2, FS_AddElement DEF LogsKeep
      <3>4. ASSUME NEW e \in admitted'[key]
            PROVE  /\ e.stamp <= e.run /\ e.run <= instant' /\ e.run + w <= expiry'[key]
                   /\ e.stamp > instant' - w /\ e.run > instant' - w =>
                        [call |-> e.call, at |-> e.stamp] \in window'[key]
        <4>1. CASE e = adm
          BY <1>1, <2>1, <3>1, <3>2, <4>1
        <4>2. CASE e \in admitted[key]
          <5>1. /\ e.stamp <= e.run /\ e.run <= instant /\ e.stamp \in Int /\ e.run \in Int
            BY <1>1, <2>1, <4>2 DEF LogsKeep
          <5>2. e.run + w <= instant + w
            BY <1>1, <2>1, <5>1
          <5> QED
            BY <2>1, <2>2, <3>2, <4>2, <5>1, <5>2
        <4> QED
          BY <3>2, <4>1, <4>2
      <3>5. ASSUME NEW k \in Keys
            PROVE  /\ IsFiniteSet(admitted'[k])
                   /\ \A e \in admitted'[k] :
                        /\ e.stamp <= e.run /\ e.run <= instant'
                        /\ e.run + Limit[k].window <= expiry'[k]
                        /\ (e.stamp > instant' - Limit[k].window
                              /\ e.run > instant' - Limit[k].window)
                             => [call |-> e.call, at |-> e.stamp] \in window'[k]
        <4>1. CASE k = key
          BY <3>3, <3>4, <4>1
        <4>2. CASE k # key
          BY <2>1, <3>2, <4>2 DEF LogsKeep
        <4> QED
          BY <4>1, <4>2
      <3> QED
        BY <3>5 DEF LogsKeep
    <2> QED
      BY <2>1, <2>3, <2>4
  <1>3. ASSUME instant' >= instant, UNCHANGED <<window, expiry, admitted>>
        PROVE  LogsKeep'
    <2>1. ASSUME NEW k \in Keys, NEW e \in admitted[k]
          PROVE  /\ e.stamp <= e.run /\ e.run <= instant' /\ e.run + Limit[k].window <= expiry[k]
                 /\ e.stamp > instant' - Limit[k].window /\ e.run > instant' - Limit[k].window =>
                      [call |-> e.call, at |-> e.stamp] \in window[k]
      BY <1>1, <1>3, <2>1 DEF LogsKeep
    <2> QED
      BY <1>3, <2>1 DEF LogsKeep
  <1>4. ASSUME NEW c \in Calls, SendScript(c) \/ FailOpen(c)
        PROVE  LogsKeep'
    BY <1>1, <1>3, <1>4 DEF SendScript, FailOpen, limitHistory
  <1>5. CASE NextInstant \/ UNCHANGED limitVars
    BY <1>1, <1>3, <1>5 DEF NextInstant, limitVars, limitHistory
  <1> QED
    BY <1>2, <1>4, <1>5 DEF LimitNext

LimitInv == LimitTypes /\ WindowsFit /\ AsksOnce /\ LogsKeep

Within(k, end) ==
  LET within == (end - Limit[k].window + 1)..end
  IN  {e \in admitted[k] : e.stamp \in within /\ e.run \in within}

(* An admission is made only while the log of those before it has room. *)
LEMMA RoomForOneMore ==
  ASSUME LimitInv, NEW s \in sent, RunScript(s), Admits(s),
         NEW end \in 0..MaxInstant,
         s.stamp \in (end - Limit[KeyOf(s)].window + 1)..end,
         instant \in (end - Limit[KeyOf(s)].window + 1)..end
  PROVE  Cardinality(Within(KeyOf(s), end)) < Limit[KeyOf(s)].max
  <1> DEFINE key == KeyOf(s)
             w == Limit[key].window
             old == Within(key, end)
             entry == [e \in old |-> [call |-> e.call, at |-> e.stamp]]
  <1>1. /\ key \in Keys /\ s.stamp \in Int /\ instant \in Int /\ end \in Int /\ w \in Int
        /\ s.stamp <= instant /\ Limit[key].max \in Nat
    BY ScriptOutcome, LimitFacts DEF LimitInv, LimitTypes, LimitTypeOK
  <1>2. ASSUME NEW e \in old
        PROVE  [call |-> e.call, at |-> e.stamp] \in CountedBy(s)
    <2>1. /\ e \in admitted[key] /\ e.stamp > end - w /\ e.run > end - w
          /\ e.stamp \in Int /\ e.run \in Int
      BY <1>1 DEF Within, LimitInv, LimitTypes, Admission
    <2>2. e.stamp > instant - w /\ e.run > instant - w
      BY <1>1, <2>1
    <2>3. /\ [call |-> e.call, at |-> e.stamp] \in window[key]
          /\ e.run + w <= expiry[key] /\ expiry[key] \in Int
      BY <1>1, <2>1, <2>2 DEF LimitInv, LogsKeep, LimitTypes
    <2>4. instant < expiry[key] /\ e.stamp > s.stamp - w
      BY <1>1, <2>1, <2>2, <2>3
    <2> QED
      BY <2>3, <2>4 DEF CountedBy, Counted
  <1>3. entry \in [old -> CountedBy(s)]
    <2> HIDE DEF old
    <2> QED
      BY <1>2
  <1>4. \A e, f \in old : entry[e] = entry[f] => e = f
    <2>1. \A e, f \in old : e.call = f.call => e = f
      BY <1>1 DEF Within, LimitInv, AsksOnce
    <2>2. \A e \in old : entry[e].call = e.call
      OBVIOUS
    <2> HIDE DEF entry, old
    <2> QED
      BY <2>1, <2>2
  <1>5. entry \in Injection(old, CountedBy(s))
    <2> HIDE DEF entry, old
    <2> QED
      BY <1>3, <1>4 DEF Injection, IsInjective
  <1>6. IsFiniteSet(CountedBy(s)) /\ Cardinality(CountedBy(s)) \in Nat
    BY ScriptOutcome, FS_Subset, FS_CardinalityType DEF LimitInv, WindowsFit
  <1>7. /\ IsFiniteSet(old) /\ Cardinality(old) <= Cardinality(CountedBy(s))
        /\ Cardinality(old) \in Nat
    <2> HIDE DEF entry, old
    <2> QED
      BY <1>5, <1>6, FS_Injection, FS_CardinalityType
  <1>8. Cardinality(CountedBy(s)) < Limit[key].max
    BY <1>1, <1>6 DEF Admits
  <1> HIDE DEF old
  <1>9. Cardinality(old) < Limit[key].max
    BY <1>1, <1>6, <1>7, <1>8
  <1> QED
    BY <1>9 DEF old

LEMMA WindowStep ==
  ASSUME LimitInv, WindowNeverOverflows, [LimitNext]_limitVars
  PROVE  WindowNeverOverflows'
  <1>a. WindowNeverOverflows
          <=> \A k \in Keys : \A end \in 0..MaxInstant : Cardinality(Within(k, end)) <= Limit[k].max
    BY DEF WindowNeverOverflows, Within
  <1>b. WindowNeverOverflows'
          <=> \A k \in Keys : \A end \in 0..MaxInstant :
                Cardinality(Within(k, end)') <= Limit[k].max
    BY DEF WindowNeverOverflows, Within
  <1>1. ASSUME NEW s \in sent, RunScript(s)
        PROVE  WindowNeverOverflows'
    <2> DEFINE key == KeyOf(s)
               adm == [call |-> s.call, stamp |-> s.stamp, run |-> instant]
    <2>1. /\ key \in Keys /\ (Refuses(s) \/ Admits(s)) /\ DOMAIN admitted = Keys
          /\ Limit[key].max \in Nat
      BY <1>1, ScriptOutcome, LimitFacts DEF LimitInv, LimitTypes
    <2>2. CASE Refuses(s)
      <3>1. \A k \in Keys : \A end \in 0..MaxInstant : Within(k, end)' = Within(k, end)
        BY <2>2 DEF Refuses, Within
      <3> QED
        BY <1>a, <1>b, <3>1
    <2>3. CASE Admits(s)
      <3>1. admitted' = [admitted EXCEPT ![key] = @ \cup {adm}]
            /\ adm.stamp = s.stamp /\ adm.run = instant
        BY <2>3 DEF Admits
      <3>2. /\ admitted'[key] = admitted[key] \cup {adm}
            /\ \A k \in Keys \ {key} : admitted'[k] = admitted[k]
        <4> HIDE DEF adm, key
        <4> QED
          BY <2>1, <3>1
      <3>3. ASSUME NEW k \in Keys, NEW end \in 0..MaxInstant
            PROVE  Cardinality(Within(k, end)') <= Limit[k].max
        <4> DEFINE within == (end - Limit[k].window + 1)..end
        <4>1. CASE k # key \/ adm.stamp \notin within \/ adm.run \notin within
          <5>1. Within(k, end)' = Within(k, end)
            <6> HIDE DEF adm, key
            <6> QED
              BY <3>2, <4>1 DEF Within
          <5> QED
            BY <1>a, <5>1
        <4>2. CASE k = key /\ adm.stamp \in within /\ adm.run \in within
          <5>1. Cardinality(Within(k, end)) < Limit[k].max
            BY <1>1, <2>3, <3>1, <4>2, RoomForOneMore
          <5>2. IsFiniteSet(Within(k, end)) /\ Cardinality(Within(k, end)) \in Nat
            <6>1. IsFiniteSet(admitted[k]) /\ Within(k, end) \subseteq admitted[k]
              BY DEF LimitInv, LogsKeep, Within
            <6> QED
              BY <6>1, FS_Subset, FS_CardinalityType
          <5> HIDE DEF adm, key
          <5>3. Within(k, end)' = Within(k, end) \cup {adm}
            BY <3>2, <4>2 DEF Within
          <5>4. Cardinality(Within(k, end) \cup {adm}) <= Cardinality(Within(k, end)) + 1
                /\ Cardinality(Within(k, end) \cup {adm}) \in Nat
            BY <5>2, OneMore
          <5> QED
            BY <2>1, <4>2, <5>1, <5>2, <5>3, <5>4
        <4> QED
          BY <4>1, <4>2
      <3> QED
        BY <1>b, <3>3
    <2> QED
      BY <2>1, <2>2, <2>3
  <1>2. ASSUME UNCHANGED admitted
        PROVE  WindowNeverOverflows'
    BY <1>2 DEF WindowNeverOverflows
  <1>3. ASSUME NEW c \in Calls, SendScript(c) \/ FailOpen(c)
        PROVE  WindowNeverOverflows'
    BY <1>2, <1>3 DEF SendScript, FailOpen, limitHistory
  <1>4. CASE NextInstant \/ UNCHANGED limitVars
    BY <1>2, <1>4 DEF NextInstant, limitVars, limitHistory
  <1> QED
    BY <1>1, <1>3, <1>4 DEF LimitNext

(* At the instant a key has promised, its log has room. *)
LeftBy(k, instantPromised) == {e \in window[k] : e.at > instantPromised - Limit[k].window}

PromisesHold ==
  \A k \in Keys : promised[k] # NoPromise =>
    Cardinality(LeftBy(k, promised[k])) < Limit[k].max

LEMMA PromisesStep ==
  ASSUME LimitInv, LimitInv', PromisesHold, [LimitNext]_limitVars
  PROVE  PromisesHold'
  <1>1. ASSUME NEW s \in sent, RunScript(s)
        PROVE  PromisesHold'
    <2> DEFINE key == KeyOf(s)
               w == Limit[key].window
    <2>1. /\ key \in Keys /\ (Refuses(s) \/ Admits(s)) /\ CountedBy(s) \subseteq window[key]
          /\ DOMAIN window = Keys /\ DOMAIN promised = Keys
      BY <1>1, ScriptOutcome DEF LimitInv, LimitTypes
    <2>2. \A k \in Keys \ {key} : window'[k] = window[k] /\ promised'[k] = promised[k]
      BY <2>1 DEF Refuses, Admits
    <2>3. \A k \in Keys \ {key} : promised'[k] # NoPromise =>
            Cardinality({e \in window'[k] : e.at > promised'[k] - Limit[k].window}) < Limit[k].max
      BY <2>2 DEF PromisesHold, LeftBy
    <2>4. CASE Admits(s)
      <3>1. promised'[key] = NoPromise
        BY <2>1, <2>4 DEF Admits
      <3> QED
        BY <2>3, <3>1 DEF PromisesHold, LeftBy
    <2>5. CASE Refuses(s)
      <3> DEFINE left == {e \in window'[key] : e.at > promised'[key] - w}
                 until == promised'[key]
      <3>1. window'[key] = CountedBy(s)
        BY <2>1, <2>5 DEF Refuses
      <3>2. /\ IsFiniteSet(window[key]) /\ Cardinality(window[key]) <= Limit[key].max
            /\ Cardinality(window[key]) \in Nat
            /\ Limit[key].max \in Nat /\ w \in Nat /\ until \in Int
            /\ \A e \in window[key] : e.at \in Int
        BY <2>1, <2>5, LimitFacts, FS_CardinalityType
           DEF LimitInv, WindowsFit, LimitTypes, Entry, Refuses
      <3>3. left \subseteq window[key]
        BY <2>1, <3>1
      <3>4. CASE promised[key] # NoPromise /\ until = promised[key]
        <4>1. left \subseteq LeftBy(key, promised[key])
          BY <3>3, <3>4 DEF LeftBy
        <4>2. IsFiniteSet(LeftBy(key, promised[key]))
          BY <3>2, FS_Subset DEF LeftBy
        <4>3. /\ Cardinality(left) <= Cardinality(LeftBy(key, promised[key]))
              /\ Cardinality(left) \in Nat /\ Cardinality(LeftBy(key, promised[key])) \in Nat
          <5> HIDE DEF left
          <5> QED
            BY <4>1, <4>2, FS_Subset, FS_CardinalityType
        <4>4. Cardinality(LeftBy(key, promised[key])) < Limit[key].max
          BY <2>1, <3>4 DEF PromisesHold
        <4>5. Cardinality(left) < Limit[key].max
          <5> HIDE DEF left, key
          <5> QED
            BY <3>2, <4>3, <4>4
        <4> QED
          BY <2>3, <4>5 DEF PromisesHold, LeftBy
      <3>5. ASSUME NEW o \in CountedBy(s), until >= o.at + w
            PROVE  PromisesHold'
        <4>1. o \in window[key] /\ o \notin left /\ o.at \in Int
          <5>1. o \in window[key] /\ o.at \in Int
            BY <2>1, <3>2
          <5>2. ~(o.at > until - w)
            BY <3>2, <3>5, <5>1
          <5> QED
            BY <5>1, <5>2
        <4>2. left \subseteq window[key] \ {o}
          <5> HIDE DEF left
          <5> QED
            BY <3>3, <4>1
        <4>3. /\ IsFiniteSet(window[key] \ {o})
              /\ Cardinality(window[key] \ {o}) = Cardinality(window[key]) - 1
          BY <3>2, <4>1, FS_RemoveElement
        <4>4. Cardinality(left) <= Cardinality(window[key] \ {o}) /\ Cardinality(left) \in Nat
          <5> HIDE DEF left
          <5> QED
            BY <4>2, <4>3, FS_Subset, FS_CardinalityType
        <4>5. Cardinality(left) < Limit[key].max
          <5> HIDE DEF left, key
          <5> QED
            BY <3>2, <4>3, <4>4
        <4> QED
          BY <2>3, <4>5 DEF PromisesHold, LeftBy
      <3> QED
        BY <2>5, <3>4, <3>5 DEF Refuses
    <2> QED
      BY <2>1, <2>4, <2>5
  <1>2. ASSUME UNCHANGED <<window, promised>>
        PROVE  PromisesHold'
    BY <1>2 DEF PromisesHold, LeftBy
  <1>3. ASSUME NEW c \in Calls, SendScript(c) \/ FailOpen(c)
        PROVE  PromisesHold'
    BY <1>2, <1>3 DEF SendScript, FailOpen, limitHistory
  <1>4. CASE NextInstant \/ UNCHANGED limitVars
    BY <1>2, <1>4 DEF NextInstant, limitVars, limitHistory
  <1> QED
    BY <1>1, <1>3, <1>4 DEF LimitNext

(* Who waited as long as told finds room, so is not refused. *)
LEMMA NotRefusedAgain ==
  ASSUME LimitInv, PromisesHold, NEW s \in sent, RunScript(s),
         promised'[Path[s.call][s.at]] # NoPromise, promised[Path[s.call][s.at]] # NoPromise
  PROVE  s.stamp < promised[Path[s.call][s.at]]
  <1> DEFINE key == KeyOf(s)
             w == Limit[key].window
  <1>1. /\ key \in Keys /\ (Refuses(s) \/ Admits(s)) /\ CountedBy(s) \subseteq window[key]
        /\ DOMAIN promised = Keys /\ s.stamp \in Int /\ promised[key] \in Int
        /\ key = Path[s.call][s.at]
    BY ScriptOutcome DEF LimitInv, LimitTypes, KeyOf
  <1>2. Refuses(s)
    BY <1>1 DEF Admits
  <1>3. /\ Cardinality(CountedBy(s)) >= Limit[key].max
        /\ Cardinality(LeftBy(key, promised[key])) < Limit[key].max
    BY <1>1, <1>2 DEF Refuses, PromisesHold
  <1>4. IsFiniteSet(window[key]) /\ Limit[key].max \in Int /\ w \in Int
        /\ \A e \in window[key] : e.at \in Int
    BY <1>1, LimitFacts DEF LimitInv, WindowsFit, LimitTypes, Entry
  <1>5. IsFiniteSet(LeftBy(key, promised[key]))
    BY <1>4, FS_Subset DEF LeftBy
  <1>6. ASSUME s.stamp >= promised[key]
        PROVE  FALSE
    <2>1. CountedBy(s) \subseteq LeftBy(key, promised[key])
      BY <1>1, <1>4, <1>6 DEF LeftBy, CountedBy, Counted
    <2>2. /\ Cardinality(CountedBy(s)) <= Cardinality(LeftBy(key, promised[key]))
          /\ Cardinality(CountedBy(s)) \in Nat /\ Cardinality(LeftBy(key, promised[key])) \in Nat
      BY <1>5, <2>1, FS_Subset, FS_CardinalityType
    <2> HIDE DEF key
    <2> QED
      BY <1>3, <1>4, <2>2
  <1> QED
    BY <1>1, <1>6

(* What PassesAreCounted needs of the calls that are still on their way. *)
CountedSoFar ==
  \A c \in Calls : \A i \in DOMAIN Path[c] :
    LET counted == \E e \in admitted[Path[c][i]] : e.call = c
    IN /\ i < call[c].at \/ call[c].stage = "passed" => counted \/ <<c, i>> \in bypassed
       /\ call[c].stage = "refused" /\ i = call[c].at =>
            ~counted /\ \A s \in sent : ~(s.call = c /\ s.at = i)
       /\ call[c].stage = "passed" => i <= call[c].at

LEMMA PassingOn ==
  ASSUME LimitTypes, NEW c \in Calls, NEW i \in DOMAIN Path[c],
         i < PassedOn(c).at \/ PassedOn(c).stage = "passed"
  PROVE  i <= call[c].at
  <1>1. call[c] \in CallRow /\ i \in Nat /\ i <= Len(Path[c]) /\ Len(Path[c]) \in Nat
    BY PathFacts DEF LimitTypes, LimitTypeOK, CallRow
  <1>2. CASE call[c].at = Len(Path[c])
    BY <1>1, <1>2
  <1>3. CASE call[c].at # Len(Path[c])
    BY <1>1, <1>3 DEF PassedOn, CallRow
  <1> QED
    BY <1>2, <1>3

LEMMA CountedStep ==
  ASSUME LimitInv, LimitInv', CountedSoFar, [LimitNext]_limitVars
  PROVE  CountedSoFar'
  <1> SUFFICES ASSUME NEW c \in Calls, NEW i \in DOMAIN Path[c]
               PROVE  /\ i < call'[c].at \/ call'[c].stage = "passed" =>
                             (\E e \in admitted'[Path[c][i]] : e.call = c) \/ <<c, i>> \in bypassed'
                      /\ call'[c].stage = "refused" /\ i = call'[c].at =>
                             /\ ~\E e \in admitted'[Path[c][i]] : e.call = c
                             /\ \A s \in sent' : ~(s.call = c /\ s.at = i)
                      /\ call'[c].stage = "passed" => i <= call'[c].at
    BY DEF CountedSoFar
  <1> DEFINE was == \E e \in admitted[Path[c][i]] : e.call = c
             is == \E e \in admitted'[Path[c][i]] : e.call = c
  <1>1. /\ call \in [Calls -> CallRow] /\ call[c] \in CallRow /\ i \in Nat /\ Path[c][i] \in Keys
        /\ call[c].at \in Nat /\ DOMAIN admitted = Keys
    BY PathFacts DEF LimitInv, LimitTypes, LimitTypeOK, CallRow
  <1>2. /\ i < call[c].at \/ call[c].stage = "passed" => was \/ <<c, i>> \in bypassed
        /\ call[c].stage = "refused" /\ i = call[c].at =>
             ~was /\ \A s \in sent : ~(s.call = c /\ s.at = i)
        /\ call[c].stage = "passed" => i <= call[c].at
    BY DEF CountedSoFar
  <1>p. /\ i < PassedOn(c).at \/ PassedOn(c).stage = "passed" => i <= call[c].at
        /\ PassedOn(c).stage # "refused" \/ call[c].stage = "refused"
        /\ PassedOn(c).stage = "passed" => i <= PassedOn(c).at
        /\ PassedOn(c).at \in Nat
    <2>1. i < PassedOn(c).at \/ PassedOn(c).stage = "passed" => i <= call[c].at
      BY PassingOn DEF LimitInv
    <2>2. /\ PassedOn(c).stage # "refused" \/ call[c].stage = "refused"
          /\ PassedOn(c).at \in Nat /\ PassedOn(c).at >= call[c].at
      <3>1. PassedOn(c).at \in Nat /\ PassedOn(c).at >= call[c].at
        BY PassedOnType DEF LimitInv, CallRow
      <3>2. PassedOn(c).stage # "refused" \/ call[c].stage = "refused"
        BY <1>1 DEF PassedOn, CallRow
      <3> QED
        BY <3>1, <3>2
    <2> HIDE DEF PassedOn
    <2> QED
      BY <1>1, <2>1, <2>2
  <1>3. ASSUME NEW d \in Calls, SendScript(d)
        PROVE  /\ i < call'[c].at \/ call'[c].stage = "passed" => is \/ <<c, i>> \in bypassed'
               /\ call'[c].stage = "refused" /\ i = call'[c].at =>
                    ~is /\ \A s \in sent' : ~(s.call = c /\ s.at = i)
               /\ call'[c].stage = "passed" => i <= call'[c].at
    <2> DEFINE new == [call |-> d, at |-> call[d].at, stamp |-> instant]
    <2>1. /\ call' = [call EXCEPT ![d] = [call[d] EXCEPT !.stage = "waiting"]]
          /\ sent' = sent \cup {new} /\ new.call = d /\ call[d].stage = "asking"
          /\ UNCHANGED <<admitted, bypassed>>
      BY <1>3 DEF SendScript, limitHistory
    <2>2. CASE c = d
      <3>1. call'[c] = [call[c] EXCEPT !.stage = "waiting"]
        BY <1>1, <2>1, <2>2
      <3>2. call'[c].stage = "waiting" /\ call'[c].at = call[c].at
        BY <1>1, <3>1 DEF CallRow
      <3> QED
        BY <1>2, <2>1, <3>2
    <2>3. CASE c # d
      <3>1. call'[c] = call[c]
        BY <1>1, <2>1, <2>3
      <3> HIDE DEF new
      <3> QED
        BY <1>2, <2>1, <2>3, <3>1
    <2> QED
      BY <2>2, <2>3
  <1>4. ASSUME NEW d \in Calls, FailOpen(d)
        PROVE  /\ i < call'[c].at \/ call'[c].stage = "passed" => is \/ <<c, i>> \in bypassed'
               /\ call'[c].stage = "refused" /\ i = call'[c].at =>
                    ~is /\ \A s \in sent' : ~(s.call = c /\ s.at = i)
               /\ call'[c].stage = "passed" => i <= call'[c].at
    <2>1. /\ call' = [call EXCEPT ![d] = PassedOn(d)]
          /\ bypassed' = bypassed \cup {<<d, call[d].at>>}
          /\ UNCHANGED <<sent, admitted>> /\ call[d].stage \in {"asking", "waiting"}
      BY <1>4 DEF FailOpen
    <2>2. CASE c = d
      <3>1. call'[c] = PassedOn(c) /\ <<c, call[c].at>> \in bypassed'
        BY <1>1, <2>1, <2>2
      <3>2. i < PassedOn(c).at \/ PassedOn(c).stage = "passed" => i < call[c].at \/ i = call[c].at
        BY <1>1, <1>p
      <3> HIDE DEF PassedOn
      <3> QED
        BY <1>2, <1>p, <2>1, <2>2, <3>1, <3>2
    <2>3. CASE c # d
      <3>1. call'[c] = call[c]
        BY <1>1, <2>1, <2>3
      <3> QED
        BY <1>2, <2>1, <3>1
    <2> QED
      BY <2>2, <2>3
  <1>5. ASSUME NEW s \in sent, RunScript(s)
        PROVE  /\ i < call'[c].at \/ call'[c].stage = "passed" => is \/ <<c, i>> \in bypassed'
               /\ call'[c].stage = "refused" /\ i = call'[c].at =>
                    ~is /\ \A t \in sent' : ~(t.call = c /\ t.at = i)
               /\ call'[c].stage = "passed" => i <= call'[c].at
    <2> DEFINE key == KeyOf(s)
               full == Cardinality(CountedBy(s)) >= Limit[key].max
               adm == [call |-> s.call, stamp |-> s.stamp, run |-> instant]
    <2>1. /\ key \in Keys /\ key = Path[s.call][s.at] /\ s.call \in Calls
          /\ s.at \in DOMAIN Path[s.call] /\ sent' = sent \ {s} /\ bypassed' = bypassed
          /\ Asked(s.call, s.at)
      BY <1>5, ScriptOutcome DEF KeyOf, LimitInv, AsksOnce
    <2>2. IF full THEN admitted' = admitted
                  ELSE admitted' = [admitted EXCEPT ![key] = @ \cup {adm}]
      BY <1>5, ScriptOutcome DEF Refuses, Admits, LimitInv
    <2>3. adm.call = s.call
      OBVIOUS
    <2> HIDE DEF adm, full, key
    <2>4. is <=> was \/ (~full /\ c = s.call /\ Path[c][i] = key)
      BY <1>1, <2>1, <2>2, <2>3
    <2>5. c = s.call /\ Path[c][i] = key => i = s.at
      BY <2>1, PathFacts
    <2>6. CASE call'[c] = call[c]
      <3>1. call[c].stage = "refused" /\ i = call[c].at => ~(c = s.call /\ Path[c][i] = key)
        BY <1>2, <2>5
      <3> QED
        BY <1>2, <2>1, <2>4, <2>6, <3>1
    <2>7. CASE /\ c = s.call /\ call[c].stage = "waiting" /\ call[c].at = s.at
               /\ full /\ call'[c] = [call[c] EXCEPT !.stage = "refused"]
      <3>1. call'[c].stage = "refused" /\ call'[c].at = call[c].at
        BY <1>1, <2>7 DEF CallRow
      <3>2. i = call[c].at => ~was
        BY <1>1, <2>1, <2>7 DEF LimitInv, AsksOnce
      <3>3. \A t \in sent' : ~(t.call = c /\ t.at = s.at)
        BY <2>1, <2>7 DEF LimitInv, AsksOnce
      <3> QED
        BY <1>2, <2>1, <2>4, <2>7, <3>1, <3>2, <3>3
    <2>8. CASE /\ c = s.call /\ call[c].stage = "waiting" /\ call[c].at = s.at
               /\ ~full /\ call'[c] = PassedOn(c)
      <3>1. i < PassedOn(c).at \/ PassedOn(c).stage = "passed" => i < call[c].at \/ i = s.at
        BY <1>1, <1>p, <2>8
      <3>2. i = s.at => is
        BY <2>1, <2>4, <2>8
      <3> HIDE DEF PassedOn, is, was
      <3> QED
        BY <1>2, <1>p, <2>1, <2>4, <2>8, <3>1, <3>2
    <2> QED
      BY <1>5, <2>6, <2>7, <2>8, CallAfterScript DEF LimitInv, full, key
  <1>6. CASE NextInstant \/ UNCHANGED limitVars
    BY <1>2, <1>6 DEF NextInstant, limitVars, limitHistory
  <1> QED
    BY <1>3, <1>4, <1>5, <1>6 DEF LimitNext

----------------------------------------------------------------------------
LEMMA LimitInitHolds ==
  ASSUME LimitInit
  PROVE  LimitInv /\ PromisesHold /\ WindowNeverOverflows /\ CountedSoFar
  <1>1. /\ \A c \in Calls : call[c] = [stage |-> "asking", at |-> 1] /\ 1 \in DOMAIN Path[c]
        /\ call \in [Calls -> CallRow]
    BY PathFacts DEF LimitInit, CallRow
  <1>2. /\ \A k \in Keys : /\ window[k] = {} /\ admitted[k] = {} /\ expiry[k] = 0
                           /\ promised[k] = NoPromise
        /\ sent = {} /\ instant = 0
        /\ DOMAIN expiry = Keys /\ DOMAIN admitted = Keys /\ DOMAIN promised = Keys
        /\ window \in [Keys -> SUBSET Entry]
    BY DEF LimitInit
  <1>3. LimitTypes
    BY <1>1, <1>2, LimitAssumption DEF LimitTypes, LimitTypeOK, CallRow, NoPromise
  <1>4. WindowsFit
    <2>1. IsFiniteSet({}) /\ Cardinality({}) = 0
      BY FS_EmptySet
    <2>2. \A k \in Keys : 0 <= Limit[k].max
      BY LimitFacts
    <2> QED
      BY <1>2, <2>1, <2>2 DEF WindowsFit
  <1>5. AsksOnce /\ LogsKeep /\ PromisesHold
    BY <1>2, FS_EmptySet DEF AsksOnce, LogsKeep, PromisesHold
  <1>6. WindowNeverOverflows
    <2> SUFFICES ASSUME NEW k \in Keys, NEW end \in 0..MaxInstant
                 PROVE  Cardinality(Within(k, end)) <= Limit[k].max
      BY DEF WindowNeverOverflows, Within
    <2>1. Within(k, end) = {}
      BY <1>2 DEF Within
    <2> QED
      BY <2>1, FS_EmptySet, LimitFacts
  <1>7. CountedSoFar
    <2>1. \A c \in Calls : \A i \in DOMAIN Path[c] : ~(i < 1)
      BY PathFacts
    <2> QED
      BY <1>1, <2>1 DEF CountedSoFar
  <1> QED
    BY <1>3, <1>4, <1>5, <1>6, <1>7 DEF LimitInv

LEMMA LimitInvHolds == LimitSpec => []LimitInv
  <1>1. LimitInit => LimitInv
    BY LimitInitHolds
  <1>2. LimitInv /\ [LimitNext]_limitVars => LimitInv'
    BY LimitTypesStep, WindowsFitStep, AsksOnceStep, LogsKeepStep DEF LimitInv
  <1> QED
    BY <1>1, <1>2, PTL DEF LimitSpec

(* The calls, windows and clocks of the limiter have their types.           *)
THEOREM LimitsTypeCorrect == LimitSpec => []LimitTypeOK
  BY LimitInvHolds, PTL DEF LimitInv, LimitTypes

(* Of the calls both made and counted within one window a limit admits its  *)
(* maximum at most, for any paths, limits and number of calls, and however  *)
(* late or out of order their scripts are run.                              *)
THEOREM WindowsNeverOverflow == LimitSpec => []WindowNeverOverflows
  <1>1. LimitInit => WindowNeverOverflows
    BY LimitInitHolds
  <1>2. LimitInv /\ WindowNeverOverflows /\ [LimitNext]_limitVars => WindowNeverOverflows'
    BY WindowStep
  <1> QED
    BY <1>1, <1>2, LimitInvHolds, PTL DEF LimitSpec

(* Retry-After: a caller that waited as long as a refusal told it to is not *)
(* refused by the same limit again, unless another call has been admitted   *)
(* since; for any paths, limits and number of calls.                        *)
THEOREM WaitingSuffices == LimitSpec => RetryAfterSuffices
  <1>1. LimitInit => PromisesHold
    BY LimitInitHolds
  <1>2. LimitInv /\ LimitInv' /\ PromisesHold /\ [LimitNext]_limitVars => PromisesHold'
    BY PromisesStep
  <1>3. LimitInv /\ PromisesHold =>
          [ \A s \in sent :
              LET key == Path[s.call][s.at]
              IN RunScript(s) /\ promised'[key] # NoPromise /\ promised[key] # NoPromise =>
                   s.stamp < promised[key] ]_limitVars
    BY NotRefusedAgain
  <1> QED
    BY <1>1, <1>2, <1>3, LimitInvHolds, PTL DEF LimitSpec, RetryAfterSuffices

(* A call is through when every limit has counted it or could not be asked; *)
(* one that is refused is counted by the limits before, and not by that one.*)
THEOREM PassingMeansCounted == LimitSpec => []PassesAreCounted
  <1>1. LimitInit => CountedSoFar
    BY LimitInitHolds
  <1>2. LimitInv /\ LimitInv' /\ CountedSoFar /\ [LimitNext]_limitVars => CountedSoFar'
    BY CountedStep
  <1>3. CountedSoFar => PassesAreCounted
    BY DEF CountedSoFar, PassesAreCounted
  <1> QED
    BY <1>1, <1>2, <1>3, LimitInvHolds, PTL DEF LimitSpec

----------------------------------------------------------------------------
(* The row locks.  Requests of any kinds in any number wait for each other  *)
(* in a circle only where two refreshes cross or purchases hold the pool.   *)

(* Transactions that begin with the row of their item, or with their card.  *)
ItemFirst == {"bid", "settle", "buy", "cancel", "purchase", "reveal"}
CardFirst == {"auction", "list"}
ByPlan == {"refresh", "rebalance"}

LEMMA ScriptKinds ==
  DOMAIN Steps = {"bid", "settle", "auction", "list", "buy", "cancel", "deposit",
                  "purchase", "reveal", "refresh", "rebalance"}
  BY DEF Steps

LEMMA ScriptsBegin ==
  ASSUME NEW kind \in DOMAIN Steps
  PROVE  Len(Steps[kind]) \in Nat /\ 1 \in 1..Len(Steps[kind])
<1>1. CASE kind \in {"bid", "settle", "auction"} BY <1>1 DEF Steps
<1>2. CASE kind \in {"list", "buy", "cancel"} BY <1>2 DEF Steps
<1>3. CASE kind \in {"purchase", "reveal"} BY <1>3 DEF Steps
<1>4. CASE kind \in {"deposit", "refresh", "rebalance"} BY <1>4 DEF Steps
<1> QED BY ScriptKinds, <1>1, <1>2, <1>3, <1>4

(* Where the steps that begin a transaction are, ...                         *)
LEMMA Places ==
  ASSUME NEW kind \in DOMAIN Steps, NEW i \in 1..Len(Steps[kind])
  PROVE  LET step == Steps[kind][i]
         IN  /\ step # "commit" => i + 1 \in 1..Len(Steps[kind])
             /\ step = "commit" => i > 1
             /\ step = "commit" /\ kind \in ItemFirst \cup CardFirst => i > 2
             /\ kind \in ItemFirst => /\ step \in {"item", "skip_locked"} <=> i = 1
                                      /\ step = "open" <=> i = 2
             /\ kind \in CardFirst => /\ step = "own_card" <=> i = 1
                                      /\ step = "held" <=> i = 2
             /\ step \notin {"balance", "commit", "rows"} => kind \in ItemFirst \cup CardFirst
<1>1. CASE kind = "bid" BY <1>1 DEF Steps, ItemFirst, CardFirst
<1>2. CASE kind = "settle" BY <1>2 DEF Steps, ItemFirst, CardFirst
<1>3. CASE kind = "auction" BY <1>3 DEF Steps, ItemFirst, CardFirst
<1>4. CASE kind = "list" BY <1>4 DEF Steps, ItemFirst, CardFirst
<1>5. CASE kind = "buy" BY <1>5 DEF Steps, ItemFirst, CardFirst
<1>6. CASE kind = "cancel" BY <1>6 DEF Steps, ItemFirst, CardFirst
<1>7. CASE kind = "deposit" BY <1>7 DEF Steps, ItemFirst, CardFirst
<1>8. CASE kind = "purchase" BY <1>8 DEF Steps, ItemFirst, CardFirst
<1>9. CASE kind = "reveal" BY <1>9 DEF Steps, ItemFirst, CardFirst
<1>10. CASE kind = "refresh" BY <1>10 DEF Steps, ItemFirst, CardFirst, ByPlan
<1>11. CASE kind = "rebalance" BY <1>11 DEF Steps, ItemFirst, CardFirst, ByPlan
<1> QED
  BY ScriptKinds, <1>1, <1>2, <1>3, <1>4, <1>5, <1>6, <1>7, <1>8, <1>9, <1>10, <1>11

(* ... whose they are, and what comes next.                                 *)
LEMMA Scripts ==
  ASSUME NEW kind \in DOMAIN Steps, NEW i \in 1..Len(Steps[kind])
  PROVE  LET step == Steps[kind][i]
             next == Steps[kind][i + 1]
         IN  /\ step \in {"item", "skip_locked"} => kind \in ItemFirst
             /\ step = "own_card" => kind \in CardFirst
             /\ step = "users" => kind \in {"bid", "settle", "buy"} /\ next \in {"check", "card"}
             /\ step = "check" => next \in {"commit", "card"}
             /\ step = "card" => kind \in {"settle", "buy", "cancel"} /\ next = "commit"
             /\ step = "seller" => kind \in CardFirst \cup {"reveal"} /\ next = "commit"
             /\ step = "balance" => kind \in {"deposit", "purchase"} /\ next = "commit"
             /\ step = "weights" => kind = "purchase"
             /\ step = "rows" => kind \in ByPlan /\ next = "commit"
<1>1. CASE kind = "bid" BY <1>1 DEF Steps, ItemFirst, CardFirst
<1>2. CASE kind = "settle" BY <1>2 DEF Steps, ItemFirst, CardFirst
<1>3. CASE kind = "auction" BY <1>3 DEF Steps, ItemFirst, CardFirst
<1>4. CASE kind = "list" BY <1>4 DEF Steps, ItemFirst, CardFirst
<1>5. CASE kind = "buy" BY <1>5 DEF Steps, ItemFirst, CardFirst
<1>6. CASE kind = "cancel" BY <1>6 DEF Steps, ItemFirst, CardFirst
<1>7. CASE kind = "deposit" BY <1>7 DEF Steps, ItemFirst, CardFirst
<1>8. CASE kind = "purchase" BY <1>8 DEF Steps, ItemFirst, CardFirst
<1>9. CASE kind = "reveal" BY <1>9 DEF Steps, ItemFirst, CardFirst
<1>10. CASE kind = "refresh" BY <1>10 DEF Steps, ItemFirst, CardFirst, ByPlan
<1>11. CASE kind = "rebalance" BY <1>11 DEF Steps, ItemFirst, CardFirst, ByPlan
<1> QED
  BY ScriptKinds, <1>1, <1>2, <1>3, <1>4, <1>5, <1>6, <1>7, <1>8, <1>9, <1>10, <1>11

----------------------------------------------------------------------------
(* The inductive invariant *)

Kind(r) == Asks(r).kind
ItemOf(r) == Asks(r).item
CardOf(r) == item[ItemOf(r)].card
Place(r) == request[r].step

ItemRow == [state : {"none", "open", "shut"}, seller : Users \cup {Nobody},
            leader : Users \cup {Nobody}, card : CardRows]

LockTypes ==
  /\ request \in [Slots -> [asks : Menu, stage : {"new", "working", "done"}, step : Nat]]
  /\ \A r \in Slots : Place(r) \in 1..Len(Steps[Kind(r)])
  /\ \A r \in Slots : request[r].stage # "working" => Place(r) = 1
  /\ item \in [ItemRows -> ItemRow]
  /\ cardStatus \in [CardRows -> {"HELD", "LISTED", "AUCTION"}]
  /\ \A l \in locks : l.slot \in Slots

PoolInv ==
  /\ connected = InTransaction
  /\ \A r \in second : r \in InTransaction /\ Step(r) = "weights"

(* The users a transaction has locked come before those it still wants.     *)
HasUser(r, u) ==
  \/ Step(r) \in {"check", "card", "commit"}
  \/ Step(r) = "users" /\ \A w \in Wanted(r) : u < w

(* Likewise the rows of a plan.                                             *)
HasRow(r, row) ==
  /\ Kind(r) \in ByPlan
  /\ \E i \in DOMAIN Plan[ItemOf(r)] :
       /\ row = <<Kind(r), Plan[ItemOf(r)][i]>>
       /\ \/ Step(r) = "commit"
          \/ Step(r) = "rows" /\ \A j \in Left(r) : i < j

(* Every lock is of a step its transaction has taken, ...                   *)
Justified(l) ==
  /\ l.slot \in InTransaction
  /\ \/ /\ l.row = <<"item", ItemOf(l.slot)>>
        /\ Kind(l.slot) \in ItemFirst /\ Place(l.slot) > 1
     \/ /\ l.row = <<"card", CardOf(l.slot)>>
        /\ \/ Kind(l.slot) \in CardFirst /\ Place(l.slot) > 1
           \/ Kind(l.slot) \in ItemFirst /\ Step(l.slot) = "commit"
     \/ \E u \in Users : l.row = <<"user", u>> /\ HasUser(l.slot, u)
     \/ HasRow(l.slot, l.row)

(* ... the first lock of a transaction is held to its end, ...              *)
FirstLock(r) ==
  [slot |-> r, mode |-> "update",
   row |-> IF Kind(r) \in ItemFirst THEN <<"item", ItemOf(r)>> ELSE <<"card", CardOf(r)>>]

HasFirst(r) ==
  Kind(r) \in ItemFirst \cup CardFirst /\ Place(r) > 1 => FirstLock(r) \in locks

NoConflicts ==
  \A l, m \in locks : l.row = m.row /\ l.slot # m.slot => ~Conflict(l.mode, m.mode)

(* ... and so what it found under that lock stays.                          *)
Decided(r) ==
  Place(r) > 2 =>
    /\ Kind(r) \in ItemFirst => item[ItemOf(r)].state = "open"
    /\ Kind(r) \in CardFirst => cardStatus[CardOf(r)] = "HELD"

CardsSpokenFor ==
  \A i, j \in Traded : item[i].state = "open" =>
    /\ cardStatus[item[i].card] # "HELD"
    /\ item[j].state = "open" /\ item[j].card = item[i].card => i = j

SlotInv(r) ==
  HasFirst(r) /\ Decided(r) /\ \A l \in locks : l.slot = r => Justified(l)

LocksInv ==
  /\ LockTypes /\ PoolInv /\ NoConflicts /\ CardsSpokenFor
  /\ \A r \in Slots : SlotInv(r)

LEMMA AskTypes ==
  ASSUME LockTypes, NEW r \in Slots
  PROVE  /\ Asks(r) \in Menu /\ Kind(r) \in DOMAIN Steps /\ ItemOf(r) \in ItemRows
         /\ Asks(r).user \in Users \cup {Nobody}
         /\ Asks(r).user = Nobody => Kind(r) = "settle"
         /\ Place(r) \in Nat /\ Place(r) \in 1..Len(Steps[Kind(r)])
         /\ Step(r) = Steps[Kind(r)][Place(r)]
         /\ item[ItemOf(r)] \in ItemRow
         /\ request[r].stage \in {"new", "working", "done"}
         /\ Kind(r) \in {"bid", "settle", "auction", "list", "buy", "cancel"} =>
              ItemOf(r) \in Traded
<1>1. Asks(r) \in Menu /\ Place(r) \in Nat /\ Place(r) \in 1..Len(Steps[Kind(r)])
      /\ request[r].stage \in {"new", "working", "done"}
  BY DEF LockTypes, Asks, Place
<1>2. /\ Kind(r) \in DOMAIN Steps /\ ItemOf(r) \in ItemRows
      /\ Asks(r).user \in Users \cup {Nobody}
      /\ Asks(r).user = Nobody => Kind(r) = "settle"
  BY <1>1, MenuAssumption DEF Kind, ItemOf
<1>3. item[ItemOf(r)] \in ItemRow BY <1>2 DEF LockTypes
<1>4. Kind(r) \in {"bid", "settle", "auction", "list", "buy", "cancel"} => ItemOf(r) \in Traded
  BY <1>1 DEF Traded, Kind, ItemOf
<1> QED BY <1>1, <1>2, <1>3, <1>4 DEF Step, Kind, Place

LEMMA PartiesAreUsers ==
  ASSUME LockTypes, NEW r \in Slots
  PROVE  Wanted(r) \subseteq Users
<1>1. item[ItemOf(r)].leader \in Users \cup {Nobody}
      /\ item[ItemOf(r)].seller \in Users \cup {Nobody}
  BY AskTypes DEF ItemRow
<1>2. Parties(r) \subseteq Users BY <1>1, AskTypes DEF Parties, ItemOf
<1> QED BY <1>2 DEF Wanted

LEMMA LeastWanted ==
  ASSUME LockTypes, NEW r \in Slots, Wanted(r) # {}
  PROVE  /\ NextUser(r, Wanted(r)) \in Wanted(r)
         /\ \A w \in Wanted(r) : NextUser(r, Wanted(r)) <= w
<1>1. Wanted(r) \subseteq Nat BY PartiesAreUsers, PoolAssumption
<1>2. \E x \in Wanted(r) : \A y \in Wanted(r) : x <= y BY <1>1, LeastOfNaturals
<1> QED BY <1>2 DEF NextUser, Min

LEMMA LeastLeft ==
  ASSUME LockTypes, NEW r \in Slots, Left(r) # {}
  PROVE  /\ Min(Left(r)) \in Left(r) /\ Left(r) \subseteq DOMAIN Plan[ItemOf(r)]
         /\ \A j \in Left(r) : j \in Nat /\ Min(Left(r)) <= j
         /\ Plan[ItemOf(r)][Min(Left(r))] \in Nat
<1>1. Plan[ItemOf(r)] \in Seq(Nat) BY AskTypes, PlanAssumption
<1>2. Left(r) \subseteq DOMAIN Plan[ItemOf(r)] BY DEF Left, ItemOf
<1>3. DOMAIN Plan[ItemOf(r)] \subseteq Nat
  <2> DEFINE plan == Plan[ItemOf(r)]
  <2>1. plan \in Seq(Nat) BY <1>1
  <2> HIDE DEF plan
  <2>2. DOMAIN plan = 1..Len(plan) /\ Len(plan) \in Nat BY <2>1
  <2>3. DOMAIN plan \subseteq Nat BY <2>2
  <2> QED BY <2>3 DEF plan
<1>4. \E x \in Left(r) : \A y \in Left(r) : x <= y BY <1>2, <1>3, LeastOfNaturals
<1>5. Min(Left(r)) \in Left(r) /\ \A j \in Left(r) : Min(Left(r)) <= j BY <1>4 DEF Min
<1> QED BY <1>1, <1>2, <1>3, <1>5

(* The row a step locks.                                                    *)
LEMMA RowsByStep ==
  ASSUME NEW r
  PROVE  /\ Step(r) \in {"item", "skip_locked"} =>
              RowOf(r) = <<"item", ItemOf(r)>> /\ ModeOf(r) = "update"
         /\ Step(r) \in {"card", "own_card"} => RowOf(r) = <<"card", CardOf(r)>>
         /\ Step(r) = "own_card" => ModeOf(r) = "update"
         /\ Step(r) = "users" => RowOf(r) = <<"user", NextUser(r, Wanted(r))>>
         /\ Step(r) \in {"seller", "balance"} => RowOf(r) = <<"user", Asks(r).user>>
         /\ Step(r) = "rows" => RowOf(r) = <<Kind(r), Plan[ItemOf(r)][Min(Left(r))]>>
<1>1. CASE Step(r) \in {"item", "skip_locked"} BY <1>1 DEF RowOf, ModeOf, ItemOf
<1>2. CASE Step(r) \in {"card", "own_card"} BY <1>2 DEF RowOf, ModeOf, CardOf, ItemOf
<1>3. CASE Step(r) = "users" BY <1>3 DEF RowOf
<1>4. CASE Step(r) \in {"seller", "balance"} BY <1>4 DEF RowOf
<1>5. CASE Step(r) = "rows" BY <1>5 DEF RowOf, Kind, ItemOf
<1> QED BY <1>1, <1>2, <1>3, <1>4, <1>5

----------------------------------------------------------------------------
(* What a step does to the request that takes it, and to the others *)

LEMMA AdvanceMoves ==
  ASSUME LockTypes, NEW s \in Slots, s \in InTransaction, Step(s) # "commit", Advance(s)
  PROVE  /\ request' \in [Slots -> [asks : Menu, stage : {"new", "working", "done"}, step : Nat]]
         /\ \A r \in Slots : Place(r)' \in 1..Len(Steps[Kind(r)'])
         /\ \A r \in Slots : request'[r].stage # "working" => Place(r)' = 1
         /\ \A r \in Slots \ {s} : request'[r] = request[r]
         /\ InTransaction' = InTransaction
         /\ Asks(s)' = Asks(s) /\ Kind(s)' = Kind(s) /\ ItemOf(s)' = ItemOf(s)
         /\ Place(s)' = Place(s) + 1 /\ Step(s)' = Steps[Kind(s)][Place(s) + 1]
<1>1. request \in [Slots -> [asks : Menu, stage : {"new", "working", "done"}, step : Nat]]
  BY DEF LockTypes
<1>2. request' = [request EXCEPT ![s].step = request[s].step + 1] BY DEF Advance
<1>3. /\ request' \in [Slots -> [asks : Menu, stage : {"new", "working", "done"}, step : Nat]]
      /\ \A r \in Slots \ {s} : request'[r] = request[r]
      /\ request'[s].asks = request[s].asks /\ request'[s].stage = request[s].stage
      /\ request'[s].step = request[s].step + 1
  BY <1>1, <1>2
<1>4. /\ Asks(s)' = Asks(s) /\ Kind(s)' = Kind(s) /\ ItemOf(s)' = ItemOf(s)
      /\ Place(s)' = Place(s) + 1
  BY <1>3 DEF Asks, Kind, ItemOf, Place
<1>5. Step(s)' = Steps[Kind(s)][Place(s) + 1]
  BY <1>3 DEF Step, Kind, Place, Asks
<1>6. InTransaction' = InTransaction BY <1>3 DEF InTransaction
<1>7. Place(s) + 1 \in 1..Len(Steps[Kind(s)])
  BY AskTypes, Places
<1>8. \A r \in Slots : Place(r)' \in 1..Len(Steps[Kind(r)'])
  <2> TAKE r \in Slots
  <2>1. CASE r = s BY <2>1, <1>4, <1>7
  <2>2. CASE r # s
    <3>1. Place(r)' = Place(r) /\ Kind(r)' = Kind(r) BY <2>2, <1>3 DEF Place, Kind, Asks
    <3> QED BY <3>1, AskTypes
  <2> QED BY <2>1, <2>2
<1>9. \A r \in Slots : request'[r].stage # "working" => Place(r)' = 1
  <2> TAKE r \in Slots
  <2>1. CASE r = s BY <2>1, <1>3 DEF InTransaction
  <2>2. CASE r # s BY <2>2, <1>3 DEF Place, LockTypes
  <2> QED BY <2>1, <2>2
<1> QED BY <1>3, <1>4, <1>5, <1>6, <1>8, <1>9

LEMMA EndsMoves ==
  ASSUME LockTypes, NEW s \in Slots, Ends(s)
  PROVE  /\ request' \in [Slots -> [asks : Menu, stage : {"new", "working", "done"}, step : Nat]]
         /\ \A r \in Slots : Place(r)' \in 1..Len(Steps[Kind(r)'])
         /\ \A r \in Slots : request'[r].stage # "working" => Place(r)' = 1
         /\ \A r \in Slots \ {s} : request'[r] = request[r] /\ Held(r)' = Held(r)
         /\ InTransaction' = InTransaction \ {s}
         /\ Place(s)' = 1 /\ Held(s)' = {}
         /\ locks' \subseteq locks
<1>1. request \in [Slots -> [asks : Menu, stage : {"new", "working", "done"}, step : Nat]]
  BY DEF LockTypes
<1>2. request' = [request EXCEPT ![s].stage = "done", ![s].step = 1] /\ locks' = locks \ Held(s)
  BY DEF Ends
<1>3. /\ request' \in [Slots -> [asks : Menu, stage : {"new", "working", "done"}, step : Nat]]
      /\ \A r \in Slots \ {s} : request'[r] = request[r]
      /\ request'[s].asks = request[s].asks /\ request'[s].stage = "done"
      /\ request'[s].step = 1
  BY <1>1, <1>2
<1>4. Kind(s)' = Kind(s) /\ Place(s)' = 1 BY <1>3 DEF Asks, Kind, Place
<1>5. InTransaction' = InTransaction \ {s} BY <1>3 DEF InTransaction
<1>6. Kind(s) \in DOMAIN Steps /\ Place(s) \in 1..Len(Steps[Kind(s)]) BY AskTypes
<1>7. 1 \in 1..Len(Steps[Kind(s)]) BY <1>6, ScriptsBegin
<1>8. \A r \in Slots : Place(r)' \in 1..Len(Steps[Kind(r)'])
  <2> TAKE r \in Slots
  <2>1. CASE r = s BY <2>1, <1>4, <1>7
  <2>2. CASE r # s
    <3>1. Place(r)' = Place(r) /\ Kind(r)' = Kind(r) BY <2>2, <1>3 DEF Place, Kind, Asks
    <3> QED BY <3>1, AskTypes
  <2> QED BY <2>1, <2>2
<1>9. \A r \in Slots : request'[r].stage # "working" => Place(r)' = 1
  <2> TAKE r \in Slots
  <2>1. CASE r = s BY <2>1, <1>4
  <2>2. CASE r # s BY <2>2, <1>3 DEF Place, LockTypes
  <2> QED BY <2>1, <2>2
<1>10. Held(s)' = {} /\ \A r \in Slots \ {s} : Held(r)' = Held(r)
  BY <1>2 DEF Held
<1> QED BY <1>2, <1>3, <1>4, <1>5, <1>8, <1>9, <1>10

(* What a request with its first lock has found and locked, another's step  *)
(* leaves alone.                                                            *)
LEMMA OthersKeep ==
  ASSUME LocksInv, NEW r \in Slots, request'[r] = request[r], Held(r)' = Held(r),
         CardOf(r)' = CardOf(r), Decided(r)',
         Kind(r) \in ItemFirst /\ Place(r) > 1 =>
           /\ item'[ItemOf(r)].leader = item[ItemOf(r)].leader
           /\ item'[ItemOf(r)].seller = item[ItemOf(r)].seller
  PROVE  SlotInv(r)'
<1> USE DEF LocksInv
<1>1. /\ Asks(r)' = Asks(r) /\ Kind(r)' = Kind(r) /\ ItemOf(r)' = ItemOf(r)
      /\ Place(r)' = Place(r) /\ Step(r)' = Step(r)
      /\ r \in InTransaction' <=> r \in InTransaction
  BY DEF Asks, Kind, ItemOf, Place, Step, InTransaction
<1>2. \A l : (l \in locks' /\ l.slot = r) <=> (l \in locks /\ l.slot = r)
  BY DEF Held
<1>3. HasFirst(r)'
  <2>1. FirstLock(r)' = FirstLock(r) /\ FirstLock(r).slot = r BY <1>1 DEF FirstLock
  <2>2. HasFirst(r) BY DEF SlotInv
  <2> QED BY <1>1, <1>2, <2>1, <2>2 DEF HasFirst
<1>4. \A u : HasUser(r, u) => HasUser(r, u)'
  <2> SUFFICES ASSUME NEW u, HasUser(r, u) PROVE HasUser(r, u)' OBVIOUS
  <2>1. CASE Step(r) \in {"check", "card", "commit"} BY <2>1, <1>1 DEF HasUser
  <2>2. CASE Step(r) = "users" /\ \A w \in Wanted(r) : u < w
    <3>1. Kind(r) \in ItemFirst /\ Place(r) > 1 BY <2>2, AskTypes, Scripts, Places DEF ItemFirst
    <3>2. Parties(r)' = Parties(r) BY <1>1, <3>1 DEF Parties, ItemOf, Kind
    <3>3. Wanted(r)' = Wanted(r) BY <3>2, <3>1, <1>1 DEF Wanted, ItemOf, Kind
    <3> QED BY <2>2, <3>3, <1>1 DEF HasUser
  <2> QED BY <2>1, <2>2 DEF HasUser
<1>5. \A row : HasRow(r, row) => HasRow(r, row)'
  <2>1. Left(r)' = Left(r) BY <1>1 DEF Left
  <2> QED BY <2>1, <1>1 DEF HasRow
<1>6. ASSUME NEW l \in locks', l.slot = r PROVE Justified(l)'
  <2>1. l \in locks BY <1>2, <1>6
  <2>2. Justified(l) BY <2>1, <1>6 DEF SlotInv
  <2> QED BY <1>1, <1>4, <1>5, <1>6, <2>2 DEF Justified
<1> QED BY <1>3, <1>6 DEF SlotInv

LEMMA OthersKeepQuietly ==
  ASSUME LocksInv, NEW r \in Slots, request'[r] = request[r], Held(r)' = Held(r),
         UNCHANGED rowVars
  PROVE  SlotInv(r)'
<1>1. item' = item /\ cardStatus' = cardStatus BY DEF rowVars
<1>2. CardOf(r)' = CardOf(r) BY <1>1 DEF CardOf, ItemOf, Asks
<1>3. Decided(r)
  BY DEF LocksInv, SlotInv
<1>4. Decided(r)' BY <1>1, <1>3 DEF Decided, Place, Kind, ItemOf, CardOf, Asks
<1> QED BY <1>1, <1>2, <1>4, OthersKeep

LEMMA QuietRows ==
  ASSUME LocksInv, UNCHANGED rowVars
  PROVE  /\ item' \in [ItemRows -> ItemRow]
         /\ cardStatus' \in [CardRows -> {"HELD", "LISTED", "AUCTION"}]
         /\ CardsSpokenFor'
<1>1. item' = item /\ cardStatus' = cardStatus BY DEF rowVars
<1> QED BY <1>1 DEF LocksInv, LockTypes, CardsSpokenFor

LEMMA StartKeeps == LocksInit => LocksInv
<1> SUFFICES ASSUME LocksInit PROVE LocksInv OBVIOUS
<1>1. \A r \in Slots : /\ Asks(r) \in Menu /\ request[r].stage = "new" /\ Place(r) = 1
                       /\ Kind(r) \in DOMAIN Steps
  BY MenuAssumption DEF LocksInit, Asks, Place, Kind
<1>2. LockTypes
  <2>1. request \in [Slots -> [asks : Menu, stage : {"new", "working", "done"}, step : Nat]]
    BY DEF LocksInit
  <2>2. \A r \in Slots : Place(r) \in 1..Len(Steps[Kind(r)])
    <3> TAKE r \in Slots
    <3> QED BY <1>1, ScriptsBegin
  <2>3. item \in [ItemRows -> ItemRow] /\ cardStatus \in [CardRows -> {"HELD", "LISTED", "AUCTION"}]
    BY RowsAssumption DEF LocksInit, ItemRow
  <2> QED BY <1>1, <2>1, <2>2, <2>3 DEF LockTypes, LocksInit
<1>3. PoolInv BY <1>1 DEF PoolInv, LocksInit, InTransaction
<1>4. NoConflicts BY DEF NoConflicts, LocksInit
<1>5. CardsSpokenFor BY RowsAssumption DEF CardsSpokenFor, LocksInit
<1>6. \A r \in Slots : SlotInv(r)
  BY <1>1 DEF SlotInv, HasFirst, Decided, LocksInit
<1> QED BY <1>2, <1>3, <1>4, <1>5, <1>6 DEF LocksInv

LEMMA BeginKeeps ==
  ASSUME LocksInv, NEW s \in Slots, Begin(s)
  PROVE  LocksInv'
<1>1. /\ request[s].stage = "new" /\ request' = [request EXCEPT ![s].stage = "working"]
      /\ connected' = connected \cup {s} /\ UNCHANGED rowVars /\ locks' = locks
      /\ second' = second
  BY DEF Begin
<1>2. request \in [Slots -> [asks : Menu, stage : {"new", "working", "done"}, step : Nat]]
  BY DEF LocksInv, LockTypes
<1>3. /\ request' \in [Slots -> [asks : Menu, stage : {"new", "working", "done"}, step : Nat]]
      /\ \A r \in Slots \ {s} : request'[r] = request[r]
      /\ request'[s].asks = request[s].asks /\ request'[s].stage = "working"
      /\ request'[s].step = request[s].step
  BY <1>1, <1>2
<1>4. \A r \in Slots : Place(r)' = Place(r) /\ Kind(r)' = Kind(r) /\ Step(r)' = Step(r)
  BY <1>3 DEF Place, Kind, Asks, Step
<1>5. InTransaction' = InTransaction \cup {s} BY <1>3 DEF InTransaction
<1>6. LockTypes'
  <2>1. \A r \in Slots : request'[r].stage # "working" => Place(r)' = 1
    BY <1>3, <1>4 DEF LocksInv, LockTypes
  <2>2. \A r \in Slots : Place(r)' \in 1..Len(Steps[Kind(r)'])
    BY <1>4 DEF LocksInv, LockTypes
  <2> QED BY <1>1, <1>3, <2>1, <2>2, QuietRows DEF LocksInv, LockTypes
<1>7. PoolInv'
  <2>1. connected' = InTransaction' BY <1>1, <1>5 DEF LocksInv, PoolInv
  <2>2. ASSUME NEW r \in second' PROVE r \in InTransaction' /\ Step(r)' = "weights"
    <3>1. r \in InTransaction /\ Step(r) = "weights" BY <1>1 DEF LocksInv, PoolInv
    <3> QED BY <3>1, <1>4, <1>5 DEF InTransaction
  <2> QED BY <2>1, <2>2 DEF PoolInv
<1>8. NoConflicts' BY <1>1 DEF LocksInv, NoConflicts
<1>9. \A r \in Slots : SlotInv(r)'
  <2> TAKE r \in Slots
  <2>1. CASE r # s
    BY <2>1, <1>1, <1>3, OthersKeepQuietly DEF Held
  <2>2. CASE r = s
    <3>1. Place(s) = 1 /\ Place(s)' = 1 BY <1>1, <1>4 DEF LocksInv, LockTypes
    <3>2. \A l \in locks : l.slot # s
      <4> SUFFICES ASSUME NEW l \in locks, l.slot = s PROVE FALSE OBVIOUS
      <4>1. Justified(l) BY DEF LocksInv, SlotInv
      <4> QED BY <4>1, <1>1 DEF Justified, InTransaction
    <3> QED BY <2>2, <3>1, <3>2, <1>1 DEF SlotInv, HasFirst, Decided
  <2> QED BY <2>1, <2>2
<1> QED BY <1>1, <1>6, <1>7, <1>8, <1>9, QuietRows DEF LocksInv

(* Closing a transaction takes nothing from the others.                     *)
LEMMA EndsKeeps ==
  ASSUME LocksInv, NEW s \in Slots, s \in InTransaction, Step(s) # "weights", Ends(s),
         item' \in [ItemRows -> ItemRow],
         cardStatus' \in [CardRows -> {"HELD", "LISTED", "AUCTION"}], CardsSpokenFor',
         \A r \in Slots \ {s} : SlotInv(r)'
  PROVE  LocksInv'
<1>1. LockTypes BY DEF LocksInv
<1>2. LockTypes' BY <1>1, EndsMoves DEF LockTypes
<1>3. connected' = connected \ {s} /\ second' = second BY DEF Ends
<1>4. PoolInv'
  <2>1. connected' = InTransaction' BY <1>1, <1>3, EndsMoves DEF LocksInv, PoolInv
  <2>2. ASSUME NEW r \in second' PROVE r \in InTransaction' /\ Step(r)' = "weights"
    <3>1. r \in InTransaction /\ Step(r) = "weights" /\ r # s
      BY <1>3 DEF LocksInv, PoolInv
    <3>2. r \in Slots /\ request'[r] = request[r]
      BY <3>1, <1>1, EndsMoves DEF InTransaction
    <3> QED BY <3>1, <3>2 DEF InTransaction, Step, Asks
  <2> QED BY <2>1, <2>2 DEF PoolInv
<1>5. NoConflicts' BY <1>1, EndsMoves DEF LocksInv, NoConflicts
<1>6. SlotInv(s)'
  <2>1. Place(s)' = 1 /\ \A l \in locks' : l.slot # s BY <1>1, EndsMoves DEF Held
  <2> QED BY <2>1 DEF SlotInv, HasFirst, Decided
<1> QED BY <1>2, <1>4, <1>5, <1>6 DEF LocksInv

LEMMA RollBackKeeps ==
  ASSUME LocksInv, NEW s \in Slots, RollBack(s)
  PROVE  LocksInv'
<1>1. s \in InTransaction /\ Step(s) # "weights" /\ Ends(s) /\ UNCHANGED rowVars
  BY DEF RollBack, At
<1>2. ASSUME NEW r \in Slots \ {s} PROVE SlotInv(r)'
  <2>1. request'[r] = request[r] /\ Held(r)' = Held(r)
    BY <1>1, EndsMoves DEF LocksInv
  <2> QED BY <2>1, <1>1, OthersKeepQuietly
<1> QED BY <1>1, <1>2, QuietRows, EndsKeeps

----------------------------------------------------------------------------
(* Steps that lock nothing *)

(* A request goes on, and every lock it has is still accounted for.         *)
LEMMA AdvanceKeeps ==
  ASSUME LocksInv, NEW s \in Slots, s \in InTransaction, Step(s) # "commit", Advance(s),
         UNCHANGED rowVars, connected' = connected,
         \A r \in second' : r \in second /\ r # s,
         NoConflicts', \A l \in locks' : l.slot \in Slots,
         \A r \in Slots \ {s} : Held(r)' = Held(r),
         SlotInv(s)'
  PROVE  LocksInv'
<1>1. LockTypes BY DEF LocksInv
<1>2. LockTypes' BY <1>1, AdvanceMoves, QuietRows DEF LockTypes
<1>3. PoolInv'
  <2>1. connected' = InTransaction' BY <1>1, AdvanceMoves DEF LocksInv, PoolInv
  <2>2. ASSUME NEW r \in second' PROVE r \in InTransaction' /\ Step(r)' = "weights"
    <3>1. r \in InTransaction /\ Step(r) = "weights" /\ r # s
      BY DEF LocksInv, PoolInv
    <3>2. r \in Slots /\ request'[r] = request[r]
      BY <3>1, <1>1, AdvanceMoves DEF InTransaction
    <3> QED BY <3>1, <3>2 DEF InTransaction, Step, Asks
  <2> QED BY <2>1, <2>2 DEF PoolInv
<1>4. ASSUME NEW r \in Slots \ {s} PROVE SlotInv(r)'
  <2>1. request'[r] = request[r] BY <1>1, AdvanceMoves
  <2> QED BY <2>1, OthersKeepQuietly
<1> QED BY <1>2, <1>3, <1>4, QuietRows DEF LocksInv

LEMMA GoOnKeeps ==
  ASSUME LocksInv, NEW s \in Slots,
         GoOn(s) \/ UseCachedWeights(s) \/ ReadWeights(s)
  PROVE  LocksInv'
<1>1. LockTypes BY DEF LocksInv
<1>2. /\ s \in InTransaction /\ Step(s) # "commit" /\ Advance(s) /\ UNCHANGED rowVars
      /\ connected' = connected /\ locks' = locks
      /\ Step(s) \notin {"item", "skip_locked", "own_card", "card", "seller", "balance"}
      /\ Step(s) \in {"open", "held"} => Passes(s)
  <2>1. CASE GoOn(s) BY <2>1 DEF GoOn, At, poolVars
  <2>2. CASE UseCachedWeights(s) BY <2>2 DEF UseCachedWeights, At, poolVars
  <2>3. CASE ReadWeights(s)
    <3>1. s \in InTransaction /\ Step(s) = "weights"
      BY <2>3 DEF ReadWeights, LocksInv, PoolInv
    <3> QED BY <2>3, <3>1 DEF ReadWeights
  <2> QED BY <2>1, <2>2, <2>3
<1>3. \A r \in second' : r \in second /\ r # s
  <2>1. CASE GoOn(s)
    <3>1. Step(s) # "weights" BY <2>1 DEF GoOn, At
    <3> QED BY <2>1, <3>1 DEF GoOn, poolVars, LocksInv, PoolInv
  <2>2. CASE UseCachedWeights(s) BY <2>2 DEF UseCachedWeights, poolVars
  <2>3. CASE ReadWeights(s) BY <2>3 DEF ReadWeights
  <2> QED BY <2>1, <2>2, <2>3
<1>4. /\ Asks(s)' = Asks(s) /\ Kind(s)' = Kind(s) /\ ItemOf(s)' = ItemOf(s)
      /\ Place(s)' = Place(s) + 1 /\ Step(s)' = Steps[Kind(s)][Place(s) + 1]
      /\ s \in InTransaction'
  BY <1>1, <1>2, AdvanceMoves
<1>5. item' = item /\ cardStatus' = cardStatus BY <1>2 DEF rowVars
<1>6. CardOf(s)' = CardOf(s) BY <1>4, <1>5 DEF CardOf
<1>7. SlotInv(s) BY DEF LocksInv
<1>8. Kind(s) \in DOMAIN Steps /\ Place(s) \in 1..Len(Steps[Kind(s)]) /\ Place(s) \in Nat
      /\ Step(s) = Steps[Kind(s)][Place(s)]
  BY <1>1, AskTypes
<1>9. Place(s) > 1 \/ Kind(s) \notin ItemFirst \cup CardFirst
  BY <1>2, <1>8, Places
<1>10. HasFirst(s)'
  <2>1. FirstLock(s)' = FirstLock(s) BY <1>4, <1>6 DEF FirstLock
  <2> QED BY <2>1, <1>2, <1>4, <1>7, <1>9 DEF HasFirst, SlotInv
<1>11. Decided(s)'
  <2>1. CASE Place(s) > 2
    BY <2>1, <1>4, <1>5, <1>6, <1>7 DEF SlotInv, Decided
  <2>2. CASE Place(s) = 2
    <3>1. Kind(s) \in ItemFirst => item[ItemOf(s)].state = "open"
      BY <2>2, <1>2, <1>8, Places DEF Passes, ItemOf
    <3>2. Kind(s) \in CardFirst => cardStatus[CardOf(s)] = "HELD"
      BY <2>2, <1>2, <1>8, Places DEF Passes, ItemOf, CardOf
    <3> QED BY <3>1, <3>2, <1>4, <1>5, <1>6 DEF Decided
  <2>3. CASE Place(s) < 2 BY <2>3, <1>4, <1>8 DEF Decided
  <2> QED BY <2>1, <2>2, <2>3, <1>8
<1>12. ASSUME NEW l \in locks', l.slot = s PROVE Justified(l)'
  <2>1. Justified(l) BY <1>2, <1>7, <1>12 DEF SlotInv
  <2>2. \A u : HasUser(s, u) => HasUser(s, u)'
    <3>1. Step(s) \in {"check", "users"} => Step(s)' \in {"check", "card", "commit"}
      BY <1>4, <1>8, Scripts
    <3> QED BY <3>1, <1>2 DEF HasUser
  <2>3. HasRow(s, l.row) => HasRow(s, l.row)'
    <3>1. ASSUME Step(s) = "rows" PROVE Steps[Kind(s)][Place(s) + 1] = "commit"
      <4>1. Steps[Kind(s)][Place(s)] = "rows" BY <3>1, <1>8
      <4> QED BY <4>1, <1>8, Scripts
    <3>2. Step(s) = "rows" => Step(s)' = "commit" BY <3>1, <1>4
    <3> QED BY <3>2, <1>2, <1>4 DEF HasRow
  <2> QED BY <2>1, <2>2, <2>3, <1>2, <1>4, <1>6, <1>8, <1>12 DEF Justified
<1>13. SlotInv(s)' BY <1>10, <1>11, <1>12 DEF SlotInv
<1>14. NoConflicts' BY <1>2 DEF LocksInv, NoConflicts
<1>15. \A l \in locks' : l.slot \in Slots BY <1>1, <1>2 DEF LockTypes
<1>16. \A r \in Slots \ {s} : Held(r)' = Held(r) BY <1>2 DEF Held
<1> QED BY <1>2, <1>3, <1>13, <1>14, <1>15, <1>16, AdvanceKeeps

(* Steps that touch neither requests, rows nor locks.                       *)
LEMMA PoolStepKeeps ==
  ASSUME LocksInv, Expire \/ (\E s \in Slots : AskForWeights(s))
  PROVE  LocksInv'
<1>1. request' = request /\ UNCHANGED rowVars /\ locks' = locks /\ connected' = connected
  BY DEF Expire, AskForWeights
<1>2. item' = item /\ cardStatus' = cardStatus BY <1>1 DEF rowVars
<1>3. \A r \in second' : r \in InTransaction /\ Step(r) = "weights"
  <2>1. CASE Expire BY <2>1 DEF Expire, LocksInv, PoolInv
  <2>2. ASSUME NEW s \in Slots, AskForWeights(s)
        PROVE \A r \in second' : r \in InTransaction /\ Step(r) = "weights"
    BY <2>2 DEF AskForWeights, At, LocksInv, PoolInv
  <2> QED BY <2>1, <2>2
<1>4. PoolInv'
  BY <1>1, <1>3 DEF LocksInv, PoolInv, InTransaction, Step, Asks
<1>5. LockTypes' BY <1>1, <1>2 DEF LocksInv, LockTypes, Place, Kind, Asks
<1>6. NoConflicts' BY <1>1 DEF LocksInv, NoConflicts
<1>7. \A r \in Slots : SlotInv(r)' BY <1>1, OthersKeepQuietly DEF Held
<1> QED BY <1>1, <1>4, <1>5, <1>6, <1>7, QuietRows DEF LocksInv

----------------------------------------------------------------------------
(* Taking a lock *)

LEMMA TakeLockKeeps ==
  ASSUME LocksInv, NEW s \in Slots, TakeLock(s)
  PROVE  LocksInv'
<1> DEFINE new == [slot |-> s, row |-> RowOf(s), mode |-> ModeOf(s)]
           stays == MoreRows(s)
<1>1. LockTypes BY DEF LocksInv
<1>2. /\ s \in InTransaction
      /\ Step(s) \in {"item", "skip_locked", "card", "own_card", "seller", "balance", "users", "rows"}
      /\ Step(s) = "users" => Wanted(s) # {}
      /\ Step(s) = "rows" => Left(s) # {}
      /\ Free(s, RowOf(s), ModeOf(s)) /\ locks' = locks \cup {new}
      /\ stays => request' = request
      /\ ~stays => Advance(s)
      /\ UNCHANGED rowVars /\ connected' = connected /\ second' = second
  BY DEF TakeLock, Locking, poolVars
<1>3. item' = item /\ cardStatus' = cardStatus BY <1>2 DEF rowVars
<1>4. SlotInv(s) BY DEF LocksInv
<1>5. /\ Kind(s) \in DOMAIN Steps /\ Place(s) \in 1..Len(Steps[Kind(s)]) /\ Place(s) \in Nat
      /\ Step(s) = Steps[Kind(s)][Place(s)]
  BY <1>1, AskTypes
<1>6. new.slot = s /\ new.row = RowOf(s) /\ new.mode = ModeOf(s) OBVIOUS
<1> HIDE DEF new
<1>7. NoConflicts'
  <2> SUFFICES ASSUME NEW l \in locks', NEW m \in locks', l.row = m.row, l.slot # m.slot
               PROVE  ~Conflict(l.mode, m.mode)
    BY DEF NoConflicts
  <2>1. CASE l \in locks /\ m \in locks BY <2>1 DEF LocksInv, NoConflicts
  <2>2. CASE l = new /\ m \in locks
    <3>1. ~Conflict(m.mode, ModeOf(s)) BY <2>2, <1>2, <1>6 DEF Free
    <3> QED BY <3>1, <2>2, <1>6 DEF Conflict
  <2>3. CASE m = new /\ l \in locks BY <2>3, <1>2, <1>6 DEF Free
  <2> QED BY <2>1, <2>2, <2>3, <1>2
<1>8. \A l \in locks' : l.slot \in Slots BY <1>1, <1>2, <1>6 DEF LockTypes
<1>9. \A r \in Slots \ {s} : Held(r)' = Held(r) BY <1>2, <1>6 DEF Held
<1>10. CASE stays
  <2>0. Step(s) \in {"users", "rows"} BY <1>10 DEF MoreRows
  <2>1. LockTypes' BY <1>1, <1>3, <1>8, <1>10, <1>2 DEF LockTypes, Place, Kind, Asks
  <2>2. PoolInv' BY <1>2, <1>10 DEF LocksInv, PoolInv, InTransaction, Step, Asks
  <2>3. /\ Asks(s)' = Asks(s) /\ Kind(s)' = Kind(s) /\ ItemOf(s)' = ItemOf(s)
        /\ Place(s)' = Place(s) /\ Step(s)' = Step(s) /\ CardOf(s)' = CardOf(s)
        /\ InTransaction' = InTransaction
    BY <1>2, <1>3, <1>10 DEF Asks, Kind, ItemOf, Place, Step, CardOf, InTransaction
  <2>4. HasFirst(s)'
    <3>1. FirstLock(s)' = FirstLock(s) BY <2>3 DEF FirstLock
    <3> QED BY <3>1, <2>3, <1>2, <1>4 DEF HasFirst, SlotInv
  <2>5. Decided(s)' BY <2>3, <1>3, <1>4 DEF SlotInv, Decided
  <2>6. Held(s)' = Held(s) \cup {new} BY <1>2, <1>6 DEF Held
  <2>7. ASSUME Step(s) = "users" PROVE \A l \in locks' : l.slot = s => Justified(l)'
    <3>1. PICK least \in Wanted(s) :
              /\ new.row = <<"user", least>>
              /\ \A w \in Wanted(s) : least <= w /\ w \in Nat
      <4>1. new.row = <<"user", NextUser(s, Wanted(s))>> BY <1>6, <2>7, RowsByStep
      <4>2. /\ NextUser(s, Wanted(s)) \in Wanted(s)
            /\ \A w \in Wanted(s) : NextUser(s, Wanted(s)) <= w /\ w \in Nat
        BY <1>1, <1>2, <2>7, LeastWanted, PartiesAreUsers, PoolAssumption
      <4> QED BY <4>1, <4>2
    <3>2. Wanted(s)' \subseteq Wanted(s) \ {least}
      <4>1. Parties(s)' = Parties(s) BY <2>3, <1>3 DEF Parties, ItemOf, Kind
      <4>2. \A w \in Wanted(s)' : w \in Parties(s) /\ (\A l \in Held(s)' : l.row # <<"user", w>>)
        BY <4>1 DEF Wanted
      <4>3. \A w \in Wanted(s)' : w \in Wanted(s)
        BY <2>6, <4>2, <2>3, <1>3 DEF Wanted, ItemOf, Kind
      <4>4. least \notin Wanted(s)' BY <2>6, <4>2, <3>1
      <4> QED BY <4>3, <4>4
    <3>3. ASSUME NEW l \in locks', l.slot = s PROVE Justified(l)'
      <4>1. CASE l \in locks
        <5>1. Justified(l) BY <4>1, <3>3, <1>4 DEF SlotInv
        <5>2. \A u \in Users : HasUser(s, u) => HasUser(s, u)' BY <2>3, <3>2 DEF HasUser
        <5>3. ~HasRow(s, l.row) BY <2>7 DEF HasRow
        <5> QED BY <5>1, <5>2, <5>3, <2>3, <3>3 DEF Justified
      <4>2. CASE l = new
        <5>1. least \in Users BY <3>1, <1>1, PartiesAreUsers
        <5>2. \A w \in Wanted(s)' : least < w
          <6> TAKE w \in Wanted(s)'
          <6>1. least \in Nat /\ w \in Nat /\ least <= w /\ w # least BY <3>1, <3>2
          <6> QED BY <6>1
        <5>3. HasUser(s, least)' BY <5>2, <2>3, <2>7 DEF HasUser
        <5> QED BY <5>1, <5>3, <4>2, <3>1, <2>3, <3>3, <1>2 DEF Justified
      <4> QED BY <4>1, <4>2, <1>2
    <3> QED BY <3>3
  <2>8. ASSUME Step(s) = "rows" PROVE \A l \in locks' : l.slot = s => Justified(l)'
    <3> DEFINE least == Min(Left(s))
               plan == Plan[ItemOf(s)]
    <3>1. /\ least \in Left(s) /\ Left(s) \subseteq DOMAIN plan
          /\ \A j \in Left(s) : j \in Nat /\ least <= j
      BY <1>1, <1>2, <2>8, LeastLeft
    <3>2. new.row = <<Kind(s), plan[least]>> BY <2>8, <1>6, RowsByStep
    <3>3. PICK i \in Left(s) : i = least BY <3>1
    <3>4. Left(s)' \subseteq Left(s) \ {i}
      <4>1. \A j \in Left(s)' : j \in DOMAIN plan /\ \A l \in Held(s)' : l.row # <<Kind(s), plan[j]>>
        BY <2>3 DEF Left, Kind, ItemOf
      <4>2. \A j \in Left(s)' : j \in Left(s) BY <2>6, <4>1 DEF Left, Kind, ItemOf
      <4>3. i \notin Left(s)' BY <2>6, <4>1, <3>2, <3>3
      <4> QED BY <4>2, <4>3
    <3>5. \A j \in Left(s)' : i < j
      <4> TAKE j \in Left(s)'
      <4>1. i \in Nat /\ j \in Nat /\ i <= j /\ i # j BY <3>1, <3>3, <3>4
      <4> QED BY <4>1
    <3>6. Kind(s) \in ByPlan BY <2>8, <1>5, Scripts
    <3>7. ASSUME NEW l \in locks', l.slot = s PROVE Justified(l)'
      <4>1. CASE l \in locks
        <5>1. Justified(l) BY <4>1, <3>7, <1>4 DEF SlotInv
        <5>2. HasRow(s, l.row) => HasRow(s, l.row)' BY <2>3, <3>4 DEF HasRow
        <5>3. \A u : ~HasUser(s, u) BY <2>8 DEF HasUser
        <5> QED BY <5>1, <5>2, <5>3, <2>3, <3>7 DEF Justified
      <4>2. CASE l = new
        <5>1. i \in DOMAIN Plan[ItemOf(s)] /\ l.row = <<Kind(s), Plan[ItemOf(s)][i]>>
          BY <3>1, <3>2, <3>3, <4>2
        <5>2. HasRow(s, l.row)' BY <5>1, <3>5, <3>6, <2>3, <2>8 DEF HasRow
        <5> QED BY <5>2, <3>7, <2>3, <1>2 DEF Justified
      <4> QED BY <4>1, <4>2, <1>2
    <3> QED BY <3>7
  <2>9. \A l \in locks' : l.slot = s => Justified(l)' BY <2>0, <2>7, <2>8
  <2>10. \A r \in Slots : SlotInv(r)'
    <3> TAKE r \in Slots
    <3>1. CASE r = s BY <3>1, <2>4, <2>5, <2>9 DEF SlotInv
    <3>2. CASE r # s BY <3>2, <1>2, <1>9, <1>10, OthersKeepQuietly
    <3> QED BY <3>1, <3>2
  <2> QED BY <2>1, <2>2, <2>10, <1>7, <1>2, QuietRows DEF LocksInv
<1>11. CASE ~stays
  <2> DEFINE next == Steps[Kind(s)][Place(s) + 1]
  <2>1. /\ Asks(s)' = Asks(s) /\ Kind(s)' = Kind(s) /\ ItemOf(s)' = ItemOf(s)
        /\ Place(s)' = Place(s) + 1 /\ Step(s)' = next
        /\ s \in InTransaction'
    BY <1>1, <1>2, <1>11, AdvanceMoves
  <2>2. CardOf(s)' = CardOf(s) BY <2>1, <1>3 DEF CardOf
  <2>3. /\ Step(s) \in {"users"} => next \in {"check", "card"}
        /\ Step(s) = "rows" => Kind(s) \in ByPlan /\ next = "commit"
        /\ Step(s) = "card" => Kind(s) \in ItemFirst /\ next = "commit"
        /\ Step(s) \in {"seller", "balance"} => next = "commit"
        /\ Step(s) \in {"item", "skip_locked"} => Kind(s) \in ItemFirst
        /\ Step(s) = "own_card" => Kind(s) \in CardFirst /\ Kind(s) \notin ItemFirst
    BY <1>2, <1>5, Scripts DEF ItemFirst, CardFirst
  <2>4. /\ Kind(s) \in ItemFirst => (Step(s) \in {"item", "skip_locked"} <=> Place(s) = 1)
        /\ Kind(s) \in CardFirst => (Step(s) = "own_card" <=> Place(s) = 1)
        /\ Place(s) = 2 => Kind(s) \notin ItemFirst \cup CardFirst
    BY <1>2, <1>5, Places
  <2> HIDE DEF next
  <2>5. HasFirst(s)'
    <3>1. FirstLock(s)' = FirstLock(s) BY <2>1, <2>2 DEF FirstLock
    <3>2. CASE Kind(s) \in ItemFirst \cup CardFirst /\ Place(s) > 1
      BY <3>1, <3>2, <2>1, <1>2, <1>4 DEF HasFirst, SlotInv
    <3>3. CASE Kind(s) \in ItemFirst \cup CardFirst /\ Place(s) = 1
      <4>1. FirstLock(s) = new
        <5>1. CASE Kind(s) \in ItemFirst
          <6>1. RowOf(s) = <<"item", ItemOf(s)>> /\ ModeOf(s) = "update"
            BY <5>1, <3>3, <2>3, <2>4, RowsByStep
          <6> QED BY <6>1, <5>1 DEF FirstLock, new
        <5>2. CASE Kind(s) \notin ItemFirst
          <6>1. RowOf(s) = <<"card", CardOf(s)>> /\ ModeOf(s) = "update"
            BY <5>2, <3>3, <2>3, <2>4, RowsByStep
          <6> QED BY <6>1, <5>2 DEF FirstLock, new
        <5> QED BY <5>1, <5>2
      <4> QED BY <4>1, <3>1, <1>2 DEF HasFirst
    <3> QED BY <3>2, <3>3, <2>1, <1>5 DEF HasFirst
  <2>6. Decided(s)'
    <3>1. CASE Place(s) > 2 BY <3>1, <2>1, <2>2, <1>3, <1>4 DEF SlotInv, Decided
    <3>2. CASE Place(s) = 2 BY <3>2, <2>1, <2>3, <2>4 DEF Decided
    <3>3. CASE Place(s) < 2 BY <3>3, <2>1, <1>5 DEF Decided
    <3> QED BY <3>1, <3>2, <3>3, <1>5
  <2>7. ASSUME NEW l \in locks', l.slot = s PROVE Justified(l)'
    <3>1. CASE l \in locks
      <4>1. Justified(l) BY <3>1, <2>7, <1>4 DEF SlotInv
      <4>2. \A u : HasUser(s, u) => HasUser(s, u)'
        BY <2>1, <2>3, <2>4, <1>2 DEF HasUser
      <4>3. HasRow(s, l.row) => HasRow(s, l.row)' BY <2>1, <2>3, <1>2 DEF HasRow
      <4>4. Step(s) # "commit" BY <1>2
      <4> QED BY <4>1, <4>2, <4>3, <4>4, <2>1, <2>2, <2>7, <1>5 DEF Justified
    <3>2. CASE l = new
      <4>1. CASE Step(s) \in {"item", "skip_locked"}
        <5>1. new.row = <<"item", ItemOf(s)>> BY <4>1, <1>6, RowsByStep
        <5>2. Place(s)' > 1 BY <2>1, <2>3, <2>4, <4>1
        <5> QED BY <5>1, <5>2, <4>1, <3>2, <2>1, <2>3, <2>4, <2>7 DEF Justified
      <4>2. CASE Step(s) \in {"card", "own_card"}
        <5>1. new.row = <<"card", CardOf(s)>> BY <4>2, <1>6, RowsByStep
        <5>2. Step(s) = "own_card" => Place(s)' > 1 BY <2>1, <2>3, <2>4
        <5> QED BY <5>1, <5>2, <4>2, <3>2, <2>1, <2>2, <2>3, <2>4, <2>7 DEF Justified
      <4>3. CASE Step(s) \in {"seller", "balance"}
        <5>1. new.row = <<"user", Asks(s).user>> BY <4>3, <1>6, RowsByStep
        <5>2. Asks(s).user \in Users
          <6>1. Kind(s) # "settle" BY <4>3, <1>5, Scripts DEF CardFirst
          <6> QED BY <6>1, <1>1, AskTypes
        <5>3. HasUser(s, Asks(s).user)' BY <2>1, <2>3, <2>4, <4>3 DEF HasUser
        <5> QED BY <5>1, <5>2, <5>3, <3>2, <2>1, <2>7 DEF Justified
      <4>4. CASE Step(s) = "users"
        <5>1. new.row = <<"user", NextUser(s, Wanted(s))>> BY <4>4, <1>6, RowsByStep
        <5>2. NextUser(s, Wanted(s)) \in Users
          BY <4>4, <1>1, <1>2, LeastWanted, PartiesAreUsers
        <5>3. \A u : HasUser(s, u)' BY <2>1, <2>3, <2>4, <4>4 DEF HasUser
        <5> QED BY <5>1, <5>2, <5>3, <3>2, <2>1, <2>7 DEF Justified
      <4>5. CASE Step(s) = "rows"
        <5>1. PICK i \in DOMAIN Plan[ItemOf(s)] : new.row = <<Kind(s), Plan[ItemOf(s)][i]>>
          BY <4>5, <1>1, <1>2, <1>6, RowsByStep, LeastLeft
        <5>2. HasRow(s, l.row)' BY <5>1, <4>5, <3>2, <2>1, <2>3 DEF HasRow
        <5> QED BY <5>2, <3>2, <2>1, <2>7 DEF Justified
      <4> QED BY <4>1, <4>2, <4>3, <4>4, <4>5, <1>2
    <3> QED BY <3>1, <3>2, <1>2
  <2>8. SlotInv(s)' BY <2>5, <2>6, <2>7 DEF SlotInv
  <2>9. \A r \in second' : r \in second /\ r # s BY <1>2 DEF LocksInv, PoolInv
  <2> QED BY <2>8, <2>9, <1>2, <1>7, <1>8, <1>9, <1>11, AdvanceKeeps
<1> QED BY <1>10, <1>11

----------------------------------------------------------------------------
(* Writing the rows *)

(* Two requests past their first lock have different items or cards.        *)
LEMMA FirstLocksExclude ==
  ASSUME LocksInv, NEW r \in Slots, NEW s \in Slots, r # s, Place(r) > 1, Place(s) > 1
  PROVE  /\ Kind(r) \in ItemFirst /\ Kind(s) \in ItemFirst => ItemOf(r) # ItemOf(s)
         /\ Kind(r) \in CardFirst /\ Kind(s) \in CardFirst => CardOf(r) # CardOf(s)
<1>1. HasFirst(r) /\ HasFirst(s) BY DEF LocksInv, SlotInv
<1>2. ASSUME Kind(r) \in ItemFirst \cup CardFirst, Kind(s) \in ItemFirst \cup CardFirst
      PROVE  FirstLock(r).row # FirstLock(s).row
  <2>1. FirstLock(r) \in locks /\ FirstLock(s) \in locks BY <1>1, <1>2 DEF HasFirst
  <2>2. /\ FirstLock(r).slot = r /\ FirstLock(s).slot = s
        /\ FirstLock(r).mode = "update" /\ FirstLock(s).mode = "update"
    BY DEF FirstLock
  <2> QED BY <2>1, <2>2 DEF LocksInv, NoConflicts, Conflict
<1> QED BY <1>2 DEF FirstLock, ItemFirst, CardFirst

LEMMA CommitWrites ==
  ASSUME LocksInv, NEW s \in Slots, Commit(s)
  PROVE  /\ item' \in [ItemRows -> ItemRow]
         /\ cardStatus' \in [CardRows -> {"HELD", "LISTED", "AUCTION"}]
         /\ \A i \in ItemRows : item'[i].card = item[i].card /\ item'[i].seller = item[i].seller
         /\ \A i \in ItemRows : i # ItemOf(s) => item'[i] = item[i]
         /\ \A c \in CardRows : c # CardOf(s) => cardStatus'[c] = cardStatus[c]
         /\ \/ Kind(s) \in ItemFirst \ {"reveal", "bid", "purchase"}
               /\ item'[ItemOf(s)].state = "shut" /\ cardStatus'[CardOf(s)] = "HELD"
            \/ /\ Kind(s) \in CardFirst
               /\ item'[ItemOf(s)].state = "open" /\ cardStatus'[CardOf(s)] # "HELD"
            \/ /\ Kind(s) = "bid" /\ cardStatus' = cardStatus
               /\ item'[ItemOf(s)].state = item[ItemOf(s)].state
            \/ /\ Kind(s) = "reveal" /\ cardStatus' = cardStatus
               /\ item'[ItemOf(s)].state = "shut"
            \/ /\ UNCHANGED rowVars /\ Kind(s) \in {"deposit", "purchase"} \cup ByPlan
<1>1. LockTypes BY DEF LocksInv
<1>2. /\ item \in [ItemRows -> ItemRow]
      /\ cardStatus \in [CardRows -> {"HELD", "LISTED", "AUCTION"}]
      /\ Asks(s) \in Menu /\ ItemOf(s) \in ItemRows /\ Kind(s) \in DOMAIN Steps
      /\ Asks(s).user \in Users \cup {Nobody} /\ item[ItemOf(s)] \in ItemRow
  BY <1>1, AskTypes DEF LockTypes
<1>3. CardOf(s) \in CardRows BY <1>2 DEF CardOf, ItemRow
<1>4. CASE Kind(s) = "bid"
  <2>1. item' = [item EXCEPT ![ItemOf(s)].leader = Asks(s).user] /\ cardStatus' = cardStatus
    BY <1>4 DEF Commit, Kind, ItemOf
  <2> QED BY <2>1, <1>2, <1>4 DEF ItemRow
<1>5. CASE Kind(s) \in {"settle", "buy", "cancel"}
  <2>1. /\ item' = [item EXCEPT ![ItemOf(s)].state = "shut"]
        /\ cardStatus' = [cardStatus EXCEPT ![CardOf(s)] = "HELD"]
    BY <1>5 DEF Commit, Kind, ItemOf, CardOf
  <2> QED BY <2>1, <1>2, <1>3, <1>5 DEF ItemRow, ItemFirst
<1>6. CASE Kind(s) = "auction"
  <2>1. /\ item' = [item EXCEPT ![ItemOf(s)].state = "open"]
        /\ cardStatus' = [cardStatus EXCEPT ![CardOf(s)] = "AUCTION"]
    BY <1>6 DEF Commit, Kind, ItemOf, CardOf
  <2> QED BY <2>1, <1>2, <1>3, <1>6 DEF ItemRow, CardFirst
<1>7. CASE Kind(s) = "list"
  <2>1. /\ item' = [item EXCEPT ![ItemOf(s)].state = "open"]
        /\ cardStatus' = [cardStatus EXCEPT ![CardOf(s)] = "LISTED"]
    BY <1>7 DEF Commit, Kind, ItemOf, CardOf
  <2> QED BY <2>1, <1>2, <1>3, <1>7 DEF ItemRow, CardFirst
<1>8. CASE Kind(s) = "reveal"
  <2>1. item' = [item EXCEPT ![ItemOf(s)].state = "shut"] /\ cardStatus' = cardStatus
    BY <1>8 DEF Commit, Kind, ItemOf
  <2> QED BY <2>1, <1>2, <1>8 DEF ItemRow
<1>9. CASE Kind(s) \in {"deposit", "purchase"} \cup ByPlan
  <2>1. UNCHANGED rowVars BY <1>9 DEF Commit, Kind, ByPlan
  <2> QED BY <2>1, <1>2, <1>9 DEF rowVars
<1> QED BY <1>2, <1>4, <1>5, <1>6, <1>7, <1>8, <1>9, ScriptKinds DEF ByPlan

LEMMA CommitKeeps ==
  ASSUME LocksInv, NEW s \in Slots, Commit(s)
  PROVE  LocksInv'
<1>1. LockTypes BY DEF LocksInv
<1>2. s \in InTransaction /\ Step(s) = "commit" /\ Ends(s) BY DEF Commit, At
<1>3. /\ Kind(s) \in DOMAIN Steps /\ Place(s) \in 1..Len(Steps[Kind(s)]) /\ Place(s) \in Nat
      /\ Step(s) = Steps[Kind(s)][Place(s)] /\ ItemOf(s) \in ItemRows
      /\ item[ItemOf(s)] \in ItemRow
      /\ Kind(s) \in {"bid", "settle", "auction", "list", "buy", "cancel"} => ItemOf(s) \in Traded
  BY <1>1, AskTypes
<1>4. Place(s) > 1 /\ (Kind(s) \in ItemFirst \cup CardFirst => Place(s) > 2)
  BY <1>2, <1>3, Places
<1>5. Decided(s) BY DEF LocksInv, SlotInv
<1>6. CardOf(s) \in CardRows BY <1>3 DEF CardOf, ItemRow
<1>7. Traded \subseteq ItemRows BY MenuAssumption DEF Traded
<1>8. CardsSpokenFor BY DEF LocksInv
<1>9. /\ \A i \in ItemRows : item'[i].card = item[i].card /\ item'[i].seller = item[i].seller
      /\ \A i \in ItemRows : i # ItemOf(s) => item'[i] = item[i]
  BY CommitWrites
<1>10. CardsSpokenFor'
  <2> SUFFICES ASSUME NEW i \in Traded, NEW j \in Traded, item'[i].state = "open"
               PROVE  /\ cardStatus'[item'[i].card] # "HELD"
                      /\ item'[j].state = "open" /\ item'[j].card = item'[i].card => i = j
    BY DEF CardsSpokenFor
  <2>1. /\ item'[i].card = item[i].card /\ item'[j].card = item[j].card
        /\ i # ItemOf(s) => item'[i] = item[i]
        /\ j # ItemOf(s) => item'[j] = item[j]
    BY <1>7, <1>9
  <2>2. item[i].card \in CardRows /\ item[j].card \in CardRows
    BY <1>1, <1>7 DEF LockTypes, ItemRow
  <2>3. CASE Kind(s) \in ItemFirst \ {"reveal", "bid", "purchase"}
    <3>1. item[ItemOf(s)].state = "open" /\ ItemOf(s) \in Traded
      BY <2>3, <1>3, <1>4, <1>5 DEF Decided, ItemFirst
    <3>2. item'[ItemOf(s)].state = "shut" BY <2>3, CommitWrites DEF ItemFirst, CardFirst, ByPlan
    <3>3. i # ItemOf(s) BY <3>2
    <3>4. item[i].card # CardOf(s)
      BY <3>1, <3>3, <2>1, <1>8 DEF CardsSpokenFor, CardOf
    <3>5. cardStatus'[item[i].card] = cardStatus[item[i].card] BY <3>4, <2>2, CommitWrites
    <3>6. item'[j].state = "open" => item[j].state = "open" BY <3>2, <2>1
    <3> QED BY <3>3, <3>5, <3>6, <2>1, <1>8 DEF CardsSpokenFor
  <2>4. CASE Kind(s) \in CardFirst
    <3>1. cardStatus[CardOf(s)] = "HELD" /\ ItemOf(s) \in Traded
      BY <2>4, <1>3, <1>4, <1>5 DEF Decided, CardFirst
    <3>2. cardStatus'[CardOf(s)] # "HELD" BY <2>4, CommitWrites DEF ItemFirst, CardFirst, ByPlan
    <3>3. \A t \in Traded : item[t].state = "open" => item[t].card # CardOf(s)
      BY <3>1, <1>8 DEF CardsSpokenFor
    <3>4. i = ItemOf(s) => item[i].card = CardOf(s) BY DEF CardOf
    <3>5. j = ItemOf(s) => item[j].card = CardOf(s) BY DEF CardOf
    <3>6. i # ItemOf(s) => cardStatus'[item[i].card] = cardStatus[item[i].card]
      BY <3>3, <2>1, <2>2, CommitWrites
    <3>7. cardStatus'[item'[i].card] # "HELD"
      BY <3>2, <3>4, <3>6, <2>1, <1>8 DEF CardsSpokenFor
    <3> QED BY <3>3, <3>4, <3>5, <3>7, <2>1, <1>8 DEF CardsSpokenFor
  <2>5. CASE Kind(s) = "bid"
    <3>1. cardStatus' = cardStatus /\ item'[ItemOf(s)].state = item[ItemOf(s)].state
      BY <2>5, CommitWrites DEF ItemFirst, CardFirst, ByPlan
    <3> QED BY <3>1, <2>1, <1>8 DEF CardsSpokenFor
  <2>6. CASE Kind(s) = "reveal"
    <3>1. cardStatus' = cardStatus /\ item'[ItemOf(s)].state = "shut"
      BY <2>6, CommitWrites DEF ItemFirst, CardFirst, ByPlan
    <3> QED BY <3>1, <2>1, <1>8 DEF CardsSpokenFor
  <2>7. CASE Kind(s) \in {"deposit", "purchase"} \cup ByPlan
    <3>1. UNCHANGED rowVars BY <2>7, CommitWrites DEF ItemFirst, CardFirst, ByPlan
    <3> QED BY <3>1, <1>8 DEF CardsSpokenFor, rowVars
  <2> QED BY <2>3, <2>4, <2>5, <2>6, <2>7, <1>3, ScriptKinds DEF ItemFirst, CardFirst, ByPlan
<1>11. ASSUME NEW r \in Slots \ {s} PROVE SlotInv(r)'
  <2>1. request'[r] = request[r] /\ Held(r)' = Held(r) BY <1>1, <1>2, EndsMoves
  <2>2. ItemOf(r) \in ItemRows /\ CardOf(r) \in CardRows
    BY <1>1, AskTypes DEF CardOf, ItemRow
  <2>3. /\ Asks(r)' = Asks(r) /\ Kind(r)' = Kind(r) /\ ItemOf(r)' = ItemOf(r)
        /\ Place(r)' = Place(r)
    BY <2>1 DEF Asks, Kind, ItemOf, Place
  <2>4. CardOf(r)' = CardOf(r) BY <2>2, <2>3, <1>9 DEF CardOf
  <2>5. Kind(r) \in ItemFirst /\ Place(r) > 1 =>
          /\ item'[ItemOf(r)].leader = item[ItemOf(r)].leader
          /\ item'[ItemOf(r)].seller = item[ItemOf(r)].seller
    <3> SUFFICES ASSUME Kind(r) \in ItemFirst, Place(r) > 1
                 PROVE  item'[ItemOf(r)].leader = item[ItemOf(r)].leader
      BY <2>2, <1>9
    <3>1. CASE ItemOf(r) # ItemOf(s) BY <3>1, <2>2, <1>9
    <3>2. CASE ItemOf(r) = ItemOf(s)
      <4>1. Kind(s) \notin ItemFirst BY <3>2, <1>4, FirstLocksExclude
      <4>2. Kind(s) # "bid" BY <4>1 DEF ItemFirst
      <4>3. item'[ItemOf(r)].leader = item[ItemOf(r)].leader
        <5>1. item \in [ItemRows -> ItemRow] BY <1>1 DEF LockTypes
        <5> QED BY <4>2, <5>1, <2>2, <3>2 DEF Commit, Kind, ItemOf, rowVars, ItemRow
      <4> QED BY <4>3
    <3> QED BY <3>1, <3>2
  <2>6. Decided(r)'
    <3> SUFFICES ASSUME Place(r) > 2
                 PROVE  /\ Kind(r) \in ItemFirst => item'[ItemOf(r)].state = "open"
                        /\ Kind(r) \in CardFirst => cardStatus'[CardOf(r)] = "HELD"
      BY <2>3, <2>4 DEF Decided
    <3>1. Decided(r) /\ Place(r) > 1 BY <1>1, AskTypes DEF LocksInv, SlotInv
    <3>2. CASE Kind(r) \in ItemFirst
      <4>1. item[ItemOf(r)].state = "open" BY <3>1, <3>2 DEF Decided
      <4>2. Kind(r) \notin CardFirst BY <3>2 DEF ItemFirst, CardFirst
      <4>3. CASE ItemOf(r) # ItemOf(s) BY <4>1, <4>2, <4>3, <2>2, <1>9
      <4>4. CASE ItemOf(r) = ItemOf(s)
        <5>1. Kind(s) \notin ItemFirst BY <4>4, <3>1, <3>2, <1>4, FirstLocksExclude
        <5>2. Kind(s) \in CardFirst \/ UNCHANGED rowVars
          BY <5>1, CommitWrites DEF ItemFirst
        <5>3. item'[ItemOf(r)].state = "open"
          <6>1. CASE Kind(s) \in CardFirst
            BY <6>1, <4>4, CommitWrites DEF ItemFirst, CardFirst, ByPlan
          <6>2. CASE UNCHANGED rowVars BY <6>2, <4>1 DEF rowVars
          <6> QED BY <5>2, <6>1, <6>2
        <5> QED BY <5>3, <4>2
      <4> QED BY <4>3, <4>4
    <3>3. CASE Kind(r) \in CardFirst
      <4>1. cardStatus[CardOf(r)] = "HELD" BY <3>1, <3>3 DEF Decided
      <4>2. Kind(r) \notin ItemFirst BY <3>3 DEF ItemFirst, CardFirst
      <4>3. CASE CardOf(r) # CardOf(s) BY <4>1, <4>2, <4>3, <2>2, CommitWrites
      <4>4. CASE CardOf(r) = CardOf(s)
        <5>1. Kind(s) \notin CardFirst BY <4>4, <3>1, <3>3, <1>4, FirstLocksExclude
        <5>2. cardStatus'[CardOf(s)] = "HELD" \/ cardStatus' = cardStatus
          BY <5>1, CommitWrites DEF rowVars
        <5> QED BY <5>2, <4>1, <4>2, <4>4
      <4> QED BY <4>3, <4>4
    <3> QED BY <3>2, <3>3
  <2> QED BY <2>1, <2>4, <2>5, <2>6, OthersKeep
<1> QED BY <1>2, <1>10, <1>11, CommitWrites, EndsKeeps

LEMMA LocksInvariant == LocksSpec => []LocksInv
<1>1. LocksInit => LocksInv BY StartKeeps
<1>2. LocksInv /\ [LocksNext]_lockVars => LocksInv'
  <2> SUFFICES ASSUME LocksInv, [LocksNext]_lockVars PROVE LocksInv' OBVIOUS
  <2>1. ASSUME NEW s \in Slots, RequestStep(s) PROVE LocksInv'
    BY <2>1, BeginKeeps, TakeLockKeeps, GoOnKeeps, RollBackKeeps, CommitKeeps, PoolStepKeeps
       DEF RequestStep
  <2>2. CASE Expire BY <2>2, PoolStepKeeps
  <2>3. CASE UNCHANGED lockVars
    <3>1. /\ request' = request /\ locks' = locks /\ UNCHANGED rowVars
          /\ connected' = connected /\ second' = second
      BY <2>3 DEF lockVars, poolVars
    <3>2. \A r \in Slots : SlotInv(r)' BY <3>1, OthersKeepQuietly DEF Held
    <3>3. LockTypes' BY <3>1, QuietRows DEF LocksInv, LockTypes, Place, Kind, Asks
    <3>4. PoolInv' BY <3>1 DEF LocksInv, PoolInv, InTransaction, Step, Asks
    <3>5. NoConflicts' BY <3>1 DEF LocksInv, NoConflicts
    <3> QED BY <3>1, <3>2, <3>3, <3>4, <3>5, QuietRows DEF LocksInv
  <2> QED BY <2>1, <2>2, <2>3 DEF LocksNext
<1> QED BY <1>1, <1>2, PTL DEF LocksSpec

----------------------------------------------------------------------------
(* No circle *)

(* Rows of a plan are locked by those that have one.                        *)
LEMMA RowsOfPlans ==
  ASSUME NEW r, NEW tag, NEW x, HasRow(r, <<tag, x>>)
  PROVE  tag \in ByPlan /\ tag = Kind(r) /\ Step(r) \in {"rows", "commit"}
  BY DEF HasRow

(* Whoever wants the row of a card waits for a request that is about to     *)
(* finish: one that locked the card and found it free to sell is no other   *)
(* than the one that found its item open.                                   *)
LEMMA CardIsFreeSoon ==
  ASSUME LocksInv, NEW r \in Slots, r \in InTransaction, Step(r) = "card",
         NEW l \in locks, l.slot # r, l.row = <<"card", CardOf(r)>>
  PROVE  l.slot \in InTransaction /\ Step(l.slot) \in {"held", "commit"}
<1> DEFINE h == l.slot
<1>1. LockTypes BY DEF LocksInv
<1>2. h \in Slots /\ h \in InTransaction BY DEF LocksInv, SlotInv, Justified, LockTypes
<1>3. SlotInv(h) /\ SlotInv(r) BY <1>2 DEF LocksInv
<1>4. Justified(l) BY <1>3 DEF SlotInv
<1>5. CASE Kind(h) \in CardFirst /\ Place(h) > 1 /\ CardOf(h) = CardOf(r)
  <2>1. /\ Kind(r) \in DOMAIN Steps /\ Place(r) \in 1..Len(Steps[Kind(r)])
        /\ Step(r) = Steps[Kind(r)][Place(r)] /\ Place(r) \in Nat
        /\ Kind(r) \in {"settle", "buy", "cancel"} => ItemOf(r) \in Traded
    BY <1>1, AskTypes
  <2>2. /\ Kind(r) \in {"settle", "buy", "cancel"} /\ Kind(r) \in ItemFirst
        /\ Place(r) # 1 /\ Place(r) # 2
    <3>1. Kind(r) \in {"settle", "buy", "cancel"} BY <2>1, Scripts
    <3>2. Kind(r) \in ItemFirst BY <3>1 DEF ItemFirst
    <3> QED BY <3>1, <3>2, <2>1, Places
  <2>3. Place(r) > 2 /\ Kind(r) \in {"settle", "buy", "cancel"} BY <2>1, <2>2
  <2>4. item[ItemOf(r)].state = "open" BY <2>3, <1>3 DEF SlotInv, Decided, ItemFirst
  <2>5. cardStatus[CardOf(r)] # "HELD" BY <2>1, <2>3, <2>4 DEF LocksInv, CardsSpokenFor, CardOf
  <2>6. ~(Place(h) > 2) BY <2>5, <1>3, <1>5 DEF SlotInv, Decided
  <2>7. /\ Kind(h) \in DOMAIN Steps /\ Place(h) \in 1..Len(Steps[Kind(h)]) /\ Place(h) \in Nat
        /\ Step(h) = Steps[Kind(h)][Place(h)]
    BY <1>1, <1>2, AskTypes
  <2>8. Place(h) = 2 BY <2>6, <2>7, <1>5
  <2>9. Step(h) = "held" BY <2>7, <2>8, <1>5, Places
  <2> QED BY <2>9, <1>2
<1>6. CASE Step(h) = "commit" BY <1>6, <1>2
<1>7. ~HasRow(h, l.row) BY RowsOfPlans DEF ByPlan
<1> QED BY <1>4, <1>5, <1>6, <1>7 DEF Justified

LEMMA NoGreatestIsEmpty ==
  ASSUME NEW T, T \subseteq Nat, IsFiniteSet(T), \A u \in T : \E v \in T : u < v
  PROVE  T = {}
<1> SUFFICES ASSUME T # {} PROVE FALSE OBVIOUS
<1> DEFINE from(u) == {w \in T : u <= w}
           F == {from(u) : u \in T}
<1>1. F \subseteq SUBSET T /\ F # {} OBVIOUS
<1>2. PICK m \in F : \A s \in F : Cardinality(m) <= Cardinality(s)
  <2> HIDE DEF F
  <2> QED BY <1>1, SmallestSet
<1>3. PICK u \in T : m = from(u) OBVIOUS
<1>4. PICK v \in T : u < v OBVIOUS
<1>5. u \in Nat /\ v \in Nat /\ \A w \in T : w \in Nat OBVIOUS
<1>6. from(v) \subseteq m
  <2> SUFFICES ASSUME NEW w \in T, v <= w PROVE u <= w BY <1>3
  <2> QED BY <1>4, <1>5
<1>7. u \in m /\ u \notin from(v) BY <1>3, <1>4, <1>5
<1>8. from(v) \in F OBVIOUS
<1>9. IsFiniteSet(m) BY <1>3, FS_Subset
<1> HIDE DEF from, F
<1>10. Cardinality(from(v)) <= Cardinality(m) /\ Cardinality(from(v)) # Cardinality(m)
  BY <1>6, <1>7, <1>9, FS_Subset
<1>11. Cardinality(from(v)) \in Nat /\ Cardinality(m) \in Nat
  BY <1>6, <1>9, FS_Subset, FS_CardinalityType
<1> QED BY <1>2, <1>8, <1>10, <1>11

LEMMA NoCircle ==
  ASSUME LocksInv, NEW S \in SUBSET Slots, S # {},
         \A r \in S : WaitsFor(r, S), ~RefreshesCross(S)
  PROVE  PurchasesHoldThePool(S)
<1>1. LockTypes BY DEF LocksInv
<1>2. ASSUME NEW r \in Slots
      PROVE  /\ Kind(r) \in DOMAIN Steps /\ Place(r) \in 1..Len(Steps[Kind(r)])
             /\ Place(r) \in Nat /\ Step(r) = Steps[Kind(r)][Place(r)]
             /\ request[r].stage = "working" <=> r \in InTransaction
  BY <1>1, AskTypes DEF InTransaction
(* Nobody in S is at a step that waits for nothing.                         *)
<1> DEFINE pooled(r) == /\ request[r].stage = "new" \/ (Step(r) = "weights" /\ r \notin second)
                        /\ InUse >= PoolSize /\ connected \subseteq S
           blocked(r, l) == /\ l \in locks /\ l.slot \in S /\ l.slot # r /\ l.row = RowOf(r)
                            /\ Conflict(l.mode, ModeOf(r))
           wants == {"item", "card", "own_card", "seller", "balance", "users", "rows"}
<1>3. ASSUME NEW r \in S
      PROVE  \/ /\ r \in InTransaction /\ Step(r) \in wants
                /\ Step(r) = "users" => Wanted(r) # {}
                /\ Step(r) = "rows" => Left(r) # {}
                /\ \E l : blocked(r, l)
             \/ pooled(r)
  BY DEF WaitsFor, Locking, At
<1> HIDE DEF pooled
<1>4. ASSUME NEW r \in Slots, NEW l \in locks, l.slot = r
      PROVE  Justified(l)
  BY <1>4 DEF LocksInv, SlotInv
(* Every holder waits in turn, within its transaction.                      *)
<1>5. ASSUME NEW r \in S, r \in InTransaction
      PROVE  Step(r) \in wants \cup {"weights"}
  BY <1>3, <1>5 DEF pooled, InTransaction
<1>6. \A r \in S : r \in InTransaction => Step(r) # "card"
  <2> SUFFICES ASSUME NEW r \in S, r \in InTransaction, Step(r) = "card" PROVE FALSE OBVIOUS
  <2>1. PICK l : blocked(r, l) BY <1>3 DEF pooled, InTransaction
  <2>2. l.row = <<"card", CardOf(r)>> BY <2>1, RowsByStep
  <2>3. l.slot \in InTransaction /\ Step(l.slot) \in {"held", "commit"}
    BY <2>1, <2>2, CardIsFreeSoon
  <2> QED BY <2>1, <2>3, <1>5
(* A user's row is held by one that wants a later user.                     *)
<1> DEFINE waited == {u \in Users : \E r \in S :
                       /\ r \in InTransaction /\ Step(r) \in {"users", "seller", "balance"}
                       /\ RowOf(r) = <<"user", u>>}
<1>7. waited = {}
  <2>1. ASSUME NEW u \in waited PROVE \E v \in waited : u < v
    <3>1. PICK r \in S : r \in InTransaction /\ Step(r) \in {"users", "seller", "balance"}
                        /\ RowOf(r) = <<"user", u>>
      OBVIOUS
    <3>2. PICK l : blocked(r, l) BY <3>1, <1>3 DEF pooled, InTransaction
    <3> DEFINE h == l.slot
    <3>3. h \in S /\ h \in Slots /\ l \in locks /\ l.row = <<"user", u>> BY <3>1, <3>2
    <3>4. Justified(l) BY <3>3, <1>4
    <3>5. h \in InTransaction /\ HasUser(h, u)
      BY <3>3, <3>4, RowsOfPlans DEF Justified, ByPlan
    <3>6. Step(h) = "users" /\ \A w \in Wanted(h) : u < w
      BY <3>3, <3>5, <1>5, <1>6 DEF HasUser
    <3>7. Wanted(h) # {} BY <3>3, <3>5, <3>6, <1>3 DEF pooled, InTransaction
    <3>8. PICK v \in Wanted(h) : v = NextUser(h, Wanted(h)) BY <3>3, <3>7, <1>1, LeastWanted
    <3>9. v \in Users /\ RowOf(h) = <<"user", v>>
      BY <3>3, <3>6, <3>8, <1>1, PartiesAreUsers, RowsByStep
    <3> QED BY <3>3, <3>5, <3>6, <3>8, <3>9
  <2>2. waited \subseteq Users /\ IsFiniteSet(waited) BY PoolAssumption, FS_Subset
  <2>3. waited \subseteq Nat BY <2>2, PoolAssumption
  <2> HIDE DEF waited
  <2> QED BY <2>1, <2>2, <2>3, NoGreatestIsEmpty
<1>8. \A r \in S : r \in InTransaction => Step(r) \notin {"users", "seller", "balance"}
  <2> SUFFICES ASSUME NEW r \in S, r \in InTransaction,
                      Step(r) \in {"users", "seller", "balance"}
               PROVE  FALSE
    OBVIOUS
  <2>1. \E u \in Users : RowOf(r) = <<"user", u>>
    <3>1. CASE Step(r) = "users"
      <4>1. Wanted(r) # {} BY <3>1, <1>3 DEF pooled, InTransaction
      <4>2. NextUser(r, Wanted(r)) \in Users BY <4>1, <1>1, LeastWanted, PartiesAreUsers
      <4> QED BY <4>2, <3>1, RowsByStep
    <3>2. CASE Step(r) \in {"seller", "balance"}
      <4>1. Kind(r) # "settle" BY <3>2, <1>2, Scripts DEF CardFirst
      <4>2. Asks(r).user \in Users BY <4>1, <1>1, AskTypes
      <4> QED BY <4>2, <3>2, RowsByStep
    <3> QED BY <3>1, <3>2
  <2> QED BY <2>1, <1>7
(* A refresh waits for refreshes, a rebalance for one that is further on.   *)
<1>9. ASSUME NEW r \in S, r \in InTransaction, Step(r) = "rows", NEW l, blocked(r, l)
       PROVE  /\ l.slot \in InTransaction /\ Step(l.slot) = "rows"
              /\ Kind(l.slot) = Kind(r) /\ HasRow(l.slot, RowOf(r))
  <2> DEFINE h == l.slot
  <2>1. h \in S /\ h \in Slots /\ l \in locks BY <1>9
  <2>2. PICK x : l.row = <<Kind(r), x>> BY <1>9, RowsByStep
  <2>3. Kind(r) \in ByPlan BY <1>9, <1>2, Scripts
  <2>4. Justified(l) /\ h \in InTransaction BY <2>1, <1>4 DEF Justified
  <2>5. HasRow(h, l.row) BY <2>2, <2>3, <2>4 DEF Justified, ByPlan
  <2>6. Kind(h) = Kind(r) /\ Step(h) \in {"rows", "commit"} BY <2>2, <2>5, RowsOfPlans
  <2> QED BY <2>1, <2>4, <2>5, <2>6, <1>5, <1>9
<1>10. \A r \in S : r \in InTransaction => Step(r) # "rows"
  <2> SUFFICES ASSUME NEW q \in S, q \in InTransaction, Step(q) = "rows" PROVE FALSE
    OBVIOUS
  <2> DEFINE T == {r \in S : r \in InTransaction /\ Step(r) = "rows"}
             tier(r) == Plan[ItemOf(r)][Min(Left(r))]
             f == [r \in T |-> tier(r)]
             tiers == {f[r] : r \in T}
  <2>1. ASSUME NEW r \in T
        PROVE  /\ tier(r) \in Nat
               /\ \E h \in T : h # r /\ Kind(h) = Kind(r)
                             /\ (Kind(r) = "rebalance" => tier(r) < tier(h))
    <3>1. PICK l : blocked(r, l) BY <1>3 DEF pooled, InTransaction
    <3> DEFINE h == l.slot
    <3>2. h \in T /\ h # r /\ Kind(h) = Kind(r) /\ HasRow(h, RowOf(r)) BY <3>1, <1>9
    <3>3. Left(r) # {} /\ Left(h) # {} BY <3>2, <1>3 DEF pooled, InTransaction
    <3>4. tier(r) \in Nat /\ RowOf(r) = <<Kind(r), tier(r)>>
      BY <3>3, <1>1, LeastLeft, RowsByStep
    <3>5. CASE Kind(r) = "rebalance"
      <4>1. PICK i \in DOMAIN Plan[ItemOf(h)] :
               RowOf(r) = <<Kind(h), Plan[ItemOf(h)][i]>> /\ \A j \in Left(h) : i < j
        BY <3>2 DEF HasRow
      <4>2. Min(Left(h)) \in Left(h) /\ Min(Left(h)) \in DOMAIN Plan[ItemOf(h)]
        BY <3>2, <3>3, <1>1, LeastLeft
      <4>3. i < Min(Left(h)) BY <4>1, <4>2
      <4>4. Asks(h) \in Menu /\ Asks(h).kind = "rebalance"
        BY <3>2, <3>5, <1>1, AskTypes DEF Kind
      <4>5. Plan[ItemOf(h)][i] < Plan[ItemOf(h)][Min(Left(h))]
        BY <4>1, <4>2, <4>3, <4>4, PlanAssumption DEF ItemOf
      <4>6. Plan[ItemOf(h)][i] = tier(r) BY <4>1, <3>4
      <4> QED BY <4>5, <4>6, <3>2, <3>4
    <3>6. CASE Kind(r) # "rebalance" BY <3>2, <3>4, <3>6
    <3> QED BY <3>5, <3>6
  <2>2. \A r \in T : Kind(r) = "rebalance"
    <3> SUFFICES ASSUME NEW r \in T, Kind(r) # "rebalance" PROVE FALSE OBVIOUS
    <3>1. Kind(r) = "refresh" BY <1>2, Scripts DEF ByPlan
    <3>2. PICK h \in T : h # r /\ Kind(h) = "refresh" BY <2>1, <3>1
    <3> QED BY <3>1, <3>2 DEF RefreshesCross, At, Kind
  <2>3. tiers \subseteq Nat BY <2>1
  <2>4. IsFiniteSet(T) BY PoolAssumption, FS_Subset
  <2>5. f \in Surjection(T, tiers) BY DEF Surjection
  <2>6. IsFiniteSet(tiers)
    <3> HIDE DEF f, tiers, T
    <3> QED BY <2>4, <2>5, FS_Surjection
  <2>7. ASSUME NEW u \in tiers PROVE \E v \in tiers : u < v
    <3>1. PICK r \in T : u = tier(r) OBVIOUS
    <3>2. PICK h \in T : tier(r) < tier(h) BY <2>1, <2>2
    <3> QED BY <3>1, <3>2
  <2>8. f[q] \in tiers OBVIOUS
  <2> HIDE DEF tiers, f
  <2> QED BY <2>3, <2>6, <2>7, <2>8, NoGreatestIsEmpty
<1>11. \A r \in S : r \in InTransaction => Step(r) # "own_card"
  <2> SUFFICES ASSUME NEW r \in S, r \in InTransaction, Step(r) = "own_card" PROVE FALSE
    OBVIOUS
  <2>1. PICK l : blocked(r, l) BY <1>3 DEF pooled, InTransaction
  <2> DEFINE h == l.slot
  <2>2. h \in S /\ h \in Slots /\ l \in locks /\ l.row = <<"card", CardOf(r)>> BY <2>1, RowsByStep
  <2>3. Justified(l) /\ h \in InTransaction BY <2>2, <1>4 DEF Justified
  <2>4. Step(h) \in {"item", "own_card", "weights"} BY <2>2, <2>3, <1>5, <1>6, <1>8, <1>10
  <2>5. Kind(h) \in CardFirst /\ Place(h) > 1
    BY <2>2, <2>3, <2>4, RowsOfPlans DEF Justified, ByPlan
  <2>6. FALSE
    BY <2>2, <2>4, <2>5, <1>2, Scripts, Places DEF CardFirst, ItemFirst
  <2> QED BY <2>6
(* What is left waits for the pool, or for the item of one that does.       *)
<1>12. ASSUME NEW r \in S, r \in InTransaction, Step(r) = "item"
       PROVE  /\ Kind(r) = "purchase"
              /\ \E s \in S : s \in InTransaction /\ Step(s) = "weights"
  <2>1. PICK l : blocked(r, l) BY <1>12, <1>3 DEF pooled, InTransaction
  <2> DEFINE h == l.slot
  <2>2. h \in S /\ h \in Slots /\ l \in locks /\ l.row = <<"item", ItemOf(r)>>
    BY <2>1, <1>12, RowsByStep
  <2>3. Justified(l) /\ h \in InTransaction BY <2>2, <1>4 DEF Justified
  <2>4. Kind(h) \in ItemFirst /\ Place(h) > 1 /\ ItemOf(h) = ItemOf(r)
    BY <2>2, <2>3, RowsOfPlans DEF Justified, ByPlan
  <2>5. /\ Kind(h) \in DOMAIN Steps /\ Place(h) \in 1..Len(Steps[Kind(h)])
        /\ Place(h) \in Nat /\ Step(h) = Steps[Kind(h)][Place(h)]
    BY <2>2, <1>2
  <2>6. Step(h) = "weights"
    <3>1. Step(h) \in {"item", "weights"} BY <2>2, <2>3, <1>5, <1>6, <1>8, <1>11, <1>10
    <3> QED BY <3>1, <2>4, <2>5, Places
  <2>7. Kind(h) = "purchase" BY <2>6, <2>5, Scripts
  <2>9. Kind(r) \in {"purchase", "deposit"}
    <3>1. Asks(h) \in Menu /\ Asks(r) \in Menu BY <2>2, <1>1, AskTypes
    <3> QED BY <3>1, <2>4, <2>7, RowsAssumption DEF Kind, ItemOf
  <2>10. Kind(r) \in ItemFirst BY <1>12, <1>2, Scripts
  <2> QED BY <2>2, <2>3, <2>6, <2>9, <2>10 DEF ItemFirst
<1>13. ASSUME NEW r \in S, r \in InTransaction
       PROVE  /\ Kind(r) = "purchase" /\ r \notin second
              /\ Step(r) \in {"item", "weights"}
  <2>1. Step(r) \in {"item", "weights"} BY <1>5, <1>6, <1>8, <1>11, <1>13, <1>10
  <2>2. CASE Step(r) = "item" BY <2>2, <1>12, <1>13 DEF LocksInv, PoolInv
  <2>3. CASE Step(r) = "weights"
    <3>1. Kind(r) = "purchase" BY <2>3, <1>2, Scripts
    <3>2. pooled(r) BY <2>3, <1>3
    <3> QED BY <3>1, <3>2, <2>3, <1>13 DEF pooled, InTransaction
  <2> QED BY <2>1, <2>2, <2>3
<1>14. PICK s \in S : pooled(s)
  <2>1. PICK r \in S : TRUE OBVIOUS
  <2>2. CASE r \notin InTransaction BY <2>2, <1>3
  <2>3. CASE r \in InTransaction /\ Step(r) = "item"
    <3>1. PICK h \in S : h \in InTransaction /\ Step(h) = "weights" BY <2>3, <1>12
    <3> QED BY <3>1, <1>3
  <2>4. CASE r \in InTransaction /\ Step(r) = "weights" BY <2>4, <1>3
  <2> QED BY <2>2, <2>3, <2>4, <1>13
<1>15. InUse >= PoolSize /\ connected \subseteq S /\ connected = InTransaction
  BY <1>14 DEF pooled, LocksInv, PoolInv
<1>16. second = {} BY <1>13, <1>15 DEF LocksInv, PoolInv
<1>17. \E r \in connected : Step(r) = "weights"
  <2>1. Cardinality(second) = 0 BY <1>16, FS_EmptySet
  <2>2. connected # {} BY <2>1, <1>15, PoolAssumption, FS_EmptySet DEF InUse
  <2>3. PICK r \in connected : TRUE BY <2>2
  <2>4. CASE Step(r) = "item" BY <2>4, <1>12, <1>15
  <2>5. CASE Step(r) = "weights" BY <2>5
  <2> QED BY <2>4, <2>5, <1>13, <1>15
<1> QED BY <1>13, <1>15, <1>16, <1>17 DEF PurchasesHoldThePool, At, Kind

(* The theorem about deadlocks of the web process: any number of requests,  *)
(* whatever they ask for, wait for each other in a circle only where two    *)
(* refreshes update the same cards or purchases hold all connections of the *)
(* pool and ask for one more.                                               *)
THEOREM NoRequestsInACircle == LocksSpec => []NoDeadlock
<1>1. LocksInv => NoDeadlock
  <2> SUFFICES ASSUME LocksInv, NEW S \in SUBSET Slots, S # {}, \A r \in S : WaitsFor(r, S),
                      ~RefreshesCross(S)
               PROVE  PurchasesHoldThePool(S)
    BY DEF NoDeadlock
  <2> QED BY NoCircle
<1> QED BY <1>1, LocksInvariant, PTL
==============================================================================
