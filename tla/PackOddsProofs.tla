--------------------------- MODULE PackOddsProofs ---------------------------
(***************************************************************************)
(* For any number of rebalances, purchases, packs and versions, and any    *)
(* time to live: a purchase draws from weights that were current less than *)
(* TTL before it asked, because an entry carries the time at which its     *)
(* question was put and not the time of its answer; and what the database  *)
(* answers never goes back, because a rebalance deactivates only versions  *)
(* that are older than the one it creates.                                 *)
(*                                                                         *)
(* Every pack there is has been drawn with the weights of the version it   *)
(* is pinned to, so that what holds of one draw, for any uniforms, weights *)
(* and pool, holds of all packs: the browser finds the same cards, a card  *)
(* of the promised rarity is among them, and the price is split without a  *)
(* remainder.                                                              *)
(***************************************************************************)
EXTENDS PackOdds, FiniteSums, FiniteSetTheorems, TLAPS

(* The part of OddsTypeOK that the argument needs: of the packs only that   *)
(* there is a row for each.                                                 *)
RowsTyped ==
  /\ now \in Time
  /\ version \in [Versions -> VersionRow]
  /\ rebalance \in [Rebalances -> RebalanceRow]
  /\ cache \in Entry \cup {NoEntry}
  /\ asking \in [Buyers -> AskRow]
  /\ pack = [p \in Packs |-> pack[p]]
  /\ first \in Time \cup {Never}

(* A version is active or retired, and once there is one there always is.  *)
VersionsMakeSense ==
  /\ \A v \in Active : version[v].retired = Never
  /\ Active = {} => first = Never

(* The new version is later than all those it replaces. *)
CreatesLast ==
  \A r \in Rebalances : rebalance[r].phase = "created" =>
    /\ rebalance[r].row \in Versions
    /\ \A v \in rebalance[r].set : v < rebalance[r].row

(* Weights of version v were the current ones at time t or later. *)
CurrentAt(v, t) == IF v = Static THEN first >= t ELSE version[v].retired >= t

(* What the cache and the answers under way hold was current when it was    *)
(* asked for.                                                               *)
AnswersCurrent ==
  /\ cache # NoEntry => cache.fetchedAt <= now /\ CurrentAt(cache.version, cache.fetchedAt)
  /\ \A b \in Buyers : /\ asking[b].at <= now
                       /\ asking[b].phase = "read" => CurrentAt(asking[b].row, asking[b].at)

OddsInv == RowsTyped /\ VersionsMakeSense /\ CreatesLast /\ AnswersCurrent

----------------------------------------------------------------------------
(* Extremes of sets of versions *)

LEMMA LeastExists ==
  ASSUME NEW S, S \subseteq Versions, S # {}
  PROVE  Least(S) \in S /\ \A y \in S : Least(S) <= y
<1>1. S \subseteq Nat
  BY OddsAssumption DEF Versions
<1> QED
  BY <1>1, LeastOfNaturals DEF Least

LEMMA GreatestExists ==
  ASSUME NEW S, S \subseteq Versions, S # {}
  PROVE  \E x \in S : \A y \in S : y <= x
<1> DEFINE T == {MaxVersions - v : v \in S}
<1>1. \A v \in S : v \in Nat /\ v <= MaxVersions /\ MaxVersions \in Nat
  BY OddsAssumption DEF Versions
<1>2. T \subseteq Nat /\ T # {}
  BY <1>1
<1>3. PICK t \in T : \A u \in T : t <= u
  <2> HIDE DEF T
  <2> QED
    BY <1>2, LeastOfNaturals
<1>4. PICK x \in S : t = MaxVersions - x
  OBVIOUS
<1>5. ASSUME NEW y \in S PROVE y <= x
  <2>1. t <= MaxVersions - y
    BY <1>3
  <2> QED
    BY <1>1, <1>4, <2>1
<1> QED
  BY <1>5

LEMMA LatestType ==
  ASSUME Active # {}
  PROVE  Latest \in Active /\ Latest \in Versions /\ Latest # Static
         /\ \A v \in Active : v <= Latest
<1>1. Active \subseteq Versions
  BY DEF Active
<1>2. \E x \in Active : \A y \in Active : y <= x
  BY <1>1, GreatestExists
<1>3. Latest \in Active /\ \A v \in Active : v <= Latest
  BY <1>2 DEF Latest
<1> QED
  BY <1>1, <1>3, OddsAssumption DEF Versions, Static

LEMMA NoLatest == (Active = {} => Latest = Static) /\ (Active # {} => Latest \in Versions)
  BY LatestType DEF Latest

----------------------------------------------------------------------------
(* What a step keeps *)

(* A step that changes no version. *)
LEMMA VersionsUnchanged ==
  ASSUME OddsInv, UNCHANGED <<version, first>>
  PROVE  /\ Active' = Active /\ Latest' = Latest
         /\ VersionsMakeSense'
         /\ \A v, t : CurrentAt(v, t)' = CurrentAt(v, t)
<1>1. Active' = Active
  BY DEF Active
<1>2. Latest' = Latest
  BY <1>1 DEF Latest
<1>3. VersionsMakeSense'
  BY <1>1 DEF OddsInv, VersionsMakeSense
<1>4. \A v, t : CurrentAt(v, t)' = CurrentAt(v, t)
  BY DEF CurrentAt
<1> QED
  BY <1>1, <1>2, <1>3, <1>4

(* A commit. *)
LEMMA CommitKeeps ==
  ASSUME OddsInv, NEW r \in Rebalances, CommitRebalance(r)
  PROVE  /\ rebalance[r].row \in Active'
         /\ \A v \in Active : v \in Active' \/ v < rebalance[r].row
         /\ \A v \in Active' : version'[v].retired = Never
         /\ version' \in [Versions -> VersionRow] /\ first' \in Time \cup {Never}
         /\ \A v \in Versions \cup {Static}, t \in Time :
              t <= now /\ CurrentAt(v, t) => CurrentAt(v, t)'
<1> DEFINE row == rebalance[r].row
<1>1. row \in Versions /\ \A v \in rebalance[r].set : v < row
  BY DEF CommitRebalance, OddsInv, CreatesLast
<1>2. version \in [Versions -> VersionRow] /\ now \in Time /\ first \in Time \cup {Never}
  BY DEF OddsInv, RowsTyped
<1>3. version' = VersionsAfter(r)
  BY DEF CommitRebalance
<1>4. ASSUME NEW v \in Versions
      PROVE  \/ v = row /\ version'[v] = [state |-> "active", retired |-> Never]
             \/ v # row /\ v \in rebalance[r].set
                  /\ version'[v].state = "inactive" /\ version'[v].retired = now
                  /\ version'[v] \in VersionRow
             \/ v # row /\ v \notin rebalance[r].set /\ version'[v] = version[v]
  BY <1>2, <1>3 DEF VersionsAfter, VersionRow
<1>5. version' \in [Versions -> VersionRow]
  <2>1. \A v \in Versions : version'[v] \in VersionRow
    BY <1>2, <1>4 DEF VersionRow
  <2>2. version' = [v \in Versions |-> version'[v]]
    BY <1>3 DEF VersionsAfter
  <2> QED
    BY <2>1, <2>2
<1>6. row \in Active'
  BY <1>1, <1>4 DEF Active
<1>7. ASSUME NEW v \in Active PROVE v \in Active' \/ v < row
  BY <1>1, <1>4 DEF Active
<1>8. ASSUME NEW v \in Active' PROVE version'[v].retired = Never
  <2>1. v \in Versions /\ version'[v].state = "active"
    BY DEF Active
  <2>2. version[v].state = "active" => version[v].retired = Never
    BY <2>1 DEF OddsInv, VersionsMakeSense, Active
  <2> QED
    BY <1>4, <2>1, <2>2
<1>9. first' = IF first = Never THEN now ELSE first
  BY DEF CommitRebalance
<1>10. ASSUME NEW v \in Versions \cup {Static}, NEW t \in Time, t <= now, CurrentAt(v, t)
       PROVE  CurrentAt(v, t)'
  <2>1. CASE v = Static
    BY <1>2, <1>9, <1>10, <2>1 DEF CurrentAt
  <2>2. CASE v # Static
    <3>1. v \in Versions /\ version[v].retired >= t
      BY <1>10, <2>2 DEF CurrentAt
    <3>2. Never >= t
      BY OddsAssumption DEF Time, Never
    <3>3. version'[v].retired >= t
      BY <1>2, <1>4, <1>10, <3>1, <3>2 DEF Time
    <3> QED
      BY <2>2, <3>3 DEF CurrentAt
  <2> QED
    BY <2>1, <2>2
<1> QED
  BY <1>2, <1>5, <1>6, <1>7, <1>8, <1>9, <1>10

(* What a question gets from the database was current when it was put. *)
LEMMA LatestIsCurrent ==
  ASSUME OddsInv, NEW t \in Time
  PROVE  Latest \in Versions \cup {Static} /\ CurrentAt(Latest, t)
<1>0. Never >= t
  BY OddsAssumption DEF Time, Never
<1>1. CASE Active = {}
  <2>1. Latest = Static /\ first = Never
    BY <1>1, NoLatest DEF OddsInv, VersionsMakeSense
  <2> QED
    BY <1>0, <2>1 DEF CurrentAt
<1>2. CASE Active # {}
  <2>1. Latest \in Active /\ Latest \in Versions /\ Latest # Static
    BY <1>2, LatestType
  <2>2. version[Latest].retired = Never
    BY <2>1 DEF OddsInv, VersionsMakeSense
  <2> QED
    BY <1>0, <2>1, <2>2 DEF CurrentAt
<1> QED
  BY <1>1, <1>2

----------------------------------------------------------------------------
(* The invariant *)

LEMMA OddsInvInit == OddsInit => OddsInv
<1> SUFFICES ASSUME OddsInit PROVE OddsInv
  OBVIOUS
<1>0. 0 \in Time /\ MaxTime \in Nat /\ Never \in Nat /\ Never >= 0
  BY OddsAssumption DEF Time, Never
<1>1. RowsTyped
  <2>1. /\ NoVersion \in VersionRow /\ NoRebalance \in RebalanceRow /\ NoAsk \in AskRow
    BY <1>0 DEF NoVersion, VersionRow, NoRebalance, RebalanceRow, NoAsk, AskRow
  <2> QED
    BY <1>0, <2>1 DEF RowsTyped, OddsInit
<1>2. Active = {}
  BY DEF Active, OddsInit, NoVersion
<1>3. VersionsMakeSense
  BY <1>2 DEF VersionsMakeSense, OddsInit
<1>4. CreatesLast
  BY DEF CreatesLast, OddsInit, NoRebalance
<1>5. AnswersCurrent
  BY <1>0 DEF AnswersCurrent, OddsInit, NoAsk
<1> QED
  BY <1>1, <1>3, <1>4, <1>5 DEF OddsInv

(* The row of a rebalance, and of a question, after its own step. *)
LEMMA RebalanceStep ==
  ASSUME OddsInv, NEW r \in Rebalances, NEW row \in RebalanceRow,
         rebalance' = [rebalance EXCEPT ![r] = row],
         UNCHANGED <<version, first>>,
         row.phase = "created" =>
           row.row \in Versions /\ \A v \in row.set : v < row.row
  PROVE  rebalance' \in [Rebalances -> RebalanceRow] /\ CreatesLast'
<1>1. rebalance \in [Rebalances -> RebalanceRow] /\ CreatesLast
  BY DEF OddsInv, RowsTyped
<1>2. \A q \in Rebalances : rebalance'[q] = IF q = r THEN row ELSE rebalance[q]
  BY <1>1
<1> QED
  BY <1>1, <1>2 DEF CreatesLast

LEMMA RebalanceKeeps ==
  ASSUME OddsInv, NEW r \in Rebalances,
         \/ StartUpdate(r) \/ UpdateAndCreate(r)
         \/ RollBackRebalance(r) \/ InvalidateActiveWeights(r)
  PROVE  OddsInv' /\ Latest' = Latest
<1>1. RowsTyped /\ AnswersCurrent /\ rebalance[r] \in RebalanceRow
  BY DEF OddsInv, RowsTyped
<1>2. NoRebalance \in RebalanceRow /\ NoRebalance.phase # "created"
  BY DEF NoRebalance, RebalanceRow
<1>3. UNCHANGED <<now, version, asking, pack, first>>
  BY DEF StartUpdate, UpdateAndCreate, RollBackRebalance, InvalidateActiveWeights
<1>4. cache' \in {cache, NoEntry}
  BY DEF StartUpdate, UpdateAndCreate, RollBackRebalance, InvalidateActiveWeights
<1>5. Active \subseteq Versions
  BY DEF Active
<1>6. rebalance' \in [Rebalances -> RebalanceRow] /\ CreatesLast'
  <2>1. CASE StartUpdate(r)
    <3> DEFINE row == [phase |-> "updating", set |-> Active, row |-> Static]
    <3>1. row \in RebalanceRow /\ row.phase # "created"
      BY <1>5 DEF RebalanceRow
    <3>2. rebalance' = [rebalance EXCEPT ![r] = row]
      BY <2>1 DEF StartUpdate
    <3> HIDE DEF row
    <3> QED
      BY <1>3, <3>1, <3>2, RebalanceStep
  <2>2. CASE UpdateAndCreate(r)
    <3> DEFINE set == rebalance[r].set \cap Active
               row == [phase |-> "created", set |-> set, row |-> Least(Unused)]
    <3>1. Unused \subseteq Versions /\ Unused # {}
      BY <2>2 DEF Unused, UpdateAndCreate
    <3>2. Least(Unused) \in Unused
      BY <3>1, LeastExists
    <3>3. \A v \in set : v \in Versions /\ version[v].state = "active"
      BY DEF Active
    <3>4. \A v \in set : v < Least(Unused)
      BY <3>2, <3>3 DEF Unused, NoVersion
    <3>5. row \in RebalanceRow
      BY <3>1, <3>2, <3>3 DEF RebalanceRow
    <3>6. rebalance' = [rebalance EXCEPT ![r] = row]
      BY <1>1, <2>2 DEF UpdateAndCreate, RowsTyped
    <3>7. row.phase = "created" => row.row \in Versions /\ \A v \in row.set : v < row.row
      BY <3>1, <3>2, <3>4
    <3> HIDE DEF row
    <3> QED
      BY <1>3, <3>5, <3>6, <3>7, RebalanceStep
  <2>3. CASE RollBackRebalance(r) \/ InvalidateActiveWeights(r)
    <3>1. rebalance' = [rebalance EXCEPT ![r] = NoRebalance]
      BY <2>3 DEF RollBackRebalance, InvalidateActiveWeights
    <3> QED
      BY <1>2, <1>3, <3>1, RebalanceStep
  <2> QED
    BY <2>1, <2>2, <2>3
<1>7. RowsTyped'
  BY <1>1, <1>3, <1>4, <1>6 DEF RowsTyped
<1>8. AnswersCurrent'
  <2>1. \A v, t : CurrentAt(v, t)' = CurrentAt(v, t)
    BY <1>3, VersionsUnchanged
  <2>2. cache' # NoEntry => cache' = cache
    BY <1>4
  <2> QED
    BY <1>1, <1>3, <2>1, <2>2 DEF AnswersCurrent, CurrentAt
<1> QED
  BY <1>3, <1>6, <1>7, <1>8, VersionsUnchanged DEF OddsInv

LEMMA CommitInv ==
  ASSUME OddsInv, NEW r \in Rebalances, CommitRebalance(r)
  PROVE  OddsInv'
<1>1. RowsTyped /\ CreatesLast /\ AnswersCurrent
  BY DEF OddsInv
<1>2. UNCHANGED <<now, cache, asking, pack>>
  BY DEF CommitRebalance
<1>3. PICK next \in {[NoRebalance EXCEPT !.phase = "committed"], NoRebalance} :
        rebalance' = [rebalance EXCEPT ![r] = next]
  BY DEF CommitRebalance
<1>4. next \in RebalanceRow /\ next.phase # "created"
  BY DEF NoRebalance, RebalanceRow
<1>5. \A q \in Rebalances : rebalance'[q] = IF q = r THEN next ELSE rebalance[q]
  BY <1>1, <1>3 DEF RowsTyped
<1>6. RowsTyped'
  <2>1. rebalance' \in [Rebalances -> RebalanceRow]
    BY <1>1, <1>3, <1>4 DEF RowsTyped
  <2> QED
    BY <1>1, <1>2, <2>1, CommitKeeps DEF RowsTyped
<1>7. VersionsMakeSense'
  <2>1. Active' # {} /\ \A v \in Active' : version'[v].retired = Never
    BY CommitKeeps
  <2> QED
    BY <2>1 DEF VersionsMakeSense, Never
<1>8. CreatesLast'
  BY <1>1, <1>4, <1>5 DEF CreatesLast
<1>9. AnswersCurrent'
  <2>1. cache # NoEntry =>
          /\ cache.version \in Versions /\ cache.fetchedAt \in Time /\ cache.fetchedAt <= now
          /\ CurrentAt(cache.version, cache.fetchedAt)
    BY <1>1 DEF RowsTyped, AnswersCurrent, Entry
  <2>2. cache # NoEntry => CurrentAt(cache.version, cache.fetchedAt)'
    <3>1. \A v \in Versions \cup {Static}, t \in Time :
            t <= now /\ CurrentAt(v, t) => CurrentAt(v, t)'
      BY CommitKeeps
    <3> QED
      BY <1>2, <2>1, <3>1 DEF CurrentAt
  <2>3. ASSUME NEW b \in Buyers
        PROVE  /\ asking'[b].at <= now'
               /\ asking'[b].phase = "read" => CurrentAt(asking[b].row, asking[b].at)'
    <3>1. /\ asking[b].row \in Versions \cup {Static} /\ asking[b].at \in Time
          /\ asking[b].at <= now
          /\ asking[b].phase = "read" => CurrentAt(asking[b].row, asking[b].at)
      BY <1>1 DEF RowsTyped, AnswersCurrent, AskRow
    <3>2. \A v \in Versions \cup {Static}, t \in Time :
            t <= now /\ CurrentAt(v, t) => CurrentAt(v, t)'
      BY CommitKeeps
    <3> QED
      BY <1>2, <3>1, <3>2 DEF CurrentAt
  <2> QED
    BY <1>2, <2>1, <2>2, <2>3 DEF AnswersCurrent
<1> QED
  BY <1>6, <1>7, <1>8, <1>9 DEF OddsInv

(* A question put, read or answered. *)
LEMMA AskStep ==
  ASSUME OddsInv, NEW b \in Buyers, NEW row \in AskRow,
         asking' = [asking EXCEPT ![b] = row],
         row.at <= now,
         row.phase = "read" => CurrentAt(row.row, row.at),
         cache' \in Entry \cup {NoEntry},
         cache' # NoEntry => cache'.fetchedAt <= now /\ CurrentAt(cache'.version, cache'.fetchedAt),
         pack' = [p \in Packs |-> pack'[p]],
         UNCHANGED <<now, version, rebalance, first>>
  PROVE  OddsInv'
<1>1. RowsTyped /\ AnswersCurrent /\ CreatesLast
  BY DEF OddsInv
<1>2. \A c \in Buyers : asking'[c] = IF c = b THEN row ELSE asking[c]
  BY <1>1 DEF RowsTyped
<1>3. RowsTyped'
  BY <1>1, <1>2 DEF RowsTyped
<1>4. AnswersCurrent'
  <2>1. \A v, t : CurrentAt(v, t)' = CurrentAt(v, t)
    BY VersionsUnchanged
  <2>2. \A c \in Buyers : /\ asking'[c].at <= now'
                          /\ asking'[c].phase = "read" => CurrentAt(asking'[c].row, asking'[c].at)
    BY <1>1, <1>2 DEF AnswersCurrent
  <2> QED
    BY <2>1, <2>2 DEF AnswersCurrent, CurrentAt
<1>5. CreatesLast'
  BY <1>1 DEF CreatesLast
<1> QED
  BY <1>3, <1>4, <1>5, VersionsUnchanged DEF OddsInv

LEMMA AskingKeeps ==
  ASSUME OddsInv, NEW b \in Buyers, AskDatabase(b) \/ ReadActive(b)
  PROVE  OddsInv'
<1>1. /\ now \in Time /\ asking[b] \in AskRow /\ asking \in [Buyers -> AskRow]
      /\ cache \in Entry \cup {NoEntry} /\ pack = [p \in Packs |-> pack[p]]
      /\ asking[b].at <= now
      /\ cache # NoEntry => cache.fetchedAt <= now /\ CurrentAt(cache.version, cache.fetchedAt)
  BY DEF OddsInv, RowsTyped, AnswersCurrent
<1>2. UNCHANGED <<now, version, rebalance, cache, pack, first>>
  BY DEF AskDatabase, ReadActive
<1>3. CASE AskDatabase(b)
  <2> DEFINE row == [phase |-> "asked", at |-> now, row |-> Static]
  <2>1. row \in AskRow /\ row.at <= now /\ row.phase # "read"
    BY <1>1, OddsAssumption DEF AskRow, Time
  <2>2. asking' = [asking EXCEPT ![b] = row]
    BY <1>3 DEF AskDatabase
  <2> HIDE DEF row
  <2> QED
    BY <1>1, <1>2, <2>1, <2>2, AskStep
<1>4. CASE ReadActive(b)
  <2> DEFINE row == [phase |-> "read", at |-> asking[b].at, row |-> Latest]
  <2>1. asking[b].at \in Time
    BY <1>1 DEF AskRow
  <2>2. Latest \in Versions \cup {Static} /\ CurrentAt(Latest, asking[b].at)
    BY <2>1, LatestIsCurrent
  <2>3. row \in AskRow /\ row.at = asking[b].at /\ row.row = Latest
    BY <1>1, <2>2 DEF AskRow
  <2>4. asking' = [asking EXCEPT ![b] = row]
    BY <1>1, <1>4 DEF ReadActive
  <2>5. row.at <= now /\ CurrentAt(row.row, row.at)
    BY <1>1, <2>2, <2>3
  <2> HIDE DEF row
  <2> QED
    BY <1>1, <1>2, <2>3, <2>4, <2>5, AskStep
<1> QED
  BY <1>3, <1>4

(* The answer arrives, whatever becomes of the pack. *)
LEMMA AnsweredKeeps ==
  ASSUME OddsInv, NEW b \in Buyers, Answered(b), pack' = [p \in Packs |-> pack'[p]]
  PROVE  OddsInv'
<1>1. /\ now \in Time /\ asking[b] \in AskRow /\ cache \in Entry \cup {NoEntry}
      /\ asking[b].at <= now /\ CurrentAt(asking[b].row, asking[b].at)
      /\ cache # NoEntry => cache.fetchedAt <= now /\ CurrentAt(cache.version, cache.fetchedAt)
  BY DEF OddsInv, RowsTyped, AnswersCurrent, Answered
<1>2. cache' = CacheAfter(b) /\ UNCHANGED <<now, version, rebalance, first>>
  BY DEF Answered
<1>3. NoAsk \in AskRow /\ NoAsk.at <= now /\ NoAsk.phase # "read"
  BY <1>1, OddsAssumption DEF NoAsk, AskRow, Time
<1>4. /\ cache' \in Entry \cup {NoEntry}
      /\ cache' # NoEntry => cache'.fetchedAt <= now /\ CurrentAt(cache'.version, cache'.fetchedAt)
  <2>1. CASE asking[b].row = Static
    BY <1>1, <1>2, <2>1 DEF CacheAfter
  <2>2. CASE asking[b].row # Static
    <3>1. cache' = [version |-> asking[b].row, fetchedAt |-> asking[b].at]
      BY <1>2, <2>2 DEF CacheAfter
    <3>2. asking[b].row \in Versions /\ asking[b].at \in Time
      BY <1>1, <2>2 DEF AskRow
    <3> QED
      BY <1>1, <3>1, <3>2 DEF Entry
  <2> QED
    BY <2>1, <2>2
<1>5. asking' = [asking EXCEPT ![b] = NoAsk]
  BY DEF Answered
<1> QED
  BY <1>2, <1>3, <1>4, <1>5, AskStep

(* Steps that change only the packs or the time. *)
LEMMA OtherKeeps ==
  ASSUME OddsInv, UNCHANGED <<version, rebalance, cache, asking, first>>,
         now' \in Time, now' >= now, pack' = [p \in Packs |-> pack'[p]]
  PROVE  OddsInv'
<1>1. RowsTyped /\ CreatesLast /\ AnswersCurrent
  BY DEF OddsInv
<1>2. RowsTyped' /\ CreatesLast'
  BY <1>1 DEF RowsTyped, CreatesLast
<1>3. AnswersCurrent'
  <2>1. now \in Nat /\ now' \in Nat
    BY <1>1, OddsAssumption DEF RowsTyped, Time
  <2>2. cache # NoEntry => cache.fetchedAt \in Nat
    BY <1>1, OddsAssumption DEF RowsTyped, Entry, Time
  <2>3. \A b \in Buyers : asking[b].at \in Nat
    BY <1>1, OddsAssumption DEF RowsTyped, AskRow, Time
  <2> QED
    BY <1>1, <2>1, <2>2, <2>3 DEF AnswersCurrent, CurrentAt
<1> QED
  BY <1>2, <1>3, VersionsUnchanged DEF OddsInv

LEMMA OddsInvStep == OddsInv /\ [OddsNext]_vars => OddsInv'
<1> SUFFICES ASSUME OddsInv, [OddsNext]_vars PROVE OddsInv'
  OBVIOUS
<1>1. now \in Time /\ Time \subseteq Nat /\ pack = [p \in Packs |-> pack[p]]
  BY OddsAssumption DEF OddsInv, RowsTyped, Time
<1>2. ASSUME NEW r \in Rebalances, CommitRebalance(r) PROVE OddsInv'
  BY <1>2, CommitInv
<1>3. ASSUME NEW r \in Rebalances,
             \/ StartUpdate(r) \/ UpdateAndCreate(r)
             \/ RollBackRebalance(r) \/ InvalidateActiveWeights(r)
      PROVE  OddsInv'
  BY <1>3, RebalanceKeeps
<1>4. ASSUME NEW p \in Packs, NEW seed \in Seeds, DrawFromCache(p, seed) PROVE OddsInv'
  <2>1. pack' = [q \in Packs |-> pack'[q]]
    BY <1>1, <1>4 DEF DrawFromCache
  <2> QED
    BY <1>1, <1>4, <2>1, OtherKeeps DEF DrawFromCache
<1>5. ASSUME NEW b \in Buyers, AskDatabase(b) \/ ReadActive(b) PROVE OddsInv'
  BY <1>5, AskingKeeps
<1>6. ASSUME NEW b \in Buyers, NEW p \in Packs, NEW seed \in Seeds,
             DrawFromDatabase(b, p, seed)
      PROVE  OddsInv'
  <2>1. pack' = [q \in Packs |-> pack'[q]]
    BY <1>1, <1>6 DEF DrawFromDatabase
  <2> QED
    BY <1>6, <2>1, AnsweredKeeps DEF DrawFromDatabase
<1>7. ASSUME NEW b \in Buyers, AnswerTooLate(b) PROVE OddsInv'
  BY <1>1, <1>7, AnsweredKeeps DEF AnswerTooLate
<1>8. ASSUME NEW p \in Packs, Reveal(p) PROVE OddsInv'
  <2>1. pack' = [q \in Packs |-> pack'[q]]
    BY <1>1, <1>8 DEF Reveal
  <2> QED
    BY <1>1, <1>8, <2>1, OtherKeeps DEF Reveal
<1>9. CASE Tick
  <2>1. now' \in Time /\ now' >= now
    BY <1>1, <1>9, OddsAssumption DEF Tick, Time
  <2> QED
    BY <1>1, <1>9, <2>1, OtherKeeps DEF Tick
<1>10. CASE UNCHANGED vars
  BY <1>1, <1>10, OtherKeeps DEF vars
<1> QED
  BY <1>2, <1>3, <1>4, <1>5, <1>6, <1>7, <1>8, <1>9, <1>10 DEF OddsNext

(* The rows of a rebalance, of the cache and of the answers under way are    *)
(* always as the theorems below need them.                                  *)
THEOREM OddsInvariant == OddsSpec => []OddsInv
  BY OddsInvInit, OddsInvStep, PTL DEF OddsSpec

----------------------------------------------------------------------------
(* What a purchase draws from was current less than TTL before it asked:   *)
(* the property of that name, for every value of the constants.            *)
THEOREM StaleWeightsBounded == OddsSpec => StaleAtMostTTL
<1> DEFINE Bounded(p) ==
      pack[p] = NoPack /\ pack'[p] # NoPack =>
        LET v == pack'[p].version
        IN  \/ RecentAt(v, now)
            \/ \E b \in Buyers : /\ asking[b].phase = "read" /\ asking'[b] = NoAsk
                                 /\ asking[b].row = v /\ RecentAt(v, asking[b].at)
<1>1. ASSUME OddsInv, [OddsNext]_vars, NEW p \in Packs PROVE Bounded(p)
  <2> SUFFICES ASSUME pack[p] = NoPack, pack'[p] # NoPack
               PROVE  \/ RecentAt(pack'[p].version, now)
                      \/ \E b \in Buyers :
                           /\ asking[b].phase = "read" /\ asking'[b] = NoAsk
                           /\ asking[b].row = pack'[p].version
                           /\ RecentAt(pack'[p].version, asking[b].at)
    OBVIOUS
  <2>1. /\ now \in Nat /\ TTL \in Nat /\ TTL > 0
        /\ pack = [q \in Packs |-> pack[q]]
        /\ asking \in [Buyers -> AskRow] /\ cache \in Entry \cup {NoEntry}
        /\ \A v \in Versions : version[v].retired \in Nat
        /\ Time \subseteq Nat
    <3>1. Time \subseteq Nat /\ Never \in Nat /\ TTL \in Nat /\ TTL > 0
      BY OddsAssumption DEF Time, Never
    <3>2. /\ now \in Time /\ pack = [q \in Packs |-> pack[q]]
          /\ asking \in [Buyers -> AskRow] /\ cache \in Entry \cup {NoEntry}
          /\ version \in [Versions -> VersionRow]
      BY <1>1 DEF OddsInv, RowsTyped
    <3>3. ASSUME NEW v \in Versions PROVE version[v].retired \in Nat
      BY <3>1, <3>2 DEF VersionRow
    <3> QED
      BY <3>1, <3>2, <3>3
  <2>2. ASSUME NEW q \in Packs, NEW seed \in Seeds, DrawFromCache(q, seed)
        PROVE  RecentAt(pack'[p].version, now)
    <3>1. q = p /\ pack'[p].version = cache.version
      BY <2>1, <2>2 DEF DrawFromCache, NewPack
    <3>2. cache # NoEntry /\ now - cache.fetchedAt < TTL
      BY <2>2 DEF DrawFromCache, CacheFresh
    <3>3. CurrentAt(cache.version, cache.fetchedAt)
      BY <1>1, <3>2 DEF OddsInv, AnswersCurrent
    <3>4. cache \in Entry
      BY <2>1, <3>2
    <3>5. cache.version \in Versions /\ cache.version # Static /\ cache.fetchedAt \in Nat
      BY <2>1, <3>4, OddsAssumption DEF Entry, Versions, Static
    <3>6. version[cache.version].retired > now - TTL
      BY <2>1, <3>2, <3>3, <3>5 DEF CurrentAt
    <3> QED
      BY <3>1, <3>5, <3>6 DEF RecentAt
  <2>3. ASSUME NEW b \in Buyers, NEW q \in Packs, NEW seed \in Seeds,
               DrawFromDatabase(b, q, seed)
        PROVE  /\ asking[b].phase = "read" /\ asking'[b] = NoAsk
               /\ asking[b].row = pack'[p].version
               /\ RecentAt(pack'[p].version, asking[b].at)
    <3>1. q = p /\ pack'[p].version = asking[b].row
      BY <2>1, <2>3 DEF DrawFromDatabase, NewPack
    <3>2. asking[b].phase = "read" /\ asking'[b] = NoAsk
      BY <2>1, <2>3 DEF DrawFromDatabase, Answered
    <3>3. /\ asking[b].at \in Nat /\ asking[b].row \in Versions \cup {Static}
          /\ CurrentAt(asking[b].row, asking[b].at)
      <4>1. asking[b] \in AskRow
        BY <2>1
      <4>2. CurrentAt(asking[b].row, asking[b].at)
        BY <1>1, <3>2 DEF OddsInv, AnswersCurrent
      <4> QED
        BY <2>1, <4>1, <4>2 DEF AskRow
    <3>4. RecentAt(asking[b].row, asking[b].at)
      BY <2>1, <3>3 DEF CurrentAt, RecentAt
    <3> QED
      BY <3>1, <3>2, <3>4
  <2>4. CASE \E q \in Packs : Reveal(q)
    BY <2>1, <2>4 DEF Reveal
  <2>5. CASE pack' = pack
    BY <2>5
  <2>6. \/ \E q \in Packs, seed \in Seeds : DrawFromCache(q, seed)
        \/ \E b \in Buyers, q \in Packs, seed \in Seeds : DrawFromDatabase(b, q, seed)
        \/ \E q \in Packs : Reveal(q)
        \/ pack' = pack
    BY <1>1 DEF OddsNext, vars, StartUpdate, UpdateAndCreate, CommitRebalance,
       RollBackRebalance, InvalidateActiveWeights, AskDatabase, ReadActive, AnswerTooLate, Tick
  <2> QED
    BY <2>2, <2>3, <2>4, <2>5, <2>6
<1>2. OddsInv /\ [OddsNext]_vars =>
        [\A p \in Packs : Bounded(p)]_vars
  BY <1>1
<1> QED
  BY <1>2, OddsInvariant, PTL DEF OddsSpec, StaleAtMostTTL

(* The weights the database answers with only ever move to a later version: *)
(* the property of that name, for every value of the constants.             *)
THEOREM WeightsOnlyMoveOn == OddsSpec => WeightsNeverGoBack
<1> DEFINE Forward == Latest # Static => Latest' # Static /\ Latest <= Latest'
<1>1. ASSUME OddsInv, [OddsNext]_vars PROVE Forward
  <2> SUFFICES ASSUME Latest # Static PROVE Latest' # Static /\ Latest <= Latest'
    OBVIOUS
  <2>1. Active # {} /\ Latest \in Active /\ Latest \in Versions
    BY NoLatest, LatestType
  <2>2. Latest \in Nat
    BY <2>1, OddsAssumption DEF Versions
  <2>3. ASSUME NEW r \in Rebalances, CommitRebalance(r)
        PROVE  Latest' # Static /\ Latest <= Latest'
    <3> DEFINE row == rebalance[r].row
    <3>1. row \in Active' /\ (Latest \in Active' \/ Latest < row)
      BY <1>1, <2>1, <2>3, CommitKeeps, Zenon
    <3>2. Latest' \in Active' /\ Latest' \in Versions /\ Latest' # Static
          /\ \A v \in Active' : v <= Latest'
      <4>1. Active' # {} /\ Active' \subseteq Versions
        BY <3>1 DEF Active
      <4>2. \E x \in Active' : \A y \in Active' : y <= x
        BY <4>1, GreatestExists
      <4>3. Latest' \in Active' /\ \A v \in Active' : v <= Latest'
        BY <4>1, <4>2 DEF Latest
      <4> QED
        BY <4>1, <4>3, OddsAssumption DEF Versions, Static
    <3>3. row \in Versions
      BY <3>1 DEF Active
    <3> QED
      BY <2>2, <3>1, <3>2, <3>3, OddsAssumption DEF Versions
  <2>4. CASE UNCHANGED <<version, first>>
    <3>1. Latest' = Latest
      BY <1>1, <2>4, VersionsUnchanged, Zenon
    <3> QED
      BY <2>2, <3>1
  <2>5. (\E r \in Rebalances : CommitRebalance(r)) \/ UNCHANGED <<version, first>>
    BY <1>1 DEF OddsNext, vars, StartUpdate, UpdateAndCreate, RollBackRebalance,
       InvalidateActiveWeights, DrawFromCache, AskDatabase, ReadActive,
       DrawFromDatabase, AnswerTooLate, Answered, Reveal, Tick
  <2> QED
    BY <2>3, <2>4, <2>5
<1>2. OddsInv /\ [OddsNext]_vars => [Forward]_vars
  BY <1>1
<1> QED
  BY <1>2, OddsInvariant, PTL DEF OddsSpec, WeightsNeverGoBack

----------------------------------------------------------------------------
(* What PackDraw's choices choose *)

LEMMA LeastIsLeast ==
  ASSUME NEW S, S \subseteq Nat, S # {}
  PROVE  Least(S) \in S /\ \A y \in S : Least(S) <= y
  BY LeastOfNaturals DEF Least

LEMMA SlotFacts ==
  /\ Slots \subseteq Nat /\ Slots # {} /\ IsFiniteSet(Slots) /\ Rarities \subseteq Nat
  /\ Cardinality(Slots) = CardsPerPack /\ CardsPerPack \in Slots
<1>1. CardsPerPack \in Nat /\ CardsPerPack > 0 BY DrawAssumption
<1>2. IsFiniteSet(1..CardsPerPack) /\ Cardinality(1..CardsPerPack) = CardsPerPack
  BY <1>1, FS_Interval
<1> QED BY <1>1, <1>2 DEF Slots, Rarities

(* The cards of a set in order, counted from nought.                        *)
LEMMA NthIsThere ==
  ASSUME NEW S, S \subseteq Nat, IsFiniteSet(S), NEW n \in Nat, n < Cardinality(S)
  PROVE  Nth(S, n) \in S
<1> DEFINE before(c) == {d \in S : d < c}
           k == Cardinality(S)
           rank == [c \in S |-> Cardinality(before(c))]
<1>1. k \in Nat /\ k > 0 BY FS_CardinalityType
<1>2. \A c \in S : c \in Nat OBVIOUS
<1>3. ASSUME NEW c \in S
      PROVE  Cardinality(before(c)) \in 0..(k - 1)
  <2>1. before(c) \in SUBSET S /\ c \notin before(c) BY <1>2
  <2> HIDE DEF before
  <2>2. IsFiniteSet(before(c)) /\ Cardinality(before(c)) <= k /\ Cardinality(before(c)) # k
    BY <2>1, FS_Subset
  <2>3. Cardinality(before(c)) \in Nat BY <2>2, FS_CardinalityType
  <2> HIDE DEF k
  <2> QED BY <1>1, <2>2, <2>3
<1>4. ASSUME NEW c \in S, NEW d \in S, c < d
      PROVE  Cardinality(before(c)) # Cardinality(before(d))
  <2>1. before(c) \subseteq before(d)
    <3> SUFFICES ASSUME NEW e \in S, e < c PROVE e < d OBVIOUS
    <3> QED BY <1>2, <1>4
  <2>2. c \in before(d) /\ c \notin before(c) BY <1>2, <1>4
  <2>3. IsFiniteSet(before(d)) BY FS_Subset
  <2> HIDE DEF before
  <2> QED BY <2>1, <2>2, <2>3, FS_Subset
<1>5. rank \in Injection(S, 0..(k - 1))
  <2>1. rank \in [S -> 0..(k - 1)] BY <1>3
  <2>2. ASSUME NEW c \in S, NEW d \in S, rank[c] = rank[d] PROVE c = d
    <3>1. c \in Nat /\ d \in Nat BY <1>2
    <3>2. ~(c < d) /\ ~(d < c) BY <1>4, <2>2
    <3> QED BY <3>1, <3>2
  <2> HIDE DEF rank
  <2> QED BY <2>1, <2>2 DEF Injection, IsInjective
<1>6. IsFiniteSet(0..(k - 1)) /\ Cardinality(0..(k - 1)) = k
  <2> HIDE DEF k
  <2>1. k - 1 \in Int /\ ~(0 > k - 1) /\ (k - 1) - 0 + 1 = k BY <1>1
  <2> QED BY <2>1, FS_Interval
<1>7. rank \in Surjection(S, 0..(k - 1)) BY <1>5, <1>6, FS_Injection
<1>8. \E c \in S : rank[c] = n
  <2>1. n \in 0..(k - 1) BY <1>1
  <2> HIDE DEF rank, k
  <2> QED BY <1>7, <2>1 DEF Surjection
<1>9. \E c \in S : Cardinality({d \in S : d < c}) = n BY <1>8
<1> QED BY <1>9 DEF Nth

LEMMA PlaceOfUniform ==
  ASSUME NEW u \in 0..(One - 1), NEW k \in Nat, k > 0
  PROVE  (u * k) \div One \in Nat /\ (u * k) \div One < k
<1> DEFINE q == (u * k) \div One
<1>1. One \in Nat /\ One > 0 /\ u \in Nat /\ u < One BY DrawAssumption
<1>2. u * k \in Nat /\ u * k < One * k BY <1>1
<1>3. q \in Nat /\ One * q <= u * k BY <1>1, <1>2
<1>4. q < k
  <2> SUFFICES ASSUME q >= k PROVE FALSE BY <1>3
  <2> HIDE DEF q
  <2>1. One * q >= One * k BY <1>1, <1>3
  <2> QED BY <1>1, <1>2, <1>3, <2>1
<1> QED BY <1>3, <1>4

----------------------------------------------------------------------------
(* The cards of the slots *)

LEMMA PoolFacts ==
  /\ Pool \subseteq Nat /\ Pool # {} /\ IsFiniteSet(Pool)
  /\ \A c \in Pool : RarityOf[c] \in Rarities
  /\ \A r \in Rarities : Bucket(Pool, r) \subseteq Pool /\ IsFiniteSet(Bucket(Pool, r))
<1>1. /\ Pool \subseteq Nat /\ Pool # {} /\ IsFiniteSet(Pool)
      /\ \A c \in Pool : RarityOf[c] \in Rarities
  BY DrawAssumption
<1>2. ASSUME NEW r \in Rarities
      PROVE  Bucket(Pool, r) \subseteq Pool /\ IsFiniteSet(Bucket(Pool, r))
  BY <1>1, FS_Subset DEF Bucket
<1> QED BY <1>1, <1>2

(* A slot is picked from cards of the pool, of its rarity if there are any. *)
LEMMA BucketIsThere ==
  ASSUME NEW r \in Rarities
  PROVE  /\ BucketOrFirst(Pool, r) \subseteq Pool /\ BucketOrFirst(Pool, r) # {}
         /\ Bucket(Pool, r) # {} => \A c \in BucketOrFirst(Pool, r) : RarityOf[c] = r
<1> DEFINE there == {q \in Rarities : Bucket(Pool, q) # {}}
<1>1. there # {}
  <2>1. PICK c \in Pool : TRUE BY PoolFacts
  <2>2. c \in Bucket(Pool, RarityOf[c]) /\ RarityOf[c] \in Rarities BY PoolFacts DEF Bucket
  <2> QED BY <2>2
<1>2. there \subseteq Nat BY SlotFacts
<1>3. Least(there) \in there
  <2> HIDE DEF there
  <2> QED BY <1>1, <1>2, LeastIsLeast
<1>4. Bucket(Pool, Least(there)) # {} /\ Least(there) \in Rarities BY <1>3
<1>5. BucketOrFirst(Pool, r) = IF Bucket(Pool, r) # {} THEN Bucket(Pool, r)
                               ELSE Bucket(Pool, Least(there))
  BY DEF BucketOrFirst
<1> HIDE DEF there
<1>6. \A c \in Bucket(Pool, r) : RarityOf[c] = r BY DEF Bucket
<1> QED BY <1>4, <1>5, <1>6, PoolFacts

LEMMA CardsDrawn ==
  ASSUME NEW seed \in Seed, NEW slots \in [Slots -> Rarities]
  PROVE  /\ ApplyRollToPool(slots, seed, Pool) \in [Slots -> Pool]
         /\ \A i \in Slots : Bucket(Pool, slots[i]) # {} =>
              RarityOf[ApplyRollToPool(slots, seed, Pool)[i]] = slots[i]
<1> DEFINE cards == ApplyRollToPool(slots, seed, Pool)
<1>1. ASSUME NEW i \in Slots
      PROVE  PickCard(BucketOrFirst(Pool, slots[i]), seed.card[i]) \in BucketOrFirst(Pool, slots[i])
  <2> DEFINE B == BucketOrFirst(Pool, slots[i])
             u == seed.card[i]
  <2>1. B \subseteq Pool /\ B # {} BY BucketIsThere
  <2>2. u \in 0..(One - 1) BY DEF Seed
  <2> HIDE DEF B, u
  <2>3. IsFiniteSet(B) /\ B \subseteq Nat BY <2>1, PoolFacts, FS_Subset
  <2>4. Cardinality(B) \in Nat /\ Cardinality(B) > 0
    <3>1. Cardinality(B) \in Nat /\ Cardinality(B) # 0
      BY <2>1, <2>3, FS_CardinalityType, FS_EmptySet
    <3> QED BY <3>1
  <2>5. (u * Cardinality(B)) \div One \in Nat /\ (u * Cardinality(B)) \div One < Cardinality(B)
    BY <2>2, <2>4, PlaceOfUniform
  <2>6. PickCard(B, u) \in B BY <2>3, <2>5, NthIsThere DEF PickCard
  <2> QED BY <2>6 DEF B, u
<1>2. ASSUME NEW i \in Slots
      PROVE  /\ cards[i] \in Pool
             /\ Bucket(Pool, slots[i]) # {} => RarityOf[cards[i]] = slots[i]
  <2>1. cards[i] \in BucketOrFirst(Pool, slots[i]) BY <1>1 DEF ApplyRollToPool
  <2> HIDE DEF cards
  <2>2. slots[i] \in Rarities OBVIOUS
  <2> QED BY <2>1, <2>2, BucketIsThere
<1>3. cards = [i \in Slots |-> cards[i]] BY DEF ApplyRollToPool
<1> HIDE DEF cards
<1>4. cards \in [Slots -> Pool] BY <1>2, <1>3
<1> QED BY <1>2, <1>4 DEF cards

----------------------------------------------------------------------------
(* The rarities of the slots *)

(* A rarity the weights can give: the one the floor is, what is left when   *)
(* they add up to less than One, and what has a weight.                     *)
LEMMA RarityPicked ==
  ASSUME NEW w \in Weights, NEW u \in 0..(One - 1)
  PROVE  LET r == PickRarity(u, w)
         IN  r \in Rarities /\ (r = 0 \/ r = LEGENDARY \/ w[r] > 0)
<1> DEFINE reached == {r \in Rarities : u <= Cumulative(w, r)}
           r == Least(reached)
<1>1. PickRarity(u, w) = IF reached = {} THEN LEGENDARY ELSE r BY DEF PickRarity
<1>2. LEGENDARY \in Rarities BY DEF LEGENDARY, Rarities
<1>3. CASE reached # {}
  <2>1. reached \subseteq Nat BY SlotFacts
  <2>2. r \in reached /\ \A q \in reached : r <= q
    <3> HIDE DEF reached
    <3> QED BY <1>3, <2>1, LeastIsLeast
  <2>3. r \in Rarities /\ u <= Cumulative(w, r) BY <2>2
  <2>4. CASE r > 0
    <3>1. w[r] \in Nat BY <2>3, DrawAssumption DEF Weights
    <3>2. r \in 1..4 /\ r - 1 \in Rarities BY <2>3, <2>4 DEF Rarities
    <3>3. r - 1 \notin reached
      <4>1. ~(r <= r - 1) BY <3>2
      <4> HIDE DEF r, reached
      <4> QED BY <2>2, <4>1
    <3>4. ~(u <= Cumulative(w, r - 1)) BY <3>2, <3>3
    <3> HIDE DEF r, reached
    <3>5. /\ Cumulative(w, r - 1) \in Int /\ Cumulative(w, r) \in Int
          /\ Cumulative(w, r) = w[r] + Cumulative(w, r - 1)
      <4>1. w \in [Rarities -> Int] /\ IsFiniteSet(Rarities)
        <5>1. 0 \in Int /\ 4 \in Int OBVIOUS
        <5>2. IsFiniteSet(0..4) BY <5>1, FS_Interval
        <5> QED BY <5>2, DrawAssumption DEF Weights, Rarities
      <4>2. 0..r \in SUBSET Rarities /\ 0..(r - 1) \in SUBSET Rarities /\ r \in 0..r
            /\ (0..r) \ {r} = 0..(r - 1)
        BY <3>2 DEF Rarities
      <4>3. /\ \A T \in SUBSET Rarities : SumFunctionOnSet(w, T) \in Int
            /\ \A T \in SUBSET Rarities : \A x \in T :
                 SumFunctionOnSet(w, T) = w[x] + SumFunctionOnSet(w, T \ {x})
        BY <4>1, SumOnSet
      <4>4. SumFunctionOnSet(w, 0..r) = w[r] + SumFunctionOnSet(w, (0..r) \ {r})
        BY <4>2, <4>3
      <4>5. SumFunctionOnSet(w, 0..r) \in Int /\ SumFunctionOnSet(w, 0..(r - 1)) \in Int
        BY <4>2, <4>3
      <4>6. SumFunctionOnSet(w, 0..r) = w[r] + SumFunctionOnSet(w, 0..(r - 1))
        BY <4>2, <4>4
      <4> QED BY <4>5, <4>6 DEF Cumulative
    <3>6. w[r] > 0
      <4>1. u \in Int BY DrawAssumption
      <4> QED BY <3>1, <3>4, <3>5, <2>3, <4>1
    <3> QED BY <1>1, <1>3, <2>3, <3>6
  <2>5. CASE ~(r > 0)
    <3>1. r = 0 BY <2>3, <2>5 DEF Rarities
    <3> QED BY <1>1, <1>3, <2>3, <3>1
  <2> QED BY <2>4, <2>5
<1>4. CASE reached = {} BY <1>1, <1>2, <1>4
<1> QED BY <1>3, <1>4

Rolled(seed, w) == [i \in Slots |-> PickRarity(seed.rarity[i], w)]

LEMMA RolledType ==
  ASSUME NEW seed \in Seed, NEW w \in Weights
  PROVE  /\ Rolled(seed, w) \in [Slots -> Rarities]
         /\ \A i \in Slots : LET r == Rolled(seed, w)[i]
                             IN  r = 0 \/ r = LEGENDARY \/ w[r] > 0
<1>1. ASSUME NEW i \in Slots
      PROVE  LET r == PickRarity(seed.rarity[i], w)
             IN  r \in Rarities /\ (r = 0 \/ r = LEGENDARY \/ w[r] > 0)
  <2>1. seed.rarity[i] \in 0..(One - 1) BY DEF Seed
  <2> QED BY <2>1, RarityPicked
<1> QED BY <1>1 DEF Rolled

(* The lowest slot, the first of several.                                   *)
LEMMA LowestSlotIs ==
  ASSUME NEW slots \in [Slots -> Rarities]
  PROVE  /\ LowestSlot(slots) \in Slots
         /\ \A j \in Slots : slots[LowestSlot(slots)] <= slots[j]
         /\ \A j \in Slots : slots[j] = slots[LowestSlot(slots)] => LowestSlot(slots) <= j
<1> DEFINE values == {slots[i] : i \in Slots}
           lows == {i \in Slots : \A j \in Slots : slots[i] <= slots[j]}
<1>1. values \subseteq Nat /\ values # {} BY SlotFacts
<1>2. PICK v \in values : \A x \in values : v <= x
  <2> HIDE DEF values
  <2> QED BY <1>1, LeastOfNaturals
<1>3. PICK i \in Slots : v = slots[i] OBVIOUS
<1>4. i \in lows BY <1>2, <1>3
<1>5. lows \subseteq Nat /\ lows # {} BY <1>4, SlotFacts
<1>6. LowestSlot(slots) = Least(lows) BY DEF LowestSlot
<1>7. Least(lows) \in lows /\ \A j \in lows : Least(lows) <= j
  <2> HIDE DEF lows
  <2> QED BY <1>5, LeastIsLeast
<1>8. ASSUME NEW j \in Slots, slots[j] = slots[Least(lows)] PROVE Least(lows) <= j
  <2>1. j \in lows BY <1>7, <1>8
  <2> HIDE DEF lows
  <2> QED BY <1>7, <2>1
<1> QED BY <1>6, <1>7, <1>8

(* After pity some slot is at the floor or above.                           *)
LEMMA PityLifts ==
  ASSUME NEW slots \in [Slots -> Rarities]
  PROVE  /\ ApplyPity(slots) \in [Slots -> Rarities]
         /\ \E i \in Slots : ApplyPity(slots)[i] >= Pity
         /\ \A i \in Slots : ApplyPity(slots)[i] = slots[i] \/ ApplyPity(slots)[i] = Pity
<1>1. CASE BelowFloor(slots)
  <2>1. Pity \in Rarities
    <3>1. PICK i \in Slots : TRUE BY SlotFacts
    <3>2. slots[i] < Pity /\ slots[i] \in 0..4 BY <1>1 DEF BelowFloor, Rarities
    <3>3. Pity # NoPity BY <3>2 DEF NoPity
    <3> QED BY <3>3, DrawAssumption
  <2>2. ApplyPity(slots) = [slots EXCEPT ![LowestSlot(slots)] = Pity] BY <1>1 DEF ApplyPity
  <2>3. ApplyPity(slots)[LowestSlot(slots)] = Pity /\ LowestSlot(slots) \in Slots
    BY <2>2, LowestSlotIs
  <2>4. Pity >= Pity BY <2>1 DEF Rarities
  <2>5. \E i \in Slots : ApplyPity(slots)[i] >= Pity BY <2>3, <2>4
  <2> QED BY <2>1, <2>2, <2>3, <2>5
<1>2. CASE ~BelowFloor(slots)
  <2>1. ApplyPity(slots) = slots BY <1>2 DEF ApplyPity
  <2>2. PICK i \in Slots : ~(slots[i] < Pity) BY <1>2 DEF BelowFloor
  <2>3. slots[i] \in Int /\ Pity \in Int BY DrawAssumption DEF Rarities, NoPity
  <2> QED BY <2>1, <2>2, <2>3
<1> QED BY <1>1, <1>2

(* The browser's copy of the roll gives the same cards.                     *)
LEMMA BrowserReproduces ==
  ASSUME NEW seed \in Seed, NEW w \in Weights
  PROVE  ReproduceCards(seed, w, Pool, Pity) = ApplyRollToPool(RollPack(seed, w), seed, Pool)
<1> DEFINE rolled == Rolled(seed, w)
           final == ApplyPity(rolled)
<1>1. rolled \in [Slots -> Rarities] BY RolledType
<1>2. BrowserPity(rolled, Pity) = final
  <2> DEFINE tie(i) == \A j \in Slots : \/ rolled[i] < rolled[j]
                                        \/ rolled[i] = rolled[j] /\ i <= j
  <2> HIDE DEF rolled
  <2>1. (CHOOSE i \in Slots : tie(i)) = LowestSlot(rolled)
    <3> DEFINE low == LowestSlot(rolled)
    <3>1. /\ low \in Slots /\ \A j \in Slots : rolled[low] <= rolled[j]
          /\ \A j \in Slots : rolled[j] = rolled[low] => low <= j
      BY <1>1, LowestSlotIs
    <3> HIDE DEF low
    <3>2. \A j \in Slots : rolled[j] \in Nat /\ j \in Nat BY <1>1, SlotFacts
    <3>3. tie(low) BY <3>1, <3>2
    <3>4. ASSUME NEW i \in Slots, tie(i) PROVE i = low
      <4>1. rolled[i] < rolled[low] \/ (rolled[i] = rolled[low] /\ i <= low) BY <3>1, <3>4
      <4>2. rolled[low] <= rolled[i] /\ (rolled[i] = rolled[low] => low <= i) BY <3>1
      <4>3. rolled[i] \in Nat /\ rolled[low] \in Nat /\ i \in Nat /\ low \in Nat BY <3>1, <3>2
      <4> QED BY <4>1, <4>2, <4>3
    <3> HIDE DEF tie
    <3> QED BY <3>1, <3>3, <3>4 DEF low
  <2>2. (Pity # NoPity /\ \A i \in Slots : rolled[i] < Pity) <=> BelowFloor(rolled)
    <3>1. ASSUME BelowFloor(rolled) PROVE Pity # NoPity
      <4>1. PICK i \in Slots : TRUE BY SlotFacts
      <4>2. rolled[i] < Pity /\ rolled[i] \in 0..4 BY <1>1, <3>1 DEF BelowFloor, Rarities
      <4> QED BY <4>2 DEF NoPity
    <3> QED BY <3>1 DEF BelowFloor
  <2>3. BrowserPity(rolled, Pity) =
          IF Pity # NoPity /\ \A i \in Slots : rolled[i] < Pity
          THEN [rolled EXCEPT ![CHOOSE i \in Slots : tie(i)] = Pity] ELSE rolled
    BY DEF BrowserPity
  <2> HIDE DEF tie
  <2> QED BY <2>1, <2>2, <2>3 DEF ApplyPity
<1>3. RollPack(seed, w) = final BY DEF RollPack, Rolled
<1>4. final \in [Slots -> Rarities] BY <1>1, PityLifts
<1> DEFINE lowest == Least({RarityOf[c] : c \in Pool})
           bucket(r) == IF \E c \in Pool : RarityOf[c] = r THEN r ELSE lowest
           from(i) == {c \in Pool : RarityOf[c] = bucket(final[i])}
<1>5. ReproduceCards(seed, w, Pool, Pity) =
        [i \in Slots |-> Nth(from(i), (seed.card[i] * Cardinality(from(i))) \div One)]
  <2> HIDE DEF Nth
  <2> QED BY <1>2 DEF ReproduceCards, Rolled
<1>6. ASSUME NEW i \in Slots PROVE from(i) = BucketOrFirst(Pool, final[i])
  <2>1. {RarityOf[c] : c \in Pool} = {q \in Rarities : Bucket(Pool, q) # {}}
    BY PoolFacts DEF Bucket
  <2> HIDE DEF final
  <2>2. CASE Bucket(Pool, final[i]) # {}
    BY <2>2 DEF Bucket, BucketOrFirst
  <2>3. CASE Bucket(Pool, final[i]) = {}
    <3>1. bucket(final[i]) = lowest BY <2>3 DEF Bucket
    <3> QED BY <2>1, <2>3, <3>1 DEF Bucket, BucketOrFirst
  <2> QED BY <2>2, <2>3
<1>7. ApplyRollToPool(final, seed, Pool) =
        [i \in Slots |-> Nth(BucketOrFirst(Pool, final[i]),
                             (seed.card[i] * Cardinality(BucketOrFirst(Pool, final[i]))) \div One)]
  BY DEF ApplyRollToPool, PickCard
<1> HIDE DEF from, final
<1> QED BY <1>3, <1>5, <1>6, <1>7

----------------------------------------------------------------------------
(* The price of a pack over its cards *)

(* To the nearest unit: at most half a unit off.                            *)
LEMMA RoundedToTheNearest ==
  ASSUME NEW a \in Nat, NEW b \in Nat, b > 0
  PROVE  /\ RoundHalfUp(a, b) \in Int
         /\ 2 * (RoundHalfUp(a, b) * b) - 2 * a <= b
         /\ 2 * a - 2 * (RoundHalfUp(a, b) * b) <= b
<1> DEFINE n == 2 * a + b
           m == 2 * b
           q == n \div m
<1>1. n \in Nat /\ m \in Nat /\ m > 0 OBVIOUS
<1>2. q \in Int /\ m * q <= n /\ n < m * q + m
  <2> HIDE DEF n, m
  <2>1. q \in Int /\ m * q <= n /\ n < m * (q + 1) BY <1>1
  <2> HIDE DEF q
  <2>2. m * (q + 1) = m * q + m BY <1>1, <2>1
  <2> QED BY <2>1, <2>2
<1>3. RoundHalfUp(a, b) = q BY DEF RoundHalfUp
<1> HIDE DEF q
<1>4. m * q = 2 * (q * b) /\ q * b \in Int BY <1>2
<1> QED BY <1>2, <1>3, <1>4

(* What SpendAddsUp says of one pack.                                       *)
Fair(spend, captured, price) ==
  LET total == SumFunction(captured)
      off(i) == 2 * (spend[i] * total - captured[i] * price)
      slack(i) == IF i = CardsPerPack THEN (CardsPerPack - 1) * total ELSE total
  IN  /\ SumFunction(spend) = price
      /\ \A i \in Slots : off(i) <= slack(i) /\ -off(i) <= slack(i)

LEMMA SpendIsFair ==
  ASSUME NEW captured \in [Slots -> Nat], NEW price \in Nat
  PROVE  /\ AllocateSpend(captured, price) \in [Slots -> Int]
         /\ Fair(AllocateSpend(captured, price), captured, price)
<1> DEFINE n == CardsPerPack
           others == 1..(n - 1)
           total == SumFunction(captured)
           share == [i \in Slots |-> IF total = 0 THEN RoundHalfUp(price, CardsPerPack)
                                     ELSE RoundHalfUp(captured[i] * price, total)]
           rest == SumFunctionOnSet(share, others)
           spend == [share EXCEPT ![CardsPerPack] = LastShare(share, price)]
<1>1. n \in Nat /\ n > 0 /\ n \in Slots /\ IsFiniteSet(Slots) BY DrawAssumption, SlotFacts
<1>2. others \in SUBSET Slots /\ others = Slots \ {n} /\ IsFiniteSet(others)
      /\ Cardinality(others) = n - 1
  <2>1. others = Slots \ {n} BY <1>1 DEF Slots
  <2>2. others \in SUBSET Slots BY <2>1
  <2>3. Cardinality(Slots) = n BY SlotFacts
  <2> HIDE DEF others, n
  <2> QED BY <1>1, <2>1, <2>2, <2>3, FS_RemoveElement
<1>3. total = SumFunctionOnSet(captured, Slots) BY DEF SumFunction
<1>4. total \in Nat /\ \A i \in Slots : captured[i] <= total
  <2>1. Slots \in SUBSET Slots OBVIOUS
  <2>2. /\ SumFunctionOnSet(captured, Slots) \in Nat
        /\ \A i \in Slots : captured[i] <= SumFunctionOnSet(captured, Slots)
    BY <1>1, <2>1, SumOfNaturals
  <2> QED BY <1>3, <2>2
<1>5. AllocateSpend(captured, price) = spend BY DEF AllocateSpend
<1> HIDE DEF total, n, others
<1>6. share \in [Slots -> Int]
  <2>1. RoundHalfUp(price, CardsPerPack) \in Int BY <1>1, RoundedToTheNearest DEF n
  <2>2. ASSUME NEW i \in Slots, total # 0
        PROVE  RoundHalfUp(captured[i] * price, total) \in Int
    <3>1. captured[i] * price \in Nat /\ total > 0 BY <1>4, <2>2
    <3> QED BY <1>4, <3>1, RoundedToTheNearest
  <2> QED BY <2>1, <2>2
(* Each of the shares but the last is near its part. *)
<1>7. ASSUME NEW i \in Slots
      PROVE  /\ (2 * total) * share[i] - (2 * price) * captured[i] <= total
             /\ (2 * price) * captured[i] - (2 * total) * share[i] <= total
  <2>1. CASE total = 0
    <3>1. captured[i] \in Nat /\ captured[i] <= 0 BY <1>4, <2>1
    <3>2. captured[i] = 0 /\ share[i] \in Int BY <1>6, <3>1
    <3> HIDE DEF share
    <3>3. (2 * total) * share[i] = 0 /\ (2 * price) * captured[i] = 0 BY <2>1, <3>2
    <3> QED BY <2>1, <3>3
  <2>2. CASE total # 0
    <3> DEFINE a == captured[i] * price
               q == RoundHalfUp(a, total)
    <3>1. a \in Nat /\ total > 0 /\ captured[i] \in Nat BY <1>4, <2>2
    <3>2. q \in Int /\ 2 * (q * total) - 2 * a <= total /\ 2 * a - 2 * (q * total) <= total
      <4> HIDE DEF a
      <4> QED BY <1>4, <3>1, RoundedToTheNearest
    <3>3. share[i] = q BY <2>2
    <3> HIDE DEF share, q
    <3>4. (2 * total) * q = 2 * (q * total) /\ (2 * price) * captured[i] = 2 * a
      BY <1>4, <3>1, <3>2
    <3> QED BY <3>2, <3>3, <3>4
  <2> QED BY <2>1, <2>2
<1>8. LastShare(share, price) = price - rest BY DEF LastShare, others, n
<1>9. rest \in Int /\ SumFunctionOnSet(captured, others) \in Nat
      /\ total = captured[n] + SumFunctionOnSet(captured, others)
  <2> HIDE DEF share
  <2>1. captured \in [Slots -> Int] OBVIOUS
  <2>2. rest \in Int BY <1>1, <1>2, <1>6, SumOnSet
  <2>3. SumFunctionOnSet(captured, others) \in Nat BY <1>1, <1>2, SumOfNaturals
  <2>4. SumFunctionOnSet(captured, Slots) = captured[n] + SumFunctionOnSet(captured, Slots \ {n})
    BY <1>1, <2>1, SumTakesOne
  <2> QED BY <1>2, <1>3, <2>2, <2>3, <2>4
<1>10. /\ spend \in [Slots -> Int] /\ spend[n] = price - rest
       /\ \A i \in Slots : i # n => spend[i] = share[i]
  <2> HIDE DEF share
  <2>1. spend = [share EXCEPT ![n] = price - rest] BY <1>8 DEF n
  <2> HIDE DEF spend, rest
  <2> QED BY <1>1, <1>6, <1>9, <2>1
<1>11. SumFunction(spend) = price
  <2> HIDE DEF share
  <2>1. SumFunction(spend) = SumFunctionOnSet(spend, Slots)
    <3>1. DOMAIN spend = Slots BY <1>10
    <3> HIDE DEF spend
    <3> QED BY <3>1 DEF SumFunction
  <2> HIDE DEF spend
  <2>2. SumFunctionOnSet(spend, Slots) = spend[n] + SumFunctionOnSet(spend, others)
    <3>1. SumFunctionOnSet(spend, Slots) = spend[n] + SumFunctionOnSet(spend, Slots \ {n})
      BY <1>1, <1>10, SumTakesOne
    <3> QED BY <1>2, <3>1
  <2>3. SumFunctionOnSet(spend, others) = rest
    <3>1. \A i \in others : spend[i] = share[i] BY <1>2, <1>10
    <3>2. IsFiniteSet(others) BY <1>2
    <3> QED BY <3>1, <3>2, SumsAgree
  <2> QED BY <1>9, <1>10, <2>1, <2>2, <2>3
<1> DEFINE off(i) == 2 * (spend[i] * total - captured[i] * price)
           slack(i) == IF i = n THEN (n - 1) * total ELSE total
<1>12. ASSUME NEW i \in Slots, i # n PROVE off(i) <= slack(i) /\ -off(i) <= slack(i)
  <2>1. spend[i] = share[i] /\ share[i] \in Int /\ captured[i] \in Nat BY <1>6, <1>10, <1>12
  <2> HIDE DEF spend, share
  <2>2. off(i) = (2 * total) * share[i] - (2 * price) * captured[i] BY <1>4, <2>1
  <2>3. -off(i) = (2 * price) * captured[i] - (2 * total) * share[i] BY <1>4, <2>1
  <2>4. slack(i) = total BY <1>12
  <2> HIDE DEF off, slack
  <2> QED BY <1>7, <2>2, <2>3, <2>4
<1>13. off(n) <= slack(n) /\ -off(n) <= slack(n)
  <2> DEFINE c == SumFunctionOnSet(captured, others)
  <2>1. /\ (2 * total) * rest - (2 * price) * c <= Cardinality(others) * total
        /\ (2 * price) * c - (2 * total) * rest <= Cardinality(others) * total
    <3>1. captured \in [Slots -> Int] /\ 2 * total \in Int /\ 2 * price \in Int BY <1>4
    <3>2. \A x \in others : /\ (2 * total) * share[x] - (2 * price) * captured[x] <= total
                            /\ (2 * price) * captured[x] - (2 * total) * share[x] <= total
      BY <1>2, <1>7
    <3> HIDE DEF share
    <3> QED BY <1>1, <1>2, <1>4, <1>6, <3>1, <3>2, SumsAreClose
  <2>2. slack(n) = (n - 1) * total /\ Cardinality(others) = n - 1 BY <1>2
  <2>3. rest \in Int /\ c \in Nat /\ total = captured[n] + c /\ captured[n] \in Nat BY <1>1, <1>9
  <2> HIDE DEF c, rest, spend
  <2>4. off(n) = (2 * price) * c - (2 * total) * rest
    <3>1. spend[n] * total - captured[n] * price = price * c - total * rest
      <4>1. spend[n] * total = price * total - rest * total BY <1>4, <1>10, <2>3
      <4>2. price * total = price * captured[n] + price * c BY <2>3
      <4>3. rest * total = total * rest /\ captured[n] * price = price * captured[n]
        BY <1>4, <2>3
      <4>4. price * captured[n] \in Int /\ price * c \in Int /\ total * rest \in Int
        BY <1>4, <2>3
      <4> HIDE DEF off
      <4> QED BY <4>1, <4>2, <4>3, <4>4
    <3>2. price * c \in Int /\ total * rest \in Int BY <1>4, <2>3
    <3>3. (2 * price) * c = 2 * (price * c) /\ (2 * total) * rest = 2 * (total * rest)
      BY <1>4, <2>3
    <3> QED BY <3>1, <3>2, <3>3
  <2>5. (2 * price) * c \in Int /\ (2 * total) * rest \in Int BY <1>4, <2>3
  <2> HIDE DEF off, slack
  <2> QED BY <2>1, <2>2, <2>4, <2>5
<1>14. \A i \in Slots : off(i) <= slack(i) /\ -off(i) <= slack(i) BY <1>12, <1>13
<1>15. Fair(spend, captured, price)
  <2> HIDE DEF spend
  <2> QED BY <1>11, <1>14 DEF Fair, total, n
<1> QED BY <1>5, <1>10, <1>15

----------------------------------------------------------------------------
(* The packs *)

(* What is in the rows of the packs: draws from the weights of the version  *)
(* a row is pinned to, before the reveal or after it.                       *)
DrawOf(row, seed, v) == row = NewPack(seed, v) \/ row = RevealedPack(NewPack(seed, v))

PacksAreDraws ==
  \A p \in Packs : pack[p] # NoPack =>
    \E seed \in Seeds, v \in Versions \cup {Static} : DrawOf(pack[p], seed, v)

CardsOf(seed, v) == ApplyRollToPool(RollPack(seed, WeightsOf(v)), seed, Pool)
CapturedOf(cards) == [i \in Slots |-> Captured[cards[i]]]

LEMMA DrawFacts ==
  ASSUME NEW seed \in Seeds, NEW v \in Versions \cup {Static}
  PROVE  /\ seed \in Seed /\ WeightsOf(v) \in Weights
         /\ RollPack(seed, WeightsOf(v)) \in [Slots -> Rarities]
         /\ CardsOf(seed, v) \in [Slots -> Pool]
         /\ CapturedOf(CardsOf(seed, v)) \in [Slots -> Nat]
<1>1. seed \in Seed /\ WeightsOf(v) \in Weights BY OddsAssumption DEF WeightsOf
<1>2. RollPack(seed, WeightsOf(v)) \in [Slots -> Rarities]
  <2>1. Rolled(seed, WeightsOf(v)) \in [Slots -> Rarities] BY <1>1, RolledType
  <2>2. ApplyPity(Rolled(seed, WeightsOf(v))) \in [Slots -> Rarities] BY <2>1, PityLifts
  <2> QED BY <2>2 DEF RollPack, Rolled
<1>3. CardsOf(seed, v) \in [Slots -> Pool] BY <1>1, <1>2, CardsDrawn DEF CardsOf
<1>4. CapturedOf(CardsOf(seed, v)) \in [Slots -> Nat]
  <2>1. \A i \in Slots : CardsOf(seed, v)[i] \in Pool BY <1>3
  <2> QED BY <2>1, OddsAssumption DEF CapturedOf
<1> QED BY <1>1, <1>2, <1>3, <1>4

LEMMA RowFacts ==
  ASSUME NEW row, NEW seed \in Seeds, NEW v \in Versions \cup {Static}, DrawOf(row, seed, v)
  PROVE  /\ row.version = v /\ row.seed = seed /\ row.cards = CardsOf(seed, v)
         /\ row \in PackRow
         /\ ~row.revealed => row = NewPack(seed, v)
         /\ row.revealed => row.spend = AllocateSpend(CapturedOf(CardsOf(seed, v)), TierPrice)
<1> DEFINE cards == CardsOf(seed, v)
           spend == AllocateSpend(CapturedOf(cards), TierPrice)
           zero == [i \in Slots |-> 0]
           Row(r, s) == [version |-> v, seed |-> seed, cards |-> cards, revealed |-> r, spend |-> s]
<1>1. NewPack(seed, v) = Row(FALSE, zero) BY DEF NewPack, CardsOf
<1>2. RevealedPack(NewPack(seed, v)) = Row(TRUE, spend)
  <2> DEFINE new == Row(FALSE, zero)
  <2>1. RevealedPack(new) = [new EXCEPT !.revealed = TRUE,
                                        !.spend = AllocateSpend(CapturedOf(new.cards), TierPrice)]
    <3> HIDE DEF new
    <3> QED BY DEF RevealedPack, CapturedOf
  <2>2. new.cards = cards OBVIOUS
  <2>3. RevealedPack(new) = [new EXCEPT !.revealed = TRUE, !.spend = spend] BY <2>1, <2>2
  <2> HIDE DEF spend, cards, zero
  <2>4. RevealedPack(new) = Row(TRUE, spend) BY <2>3
  <2> QED BY <1>1, <2>4
<1>3. cards \in [Slots -> Pool] /\ CapturedOf(cards) \in [Slots -> Nat] BY DrawFacts
<1>4. spend \in [Slots -> Int]
  <2> HIDE DEF cards
  <2> QED BY <1>3, SpendIsFair, OddsAssumption
<1>5. row = Row(FALSE, zero) \/ row = Row(TRUE, spend) BY <1>1, <1>2 DEF DrawOf
<1> HIDE DEF cards, spend
<1>6. Row(FALSE, zero) \in PackRow /\ Row(TRUE, spend) \in PackRow
  BY <1>3, <1>4 DEF PackRow
<1>7. row.version = v /\ row.seed = seed /\ row.cards = cards /\ row \in PackRow
  <2>1. row.version = v /\ row.seed = seed /\ row.cards = cards
    BY <1>5
  <2>2. row \in PackRow
    BY <1>5, <1>6, Zenon
  <2> QED BY <2>1, <2>2
<1>8. ~row.revealed => row = Row(FALSE, zero)
  BY <1>5
<1>9. row.revealed => row.spend = spend
  BY <1>5
<1> QED BY <1>1, <1>7, <1>8, <1>9 DEF cards, spend

LEMMA PacksAreDrawsStep ==
  ASSUME OddsInv, PacksAreDraws, [OddsNext]_vars
  PROVE  PacksAreDraws'
<1>1. /\ pack = [p \in Packs |-> pack[p]] /\ cache \in Entry \cup {NoEntry}
      /\ asking \in [Buyers -> AskRow]
  BY DEF OddsInv, RowsTyped
<1>2. ASSUME NEW p \in Packs, NEW seed \in Seeds, NEW v \in Versions \cup {Static},
             pack' = [pack EXCEPT ![p] = NewPack(seed, v)]
      PROVE  PacksAreDraws'
  <2> SUFFICES ASSUME NEW q \in Packs, pack'[q] # NoPack
               PROVE  \E s \in Seeds, w \in Versions \cup {Static} : DrawOf(pack'[q], s, w)
    BY DEF PacksAreDraws
  <2>1. CASE q = p
    <3>1. pack'[q] = NewPack(seed, v) BY <1>1, <1>2, <2>1
    <3> QED BY <3>1 DEF DrawOf
  <2>2. CASE q # p
    <3>1. pack'[q] = pack[q] BY <1>1, <1>2, <2>2
    <3> QED BY <3>1 DEF PacksAreDraws
  <2> QED BY <2>1, <2>2
<1>3. ASSUME NEW p \in Packs, NEW seed \in Seeds, DrawFromCache(p, seed)
      PROVE  PacksAreDraws'
  <2>1. cache.version \in Versions BY <1>1, <1>3 DEF DrawFromCache, CacheFresh, Entry
  <2>2. pack' = [pack EXCEPT ![p] = NewPack(seed, cache.version)] BY <1>3 DEF DrawFromCache
  <2>3. PICK v \in Versions \cup {Static} : v = cache.version BY <2>1
  <2> QED BY <1>2, <2>2, <2>3
<1>4. ASSUME NEW b \in Buyers, NEW p \in Packs, NEW seed \in Seeds, DrawFromDatabase(b, p, seed)
      PROVE  PacksAreDraws'
  <2>1. asking[b].row \in Versions \cup {Static} BY <1>1 DEF AskRow
  <2>2. pack' = [pack EXCEPT ![p] = NewPack(seed, asking[b].row)] BY <1>4 DEF DrawFromDatabase
  <2>3. PICK v \in Versions \cup {Static} : v = asking[b].row BY <2>1
  <2> QED BY <1>2, <2>2, <2>3
<1>5. ASSUME NEW p \in Packs, Reveal(p) PROVE PacksAreDraws'
  <2>1. pack[p] # NoPack /\ ~pack[p].revealed /\ pack' = [pack EXCEPT ![p] = RevealedPack(@)]
    BY <1>5 DEF Reveal
  <2>2. PICK seed \in Seeds, v \in Versions \cup {Static} : DrawOf(pack[p], seed, v)
    BY <2>1 DEF PacksAreDraws
  <2>3. pack[p] = NewPack(seed, v) BY <2>1, <2>2, RowFacts
  <2> SUFFICES ASSUME NEW q \in Packs, pack'[q] # NoPack
               PROVE  \E s \in Seeds, w \in Versions \cup {Static} : DrawOf(pack'[q], s, w)
    BY DEF PacksAreDraws
  <2>4. CASE q = p
    <3>1. pack'[q] = RevealedPack(NewPack(seed, v)) BY <1>1, <2>1, <2>3, <2>4
    <3> QED BY <3>1 DEF DrawOf
  <2>5. CASE q # p
    <3>1. pack'[q] = pack[q] BY <1>1, <2>1, <2>5
    <3> QED BY <3>1 DEF PacksAreDraws
  <2> QED BY <2>4, <2>5
<1>6. CASE UNCHANGED pack BY <1>6 DEF PacksAreDraws
<1>7. \/ \E p \in Packs, seed \in Seeds : DrawFromCache(p, seed)
      \/ \E b \in Buyers, p \in Packs, seed \in Seeds : DrawFromDatabase(b, p, seed)
      \/ \E p \in Packs : Reveal(p)
      \/ UNCHANGED pack
  BY DEF OddsNext, vars, StartUpdate, UpdateAndCreate, CommitRebalance,
     RollBackRebalance, InvalidateActiveWeights, AskDatabase, ReadActive, AnswerTooLate, Tick
<1> QED BY <1>3, <1>4, <1>5, <1>6, <1>7

LEMMA PacksAlwaysDraws == OddsSpec => []PacksAreDraws
<1>1. OddsInit => PacksAreDraws
  BY DEF OddsInit, PacksAreDraws
<1>2. OddsInv /\ PacksAreDraws /\ [OddsNext]_vars => PacksAreDraws'
  BY PacksAreDrawsStep
<1> QED BY <1>1, <1>2, OddsInvariant, PTL DEF OddsSpec

----------------------------------------------------------------------------
(* Every row keeps its shape, the cards of a pack come out of the pool and  *)
(* the cache never holds the weights compiled in: the type invariant, for   *)
(* every value of the constants.                                            *)
THEOREM OddsTypeCorrect == OddsSpec => []OddsTypeOK
<1>1. OddsInv /\ PacksAreDraws => OddsTypeOK
  <2> SUFFICES ASSUME OddsInv, PacksAreDraws PROVE OddsTypeOK OBVIOUS
  <2>1. ASSUME NEW p \in Packs, pack[p] # NoPack PROVE pack[p] \in PackRow
    <3>1. PICK seed \in Seeds, v \in Versions \cup {Static} : DrawOf(pack[p], seed, v)
      BY <2>1 DEF PacksAreDraws
    <3> QED BY <3>1, RowFacts
  <2> QED BY <2>1 DEF OddsInv, RowsTyped, OddsTypeOK
<1> QED BY <1>1, OddsInvariant, PacksAlwaysDraws, PTL

(* The second implementation of the roll, in the page that verifies a pack, *)
(* finds the cards the pack was drawn with: the property of that name, for  *)
(* every value of the constants.                                            *)
THEOREM VerifierAlwaysAgrees == OddsSpec => []VerifierAgrees
<1>1. PacksAreDraws => VerifierAgrees
  <2> SUFFICES ASSUME PacksAreDraws, NEW p \in Packs, pack[p] # NoPack, pack[p].version # Static
               PROVE  ReproduceCards(pack[p].seed, Solved[pack[p].version], Pool, Pity)
                        = pack[p].cards
    BY DEF VerifierAgrees
  <2>1. PICK seed \in Seeds, v \in Versions \cup {Static} : DrawOf(pack[p], seed, v)
    BY DEF PacksAreDraws
  <2>2. pack[p].version = v /\ pack[p].seed = seed /\ pack[p].cards = CardsOf(seed, v)
    BY <2>1, RowFacts
  <2>3. WeightsOf(v) = Solved[v] BY <2>2 DEF WeightsOf
  <2>4. seed \in Seed /\ WeightsOf(v) \in Weights BY DrawFacts
  <2>5. ReproduceCards(seed, WeightsOf(v), Pool, Pity) = CardsOf(seed, v)
    BY <2>4, BrowserReproduces DEF CardsOf
  <2> QED BY <2>2, <2>3, <2>5
<1> QED BY <1>1, PacksAlwaysDraws, PTL

(* A pack has a card of the rarity its tier promises: the property of that  *)
(* name, for every value of the constants.                                  *)
THEOREM GuaranteeAlwaysKept == OddsSpec => []GuaranteeKept
<1>1. PacksAreDraws => GuaranteeKept
  <2> SUFFICES ASSUME PacksAreDraws, PoolCovers, NEW p \in Packs, pack[p] # NoPack
               PROVE  \E i \in Slots : RarityOf[pack[p].cards[i]] >= Pity
    BY DEF GuaranteeKept
  <2>1. PICK seed \in Seeds, v \in Versions \cup {Static} : DrawOf(pack[p], seed, v)
    BY DEF PacksAreDraws
  <2>2. pack[p].cards = CardsOf(seed, v) BY <2>1, RowFacts
  <2> DEFINE w == WeightsOf(v)
             rolled == Rolled(seed, w)
             slots == ApplyPity(rolled)
  <2>3. seed \in Seed /\ w \in Weights BY DrawFacts
  <2> HIDE DEF w
  <2>4. /\ rolled \in [Slots -> Rarities]
        /\ \A i \in Slots : rolled[i] = 0 \/ rolled[i] = LEGENDARY \/ w[rolled[i]] > 0
    BY <2>3, RolledType
  <2> HIDE DEF rolled
  <2>5. /\ slots \in [Slots -> Rarities]
        /\ \E i \in Slots : slots[i] >= Pity
        /\ \A i \in Slots : slots[i] = rolled[i] \/ slots[i] = Pity
    BY <2>4, PityLifts
  <2>6. PICK i \in Slots : slots[i] >= Pity BY <2>5
  <2>7. CardsOf(seed, v) = ApplyRollToPool(slots, seed, Pool)
    BY DEF CardsOf, RollPack, rolled, Rolled, w
  <2> HIDE DEF slots
  <2>8. CASE Pity = NoPity
    <3>1. CardsOf(seed, v)[i] \in Pool BY DrawFacts
    <3>2. RarityOf[CardsOf(seed, v)[i]] \in 0..4 BY <3>1, PoolFacts DEF Rarities
    <3> QED BY <2>2, <2>8, <3>2 DEF NoPity
  <2>9. CASE Pity # NoPity
    <3>1. Pity \in Rarities /\ slots[i] \in Rarities BY <2>5, <2>9, DrawAssumption
    <3>2. slots[i] \in {Pity, LEGENDARY} \/ w[slots[i]] > 0
      BY <2>4, <2>5, <2>6, <3>1 DEF Rarities
    <3>3. Bucket(Pool, slots[i]) # {}
      BY <2>6, <2>9, <3>1, <3>2 DEF PoolCovers, w
    <3>4. RarityOf[CardsOf(seed, v)[i]] = slots[i] BY <2>3, <2>5, <2>7, <3>3, CardsDrawn
    <3> QED BY <2>2, <2>6, <3>4
  <2> QED BY <2>8, <2>9
<1> QED BY <1>1, PacksAlwaysDraws, PTL

(* The cards of a pack are booked at its price, each near its share of it:  *)
(* the property of that name, for every value of the constants.             *)
THEOREM SpendAlwaysAddsUp == OddsSpec => []SpendAddsUp
<1>1. PacksAreDraws => SpendAddsUp
  <2> SUFFICES ASSUME PacksAreDraws, NEW p \in Packs, pack[p] # NoPack, pack[p].revealed
               PROVE  Fair(pack[p].spend, CapturedOf(pack[p].cards), TierPrice)
    BY DEF SpendAddsUp, Fair, CapturedOf
  <2>1. PICK seed \in Seeds, v \in Versions \cup {Static} : DrawOf(pack[p], seed, v)
    BY DEF PacksAreDraws
  <2>2. /\ pack[p].cards = CardsOf(seed, v)
        /\ pack[p].spend = AllocateSpend(CapturedOf(CardsOf(seed, v)), TierPrice)
    BY <2>1, RowFacts
  <2>3. CapturedOf(CardsOf(seed, v)) \in [Slots -> Nat] /\ TierPrice \in Nat
    BY DrawFacts, OddsAssumption
  <2> QED BY <2>2, <2>3, SpendIsFair
<1> QED BY <1>1, PacksAlwaysDraws, PTL
=============================================================================
