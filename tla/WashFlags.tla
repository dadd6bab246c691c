------------------------------ MODULE WashFlags ------------------------------
(***************************************************************************)
(* The wash-trade review queue.  A settle-due call first settles auctions, *)
(* each in a transaction of its own, and then, broadcast by broadcast,     *)
(* evaluates them: it counts the closed auctions of the same seller and    *)
(* winner within a week, and writes a row to auction_flags.  Calls overlap *)
(* when the close worker gives up on one.  Auctions without a winner are   *)
(* never evaluated and left out, and so is the flag for linked accounts:   *)
(* nothing ever writes the table it looks at.                              *)
(***************************************************************************)
EXTENDS Integers, Sequences, FiniteSets, SequencesExt

CONSTANTS
  Sales,        (* auctions with a winner                                   *)
  Pairs,        (* seller and winner                                        *)
  ThinSales,    (* those cleared below half the price, with one bidder      *)
  SettleCalls,  (* POSTs to settle-due                                      *)
  WindowDays,   (* REPEAT_PAIR_WINDOW_DAYS                                  *)
  MaxDay        (* bound on the clock                                       *)

ASSUME WashAssumption ==
  IsFiniteSet(Sales) /\ WindowDays \in Nat /\ MaxDay \in Nat

VARIABLES
  day,
  sale,         (* what auctions shows of them: pair, closed_at             *)
  settleCall,   (* what each call has got to, and what it has to evaluate   *)
  flags,        (* auction_flags                                            *)
  evaluatedAt   (* history: the day an auction's evaluation counted, NoDay  *)
                (* if it was cut short before its repeat_pair was written   *)

washVars == <<day, sale, settleCall, flags, evaluatedAt>>

RepeatPairThreshold == 3
NoDay == -1

Reasons == {"repeat_pair", "thin_low_clearance"}
SaleRow == [closed : BOOLEAN, pair : Pairs, at : 0..MaxDay]

IdleSettleCall(stage) == [stage |-> stage, queue |-> <<>>, found |-> {}]
SetCall(c, row) == settleCall' = [settleCall EXCEPT ![c] = row]

WashInit ==
  /\ day = 0
  /\ sale \in [Sales -> {[closed |-> FALSE, pair |-> p, at |-> 0] : p \in Pairs}]
  /\ settleCall = [c \in SettleCalls |-> IdleSettleCall("none")]
  /\ flags = {}
  /\ evaluatedAt = [s \in Sales |-> NoDay]

(* The loop of settlements begins.                                          *)
StartSettling(c) ==
  /\ settleCall[c].stage = "none"
  /\ SetCall(c, IdleSettleCall("settling"))
  /\ UNCHANGED <<day, sale, flags, evaluatedAt>>

(* A settlement commits: whichever call takes the auction, takes it once.   *)
CloseSale(c, s) ==
  /\ settleCall[c].stage = "settling"
  /\ ~sale[s].closed
  /\ sale' = [sale EXCEPT ![s].closed = TRUE, ![s].at = day]
  /\ SetCall(c, [settleCall[c] EXCEPT !.queue = Append(@, s)])
  /\ UNCHANGED <<day, flags, evaluatedAt>>

EndSettling(c) ==
  /\ settleCall[c].stage = "settling"
  /\ SetCall(c, [settleCall[c] EXCEPT !.stage = "evaluating"])
  /\ UNCHANGED <<day, sale, flags, evaluatedAt>>

(* Mutant of PairCloses: the window leaves its first day out. *)
PairClosesAfter(s) ==
  {x \in Sales : sale[x].closed /\ sale[x].pair = sale[s].pair /\ sale[x].at > day - WindowDays}

PairCloses(s) ==
  {x \in Sales : sale[x].closed /\ sale[x].pair = sale[s].pair /\ sale[x].at >= day - WindowDays}

(* The statements that count; the rows are written later.                   *)
CountSignals(c) ==
  /\ settleCall[c].stage = "evaluating" /\ settleCall[c].queue # <<>>
  /\ LET s == Head(settleCall[c].queue)
     IN /\ SetCall(c, [settleCall[c] EXCEPT !.stage = "flagging", !.found =
             {r \in Reasons :
                \/ r = "repeat_pair" /\ Cardinality(PairCloses(s)) >= RepeatPairThreshold
                \/ r = "thin_low_clearance" /\ s \in ThinSales}])
        /\ evaluatedAt' = [evaluatedAt EXCEPT ![s] = day]
  /\ UNCHANGED <<day, sale, flags>>

NextSale(c) ==
  SetCall(c, [stage |-> "evaluating", queue |-> Tail(settleCall[c].queue), found |-> {}])

(* The rows are inserted one by one, a repeated pair first.                 *)
WriteFlag(c) ==
  /\ settleCall[c].stage = "flagging"
  /\ \E r \in settleCall[c].found :
       /\ r = "repeat_pair" \/ "repeat_pair" \notin settleCall[c].found
       /\ flags' = flags \cup {<<Head(settleCall[c].queue), r>>}
       /\ SetCall(c, [settleCall[c] EXCEPT !.found = @ \ {r}])
  /\ UNCHANGED <<day, sale, evaluatedAt>>

FlagsWritten(c) ==
  /\ settleCall[c].stage = "flagging" /\ settleCall[c].found = {}
  /\ NextSale(c)
  /\ UNCHANGED <<day, sale, flags, evaluatedAt>>

CutShort(c) ==
  evaluatedAt' =
    IF settleCall[c].stage = "flagging" /\ "repeat_pair" \in settleCall[c].found
    THEN [evaluatedAt EXCEPT ![Head(settleCall[c].queue)] = NoDay] ELSE evaluatedAt

(* Counting, or a row, throws: caught, and on to the next auction; the rows *)
(* inserted before stay.                                                    *)
DetectorFails(c) ==
  /\ settleCall[c].queue # <<>>
  /\ \/ settleCall[c].stage = "evaluating"
     \/ settleCall[c].stage = "flagging" /\ settleCall[c].found # {}
  /\ NextSale(c)
  /\ CutShort(c)
  /\ UNCHANGED <<day, sale, flags>>

(* A settlement throws, or the process goes down: what the call had settled *)
(* is neither announced nor evaluated.                                      *)
CallDies(c) ==
  /\ settleCall[c].stage \in {"settling", "evaluating", "flagging"}
  /\ CutShort(c)
  /\ SetCall(c, IdleSettleCall("done"))
  /\ UNCHANGED <<day, sale, flags>>

EndCall(c) ==
  /\ settleCall[c].stage = "evaluating" /\ settleCall[c].queue = <<>>
  /\ SetCall(c, IdleSettleCall("done"))
  /\ UNCHANGED <<day, sale, flags, evaluatedAt>>

NextDay ==
  /\ day < MaxDay              \* bound
  /\ day' = day + 1
  /\ UNCHANGED <<sale, settleCall, flags, evaluatedAt>>

WashNext ==
  \/ NextDay
  \/ \E c \in SettleCalls :
       \/ StartSettling(c) \/ EndSettling(c) \/ CountSignals(c) \/ WriteFlag(c)
       \/ FlagsWritten(c) \/ DetectorFails(c) \/ CallDies(c) \/ EndCall(c)
       \/ \E s \in Sales : CloseSale(c, s)

WashSpec == WashInit /\ [][WashNext]_washVars

----------------------------------------------------------------------------
(* Properties *)

WashTypeOK ==
  /\ day \in 0..MaxDay
  /\ sale \in [Sales -> SaleRow]
  /\ \A c \in SettleCalls :
       /\ settleCall[c].stage \in {"none", "settling", "evaluating", "flagging", "done"}
       /\ settleCall[c].queue \in Seq(Sales) /\ settleCall[c].found \subseteq Reasons
  /\ flags \subseteq Sales \X Reasons
  /\ evaluatedAt \in [Sales -> (0..MaxDay) \cup {NoDay}]

Flagging == UNION {ToSet(settleCall[c].queue) : c \in {d \in SettleCalls : settleCall[d].stage = "flagging"}}

(* "Same seller <-> winner in >= N closed auctions in last D days": however *)
(* calls overlap and whichever closes when, once three auctions of a pair   *)
(* have been evaluated, all within the window of the last evaluation, one   *)
(* of them is flagged; and no auction is flagged without two others.        *)
RepeatPairsAreFlagged ==
  /\ \A trio \in SUBSET Sales :
       LET last == CHOOSE s \in trio : \A x \in trio : evaluatedAt[x] <= evaluatedAt[s]
       IN (/\ Cardinality(trio) = RepeatPairThreshold
           /\ \A s, x \in trio : sale[s].pair = sale[x].pair
           /\ \A s \in trio : evaluatedAt[s] # NoDay /\ s \notin Flagging
           /\ \A s \in trio : sale[s].at >= evaluatedAt[last] - WindowDays)
          => \E s \in trio : <<s, "repeat_pair">> \in flags
  /\ \A s \in Sales : <<s, "repeat_pair">> \in flags =>
       \E x, y \in Sales \ {s} : x # y /\ {sale[x].pair, sale[y].pair} = {sale[s].pair}
                                   /\ sale[x].closed /\ sale[y].closed
=============================================================================
