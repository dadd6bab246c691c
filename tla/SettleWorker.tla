---------------------------- MODULE SettleWorker ----------------------------
(***************************************************************************)
(* How an auction ends and how others hear of it: the worker of the ws     *)
(* process that calls settle-due every second, the calls in the web        *)
(* process, which settle a batch and announce it afterwards, and the       *)
(* broadcasts of the bid, create and cancel routes, sent after their       *)
(* commits in any order.                                                   *)
(*                                                                         *)
(* Money and cards are in AuctionHouse; an auction is its status, close,   *)
(* extensions and number of bids here.  How long a call or a broadcast     *)
(* takes is left open, so the five-second abort of the worker and the      *)
(* one-second timeout of a broadcast may strike at any moment.             *)
(***************************************************************************)
EXTENDS AuctionMath, Sequences, FiniteSets

CONSTANTS
  Auctions,
  Calls,         (* settle-due requests the web process may have open       *)
  NoCall,
  BatchSize,     (* the 20 of the settling loop                             *)
  DurationSec,   (* seconds an auction is created for                       *)
  TickMs,        (* how far one step of the clock moves                     *)
  MaxBids,       (* bound: bids per auction                                 *)
  MaxTime,       (* bound: the clock stands still from here on              *)
  Faults         (* which of PossibleFaults happen                          *)

PossibleFaults ==
  {"settlement throws", "broadcast lost", "web restarts",
   "connection lost", "fetch fails", "late ticks"}

ASSUME WorkerAssumption ==
  /\ IsFiniteSet(Auctions) /\ IsFiniteSet(Calls)
  /\ NoCall \notin Calls
  /\ BatchSize \in Nat \ {0}
  /\ DurationSec \in Nat \ {0} /\ TickMs \in Nat \ {0}
  /\ MaxBids \in Nat /\ MaxTime \in Nat
  /\ Faults \subseteq PossibleFaults

VARIABLES
  clock,
  auction,       (* the auction rows                                        *)
  inflight,      (* the call the worker waits for, or NoCall                *)
  call,          (* the settle-due requests at the web process              *)
  outbox,        (* broadcasts of other requests that are past their commit *)
  sent           (* history: how often auction_closed reached the relay     *)

workerVars == <<clock, auction, inflight, call, outbox, sent>>

Kinds == {"bid_placed", "sealed_phase_started", "auction_closed", "auction_event"}

(* no tells broadcasts of one kind apart: the number of the bid, or 0 for   *)
(* a creation and 1 for a cancellation or a close.                          *)
Message == [kind : Kinds, auction : Auctions, no : 0..MaxBids + 1]

AuctionRow ==
  [status : {"NONE", "LIVE", "CLOSED", "CANCELLED"}, closesAt : Nat, ext : Nat, bids : 0..MaxBids]

NoAuction == [status |-> "NONE", closesAt |-> 0, ext |-> 0, bids |-> 0]

CallRow == [phase : {"idle", "settling", "announcing"}, queue : Seq(Message)]
IdleCall == [phase |-> "idle", queue |-> <<>>]

WorkerInit ==
  /\ clock = 0
  /\ auction = [a \in Auctions |-> NoAuction]
  /\ inflight = NoCall
  /\ call = [k \in Calls |-> IdleCall]
  /\ outbox = {}
  /\ sent = [a \in Auctions |-> 0]

----------------------------------------------------------------------------
(* Time and the routes *)

Second ==
  /\ clock' = IF clock + TickMs > MaxTime THEN MaxTime ELSE clock + TickMs
  /\ UNCHANGED <<auction, inflight, call, outbox, sent>>

Create(a) ==
  /\ auction[a].status = "NONE"
  /\ clock + (DurationSec + AntiSnipeMaxExtensions * AntiSnipeExtendSec) * MsPerSec <= MaxTime
  /\ auction' = [auction EXCEPT ![a] =
       [NoAuction EXCEPT !.status = "LIVE", !.closesAt = clock + DurationSec * MsPerSec]]
  /\ outbox' = outbox \cup {[kind |-> "auction_event", auction |-> a, no |-> 0]}
  /\ UNCHANGED <<clock, inflight, call, sent>>

(* The copy of the event for the auction's own room has no listener.        *)
Cancel(a) ==
  /\ auction[a].status = "LIVE"
  /\ auction[a].bids = 0
  /\ auction' = [auction EXCEPT ![a].status = "CANCELLED"]
  /\ outbox' = outbox \cup {[kind |-> "auction_event", auction |-> a, no |-> 1]}
  /\ UNCHANGED <<clock, inflight, call, sent>>

(* The amount of a bid made in the final minute is not broadcast; the       *)
(* window is taken from the close the bid itself has just moved.            *)
BidMessage(a, newClose) ==
  [kind |-> IF IsInSealedWindow(clock, newClose) THEN "sealed_phase_started" ELSE "bid_placed",
   auction |-> a, no |-> auction[a].bids + 1]

Bid(a) ==
  LET snipe == ApplyAntiSnipe(clock, auction[a].closesAt, auction[a].ext)
  IN  /\ auction[a].status = "LIVE"
      /\ clock < auction[a].closesAt
      /\ auction[a].bids < MaxBids     \* bound
      /\ auction' = [auction EXCEPT ![a] =
           [auction[a] EXCEPT !.closesAt = snipe.closesAt, !.ext = snipe.ext, !.bids = @ + 1]]
      /\ outbox' = outbox \cup {BidMessage(a, snipe.closesAt)}
      /\ UNCHANGED <<clock, inflight, call, sent>>

----------------------------------------------------------------------------
(* Broadcasts: the relay fans a message out, or it never gets there and     *)
(* nobody sends it again.                                                   *)

Broadcast(m, arrives) ==
  IF arrives
  THEN sent' = IF m.kind = "auction_closed" THEN [sent EXCEPT ![m.auction] = @ + 1] ELSE sent
  ELSE "broadcast lost" \in Faults /\ UNCHANGED sent

SendFromRoute(m, arrives) ==
  /\ m \in outbox
  /\ outbox' = outbox \ {m}
  /\ Broadcast(m, arrives)
  /\ UNCHANGED <<clock, auction, inflight, call>>

----------------------------------------------------------------------------
(* The worker: a tick while a call is open does nothing; a reply, an error  *)
(* or the abort makes the next tick call again.                             *)

Tick(k) ==
  /\ inflight = NoCall
  /\ call[k].phase = "idle"
  /\ inflight' = k
  /\ call' = [call EXCEPT ![k].phase = "settling"]
  /\ UNCHANGED <<clock, auction, outbox, sent>>

(* AbortSignal.timeout, or a restart of the ws process: the worker is free  *)
(* again, the request goes on at the web process.                           *)
Abort ==
  /\ inflight # NoCall
  /\ inflight' = NoCall
  /\ UNCHANGED <<clock, auction, call, outbox, sent>>

(* Mutant of FreeWorker: no finally around the call. *)
FreeWorkerOnReply(k) ==
  inflight' = IF inflight = k /\ call[k].phase = "announcing" THEN NoCall ELSE inflight

(* The call k the worker waits for, if it does, has ended.                  *)
FreeWorker(k) == inflight' = IF inflight = k THEN NoCall ELSE inflight

----------------------------------------------------------------------------
(* A settle-due call *)

(* Mutant of Due: the status is not looked at. *)
DueAnyStatus(a) == auction[a].status # "NONE" /\ auction[a].closesAt <= clock

Due(a) == auction[a].status = "LIVE" /\ auction[a].closesAt <= clock

Announcements(a) ==
  << [kind |-> "auction_closed", auction |-> a, no |-> 1],
     [kind |-> "auction_event", auction |-> a, no |-> 1] >>

(* Any due auction may be next: SKIP LOCKED passes over those another call  *)
(* or a bid has locked.                                                     *)
SettleOne(k, a) ==
  /\ call[k].phase = "settling"
  /\ Len(call[k].queue) < 2 * BatchSize
  /\ Due(a)
  /\ auction' = [auction EXCEPT ![a].status = "CLOSED"]
  /\ call' = [call EXCEPT ![k].queue = @ \o Announcements(a)]
  /\ UNCHANGED <<clock, inflight, outbox, sent>>

(* The batch is full, nothing is due, or all that is due is locked.         *)
EndLoop(k) ==
  /\ call[k].phase = "settling"
  /\ call' = [call EXCEPT ![k].phase = "announcing"]
  /\ UNCHANGED <<clock, auction, inflight, outbox, sent>>

Announce(k, arrives) ==
  /\ call[k].phase = "announcing"
  /\ call[k].queue # <<>>
  /\ call' = [call EXCEPT ![k].queue = Tail(@)]
  /\ Broadcast(Head(call[k].queue), arrives)
  /\ UNCHANGED <<clock, auction, inflight, outbox>>

Reply(k) ==
  /\ call[k].phase = "announcing"
  /\ call[k].queue = <<>>
  /\ call' = [call EXCEPT ![k] = IdleCall]
  /\ FreeWorker(k)
  /\ UNCHANGED <<clock, auction, outbox, sent>>

(* settleNextDue throws (the transaction times out, or is a deadlock's      *)
(* victim): the handler ends with what it has settled so far, unannounced.  *)
SettlementThrows(k) ==
  /\ "settlement throws" \in Faults
  /\ call[k].phase = "settling"
  /\ call' = [call EXCEPT ![k] = IdleCall]
  /\ FreeWorker(k)
  /\ UNCHANGED <<clock, auction, outbox, sent>>

(* The web process dies with every request it has open.                     *)
WebRestarts ==
  /\ "web restarts" \in Faults
  /\ call' = [k \in Calls |-> IdleCall]
  /\ outbox' = {}
  /\ inflight' = NoCall
  /\ UNCHANGED <<clock, auction, sent>>

----------------------------------------------------------------------------
RouteStep == \E a \in Auctions : Create(a) \/ Cancel(a) \/ Bid(a)

CallStep(k) ==
  \/ Tick(k) \/ EndLoop(k) \/ Reply(k) \/ SettlementThrows(k)
  \/ \E a \in Auctions : SettleOne(k, a)

WorkerNext ==
  \/ Second \/ Abort \/ WebRestarts
  \/ RouteStep
  \/ \E k \in Calls : CallStep(k)
  \/ \E k \in Calls, arrives \in BOOLEAN : Announce(k, arrives)
  \/ \E m \in outbox, arrives \in BOOLEAN : SendFromRoute(m, arrives)

WorkerSpec == WorkerInit /\ [][WorkerNext]_workerVars

(* Time passes, the worker ticks, calls and broadcasts end, and an auction  *)
(* that is due over and over is not found locked every time.                *)
WorkerFairness ==
  /\ WF_workerVars(Second)
  /\ WF_workerVars(\E k \in Calls : Tick(k))
  /\ \A k \in Calls :
       /\ WF_workerVars(EndLoop(k)) /\ WF_workerVars(Reply(k))
       /\ WF_workerVars(\E arrives \in BOOLEAN : Announce(k, arrives))
  /\ \A a \in Auctions : SF_workerVars(\E k \in Calls : SettleOne(k, a))

FairWorkerSpec == WorkerSpec /\ WorkerFairness

----------------------------------------------------------------------------
(* Properties *)

WorkerTypeOK ==
  /\ clock \in 0..MaxTime
  /\ auction \in [Auctions -> AuctionRow]
  /\ inflight \in Calls \cup {NoCall}
  /\ call \in [Calls -> CallRow]
  /\ outbox \subseteq Message
  /\ sent \in [Auctions -> Nat]

Carriers(a) ==
  {k \in Calls : \E i \in DOMAIN call[k].queue :
     call[k].queue[i].kind = "auction_closed" /\ call[k].queue[i].auction = a}

(* "Overlapping ticks never double-settle": whatever calls overlap after an *)
(* abort, a close is announced at most once, and until then it waits in one *)
(* call alone; no call repeats what another carries or has announced.       *)
OneCallCarriesAClose ==
  \A a \in Auctions :
    /\ Cardinality(Carriers(a)) + sent[a] <= 1
    /\ Carriers(a) # {} \/ sent[a] > 0 => auction[a].status = "CLOSED"

(* Every auction ends, over failing settlements, restarts, aborts and       *)
(* batches that are full.                                                   *)
EveryDueSettles ==
  \A a \in Auctions : auction[a].status = "LIVE" ~> auction[a].status # "LIVE"
=============================================================================
