--------------------------- MODULE LiveFeedProofs ---------------------------
(***************************************************************************)
(* Proofs about SettleWorker and about LiveFeed, which runs it with the    *)
(* pages that watch, for every value of their constants: any number of     *)
(* auctions, of calls open at once and of pages, any batch, any faults.    *)
(***************************************************************************)
EXTENDS LiveFeed, SequenceTheorems, FiniteSetTheorems, TLAPS

----------------------------------------------------------------------------
(* Queues *)

(* What a call's queue holds after it has settled an auction. *)
LEMMA QueueGrows ==
  ASSUME NEW q \in Seq(Message), NEW m \in Message, NEW n \in Message
  PROVE  /\ q \o <<m, n>> \in Seq(Message)
         /\ Len(q \o <<m, n>>) = Len(q) + 2
         /\ \A i \in 1..Len(q) : (q \o <<m, n>>)[i] = q[i]
         /\ (q \o <<m, n>>)[Len(q) + 1] = m
         /\ (q \o <<m, n>>)[Len(q) + 2] = n
  <1>1. <<m, n>> \in Seq(Message) /\ Len(<<m, n>>) = 2
    OBVIOUS
  <1>2. Len(q) \in Nat
    OBVIOUS
  <1>3. \A i \in 1..Len(q) + 2 :
          (q \o <<m, n>>)[i] = IF i <= Len(q) THEN q[i] ELSE <<m, n>>[i - Len(q)]
    BY <1>1, ConcatProperties
  <1> QED
    BY <1>1, <1>2, <1>3, ConcatProperties

(* And after it has announced the first of them. *)
LEMMA QueueShrinks ==
  ASSUME NEW q \in Seq(Message), q # <<>>
  PROVE  /\ Head(q) \in Message /\ Head(q) = q[1] /\ Len(q) > 0
         /\ Tail(q) \in Seq(Message) /\ Len(Tail(q)) = Len(q) - 1
         /\ \A i \in 1..Len(q) - 1 : Tail(q)[i] = q[i + 1]
  BY HeadTailProperties, ElementOfSeq

----------------------------------------------------------------------------
(* Type correctness *)

LEMMA SnipeTypes ==
  ASSUME NEW now \in Nat, NEW closesAt \in Nat, NEW ext \in Nat
  PROVE  /\ ApplyAntiSnipe(now, closesAt, ext).closesAt \in Nat
         /\ ApplyAntiSnipe(now, closesAt, ext).ext \in Nat
  BY MathAssumption DEF ApplyAntiSnipe, MsPerSec

LEMMA BroadcastType ==
  ASSUME NEW m \in Message, NEW arrives \in BOOLEAN, Broadcast(m, arrives),
         sent \in [Auctions -> Nat]
  PROVE  sent' \in [Auctions -> Nat]
  <1>1. m.auction \in Auctions
    BY DEF Message
  <1>2. sent' = sent \/ sent' = [sent EXCEPT ![m.auction] = @ + 1]
    BY Zenon DEF Broadcast
  <1> QED
    BY <1>1, <1>2

LEMMA AnnouncementsType ==
  ASSUME NEW a \in Auctions, NEW q \in Seq(Message)
  PROVE  q \o Announcements(a) \in Seq(Message)
  <1>1. \A word \in Kinds : [kind |-> word, auction |-> a, no |-> 1] \in Message
    BY WorkerAssumption DEF Message
  <1> QED
    BY <1>1, QueueGrows DEF Announcements, Kinds

LEMMA RowAfterBid ==
  ASSUME NEW r \in AuctionRow, NEW t \in Nat, NEW e \in Nat, NEW n \in 0..MaxBids
  PROVE  [r EXCEPT !.closesAt = t, !.ext = e, !.bids = n] \in AuctionRow
  BY DEF AuctionRow

LEMMA CallRowAfter ==
  ASSUME NEW r \in CallRow, NEW q \in Seq(Message),
         NEW phase \in {"idle", "settling", "announcing"}
  PROVE  [r EXCEPT !.phase = phase] \in CallRow /\ [r EXCEPT !.queue = q] \in CallRow
  BY DEF CallRow

LEMMA WorkerTypeStep ==
  ASSUME WorkerTypeOK, [WorkerNext]_workerVars
  PROVE  WorkerTypeOK'
  <1> USE WorkerAssumption DEF WorkerTypeOK
  <1>1. ASSUME NEW a \in Auctions, NEW row \in AuctionRow,
               auction' = [auction EXCEPT ![a] = row]
        PROVE  auction' \in [Auctions -> AuctionRow]
    BY <1>1
  <1>2. ASSUME NEW k \in Calls, NEW row \in CallRow, call' = [call EXCEPT ![k] = row]
        PROVE  call' \in [Calls -> CallRow]
    BY <1>2
  <1>3. ASSUME NEW k \in Calls, NEW phase \in {"idle", "settling", "announcing"},
               call' = [call EXCEPT ![k].phase = phase]
        PROVE  call' \in [Calls -> CallRow]
    <2> DEFINE row == [call[k] EXCEPT !.phase = phase]
    <2>1. row \in CallRow
      BY CallRowAfter DEF CallRow
    <2>2. call' = [call EXCEPT ![k] = row]
      BY <1>3
    <2> HIDE DEF row
    <2> QED
      BY <1>2, <2>1, <2>2
  <1>a. ASSUME NEW k \in Calls, NEW q \in Seq(Message),
               call' = [call EXCEPT ![k].queue = q]
        PROVE  call' \in [Calls -> CallRow]
    <2> DEFINE row == [call[k] EXCEPT !.queue = q]
    <2>1. row \in CallRow
      BY CallRowAfter
    <2>2. call' = [call EXCEPT ![k] = row]
      BY <1>a
    <2> HIDE DEF row
    <2> QED
      BY <1>2, <2>1, <2>2
  <1>4. IdleCall \in CallRow
    BY DEF IdleCall, CallRow
  <1>5. CASE Second
    BY <1>5 DEF Second
  <1>6. ASSUME NEW a \in Auctions, Create(a) PROVE WorkerTypeOK'
    <2> DEFINE row == [NoAuction EXCEPT !.status = "LIVE",
                                        !.closesAt = clock + DurationSec * MsPerSec]
    <2>0. clock + DurationSec * MsPerSec \in Nat /\ 0 \in 0..MaxBids
      BY DEF MsPerSec
    <2>1. row \in AuctionRow
      BY <2>0 DEF NoAuction, AuctionRow
    <2>2. auction' = [auction EXCEPT ![a] = row]
      BY <1>6 DEF Create
    <2>3. [kind |-> "auction_event", auction |-> a, no |-> 0] \in Message
      BY DEF Message, Kinds
    <2> HIDE DEF row
    <2> QED
      BY <1>1, <1>6, <2>1, <2>2, <2>3 DEF Create
  <1>7. ASSUME NEW a \in Auctions, Cancel(a) PROVE WorkerTypeOK'
    <2> DEFINE row == [auction[a] EXCEPT !.status = "CANCELLED"]
    <2>1. row \in AuctionRow
      BY DEF AuctionRow
    <2>2. auction' = [auction EXCEPT ![a] = row]
      BY <1>7 DEF Cancel
    <2>3. [kind |-> "auction_event", auction |-> a, no |-> 1] \in Message
      BY DEF Message, Kinds
    <2> HIDE DEF row
    <2> QED
      BY <1>1, <1>7, <2>1, <2>2, <2>3 DEF Cancel
  <1>8. ASSUME NEW a \in Auctions, Bid(a) PROVE WorkerTypeOK'
    <2> DEFINE snipe == ApplyAntiSnipe(clock, auction[a].closesAt, auction[a].ext)
               row == [auction[a] EXCEPT !.closesAt = snipe.closesAt, !.ext = snipe.ext,
                                         !.bids = auction[a].bids + 1]
    <2>1. auction[a].bids \in 0..MaxBids /\ auction[a].bids < MaxBids
      BY <1>8 DEF AuctionRow, Bid
    <2>2. snipe.closesAt \in Nat /\ snipe.ext \in Nat
      BY SnipeTypes DEF AuctionRow
    <2>3. auction' = [auction EXCEPT ![a] = row]
      BY <1>8 DEF Bid
    <2>4. BidMessage(a, snipe.closesAt) \in Message
      BY <2>1 DEF BidMessage, Message, Kinds
    <2>5. outbox' = outbox \cup {BidMessage(a, snipe.closesAt)}
      BY <1>8 DEF Bid
    <2> HIDE DEF snipe
    <2>6. row \in AuctionRow
      <3>1. auction[a].bids + 1 \in 0..MaxBids
        BY <2>1
      <3> QED
        BY <2>2, <3>1, RowAfterBid
    <2> HIDE DEF row
    <2> QED
      BY <1>1, <1>8, <2>3, <2>4, <2>5, <2>6 DEF Bid
  <1>9. ASSUME NEW k \in Calls, Tick(k) PROVE WorkerTypeOK'
    BY <1>3, <1>9 DEF Tick
  <1>10. ASSUME NEW k \in Calls, NEW a \in Auctions, SettleOne(k, a) PROVE WorkerTypeOK'
    <2> DEFINE row == [auction[a] EXCEPT !.status = "CLOSED"]
               queue == call[k].queue \o Announcements(a)
    <2>1. row \in AuctionRow
      BY DEF AuctionRow
    <2>2. auction' = [auction EXCEPT ![a] = row] /\ call' = [call EXCEPT ![k].queue = queue]
      BY <1>10 DEF SettleOne
    <2>3. queue \in Seq(Message)
      BY AnnouncementsType DEF CallRow
    <2> HIDE DEF row, queue
    <2> QED
      BY <1>1, <1>a, <1>10, <2>1, <2>2, <2>3 DEF SettleOne
  <1>11. ASSUME NEW k \in Calls, EndLoop(k) PROVE WorkerTypeOK'
    BY <1>3, <1>11 DEF EndLoop
  <1>12. ASSUME NEW k \in Calls, NEW arrives \in BOOLEAN, Announce(k, arrives)
         PROVE  WorkerTypeOK'
    <2>1. call[k].queue \in Seq(Message) /\ call[k].queue # <<>>
      BY <1>12 DEF Announce, CallRow
    <2>2. Tail(call[k].queue) \in Seq(Message) /\ Head(call[k].queue) \in Message
      BY <2>1, QueueShrinks
    <2>3. sent' \in [Auctions -> Nat]
      BY <1>12, <2>2, BroadcastType DEF Announce
    <2> QED
      BY <1>a, <1>12, <2>2, <2>3 DEF Announce
  <1>13. ASSUME NEW k \in Calls, Reply(k) \/ SettlementThrows(k) PROVE WorkerTypeOK'
    BY <1>2, <1>4, <1>13 DEF Reply, SettlementThrows, FreeWorker
  <1>14. ASSUME NEW m \in outbox, NEW arrives \in BOOLEAN, SendFromRoute(m, arrives)
         PROVE  WorkerTypeOK'
    BY <1>14, BroadcastType DEF SendFromRoute
  <1>15. CASE Abort \/ WebRestarts
    BY <1>4, <1>15 DEF Abort, WebRestarts
  <1>16. CASE UNCHANGED workerVars
    BY <1>16 DEF workerVars
  <1> QED
    BY <1>5, <1>6, <1>7, <1>8, <1>9, <1>10, <1>11, <1>12, <1>13, <1>14, <1>15, <1>16
       DEF WorkerNext, RouteStep, CallStep

LEMMA WorkerTypeInit == WorkerInit => WorkerTypeOK
  BY WorkerAssumption
     DEF WorkerInit, WorkerTypeOK, NoAuction, AuctionRow, IdleCall, CallRow

(* Rows, queues and broadcasts keep their shape, over aborts and restarts.  *)
THEOREM WorkerTypeCorrect == WorkerSpec => []WorkerTypeOK
  <1>1. WorkerTypeOK /\ [WorkerNext]_workerVars => WorkerTypeOK'
    BY WorkerTypeStep
  <1> QED
    BY <1>1, WorkerTypeInit, PTL DEF WorkerSpec

----------------------------------------------------------------------------
(* Announcements *)

(* The place i in the queue of call k is the announcement of a's close.     *)
Carries(k, i, a) ==
  /\ i \in DOMAIN call[k].queue
  /\ call[k].queue[i].kind = "auction_closed" /\ call[k].queue[i].auction = a

(* A close has one place in all the queues, ... *)
CarriedOnce ==
  \A a \in Auctions, k, l \in Calls : \A i, j \in Nat :
    Carries(k, i, a) /\ Carries(l, j, a) => k = l /\ i = j

(* ... has not been sent while it is there, ... *)
CarriedUnsent ==
  \A a \in Auctions, k \in Calls : \A i \in Nat :
    Carries(k, i, a) => sent[a] = 0 /\ auction[a].status = "CLOSED"

SentOnce ==
  \A a \in Auctions : sent[a] \in {0, 1} /\ (sent[a] = 1 => auction[a].status = "CLOSED")

(* ... and is nobody else's to send.                                        *)
RoutesSendNoClose == \A m \in outbox : m.kind # "auction_closed"

WorkerInv ==
  WorkerTypeOK /\ CarriedOnce /\ CarriedUnsent /\ SentOnce /\ RoutesSendNoClose

(* Steps that leave each queue alone or empty it, send no close and reopen  *)
(* no auction.                                                              *)
LEMMA QueuesStayOrEmpty ==
  ASSUME WorkerInv,
         \A k \in Calls : call'[k].queue \in {call[k].queue, <<>>},
         sent' = sent,
         \A a \in Auctions : auction[a].status = "CLOSED" => auction'[a].status = "CLOSED"
  PROVE  CarriedOnce' /\ CarriedUnsent' /\ SentOnce'
  <1>1. \A k \in Calls, i \in Nat, a \in Auctions : Carries(k, i, a)' => Carries(k, i, a)
    BY DEF Carries
  <1>2. CarriedOnce' /\ CarriedUnsent'
    BY <1>1 DEF WorkerInv, CarriedOnce, CarriedUnsent
  <1> QED
    BY <1>2 DEF WorkerInv, SentOnce

LEMMA SettlementCarries ==
  ASSUME WorkerInv, NEW k \in Calls, NEW a \in Auctions, SettleOne(k, a)
  PROVE  CarriedOnce' /\ CarriedUnsent' /\ SentOnce'
  <1> DEFINE q == call[k].queue
             m == [kind |-> "auction_closed", auction |-> a, no |-> 1]
             n == [kind |-> "auction_event", auction |-> a, no |-> 1]
  <1>1. q \in Seq(Message) /\ m \in Message /\ n \in Message
    <2>1. q \in Seq(Message)
      BY DEF WorkerInv, WorkerTypeOK, CallRow
    <2>2. 1 \in 0..MaxBids + 1
      BY WorkerAssumption
    <2> QED
      BY <2>1, <2>2 DEF Message, Kinds
  <1>2. /\ call'[k].queue = q \o <<m, n>>
        /\ \A l \in Calls \ {k} : call'[l] = call[l]
        /\ sent' = sent /\ auction[a].status = "LIVE" /\ auction'[a].status = "CLOSED"
        /\ \A b \in Auctions \ {a} : auction'[b] = auction[b]
    BY DEF SettleOne, Due, Announcements, WorkerInv, WorkerTypeOK, CallRow, AuctionRow
  <1>3. m.kind = "auction_closed" /\ m.auction = a /\ n.kind # "auction_closed"
    OBVIOUS
  <1> HIDE DEF m, n
  <1>4. /\ DOMAIN q = 1..Len(q) /\ Len(q) \in Nat
        /\ DOMAIN (q \o <<m, n>>) = 1..Len(q) + 2
        /\ \A i \in 1..Len(q) : (q \o <<m, n>>)[i] = q[i]
        /\ (q \o <<m, n>>)[Len(q) + 1] = m /\ (q \o <<m, n>>)[Len(q) + 2] = n
    BY <1>1, QueueGrows
  <1>5. ASSUME NEW l \in Calls, NEW i \in Nat, NEW b \in Auctions, Carries(l, i, b)'
        PROVE  Carries(l, i, b) \/ (b = a /\ l = k /\ i = Len(q) + 1)
    <2>1. CASE l # k
      BY <1>2, <1>5, <2>1 DEF Carries
    <2>2. CASE l = k
      <3>1. i \in 1..Len(q) + 2
        BY <1>2, <1>4, <1>5, <2>2 DEF Carries
      <3>2. CASE i \in 1..Len(q)
        BY <1>2, <1>4, <1>5, <2>2, <3>2 DEF Carries
      <3>3. CASE i = Len(q) + 1
        BY <1>2, <1>3, <1>4, <1>5, <2>2, <3>3 DEF Carries
      <3>4. CASE i = Len(q) + 2
        BY <1>2, <1>3, <1>4, <1>5, <2>2, <3>4 DEF Carries
      <3> QED
        BY <1>4, <3>1, <3>2, <3>3, <3>4
    <2> QED
      BY <2>1, <2>2
  <1>6. \A l \in Calls, i \in Nat : ~Carries(l, i, a)
    BY <1>2 DEF WorkerInv, CarriedUnsent
  <1>7. sent[a] = 0
    BY <1>2 DEF WorkerInv, SentOnce
  <1>8. CarriedOnce'
    <2> SUFFICES ASSUME NEW b \in Auctions, NEW l \in Calls, NEW p \in Calls,
                        NEW i \in Nat, NEW j \in Nat,
                        Carries(l, i, b)', Carries(p, j, b)'
                 PROVE  l = p /\ i = j
      BY DEF CarriedOnce
    <2>1. /\ Carries(l, i, b) \/ (b = a /\ l = k /\ i = Len(q) + 1)
          /\ Carries(p, j, b) \/ (b = a /\ p = k /\ j = Len(q) + 1)
      BY <1>5
    <2>2. CASE b = a
      BY <1>6, <2>1, <2>2
    <2>3. CASE b # a
      BY <2>1, <2>3 DEF WorkerInv, CarriedOnce
    <2> QED
      BY <2>2, <2>3
  <1>9. SentOnce'
    BY <1>2, <1>7 DEF WorkerInv, SentOnce
  <1>10. CarriedUnsent'
    <2> SUFFICES ASSUME NEW b \in Auctions, NEW l \in Calls, NEW i \in Nat,
                        Carries(l, i, b)'
                 PROVE  sent'[b] = 0 /\ auction'[b].status = "CLOSED"
      BY DEF CarriedUnsent
    <2>1. CASE b = a
      BY <1>2, <1>7, <2>1
    <2>2. CASE b # a
      BY <1>2, <1>5, <2>2 DEF WorkerInv, CarriedUnsent
    <2> QED
      BY <2>1, <2>2
  <1> QED
    BY <1>8, <1>9, <1>10

LEMMA AnnouncementSends ==
  ASSUME WorkerInv, NEW k \in Calls, NEW arrives \in BOOLEAN, Announce(k, arrives)
  PROVE  CarriedOnce' /\ CarriedUnsent' /\ SentOnce'
  <1> DEFINE q == call[k].queue
  <1>1. q \in Seq(Message) /\ q # <<>>
    BY DEF Announce, WorkerInv, WorkerTypeOK, CallRow
  <1>2. /\ call'[k].queue = Tail(q) /\ auction' = auction
        /\ \A l \in Calls \ {k} : call'[l] = call[l]
        /\ Broadcast(Head(q), arrives)
    BY DEF Announce, WorkerInv, WorkerTypeOK, CallRow
  <1>3. /\ Head(q) \in Message /\ Head(q) = q[1]
        /\ DOMAIN q = 1..Len(q) /\ Len(q) \in Nat /\ Len(q) > 0
        /\ DOMAIN Tail(q) = 1..Len(q) - 1
        /\ \A i \in 1..Len(q) - 1 : Tail(q)[i] = q[i + 1]
    BY <1>1, QueueShrinks
  <1>4. ASSUME NEW l \in Calls, NEW i \in Nat, NEW b \in Auctions, Carries(l, i, b)'
        PROVE  Carries(l, IF l = k THEN i + 1 ELSE i, b)
    <2>1. CASE l # k
      BY <1>2, <1>4, <2>1 DEF Carries
    <2>2. CASE l = k
      <3>1. i \in 1..Len(q) - 1 /\ Tail(q)[i] = q[i + 1] /\ i + 1 \in DOMAIN q
        <4>1. i \in DOMAIN Tail(q)
          BY <1>2, <1>4, <2>2 DEF Carries
        <4>2. i \in 1..Len(q) - 1
          BY <1>3, <4>1
        <4> HIDE DEF q
        <4>3. i + 1 \in 1..Len(q)
          BY <1>3, <4>2
        <4> QED
          BY <1>3, <4>2, <4>3
      <3>2. call'[k].queue[i].kind = "auction_closed" /\ call'[k].queue[i].auction = b
        BY <1>4, <2>2 DEF Carries
      <3>3. q[i + 1].kind = "auction_closed" /\ q[i + 1].auction = b
        BY <1>2, <3>1, <3>2
      <3>4. Carries(k, i + 1, b)
        BY <3>1, <3>3 DEF Carries
      <3> QED
        BY <2>2, <3>4
    <2> QED
      BY <2>1, <2>2
  <1>5. CarriedOnce'
    <2> SUFFICES ASSUME NEW a \in Auctions, NEW l \in Calls, NEW p \in Calls,
                        NEW i \in Nat, NEW j \in Nat,
                        Carries(l, i, a)', Carries(p, j, a)'
                 PROVE  l = p /\ i = j
      BY DEF CarriedOnce
    <2>1. /\ Carries(l, IF l = k THEN i + 1 ELSE i, a)
          /\ Carries(p, IF p = k THEN j + 1 ELSE j, a)
      BY <1>4
    <2>2. (IF l = k THEN i + 1 ELSE i) \in Nat /\ (IF p = k THEN j + 1 ELSE j) \in Nat
      OBVIOUS
    <2>3. l = p /\ (IF l = k THEN i + 1 ELSE i) = (IF p = k THEN j + 1 ELSE j)
      BY <2>1, <2>2 DEF WorkerInv, CarriedOnce
    <2> QED
      BY <2>3
  <1>6. \/ sent' = sent
        \/ /\ sent' = [sent EXCEPT ![Head(q).auction] = @ + 1]
           /\ Head(q).kind = "auction_closed"
    BY <1>2, Zenon DEF Broadcast
  <1>7. CASE sent' = sent
    <2>1. CarriedUnsent'
      <3> SUFFICES ASSUME NEW a \in Auctions, NEW l \in Calls, NEW i \in Nat,
                          Carries(l, i, a)'
                   PROVE  sent[a] = 0 /\ auction[a].status = "CLOSED"
        BY <1>2, <1>7 DEF CarriedUnsent
      <3>1. (IF l = k THEN i + 1 ELSE i) \in Nat
        OBVIOUS
      <3> QED
        BY <1>4, <3>1 DEF WorkerInv, CarriedUnsent
    <2> QED
      BY <1>2, <1>5, <1>7, <2>1 DEF WorkerInv, SentOnce
  <1>8. CASE /\ sent' = [sent EXCEPT ![Head(q).auction] = @ + 1]
             /\ Head(q).kind = "auction_closed"
    <2> DEFINE b == Head(q).auction
    <2>1. b \in Auctions
      BY <1>3 DEF Message
    <2>2. Carries(k, 1, b)
      BY <1>3, <1>8 DEF Carries
    <2>3. sent[b] = 0 /\ auction[b].status = "CLOSED"
      BY <2>1, <2>2 DEF WorkerInv, CarriedUnsent
    <2>4. /\ sent'[b] = 1
          /\ \A a \in Auctions \ {b} : sent'[a] = sent[a]
      BY <1>8, <2>1, <2>3 DEF WorkerInv, WorkerTypeOK
    <2>5. SentOnce'
      BY <1>2, <2>3, <2>4 DEF WorkerInv, SentOnce
    <2>6. CarriedUnsent'
      <3> SUFFICES ASSUME NEW a \in Auctions, NEW l \in Calls, NEW i \in Nat,
                          Carries(l, i, a)'
                   PROVE  sent'[a] = 0 /\ auction[a].status = "CLOSED"
        BY <1>2 DEF CarriedUnsent
      <3>1. Carries(l, IF l = k THEN i + 1 ELSE i, a)
        BY <1>4
      <3>2. (IF l = k THEN i + 1 ELSE i) \in Nat
        OBVIOUS
      <3>3. a # b
        <4> SUFFICES ASSUME a = b PROVE FALSE
          OBVIOUS
        <4>1. k = l /\ 1 = (IF l = k THEN i + 1 ELSE i)
          BY <2>1, <2>2, <3>1, <3>2 DEF WorkerInv, CarriedOnce
        <4>2. i \in 1..Len(q) - 1
          BY <1>2, <1>3, <4>1 DEF Carries
        <4> QED
          BY <4>1, <4>2
      <3> QED
        BY <2>4, <3>1, <3>2, <3>3 DEF WorkerInv, CarriedUnsent
    <2> QED
      BY <1>5, <2>5, <2>6
  <1> QED
    BY <1>6, <1>7, <1>8

LEMMA WorkerInvStep ==
  ASSUME WorkerInv, [WorkerNext]_workerVars
  PROVE  WorkerInv'
  <1>0. WorkerTypeOK'
    BY WorkerTypeStep DEF WorkerInv
  <1> USE DEF WorkerTypeOK, RoutesSendNoClose
  <1>1. ASSUME NEW k \in Calls, NEW a \in Auctions, SettleOne(k, a)
        PROVE  WorkerInv'
    BY <1>0, <1>1, SettlementCarries DEF WorkerInv, SettleOne
  <1>2. ASSUME NEW k \in Calls, NEW arrives \in BOOLEAN, Announce(k, arrives)
        PROVE  WorkerInv'
    BY <1>0, <1>2, AnnouncementSends DEF WorkerInv, Announce
  <1>3. ASSUME NEW a \in Auctions, Create(a) \/ Cancel(a) \/ Bid(a)
        PROVE  WorkerInv'
    <2>1. \A b \in Auctions : auction[b].status = "CLOSED" => auction'[b].status = "CLOSED"
      BY <1>3 DEF WorkerInv, Create, Cancel, Bid, AuctionRow
    <2>2. call' = call /\ sent' = sent
      BY <1>3 DEF Create, Cancel, Bid
    <2>3. RoutesSendNoClose'
      BY <1>3 DEF WorkerInv, Create, Cancel, Bid, BidMessage
    <2> QED
      BY <1>0, <2>1, <2>2, <2>3, QueuesStayOrEmpty DEF WorkerInv
  <1>4. ASSUME NEW m \in outbox, NEW arrives \in BOOLEAN, SendFromRoute(m, arrives)
        PROVE  WorkerInv'
    <2>1. sent' = sent
      BY <1>4 DEF WorkerInv, SendFromRoute, Broadcast
    <2> QED
      BY <1>0, <1>4, <2>1, QueuesStayOrEmpty DEF WorkerInv, SendFromRoute
  <1>5. ASSUME \A k \in Calls : call'[k].queue \in {call[k].queue, <<>>},
               auction' = auction, sent' = sent, outbox' \in {outbox, {}}
        PROVE  WorkerInv'
    BY <1>0, <1>5, QueuesStayOrEmpty DEF WorkerInv
  <1>6. ASSUME NEW k \in Calls, Tick(k) \/ EndLoop(k)
        PROVE  WorkerInv'
    <2>1. \A l \in Calls : call'[l].queue = call[l].queue
      BY <1>6 DEF WorkerInv, Tick, EndLoop, CallRow
    <2> QED
      BY <1>5, <1>6, <2>1 DEF Tick, EndLoop
  <1>7. ASSUME NEW k \in Calls, Reply(k) \/ SettlementThrows(k)
        PROVE  WorkerInv'
    <2>1. \A l \in Calls : call'[l].queue \in {call[l].queue, <<>>}
      <3>1. call' = [call EXCEPT ![k] = IdleCall] /\ call \in [Calls -> CallRow]
        BY <1>7 DEF WorkerInv, Reply, SettlementThrows
      <3>2. IdleCall.queue = <<>>
        BY DEF IdleCall
      <3> QED
        BY <3>1, <3>2
    <2> QED
      BY <1>5, <1>7, <2>1 DEF Reply, SettlementThrows
  <1>8. CASE WebRestarts
    BY <1>5, <1>8 DEF WebRestarts, IdleCall
  <1>9. CASE Second \/ Abort \/ UNCHANGED workerVars
    BY <1>5, <1>9 DEF Second, Abort, workerVars
  <1> QED
    BY <1>1, <1>2, <1>3, <1>4, <1>6, <1>7, <1>8, <1>9 DEF WorkerNext, RouteStep, CallStep

(* However calls overlap after an abort, the close of an auction waits in   *)
(* one call at most, and is announced at most once and only then.           *)
THEOREM ClosesAnnouncedOnce == WorkerSpec => []OneCallCarriesAClose
  <1>1. WorkerInit => WorkerInv
    <2> SUFFICES ASSUME WorkerInit PROVE WorkerInv
      OBVIOUS
    <2>1. \A k \in Calls, i \in Nat, a \in Auctions : ~Carries(k, i, a)
      BY DEF WorkerInit, IdleCall, Carries
    <2> QED
      BY <2>1, WorkerTypeInit
         DEF WorkerInit, WorkerInv, CarriedOnce, CarriedUnsent, SentOnce, RoutesSendNoClose
  <1>2. WorkerInv /\ [WorkerNext]_workerVars => WorkerInv'
    BY WorkerInvStep
  <1>3. WorkerInv => OneCallCarriesAClose
    <2> SUFFICES ASSUME WorkerInv, NEW a \in Auctions
                 PROVE  /\ Cardinality(Carriers(a)) + sent[a] <= 1
                        /\ Carriers(a) # {} \/ sent[a] > 0 => auction[a].status = "CLOSED"
      BY DEF OneCallCarriesAClose
    <2>1. ASSUME NEW k \in Carriers(a)
          PROVE  k \in Calls /\ \E i \in Nat : Carries(k, i, a)
      <3>1. k \in Calls /\ \E i \in DOMAIN call[k].queue : Carries(k, i, a)
        BY DEF Carriers, Carries
      <3>2. call[k].queue \in Seq(Message)
        BY <3>1 DEF WorkerInv, WorkerTypeOK, CallRow
      <3>3. DOMAIN call[k].queue \subseteq Nat
        BY <3>2
      <3> QED
        BY <3>1, <3>3
    <2>2. CASE Carriers(a) = {}
      BY <2>2, FS_EmptySet DEF WorkerInv, SentOnce
    <2>3. CASE Carriers(a) # {}
      <3>1. PICK k \in Carriers(a) : TRUE
        BY <2>3
      <3>2. sent[a] = 0 /\ auction[a].status = "CLOSED"
        BY <2>1 DEF WorkerInv, CarriedUnsent
      <3>3. Carriers(a) = {k}
        BY <2>1 DEF WorkerInv, CarriedOnce
      <3>4. Cardinality(Carriers(a)) = 1
        BY <3>3, FS_Singleton
      <3> QED
        BY <3>2, <3>4
    <2> QED
      BY <2>2, <2>3
  <1> QED
    BY <1>1, <1>2, <1>3, PTL DEF WorkerSpec

----------------------------------------------------------------------------
(* The rows behind the pages *)

(* A row that is not there yet is blank.                                    *)
RowsBlank ==
  \A a \in Auctions : auction[a].status = "NONE" => auction[a].bids = 0 /\ auction[a].closesAt = 0

(* No bid is taken back, nothing that ended comes back, no close moves      *)
(* forward.                                                                 *)
RowMovesOn(a) == Progress(a)' >= Progress(a) /\ auction'[a].closesAt >= auction[a].closesAt

LEMMA ProgressType ==
  ASSUME WorkerTypeOK, NEW a \in Auctions
  PROVE  /\ Progress(a) \in Nat /\ auction[a].closesAt \in Nat /\ auction[a].bids \in Nat
         /\ auction[a] \in AuctionRow
<1>1. auction[a] \in AuctionRow BY DEF WorkerTypeOK
<1>2. auction[a].bids \in Nat /\ auction[a].closesAt \in Nat
  BY <1>1, WorkerAssumption DEF AuctionRow
<1> QED BY <1>1, <1>2 DEF Progress

(* A row of an auction that is not blank any more, and no further back. *)
Follows(row, a) ==
  /\ row.closesAt \in Nat /\ row.closesAt >= auction[a].closesAt
  /\ row.bids \in Nat /\ row.bids >= auction[a].bids
  /\ row.status # "NONE"
  /\ row.status = "LIVE" => auction[a].status \in {"NONE", "LIVE"}

LEMMA OneRowMoves ==
  ASSUME WorkerTypeOK, RowsBlank, NEW a \in Auctions, NEW row, Follows(row, a),
         auction' = [auction EXCEPT ![a] = row]
  PROVE  RowsBlank' /\ \A b \in Auctions : RowMovesOn(b)
<1>1. auction \in [Auctions -> AuctionRow] BY DEF WorkerTypeOK
<1>2. auction'[a] = row /\ \A b \in Auctions \ {a} : auction'[b] = auction[b]
  BY <1>1
<1>3. RowsBlank' BY <1>2 DEF RowsBlank, Follows
<1>4. RowMovesOn(a) BY <1>2, ProgressType DEF RowMovesOn, Progress, Follows
<1>5. \A b \in Auctions \ {a} : RowMovesOn(b) BY <1>2, ProgressType DEF RowMovesOn, Progress
<1> QED BY <1>3, <1>4, <1>5

LEMMA RowsMoveOn ==
  ASSUME WorkerTypeOK, RowsBlank, [WorkerNext]_workerVars
  PROVE  RowsBlank' /\ \A a \in Auctions : RowMovesOn(a)
<1>1. CASE UNCHANGED auction
  BY <1>1, ProgressType DEF RowsBlank, RowMovesOn, Progress
<1>3. ASSUME NEW a \in Auctions, Create(a) PROVE RowsBlank' /\ \A b \in Auctions : RowMovesOn(b)
  <2> DEFINE row == [NoAuction EXCEPT !.status = "LIVE",
                                      !.closesAt = clock + DurationSec * MsPerSec]
  <2>1. auction' = [auction EXCEPT ![a] = row] BY <1>3 DEF Create
  <2>2. /\ row.status = "LIVE" /\ row.bids = 0 /\ row.closesAt \in Nat
    BY WorkerAssumption DEF NoAuction, WorkerTypeOK, MsPerSec
  <2>3. auction[a].status = "NONE" /\ auction[a].bids = 0 /\ auction[a].closesAt = 0
    BY <1>3 DEF Create, RowsBlank
  <2>4. Follows(row, a) BY <2>2, <2>3 DEF Follows
  <2> HIDE DEF row
  <2> QED BY <2>1, <2>4, OneRowMoves
<1>4. ASSUME NEW a \in Auctions, NEW end \in {"CLOSED", "CANCELLED"},
             auction' = [auction EXCEPT ![a].status = end]
      PROVE  RowsBlank' /\ \A b \in Auctions : RowMovesOn(b)
  <2> DEFINE row == [auction[a] EXCEPT !.status = end]
  <2>1. auction' = [auction EXCEPT ![a] = row] BY <1>4
  <2>2. row.status = end /\ row.closesAt = auction[a].closesAt /\ row.bids = auction[a].bids
    BY ProgressType DEF AuctionRow
  <2>3. auction[a].closesAt \in Nat /\ auction[a].bids \in Nat BY ProgressType
  <2> HIDE DEF row
  <2>4. Follows(row, a) BY <2>2, <2>3, <1>4 DEF Follows
  <2> QED BY <2>1, <2>4, OneRowMoves
<1>5. ASSUME NEW a \in Auctions, Bid(a) PROVE RowsBlank' /\ \A b \in Auctions : RowMovesOn(b)
  <2> DEFINE snipe == ApplyAntiSnipe(clock, auction[a].closesAt, auction[a].ext)
             row == [auction[a] EXCEPT !.closesAt = snipe.closesAt, !.ext = snipe.ext,
                                       !.bids = auction[a].bids + 1]
  <2>1. auction' = [auction EXCEPT ![a] = row] /\ auction[a].status = "LIVE" BY <1>5 DEF Bid
  <2>2. snipe.closesAt \in Nat /\ snipe.closesAt >= auction[a].closesAt
    BY ProgressType, MathAssumption DEF ApplyAntiSnipe, MsPerSec
  <2>3. /\ row.status = "LIVE" /\ row.closesAt = snipe.closesAt
        /\ row.bids = auction[a].bids + 1
    BY <2>1, ProgressType DEF AuctionRow
  <2>4. auction[a].bids \in Nat BY ProgressType
  <2> HIDE DEF row, snipe
  <2>5. Follows(row, a) BY <2>1, <2>2, <2>3, <2>4 DEF Follows
  <2> QED BY <2>1, <2>5, OneRowMoves
<1> QED
  BY <1>1, <1>3, <1>4, <1>5
     DEF WorkerNext, RouteStep, CallStep, workerVars, Second, Abort, WebRestarts, Tick, EndLoop,
         Reply, SettlementThrows, SettleOne, Announce, SendFromRoute, Cancel

(* Whatever the pages do, the worker and the routes do what they do. *)
LEMMA FeedIsTheWorker == [FeedNext]_feedVars => [WorkerNext]_workerVars
  BY DEF FeedNext, feedVars, Unseen, WorkerNext, HeardFromRoute, HeardFromCall, PricesRefreshed,
         PageStep, OpenPage, Join, Disconnect, Poll, PageTick, LateSecond, ServerAnswers,
         AnswerArrives, FetchFails

----------------------------------------------------------------------------
(* What a page has been told, is waiting for and shows *)

(* Nothing on a page, or on its way to it, is ahead of the row.             *)
NoNewer(v) == v.of <= Progress(Shown) /\ v.closesAt <= auction[Shown].closesAt

WantedOne(p) == \A f, g \in fetches[p] : f.wanted /\ g.wanted => f = g

(* The answer a page waits for is of after it was told, and after what it   *)
(* shows.                                                                   *)
AnswerIsNews(p) ==
  \A f \in fetches[p] : f.wanted /\ f.answer # Loading =>
    /\ f.answer.of >= told[p] /\ f.answer.of >= view[p].of
    /\ f.answer.closesAt >= view[p].closesAt

RestingOn(p) ==
  (p \notin failed /\ ~\E f \in fetches[p] : f.wanted) => view[p].of >= told[p]

PageInv(p) ==
  /\ NoNewer(view[p]) /\ told[p] <= Progress(Shown)
  /\ \A f \in fetches[p] : NoNewer(f.answer)
  /\ WantedOne(p) /\ AnswerIsNews(p) /\ RestingOn(p)

PageShapes ==
  /\ fetches \in [Pages -> SUBSET Fetch] /\ view \in [Pages -> View] /\ told \in [Pages -> Int]

FeedInv ==
  /\ WorkerTypeOK /\ RowsBlank /\ PageShapes
  /\ \A p \in Pages : PageInv(p)

LEMMA PageTypes ==
  ASSUME PageShapes, NEW p \in Pages
  PROVE  /\ fetches[p] \subseteq Fetch /\ told[p] \in Int
         /\ view[p] \in View /\ view[p].of \in Int /\ view[p].closesAt \in Nat
         /\ \A f \in fetches[p] :
              /\ f \in Fetch /\ f.wanted \in BOOLEAN /\ f.answer \in View
              /\ f.answer.of \in Int /\ f.answer.closesAt \in Nat
<1>1. fetches[p] \subseteq Fetch /\ told[p] \in Int /\ view[p] \in View BY DEF PageShapes
<1>2. \A v \in View : v.of \in Int /\ v.closesAt \in Nat BY DEF View
<1>3. \A f \in Fetch : f.wanted \in BOOLEAN /\ f.answer \in View BY DEF Fetch
<1> QED BY <1>1, <1>2, <1>3

LEMMA LoadingIsAView ==
  /\ Loading \in View /\ Loading.of = -1 /\ Loading.closesAt = 0
  /\ [wanted |-> TRUE, answer |-> Loading] \in Fetch
  BY DEF Loading, View, Fetch

(* A page that does nothing while the row moves on. *)
LEMMA QuietPage ==
  ASSUME FeedInv, WorkerTypeOK', NEW p \in Pages, RowMovesOn(Shown),
         UNCHANGED <<fetches[p], view[p], told[p]>>, p \in failed' <=> p \in failed
  PROVE  PageInv(p)'
<1>1. Progress(Shown) \in Nat /\ Progress(Shown)' \in Nat
      /\ auction[Shown].closesAt \in Nat /\ auction'[Shown].closesAt \in Nat
  BY FeedAssumption, ProgressType, ProgressType DEF FeedInv, WorkerTypeOK, Progress, AuctionRow
<1>2. PageInv(p) BY DEF FeedInv
<1> QED BY <1>1, <1>2, PageTypes
   DEF FeedInv, PageInv, NoNewer, WantedOne, AnswerIsNews, RestingOn, RowMovesOn

(* Pages that are told, all at once: what they waited for is cancelled, and *)
(* nothing else is wanted than what they ask for now.                       *)
LEMMA PagesTold ==
  ASSUME FeedInv, NEW ps, Reload(ps), UNCHANGED <<auction, view, failed>>
  PROVE  PageShapes' /\ \A p \in Pages : PageInv(p)'
<1> DEFINE new == [wanted |-> TRUE, answer |-> Loading]
<1>0. PageShapes BY DEF FeedInv
<1>1. Progress(Shown) \in Nat /\ auction[Shown].closesAt \in Nat
      /\ Progress(Shown)' = Progress(Shown)
  BY FeedAssumption, ProgressType DEF FeedInv, Progress
<1>2. ASSUME NEW p \in Pages, p \notin ps
      PROVE  fetches'[p] = fetches[p] /\ told'[p] = told[p] /\ PageInv(p)'
  <2>1. fetches'[p] = fetches[p] /\ told'[p] = told[p] BY <1>2 DEF Reload
  <2>2. PageInv(p) BY DEF FeedInv
  <2> QED BY <1>1, <2>1, <2>2 DEF PageInv, NoNewer, WantedOne, AnswerIsNews, RestingOn
<1>3. ASSUME NEW p \in Pages, p \in ps
      PROVE  fetches'[p] \subseteq Fetch /\ told'[p] \in Int /\ PageInv(p)'
  <2>1. fetches'[p] = Cancelled(fetches[p]) \cup {new} /\ told'[p] = Progress(Shown)
    BY <1>3 DEF Reload, Reloads
  <2>2. ASSUME NEW f \in fetches'[p]
        PROVE  f = new \/ (f \in Fetch /\ f.wanted = FALSE
                             /\ \E g \in fetches[p] : f.answer = g.answer)
    <3>1. f = new \/ \E g \in fetches[p] : f = [g EXCEPT !.wanted = FALSE]
      BY <2>1 DEF Cancelled
    <3>2. ASSUME NEW g \in fetches[p], f = [g EXCEPT !.wanted = FALSE]
          PROVE  f \in Fetch /\ f.wanted = FALSE /\ f.answer = g.answer
      BY <1>0, <3>2, PageTypes DEF Fetch
    <3> QED BY <3>1, <3>2
  <2>3. new \in fetches'[p] /\ new.wanted = TRUE /\ new.answer = Loading /\ new \in Fetch
    BY <2>1, LoadingIsAView
  <2>4. PageInv(p) BY DEF FeedInv
  <2> HIDE DEF new
  <2>5. fetches'[p] \subseteq Fetch BY <2>2, <2>3
  <2>a. told'[p] \in Int BY <1>1, <2>1
  <2>6. NoNewer(view[p])' /\ (told[p] <= Progress(Shown))'
    BY <1>1, <2>1, <2>4 DEF PageInv, NoNewer
  <2>7. (\A f \in fetches[p] : NoNewer(f.answer))'
    <3>1. -1 <= Progress(Shown) /\ 0 <= auction[Shown].closesAt BY <1>1
    <3>2. NoNewer(Loading) BY <3>1, LoadingIsAView DEF NoNewer
    <3>3. \A f \in fetches'[p] : NoNewer(f.answer)
      BY <2>2, <2>3, <2>4, <3>2 DEF PageInv
    <3>4. \A f \in fetches'[p] :
            f.answer.of <= Progress(Shown) /\ f.answer.closesAt <= auction[Shown].closesAt
      BY <3>3 DEF NoNewer
    <3> QED BY <1>1, <3>4 DEF NoNewer
  <2>8. WantedOne(p)' BY <2>2, <2>3 DEF WantedOne
  <2>9. AnswerIsNews(p)' BY <2>2, <2>3 DEF AnswerIsNews
  <2>10. RestingOn(p)' BY <2>3 DEF RestingOn
  <2> QED BY <2>5, <2>a, <2>6, <2>7, <2>8, <2>9, <2>10 DEF PageInv
<1>4. PageShapes'
  <2>1. \A p \in Pages : fetches'[p] \in SUBSET Fetch /\ told'[p] \in Int
    BY <1>0, <1>2, <1>3, PageTypes
  <2>2. fetches' = [p \in Pages |-> fetches'[p]] /\ told' = [p \in Pages |-> told'[p]]
    BY DEF Reload
  <2> QED BY <1>0, <2>1, <2>2 DEF PageShapes
<1> QED BY <1>2, <1>3, <1>4

(* What comes of one fetch. *)
LEMMA FetchSteps ==
  ASSUME FeedInv, NEW p \in Pages, NEW f \in fetches[p],
         ServerAnswers(p, f) \/ AnswerArrives(p, f) \/ FetchFails(p, f)
  PROVE  /\ PageShapes' /\ \A q \in Pages : PageInv(q)'
         /\ \A q \in Pages : view'[q].of >= view[q].of /\ view'[q].closesAt >= view[q].closesAt
<1>0. PageShapes /\ PageInv(p) /\ (\A q \in Pages : PageInv(q)) BY DEF FeedInv
<1>1. Progress(Shown) \in Nat /\ auction[Shown].closesAt \in Nat
      /\ Progress(Shown)' = Progress(Shown) /\ auction' = auction
      /\ auction[Shown] \in AuctionRow
  BY FeedAssumption, ProgressType
     DEF FeedInv, Progress, ServerAnswers, AnswerArrives, FetchFails, workerVars
<1>2. told' = told BY DEF ServerAnswers, AnswerArrives, FetchFails
<1>3. /\ \A q \in Pages \ {p} : fetches'[q] = fetches[q] /\ view'[q] = view[q]
      /\ \A q \in Pages \ {p} : q \in failed' <=> q \in failed
  BY <1>0 DEF ServerAnswers, AnswerArrives, FetchFails, PageShapes
<1>4. \A q \in Pages \ {p} : PageInv(q)'
  BY <1>0, <1>1, <1>2, <1>3 DEF PageInv, NoNewer, WantedOne, AnswerIsNews, RestingOn
<1>5. \A q \in Pages \ {p} :
        view'[q].of >= view[q].of /\ view'[q].closesAt >= view[q].closesAt
  BY <1>0, <1>3, PageTypes
<1>6. CASE ServerAnswers(p, f)
  <2> DEFINE g == [f EXCEPT !.answer = Snapshot]
  <2>1. /\ Snapshot \in View /\ Snapshot.of = Progress(Shown)
        /\ Snapshot.closesAt = auction[Shown].closesAt
    BY <1>1 DEF Snapshot, View, AuctionRow
  <2>2. /\ fetches' = [fetches EXCEPT ![p] = (fetches[p] \ {f}) \cup {g}]
        /\ view' = view /\ failed' = failed
    BY <1>6 DEF ServerAnswers
  <2>3. g \in Fetch /\ g.wanted = f.wanted /\ g.answer = Snapshot
    BY <1>0, <2>1, PageTypes DEF Fetch
  <2> HIDE DEF g
  <2>4. fetches'[p] = (fetches[p] \ {f}) \cup {g}
    BY <1>0, <2>2 DEF PageShapes
  <2>5. PageShapes' BY <1>0, <1>2, <2>2, <2>3, PageTypes DEF PageShapes
  <2>6. NoNewer(view[p])' /\ (told[p] <= Progress(Shown))'
    BY <1>0, <1>1, <1>2, <2>2 DEF PageInv, NoNewer
  <2>7. (\A h \in fetches[p] : NoNewer(h.answer))'
    BY <1>0, <1>1, <2>1, <2>3, <2>4 DEF PageInv, NoNewer
  <2>8. WantedOne(p)' BY <1>0, <2>3, <2>4 DEF PageInv, WantedOne
  <2>9. AnswerIsNews(p)'
    BY <1>0, <1>2, <2>1, <2>2, <2>3, <2>4, PageTypes, <1>1 DEF PageInv, AnswerIsNews, NoNewer
  <2>10. RestingOn(p)' BY <1>0, <1>2, <2>2, <2>3, <2>4 DEF PageInv, RestingOn
  <2>11. PageInv(p)' BY <2>6, <2>7, <2>8, <2>9, <2>10 DEF PageInv
  <2>12. view'[p].of >= view[p].of /\ view'[p].closesAt >= view[p].closesAt
    BY <1>0, <2>2, PageTypes
  <2> QED BY <1>4, <1>5, <2>5, <2>11, <2>12
<1>7. CASE (AnswerArrives(p, f) \/ FetchFails(p, f)) /\ ~f.wanted
  <2>1. /\ fetches' = [fetches EXCEPT ![p] = fetches[p] \ {f}]
        /\ view' = view /\ failed' = failed
    BY <1>7 DEF AnswerArrives, FetchFails
  <2>2. fetches'[p] = fetches[p] \ {f} BY <1>0, <2>1 DEF PageShapes
  <2>3. PageShapes' BY <1>0, <1>2, <2>1, PageTypes DEF PageShapes
  <2>4. PageInv(p)'
    BY <1>0, <1>1, <1>2, <1>7, <2>1, <2>2
       DEF PageInv, NoNewer, WantedOne, AnswerIsNews, RestingOn
  <2>5. view'[p].of >= view[p].of /\ view'[p].closesAt >= view[p].closesAt
    BY <1>0, <2>1, PageTypes
  <2> QED BY <1>4, <1>5, <2>3, <2>4, <2>5
<1>8. CASE (AnswerArrives(p, f) \/ FetchFails(p, f)) /\ f.wanted
  <2>1. fetches' = [fetches EXCEPT ![p] = fetches[p] \ {f}]
    BY <1>8 DEF AnswerArrives, FetchFails
  <2>2. fetches'[p] = fetches[p] \ {f} BY <1>0, <2>1 DEF PageShapes
  <2>3. ~\E g \in fetches'[p] : g.wanted
    BY <1>0, <1>8, <2>2 DEF PageInv, WantedOne
  <2>4. \/ f.answer # Loading /\ view' = [view EXCEPT ![p] = f.answer]
        \/ view' = view /\ p \in failed'
    BY <1>8 DEF AnswerArrives, FetchFails
  <2>5. \/ f.answer # Loading /\ view'[p] = f.answer
        \/ view'[p] = view[p] /\ p \in failed'
    BY <1>0, <2>4 DEF PageShapes
  <2>6. PageShapes' BY <1>0, <1>2, <2>1, <2>4, PageTypes DEF PageShapes
  <2>7. NoNewer(view[p])' /\ (told[p] <= Progress(Shown))'
    BY <1>0, <1>1, <1>2, <2>5 DEF PageInv, NoNewer
  <2>8. (\A h \in fetches[p] : NoNewer(h.answer))'
    BY <1>0, <1>1, <2>2 DEF PageInv, NoNewer
  <2>9. WantedOne(p)' /\ AnswerIsNews(p)' BY <2>3 DEF WantedOne, AnswerIsNews
  <2>10. RestingOn(p)' BY <1>0, <1>2, <1>8, <2>5 DEF PageInv, RestingOn, AnswerIsNews
  <2>11. PageInv(p)' BY <2>7, <2>8, <2>9, <2>10 DEF PageInv
  <2>12. view'[p].of >= view[p].of /\ view'[p].closesAt >= view[p].closesAt
    BY <1>0, <1>8, <2>5, PageTypes DEF PageInv, AnswerIsNews
  <2> QED BY <1>4, <1>5, <2>6, <2>11, <2>12
<1> QED BY <1>6, <1>7, <1>8, <1>0, PageTypes

(* A step of the pages, of the worker or of the routes. *)
LEMMA FeedStep ==
  ASSUME FeedInv, [FeedNext]_feedVars
  PROVE  /\ FeedInv'
         /\ \A p \in Pages : view'[p].of >= view[p].of /\ view'[p].closesAt >= view[p].closesAt
<1>1. WorkerTypeOK /\ RowsBlank /\ PageShapes BY DEF FeedInv
<1>2. WorkerTypeOK' /\ RowsBlank' /\ RowMovesOn(Shown)
  BY <1>1, FeedIsTheWorker, WorkerTypeStep, RowsMoveOn, FeedAssumption
<1>3. CASE UNCHANGED <<fetches, view, told, failed>>
  <2>1. \A p \in Pages : PageInv(p)' BY <1>2, <1>3, QuietPage
  <2> QED BY <1>1, <1>2, <1>3, <2>1, PageTypes DEF FeedInv, PageShapes
<1>4. ASSUME NEW ps, Reload(ps), UNCHANGED <<auction, view, failed>>
      PROVE  /\ FeedInv'
             /\ \A p \in Pages :
                  view'[p].of >= view[p].of /\ view'[p].closesAt >= view[p].closesAt
  BY <1>1, <1>2, <1>4, PagesTold, PageTypes DEF FeedInv
<1>5. ASSUME NEW p \in Pages, NEW f \in fetches[p],
             ServerAnswers(p, f) \/ AnswerArrives(p, f) \/ FetchFails(p, f)
      PROVE  /\ FeedInv'
             /\ \A q \in Pages :
                  view'[q].of >= view[q].of /\ view'[q].closesAt >= view[q].closesAt
  BY <1>2, <1>5, FetchSteps DEF FeedInv
<1>6. ASSUME NEW p \in Pages, PageStep(p)
      PROVE  \/ UNCHANGED <<fetches, view, told, failed>>
             \/ \E ps : Reload(ps) /\ UNCHANGED <<auction, view, failed>>
             \/ \E f \in fetches[p] :
                  ServerAnswers(p, f) \/ AnswerArrives(p, f) \/ FetchFails(p, f)
  BY <1>6 DEF PageStep, OpenPage, Join, Disconnect, Poll, PageTick, LateSecond, workerVars
<1>7. ASSUME NEW m, NEW arrives \in BOOLEAN, Hear(m, arrives), UNCHANGED auction
      PROVE  \/ UNCHANGED <<fetches, view, told, failed>>
             \/ \E ps : Reload(ps) /\ UNCHANGED <<auction, view, failed>>
  BY <1>7 DEF Hear
<1>8. CASE Unseen \/ UNCHANGED feedVars
  BY <1>3, <1>8 DEF Unseen, pageVars, feedVars
<1>9. ASSUME NEW p \in Pages, PageStep(p)
      PROVE  /\ FeedInv'
             /\ \A q \in Pages :
                  view'[q].of >= view[q].of /\ view'[q].closesAt >= view[q].closesAt
  BY <1>3, <1>4, <1>5, <1>6, <1>9
<1>10. CASE PricesRefreshed BY <1>4, <1>10 DEF PricesRefreshed, workerVars
<1>11. CASE \/ \E m \in outbox, arrives \in BOOLEAN : HeardFromRoute(m, arrives)
            \/ \E k \in Calls, arrives \in BOOLEAN : HeardFromCall(k, arrives)
  BY <1>3, <1>4, <1>7, <1>11 DEF HeardFromRoute, HeardFromCall, SendFromRoute, Announce
<1> QED BY <1>8, <1>9, <1>10, <1>11 DEF FeedNext

LEMMA FeedInvHolds == FeedSpec => []FeedInv
<1>1. FeedInit => FeedInv
  <2> SUFFICES ASSUME FeedInit PROVE FeedInv OBVIOUS
  <2>1. WorkerTypeOK BY WorkerTypeInit DEF FeedInit
  <2>2. RowsBlank BY DEF FeedInit, WorkerInit, RowsBlank, NoAuction
  <2>3. PageShapes BY LoadingIsAView DEF FeedInit, PageShapes
  <2>4. Progress(Shown) = 0 /\ auction[Shown].closesAt = 0
    BY FeedAssumption DEF FeedInit, WorkerInit, NoAuction, Progress
  <2>5. ASSUME NEW p \in Pages PROVE PageInv(p)
    <3>1. fetches[p] = {} /\ view[p] = Loading /\ told[p] = -1 BY DEF FeedInit
    <3> QED BY <2>4, <3>1, LoadingIsAView
            DEF PageInv, NoNewer, WantedOne, AnswerIsNews, RestingOn
  <2> QED BY <2>1, <2>2, <2>3, <2>5 DEF FeedInv
<1>2. FeedInv /\ [FeedNext]_feedVars => FeedInv' BY FeedStep
<1> QED BY <1>1, <1>2, PTL DEF FeedSpec

(* LiveFeed: a page that waits for nothing and shows no error shows at      *)
(* least what it was last told of, for any pages, auctions, calls and       *)
(* faults, however events, answers and timers interleave.                   *)
THEOREM PagesAtRestShowWhatTheyWereTold == FeedSpec => []AtRestShowsWhatItWasTold
<1>1. FeedInv => AtRestShowsWhatItWasTold
  BY DEF FeedInv, PageInv, RestingOn, AtRestShowsWhatItWasTold
<1> QED BY <1>1, FeedInvHolds, PTL

(* LiveFeed: no answer that was overtaken takes a page back.                *)
THEOREM ViewsOnlyMoveOn == FeedSpec => ViewNeverGoesBack
<1> DEFINE MovesOn(p) ==
      /\ view'[p].of >= view[p].of
      /\ view'[p].closesAt >= view[p].closesAt
<1>1. FeedInv /\ [FeedNext]_feedVars => [\A p \in Pages : MovesOn(p)]_feedVars
  BY FeedStep
<1> QED BY <1>1, FeedInvHolds, PTL DEF FeedSpec, ViewNeverGoesBack

(* LiveFeed: the worker and the routes behind the pages are SettleWorker's, *)
(* so what is proved of it holds here.                                      *)
THEOREM FeedRunsTheWorker == FeedSpec => WorkerSpec
<1>1. FeedInit => WorkerInit BY DEF FeedInit
<1> QED BY <1>1, FeedIsTheWorker, PTL DEF FeedSpec, WorkerSpec
=============================================================================
