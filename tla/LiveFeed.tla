------------------------------ MODULE LiveFeed ------------------------------
(***************************************************************************)
(* What browsers show of an auction: the detail page and the list of live  *)
(* auctions.  A page refetches when an event of its room arrives, when a   *)
(* timer says so, or when it is opened; a newer fetch cancels the one in   *)
(* flight, whose answer is then thrown away.  The rooms are the relay's.   *)
(*                                                                         *)
(* Every page follows one auction.  A view is the status and the close it  *)
(* shows, the amounts, which the server withholds in the final minute,     *)
(* left out, and as "of" how far the row had come when the server read it. *)
(* The list shows the auction while the status is LIVE.                    *)
(***************************************************************************)
EXTENDS SettleWorker

CONSTANTS
  Pages,         (* browser tabs                                            *)
  Shown          (* the auction they follow                                 *)

ASSUME FeedAssumption == Shown \in Auctions

VARIABLES
  joined,        (* pages whose socket is in its rooms                      *)
  kind,          (* detail: /auctions/:id, list: /auctions, for live ones   *)
  fetches,       (* fetches of a page: still wanted or cancelled, answered  *)
  view,          (* what a page shows                                       *)
  failed,        (* pages whose last fetch failed: they show the error      *)
  told,          (* history: the row when the page last asked for a fetch   *)
  timer          (* seconds left of the detail page's timer, 0 if none      *)

pageVars == <<joined, kind, fetches, view, failed, told, timer>>
feedVars == <<workerVars, pageVars>>

(* A row only moves on: every bid, and the end, is one step of it.          *)
Progress(a) == auction[a].bids + (IF auction[a].status \in {"NONE", "LIVE"} THEN 0 ELSE 1)

Snapshot == [status |-> auction[Shown].status, closesAt |-> auction[Shown].closesAt,
             of |-> Progress(Shown)]

TimerSec == 2

Loading == [status |-> "NONE", closesAt |-> 0, of |-> -1]
View == [status : {"NONE", "LIVE", "CLOSED", "CANCELLED"}, closesAt : Nat, of : Int]

Fetch == [wanted : BOOLEAN, answer : View]

FeedInit ==
  /\ WorkerInit
  /\ joined = {} /\ failed = {}
  /\ kind = [p \in Pages |-> "unopened"]
  /\ fetches = [p \in Pages |-> {}]
  /\ view = [p \in Pages |-> Loading]
  /\ told = [p \in Pages |-> -1]
  /\ timer = [p \in Pages |-> 0]

----------------------------------------------------------------------------
(* Fetching *)

(* Mutant of Cancelled: the cleanup of the effect is missing. *)
StillWanted(fs) == fs

(* The cleanup of the effect: what is in flight is no longer wanted.        *)
Cancelled(fs) == {[f EXCEPT !.wanted = FALSE] : f \in fs}

(* Mutant of Reloads: one refetch at a time. *)
ReloadsIfIdle(p) == ~\E f \in fetches[p] : f.wanted

(* A trigger always makes the page refetch, whatever is in flight.          *)
Reloads(p) == TRUE

(* reloadNonce moves on, for every page of ps.                              *)
Reload(ps) ==
  /\ fetches' = [p \in Pages |-> IF p \in ps /\ Reloads(p)
       THEN Cancelled(fetches[p]) \cup {[wanted |-> TRUE, answer |-> Loading]}
       ELSE fetches[p]]
  /\ told' = [p \in Pages |-> IF p \in ps THEN Progress(Shown) ELSE told[p]]

(* The effect behind the detail page's timer: two seconds once the close it *)
(* shows is past, else none.                                                *)
Armed(v) == IF v.status = "LIVE" /\ v.closesAt <= clock THEN TimerSec ELSE 0

OpenPage(p, k) ==
  /\ kind[p] = "unopened"
  /\ auction[Shown].status # "NONE"
  /\ kind' = [kind EXCEPT ![p] = k]
  /\ Reload({p})
  /\ UNCHANGED <<workerVars, joined, view, failed, timer>>

ServerAnswers(p, f) ==
  /\ f \in fetches[p] /\ f.answer = Loading
  /\ fetches' = [fetches EXCEPT ![p] = (@ \ {f}) \cup {[f EXCEPT !.answer = Snapshot]}]
  /\ UNCHANGED <<workerVars, joined, kind, view, failed, told, timer>>

AnswerArrives(p, f) ==
  /\ f \in fetches[p] /\ f.answer # Loading
  /\ fetches' = [fetches EXCEPT ![p] = @ \ {f}]
  /\ view' = IF f.wanted THEN [view EXCEPT ![p] = f.answer] ELSE view
  /\ failed' = IF f.wanted THEN failed \ {p} ELSE failed
  /\ timer' = IF f.wanted /\ kind[p] = "detail" THEN [timer EXCEPT ![p] = Armed(f.answer)]
                                             ELSE timer
  /\ UNCHANGED <<workerVars, joined, kind, told>>

FetchFails(p, f) ==
  /\ "fetch fails" \in Faults
  /\ f \in fetches[p]
  /\ fetches' = [fetches EXCEPT ![p] = @ \ {f}]
  /\ failed' = IF f.wanted THEN failed \cup {p} ELSE failed
  /\ UNCHANGED <<workerVars, joined, kind, view, told, timer>>

----------------------------------------------------------------------------
(* Rooms and events *)

(* On every connect the page asks for its rooms; it does not refetch.       *)
Join(p) ==
  /\ kind[p] # "unopened" /\ p \notin joined
  /\ joined' = joined \cup {p}
  /\ UNCHANGED <<workerVars, kind, fetches, view, failed, told, timer>>

(* The relay forgets a socket that is cut off.  A restart of the ws process *)
(* is this for every page, and Abort for the worker.                        *)
Disconnect(p) ==
  /\ "connection lost" \in Faults
  /\ p \in joined
  /\ joined' = joined \ {p}
  /\ UNCHANGED <<workerVars, kind, fetches, view, failed, told, timer>>

(* Who refetches on message m.  No page listens to sealed_phase_started.    *)
Listeners(m) ==
  {p \in joined :
     \/ kind[p] = "list" /\ m.kind = "auction_event"
     \/ kind[p] = "detail" /\ m.auction = Shown /\ m.kind \in {"bid_placed", "auction_closed"}}

Hear(m, arrives) ==
  /\ IF arrives
     THEN Reload(Listeners(m))
     ELSE UNCHANGED <<fetches, told>>
  /\ UNCHANGED <<joined, kind, view, failed, timer>>

HeardFromRoute(m, arrives) == SendFromRoute(m, arrives) /\ Hear(m, arrives)

HeardFromCall(k, arrives) == Announce(k, arrives) /\ Hear(Head(call[k].queue), arrives)

PricesRefreshed ==
  /\ Reload(joined)
  /\ UNCHANGED <<workerVars, joined, kind, view, failed, timer>>

----------------------------------------------------------------------------
(* Timers *)

(* Mutant of Polls: the interval lives and dies with the subscription. *)
PollsWhileJoined(p) == p \in joined /\ kind[p] = "list"

(* The list refetches every ten seconds, for as long as it is open.         *)
Polls(p) == kind[p] = "list"

Poll(p) ==
  /\ Polls(p)
  /\ Reload({p})
  /\ UNCHANGED <<workerVars, joined, kind, view, failed, timer>>

(* A tick of the page's one-second clock runs the effect again: its cleanup *)
(* drops the timer, and a new one is set.                                   *)
PageTick(p) ==
  /\ kind[p] = "detail"
  /\ timer' = [timer EXCEPT ![p] = Armed(view[p])]
  /\ UNCHANGED <<workerVars, joined, kind, fetches, view, failed, told>>

(* A second passes without a tick, in a tab the browser holds back.         *)
LateSecond(p) ==
  /\ "late ticks" \in Faults
  /\ timer[p] > 0
  /\ timer' = [timer EXCEPT ![p] = @ - 1]
  /\ Reload(IF timer[p] = 1 THEN {p} ELSE {})
  /\ UNCHANGED <<workerVars, joined, kind, view, failed>>

----------------------------------------------------------------------------
PageStep(p) ==
  \/ OpenPage(p, "detail") \/ OpenPage(p, "list")
  \/ Join(p) \/ Disconnect(p) \/ Poll(p) \/ PageTick(p) \/ LateSecond(p)
  \/ \E f \in fetches[p] : ServerAnswers(p, f) \/ AnswerArrives(p, f) \/ FetchFails(p, f)

(* The steps of the worker and the routes no page takes part in.            *)
Unseen ==
  /\ Second \/ Abort \/ WebRestarts \/ RouteStep \/ \E k \in Calls : CallStep(k)
  /\ UNCHANGED pageVars

FeedNext ==
  \/ Unseen
  \/ \E m \in outbox, arrives \in BOOLEAN : HeardFromRoute(m, arrives)
  \/ \E k \in Calls, arrives \in BOOLEAN : HeardFromCall(k, arrives)
  \/ PricesRefreshed
  \/ \E p \in Pages : PageStep(p)

FeedSpec == FeedInit /\ [][FeedNext]_feedVars

(* The service runs, timers go off, and not every fetch fails or is         *)
(* overtaken by the next one.  A socket that is cut off gives up after five *)
(* attempts, so nothing is assumed of Join, nor of events.                  *)
FeedFairness ==
  /\ WF_feedVars(Second /\ UNCHANGED pageVars)
  /\ WF_feedVars((\E k \in Calls : Tick(k)) /\ UNCHANGED pageVars)
  /\ \A k \in Calls :
       /\ WF_feedVars((EndLoop(k) \/ Reply(k)) /\ UNCHANGED pageVars)
       /\ WF_feedVars(\E arrives \in BOOLEAN : HeardFromCall(k, arrives))
  /\ SF_feedVars((\E k \in Calls : SettleOne(k, Shown)) /\ UNCHANGED pageVars)
  /\ \A p \in Pages :
       /\ WF_feedVars(Poll(p)) /\ WF_feedVars(PageTick(p))
       /\ SF_feedVars(\E f \in fetches[p] : f.wanted /\ ServerAnswers(p, f))
       /\ SF_feedVars(\E f \in fetches[p] : f.wanted /\ AnswerArrives(p, f))

FairFeedSpec == FeedSpec /\ FeedFairness

----------------------------------------------------------------------------
(* Properties *)

FeedTypeOK ==
  /\ WorkerTypeOK
  /\ joined \subseteq Pages /\ failed \subseteq Pages
  /\ kind \in [Pages -> {"unopened", "detail", "list"}]
  /\ \A p \in Pages : fetches[p] \subseteq Fetch /\ view[p] \in View /\ told[p] \in Int
  /\ timer \in [Pages -> 0..TimerSec]

(* A page with nothing in flight and no error shows at least what it was    *)
(* last told of: no event is lost between a page's fetches.                 *)
AtRestShowsWhatItWasTold ==
  \A p \in Pages :
    (p \notin failed /\ ~\E f \in fetches[p] : f.wanted) => view[p].of >= told[p]

(* What a page shows never goes back: no bid disappears from it, no ended   *)
(* auction comes alive, no close moves forward again.                       *)
ViewNeverGoesBack ==
  [][ \A p \in Pages :
        /\ view'[p].of >= view[p].of
        /\ view'[p].closesAt >= view[p].closesAt ]_feedVars

Ended == auction[Shown].status \in {"CLOSED", "CANCELLED"}

(* An ended auction leaves every open list, with or without a socket.       *)
ListsDropTheEnded ==
  \A p \in Pages :
    (kind[p] = "list" /\ Ended) ~> (view[p].of = Progress(Shown) /\ p \notin failed)

(* "Auto-refetch when the clock passes closesAt (close worker may be        *)
(* lagging)", "Clients that miss an event recover on the next focus or by   *)
(* refetching": an open detail page shows the end of its auction.           *)
DetailShowsTheEnd ==
  \A p \in Pages :
    (kind[p] = "detail" /\ auction[Shown].status = "CLOSED") ~> view[p].status = "CLOSED"
=============================================================================
