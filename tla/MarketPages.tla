---------------------------- MODULE MarketPages ----------------------------
(***************************************************************************)
(* A browser tab on one of the pages that show prices and listings: the    *)
(* collection, the market, a listing, or the reveal of a pack.  The first  *)
(* three refetch on every event of their rooms, a newer fetch cancelling   *)
(* the one in flight.  The reveal page turns the cards one by one, and on  *)
(* a change of its prices fetches the contents anew, cancelling nothing.   *)
(*                                                                         *)
(* PriceRefresh and Marketplace have the routes behind it; here a refresh  *)
(* and the end of a listing are commits, each followed by its broadcast.   *)
(* What a page shows is the number of commits when the server read.        *)
(***************************************************************************)
EXTENDS Integers, Sequences, FiniteSets, SequencesExt

CONSTANTS
  Kinds,         (* the pages the tab may be on                             *)
  PricedCards,   (* cards a refresh may change the price of                 *)
  PackSlots,     (* slots of the pack: card and rarity of each              *)
  MaxCommits,    (* bound                                                   *)
  MaxReloads     (* bound: how often the user sorts or filters              *)

(* The collection, the market and a listing are "market" pages; a pack is   *)
(* opened with the animation, or looked at again.                           *)
ASSUME PagesAssumption ==
  /\ Kinds \subseteq {"market", "animate", "static"}
  /\ PackSlots \in Seq([card : PricedCards, rarity : Nat])
  /\ MaxCommits \in Nat /\ MaxReloads \in Nat

VARIABLES
  commits,       (* history: commits so far                                 *)
  events,        (* broadcasts past their commit                            *)
  revealed,      (* user_packs.is_revealed                                  *)
  kind,          (* the page of the tab                                     *)
  inRooms,       (* its socket is in the rooms it wants                     *)
  fetches,       (* its fetches in flight                                   *)
  seen,          (* what it shows, Unloaded at first                        *)
  failed,        (* the last fetch failed: it shows the error               *)
  told,          (* history: commits when it last asked                     *)
  reloads,       (* history: reloads by the user                            *)
  phase,         (* of the reveal page, and how many cards have turned      *)
  order          (* the slots as the reveal page shows them                 *)

serverVars == <<commits, events>>
tabVars == <<kind, inRooms, fetches, seen, failed, told, reloads>>
revealVars == <<revealed, phase, order>>
pagesVars == <<serverVars, tabVars, revealVars>>

Unloaded == -1
Awaited == -1                \* a fetch the server has not read for yet
Refused == -2                \* answered 409
Slots == 1..Len(PackSlots)

Fetch(to) == [to |-> to, wanted |-> TRUE, of |-> Awaited]

PagesInit ==
  /\ commits = 0 /\ events = {}
  /\ kind \in Kinds
  /\ revealed \in (IF kind = "market" THEN {FALSE} ELSE BOOLEAN)
  /\ inRooms = FALSE /\ seen = Unloaded /\ failed = FALSE /\ told = 0 /\ reloads = 0
  /\ fetches = {Fetch(IF kind = "animate" THEN "reveal" ELSE "contents")}
  /\ phase = [kind |-> "loading", turned |-> 0]
  /\ order = <<>>

----------------------------------------------------------------------------
(* The server side *)

(* A refresh changes the prices of some cards, or of none.                  *)
RefreshCommits ==
  /\ commits < MaxCommits        \* bound
  /\ commits' = commits + 1
  /\ \E changes \in SUBSET PricedCards :
       events' = events \cup {[no |-> commits', about |-> "prices", changes |-> changes]}
  /\ UNCHANGED <<tabVars, revealVars>>

(* A listing is created, sold or cancelled.                                 *)
ListingCommits ==
  /\ commits < MaxCommits        \* bound
  /\ commits' = commits + 1
  /\ events' = events \cup {[no |-> commits', about |-> "listings", changes |-> {}]}
  /\ UNCHANGED <<tabVars, revealVars>>

(* Another tab reveals the pack.                                            *)
RevealElsewhere ==
  /\ kind = "animate" /\ ~revealed
  /\ revealed' = TRUE
  /\ UNCHANGED <<serverVars, tabVars, phase, order>>

(* A POST reveals the pack once and is refused after that; the contents are *)
(* refused before.                                                          *)
Refuses(to) ==
  \/ to = "reveal" /\ revealed
  \/ to = "contents" /\ kind # "market" /\ ~revealed

ServerReadsFor(f) ==
  /\ f.of = Awaited
  /\ fetches' = (fetches \ {f})
       \cup {[f EXCEPT !.of = IF Refuses(f.to) THEN Refused ELSE commits]}
  /\ revealed' = (revealed \/ f.to = "reveal")
  /\ UNCHANGED <<serverVars, kind, inRooms, seen, failed, told, reloads, phase, order>>

(* Mutant of NoLater: equal rarities as the database returns them. *)
NoLaterByRarityOnly(s, t) == PackSlots[s].rarity <= PackSlots[t].rarity

(* The comparison of the sort: rarest last, equal rarities in the order of  *)
(* their slots.                                                             *)
NoLater(s, t) ==
  \/ PackSlots[s].rarity < PackSlots[t].rarity
  \/ PackSlots[s].rarity = PackSlots[t].rarity /\ s <= t

(* The rows of a pack come out of the database in any order, and are sorted *)
(* where they are served.                                                   *)
AnyRowOrder == {rows \in [Slots -> Slots] : IsInjective(rows)}
Sorted(rows) == \A i, j \in Slots : i < j => NoLater(rows[i], rows[j])
ContentsServed == {rows \in AnyRowOrder : Sorted(rows)}

----------------------------------------------------------------------------
(* Collection, market and listing pages *)

(* Mutant of Cancelled: the cleanup of the effect is missing. *)
StillWanted(fs) == fs

Cancelled(fs) == {[f EXCEPT !.wanted = FALSE] : f \in fs}

Reload ==
  /\ fetches' = Cancelled(fetches) \cup {Fetch("contents")}
  /\ told' = commits

(* Sorting, filtering, or a cancellation of the listing from its own page.  *)
UserReloads ==
  /\ kind = "market"
  /\ reloads < MaxReloads        \* bound
  /\ reloads' = reloads + 1
  /\ Reload
  /\ UNCHANGED <<serverVars, kind, inRooms, seen, failed, revealVars>>

PageAnswered(f) ==
  /\ kind = "market" /\ f.of # Awaited
  /\ fetches' = fetches \ {f}
  /\ IF f.wanted THEN seen' = f.of /\ failed' = FALSE ELSE UNCHANGED <<seen, failed>>
  /\ UNCHANGED <<serverVars, kind, inRooms, told, reloads, revealVars>>

----------------------------------------------------------------------------
(* The reveal page *)

(* The answer to the first fetch, or to the second after a 409.             *)
PackLoads(f) ==
  /\ kind # "market" /\ phase.kind = "loading" /\ f.of >= 0
  /\ fetches' = {} /\ seen' = f.of
  /\ phase' = [kind |-> IF f.to = "reveal" THEN "animating" ELSE "done", turned |-> 0]
  /\ order' \in ContentsServed
  /\ UNCHANGED <<serverVars, kind, inRooms, failed, told, reloads, revealed>>

(* 409: the pack was revealed in another tab, or, for the contents, not yet.*)
PackRefused(f) ==
  /\ phase.kind = "loading" /\ f.of = Refused
  /\ IF f.to = "reveal"
     THEN fetches' = {Fetch("contents")} /\ UNCHANGED phase
     ELSE fetches' = {} /\ phase' = [kind |-> "error", turned |-> 0]
  /\ UNCHANGED <<serverVars, kind, inRooms, seen, failed, told, reloads, revealed, order>>

(* The contents after a price event.  With the new cards the page leaves    *)
(* its room to join it again, and waits anew for the card that turns next.  *)
ContentsArrive(f) ==
  /\ phase.kind \in {"animating", "done"} /\ f.of # Awaited
  /\ fetches' = fetches \ {f}
  /\ seen' = f.of /\ inRooms' = FALSE
  /\ order' \in ContentsServed
  /\ UNCHANGED <<serverVars, kind, failed, told, reloads, revealed, phase>>

AfterTurn(n) == IF n >= Len(order) THEN "done" ELSE "animating"

TurnCard ==
  /\ phase.kind = "animating" /\ phase.turned < Len(order)
  /\ phase' = [kind |-> AfterTurn(phase.turned + 1), turned |-> phase.turned + 1]
  /\ UNCHANGED <<serverVars, tabVars, revealed, order>>

Skip ==
  /\ phase.kind = "animating"
  /\ phase' = [phase EXCEPT !.kind = "done"]
  /\ UNCHANGED <<serverVars, tabVars, revealed, order>>

(* The network fails a fetch, before or after the server has read for it.   *)
FetchFails(f) ==
  /\ fetches' = fetches \ {f}
  /\ failed' = (failed \/ (kind = "market" /\ f.wanted))
  /\ phase' = IF kind # "market" /\ phase.kind = "loading"
              THEN [kind |-> "error", turned |-> 0] ELSE phase
  /\ UNCHANGED <<serverVars, kind, inRooms, seen, told, reloads, revealed, order>>

----------------------------------------------------------------------------
(* Rooms and events *)

(* The reveal page asks for its room once the pack is there.                *)
JoinRooms ==
  /\ ~inRooms
  /\ kind = "market" \/ phase.kind \in {"animating", "done"}
  /\ inRooms' = TRUE
  /\ UNCHANGED <<serverVars, kind, fetches, seen, failed, told, reloads, revealVars>>

LoseConnection ==
  /\ inRooms
  /\ inRooms' = FALSE
  /\ UNCHANGED <<serverVars, kind, fetches, seen, failed, told, reloads, revealVars>>

(* The market pages refetch on every event (a listing page on those of its  *)
(* own listing: the others are as lost), the reveal page if it finds one of *)
(* its cards in the change list.                                            *)
Heard(e) ==
  /\ inRooms
  /\ kind = "market" \/ \E s \in Slots : PackSlots[s].card \in e.changes

Broadcast(e) ==
  /\ events' = events \ {e}
  /\ IF ~Heard(e) THEN UNCHANGED <<fetches, told>>
     ELSE IF kind = "market" THEN Reload
     ELSE fetches' = fetches \cup {Fetch("contents")} /\ UNCHANGED told
  /\ UNCHANGED <<commits, kind, inRooms, seen, failed, reloads, revealVars>>

BroadcastLost(e) ==
  /\ events' = events \ {e}
  /\ UNCHANGED <<commits, tabVars, revealVars>>

----------------------------------------------------------------------------
PagesNext ==
  \/ RefreshCommits \/ ListingCommits \/ RevealElsewhere
  \/ \E e \in events : Broadcast(e) \/ BroadcastLost(e)
  \/ \E f \in fetches : \/ ServerReadsFor(f) \/ PageAnswered(f) \/ PackLoads(f)
                        \/ PackRefused(f) \/ ContentsArrive(f) \/ FetchFails(f)
  \/ UserReloads \/ TurnCard \/ Skip \/ JoinRooms \/ LoseConnection

PagesSpec == PagesInit /\ [][PagesNext]_pagesVars

----------------------------------------------------------------------------
(* Properties *)

PagesTypeOK ==
  /\ commits \in Nat /\ told \in Nat /\ reloads \in Nat /\ seen \in Int
  /\ events \subseteq [no : Nat, about : {"prices", "listings"}, changes : SUBSET PricedCards]
  /\ kind \in Kinds /\ {revealed, inRooms, failed} \subseteq BOOLEAN
  /\ fetches \subseteq [to : {"reveal", "contents"}, wanted : BOOLEAN, of : Int]
  /\ phase \in [kind : {"loading", "animating", "done", "error"}, turned : Nat]
  /\ order \in Seq(Slots)

(* A collection, market or listing page that waits for no fetch shows an    *)
(* error, or prices and listings as new as the last event it was told, in   *)
(* whatever order the answers of several fetches arrived.                   *)
AtRestShowsTheNews ==
  kind = "market" /\ (\A f \in fetches : ~f.wanted) => failed \/ seen >= told

(* While the cards turn, a card once seen stays, and none that has not      *)
(* turned shows up, though the contents are fetched and sorted anew.        *)
FaceUp == {order[i] : i \in 1..phase.turned}
CardsTurnOnce ==
  [][ phase.kind = "animating" =>
        /\ FaceUp \subseteq FaceUp'
        /\ Cardinality(FaceUp') <= Cardinality(FaceUp) + 1 ]_pagesVars
=============================================================================
