-------------------------------- MODULE Forms --------------------------------
(***************************************************************************)
(* The buttons behind which the routes that move money and cards are, in   *)
(* one tab: buying a pack or a listed card, adding funds, selling, bidding *)
(* and cancelling.  No request carries a key by which the server could     *)
(* know it again, so that what a user wants once happens once is up to the *)
(* form: what it disables, what it clears, and what it says.               *)
(*                                                                         *)
(* A thing is what the user wants: a pack, a sum, a bid of some amount, a  *)
(* card sold or bought.  The routes themselves are in DropSale, Exchange   *)
(* and AuctionHouse.                                                       *)
(***************************************************************************)
EXTENDS Integers, Sequences, FiniteSets

CONSTANTS
  FormKinds,     (* the forms the tab may show                              *)
  MaxThings,     (* bound                                                   *)
  MaxClicks      (* bound                                                   *)

Dialogs == {"pack", "funds"}            \* open over a page, close when done
Typed == {"funds", "bid"}               \* an amount is to be filled in
Lingering == {"buy", "sell", "cancel"}  \* stay as they are when done, till the page goes

ASSUME FormsAssumption ==
  /\ FormKinds \subseteq Dialogs \cup Typed \cup Lingering
  /\ MaxThings \in Nat \ {0} /\ MaxClicks \in Nat

VARIABLES
  form,          (* the form of this tab                                    *)
  open, filled, busy,
  said,          (* the message shown, and the thing it is about            *)
  thing,         (* history: the thing wanted now                           *)
  sent           (* the requests: thing, result at the server, and whether  *)
                 (* the page still waits, has heard, or never will          *)

formVars == <<form, open, filled, busy, said, thing, sent>>

Silence == [what |-> "nothing", about |-> 0]

Done(t) == {i \in DOMAIN sent : sent[i].thing = t /\ sent[i].result = "done"}
Deaf(t) == {i \in DOMAIN sent : sent[i].thing = t /\ sent[i].page = "deaf"}

(* The form on a page just loaded.                                          *)
Fresh(kind) == open' = (kind \notin Dialogs) /\ filled' = (kind \notin Typed)

FormsInit ==
  /\ form \in FormKinds
  /\ open = (form \notin Dialogs) /\ filled = (form \notin Typed) /\ busy = FALSE
  /\ said = Silence /\ sent = <<>>
  /\ thing = IF form \in Lingering THEN 1 ELSE 0

----------------------------------------------------------------------------
(* The user *)

WantsNext ==
  /\ thing < MaxThings            \* bound
  /\ thing' = thing + 1

(* Whoever has been told that it is done wants something else, the others   *)
(* still the same.                                                          *)
Told == thing = 0 \/ \E i \in Done(thing) : sent[i].page = "heard"
Wants == IF Told THEN WantsNext ELSE UNCHANGED thing

OpenDialog ==
  /\ form \in Dialogs /\ ~open
  /\ open' = TRUE
  /\ IF form = "pack" THEN Wants ELSE UNCHANGED thing
  /\ UNCHANGED <<form, filled, busy, said, sent>>

(* "Cancel" is disabled while a request is out; it clears the funds dialog. *)
CloseDialog ==
  /\ form \in Dialogs /\ open /\ ~busy
  /\ open' = FALSE
  /\ IF form = "funds" THEN filled' = FALSE /\ said' = Silence ELSE UNCHANGED <<filled, said>>
  /\ UNCHANGED <<form, busy, thing, sent>>

(* An amount is filled in, or another one: the bid's also while one is out. *)
Type ==
  /\ form \in Typed /\ open
  /\ form = "funds" => ~busy
  /\ filled' = TRUE
  /\ Wants \/ WantsNext
  /\ UNCHANGED <<form, open, busy, said, sent>>

(* Mutant of Enabled: the button stays enabled while a request is out. *)
EnabledWhileBusy == open /\ filled

Enabled == open /\ filled /\ ~busy

Click ==
  /\ Enabled
  /\ Len(sent) < MaxClicks       \* bound
  /\ busy' = TRUE /\ said' = Silence
  /\ sent' = Append(sent, [thing |-> thing, result |-> "none", page |-> "waits"])
  /\ UNCHANGED <<form, open, filled, thing>>

(* Reload, close and come back, or the redirect of a form that is done.     *)
Leave ==
  /\ Fresh(form) /\ busy' = FALSE /\ said' = Silence
  /\ sent' = [i \in DOMAIN sent |->
                IF sent[i].page = "waits" THEN [sent[i] EXCEPT !.page = "deaf"] ELSE sent[i]]
  /\ IF form \in Lingering THEN Wants ELSE UNCHANGED thing
  /\ UNCHANGED form

----------------------------------------------------------------------------
(* The server and the network *)

(* Packs and funds can be had again and again; a card is sold, bought or    *)
(* withdrawn once, and no bid is accepted twice, since the next one must be *)
(* higher.  Anything may be refused.                                        *)
Handle(i) ==
  /\ sent[i].result = "none"
  /\ \E result \in {"done", "refused"} :
       /\ result = "done" => form \in Dialogs \/ Done(sent[i].thing) = {}
       /\ sent' = [sent EXCEPT ![i].result = result]
  /\ UNCHANGED <<form, open, filled, busy, said, thing>>

(* Mutant of FilledAfter: an accepted bid stays in the input. *)
FilledAfterAnyBid(result) == filled

(* An accepted amount is cleared.                                           *)
FilledAfter(result) == filled /\ ~(form \in Typed /\ result = "done")

Hear(i) ==
  /\ sent[i].page = "waits" /\ sent[i].result # "none"
  /\ sent' = [sent EXCEPT ![i].page = "heard"]
  /\ said' = [what |-> sent[i].result, about |-> sent[i].thing]
  /\ busy' = FALSE
  /\ open' = (open /\ ~(form \in Dialogs /\ sent[i].result = "done"))
  /\ filled' = FilledAfter(sent[i].result)
  /\ UNCHANGED <<form, thing>>

(* The connection fails, before or after the server has handled the request.*)
(* The funds form catches no error: it stays disabled until the page goes.  *)
(* Of the two cancel buttons the listing's catches it and the auction's     *)
(* does not: that one is enabled again and says nothing.                    *)
FailToHear(i) ==
  /\ sent[i].page = "waits"
  /\ sent' = [sent EXCEPT ![i].page = "deaf"]
  /\ busy' = (busy /\ form = "funds")
  /\ \/ form # "funds" /\ said' = [what |-> "error", about |-> sent[i].thing]
     \/ form \in {"funds", "cancel"} /\ UNCHANGED said
  /\ UNCHANGED <<form, open, filled, thing>>

FormsNext ==
  \/ OpenDialog \/ CloseDialog \/ Type \/ Click \/ Leave
  \/ \E i \in DOMAIN sent : Handle(i) \/ Hear(i) \/ FailToHear(i)

FormsSpec == FormsInit /\ [][FormsNext]_formVars

----------------------------------------------------------------------------
(* Properties *)

FormsTypeOK ==
  /\ form \in FormKinds /\ {open, filled, busy} \subseteq BOOLEAN /\ thing \in 0..MaxThings
  /\ said \in [what : {"nothing", "done", "refused", "error"}, about : 0..MaxThings]
  /\ sent \in Seq([thing : 0..MaxThings, result : {"none", "done", "refused"},
                   page : {"waits", "heard", "deaf"}])

(* However often a user clicks, what is wanted once happens once, but for   *)
(* answers that never reached the page, for which it may happen again.      *)
EachOnce == \A t \in 0..MaxThings : Cardinality(Done(t)) <= 1 + Cardinality(Deaf(t))

(* A form that says it was refused, and has heard of all its requests, has  *)
(* not in fact got what was wanted.  Forms that stay enabled once they are  *)
(* done are the exception: a second click there is refused.                 *)
RefusalIsHonest ==
  said.what = "refused" /\ form \notin Lingering /\ Deaf(said.about) = {} => Done(said.about) = {}
=============================================================================
