------------------------------- MODULE Alerts -------------------------------
(***************************************************************************)
(* The alerts of the admin dashboard.  A GET of the health page reads the  *)
(* margin each tier has realised and then, tier by tier, looks for an open *)
(* alert and writes one if there is none: three statements, no transaction *)
(* and no constraint in the table.  An admin acknowledges alerts one by    *)
(* one.  A margin is in percentage points; the other kinds of alert have   *)
(* evaluators that nothing calls.                                          *)
(***************************************************************************)
EXTENDS Integers, Sequences, FiniteSets, SequencesExt

CONSTANTS
  TierOrder,      (* the tiers, in the order the route takes them           *)
  Evaluations,    (* GETs of the health page by admins                      *)
  Figures         (* what a tier may have realised in a week: packs sold,   *)
                  (* and its margin less the target                         *)

ASSUME TiersAssumption ==
  /\ TierOrder \in Seq(ToSet(TierOrder)) \ {<<>>}
  /\ \A i, j \in DOMAIN TierOrder : TierOrder[i] = TierOrder[j] => i = j

VARIABLES
  realised,       (* packs sold and drift of every tier                     *)
  alert,          (* admin_alerts: an evaluation writes one a tier at most  *)
  evaluation,     (* what each request has got to                           *)
  met,            (* history: pairs of evaluations at work at one time      *)
  ackedBefore     (* history: what was acknowledged when one began          *)

alertHistory == <<met, ackedBefore>>
alertVars == <<realised, alert, evaluation, alertHistory>>

Tiers == ToSet(TierOrder)
AlertIds == Evaluations \X Tiers
AlertRow == [state : {"none", "open", "acked"}, severity : {"none", "yellow", "red"}]
Unraised == [state |-> "none", severity |-> "none"]

Acked == {x \in AlertIds : alert[x].state = "acked"}
OpenFor(t) == {x \in AlertIds : x[2] = t /\ alert[x].state = "open"}

AlertsInit ==
  /\ realised \in [Tiers -> Figures]
  /\ alert = [x \in AlertIds |-> Unraised]
  /\ evaluation = [e \in Evaluations |->
                     [stage |-> "none", tier |-> 1, saw |-> realised]]
  /\ met = {} /\ ackedBefore = [e \in Evaluations |-> {}]

----------------------------------------------------------------------------
(* What an evaluation makes of a tier *)

MarginSeverity(drift) ==
  LET size == IF drift < 0 THEN -drift ELSE drift
  IN IF size > 6 THEN "red" ELSE IF size > 3 THEN "yellow" ELSE "none"

(* Tiers with few packs say nothing.                                        *)
Severity(row) == IF row.packs > 50 THEN MarginSeverity(row.drift) ELSE "none"

(* Mutants of AlreadyOpen: any alert of the tier counts, also one that was  *)
(* acknowledged; only an alert as severe counts.                            *)
AlreadyRaised(t, severity) == \E x \in AlertIds : x[2] = t /\ alert[x].state # "none"
AlreadyAsSevere(t, severity) == \E x \in OpenFor(t) : alert[x].severity = severity

AlreadyOpen(t, severity) == OpenFor(t) # {}

TierOf(e) == TierOrder[evaluation[e].tier]
Saw(e) == Severity(evaluation[e].saw[TierOf(e)])

AtWork == {e \in Evaluations : evaluation[e].stage \in {"looking", "writing"}}

(* On to the next tier, or done.                                            *)
NextTier(e) ==
  LET row == evaluation[e]
  IN evaluation' = [evaluation EXCEPT ![e] =
       IF row.tier = Len(TierOrder)
         THEN [row EXCEPT !.stage = "done", !.saw = [t \in Tiers |-> CHOOSE r \in Figures : TRUE]]
         ELSE [row EXCEPT !.stage = "looking", !.tier = row.tier + 1]]

----------------------------------------------------------------------------
(* The steps *)

(* The statement that adds up the margins.                                  *)
StartEvaluation(e) ==
  /\ evaluation[e].stage = "none"
  /\ evaluation' = [evaluation EXCEPT ![e] = [stage |-> "looking", tier |-> 1, saw |-> realised]]
  /\ met' = met \cup {{e, f} : f \in AtWork}
  /\ ackedBefore' = [ackedBefore EXCEPT ![e] = Acked]
  /\ UNCHANGED <<realised, alert>>

(* persistAlert looks for an open alert of the tier, if there is cause.     *)
LookUp(e) ==
  /\ evaluation[e].stage = "looking"
  /\ IF Saw(e) # "none" /\ ~AlreadyOpen(TierOf(e), Saw(e))
       THEN evaluation' = [evaluation EXCEPT ![e].stage = "writing"]
       ELSE NextTier(e)
  /\ UNCHANGED <<realised, alert, alertHistory>>

WriteAlert(e) ==
  /\ evaluation[e].stage = "writing"
  /\ alert' = [alert EXCEPT ![<<e, TierOf(e)>>] = [state |-> "open", severity |-> Saw(e)]]
  /\ NextTier(e)
  /\ UNCHANGED <<realised, alertHistory>>

(* Either statement throws: the route goes on with the next tier.           *)
PersistFails(e) ==
  /\ evaluation[e].stage \in {"looking", "writing"} /\ Saw(e) # "none"
  /\ NextTier(e)
  /\ UNCHANGED <<realised, alert, alertHistory>>

(* POST /api/admin/alerts/[id]/ack finds only open alerts.                  *)
Acknowledge(x) ==
  /\ alert[x].state = "open"
  /\ alert' = [alert EXCEPT ![x].state = "acked"]
  /\ UNCHANGED <<realised, evaluation, alertHistory>>

(* Packs are sold, or grow older than a week.                               *)
SalesMove(t) ==
  /\ \E row \in Figures : realised' = [realised EXCEPT ![t] = row]
  /\ UNCHANGED <<alert, evaluation, alertHistory>>

AlertsNext ==
  \/ \E e \in Evaluations :
       StartEvaluation(e) \/ LookUp(e) \/ WriteAlert(e) \/ PersistFails(e)
  \/ \E x \in AlertIds : Acknowledge(x)
  \/ \E t \in Tiers : SalesMove(t)

AlertsSpec == AlertsInit /\ [][AlertsNext]_alertVars

----------------------------------------------------------------------------
(* Properties *)

AlertsTypeOK ==
  /\ realised \in [Tiers -> Figures]
  /\ alert \in [AlertIds -> AlertRow]
  /\ evaluation \in [Evaluations ->
       [stage : {"none", "looking", "writing", "done"}, tier : 1..Len(TierOrder),
        saw : [Tiers -> Figures]]]

(* "Idempotent — persistAlert dedupes on unacknowledged matching kind +     *)
(* tier" (the route): so it does, except for evaluations that were at work  *)
(* at the same time.                                                        *)
DoublesOverlapped ==
  \A t \in Tiers : \A x, y \in OpenFor(t) : x = y \/ {x[1], y[1]} \in met

(* An evaluation that leaves a tier whose margin it saw drift, without an   *)
(* error, leaves an alert an admin has not acknowledged before it began.    *)
DriftIsNeverSilent ==
  [][ \A e \in Evaluations :
        Saw(e) # "none" /\ (WriteAlert(e) \/ (LookUp(e) /\ evaluation'[e].stage # "writing")) =>
          \E x \in AlertIds :
            x[2] = TierOf(e) /\ alert'[x].state # "none" /\ x \notin ackedBefore[e] ]_alertVars
=============================================================================
