---------------------------- MODULE Automations ----------------------------
(***************************************************************************)
(* One automation of a merchant: the events that set it off, the run of    *)
(* its actions, and the merchant's requests to edit it, switch it on or    *)
(* off, or delete it.  A run and a request each load the row and save all  *)
(* of their copy later: TypeORM writes every column in which the copy      *)
(* differs from the row, and inserts the row again when it is gone.  Of    *)
(* the row only what decides about runs is kept; its texts and statistics  *)
(* are left out.                                                           *)
(***************************************************************************)
EXTENDS Naturals

CONSTANTS
    Hands,         \* calls of the handlers: events and requests
    ActionCount,   \* actions of the automation
    MaxBlunders    \* bound: failed statements and dead processes

ASSUME AutomationsAssumption == ActionCount \in Nat /\ MaxBlunders \in Nat

VARIABLES
    automation,  \* the row
    stage,       \* where each call is
    errand,      \* what it does
    draft,       \* its copy of the row
    actionsLeft  \* actions its run has left

VARIABLES        \* observation only
    delivered,   \* messages of each run
    offs,        \* times the row went off
    knows,       \* how many of them the copy of each call is younger than
    blunders

automationVars == <<automation, stage, errand, draft, actionsLeft, delivered, offs,
                    knows, blunders>>

Errands == {"none", "execute", "update", "activate", "deactivate", "delete"}
Stages == {"idle", "found", "act", "failed", "save", "over"}
AutomationRow == [there : BOOLEAN, enabled : BOOLEAN]

AutomationsTypeOK ==
    /\ automation \in AutomationRow /\ draft \in [Hands -> AutomationRow]
    /\ stage \in [Hands -> Stages] /\ errand \in [Hands -> Errands]
    /\ actionsLeft \in [Hands -> 0..ActionCount]
    /\ delivered \in [Hands -> 0..ActionCount]
    /\ offs \in Nat /\ knows \in [Hands -> Nat] /\ blunders \in 0..MaxBlunders

(* create: a new automation is a draft that is not enabled. *)
NewAutomation == [there |-> TRUE, enabled |-> FALSE]

AutomationsInit ==
    /\ automation = NewAutomation
    /\ stage = [h \in Hands |-> "idle"] /\ errand = [h \in Hands |-> "none"]
    /\ draft = [h \in Hands |-> NewAutomation] /\ actionsLeft = [h \in Hands |-> 0]
    /\ delivered = [h \in Hands |-> 0] /\ offs = 0
    /\ knows = [h \in Hands |-> 0] /\ blunders = 0

Blunder == blunders < MaxBlunders /\ blunders' = blunders + 1
AtWork == {h \in Hands : stage[h] \notin {"idle", "over"}}
Goes(h, s) == stage' = [stage EXCEPT ![h] = s]
On(row) == row.there /\ row.enabled

Becomes(row) ==
    /\ automation' = row
    /\ offs' = IF On(automation) /\ ~On(row) THEN offs + 1 ELSE offs

(* repository.save: the whole copy, inserted again if the row is gone. *)
Save(copy) == Becomes([copy EXCEPT !.there = TRUE])
Unsaved == UNCHANGED <<automation, offs>>

TakesCopy(h) ==
    /\ draft' = [draft EXCEPT ![h] = automation]
    /\ knows' = [knows EXCEPT ![h] = offs]

-----------------------------------------------------------------------------
(* triggerAutomations: an event finds the automations that are enabled, and *)
(* starts executeAutomation for each, without waiting for any.              *)
TriggerAutomations(h) ==
    /\ stage[h] = "idle" /\ On(automation)
    /\ errand' = [errand EXCEPT ![h] = "execute"]
    /\ Goes(h, "found")
    /\ UNCHANGED <<automation, draft, actionsLeft, delivered, offs, knows, blunders>>

(* Mutant: the row that was found is not loaded again, so nobody looks      *)
(* whether it is still enabled.                                             *)
BeginsAnyway(row) == row.there

(* executeAutomation loads the row by its id, and wants it enabled. *)
Begins(row) == On(row)

LoadAutomation(h) ==
    /\ stage[h] = "found"
    /\ IF Begins(automation)
         THEN /\ TakesCopy(h) /\ Goes(h, "act")
              /\ actionsLeft' = [actionsLeft EXCEPT ![h] = ActionCount]
         ELSE Goes(h, "over") /\ UNCHANGED <<draft, knows, actionsLeft>>
    /\ UNCHANGED <<automation, errand, delivered, offs, blunders>>

(* executeAction: the message goes out; or there is no phone, text or       *)
(* channel, the action is an event nobody hears, or the channel refuses,    *)
(* which the loop over the actions catches.                                 *)
ExecuteAction(h) ==
    /\ stage[h] = "act" /\ actionsLeft[h] > 0
    /\ actionsLeft' = [actionsLeft EXCEPT ![h] = @ - 1]
    /\ delivered' \in {delivered, [delivered EXCEPT ![h] = @ + 1]}
    /\ UNCHANGED <<automation, stage, errand, draft, offs, knows, blunders>>

(* The statistics of the run are saved with the rest of the copy; a save    *)
(* that fails is counted as a failed run, and tried once more.              *)
SaveRun(h) ==
    /\ \/ stage[h] = "act" /\ actionsLeft[h] = 0
       \/ stage[h] = "failed"
    /\ \/ Save(draft[h]) /\ Goes(h, "over") /\ UNCHANGED blunders
       \/ Unsaved /\ Blunder /\ Goes(h, IF stage[h] = "act" THEN "failed" ELSE "over")
    /\ UNCHANGED <<errand, draft, actionsLeft, delivered, knows>>

-----------------------------------------------------------------------------
(* findById, for the merchant's request. *)
Request(h, k) ==
    /\ stage[h] = "idle" /\ automation.there
    /\ errand' = [errand EXCEPT ![h] = k]
    /\ TakesCopy(h)
    /\ Goes(h, "save")
    /\ UNCHANGED <<automation, actionsLeft, delivered, offs, blunders>>

(* The request's answer to the row: update keeps what it loaded of it. *)
Update(h) == errand[h] = "update" /\ Save(draft[h])
Activate(h) == errand[h] = "activate" /\ Save([draft[h] EXCEPT !.enabled = TRUE])
Deactivate(h) == errand[h] = "deactivate" /\ Save([draft[h] EXCEPT !.enabled = FALSE])
(* repository.remove deletes the row. *)
Delete(h) == errand[h] = "delete" /\ Becomes([automation EXCEPT !.there = FALSE])

Respond(h) ==
    /\ stage[h] = "save"
    /\ \/ /\ Update(h) \/ Activate(h) \/ Deactivate(h) \/ Delete(h)
          /\ UNCHANGED blunders
       \/ Unsaved /\ Blunder
    /\ Goes(h, "over")
    /\ UNCHANGED <<errand, draft, actionsLeft, delivered, knows>>

(* The process dies: runs and requests are only in its memory. *)
AutomationCrash ==
    /\ Blunder /\ AtWork # {}
    /\ stage' = [h \in Hands |-> IF h \in AtWork THEN "over" ELSE stage[h]]
    /\ UNCHANGED <<automation, errand, draft, actionsLeft, delivered, offs, knows>>

AutomationsNext ==
    \/ \E h \in Hands :
         \/ TriggerAutomations(h) \/ LoadAutomation(h) \/ ExecuteAction(h) \/ SaveRun(h)
         \/ \E k \in {"update", "activate", "deactivate", "delete"} : Request(h, k)
         \/ Respond(h)
    \/ AutomationCrash

AutomationsSpec == AutomationsInit /\ [][AutomationsNext]_automationVars

-----------------------------------------------------------------------------
(* An automation that was switched off or deleted comes on again, and sends *)
(* another message, only by an activation or by a call that loaded the row  *)
(* before it went off (executeAutomation, automations.service.ts:318, and   *)
(* the whole-row saves of lines 362 and 172).                               *)
OffMeansOff ==
    [][~On(automation)
         => /\ On(automation')
                 => \E h \in AtWork : errand[h] = "activate" \/ knows[h] < offs
            /\ \A h \in Hands : delivered'[h] > delivered[h] => knows[h] < offs
      ]_automationVars
=============================================================================
