------------------------ MODULE EmployeeNotifications ------------------------
(***************************************************************************)
(* Notifications to a tenant's employees: the listener of                  *)
(* `webhook.processed' with its duplicate filter, processEvent, which      *)
(* turns the rules of the event into rows and jobs, the processor of the   *)
(* queue, which sends a row on its channel and records what became of it,  *)
(* and the employees who read the rows.  All deliveries are of one event   *)
(* of one order, so they share one key of `recentEvents'.                  *)
(***************************************************************************)
EXTENDS Naturals, FiniteSets

CONSTANTS
    Deliveries,     \* times `webhook.processed' is emitted for the event
    Rules,          \* rules of the event
    Targets,        \* an employee on a channel
    RuleOf,         \* the rule each belongs to
    Kind,           \* what each is
    NotifyWindow,   \* DEDUP_WINDOW_MS, in ticks
    Attempts,       \* attempts of a job
    MaxSlips,       \* bound: failed statements, deaths of the process and
                    \* sends that fail after the message went out
    MaxReads        \* bound: requests of employees and of the tenant

(* "unreachable" is a target that canSendToChannel turns down; "short" one   *)
(* it lets through with a phone of fewer than five characters, which the    *)
(* processor turns down.                                                    *)
Kinds == {"dashboard", "external", "short", "unreachable"}

ASSUME NotificationsAssumption ==
    /\ RuleOf \in [Targets -> Rules] /\ Kind \in [Targets -> Kinds]
    /\ NotifyWindow \in Nat \ {0} /\ Attempts \in Nat \ {0}
    /\ MaxSlips \in Nat /\ MaxReads \in Nat

VARIABLES
    enabled,      \* the rules with isActive
    recentEvents, \* age of the key, or NotSeen
    npc,          \* where each delivery is
    rulesLeft,    \* rules found and not yet processed
    rule,         \* the rule being processed: none, or one
    toNotify,     \* its targets not yet notified
    row,          \* status of each row, or "absent"
    job,          \* where the job of each row is
    tries,        \* attempts of the job that failed
    stalled       \* rows whose job has been found stalled, which BullMQ
                  \* allows once

VARIABLES         \* observation only
    texted,       \* messages that went out for each row
    unheard,      \* those of them whose send threw all the same
    orphan,       \* rows whose job was never queued
    marred,       \* rows whose job lost a statement or its process
    slips, reads

notifyVars == <<enabled, recentEvents, npc, rulesLeft, rule, toNotify, row, job, tries,
                stalled, texted, unheard, orphan, marred, slips, reads>>

NotSeen == NotifyWindow
Notes == Deliveries \X Targets
Statuses == {"absent", "PENDING", "DELIVERED", "SENT", "FAILED", "READ"}
Jobs == {"none", "waiting", "sending", "sent", "failing", "over"}

NotificationsTypeOK ==
    /\ enabled \subseteq Rules /\ recentEvents \in 0..NotSeen
    /\ npc \in [Deliveries -> {"new", "find", "rule", "create", "queue", "done"}]
    /\ rulesLeft \in [Deliveries -> SUBSET Rules]
    /\ rule \in [Deliveries -> SUBSET Rules]
    /\ toNotify \in [Deliveries -> SUBSET Targets]
    /\ row \in [Notes -> Statuses] /\ job \in [Notes -> Jobs]
    /\ tries \in [Notes -> 0..Attempts] /\ texted \in [Notes -> 0..(Attempts + 1)]
    /\ unheard \in [Notes -> 0..(Attempts + 1)]
    /\ stalled \subseteq Notes
    /\ orphan \subseteq Notes /\ marred \subseteq Notes
    /\ slips \in 0..MaxSlips /\ reads \in 0..MaxReads

NotificationsInit ==
    /\ enabled \in SUBSET Rules /\ recentEvents = NotSeen
    /\ npc = [d \in Deliveries |-> "new"]
    /\ rulesLeft = [d \in Deliveries |-> {}] /\ rule = [d \in Deliveries |-> {}]
    /\ toNotify = [d \in Deliveries |-> {}]
    /\ row = [n \in Notes |-> "absent"] /\ job = [n \in Notes |-> "none"]
    /\ tries = [n \in Notes |-> 0] /\ stalled = {}
    /\ texted = [n \in Notes |-> 0] /\ unheard = [n \in Notes |-> 0]
    /\ orphan = {} /\ marred = {} /\ slips = 0 /\ reads = 0

Slip == slips < MaxSlips /\ slips' = slips + 1
Step(d, pc) == npc' = [npc EXCEPT ![d] = pc]
rowsAndJobs == <<row, job, tries, stalled, texted, unheard, orphan, marred>>

-----------------------------------------------------------------------------
(* handleWebhookProcessed: the key is tested and set at once, and outlives  *)
(* whatever becomes of the event.                                           *)
HandleWebhookProcessed(d) ==
    /\ npc[d] = "new"
    /\ IF recentEvents < NotifyWindow
         THEN Step(d, "done") /\ UNCHANGED recentEvents
         ELSE Step(d, "find") /\ recentEvents' = 0
    /\ UNCHANGED <<enabled, rulesLeft, rule, toNotify, rowsAndJobs, slips, reads>>

(* processEvent: the active rules; an error here ends it. *)
FindRules(d) ==
    /\ npc[d] = "find"
    /\ \/ /\ rulesLeft' = [rulesLeft EXCEPT ![d] = enabled]
          /\ Step(d, "rule") /\ UNCHANGED slips
       \/ Step(d, "done") /\ Slip /\ UNCHANGED rulesLeft
    /\ UNCHANGED <<enabled, recentEvents, rule, toNotify, rowsAndJobs, reads>>

(* canSendToChannel *)
CanSendToChannel(t) == Kind[t] # "unreachable"
Recipients(r) == {t \in Targets : RuleOf[t] = r /\ CanSendToChannel(t)}

(* The conditions, the recipients and the data of one rule; a rule whose    *)
(* conditions do not hold is left out, and so is one whose lookups fail.    *)
BeginRule(d) ==
    /\ npc[d] = "rule"
    /\ \E r \in rulesLeft[d] :
         /\ rulesLeft' = [rulesLeft EXCEPT ![d] = @ \ {r}]
         /\ \/ /\ rule' = [rule EXCEPT ![d] = {r}]
               /\ toNotify' = [toNotify EXCEPT ![d] = Recipients(r)]
               /\ Step(d, "create")
            \/ UNCHANGED <<rule, toNotify, npc>>
    /\ UNCHANGED <<enabled, recentEvents, rowsAndJobs, slips, reads>>

EndEvent(d) ==
    /\ npc[d] = "rule" /\ rulesLeft[d] = {}
    /\ Step(d, "done")
    /\ UNCHANGED <<enabled, recentEvents, rulesLeft, rule, toNotify, rowsAndJobs, slips,
                   reads>>

(* An error ends the rule, whatever it has left to notify. *)
AbandonRule(d) ==
    /\ Slip
    /\ rule' = [rule EXCEPT ![d] = {}] /\ toNotify' = [toNotify EXCEPT ![d] = {}]
    /\ Step(d, "rule")

CreateNotification(d) ==
    /\ npc[d] = "create" /\ toNotify[d] # {}
    /\ \/ \E t \in toNotify[d] :
            /\ row' = [row EXCEPT ![<<d, t>>] =
                         IF Kind[t] = "dashboard" THEN "DELIVERED" ELSE "PENDING"]
            /\ Step(d, "queue")
            /\ UNCHANGED <<rule, toNotify, slips>>
       \/ AbandonRule(d) /\ UNCHANGED row
    /\ UNCHANGED <<enabled, recentEvents, rulesLeft, job, tries, stalled, texted, unheard,
                   orphan, marred, reads>>

Unqueued(d) == {t \in toNotify[d] : row[<<d, t>>] # "absent"}

QueueNotification(d) ==
    /\ npc[d] = "queue"
    /\ \E t \in Unqueued(d) :
         \/ /\ job' = [job EXCEPT ![<<d, t>>] = "waiting"]
            /\ toNotify' = [toNotify EXCEPT ![d] = @ \ {t}]
            /\ Step(d, "create")
            /\ UNCHANGED <<rule, orphan, slips>>
         \/ /\ AbandonRule(d)
            /\ orphan' = orphan \union {<<d, t>>}
            /\ UNCHANGED job
    /\ UNCHANGED <<enabled, recentEvents, rulesLeft, row, tries, stalled, texted, unheard,
                   marred, reads>>

(* The rule's statistics, which count whom the rule skipped as well, or the *)
(* failure to write them.                                                   *)
CountRule(d) ==
    /\ npc[d] = "create" /\ toNotify[d] = {}
    /\ rule' = [rule EXCEPT ![d] = {}]
    /\ Step(d, "rule")
    /\ UNCHANGED <<enabled, recentEvents, rulesLeft, toNotify, rowsAndJobs, slips, reads>>

-----------------------------------------------------------------------------
(* The processor of the queue. *)

BeginSend(n) ==
    /\ job[n] = "waiting"
    /\ job' = [job EXCEPT ![n] = "sending"]
    /\ UNCHANGED <<enabled, recentEvents, npc, rulesLeft, rule, toNotify, row, tries,
                   stalled, texted, unheard, orphan, marred, slips, reads>>

(* Mutant: a refusal of the mailer is taken for a message sent. *)
SendSwallows(n) ==
    /\ job[n] = "sending"
    /\ job' = [job EXCEPT ![n] = "sent"]
    /\ \/ texted' = [texted EXCEPT ![n] = @ + 1] \/ UNCHANGED texted
    /\ UNCHANGED <<enabled, recentEvents, npc, rulesLeft, rule, toNotify, row, tries,
                   stalled, unheard, orphan, marred, slips, reads>>

(* The mailer or WhatsApp takes the message or not, and answers or throws:  *)
(* a lost answer, or one without a messageId, is an error although the      *)
(* message went out.                                                        *)
SendExternal(n) ==
    /\ Kind[n[2]] = "external"
    /\ \/ /\ texted' = [texted EXCEPT ![n] = @ + 1]
          /\ job' = [job EXCEPT ![n] = "sent"] /\ UNCHANGED <<unheard, slips>>
       \/ job' = [job EXCEPT ![n] = "failing"] /\ UNCHANGED <<texted, unheard, slips>>
       \/ /\ Slip
          /\ texted' = [texted EXCEPT ![n] = @ + 1]
          /\ unheard' = [unheard EXCEPT ![n] = @ + 1]
          /\ job' = [job EXCEPT ![n] = "failing"]
    /\ UNCHANGED <<row, marred>>

(* A phone that is too short is recorded as a failure, and the job goes on  *)
(* as if it had sent, unless the statement fails.                           *)
RefuseShortPhone(n) ==
    /\ Kind[n[2]] = "short"
    /\ \/ /\ row' = [row EXCEPT ![n] = "FAILED"]
          /\ job' = [job EXCEPT ![n] = "sent"] /\ UNCHANGED <<marred, slips>>
       \/ /\ Slip
          /\ marred' = marred \union {n}
          /\ job' = [job EXCEPT ![n] = "failing"] /\ UNCHANGED row
    /\ UNCHANGED <<texted, unheard>>

Send(n) ==
    /\ job[n] = "sending"
    /\ \/ SendExternal(n)
       \/ RefuseShortPhone(n)
       \/ /\ Kind[n[2]] = "dashboard"
          /\ job' = [job EXCEPT ![n] = "over"]
          /\ UNCHANGED <<texted, unheard, row, marred, slips>>
    /\ UNCHANGED <<enabled, recentEvents, npc, rulesLeft, rule, toNotify, tries, stalled,
                   orphan, reads>>

(* updateNotificationStatus(SENT), over whatever the row says; if it fails, *)
(* the job is taken for one that did not send.                              *)
RecordSent(n) ==
    /\ job[n] = "sent"
    /\ \/ /\ row' = [row EXCEPT ![n] = "SENT"]
          /\ job' = [job EXCEPT ![n] = "over"]
          /\ UNCHANGED <<marred, slips>>
       \/ /\ Slip
          /\ marred' = marred \union {n}
          /\ job' = [job EXCEPT ![n] = "failing"]
          /\ UNCHANGED row
    /\ UNCHANGED <<enabled, recentEvents, npc, rulesLeft, rule, toNotify, tries, stalled,
                   texted, unheard, orphan, reads>>

(* Mutant: no error is thrown, so that the queue does not try again, and    *)
(* the row keeps its status.                                                *)
RecordFailedQuietly(n) ==
    /\ job[n] = "failing"
    /\ job' = [job EXCEPT ![n] = "over"]
    /\ UNCHANGED <<enabled, recentEvents, npc, rulesLeft, rule, toNotify, row, tries,
                   stalled, texted, unheard, orphan, marred, slips, reads>>

(* updateNotificationStatus(FAILED), which may fail too; then the error is  *)
(* thrown and the queue tries again while attempts are left.                *)
RecordFailed(n) ==
    /\ job[n] = "failing"
    /\ \/ row' = [row EXCEPT ![n] = "FAILED"] /\ UNCHANGED <<marred, slips>>
       \/ Slip /\ marred' = marred \union {n} /\ UNCHANGED row
    /\ tries' = [tries EXCEPT ![n] = @ + 1]
    /\ job' = [job EXCEPT ![n] = IF tries'[n] < Attempts THEN "waiting" ELSE "over"]
    /\ UNCHANGED <<enabled, recentEvents, npc, rulesLeft, rule, toNotify, stalled, texted,
                   unheard, orphan, reads>>

-----------------------------------------------------------------------------
(* markAsRead and markAllAsRead write READ over any status. *)
MarkAsRead(n) ==
    /\ row[n] # "absent" /\ reads < MaxReads
    /\ reads' = reads + 1
    /\ row' = [row EXCEPT ![n] = "READ"]
    /\ UNCHANGED <<enabled, recentEvents, npc, rulesLeft, rule, toNotify, job, tries,
                   stalled, texted, unheard, orphan, marred, slips>>

(* createRule, updateRule, deleteRule and toggleRule *)
EditRule(r) ==
    /\ reads < MaxReads /\ reads' = reads + 1
    /\ enabled' = IF r \in enabled THEN enabled \ {r} ELSE enabled \union {r}
    /\ UNCHANGED <<recentEvents, npc, rulesLeft, rule, toNotify, rowsAndJobs, slips>>

NotifyTick ==
    /\ recentEvents < NotSeen /\ recentEvents' = recentEvents + 1
    /\ UNCHANGED <<enabled, npc, rulesLeft, rule, toNotify, rowsAndJobs, slips, reads>>

(* The process dies: events under way are dropped with the key; the jobs    *)
(* under way begin anew once, and are given up the second time.             *)
NotifyCrash ==
    /\ Slip
    /\ recentEvents' = NotSeen
    /\ npc' = [d \in Deliveries |-> IF npc[d] = "new" THEN "new" ELSE "done"]
    /\ orphan' = orphan \union {n \in Notes : /\ npc[n[1]] = "queue"
                                              /\ n[2] \in Unqueued(n[1])}
    /\ rulesLeft' = [d \in Deliveries |-> {}] /\ rule' = [d \in Deliveries |-> {}]
    /\ toNotify' = [d \in Deliveries |-> {}]
    /\ LET hit == {n \in Notes : job[n] \in {"sending", "sent", "failing"}}
       IN /\ marred' = marred \union hit /\ stalled' = stalled \union hit
          /\ job' = [n \in Notes |-> IF n \notin hit THEN job[n]
                                     ELSE IF n \in stalled THEN "over"
                                     ELSE "waiting"]
    /\ UNCHANGED <<enabled, row, tries, texted, unheard, reads>>

Notify(d) == \/ HandleWebhookProcessed(d) \/ FindRules(d) \/ BeginRule(d) \/ EndEvent(d)
             \/ CreateNotification(d) \/ QueueNotification(d) \/ CountRule(d)
Work(n) == BeginSend(n) \/ Send(n) \/ RecordSent(n) \/ RecordFailed(n)

NotificationsNext ==
    \/ \E d \in Deliveries : Notify(d)
    \/ \E n \in Notes : Work(n) \/ MarkAsRead(n)
    \/ \E r \in Rules : EditRule(r)
    \/ NotifyTick \/ NotifyCrash

NotificationsSpec == NotificationsInit /\ [][NotificationsNext]_notifyVars

-----------------------------------------------------------------------------
(* What the row says at the end of its job is what the process could know:  *)
(* SENT stands for one confirmed message, FAILED for none, and never for a  *)
(* second confirmed one; the copies of one message are no more than its     *)
(* attempts.  A send that threw may have reached the employee (process,     *)
(* notification.processor.ts:94-112; sendTextMessage,                       *)
(* whatsapp-baileys.service.ts:615-624): then a FAILED row may cover a      *)
(* message that went out, and the retry repeats it.  A lost statement or    *)
(* process excuses the row; a phone that is too short is the other          *)
(* exception: its FAILED is overwritten with SENT (line 89).                *)
RowTellsTruth ==
    \A n \in Notes : job[n] = "over" /\ n \notin marred
      => LET confirmed == texted[n] - unheard[n]
         IN /\ row[n] = "SENT" => confirmed = 1 \/ Kind[n[2]] = "short"
            /\ row[n] = "FAILED" => confirmed = 0
            /\ row[n] \notin {"PENDING", "absent"}
            /\ confirmed <= 1 /\ texted[n] <= Attempts

(* Every notification that was created leaves PENDING, unless its job was   *)
(* never queued or lost a statement (processEvent, createNotification).     *)
NotificationsSettle ==
    \A n \in Notes : row[n] = "PENDING"
                      ~> row[n] # "PENDING" \/ n \in orphan \union marred
=============================================================================
