------------------------- MODULE TemplateScheduler -------------------------
(***************************************************************************)
(* Delayed template messages: the `scheduled_template_sends' rows, the     *)
(* calls that schedule one, the order events that cancel them, the BullMQ  *)
(* queue with one delayed job per row, and the workers that send.          *)
(*                                                                         *)
(* Every database statement and every queue call is a step of its own,     *)
(* because each `await' lets the other calls and workers run.              *)
(***************************************************************************)
EXTENDS Naturals, FiniteSets, FiniteSetsExt

CONSTANTS
    Ids,            \* ids of the rows that can be created
    Schedulers,     \* scheduleDelayedSend calls that can be in progress
    Cancellers,     \* event listeners that can be in progress
    Workers,        \* slots of the processor (concurrency: 5 in the code)
    Templates,
    Targets,        \* what is asked for: [template, customer, ref]
    Events,         \* order events: [kind, customer, form, ref]
    NoRef,          \* the trigger carried no order or cart id
    NoCustomer,     \* the event carried no phone
    CartTemplates,  \* templates of the sequence group `cart_abandoned'
    CancelOn,       \* sendSettings.cancelOnEvents: kind -> set of templates
    Limit,          \* maxSendsPerCustomer.count of a template, 0 when unset
    Drafts,         \* templates the merchant has left in status draft
    Prompt,         \* scheduleDelayedSend returns before the delay elapses
    MaxAttempts,    \* `attempts' of the job
    MaxStalls,      \* BullMQ maxStalledCount
    MaxRequests,    \* bound: calls of scheduleDelayedSend
    MaxEvents,      \* bound: order events
    MaxEdits,       \* bound: template edits and channel disconnections
    MaxFaults       \* bound: crashes, queue and database errors, lost answers

Kinds == {"created", "paid", "cancelled", "delivered", "refunded"}

ASSUME SchedulerAssumption ==
    /\ Ids \subseteq Nat \ {0} /\ IsFiniteSet(Ids)
    /\ Targets # {} /\ Events # {}
    /\ \A t \in Targets : t.template \in Templates
    /\ \A e \in Events : e.kind \in Kinds
    /\ CartTemplates \subseteq Templates /\ Drafts \subseteq Templates
    /\ CancelOn \in [Kinds -> SUBSET Templates]
    /\ Limit \in [Templates -> Nat]
    /\ Prompt \in BOOLEAN
    /\ MaxAttempts \in Nat \ {0} /\ MaxStalls \in Nat
    /\ MaxRequests \in Nat /\ MaxEvents \in Nat
    /\ MaxEdits \in Nat /\ MaxFaults \in Nat

VARIABLES
    row,        \* the rows: status, bullJobId is set (linked), errorMessage
    target,     \* the template, customer and reference of a row
    job,        \* state of the job sched-<id> in Redis
    failures,   \* attempts of that job that threw
    stalls,     \* times that job was found stalled
    spc,        \* where each scheduling call is
    asked,      \* what it was asked for
    sid,        \* the row it has inserted
    cpc,        \* where each listener is
    batch,      \* its event, its stage, and the rows it has loaded
    wpc,        \* where each worker is
    wjob,       \* the row whose job a worker holds
    threw,      \* the worker's attempt ends by throwing
    template,   \* status of each template
    connected   \* the store has a connected WhatsApp channel

(* Observation only: no action reads these except to respect a bound. *)
VARIABLES
    used,       \* how much of each bound is spent
    sends,      \* messages sent for each row
    excuses,    \* faults and late writes that hide a send from the row's status
    stopped,    \* rows cancelled while nothing of theirs was in progress
    overtaken,  \* calls after whose duplicate check a like row was inserted
    repeatable, \* rows whose reminder the code may give again, see OneReminder
    orphaned    \* rows that lost their job to a fault, see PendingHasJob

schedVars  == <<spc, asked, sid>>
cancelVars == <<cpc, batch>>
workerVars == <<wpc, wjob, threw>>
queueVars  == <<job, failures, stalls>>
envVars    == <<template, connected>>
sendVars   == <<sends, excuses>>
noteVars   == <<stopped, overtaken, repeatable, orphaned>>
vars == <<row, target, queueVars, schedVars, cancelVars, workerVars, envVars,
          used, sendVars, noteVars>>

RowStatus == {"none", "pending", "sent", "cancelled", "failed"}
RowError  == {"none", "missing", "disabled", "nochannel", "exception"}
Row       == [status : RowStatus, linked : BOOLEAN, error : RowError]
NoRow     == [status |-> "none", linked |-> FALSE, error |-> "none"]
NewRow    == [NoRow EXCEPT !.status = "pending"]

JobState       == {"none", "queued", "active", "completed", "failed", "removed"}
TemplateStatus == {"draft", "active", "disabled", "deleted"}
Dispatched     == {"draft", "active"}    \* ACTIVE_STATUSES of the dispatcher

NoId     == 0
NoTarget == CHOOSE t \in Targets : TRUE
Batch    == [event : Events, dynamic : BOOLEAN, among : SUBSET Templates,
             found : SUBSET Ids, links : SUBSET Ids, todo : SUBSET Ids]
NewBatch(e, d) == [event |-> e, dynamic |-> d, among |-> {},
                   found |-> {}, links |-> {}, todo |-> {}]
NoBatch  == NewBatch(CHOOSE e \in Events : TRUE, FALSE)

SchedulerPc == {"idle", "limit", "insert", "add", "link"}
CancellerPc == {"idle", "templates", "find", "remove"}
WorkerPc    == {"idle", "load", "template", "channel", "send", "sent",
                "missing", "disabled", "nochannel", "exception", "finish"}
PastCheck   == {"template", "channel", "send", "sent"}   \* of the row's status

TypeOK ==
    /\ row \in [Ids -> Row]
    /\ target \in [Ids -> Targets]
    /\ job \in [Ids -> JobState]
    /\ failures \in [Ids -> Nat] /\ stalls \in [Ids -> Nat]
    /\ spc \in [Schedulers -> SchedulerPc]
    /\ asked \in [Schedulers -> Targets]
    /\ sid \in [Schedulers -> Ids \union {NoId}]
    /\ cpc \in [Cancellers -> CancellerPc]
    /\ batch \in [Cancellers -> Batch]
    /\ wpc \in [Workers -> WorkerPc]
    /\ wjob \in [Workers -> Ids \union {NoId}]
    /\ threw \in [Workers -> BOOLEAN]
    /\ template \in [Templates -> TemplateStatus]
    /\ connected \in BOOLEAN
    /\ used \in [requests : Nat, events : Nat, edits : Nat, faults : Nat]
    /\ sends \in [Ids -> Nat] /\ excuses \in [Ids -> Nat]
    /\ stopped \subseteq Ids /\ overtaken \subseteq Schedulers
    /\ repeatable \subseteq Ids /\ orphaned \subseteq Ids

-----------------------------------------------------------------------------
Init ==
    /\ row = [i \in Ids |-> NoRow]
    /\ target = [i \in Ids |-> NoTarget]
    /\ job = [i \in Ids |-> "none"]
    /\ failures = [i \in Ids |-> 0] /\ stalls = [i \in Ids |-> 0]
    /\ spc = [p \in Schedulers |-> "idle"]
    /\ asked = [p \in Schedulers |-> NoTarget]
    /\ sid = [p \in Schedulers |-> NoId]
    /\ cpc = [c \in Cancellers |-> "idle"]
    /\ batch = [c \in Cancellers |-> NoBatch]
    /\ wpc = [w \in Workers |-> "idle"]
    /\ wjob = [w \in Workers |-> NoId]
    /\ threw = [w \in Workers |-> FALSE]
    /\ template = [t \in Templates |-> IF t \in Drafts THEN "draft" ELSE "active"]
    /\ connected = TRUE
    /\ used = [requests |-> 0, events |-> 0, edits |-> 0, faults |-> 0]
    /\ sends = [i \in Ids |-> 0] /\ excuses = [i \in Ids |-> 0]
    /\ stopped = {} /\ overtaken = {} /\ repeatable = {} /\ orphaned = {}

Spend(kind, limit) ==
    /\ used[kind] < limit
    /\ used' = [used EXCEPT ![kind] = @ + 1]
Fault == Spend("faults", MaxFaults)

-----------------------------------------------------------------------------
(* scheduleDelayedSend, called by the template dispatcher *)

SameCustomer(i, t) == /\ target[i].template = t.template
                      /\ target[i].customer = t.customer

\* Mutant of IsDuplicate: only rows still pending count.
IsDuplicatePendingOnly(t) ==
    \E i \in Ids : /\ row[i].status = "pending"
                   /\ SameCustomer(i, t)
                   /\ t.ref = NoRef \/ target[i].ref = t.ref
IsDuplicate(t) ==
    \E i \in Ids : /\ row[i].status \in {"pending", "sent"}
                   /\ SameCustomer(i, t)
                   /\ t.ref = NoRef \/ target[i].ref = t.ref

\* Every send of the model is recent: periodDays never elapses.
IsOverSendLimit(t) ==
    Cardinality({i \in Ids : row[i].status = "sent" /\ SameCustomer(i, t)})
        >= Limit[t.template]

\* The dispatcher has found the template among those it treats as enabled; a
\* call whose duplicate check finds a row changes nothing.
Schedule(p, t) ==
    /\ spc[p] = "idle"
    /\ template[t.template] \in Dispatched
    /\ Spend("requests", MaxRequests)
    /\ ~IsDuplicate(t)
    /\ spc' = [spc EXCEPT ![p] = IF Limit[t.template] > 0 THEN "limit" ELSE "insert"]
    /\ asked' = [asked EXCEPT ![p] = t]
    /\ overtaken' = overtaken \ {p}
    /\ UNCHANGED <<row, target, queueVars, sid, cancelVars, workerVars, envVars,
                   sendVars, stopped, repeatable, orphaned>>

CheckLimit(p) ==
    /\ spc[p] = "limit"
    /\ spc' = [spc EXCEPT ![p] = IF IsOverSendLimit(asked[p]) THEN "idle" ELSE "insert"]
    /\ UNCHANGED <<row, target, queueVars, asked, sid, cancelVars, workerVars,
                   envVars, used, sendVars, noteVars>>

\* The calls that have checked for what p is about to insert.
Rivals(p) == {q \in Schedulers \ {p} : /\ spc[q] \in {"limit", "insert"}
                                       /\ asked[q] = asked[p]}

Insert(p) ==
    /\ spc[p] = "insert"
    /\ \E i \in Ids :
         /\ row[i].status = "none"
         /\ \A k \in Ids : k < i => row[k].status # "none"
         /\ row' = [row EXCEPT ![i] = NewRow]
         /\ target' = [target EXCEPT ![i] = asked[p]]
         /\ sid' = [sid EXCEPT ![p] = i]
         /\ repeatable' = repeatable \union IF p \in overtaken THEN {i} ELSE {}
    /\ spc' = [spc EXCEPT ![p] = "add"]
    /\ overtaken' = (overtaken \ {p}) \union Rivals(p)
    /\ UNCHANGED <<queueVars, asked, cancelVars, workerVars, envVars, used,
                   sendVars, stopped, orphaned>>

AddJob(p) ==
    /\ spc[p] = "add"
    /\ job' = [job EXCEPT ![sid[p]] = "queued"]
    /\ spc' = [spc EXCEPT ![p] = "link"]
    /\ UNCHANGED <<row, target, failures, stalls, asked, sid, cancelVars,
                   workerVars, envVars, used, sendVars, noteVars>>

\* Writing pending into row i hides a message that no worker is about to mark.
Hides(i) == /\ row[i].status # "pending" /\ sends[i] > excuses[i]
            /\ \A w \in Workers : wpc[w] = "sent" => wjob[w] # i

\* The entity inserted above is saved again with its bullJobId; whatever its
\* status has become meanwhile, it is written back as pending.
Link(p) ==
    /\ spc[p] = "link"
    /\ row' = [row EXCEPT ![sid[p]] = [status |-> "pending", linked |-> TRUE,
                                       error |-> row[sid[p]].error]]
    /\ excuses' = [excuses EXCEPT ![sid[p]] =
                     IF Hides(sid[p]) THEN @ + 1 ELSE @]
    /\ repeatable' = repeatable \union
                     IF row[sid[p]].status \in {"cancelled", "failed"}
                     THEN {sid[p]} ELSE {}
    /\ orphaned' = orphaned \union IF row[sid[p]].status # "pending"
                                  THEN {sid[p]} ELSE {}
    /\ spc' = [spc EXCEPT ![p] = "idle"]
    /\ sid' = [sid EXCEPT ![p] = NoId]
    /\ UNCHANGED <<target, queueVars, asked, cancelVars, workerVars, envVars,
                   used, sends, stopped, overtaken>>

\* A statement or the queue call throws; the dispatcher logs it and goes on.
ScheduleFails(p) ==
    /\ spc[p] # "idle"
    /\ Fault
    /\ spc' = [spc EXCEPT ![p] = "idle"]
    /\ sid' = [sid EXCEPT ![p] = NoId]
    /\ orphaned' = orphaned \union IF spc[p] = "add" THEN {sid[p]} ELSE {}
    /\ UNCHANGED <<row, target, queueVars, asked, cancelVars, workerVars, envVars,
                   sendVars, stopped, overtaken, repeatable>>

-----------------------------------------------------------------------------
(* The order events that cancel *)

PhoneMatches(e, i) == e.form = "international" /\ target[i].customer = e.customer
RefMatches(e, i)   == e.ref # NoRef /\ target[i].ref = e.ref

HasOwnQuery(e) == e.kind \in {"created", "paid", "cancelled"}

\* order.created cancels the cart sequence of the phone, order.payment.updated
\* and order.cancelled everything for the order.
OwnQuery(e) ==
    {i \in Ids : /\ row[i].status = "pending"
                 /\ IF e.kind = "created"
                      THEN target[i].template \in CartTemplates /\ PhoneMatches(e, i)
                      ELSE RefMatches(e, i)}

\* dynamicCancelByEvent looks for rows of the templates it has found, and narrows
\* by the reference or the phone when it has one.
DynamicQuery(e, among) ==
    {i \in Ids : /\ row[i].status = "pending"
                 /\ target[i].template \in among
                 /\ \/ RefMatches(e, i) \/ PhoneMatches(e, i)
                    \/ e.ref = NoRef /\ e.customer = NoCustomer}

\* An event without the phone or the order id its listener needs is ignored.
Heard(e) == /\ e.kind = "created" => e.customer # NoCustomer
            /\ e.kind \in {"paid", "cancelled"} => e.ref # NoRef

EventArrives(c, e) ==
    /\ cpc[c] = "idle"
    /\ Heard(e)
    /\ Spend("events", MaxEvents)
    /\ cpc' = [cpc EXCEPT ![c] = IF HasOwnQuery(e) THEN "find" ELSE "templates"]
    /\ batch' = [batch EXCEPT ![c] = NewBatch(e, ~HasOwnQuery(e))]
    /\ UNCHANGED <<row, target, queueVars, schedVars, workerVars, envVars,
                   sendVars, noteVars>>

\* After its own query a listener goes on to the dynamic one; then it is done.
EndQuery(c) ==
    /\ cpc' = [cpc EXCEPT ![c] = IF batch[c].dynamic THEN "idle" ELSE "templates"]
    /\ batch' = [batch EXCEPT ![c] = NewBatch(batch[c].event, TRUE)]

\* The templates, not deleted, whose cancelOnEvents names the event.
FindTemplates(c) ==
    LET among == {t \in CancelOn[batch[c].event.kind] : template[t] # "deleted"} IN
    /\ cpc[c] = "templates"
    /\ cpc' = [cpc EXCEPT ![c] = IF among = {} THEN "idle" ELSE "find"]
    /\ batch' = [batch EXCEPT ![c].among = among]
    /\ UNCHANGED <<row, target, queueVars, schedVars, workerVars, envVars, used,
                   sendVars, noteVars>>

FindPending(c) ==
    LET e     == batch[c].event
        found == IF batch[c].dynamic THEN DynamicQuery(e, batch[c].among)
                                     ELSE OwnQuery(e)
        links == {i \in found : row[i].linked}
    IN
    /\ cpc[c] = "find"
    /\ IF found = {}
         THEN EndQuery(c)
         ELSE /\ cpc' = [cpc EXCEPT ![c] = "remove"]
              /\ batch' = [batch EXCEPT ![c].found = found, ![c].links = links,
                                       ![c].todo = links]
    /\ UNCHANGED <<row, target, queueVars, schedVars, workerVars, envVars, used,
                   sendVars, noteVars>>

\* A job that a worker holds is locked and cannot be removed; that error, like
\* any other of the queue, is logged and ignored.
RemoveJob(c) ==
    /\ cpc[c] = "remove"
    /\ \E i \in batch[c].todo :
         /\ batch' = [batch EXCEPT ![c].todo = @ \ {i}]
         /\ \/ /\ job' = IF job[i] = "queued" THEN [job EXCEPT ![i] = "removed"]
                                              ELSE job
               /\ UNCHANGED used
            \/ Fault /\ UNCHANGED job
    /\ UNCHANGED <<row, target, failures, stalls, schedVars, cpc, workerVars,
                   envVars, sendVars, noteVars>>

\* Somebody may still act on row i without reading its status again.
InProgress(i) ==
    \/ \E p \in Schedulers : spc[p] \in {"add", "link"} /\ sid[p] = i
    \/ \E w \in Workers : wpc[w] \in {"template", "channel", "send"} /\ wjob[w] = i

\* The cancellation comes after the status check of a worker that may send, or
\* after the message it has sent: the row it leaves says nothing of it.
ComesLate(i) == \/ row[i].status = "sent"
                \/ \E w \in Workers : wpc[w] \in PastCheck /\ wjob[w] = i

\* Mutant of SaveCancelled: the save is forgotten.
SaveCancelledForgotten(c) ==
    /\ cpc[c] = "remove" /\ batch[c].todo = {}
    /\ EndQuery(c)
    /\ UNCHANGED <<row, target, queueVars, schedVars, workerVars, envVars, used,
                   sendVars, noteVars>>
\* The loaded entities are saved whole, each with its status replaced.
SaveCancelled(c) ==
    /\ cpc[c] = "remove" /\ batch[c].todo = {}
    /\ row' = [i \in Ids |-> IF i \in batch[c].found
                             THEN [status |-> "cancelled", error |-> "none",
                                   linked |-> i \in batch[c].links]
                             ELSE row[i]]
    /\ stopped' = stopped \union {i \in batch[c].found : ~InProgress(i)}
    /\ repeatable' = repeatable \union {i \in batch[c].found : ComesLate(i)}
    /\ EndQuery(c)
    /\ UNCHANGED <<target, queueVars, schedVars, workerVars, envVars, used, sendVars,
                   overtaken, orphaned>>

\* The rows whose jobs a listener has removed and that it has not saved.
Unsaved(c) == IF cpc[c] = "remove" THEN batch[c].links \ batch[c].todo ELSE {}

\* A statement throws: the listener ends, whichever query it was at.
CancelFails(c) ==
    /\ cpc[c] # "idle"
    /\ Fault
    /\ cpc' = [cpc EXCEPT ![c] = "idle"]
    /\ batch' = [batch EXCEPT ![c] = NoBatch]
    /\ orphaned' = orphaned \union Unsaved(c)
    /\ UNCHANGED <<row, target, queueVars, schedVars, workerVars, envVars,
                   sendVars, stopped, overtaken, repeatable>>

-----------------------------------------------------------------------------
(* The processor *)

\* The delay of a queued job has elapsed (the first, or the backoff of a retry).
TakeJob(w) ==
    /\ wpc[w] = "idle"
    /\ \E i \in Ids :
         /\ job[i] = "queued"
         /\ Prompt => \A p \in Schedulers : sid[p] # i
         /\ job' = [job EXCEPT ![i] = "active"]
         /\ wjob' = [wjob EXCEPT ![w] = i]
    /\ wpc' = [wpc EXCEPT ![w] = "load"]
    /\ UNCHANGED <<row, target, failures, stalls, schedVars, cancelVars, threw,
                   envVars, used, sendVars, noteVars>>

\* A worker step that moves the worker and touches no queue, call or setting.
Move(w, from, to) ==
    /\ wpc[w] = from
    /\ wpc' = [wpc EXCEPT ![w] = to]
    /\ UNCHANGED <<target, queueVars, schedVars, cancelVars, wjob, envVars,
                   stopped, overtaken, repeatable>>
Step(w, from, to) == Move(w, from, to) /\ UNCHANGED orphaned

\* Mutants of Skips: only cancelled rows, only settled rows are skipped.
SkipsCancelledOnly(i) == row[i].status = "cancelled"
SkipsSettledOnly(i) == row[i].status \in {"sent", "failed"}
Skips(i) == row[i].status # "pending"

LoadSkips(w) ==
    /\ Step(w, "load", "finish")
    /\ Skips(wjob[w])
    /\ UNCHANGED <<row, threw, used, sendVars>>

LoadPasses(w) ==
    /\ Step(w, "load", "template")
    /\ ~Skips(wjob[w])
    /\ UNCHANGED <<row, threw, used, sendVars>>

FindTemplate(w) ==
    LET s == template[target[wjob[w]].template] IN
    /\ Step(w, "template", CASE s = "deleted" -> "missing"
                             [] s = "active"  -> "channel"
                             [] OTHER         -> "disabled")
    /\ UNCHANGED <<row, threw, used, sendVars>>

FindChannel(w) ==
    /\ Step(w, "channel", IF connected THEN "send" ELSE "nochannel")
    /\ UNCHANGED <<row, threw, used, sendVars>>

Deliver(w) == sends' = [sends EXCEPT ![wjob[w]] = @ + 1]
Excuse(w)  == excuses' = [excuses EXCEPT ![wjob[w]] = @ + 1]

Send(w) ==
    /\ Step(w, "send", "sent")
    /\ Deliver(w)
    /\ UNCHANGED <<row, threw, used, excuses>>

\* The channel refuses the message.
SendFails(w) ==
    /\ Step(w, "send", "exception")
    /\ UNCHANGED <<row, threw, used, sendVars>>

\* The message goes out and the answer is lost.
SendAnswerLost(w) ==
    /\ Step(w, "send", "exception")
    /\ Fault
    /\ Deliver(w) /\ Excuse(w)
    /\ UNCHANGED <<row, threw>>

LookupFails(w) ==
    /\ \E from \in {"load", "template", "channel"} : Step(w, from, "exception")
    /\ Fault
    /\ UNCHANGED <<row, threw, sendVars>>

SetStatus(w, s, e) ==
    row' = [row EXCEPT ![wjob[w]] = [status |-> s, error |-> e,
                                     linked |-> row[wjob[w]].linked]]

\* markAsSent updates the row whatever its status.
MarkSent(w) ==
    /\ Step(w, "sent", "finish")
    /\ SetStatus(w, "sent", row[wjob[w]].error)
    /\ UNCHANGED <<threw, used, sendVars>>

MarkSentFails(w) ==
    /\ Step(w, "sent", "exception")
    /\ Fault
    /\ Excuse(w)
    /\ UNCHANGED <<row, threw, sends>>

Refusals == {"missing", "disabled", "nochannel"}

\* Mutant of MarkFailed: a refused send is left pending.
MarkFailedSilent(w) ==
    /\ \E e \in Refusals \union {"exception"} : Step(w, e, "finish")
    /\ threw' = [threw EXCEPT ![w] = (wpc[w] = "exception")]
    /\ UNCHANGED <<row, used, sendVars>>
\* markAsFailed updates the row whatever its status, and the attempt throws when
\* it was called from the catch.
MarkFailed(w) ==
    /\ \E e \in Refusals \union {"exception"} :
         Step(w, e, "finish") /\ SetStatus(w, "failed", e)
    /\ threw' = [threw EXCEPT ![w] = (wpc[w] = "exception")]
    /\ excuses' = [excuses EXCEPT ![wjob[w]] =
                     IF row[wjob[w]].status = "sent" THEN @ + 1 ELSE @]
    /\ UNCHANGED <<used, sends>>

IsLastAttempt(i) == failures[i] + 1 >= MaxAttempts

\* Its statement throws: before the catch it leads there, in the catch it ends
\* the attempt and the row keeps its status.
MarkFailedFails(w) ==
    /\ Fault
    /\ \/ /\ \E e \in Refusals : Step(w, e, "exception")
          /\ UNCHANGED threw
       \/ /\ Move(w, "exception", "finish")
          /\ threw' = [threw EXCEPT ![w] = TRUE]
          /\ orphaned' = orphaned \union IF IsLastAttempt(wjob[w])
                                        THEN {wjob[w]} ELSE {}
    /\ UNCHANGED <<row, sendVars>>

Outcome(w, i) ==
    IF ~threw[w] THEN "completed"
    ELSE IF IsLastAttempt(i) THEN "failed" ELSE "queued"

\* BullMQ settles the job: done, retried after a backoff, or failed for good.
Settle(w) ==
    LET i == wjob[w] IN
    /\ wpc[w] = "finish"
    /\ wpc' = [wpc EXCEPT ![w] = "idle"]
    /\ wjob' = [wjob EXCEPT ![w] = NoId]
    /\ threw' = [threw EXCEPT ![w] = FALSE]
    /\ job' = [job EXCEPT ![i] = Outcome(w, i)]
    /\ failures' = [failures EXCEPT ![i] = IF threw[w] THEN @ + 1 ELSE @]
    /\ UNCHANGED <<row, target, stalls, schedVars, cancelVars, envVars, used,
                   sendVars, noteVars>>

-----------------------------------------------------------------------------
(* The environment *)

\* The merchant edits or deletes a template.
EditTemplate(t) ==
    /\ Spend("edits", MaxEdits)
    /\ template[t] # "deleted"
    /\ \E s \in TemplateStatus \ {template[t]} :
         template' = [template EXCEPT ![t] = s]
    /\ UNCHANGED <<row, target, queueVars, schedVars, cancelVars, workerVars,
                   connected, sendVars, noteVars>>

ChannelChanges ==
    /\ Spend("edits", MaxEdits)
    /\ connected' = ~connected
    /\ UNCHANGED <<row, target, queueVars, schedVars, cancelVars, workerVars,
                   template, sendVars, noteVars>>

\* The process dies: calls, listeners and workers lose what they hold, and
\* BullMQ finds the workers' jobs stalled. A send not yet marked is repeated.
Crash ==
    LET hit == {wjob[w] : w \in {v \in Workers : wpc[v] # "idle"}}
        unmarked == {wjob[w] : w \in {v \in Workers : wpc[v] = "sent"}}
        jobless == {sid[p] : p \in {q \in Schedulers : spc[q] = "add"}}
        given == {i \in hit : stalls[i] >= MaxStalls}
    IN
    /\ Fault
    /\ spc' = [p \in Schedulers |-> "idle"]
    /\ sid' = [p \in Schedulers |-> NoId]
    /\ cpc' = [c \in Cancellers |-> "idle"]
    /\ batch' = [c \in Cancellers |-> NoBatch]
    /\ wpc' = [w \in Workers |-> "idle"]
    /\ wjob' = [w \in Workers |-> NoId]
    /\ threw' = [w \in Workers |-> FALSE]
    /\ stalls' = [i \in Ids |-> IF i \in hit THEN stalls[i] + 1 ELSE stalls[i]]
    /\ job' = [i \in Ids |-> IF i \notin hit THEN job[i]
                             ELSE IF i \in given THEN "failed" ELSE "queued"]
    /\ excuses' = [i \in Ids |-> IF i \in unmarked THEN excuses[i] + 1 ELSE excuses[i]]
    /\ orphaned' = orphaned \union jobless \union given
                       \union UNION {Unsaved(c) : c \in Cancellers}
    /\ UNCHANGED <<row, target, failures, asked, envVars, sends, stopped, overtaken,
                   repeatable>>

-----------------------------------------------------------------------------
SchedulerStep(p) ==
    \/ \E t \in Targets : Schedule(p, t)
    \/ CheckLimit(p) \/ Insert(p) \/ AddJob(p) \/ Link(p) \/ ScheduleFails(p)

CancellerStep(c) ==
    \/ \E e \in Events : EventArrives(c, e)
    \/ FindTemplates(c) \/ FindPending(c) \/ RemoveJob(c) \/ SaveCancelled(c)
    \/ CancelFails(c)

WorkerStep(w) ==
    \/ TakeJob(w) \/ LoadSkips(w) \/ LoadPasses(w) \/ FindTemplate(w)
    \/ FindChannel(w) \/ Send(w) \/ SendFails(w) \/ SendAnswerLost(w)
    \/ LookupFails(w) \/ MarkSent(w) \/ MarkSentFails(w) \/ MarkFailed(w)
    \/ MarkFailedFails(w) \/ Settle(w)

Next ==
    \/ \E p \in Schedulers : SchedulerStep(p)
    \/ \E c \in Cancellers : CancellerStep(c)
    \/ \E w \in Workers : WorkerStep(w)
    \/ \E t \in Templates : EditTemplate(t)
    \/ ChannelChanges \/ Crash

Spec == Init /\ [][Next]_vars

\* The event loop ends every call it has begun, and the processor takes jobs
\* as long as the process lives.
Fairness ==
    /\ \A p \in Schedulers : WF_vars(CheckLimit(p) \/ Insert(p) \/ AddJob(p) \/ Link(p))
    /\ \A c \in Cancellers : WF_vars(\/ FindTemplates(c) \/ FindPending(c)
                                    \/ RemoveJob(c) \/ SaveCancelled(c))
    /\ \A w \in Workers : WF_vars(WorkerStep(w))

FairSpec == Spec /\ Fairness

-----------------------------------------------------------------------------
(* Properties *)

\* Through retries, stalls, crashes, cancellations and stale saves, a row's
\* message goes out once, plus once for each fault or late write after which the
\* row's status no longer tells of a send: the status check of the processor is
\* what keeps a job that runs again from sending again.
OncePerRow == \A i \in Ids : sends[i] <= 1 + excuses[i]

\* Once the cancellation of a row is saved while no scheduling call has it to
\* link and no worker is past its status check, nothing is ever sent for it,
\* even when its job could not be removed from the queue.
CancelledStaysSilent ==
    [][\A i \in stopped : sends'[i] = sends[i]]_vars

Total(S) == MapThenSumSet(LAMBDA i : sends[i], S)
ExcusesOf(S) == MapThenSumSet(LAMBDA i : excuses[i], S)
SameTarget(t) == {i \in Ids : row[i].status # "none" /\ target[i] = t}

\* However often a template is triggered for the same customer and reference, by
\* calls that may overlap each other and the cancelling events, the customer gets
\* it once (plus the excused repetitions), counting every row but three kinds,
\* which the code does repeat: a row inserted by a call after whose duplicate check
\* another call inserted a row for the same target; a row cancelled after a worker
\* had passed its status check or sent it; and a row cancelled or refused before
\* its own call linked it, which the late link makes pending again.
Counted(t) == SameTarget(t) \ repeatable
OneReminder ==
    \A t \in Targets : Total(Counted(t)) <= 1 + ExcusesOf(Counted(t))

\* What template-scheduler.service.ts says of itself (lines 8 and 78): the same
\* template is not sent to the same customer twice for the same reference.
SameTemplateOnce == \A t \in Targets : Total(SameTarget(t)) <= 1

\* Whatever fails, a row that waits to be sent has a job that will send it, unless
\* a call that is still running is about to add it, or a listener that has removed
\* it is about to save the cancellation. Rows are excused for these faults only:
\* the call, or the process, died between the insertion and the job; the listener
\* died between the removal and the save; the job was given up as stalled, or the
\* save of its last attempt's failure threw; and a late link made a row pending
\* whose job had found it settled.
PendingHasJob ==
    \A i \in Ids \ orphaned :
        row[i].status = "pending" =>
            \/ job[i] \in {"queued", "active"}
            \/ \E p \in Schedulers : spc[p] = "add" /\ sid[p] = i
            \/ \E c \in Cancellers : i \in Unsaved(c)

\* A row that waits to be sent does not wait for ever: it is sent, refused or
\* cancelled.
PendingSettles ==
    \A i \in Ids : row[i].status = "pending" ~> row[i].status # "pending"

\* What the scheduler promises about each row, as an abstract specification.
Delivery == INSTANCE OnceDelivery WITH Items <- Ids
DeliversOnce == Delivery!Spec

-----------------------------------------------------------------------------
(* The inductive invariants behind DeliversOnce, CancelledStaysSilent,       *)
(* OneReminder and PendingHasJob                                             *)

\* A busy worker holds an active job, and no other worker holds it.
WorkersHoldJobs ==
    \A w \in Workers : wpc[w] # "idle" => /\ wjob[w] \in Ids
                                          /\ job[wjob[w]] = "active"
OneWorkerPerJob ==
    \A v, w \in Workers :
        v # w /\ wpc[v] # "idle" /\ wpc[w] # "idle" => wjob[v] # wjob[w]

\* A scheduling call about to add a job holds a row of its own without one.
CallsHoldRows ==
    /\ \A p \in Schedulers : spc[p] \in {"add", "link"} =>
         sid[p] \in Ids /\ row[sid[p]].status # "none"
    /\ \A p \in Schedulers : spc[p] = "add" => job[sid[p]] = "none"
    /\ \A p, q \in Schedulers :
         p # q /\ spc[p] = "add" /\ spc[q] = "add" => sid[p] # sid[q]

JobsHaveRows == \A i \in Ids : row[i].status = "none" => job[i] = "none" /\ sends[i] = 0

\* Where a message may still go out, the earlier ones are excused.
UnsentIsUnsent ==
    /\ \A i \in Ids :
         /\ row[i].status = "pending"
         /\ \A w \in Workers : wpc[w] = "sent" => wjob[w] # i
         => sends[i] <= excuses[i]
    /\ \A w \in Workers :
         wpc[w] \in {"template", "channel", "send"} => sends[wjob[w]] <= excuses[wjob[w]]

\* Where a message is known to have gone out, it is not excused; and a worker
\* past its status check is the only one that can make the row sent.
SentIsSent ==
    /\ \A i \in Ids : /\ excuses[i] <= sends[i]
                      /\ row[i].status = "sent" => sends[i] > excuses[i]
    /\ \A w \in Workers : wpc[w] = "sent" => sends[wjob[w]] > excuses[wjob[w]]
    /\ \A w \in Workers : wpc[w] \in PastCheck => row[wjob[w]].status # "sent"

SendInv == /\ WorkersHoldJobs /\ OneWorkerPerJob /\ CallsHoldRows /\ JobsHaveRows
           /\ UnsentIsUnsent /\ SentIsSent /\ OncePerRow

\* A row whose cancellation took hold is not pending and nobody will make it so.
SilentInv == \A i \in stopped : /\ row[i].status \notin {"none", "pending"}
                                /\ ~InProgress(i)

\* A row that counts as a duplicate, and one whose repetition is not excused.
Live(i) == row[i].status \in {"pending", "sent"}
Exact(i) == Live(i) /\ i \notin repeatable

\* A target has one such row at most, and none while a call for it that nobody
\* overtook is between its duplicate check and its insertion.
OneExact ==
    \A i, j \in Ids : Exact(i) /\ Exact(j) /\ target[i] = target[j] => i = j
ChecksHold ==
    \A p \in Schedulers \ overtaken : spc[p] \in {"limit", "insert"} =>
        \A i \in Ids : Exact(i) => target[i] # asked[p]

\* What a row cancelled or refused has sent is excused, and nobody will send more.
SettledSilent ==
    \A i \in Ids \ repeatable : row[i].status \in {"cancelled", "failed"} =>
        /\ sends[i] <= excuses[i]
        /\ \A w \in Workers : wpc[w] \in PastCheck => wjob[w] # i

ReminderInv == OneExact /\ ChecksHold /\ SettledSilent

\* An attempt that ends and leaves its row pending will be made again.
AttemptsGoOn ==
    \A w \in Workers :
        wpc[w] = "finish" /\ row[wjob[w]].status = "pending" =>
            \/ wjob[w] \in orphaned
            \/ threw[w] /\ ~IsLastAttempt(wjob[w])

\* A listener removes jobs of rows it has found.
ListenersFind ==
    \A c \in Cancellers : /\ batch[c].todo \subseteq batch[c].links
                          /\ batch[c].links \subseteq batch[c].found

PendingInv == PendingHasJob /\ AttemptsGoOn /\ ListenersFind

=============================================================================
