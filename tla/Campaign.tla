------------------------------ MODULE Campaign ------------------------------
(***************************************************************************)
(* One marketing campaign: its row in the `campaigns' table, the HTTP      *)
(* requests and the cron tick that change it, the BullMQ queue with one    *)
(* job per targeted customer, and the workers that send the messages.      *)
(*                                                                         *)
(* Every database statement and every queue call is a step of its own,     *)
(* because each `await' of the service lets the other processes run.       *)
(***************************************************************************)
EXTENDS Naturals, FiniteSets, FiniteSetsExt

CONSTANTS
    Customers,      \* customer ids, ordered as `ORDER BY customer.id' does
    Requests,       \* HTTP requests that can be in progress at once
    Cron,           \* the scheduler tick
    Workers,        \* slots of the processor (concurrency: 5 in the code)
    BatchSize,      \* customers read per page by executeNow
    MaxAttempts,    \* BullMQ `attempts' of the campaigns queue
    MaxStalls,      \* BullMQ maxStalledCount
    Threshold,      \* stopOnErrorThreshold, 0 when the campaign has none
    HasSchedule,    \* scheduledAt is set (and has passed)
    MaxRequests,    \* bound: requests served
    MaxFaults,      \* bound: crashes, queue and database errors, lost answers
    MaxChurn        \* bound: customers entering or leaving the audience

ASSUME CampaignAssumption ==
    /\ Customers \subseteq Nat \ {0}
    /\ IsFiniteSet(Customers)
    /\ Cron \notin Requests
    /\ IsFiniteSet(Workers)
    /\ BatchSize \in Nat \ {0}
    /\ MaxAttempts \in Nat \ {0}
    /\ MaxStalls \in Nat
    /\ Threshold \in Nat
    /\ HasSchedule \in BOOLEAN
    /\ MaxRequests \in Nat /\ MaxFaults \in Nat /\ MaxChurn \in Nat

Callers == Requests \union {Cron}

Status  == {"DRAFT", "SCHEDULED", "ACTIVE", "PAUSED",
            "COMPLETED", "CANCELLED", "FAILED"}
Stopped == {"CANCELLED", "PAUSED"}      \* the statuses a worker refuses

JobState == {"none", "waiting", "active", "completed", "failed"}

VARIABLES
    row,        \* the campaign's row
    audience,   \* the customers buildTargetQuery selects now
    job,        \* state of the job campaign-<id>-customer-<c> in Redis
    failures,   \* attempts of that job that threw
    stalls,     \* times that job was found stalled
    pc,         \* where each caller is
    copy,       \* the entity a caller has loaded
    exec,       \* executeNow's locals: offset, totalQueued (queued), the
                \* customers of the page still to be enqueued (batch), and for
                \* observation the audience when it began (start)
    wpc,        \* where each worker is
    wjob,       \* the customer whose job a worker holds
    threw       \* the worker's attempt ends by throwing

(***************************************************************************)
(* Observation only: no action reads these except to respect a bound.      *)
(***************************************************************************)
VARIABLES
    used,       \* how much of each bound is spent
    sends,      \* messages each customer has received
    excuses,    \* events after which one more message is unavoidable
    late,       \* messages each worker sent since the campaign was stopped
    departed,   \* some customer has left the audience
    dropped,    \* customers whose job ended at the status check
    overwritten \* a save has put back older statistics

callerVars == <<pc, copy, exec>>
workerVars == <<wpc, wjob, threw>>
queueVars  == <<job, failures, stalls>>
sendVars   == <<sends, excuses, dropped>>
vars == <<row, audience, callerVars, workerVars, queueVars, sendVars,
          used, late, departed, overwritten>>

Row == [status : Status, sent : Nat, failed : Nat, total : Nat,
        automated : BOOLEAN, hasBody : BOOLEAN, deleted : BOOLEAN]

Execution == [offset : Nat, queued : Nat,
              batch : SUBSET Customers, start : SUBSET Customers]
NoExecution == [offset |-> 0, queued |-> 0, batch |-> {}, start |-> {}]

\* The locals of a caller or worker that is idle.
NoRow == [status |-> "DRAFT", sent |-> 0, failed |-> 0, total |-> 0,
          automated |-> FALSE, hasBody |-> TRUE, deleted |-> FALSE]
NoCustomer == 0

CallerPc == {"idle", "picked", "activate", "page", "add", "total", "fail",
             "resume", "remove", "update"}
WorkerPc == {"idle", "load", "autopause", "send", "sent", "error",
             "check", "complete", "finish", "discard"}

TypeOK ==
    /\ row \in Row
    /\ audience \subseteq Customers
    /\ job \in [Customers -> JobState]
    /\ failures \in [Customers -> Nat]
    /\ stalls \in [Customers -> Nat]
    /\ pc \in [Callers -> CallerPc]
    /\ copy \in [Callers -> Row]
    /\ exec \in [Callers -> Execution]
    /\ wpc \in [Workers -> WorkerPc]
    /\ wjob \in [Workers -> Customers \union {NoCustomer}]
    /\ threw \in [Workers -> BOOLEAN]
    /\ used \in [requests : Nat, faults : Nat, churn : Nat]
    /\ sends \in [Customers -> Nat]
    /\ excuses \in [Customers -> Nat]
    /\ late \in [Workers -> Nat]
    /\ dropped \subseteq Customers
    /\ departed \in BOOLEAN
    /\ overwritten \in BOOLEAN

-----------------------------------------------------------------------------
(* Helpers *)

\* An automated campaign is active once it has a triggerConfig.
InitialStatus(automated) ==
    {IF HasSchedule THEN "SCHEDULED" ELSE "DRAFT"}
        \union (IF automated THEN {"ACTIVE"} ELSE {})

\* campaign.type = AUTOMATED, set by create
Automated == row.automated

Spend(kind, limit) ==
    /\ used[kind] < limit
    /\ used' = [used EXCEPT ![kind] = @ + 1]
Request == Spend("requests", MaxRequests)
Fault   == Spend("faults", MaxFaults)

\* The whole row is written; the late messages are counted afresh when the
\* campaign enters or leaves the statuses that stop it.
Write(r) ==
    /\ row' = r
    /\ late' = IF row.status \in Stopped /\ r.status \in Stopped
                 THEN late ELSE [w \in Workers |-> 0]
SetStatus(s) == Write([row EXCEPT !.status = s])

Rank(c) == Cardinality({d \in audience : d <= c})
\* Mutant of Page: the second page starts one customer too late.
PageOffByOne(o) == {c \in audience : /\ (IF o = 0 THEN 0 ELSE o + 1) < Rank(c)
                                     /\ Rank(c) <= o + BatchSize}
Page(o) == {c \in audience : o < Rank(c) /\ Rank(c) <= o + BatchSize}

Goto(p, to) == pc' = [pc EXCEPT ![p] = to]

-----------------------------------------------------------------------------
Init ==
    /\ \E a \in BOOLEAN : \E s \in InitialStatus(a) :
         row = [NoRow EXCEPT !.status = s, !.automated = a]
    /\ audience \in SUBSET Customers
    /\ job = [c \in Customers |-> "none"]
    /\ failures = [c \in Customers |-> 0]
    /\ stalls = [c \in Customers |-> 0]
    /\ pc = [p \in Callers |-> "idle"]
    /\ copy = [p \in Callers |-> NoRow]
    /\ exec = [p \in Callers |-> NoExecution]
    /\ wpc = [w \in Workers |-> "idle"]
    /\ wjob = [w \in Workers |-> NoCustomer]
    /\ threw = [w \in Workers |-> FALSE]
    /\ used = [requests |-> 0, faults |-> 0, churn |-> 0]
    /\ sends = [c \in Customers |-> 0]
    /\ excuses = [c \in Customers |-> 0]
    /\ late = [w \in Workers |-> 0]
    /\ dropped = {}
    /\ departed = FALSE
    /\ overwritten = FALSE

-----------------------------------------------------------------------------
(* Requests that change the row in one statement *)

\* pause and cancel look the campaign up and then write, whatever its status.
Pause ==
    /\ Request
    /\ ~row.deleted
    /\ SetStatus("PAUSED")
    /\ UNCHANGED <<audience, callerVars, workerVars, queueVars, sendVars,
                   departed, overwritten>>

Cancel ==
    /\ Request
    /\ ~row.deleted
    /\ SetStatus("CANCELLED")
    /\ UNCHANGED <<audience, callerVars, workerVars, queueVars, sendVars,
                   departed, overwritten>>

Activate ==
    /\ Automated
    /\ Request
    /\ ~row.deleted
    /\ SetStatus("ACTIVE")
    /\ UNCHANGED <<audience, callerVars, workerVars, queueVars, sendVars,
                   departed, overwritten>>

-----------------------------------------------------------------------------
(* Requests that load the entity, test it, and write later *)

Begin(p, to) ==
    /\ pc[p] = "idle"
    /\ Request
    /\ ~row.deleted
    /\ Goto(p, to)
    /\ UNCHANGED <<row, late, audience, exec, workerVars, queueVars, sendVars,
                   departed, overwritten>>

ResumeLoad(p) ==
    row.status = "PAUSED" /\ Begin(p, "resume") /\ UNCHANGED copy

RemoveLoad(p) ==
    row.status \notin {"ACTIVE", "SCHEDULED"} /\ Begin(p, "remove") /\ UNCHANGED copy

UpdateLoad(p) ==
    /\ row.status \notin {"ACTIVE", "COMPLETED"}
    /\ Begin(p, "update")
    /\ copy' = [copy EXCEPT ![p] = row]

\* The caller's last step: its locals go out of scope.
End(p, from) ==
    /\ pc[p] = from
    /\ Goto(p, "idle")
    /\ copy' = [copy EXCEPT ![p] = NoRow]
    /\ exec' = [exec EXCEPT ![p] = NoExecution]
    /\ UNCHANGED <<audience, workerVars, queueVars, sendVars, used, departed>>

ResumeWrite(p) ==
    /\ End(p, "resume")
    /\ SetStatus(IF Automated THEN "ACTIVE" ELSE "SCHEDULED")
    /\ UNCHANGED overwritten

RemoveWrite(p) ==
    /\ End(p, "remove")
    /\ Write([row EXCEPT !.deleted = TRUE])
    /\ UNCHANGED overwritten

\* TypeORM's save compares every loaded column with the stored row, so what
\* others have changed since the load is put back.
UpdateSave(p) ==
    /\ End(p, "update")
    /\ \E body \in BOOLEAN : Write([copy[p] EXCEPT !.hasBody = body])
    /\ overwritten' = (overwritten \/ copy[p].sent # row.sent
                                   \/ copy[p].failed # row.failed)

-----------------------------------------------------------------------------
(* executeNow, called by a request or by the scheduler *)

\* checkScheduledCampaigns: the campaign is in the list of due campaigns; the
\* loop may reach it much later.
CronPick ==
    /\ pc[Cron] = "idle"
    /\ row.status = "SCHEDULED" /\ HasSchedule /\ ~row.deleted
    /\ Goto(Cron, "picked")
    /\ UNCHANGED <<row, late, audience, copy, exec, workerVars, queueVars,
                   sendVars, used, departed, overwritten>>

\* A request spends one unit of its bound, the scheduler's call none.
Calls(p) == \/ p \in Requests /\ pc[p] = "idle" /\ Request
            \/ p = Cron /\ pc[p] = "picked" /\ UNCHANGED used

\* The call ends by throwing: a request answers an error, the scheduler goes
\* on to mark the campaign FAILED.
Throw(p) == /\ Goto(p, IF p = Cron THEN "fail" ELSE "idle")
            /\ exec' = [exec EXCEPT ![p] = NoExecution]

ExecuteLoad(p) ==
    /\ Calls(p)
    /\ ~row.deleted /\ row.status # "ACTIVE" /\ row.hasBody
    /\ Goto(p, "activate")
    /\ UNCHANGED <<row, late, audience, copy, exec, workerVars, queueVars,
                   sendVars, departed, overwritten>>

ExecuteRefused(p) ==
    /\ Calls(p)
    /\ row.deleted \/ row.status = "ACTIVE" \/ ~row.hasBody
    /\ Throw(p)
    /\ UNCHANGED <<row, late, audience, copy, workerVars, queueVars, sendVars,
                   departed, overwritten>>

ExecuteActivate(p) ==
    /\ pc[p] = "activate"
    /\ SetStatus("ACTIVE")
    /\ exec' = [exec EXCEPT ![p].start = audience]
    /\ Goto(p, "page")
    /\ UNCHANGED <<audience, copy, workerVars, queueVars, sendVars, used,
                   departed, overwritten>>

ReadPage(p) ==
    LET page == Page(exec[p].offset) IN
    /\ pc[p] = "page"
    /\ exec' = [exec EXCEPT ![p] = [offset |-> @.offset + BatchSize,
                                    queued |-> @.queued + Cardinality(page),
                                    batch |-> page, start |-> @.start]]
    /\ Goto(p, IF page = {} THEN "total" ELSE "add")
    /\ UNCHANGED <<row, late, audience, copy, workerVars, queueVars, sendVars,
                   used, departed, overwritten>>

\* Mutant of Enqueue: the job id is not unique, so every add is taken.
EnqueueAlways(c) == job' = [job EXCEPT ![c] = "waiting"]
\* BullMQ ignores an add whose jobId it still holds, finished or not.
Enqueue(c) == job' = IF job[c] = "none" THEN [job EXCEPT ![c] = "waiting"]
                                        ELSE job

AddJob(p) ==
    /\ pc[p] = "add"
    /\ \E c \in exec[p].batch :
         /\ \A d \in exec[p].batch : c <= d
         /\ Enqueue(c)
         /\ exec' = [exec EXCEPT ![p].batch = @ \ {c}]
         /\ Goto(p, IF exec[p].batch = {c} THEN "page" ELSE "add")
    /\ UNCHANGED <<row, late, audience, copy, failures, stalls, workerVars,
                   sendVars, used, departed, overwritten>>

\* A statement or queue call of executeNow throws.
ExecuteError(p) ==
    /\ pc[p] \in {"activate", "page", "add", "total"}
    /\ Fault
    /\ Throw(p)
    /\ UNCHANGED <<row, late, audience, copy, workerVars, queueVars, sendVars,
                   departed, overwritten>>

SetTotal(p) ==
    /\ End(p, "total")
    /\ Write([row EXCEPT !.total = exec[p].queued])
    /\ UNCHANGED overwritten

\* Mutant of CronFail: the scheduler forgets to mark the failure.
CronFailSilent ==
    /\ End(Cron, "fail")
    /\ UNCHANGED <<row, late, overwritten>>
CronFail ==
    /\ End(Cron, "fail")
    /\ SetStatus("FAILED")
    /\ UNCHANGED overwritten

-----------------------------------------------------------------------------
(* The processor *)

TakeJob(w) ==
    /\ wpc[w] = "idle"
    /\ \E c \in Customers :
         /\ job[c] = "waiting"
         /\ job' = [job EXCEPT ![c] = "active"]
         /\ wjob' = [wjob EXCEPT ![w] = c]
    /\ wpc' = [wpc EXCEPT ![w] = "load"]
    /\ UNCHANGED <<row, late, audience, callerVars, failures, stalls, threw, sendVars,
                   used, departed, overwritten>>

\* A worker step that moves only the worker.
Step(w, from, to) ==
    /\ wpc[w] = from
    /\ wpc' = [wpc EXCEPT ![w] = to]
    /\ UNCHANGED <<audience, callerVars, queueVars, wjob, departed, overwritten>>

\* Mutant of Refused: a paused campaign is not stopped.
RefusedCancelledOnly == row.deleted \/ row.status = "CANCELLED"
Refused == row.deleted \/ row.status \in Stopped

\* Mutant of OverThreshold: off by one.
OverThresholdOffByOne == Threshold > 0 /\ row.failed > Threshold
OverThreshold == Threshold > 0 /\ row.failed >= Threshold

LoadStopped(w) ==
    /\ Step(w, "load", "discard")
    /\ Refused
    /\ dropped' = dropped \union {wjob[w]}
    /\ UNCHANGED <<row, late, threw, sends, excuses, used>>

LoadOverThreshold(w) ==
    /\ Step(w, "load", "autopause")
    /\ ~Refused /\ OverThreshold
    /\ UNCHANGED <<row, late, threw, sendVars, used>>

AutoPause(w) ==
    /\ Step(w, "autopause", "discard")
    /\ SetStatus("PAUSED")
    /\ dropped' = dropped \union {wjob[w]}
    /\ UNCHANGED <<threw, sends, excuses, used>>

LoadPasses(w) ==
    /\ Step(w, "load", "send")
    /\ ~Refused /\ ~OverThreshold
    /\ UNCHANGED <<row, late, threw, sendVars, used>>

\* incrementStat swallows its errors, so a count may be lost.
Count(r) == \/ Write(r) /\ UNCHANGED used
            \/ Fault /\ UNCHANGED <<row, late>>

\* Mutant of Unreachable: the counter of sent messages is incremented.
UnreachableCountsSent(w) ==
    /\ Step(w, "send", "discard")
    /\ Count([row EXCEPT !.sent = @ + 1])
    /\ UNCHANGED <<threw, sendVars>>

\* Customer gone, no usable phone, no connected channel or an empty text: the
\* failure is counted and the job returns without checking for completion.
Unreachable(w) ==
    /\ Step(w, "send", "discard")
    /\ Count([row EXCEPT !.failed = @ + 1])
    /\ UNCHANGED <<threw, sendVars>>

Deliver(w) ==
    /\ sends' = [sends EXCEPT ![wjob[w]] = @ + 1]
    /\ late' = IF row.status \in Stopped
                 THEN [late EXCEPT ![w] = @ + 1] ELSE late

Send(w) ==
    /\ Step(w, "send", "sent")
    /\ Deliver(w)
    /\ UNCHANGED <<row, threw, excuses, dropped, used>>

\* The channel, or a query made for the message, answers with an error.
SendFails(w) ==
    /\ Step(w, "send", "error")
    /\ UNCHANGED <<row, late, threw, sendVars, used>>

\* The query of the campaign fails, or the statement that pauses it.
LoadFails(w) ==
    /\ \E from \in {"load", "autopause"} : Step(w, from, "error")
    /\ Fault
    /\ UNCHANGED <<row, late, threw, sendVars>>

\* The message goes out and the answer is lost.
SendAnswerLost(w) ==
    /\ Step(w, "send", "error")
    /\ Fault
    /\ Deliver(w)
    /\ excuses' = [excuses EXCEPT ![wjob[w]] = @ + 1]
    /\ UNCHANGED <<row, threw, dropped>>

CountSent(w) ==
    /\ Step(w, "sent", "check")
    /\ Count([row EXCEPT !.sent = @ + 1])
    /\ UNCHANGED <<threw, sendVars>>

CountFailed(w) ==
    /\ Step(w, "error", "check")
    /\ Count([row EXCEPT !.failed = @ + 1])
    /\ threw' = [threw EXCEPT ![w] = TRUE]
    /\ UNCHANGED sendVars

LooksComplete ==
    /\ ~row.deleted /\ row.status = "ACTIVE" /\ ~Automated
    /\ row.sent + row.failed >= row.total /\ row.total > 0

CheckCompletion(w) ==
    /\ Step(w, "check", IF LooksComplete THEN "complete" ELSE "finish")
    /\ UNCHANGED <<row, late, threw, sendVars, used>>

WriteCompleted(w) ==
    /\ Step(w, "complete", "finish")
    /\ SetStatus("COMPLETED")
    /\ UNCHANGED <<threw, sendVars, used>>

\* Mutant of Outcome: a job refused at the status check goes back to the queue.
OutcomeRequeue(w, c) ==
    IF wpc[w] = "discard" THEN "waiting"
    ELSE IF ~threw[w] THEN "completed"
    ELSE IF failures[c] + 1 < MaxAttempts THEN "waiting" ELSE "failed"
Outcome(w, c) ==
    IF ~threw[w] THEN "completed"
    ELSE IF failures[c] + 1 < MaxAttempts THEN "waiting" ELSE "failed"

\* BullMQ settles the job: done, retried, or failed for good.
Settle(w) ==
    LET c == wjob[w] IN
    /\ wpc[w] \in {"finish", "discard"}
    /\ wpc' = [wpc EXCEPT ![w] = "idle"]
    /\ wjob' = [wjob EXCEPT ![w] = NoCustomer]
    /\ threw' = [threw EXCEPT ![w] = FALSE]
    /\ job' = [job EXCEPT ![c] = Outcome(w, c)]
    /\ failures' = [failures EXCEPT ![c] = IF threw[w] THEN @ + 1 ELSE @]
    /\ UNCHANGED <<row, late, audience, callerVars, stalls, sendVars, used,
                   departed, overwritten>>

-----------------------------------------------------------------------------
(* The environment *)

\* A worker that has sent and not yet settled its job.
Delivered(w) == \/ wpc[w] = "sent"
                \/ wpc[w] \in {"check", "complete", "finish"} /\ ~threw[w]

\* The process dies: callers and workers lose what they hold, and BullMQ finds
\* their jobs stalled.
Crash ==
    LET hit == {wjob[w] : w \in {v \in Workers : wpc[v] # "idle"}} IN
    /\ Fault
    /\ pc' = [p \in Callers |-> "idle"]
    /\ copy' = [p \in Callers |-> NoRow]
    /\ exec' = [p \in Callers |-> NoExecution]
    /\ wpc' = [w \in Workers |-> "idle"]
    /\ wjob' = [w \in Workers |-> NoCustomer]
    /\ threw' = [w \in Workers |-> FALSE]
    /\ stalls' = [c \in Customers |-> IF c \in hit THEN stalls[c] + 1 ELSE stalls[c]]
    /\ job' = [c \in Customers |->
                 IF c \notin hit THEN job[c]
                 ELSE IF stalls[c] < MaxStalls THEN "waiting" ELSE "failed"]
    /\ excuses' = [c \in Customers |->
                     IF \E w \in Workers : wjob[w] = c /\ Delivered(w)
                       THEN excuses[c] + 1 ELSE excuses[c]]
    /\ UNCHANGED <<row, late, audience, failures, sends, dropped, departed,
                   overwritten>>

AudienceChange ==
    /\ Spend("churn", MaxChurn)
    /\ \E c \in Customers :
         \/ c \notin audience /\ audience' = audience \union {c} /\ UNCHANGED departed
         \/ c \in audience /\ audience' = audience \ {c} /\ departed' = TRUE
    /\ UNCHANGED <<row, late, callerVars, workerVars, queueVars, sendVars,
                   overwritten>>

-----------------------------------------------------------------------------
RequestStep ==
    \/ Pause \/ Cancel \/ Activate
    \/ \E p \in Requests : \/ ResumeLoad(p) \/ ResumeWrite(p)
                           \/ RemoveLoad(p) \/ RemoveWrite(p)
                           \/ UpdateLoad(p) \/ UpdateSave(p)

ExecuteStep(p) ==
    \/ ExecuteLoad(p) \/ ExecuteRefused(p) \/ ExecuteActivate(p)
    \/ ReadPage(p) \/ AddJob(p) \/ SetTotal(p) \/ ExecuteError(p)

CronStep == CronPick \/ CronFail \/ ExecuteStep(Cron)

WorkerStep(w) ==
    \/ TakeJob(w) \/ LoadStopped(w) \/ LoadOverThreshold(w) \/ AutoPause(w)
    \/ LoadPasses(w) \/ Unreachable(w) \/ Send(w) \/ SendFails(w) \/ LoadFails(w)
    \/ SendAnswerLost(w) \/ CountSent(w) \/ CountFailed(w)
    \/ CheckCompletion(w) \/ WriteCompleted(w) \/ Settle(w)

Next ==
    \/ RequestStep
    \/ \E p \in Requests : ExecuteStep(p)
    \/ CronStep
    \/ \E w \in Workers : WorkerStep(w)
    \/ Crash \/ AudienceChange

Spec == Init /\ [][Next]_vars

\* The event loop serves every request it has accepted, the cron fires every
\* minute, and the processor polls the queue as long as the process lives.
Fairness ==
    /\ \A p \in Requests :
         WF_vars(\/ ResumeWrite(p) \/ RemoveWrite(p) \/ UpdateSave(p)
                 \/ ExecuteActivate(p) \/ ReadPage(p) \/ AddJob(p) \/ SetTotal(p))
    /\ WF_vars(CronStep)
    /\ \A w \in Workers : WF_vars(WorkerStep(w))

FairSpec == Spec /\ Fairness

-----------------------------------------------------------------------------
(* Properties *)

\* However often the campaign is executed, paused, resumed or retried, and by
\* however many requests and cron ticks at once, a customer receives one message,
\* plus one for each crash after a send or lost answer that hit their job: the
\* fixed jobId of executeNow is what keeps overlapping executions apart.
AtMostOnce == \A c \in Customers : sends[c] <= 1 + excuses[c]

\* Once a pause or a cancel is written, a worker sends at most the one message
\* it had already let past the status check, for as long as the campaign stays
\* stopped, however many jobs are still queued.
StopTakesEffect == \A w \in Workers : late[w] <= 1

\* stopOnErrorThreshold is checked on a value read before the send, so workers
\* may overshoot it, but by no more than the other workers in flight, and by the
\* attempts that failed to read it; a save that put back older statistics voids
\* the bound.
ErrorBudget ==
    Threshold > 0 /\ ~overwritten
      => row.failed < Threshold + Cardinality(Workers) + used.faults

\* When executeNow has read its last page, every customer who was targeted when
\* it began holds a job, as long as nobody left the audience while the offset
\* pages were read: customers who join only make a page repeat.
ExecutionCoversAudience ==
    \A p \in Callers :
        pc[p] = "total" /\ ~departed => \A c \in exec[p].start : job[c] # "none"

AllSends == MapThenSumSet(LAMBDA c : sends[c], Customers)

\* The sent counter never claims more messages than were delivered, whatever is
\* retried, lost or overwritten by a stale save.
SentNeverOverstated == row.sent <= AllSends

\* Every queued job is settled: it is completed, or failed for good, after
\* finitely many retries and stalls.
JobsSettle ==
    \A c \in Customers : job[c] \in {"waiting", "active"}
                            ~> job[c] \in {"completed", "failed"}

\* A scheduled campaign whose time has come does not stay scheduled: the
\* scheduler starts it or marks it failed, or someone else changes it.
ScheduledIsPickedUp ==
    row.status = "SCHEDULED" ~> row.status # "SCHEDULED" \/ row.deleted

\* What the campaign promises each customer, as an abstract specification.
Delivery == INSTANCE OnceDelivery WITH Items <- Customers
DeliversOnce == Delivery!Spec

-----------------------------------------------------------------------------
(* The inductive invariants behind the safety properties *)

\* A busy worker holds an active job, and no other worker holds it.
WorkersHoldJobs ==
    \A w \in Workers : wpc[w] # "idle" => /\ wjob[w] \in Customers
                                          /\ job[wjob[w]] = "active"
OneWorkerPerJob ==
    \A v, w \in Workers :
        v # w /\ wpc[v] # "idle" /\ wpc[w] # "idle" => wjob[v] # wjob[w]

\* An attempt throws only after it has failed.
ThrowsAfterError ==
    \A w \in Workers : threw[w] => wpc[w] \in {"check", "complete", "finish"}

\* Whoever may still be sent a message has had only excused ones.
UnsentIsUnsent ==
    /\ \A c \in Customers : job[c] \in {"none", "waiting"} => sends[c] <= excuses[c]
    /\ \A w \in Workers :
         wpc[w] # "idle" /\ ~Delivered(w) => sends[wjob[w]] <= excuses[wjob[w]]

\* A worker that has sent and not settled holds a message that is not excused.
SentIsSent ==
    /\ \A c \in Customers : excuses[c] <= sends[c]
    /\ \A w \in Workers : Delivered(w) => sends[wjob[w]] > excuses[wjob[w]]

JobInv == /\ WorkersHoldJobs /\ OneWorkerPerJob /\ ThrowsAfterError
          /\ UnsentIsUnsent /\ AtMostOnce

\* A worker that has sent its one late message is past the send, and the
\* campaign is still stopped.
LateInv == \A w \in Workers :
               /\ late[w] <= 1
               /\ late[w] > 0 => row.status \in Stopped /\ wpc[w] # "send"

\* Workers that may still add a failed message to the row: past the status check,
\* or with an error that is not counted yet.
Pending == {w \in Workers : wpc[w] \in {"send", "error"}}

\* Each of them was let past while the row was below the threshold, or failed to
\* read it.
BudgetInv ==
    Threshold > 0 /\ ~overwritten
      => row.failed + Cardinality(Pending) < Threshold + Cardinality(Workers) + used.faults

\* Messages out and not yet counted; neither the row nor the copy a save will
\* write back has counted them, or any message that was never sent.
Uncounted == {w \in Workers : wpc[w] = "sent"}
SentInv ==
    /\ row.sent + Cardinality(Uncounted) <= AllSends
    /\ \A p \in Callers : copy[p].sent + Cardinality(Uncounted) <= AllSends

\* While a caller reads the pages, everyone it began with and has passed in the
\* order of the ids is in its batch or holds a job.
Paging(p) == pc[p] \in {"page", "add", "total"}
Covers(p) ==
    /\ ~Paging(p) => exec[p] = NoExecution
    /\ pc[p] \in {"page", "total"} => exec[p].batch = {}
    /\ Paging(p) /\ ~departed =>
         /\ exec[p].start \subseteq audience
         /\ \A c \in exec[p].start :
              Rank(c) <= exec[p].offset \/ pc[p] = "total"
                => c \in exec[p].batch \/ job[c] # "none"
CoverInv == \A p \in Callers : Covers(p)

-----------------------------------------------------------------------------
(* What the endpoint descriptions say, and the code does not keep *)

\* Pause is temporary: once the campaign is active again and the queue is empty,
\* nobody has been left out.  Jobs taken while it was paused are finished jobs,
\* and their ids keep the resumed execution from adding them again.
ResumeForgetsNobody ==
    /\ row.status \in {"ACTIVE", "COMPLETED"}
    /\ \A p \in Callers : pc[p] = "idle"
    /\ \A c \in Customers : job[c] \notin {"waiting", "active"}
    => dropped = {}
=============================================================================
