---------------------------- MODULE WebhookIngest ----------------------------
(***************************************************************************)
(* Webhooks of Salla and Zid from their delivery to their effects: the     *)
(* HTTP requests that look for duplicates, insert a `webhook_events' row   *)
(* and queue a job; the processors of the two queues, which run the        *)
(* handler of the event and write the row's status; and the operator's     *)
(* retry and cancel requests.                                              *)
(*                                                                         *)
(* A platform may deliver the same event any number of times, so an event  *)
(* stands for its idempotency key and has at most one row.                 *)
(***************************************************************************)
EXTENDS Naturals, FiniteSets, FiniteSetsExt

CONSTANTS
    Events,         \* what the platforms tell us, one idempotency key each
    Source,         \* the platform of an event: its queue
    Communication,  \* the communication.* events of Salla
    Requests,       \* deliveries that can be in progress
    Operators,      \* retry and cancel requests that can be in progress
    Workers,        \* slots of the processors
    Serves,         \* the queue a worker takes jobs from
    MaxAttempts,    \* `attempts' of a job: 3 or 5 in the code
    MaxStalls,      \* BullMQ maxStalledCount
    MaxRetries,     \* bound: retry jobs of one event
    MaxDeliveries,  \* bound: deliveries
    MaxOrders,      \* bound: retry and cancel requests
    MaxFaults       \* bound: crashes, failed statements, lost answers

Queues == {"salla", "zid"}
Original == 0
Jobs == Events \X (0..MaxRetries)   \* the job of the delivery and of each retry

ASSUME IngestAssumption ==
    /\ IsFiniteSet(Events) /\ Events # {} /\ Communication \subseteq Events
    /\ Source \in [Events -> Queues] /\ Serves \in [Workers -> Queues]
    /\ \A e \in Communication : Source[e] = "salla"
    /\ MaxAttempts \in Nat \ {0} /\ MaxStalls \in Nat
    /\ MaxRetries \in Nat /\ MaxDeliveries \in Nat
    /\ MaxOrders \in Nat /\ MaxFaults \in Nat

VARIABLES
    status,     \* the row of each event, "none" when it has none
    tenant,     \* the row, and so its jobs, name the tenant
    job,        \* state of each job in Redis
    failures,   \* attempts of a job that threw
    stalls,     \* times a job was found stalled
    rpc,        \* where each delivery is
    received,   \* the event it brings
    found,      \* it has found the store and its tenant
    opc,        \* where each operator request is
    order,      \* the event it is about
    wpc,        \* where each worker is
    wjob,       \* the job it holds
    threw       \* its attempt ends by throwing

(* Observation only: no action reads these except to respect a bound. *)
VARIABLES
    used,       \* how much of each bound is spent
    sends,      \* times each job has run the handler to its emitted events
    excuses,    \* faults after which an attempt that had handled runs again
    announced,  \* `webhook.processed' emitted for each event
    told        \* answers the platform has received for each event

rowVars      == <<status, tenant>>
queueVars    == <<job, failures, stalls>>
requestVars  == <<rpc, received, found>>
operatorVars == <<opc, order>>
workerVars   == <<wpc, wjob, threw>>
effectVars   == <<sends, excuses, announced>>
vars == <<rowVars, queueVars, requestVars, operatorVars, workerVars, used,
          effectVars, told>>

WebhookStatus == {"pending", "processing", "processed", "failed", "skipped",
                  "retry_pending"}
JobState   == {"none", "queued", "active", "completed", "failed"}
RequestPc  == {"idle", "check", "store", "insert", "add"}
OperatorPc == {"idle", "retry", "mark", "cancel"}
WorkerPc   == {"idle", "start", "handle", "save", "announce", "catch", "finish"}
Answer     == {"queued", "duplicate", "error"}

NoEvent == CHOOSE e \in Events : TRUE
NoJob   == <<NoEvent, Original>>

TypeOK ==
    /\ status \in [Events -> WebhookStatus \union {"none"}]
    /\ tenant \in [Events -> BOOLEAN]
    /\ job \in [Jobs -> JobState]
    /\ failures \in [Jobs -> Nat] /\ stalls \in [Jobs -> Nat]
    /\ rpc \in [Requests -> RequestPc]
    /\ received \in [Requests -> Events] /\ found \in [Requests -> BOOLEAN]
    /\ opc \in [Operators -> OperatorPc] /\ order \in [Operators -> Events]
    /\ wpc \in [Workers -> WorkerPc] /\ wjob \in [Workers -> Jobs]
    /\ threw \in [Workers -> BOOLEAN]
    /\ used \in [deliveries : Nat, orders : Nat, faults : Nat]
    /\ sends \in [Jobs -> Nat] /\ excuses \in [Jobs -> Nat]
    /\ announced \in [Events -> Nat]
    /\ told \in [Events -> SUBSET Answer]

-----------------------------------------------------------------------------
Init ==
    /\ status = [e \in Events |-> "none"] /\ tenant = [e \in Events |-> FALSE]
    /\ job = [j \in Jobs |-> "none"]
    /\ failures = [j \in Jobs |-> 0] /\ stalls = [j \in Jobs |-> 0]
    /\ rpc = [r \in Requests |-> "idle"]
    /\ received = [r \in Requests |-> NoEvent]
    /\ found = [r \in Requests |-> FALSE]
    /\ opc = [o \in Operators |-> "idle"] /\ order = [o \in Operators |-> NoEvent]
    /\ wpc = [w \in Workers |-> "idle"] /\ wjob = [w \in Workers |-> NoJob]
    /\ threw = [w \in Workers |-> FALSE]
    /\ used = [deliveries |-> 0, orders |-> 0, faults |-> 0]
    /\ sends = [j \in Jobs |-> 0] /\ excuses = [j \in Jobs |-> 0]
    /\ announced = [e \in Events |-> 0] /\ told = [e \in Events |-> {}]

Spend(kind, limit) ==
    /\ used[kind] < limit
    /\ used' = [used EXCEPT ![kind] = @ + 1]
Fault == Spend("faults", MaxFaults)

-----------------------------------------------------------------------------
(* The webhook endpoints *)

GoTo(r, from, to) ==
    /\ rpc[r] = from
    /\ rpc' = [rpc EXCEPT ![r] = to]

\* The request ends; the platform takes its answer.
Respond(r, answer) ==
    /\ rpc' = [rpc EXCEPT ![r] = "idle"]
    /\ told' = [told EXCEPT ![received[r]] = @ \union {answer}]

\* A first delivery or a repeated one, of a store that is linked to a tenant.
Deliver(r, e) ==
    /\ Spend("deliveries", MaxDeliveries)
    /\ GoTo(r, "idle", "check")
    /\ received' = [received EXCEPT ![r] = e]
    /\ found' = [found EXCEPT ![r] = FALSE]
    /\ UNCHANGED <<rowVars, queueVars, operatorVars, workerVars, effectVars, told>>

IsDuplicate(e) == status[e] \in {"processed", "processing"}

CheckDuplicate(r) ==
    /\ rpc[r] = "check"
    /\ IF IsDuplicate(received[r]) THEN Respond(r, "duplicate")
                                   ELSE GoTo(r, "check", "store") /\ UNCHANGED told
    /\ UNCHANGED <<rowVars, queueVars, received, found, operatorVars, workerVars,
                   used, effectVars>>

\* The query throws: Salla's endpoint goes on, Zid's fails.
CheckFails(r) ==
    /\ rpc[r] = "check"
    /\ Fault
    /\ IF Source[received[r]] = "salla"
         THEN GoTo(r, "check", "store") /\ UNCHANGED told
         ELSE Respond(r, "error")
    /\ UNCHANGED <<rowVars, queueVars, received, found, operatorVars, workerVars,
                   effectVars>>

\* A lookup that throws counts as a store that was not found.
FindStore(r) ==
    /\ GoTo(r, "store", "insert")
    /\ \/ found' = [found EXCEPT ![r] = TRUE] /\ UNCHANGED used
       \/ Fault /\ UNCHANGED found
    /\ UNCHANGED <<rowVars, queueVars, received, operatorVars, workerVars,
                   effectVars, told>>

\* Mutant of Insert: there is no unique index on the idempotency key.
InsertAgain(r) ==
    LET e == received[r] IN
    /\ rpc[r] = "insert"
    /\ status' = [status EXCEPT ![e] = "pending"]
    /\ tenant' = [tenant EXCEPT ![e] = found[r]]
    /\ GoTo(r, "insert", "add") /\ UNCHANGED told
    /\ UNCHANGED <<queueVars, received, found, operatorVars, workerVars, used,
                   effectVars>>
\* The unique index lets one row of an event in; a second insert throws.
Insert(r) ==
    LET e == received[r] IN
    /\ rpc[r] = "insert"
    /\ IF status[e] = "none"
         THEN /\ status' = [status EXCEPT ![e] = "pending"]
              /\ tenant' = [tenant EXCEPT ![e] = found[r]]
              /\ GoTo(r, "insert", "add") /\ UNCHANGED told
         ELSE Respond(r, "error") /\ UNCHANGED rowVars
    /\ UNCHANGED <<queueVars, received, found, operatorVars, workerVars, used,
                   effectVars>>

\* Logs the row and queues its job.
AddJob(r) ==
    /\ rpc[r] = "add"
    /\ job' = [job EXCEPT ![<<received[r], Original>>] = "queued"]
    /\ Respond(r, "queued")
    /\ UNCHANGED <<rowVars, failures, stalls, received, found, operatorVars,
                   workerVars, used, effectVars>>

\* A statement or the queue throws, possibly after the job was added.
RequestFails(r) ==
    /\ rpc[r] \in {"insert", "add"}
    /\ Fault
    /\ Respond(r, "error")
    /\ \/ UNCHANGED job
       \/ rpc[r] = "add" /\ job' = [job EXCEPT ![<<received[r], Original>>] = "queued"]
    /\ UNCHANGED <<rowVars, failures, stalls, received, found, operatorVars,
                   workerVars, effectVars>>

-----------------------------------------------------------------------------
(* The operator's requests; they see only the rows of their tenant *)

AskRetry(o, e) ==
    /\ opc[o] = "idle"
    /\ Spend("orders", MaxOrders)
    /\ tenant[e] /\ status[e] = "failed"
    /\ opc' = [opc EXCEPT ![o] = "retry"]
    /\ order' = [order EXCEPT ![o] = e]
    /\ UNCHANGED <<rowVars, queueVars, requestVars, workerVars, effectVars, told>>

\* The new job goes to Salla's queue, whatever the source of the event.
AddRetry(o) ==
    /\ opc[o] = "retry"
    /\ \E n \in 1..MaxRetries :
         /\ job[<<order[o], n>>] = "none"
         /\ \A k \in 1..MaxRetries : k < n => job[<<order[o], k>>] # "none"
         /\ job' = [job EXCEPT ![<<order[o], n>>] = "queued"]
    /\ opc' = [opc EXCEPT ![o] = "mark"]
    /\ UNCHANGED <<rowVars, failures, stalls, requestVars, order, workerVars, used,
                   effectVars, told>>

MarkRetry(o) ==
    /\ opc[o] = "mark"
    /\ status' = [status EXCEPT ![order[o]] = "retry_pending"]
    /\ opc' = [opc EXCEPT ![o] = "idle"]
    /\ UNCHANGED <<tenant, queueVars, requestVars, order, workerVars, used,
                   effectVars, told>>

AskCancel(o, e) ==
    /\ opc[o] = "idle"
    /\ Spend("orders", MaxOrders)
    /\ tenant[e] /\ status[e] \notin {"none", "processed", "skipped"}
    /\ opc' = [opc EXCEPT ![o] = "cancel"]
    /\ order' = [order EXCEPT ![o] = e]
    /\ UNCHANGED <<rowVars, queueVars, requestVars, workerVars, effectVars, told>>

Cancel(o) ==
    /\ opc[o] = "cancel"
    /\ status' = [status EXCEPT ![order[o]] = "skipped"]
    /\ opc' = [opc EXCEPT ![o] = "idle"]
    /\ UNCHANGED <<tenant, queueVars, requestVars, order, workerVars, used,
                   effectVars, told>>

OrderFails(o) ==
    /\ opc[o] # "idle"
    /\ Fault
    /\ opc' = [opc EXCEPT ![o] = "idle"]
    /\ UNCHANGED <<rowVars, queueVars, requestVars, order, workerVars, effectVars,
                   told>>

-----------------------------------------------------------------------------
(* The processors *)

QueueOf(j) == IF j[2] = Original THEN Source[j[1]] ELSE "salla"

Step(w, from, to) ==
    /\ wpc[w] = from
    /\ wpc' = [wpc EXCEPT ![w] = to]
    /\ UNCHANGED <<tenant, queueVars, requestVars, operatorVars, wjob, told>>

EventOf(w) == wjob[w][1]
SetStatus(w, s) == status' = [status EXCEPT ![EventOf(w)] = s]

\* What the attempt has done will be done again.
Excuse(w) == excuses' = [excuses EXCEPT ![wjob[w]] =
                           IF sends[wjob[w]] > excuses[wjob[w]] THEN @ + 1 ELSE @]

TakeJob(w) ==
    /\ wpc[w] = "idle"
    /\ \E j \in Jobs :
         /\ job[j] = "queued" /\ QueueOf(j) = Serves[w]
         /\ job' = [job EXCEPT ![j] = "active"]
         /\ wjob' = [wjob EXCEPT ![w] = j]
    /\ wpc' = [wpc EXCEPT ![w] = "start"]
    /\ UNCHANGED <<rowVars, failures, stalls, requestVars, operatorVars, threw,
                   used, effectVars, told>>

\* Mutant of Start: the row is left as it was.
StartSilently(w) ==
    /\ Step(w, "start", "handle")
    /\ UNCHANGED <<status, threw, used, effectVars>>
\* Whatever the row's status is, the attempt makes it processing.
Start(w) ==
    /\ Step(w, "start", "handle")
    /\ SetStatus(w, "processing")
    /\ UNCHANGED <<threw, used, effectVars>>

\* Salla's processor knows only Salla's events and lets the others pass.
Knows(w)     == Source[EventOf(w)] = Serves[w]
Refuses(w)   == EventOf(w) \in Communication /\ ~tenant[EventOf(w)]
\* Without a tenant the listeners of the emitted events ignore them.
HasEffect(w) == Knows(w) /\ tenant[EventOf(w)]

\* The handler runs to its events, or throws because a message to relay has
\* no tenant.
Handle(w) ==
    /\ Step(w, "handle", IF Refuses(w) THEN "catch" ELSE "save")
    /\ sends' = [sends EXCEPT ![wjob[w]] = IF HasEffect(w) THEN @ + 1 ELSE @]
    /\ UNCHANGED <<status, threw, used, excuses, announced>>

Save(w) ==
    /\ Step(w, "save", "announce")
    /\ SetStatus(w, "processed")
    /\ UNCHANGED <<threw, used, effectVars>>

\* Logs the row and tells the employees' notifications.
Announce(w) ==
    /\ Step(w, "announce", "finish")
    /\ announced' = [announced EXCEPT ![EventOf(w)] = @ + 1]
    /\ UNCHANGED <<status, threw, used, sends, excuses>>

\* Mutant of StatementFails: an error of the handler is swallowed.
StatementFailsSwallowed(w) ==
    /\ Step(w, "handle", "save")
    /\ Fault
    /\ UNCHANGED <<status, threw, effectVars>>
\* A statement of the attempt throws, the log of a processed row included.
StatementFails(w) ==
    /\ \E at \in {"start", "handle", "save", "announce"} : Step(w, at, "catch")
    /\ Fault
    /\ Excuse(w)
    /\ \/ UNCHANGED status
       \/ wpc[w] = "start" /\ SetStatus(w, "processing")
    /\ UNCHANGED <<threw, sends, announced>>

\* Mutant of Catch: the error is logged and not thrown again.
CatchQuietly(w) ==
    /\ Step(w, "catch", "finish")
    /\ SetStatus(w, "failed")
    /\ UNCHANGED <<threw, used, effectVars>>
Catch(w) ==
    /\ Step(w, "catch", "finish")
    /\ SetStatus(w, "failed")
    /\ threw' = [threw EXCEPT ![w] = TRUE]
    /\ UNCHANGED <<used, effectVars>>

CatchFails(w) ==
    /\ Step(w, "catch", "finish")
    /\ Fault
    /\ threw' = [threw EXCEPT ![w] = TRUE]
    /\ UNCHANGED <<status, effectVars>>

Outcome(w, j) ==
    IF ~threw[w] THEN "completed"
    ELSE IF failures[j] + 1 < MaxAttempts THEN "queued" ELSE "failed"

\* BullMQ settles the job: done, retried after a backoff, or failed for good.
Settle(w) ==
    LET j == wjob[w] IN
    /\ wpc[w] = "finish"
    /\ wpc' = [wpc EXCEPT ![w] = "idle"]
    /\ wjob' = [wjob EXCEPT ![w] = NoJob]
    /\ threw' = [threw EXCEPT ![w] = FALSE]
    /\ job' = [job EXCEPT ![j] = Outcome(w, j)]
    /\ failures' = [failures EXCEPT ![j] = IF threw[w] THEN @ + 1 ELSE @]
    /\ UNCHANGED <<rowVars, stalls, requestVars, operatorVars, used, effectVars,
                   told>>

-----------------------------------------------------------------------------
(* The environment *)

\* The process dies: requests and workers lose what they hold, and BullMQ finds
\* the workers' jobs stalled. What an attempt has done is done again.
Crash ==
    LET hit     == {wjob[w] : w \in {v \in Workers : wpc[v] # "idle"}}
        handled == {j \in hit : sends[j] > excuses[j]}
    IN
    /\ Fault
    /\ rpc' = [r \in Requests |-> "idle"]
    /\ opc' = [o \in Operators |-> "idle"]
    /\ wpc' = [w \in Workers |-> "idle"]
    /\ wjob' = [w \in Workers |-> NoJob]
    /\ threw' = [w \in Workers |-> FALSE]
    /\ stalls' = [j \in Jobs |-> IF j \in hit THEN stalls[j] + 1 ELSE stalls[j]]
    /\ job' = [j \in Jobs |-> IF j \notin hit THEN job[j]
                              ELSE IF stalls[j] < MaxStalls THEN "queued" ELSE "failed"]
    /\ excuses' = [j \in Jobs |-> IF j \in handled THEN excuses[j] + 1 ELSE excuses[j]]
    /\ UNCHANGED <<rowVars, failures, received, found, order, sends,
                   announced, told>>

-----------------------------------------------------------------------------
RequestStep(r) ==
    \/ CheckDuplicate(r) \/ FindStore(r) \/ Insert(r) \/ AddJob(r)

OperatorStep(o) == AddRetry(o) \/ MarkRetry(o) \/ Cancel(o)

AttemptStep(w) ==
    \/ TakeJob(w) \/ Start(w) \/ Handle(w) \/ Save(w) \/ Announce(w)
    \/ Catch(w) \/ Settle(w)

Next ==
    \/ \E r \in Requests : \/ \E e \in Events : Deliver(r, e)
                           \/ RequestStep(r) \/ CheckFails(r) \/ RequestFails(r)
    \/ \E o \in Operators : \/ \E e \in Events : AskRetry(o, e) \/ AskCancel(o, e)
                            \/ OperatorStep(o) \/ OrderFails(o)
    \/ \E w \in Workers : AttemptStep(w) \/ StatementFails(w) \/ CatchFails(w)
    \/ Crash

Spec == Init /\ [][Next]_vars

\* The event loop ends every request it has begun, and a processor takes jobs
\* as long as the process lives.
Fairness ==
    /\ \A r \in Requests : WF_vars(RequestStep(r))
    /\ \A o \in Operators : WF_vars(OperatorStep(o))
    /\ \A w \in Workers : WF_vars(AttemptStep(w))

FairSpec == Spec /\ Fairness

-----------------------------------------------------------------------------
(* Properties *)

\* What the queues promise about each job, as an abstract specification: its
\* handler runs to its effects once, and again only after a fault that made an
\* attempt which had handled run again.
Delivery == INSTANCE OnceDelivery WITH Items <- Jobs
DeliversOnce == Delivery!Spec

EventJobs(e) == {j \in Jobs : j[1] = e}
Handled(e) == \E j \in EventJobs(e) : sends[j] > 0

\* A row that says processed tells the truth: the event had its effects, through
\* crashes, retries by the queue or by an operator, and stale writes.
ProcessedMeansHandled ==
    \A e \in Events : status[e] = "processed" /\ tenant[e] => Handled(e)

\* An attempt of the job has failed, or was found stalled.
HasFailed(j) == \/ failures[j] > 0 \/ stalls[j] > 0
                \/ \E w \in Workers : threw[w] /\ wjob[w] = j
AnotherFailed(j) == \E k \in EventJobs(j[1]) \ {j} : HasFailed(k)

\* A row listed as failed, whose retry would run the handler again, has had no
\* effect but the excused ones, through retries by the queue or by an operator.
\* The exception: an operator's retry gave the event a second job beside one that
\* still had attempts left, and of the two one has run the handler and another has
\* failed, whose catch wrote the row last.
FailedMeansUnhandled ==
    \A e \in Events : status[e] = "failed"
        => \A j \in EventJobs(e) : sends[j] > excuses[j] => AnotherFailed(j)

\* An event whose platform was told that it is queued is processed to the end,
\* its employees' notification included, when the faults leave an attempt; only
\* a message to relay for an unknown store is not.
QueuedIsAnnounced ==
    \A e \in Events :
        "queued" \in told[e] /\ (e \in Communication => tenant[e])
          ~> announced[e] > 0

-----------------------------------------------------------------------------
(* The inductive invariants behind DeliversOnce, ProcessedMeansHandled and   *)
(* FailedMeansUnhandled                                                      *)

\* A busy worker holds an active job, and no other worker holds it; an attempt
\* has thrown only at its end.
WorkersHoldJobs ==
    \A w \in Workers : /\ wpc[w] # "idle" => job[wjob[w]] = "active"
                       /\ threw[w] => wpc[w] = "finish"
OneWorkerPerJob ==
    \A v, w \in Workers :
        v # w /\ wpc[v] # "idle" /\ wpc[w] # "idle" => wjob[v] # wjob[w]

\* Jobs are of events with a row, and an operator's request is about one.
JobsHaveRows ==
    /\ \A j \in Jobs : status[j[1]] = "none" => job[j] = "none"
    /\ \A o \in Operators : opc[o] # "idle" => status[order[o]] # "none"

\* A request about to add a job has inserted the row itself.
RequestsHoldRows ==
    /\ \A r \in Requests : rpc[r] = "add" =>
         /\ status[received[r]] # "none"
         /\ job[<<received[r], Original>>] = "none"
    /\ \A q, r \in Requests :
         q # r /\ rpc[q] = "add" /\ rpc[r] = "add" => received[q] # received[r]

\* Where a handler may still run, its earlier runs are excused.
UnsentIsUnsent ==
    /\ \A j \in Jobs : job[j] \in {"none", "queued"} => sends[j] <= excuses[j]
    /\ \A w \in Workers :
         wpc[w] \in {"start", "handle", "catch"} \/ (wpc[w] = "finish" /\ threw[w])
           => sends[wjob[w]] <= excuses[wjob[w]]

OncePerJob == \A j \in Jobs : excuses[j] <= sends[j] /\ sends[j] <= 1 + excuses[j]

IngestInv == /\ WorkersHoldJobs /\ OneWorkerPerJob /\ JobsHaveRows
             /\ RequestsHoldRows /\ UnsentIsUnsent /\ OncePerJob

\* While only Salla's events are retried, a worker about to write that an event
\* is processed has handled it.
HandledInv ==
    /\ \A w \in Workers :
         wpc[w] = "save" /\ tenant[EventOf(w)] => Handled(EventOf(w))
    /\ ProcessedMeansHandled

\* No row says failed under a handler that runs, unless another job has failed.
FailedInv ==
    /\ \A w \in Workers : wpc[w] = "handle" /\ status[EventOf(w)] = "failed"
                              => AnotherFailed(wjob[w])
    /\ FailedMeansUnhandled
=============================================================================
