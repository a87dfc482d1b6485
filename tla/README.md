# RAFEQ backend: specifications, model checking and proofs

RAFEQ is a multi-tenant backend (NestJS, TypeORM on PostgreSQL, BullMQ on Redis)
through which Saudi online stores, hosted on Salla or Zid, talk to their
customers over WhatsApp, SMS, Telegram, Discord, Instagram and e-mail. This
directory models the parts whose correctness depends on the order in which
things happen: the queues, the rows that record what was queued, the webhooks
that may arrive twice, the sweeps that run by the clock, and the process that
may die between any two statements.

Contents

1. The system: its components and what makes each correct
2. Modules, and how they correspond to the code
3. Modelling conventions
4. The runs: what each checks and shows, and its bounds
5. Fairness
6. What is proved
7. Where the code departs from what it says
8. What is only model-checked, what is not modelled
9. Continuing this work

## 1. The system

### 1.1 How the components meet

```
 Salla / Zid  --HTTP-->  webhook controllers --> webhook_events row + queue job
                                                       |
                                             salla / zid processor
                                    (handlers: orders, customers, subscription)
                                          |               |             |
                           'webhook.processed' event   template     tenant row
                                          |            dispatcher       |
                             employee notifications       |         subscription
                                                 now | later           expiry
                                                     |   |           (hourly) 
    customers <-- channels <--------- send ----------+   +--> scheduled_template_sends
        |                                                     row + delayed job
        +--> incoming messages --> conversations --> AI listener --> reply
 merchant --HTTP--> campaigns --> one job per customer --> channels
```

Everything runs in one Node process (more than one instance may be deployed;
nothing in the code depends on there being one, except the in-memory windows of
the dispatcher and the listeners). Each `await` lets every other request, job,
timer and event listener run. The components share three things: rows in
PostgreSQL, jobs in Redis, and in-process events (`EventEmitter2`). TypeORM's
`save` of a loaded entity, a read and a write with an `await` between them,
occurs in almost all of them.

### 1.2 The components modelled

**Campaigns** (`modules/campaigns`). State: the `campaigns` row (status, sent,
failed and total counters), one BullMQ job per targeted customer whose id
`campaign-<id>-customer-<c>` is fixed. Operations: `create`, `activate`,
`pause`, `resume`, `cancel`, `update`, `remove`, `executeNow` (pages of
customers by offset, one job each), the scheduler's minute tick, and the
processor that sends one message per job with up to three attempts. Hard:
overlapping executions, a status read before the send, counters written by
several workers and by whole-row saves, retries after a message has gone out.
Correct when: a customer gets a message once; a stop takes effect; the counters
do not lie; whoever is targeted gets a job; jobs and due campaigns do not wait
for ever.

**Delayed template sends** (`webhooks/template-scheduler.service.ts`, its
processor). State: `scheduled_template_sends` rows, one delayed job each, the
template and the channel the job looks up when it runs. Operations:
`scheduleDelayedSend` (duplicate check, limit check, insert, add job, save the
job's id), the listeners that cancel pending rows when an order moves on, and
the processor. Hard: the row is written, then the job, then the row again; a
cancel finds pending rows, removes jobs and saves, one await at a time.
Correct when: a row is sent once; a cancelled row stays silent; one reminder is
not sent twice; a pending row has a job and is settled.

**Webhook ingestion** (`webhooks/*-webhooks.controller.ts`,
`*-webhooks.service.ts`, `processors/*-webhook.processor.ts`,
`webhooks.service.ts`). State: `webhook_events` rows with a unique idempotency
key, one job per stored delivery in the platform's queue. Operations: a delivery
(duplicate check, store lookup, insert, add job, answer), an administrator's
retry and cancel, the processors with their retries. Hard: two deliveries of one
event at once, a crash between the row and the job or between the effects and
the row. Correct when: an event has its effects once for each delivery or retry;
a row says processed only when it was handled, and failed only when it was not;
what the platform was told is queued is processed.

**Subscriptions** (`billing/services/subscription-management.service.ts`,
`subscription-expiry.service.ts`, `billing.service.ts`, Salla's subscription
webhooks). State: `subscriptions` rows, the tenant's status, plan and end date,
and the features switched on for it. Operations: an administrator activates,
deactivates, changes the plan; the merchant subscribes and cancels; Salla's
events change the tenant; the hourly sweep lists whoever is over by four
queries, then expires, suspends and switches off features one statement at a
time. Hard: the lists are stale when used; two tables must agree; a statement
that fails is passed over. Correct when: a suspended tenant keeps nothing; a
paid period lasts to its end; a cancellation is carried out; a tenant without a
plan loses its features.

**Template dispatcher** (`webhooks/template-dispatcher.service.ts`). State: the
map `recentDispatches` of one process, with a window of sixty seconds.
Operations: `dispatch` of store events (one template), `relayCommunicationMessage`
(every active one) and the relay of one-time passwords; at-once templates are
sent, delayed ones handed to the scheduler. Hard: the key is set before the
awaits on one path and after them on the other; a failed dispatch deletes it,
and the map dies with the process. Correct when: one message reaches the customer
per event within the window, and a failure leaves the way free for the
platform's next delivery.

**Order and customer mirror** (`processors/salla/*`, `zid-webhook.processor.ts`).
State: the local rows of an order and its customer. Operations: create, update,
change of status, each a lookup and a save. Hard: webhooks of one order run
concurrently, no unique index keeps duplicate rows apart, and different tables
map a status for the row and for the event. Correct when: after webhooks handled
in order there is one row with the newest status, and that status was announced.

**AI replies, messaging and inbox** (`modules/ai`, `modules/messaging`,
`modules/inbox`). State: the conversation row (handler AI or HUMAN, `aiContext`,
failed attempts), the listener's buffer and timers, a delayed job that checks
later that somebody answered. Operations: receive, buffer, flush, generate, hand
off, recover, the safety net, an employee's edits. Hard: a human takes over while
a reply is buffered or being generated; everything loads a row and saves all of
it later; buffers die with the process. Correct when: a question is answered
once or left to a human, and never over a human.

**Stores** (`modules/stores`). State: a Salla store's row with its OAuth pair, of
which the refresh token is good for one use. Operations: sync with refresh,
authorise, disconnect, uninstall, delete, recover, settings. Hard: handlers
overlap and each saves its copy. Correct when: the row holds the pair Salla
honours, and an ended store does not come back by itself.

**WhatsApp channel** (`modules/channels/whatsapp/whatsapp-baileys.service.ts`,
`channels.service.ts`). State: the row, the credentials on disk and in the row,
the session in a map, sockets and retry timers. Operations: connect, disconnect,
poll, connection events, retries, restarts. Hard: handlers find the session by
the id of the channel, whichever socket the event came from, and nothing disarms
a timer. Correct when: one socket listens per channel, a dead session is
replaced or given up, the row says what the session is.

**Employee notifications** (`modules/employee-notifications`). State: rules, a
window of sixty seconds, notification rows, jobs with three attempts. Operations:
match rules, create row and job per recipient, send, record, mark as read. Hard:
row and job are two steps, and so are the send and its record. Correct when: the
row tells what happened, and no row stays PENDING.

**OTP relay and compensation inventory** (`modules/otp-relay`). State: accounts in
stock, records of what was given for an order. Operations: requests for a code or
a compensation (by hand, automatic), add, delete. Hard: the count against the
limit and the row that is counted are apart, requests and deletions compete for
accounts. Correct when: an account is given once.

**Automations** (`modules/automations`). State: the row of an automation.
Operations: an event finds it, loads it and runs its actions; update, activate,
deactivate, delete. Hard: the run saves all of its copy when it is over. Correct
when: an automation that was switched off stays off.

**Conversion elements** (`conversion-elements/services/element-tracking.service.ts`).
State: a buffer of events in memory, the table `element_events`. Operations:
track, buffer, flush in chunks, the last flush at shutdown. Hard: a flush that
fails after some chunks, events that arrive during it, a stop during it. Correct
when: an accepted event is recorded, and once.

### 1.3 The components not modelled

| component | why not |
|---|---|
| authentication (`modules/auth`) | one row per user (attempts, codes, devices), no protocol between actors; hashing and signing are libraries |
| quotas, payments, plans | nothing calls the quota's check and increment; payments and plans are rows written by one handler |
| contacts, tags, templates, tenants, users, settings, suggestions, quick replies, platform notifications | create, read, update and delete over a table, and counters |
| customer satisfaction surveys, short links | nothing creates surveys; nothing else in the system reads either |
| administration | screens over the other components' tables (its subscription operations are in `Subscription`) |
| analytics, widget | read-only reports, one settings row per store |
| integrations, mail, the other channels' adapters | only I/O |
| common, config, core, database | guards, filters, adapters, migrations: no state at run time |

`PROJECT.json` lists each with its files and the reason, and under "hazards" the
places of the modelled code that are hard to reach with a test, with the
properties about them; section 7 names those that no run checks.

## 2. Modules

| module | models | extends |
|---|---|---|
| `OnceDelivery` | what every queue of the system promises: an item is delivered once, and again only when a delivery went unheard | |
| `Campaign` | campaigns | |
| `TemplateScheduler` | delayed template sends | |
| `WebhookIngest` | webhook ingestion and processing | |
| `Subscription` | a tenant's subscription, features and the expiry sweep | |
| `TemplateDispatcher` | the window of recent dispatches and what reaches the customer | |
| `OrderMirror` | the rows of one order and its customer under its webhooks | |
| `AiReplies` | one conversation: messages, AI replies, handoffs, employees' edits | |
| `StoreTokens` | one store's row: OAuth pair and status | |
| `WhatsAppSession` | one QR channel: sockets, session, credentials, timers, row | |
| `EmployeeNotifications` | one event's notifications to employees | |
| `OtpRelay` | codes and compensations of one order, the accounts in stock | |
| `Automations` | one automation, its runs and the merchant's requests | |
| `ElementTracking` | visitors' events on their way into the table | |
| `MCServices` | instances of the nine modules above; one of them is the subject of a behaviour | those nine |
| `MC...` | instances for TLC | the module it is named after |
| `SumTheorems` | facts about sums over finite sets | `FiniteSetTheorems`, `TLAPS` |
| `CampaignProofs`, `TemplateSchedulerProofs`, `WebhookIngestProofs`, `SubscriptionProofs` | theorems and their proofs | the module it is named after, `TLAPS` (the first two `SumTheorems`) |
| `RowCopiesProofs` | theorems about the services whose handlers load rows and write what they made of them | `StoreTokens`, `Automations`, `OtpRelay`, `OrderMirror`, `TLAPS` |
| `ConversationProofs` | theorems about the two services that keep a conversation going | `AiReplies`, `WhatsAppSession`, `TLAPS` |
| `ServicesProofs` | theorems about the services that do a thing once, and about the instance of all nine | `MCServices` (hence `TemplateDispatcher`, `EmployeeNotifications`, `ElementTracking`), the two modules above |

`Campaign`, `TemplateScheduler` and `WebhookIngest` each define
`Delivery == INSTANCE OnceDelivery` and `DeliversOnce == Delivery!Spec`, so
one abstract specification is refined three times: by customers of a campaign,
by rows of the scheduler, and by jobs of the webhook queues. In `OnceDelivery`,
`sends[i]` counts the deliveries of an item and `excuses[i]` those the system
cannot know of (the process died, or the answer was lost, after the effect).
`Deliver` is enabled only while `sends[i] <= excuses[i]`.

Exact lines for each definition are in `PROJECT.json`, "map". In outline:

**`Campaign`**: `row` is the table row; `job`, `failures`, `stalls` are BullMQ's
per-job bookkeeping; `pc`, `copy`, `exec` are the locals of each request and of
the cron tick (`copy` is a loaded entity: `UpdateSave` writes all of it back,
which is how a stale save overwrites counters); `wpc`, `wjob`, `threw` are the
processor's slots. `Pause`, `Cancel`, `Activate` are single statements. `resume`,
`remove` and `update` are a load and a write (`ResumeLoad`/`ResumeWrite`, ...).
`executeNow` is `ExecuteLoad` or `ExecuteRefused`, `ExecuteActivate`, then
`ReadPage` and `AddJob` until a short page, then `SetTotal`. The cron tick is
`CronPick`, the same execution, and `CronFail` where it throws. A worker is
`TakeJob`, the check (`LoadStopped`, `LoadOverThreshold` with `AutoPause`,
`LoadPasses`), `Send`, `Unreachable` or a failure, the counter, the completion
check, and `Settle`, where BullMQ decides what becomes of the job.

**`TemplateScheduler`**: `rows`, `target` (customer and reference), `job`,
`failures`, `stalls`; scheduling calls (`Schedule`, `CheckLimit`, `Insert`,
`AddJob`, `Link`), cancelling listeners (`EventArrives`, `FindPending`,
`RemoveJob`, `SaveCancelled`), workers (`TakeJob`, `LoadSkips`/`LoadPasses`,
`FindTemplate`, `FindChannel`, `Send`, `MarkSent`, `MarkFailed`, `Settle`), and
an environment that edits templates and disconnects the channel.

**`WebhookIngest`**: one row per event (the idempotency key is unique), one
`Original` job and numbered retry jobs per event; requests (`Deliver`,
`CheckDuplicate`, `FindStore`, `Insert`, `AddJob`), operators (`AskRetry`,
`AddRetry`, `MarkRetry`, `AskCancel`, `Cancel`), workers per platform (`TakeJob`,
`Start`, `Handle`, `Save`, `Announce`, `Settle`, and the catch path). `Handle` is
the whole handler as one step: what a handler does to orders and customers is
the mirror's matter, and here it counts as one effect.

**`Subscription`**: `row` (subscriptions in order of creation), `tenant`, `on`
(features), `now` (a bounded clock); the sweep's locals `spc`, `since`, `due`,
`left`; a call's locals `cpc`, `held`, `copy`, `until`, `wants`. The sweep reads
its four lists one after the other (`ListPeriods`, `ListEnds`, `ListTenants`,
`ListFree`), then for the tenant: `Check`, `ExpireRows`, `Suspend` and one
`StopFeature` per feature. Tenants meet only in the loop of the sweep, and the
time it spends on others is already any delay between two statements, so one
tenant is modelled. Salla's events (`SallaEnded`, `SallaTrial`, `SallaPaid`)
write the tenant alone, as the code does.

**`TemplateDispatcher`**: each call takes one of three paths. `Diagnose`,
`Claim`, `GiveUp`, `Choose` and `Dispatch` are `dispatch`: the key is tested and
set in one step, and the `finally` deletes it when nothing went out. `TestRelay`,
`Resolve`, `BuildVariables`, `RelayOne`, `EndRelay` are the relay, which tests
before its awaits and sets after them. The ages of keys and calls are counted in
ticks; `Restart` empties the map.

**`OrderMirror`**: `history` is what the platform sends of one order, any
sequence of webhooks it may send (`MaySend`: updates that are not changes of
status are Salla's, payments Zid's, a webhook named after a status comes with
it), `StatusEvent` the event its table names for a status; `orders` and
`customers` the rows; a handler begins in any order (`Begin`),
decides whether an update is a change of status (`HandleOrderUpdated`), finds and
saves the customer, finds and saves the order (with `Syncs` for the create path
taken when nothing is found), or updates it by SQL (`UpdateStatus`, Zid's changes
of status and payments). A webhook has a `slug`, the status its row is read from,
and a `named`, the one its event is read from: Zid's event also looks at
`display_status`, which the row does not (`RowSlug`, `ZidEventSlug`). A payload
without a status has the slug "none", which the tables turn into CREATED, and one
that looks unpaid (`unpaid`, `hasPendingPaymentSignal`) is taken for a pending
payment before its status is looked up (`Resolved`). The slugs are one
representative of each way the tables of the code treat a status.

**`AiReplies`**: time passes in ticks of fifteen seconds, after everything quick
is done. `LoadConversation`, `StoreMessage`, `QueueSafetyNet` receive a message;
`Listen` filters and buffers it or recovers the bot; `Flush` begins a reply;
`Generate` is `processMessage` with the row's loads and saves apart; `SafetyNet`
is the delayed job; `AgentLoad` and `AgentSave` an employee. `UpdateCustomer` is the
save of the whole row as it was loaded, when a name, a phone or an address has
changed. `SendReply` is `sendMessage`'s three attempts, of which each may have
reached the customer though it threw; `RecordReply` writes the row of the reply,
SENT after an attempt that returned and FAILED otherwise. `DropEmpty` is the
completion with no text, after which nothing is sent.

**`StoreTokens`**: `Load` begins a handler with its copy; `EnsureValidToken`,
`RefreshAccessToken`, `SaveTokens`/`SaveExpired`, `SyncSallaStore`, `SaveSync` are
a synchronisation; `SaveEdit` every other save, `SoftRemove` and `Recover`
deletion. `seen` says how many endings a copy knows of.

**`WhatsAppSession`**: a slot is a call of a request, of a connection event's
handler or of a timer; each event is taken with the session the map holds at the
time. `CleanUp` and `Wipe` are the two halves of `fullCleanupSession`. `Qr` begins
the drawing of the session's code and `QrDrawn` marks that session, whatever has
become of it; after `open`, `SaveSessionToDB` follows the row of `RecordConnected`.

**`EmployeeNotifications`**: a delivery of `webhook.processed` passes the window,
finds the rules, and per rule and recipient writes a row and then a job; a job is
sent, then recorded; `EditRule`, `MarkAsRead` and `NotifyCrash` come between.
`SendExternal` may throw before the message went out or after; `unheard` counts the
messages that went out though the call threw. `RefuseShortPhone` is the early
return for a phone that cannot be one.

**`OtpRelay`**: `CheckLimit` counts, `SelectForUpdate` finds accounts and
`LockAccounts` waits for them as PostgreSQL does (rows that have changed
meanwhile are looked at again), `AssignAccount` commits, `SaveRecord` writes what
the next count will see; deletions look at an account and remove it later.

**`Automations`**: a hand is an event or a request: `TriggerAutomations` finds the
automation, `LoadAutomation` loads and checks it, `ExecuteAction` sends,
`SaveRun` saves the copy (again when that fails); `Request` and `Respond` are the
merchant's load and write.

**`ElementTracking`**: `eventBuffer` and `inFlush` are sequences; `FlushBuffer` is
the timer with its lock and swap, `InsertChunk` and `InsertFails` one insert
statement, `OnModuleDestroy` and `Exit` a graceful stop.

**`MCServices`**: the nine modules share no state, so their instances are
checked side by side: `subject` says which of them a behaviour is about, and the
variables of the others keep one initial state. There is no product of states,
and the names of the nine modules are distinct.

## 3. Modelling conventions

- One action is what runs between two awaits: one statement, one queue call or
  one call to a provider. A failure is an action of its own (`...Fails`), drawn
  from `MaxFaults`; `Crash` loses every local and stalls every active job.
- BullMQ is external: a job added under an id that exists is ignored, an attempt
  that throws is retried until `attempts` is reached, an active job whose process
  died is returned until `maxStalledCount`, then failed. The constants
  `MaxAttempts` and `MaxStalls` carry them. Kept jobs are never expired.
- Observation variables (`used`, `sends`, `excuses`, `late`, `stopped`,
  `paidUntil`, ...) are read by no guard except to respect a bound. Every bound is
  a constant named `Max...` (or `Horizon`), and none of the theorems depends on
  its value.
- Text, formatting, provider payloads, logging, signatures and the derivation of
  keys are left out; a customer, an event, a template or a feature is a value.
- A window or a delay is counted in ticks of the largest step that divides the
  delays of the module; what the code does within milliseconds is done before
  time passes only where a comment says so.
- Deadlock is not checked in these runs because the bounds may be spent, after
  which there really is nothing left to do.
- Symmetry is used only in runs without liveness, over interchangeable workers,
  requests and listeners, and in `services` over the two questions and the two
  replies of `AiReplies`. Customers are numbered, since pages are ordered by id,
  and are never permuted.

## 4. The runs

| run | checks | instance | distinct states |
|---|---|---|---|
| `campaign_faults` | `StopTakesEffect`, `ErrorBudget`, `SentNeverOverstated`, `DeliversOnce` | 2 customers in pages of 1, 2 workers, 1 request and the cron tick, error threshold 1, 2 attempts, 1 stall, 1 fault | 2.99 M |
| `campaign_paging` | `ExecutionCoversAudience` | 3 customers, 2 changes of the audience, request and cron execute at once, 1 fault | 282 k |
| `campaign_liveness` | `JobsSettle`, `ScheduledIsPickedUp` | 1 customer, 1 worker, 2 requests, 1 fault, `FairSpec` | 332 k |
| `campaign_resume` | `ResumeForgetsNobody`, violated (section 7) | the smallest instance that shows it | |
| `scheduler_faults` | `OneReminder`, `PendingHasJob`, `CancelledStaysSilent`, `DeliversOnce` | 2 rows of one target, 2 calls that may overlap, 1 cancelling event, 1 worker, 2 attempts, 2 faults, any delay | 4.37 M |
| `scheduler_repeats` | `SameTemplateOnce`, violated (section 7) | 2 overlapping calls for one order, no fault | |
| `scheduler_liveness` | `PendingSettles` | 2 calls at once, limit 1, 1 template edit, no fault, `FairSpec` | 514 k |
| `ingest_faults` | `ProcessedMeansHandled`, `FailedMeansUnhandled`, `DeliversOnce` | 1 Salla event delivered twice at once, 2 operators, 1 retry by hand, 2 workers, 2 faults | 349 k |
| `ingest_liveness` | `QueuedIsAnnounced` | a Zid order and a Salla notice, both queues, 1 operator, 1 retry by hand, 1 fault, `FairSpec` | 120 k |
| `subscription` | `SuspendedIsStopped`, `AccessUntilPeriodEnd`, `CancellationEnds`, `FreeIsStopped` | 2 subscriptions, 2 calls, 1 sweep, 1 feature, clock to 2, 3 requests, 1 fault, `FairSpec` | 964 k |
| `services` | `TypesOK` and the safety properties of the nine small modules, below | per module, below | 2.70 M |
| `services_liveness` | `QuestionsSettled`, `NotificationsSettle`, `EventsLand` | smaller, with fairness, below | 294 k |

The nine parts of `services`:

| module | properties | instance |
|---|---|---|
| `AiReplies` | `NoReplyIntoSilence`, `OneReplyPerMessage`, `SilenceKept` | 2 questions, 2 replies in the making, 1 handoff, and 1 trouble: a crash, an error, a send that goes wrong or unheard, an edit by an employee or a change of the customer's data |
| `TemplateDispatcher` | `OncePerWindow`, `KeyMeansMessage` | 3 calls on one path or on two, 3 templates of the three modes, phone known or not, window of 1 tick, 1 error |
| `EmployeeNotifications` | `RowTellsTruth` | the event delivered twice, 1 rule, 2 recipients of whom one cannot be reached, 2 attempts, 1 slip (a fault, an edit or a send unheard), 1 reading |
| `OtpRelay` | `OneOwnerPerAccount` | 3 requests (codes, automatic, by hand), 2 accounts, 1 per order, 1 deletion, 1 failure |
| `StoreTokens` | `TokenStillGood`, `EndedStaysEnded` | 3 handlers, 3 pairs of tokens, 1 expiry, 1 outage |
| `WhatsAppSession` | `OneSocket`, `DeadIsReplaced`, `RowAgrees` | 2 sockets, 2 calls, 2 timers, 1 retry, 2 requests, 1 loss |
| `OrderMirror` | `MirrorCurrent` | 8 histories of 3 webhooks, of both platforms, with and without a status, 1 failure |
| `Automations` | `OffMeansOff` | 4 runs or requests, 2 actions, 1 blunder |
| `ElementTracking` | `EventsKept`, `RecordedOnce` | 3 events of which one does not fit its column, chunks of 1, at most 2 put back, 2 failed flushes, 1 stop |

`services_liveness` takes a question and a picture under three settings of the
store; one delivery, two rules, three recipients and two attempts where the code
has three; three visitors' events of which one does not fit its column, and one
failed flush. Once the bound on failed flushes is spent, a batch that a misfit holds up stays
where it is, which stands for failing for ever.

What they show:

- **Campaigns.** The fixed job id is what keeps two executions from sending
  twice (`DeliversOnce`); a stopped campaign lets out at most the message each worker had already let
  past the check (`StopTakesEffect`); the error threshold is overshot by no more
  than the other workers in flight and the attempts whose read failed, unless a
  whole-row save puts old counters back (`ErrorBudget`); the offset pages miss
  nobody as long as nobody leaves (`ExecutionCoversAudience`); `sent` never
  exceeds what was delivered.
- **Delayed sends.** A row goes out once per excuse, even when the job runs
  before the row is linked to it. `CancelledStaysSilent` holds for a cancel saved
  while nobody else is at work on the row; the other case is in section 7. A target
  is reminded once through faults, cancellations and overlapping calls, but for
  the three ways in which a row comes to be repeated that `OneReminder` names
  (`repeatable`): a call overtaken between its check and its insertion, a settled
  row that had been sent or was about to be, a late link. `scheduler_repeats` shows
  the first of them. A pending row has a job or somebody about to settle it, but
  for the rows a named fault or a late link has orphaned.
- **Webhooks.** Two simultaneous deliveries leave one row, thanks to the unique
  index behind the check. A processed row has been handled (Salla). A failed row
  has had no effect but excused ones, also after retries by hand, unless of two
  jobs of the event one ran the handler and another failed; what was answered
  "queued" is processed and announced.
- **Subscriptions.** A suspended tenant's features are all about to be switched
  off, or are recorded as missed by a failed statement, a crash or a request that
  was already past the interceptor; a period given while nothing else was under
  way lasts; cancellations and lost plans are carried out by some later sweep.
- **AI replies.** The buffer and the row copied into the event carry no message
  past a handoff: a reply into a silence was begun before it. A message is
  answered by two replies only when the safety net looked while the first was still
  in the making, or left no row; the text of one reply goes out a second and third
  time only after an attempt that reached the customer and threw. The first time after a handoff that a
  conversation returns to the bot early, it is by the hand of somebody whose copy
  is older than the handoff. Every question is
  answered, left to a human, left with a row that says FAILED, or dropped by a
  crash, an error or an empty completion that the property names.
- **Dispatcher.** Testing and setting the key in one step is what makes store
  events unique within the window; the relay's later set is excused only while
  two relays overlap. A key that blocks has a message or a call behind it.
- **Mirror.** One by one and in order, the rows end up current and announced;
  the property is about the tables of the code, and names the statuses on which
  they disagree, and the updates that only repeat such a status. Current means
  what the code makes of the newest payload: one without a status the row is read
  from sets the row back to CREATED, whatever its event announces.
- **Stores.** One handler at a time keeps the newest pair in the row; an ended
  store comes back by an authorisation, by recovery, or from a copy older than
  the ending.
- **WhatsApp.** A second listening socket needs two calls that replace the
  session at once; a closed session always has somebody to replace it or is given
  up; undisturbed, the row says what the session is.
- **Notifications.** A row says SENT of one confirmed message (but for a phone
  too short) and FAILED of none, and no second one is confirmed; a message that
  went out though its call threw may stand behind either, and there are never
  more copies of it than attempts. Every row settles.
- **Inventory.** The row lock and the second look at rows that changed while it
  was awaited give an account to one request.
- **Automations.** A switched-off automation comes on, or sends, only by an
  activation or by a call that loaded it while it was on.
- **Conversion elements.** The swap and the return of the batch lose nothing that
  came during a flush; an event is recorded twice only by a flush that failed
  after its chunk, or by a crash before its job was completed; and it is recorded
  in the end, unless the buffer overflowed, the process took it along, or a value
  that does not fit waits ahead of it or in its insert statement (`HeldUp`).

**The bounds.** Two attempts distinguish a retry from a final failure, and one
stall a return from a final one. Two workers with two customers, rows or jobs
give every pairwise interleaving of the row's shared counters and of two jobs;
the properties speak of one item and of pairs of actors. Three customers in pages
of one are the least for which one who leaves can shift another across a page
boundary. Two calls and one sweep are every pair of writers of one tenant's rows,
and the clock's three dates are before, at and after the end of a term. One
fault (two where the run affords it) lets a crash follow a failed statement. The
safety results do not rest on these bounds where section 6 proves them.
In the small modules, two handlers, calls or hands are every pair of a stale copy
and the write it undoes, and a third (a fourth for `Automations`, where one must
switch it on before one switches it off while a run is under way) lets another
come between; one tick of window against ages of none, one and more is before,
at and after the boundary; chunks of one with three events give a first, a middle
and a last chunk; a buffer limit of three makes a batch fit beside one new event
or overflow. `subscription` was also checked with two features and two calls under `Spec`
(1.23 M states) and with two features and one call under `FairSpec` (267 k).

Each property of a passing run has a mutant in `PROJECT.json`: a definition of
the model with a plausible bug of that code (a dropped guard, a missing write, a
swapped order) under which the run finds the property violated. The mutated forms
stand beside the definitions they change, under a comment that says so. The
type invariant of the nine small modules is `TypesOK`; those of the four larger
ones, and the invariants `AtMostOnce` and `OncePerRow`, are theorems (section 6)
and no run repeats them.

## 5. Fairness

- *A begun request ends* (`WF` of the steps of a request, scheduling call or
  listener): the event loop serves every continuation, and statements return
  or throw. No fairness is assumed of a request's arrival.
- *The processor takes jobs* (`WF` of a worker's step): BullMQ polls as long as
  the process lives; after a crash the container is restarted
  (`docker-compose.yml`, `restart: unless-stopped`).
- *The cron fires* (`WF` of `CronStep`, `SweepStep`): `@Cron` every minute and
  every hour, for ever.
- No fairness of failures, crashes, audience changes, edits or the clock. Only
  weak fairness is used: a continuation stays enabled until it runs.
- `Prompt` (only in `scheduler_liveness`) says that a scheduling call returns
  before the delay elapses; delays are a minute and more.
- `ServicesFairness`: timers fire and continuations run (`WF` of the steps of
  AI replies, of a delivery's loop over the rules, of the flush timer and its
  statements), queues hand out jobs (`WF` of `Work`, `SafetyNet`,
  `ProcessEvent`), time passes (`WF` of `ReplyTick`), a stop once begun ends (`WF`
  of `Exit`). Customers, visitors, employees, crashes and errors owe nothing.

## 6. What is proved

The proofs hold for every value of the constants that satisfies the module's
named assumption: any number of customers, rows, events, workers, handlers,
sockets and faults. Every invariant and every action property of a passing run is
the conclusion of a theorem. One of them has a hypothesis beside the assumptions:
`ProcessedHandled` is about Salla's events alone (`SallaOnly`), since a retry by
hand puts a Zid event on Salla's queue (section 7).

| module | theorem | states |
|---|---|---|
| `CampaignProofs` | `TypeCorrect` | `Spec => []TypeOK` |
| | `MessagesAtMostOnce` | `Spec => []AtMostOnce` |
| | `ImplementsOnceDelivery` | `Spec => DeliversOnce` |
| | `LateMessages` | `Spec => []StopTakesEffect` |
| | `FailuresBounded` | `Spec => []ErrorBudget` |
| | `SentCounterSound` | `Spec => []SentNeverOverstated` |
| | `ExecutionsCover` | `Spec => []ExecutionCoversAudience` |
| `TemplateSchedulerProofs` | `TypeCorrect` | `Spec => []TypeOK` |
| | `RowsSentOnce` | `Spec => []OncePerRow` |
| | `ImplementsOnceDelivery` | `Spec => DeliversOnce` |
| | `CancellationHolds` | `Spec => CancelledStaysSilent` |
| | `RemindedOnce` | `Spec => []OneReminder` |
| | `JobsFollowRows` | `Spec => []PendingHasJob` |
| `WebhookIngestProofs` | `TypeCorrect` | `Spec => []TypeOK` |
| | `ImplementsOnceDelivery` | `Spec => DeliversOnce` |
| | `ProcessedHandled` | with Salla's events alone (`SallaOnly`), `Spec => []ProcessedMeansHandled` |
| | `FailedUnhandled` | `Spec => []FailedMeansUnhandled` |
| `SubscriptionProofs` | `TypeCorrect` | `Spec => []TypeOK` |
| | `SuspensionStops` | `Spec => []SuspendedIsStopped` |
| | `PaidPeriodLasts` | `Spec => []AccessUntilPeriodEnd` |
| `ConversationProofs` | `RepliesTypeCorrect` | `ReplySpec => []RepliesTypeOK` |
| | `SilentBegun` | `ReplySpec => []NoReplyIntoSilence` |
| | `AnsweredTwice` | `ReplySpec => []OneReplyPerMessage` |
| | `SilenceLasts` | `ReplySpec => SilenceKept` |
| | `SessionTypeCorrect` | `WhatsAppSessionSpec => []WhatsAppSessionTypeOK` |
| | `OneSocketListens` | `WhatsAppSessionSpec => []OneSocket` |
| | `DeadSessionReplaced` | `WhatsAppSessionSpec => []DeadIsReplaced` |
| | `RowAgreesAtRest` | `WhatsAppSessionSpec => []RowAgrees` |
| `RowCopiesProofs` | `StoreTokensTypeCorrect` | `StoreTokensSpec => []StoreTokensTypeOK` |
| | `RowHoldsNewestPair` | `StoreTokensSpec => []TokenStillGood` |
| | `NoSilentRevival` | `StoreTokensSpec => EndedStaysEnded` |
| | `AutomationsTypeCorrect` | `AutomationsSpec => []AutomationsTypeOK` |
| | `OffStaysOff` | `AutomationsSpec => OffMeansOff` |
| | `OtpTypeCorrect` | `OtpRelaySpec => []OtpRelayTypeOK` |
| | `AccountsGivenOnce` | `OtpRelaySpec => []OneOwnerPerAccount` |
| | `MirrorTypeCorrect` | `OrderMirrorSpec => []OrderMirrorTypeOK` |
| | `MirrorFollows` | `OrderMirrorSpec => []MirrorCurrent` |
| `ServicesProofs` | `DispatcherTypeCorrect` | `DispatcherSpec => []DispatcherTypeOK` |
| | `ReachedOncePerWindow` | `DispatcherSpec => []OncePerWindow` |
| | `KeyStandsForMessage` | `DispatcherSpec => []KeyMeansMessage` |
| | `NotificationsTypeCorrect` | `NotificationsSpec => []NotificationsTypeOK` |
| | `RowSaysWhatHappened` | `NotificationsSpec => []RowTellsTruth` |
| | `ElementsTypeCorrect` | `ElementTrackingSpec => []ElementTrackingTypeOK` |
| | `NoEventLost` | `ElementTrackingSpec => []EventsKept` |
| | `EventsRecordedOnce` | `ElementTrackingSpec => []RecordedOnce` |
| | `ServicesKeepSpecs` | `ServicesSpec` implies the specification of each of the nine modules |
| | `ServicesTypeCorrect` | `ServicesSpec => []TypesOK` |

**The argument behind "at most once"** is the same in the three queues and is
not visible in the property itself. `AtMostOnce` is not inductive: a state with
two workers in one job, both before the send, satisfies it and violates it two
steps later. The strengthening says who may still send: a busy worker holds an
active job (`WorkersHoldJobs`), no two hold the same one (`OneWorkerPerJob`), and
an item whose message may still go out, because its job is not yet taken or its
worker has not yet sent, has had only excused messages (`UnsentIsUnsent`).
`Campaign` also needs that an attempt throws only after it failed
(`ThrowsAfterError`), or the retry of a successful attempt would send again.
`TemplateScheduler` needs that a call about to add a job holds a row nobody else
holds (`CallsHoldRows`) and that jobs have rows (`JobsHaveRows`);
`WebhookIngest` the same of requests. `SentIsSent` (the converse, that a worker
past its send has an unexcused message to show) is what lets `excuses` grow only
with `sends` and so makes every step a step of `OnceDelivery` or a stutter.

**Stopping.** `LateInv`: a worker that has sent its one late message is past the
send, and the campaign is still stopped.

**The error budget.** `BudgetInv` adds to the failures in the row the workers that
may still add one, past the status check or with an error not counted yet
(`Pending`). A worker joins them only after reading a row below the threshold, or
by failing to read it, which `used.faults` counts; so the sum stays below the
threshold, the workers and the faults together. The property speaks of the row
alone, and is not inductive.

**The sent counter.** `SentInv` has the messages that are out and not yet counted
(`Uncounted`) on the other side of the inequality, and says the same of the copy
each caller will write back: an old copy has counted fewer messages, and nobody
ever takes one back. The total of messages is a fold over the customers.
`SumTheorems` proves of such folds, for every finite set, that they are a number,
that one element more adds its value, and that they are monotone. Induction on
the size of the set would need a theorem with an operator as parameter; instead,
each lemma takes the least size at which it fails (`Least`, from the
well-foundedness of the naturals, which the library states without one) and
removes one element.

**Coverage.** `CoverInv`: while the pages are read, whoever was in the audience at the
beginning and has a rank up to the offset is in the batch in hand or holds a job.
Ranks only fall when somebody leaves, which the property excludes; they rise when
somebody joins, and then a page repeats. A short page means that the offset has
passed every rank.

**Reminders.** `ReminderInv`: of each target at most one row counts as a duplicate
(pending or sent, `Live`) and is not excused (`OneExact`), and there is none while
a call that nobody overtook is between its duplicate check and its insertion
(`ChecksHold`). A row cancelled or refused has had only excused messages and no
worker past its status check (`SettledSilent`); else it is `repeatable`. The
property sums messages over the rows of a target, so the last step compares two
sums that differ in one row (`ReminderTotal`, with `SumTheorems`).

**Pending rows.** `PendingInv`: an attempt that ends and leaves its row pending will
be made again, unless the row is orphaned (`AttemptsGoOn`), and a listener removes
only jobs of linked rows it has found (`ListenersFind`). A worker that finds its
row settled ends its job; should the row's own call link it only then, the row is
pending again without a job, and `orphaned` has it from there on.

**Failed rows.** `FailedInv`: no handler runs under a row that says failed, unless
another job of the event has failed. The catch of a job follows only attempts
whose effects are excused, so a job alone cannot write "failed" over its own
effects; the retry of an operator is a second job, and may.

**Cancelling.** `SilentInv`: a row in `stopped` is not pending, and no worker
that holds it stands between the check and the send.

**Processed rows.** `HandledInv` follows a job from the effect to the save, so
that nothing writes PROCESSED on behalf of a job without effects.

**Paid periods.** `RunningHasNoEnd` and `PeriodHeld` say what a period that lasts
rests on: the tenant's end date and the latest row's dates lie beyond it and no
sweep holds the tenant in its list. The lemma `NoneListed` shows that in such a
state none of the four queries finds the tenant.

**Windows.** `DispatcherInv`: while no call has outlived the window, at most one
call of a path is past the claim of its key (`OneHolder`), the key is as old as
that call's clock (`KeyOfHolder`) or as the youngest call that reached the
customer (`KeyOfServed`), and a relay between test and set is alone or has excused
its path (`Resolving`). That a second call is served within the window would need
the key to be gone, and these parts say who still stands behind it.

**Notifications.** `NotesInv`: a row has one job at most (`QueuedOnce`), and what a
row says follows from how far its job has come and how many attempts it has had
(`Told`, `Counted`), until a lost statement or process marks it. Both speak of the
messages whose call returned (`Confirmed`), of which a job that may still send has
none; the others are bounded by the attempts made.

**Accounts.** `OtpInv`: an account that is available has no owner
(`FreeHasNoOwner`); a request past its lock holds accounts that are still
available (`LockedAreFree`) and no other request holds them (`LocksApart`); what
is assigned is owned by the request that took it (`TakenIsOwned`). The property
alone does not say that an account seen free stays free until the commit.

**Copies of rows.** `TokensInv` and `AutomationsInv` have the same core: every copy
counts the endings it knows of, and a copy that knows of all of them is not
active while the row is ended (`CopiesKnow`, `CopiesAreOld`). Whatever handler saves
such a copy, the row stays ended; a copy that would revive it is older than the
ending, as the property says. `Undisturbed` follows the newest pair of tokens
from Salla's answer through the copy to the row. `RunsAreBounded` bounds what a
run sends.

**AI replies.** `BegunInv`: a reply whose conversation was silent when it began has
not got past its check. `AnsweredInv` follows a message that the safety net has not
seen in memory: it is in one place there (`InOnePlace`: the listener, the buffer,
one reply in the making), and once it is answered, the row that says so is
written, or about to be (`AwaitsRecord`). A reply in the making has reached the
customer at most as often as it has been tried (`TimesSent`), and when it has
before its last attempt, `resent` says so; hence one answer, or three. `HandoffKnown`
compares all copies of the conversation's row that are around (in events, with an
employee, with the replies) with the handoffs: until the bot gets the
conversation back, the copies that know of the last handoff all say HUMAN. The
proof showed that this ends with the first return: a row loaded after it may
bring the conversation back again, and `SilenceKept`, which used to speak of every
return, now speaks of the first.

**WhatsApp.** `SocketInv`: while no two calls were replacing the session at once,
only the session's socket listens, and there is no session while a call is
replacing it. `ClosedInv` says of the calls that hold a session which handlers
they are. `RowInv` follows the one call under way through each of its kinds
(`CallAgrees`): what it has done to the session, to the credentials on disk and to
the row, and what it is about to write; between calls, row and session agree up
to a timer or a handshake (`Agreed`). `RowAgrees` is what remains of that at rest.
`DrawingInv` is there for `QrDrawn`, which would hide that a session was given up:
the session whose code is being drawn is not paired, its socket closes for the
first time, and so there is a timer, or a handler about to arm one. That needs
`MAX_RETRIES` to be at least 1.

**Mirror.** `MirrorInv`: in order and without errors, the newest webhook is the only
one at work (`OneByOne`), it will save the row it has found or the first
(`SavesFound`, which also says of an update that is no change of status that the
row already has its status, or that it came without one), and the newest that is over has left its status in the row and, if
it announces one, in the announcement (`LeftBy`). The proof attempt refuted the
property as it was stated before: an order created as shipped and then updated
with the same status is announced by neither webhook, as the creation announces
only itself and the update sees no change. TLC confirmed that on a history the
run did not have; the history is in the run now, and `Repeats` names the exception.

**Events of visitors.** `FlushInv` ties the lock to the flush under way, its written
prefix to rows, and the last flush to the buffer; `KeptInv` says where an event is
whose job was taken; `OnceInv` that it is in memory once, and has an unexcused row
only when it is neither in the buffer nor in the part of the flush that is not
written yet (`Unwritten`). The sequences are handled by lemmas on appending, on
putting a batch back and on taking a chunk.

**The instance of nine.** A step of `MCServices` is a step of its subject and leaves
the variables of the others alone (`ServicesStepParts`). Hence its behaviours are
behaviours of each module (`ServicesKeepSpecs`), and the nine type invariants give
`TypesOK`.

## 7. Where the code departs from what it says

Two runs keep a counterexample each; `PROJECT.json`, "findings", quotes the lines.

- `campaign_resume` (`campaigns.processor.ts:65`): a job taken during a pause
  completes without sending and its id then blocks the resumed execution's job,
  so these customers never get the message of a pause described as temporary.
- `scheduler_repeats` (`template-scheduler.service.ts:79`): lines 8 and 78 say that
  a template is not sent twice to a customer for one reference; the check and the
  insertion are two statements with neither lock nor index, and two overlapping
  calls pass the check, insert, and send.

Seen while modelling, and kept out of the runs:

- *Campaigns.* `stats.failed` counts attempts and `totalTargeted` customers, so a
  campaign completes early (`campaigns.processor.ts:135`, 293); early returns skip
  the completion check (92); the scheduler marks FAILED a campaign that somebody
  else started (`campaigns.scheduler.ts:50`) and executes one that was cancelled
  after it was listed (`campaigns.service.ts:260`); a campaign without a date is
  resumed as SCHEDULED and never picked up (240); a customer who leaves the
  audience between two pages makes the offset skip another (283).
- *Delayed sends.* A cancel saved from an old read turns a
  sent row into a cancelled one (`template-scheduler.service.ts:221`), and the second save of a scheduling call
  turns a cancelled row back into a pending one (156); a queue error leaves a
  pending row without a job (141); the limit counts sent rows only (489); the row is
  marked failed before the error is rethrown "so that BullMQ retries", and the
  retry skips rows that are not pending (`template-scheduler.processor.ts:127`);
  a local phone number is not normalised when cancelling (289); templates in draft are
  scheduled and then refused (`template-scheduler.processor.ts:84`).
- *Webhooks.* The redelivery of an event whose row failed hits the unique index
  (`salla-webhooks.service.ts:88`); marking a row for retry overwrites a
  processed one (452); a cancelled event is still handled by the job already
  queued (`salla-webhook.processor.ts:62`); a duplicate is answered as such while
  the first is still being processed (`salla-webhooks.controller.ts:168`); the
  retry of a Zid event is put on Salla's queue, which knows no such event, and the
  row says processed (`salla-webhooks.service.ts:430`).
- *Subscriptions.* A tenant that renews after it was listed is suspended all the
  same (`subscription-expiry.service.ts:136`; the check at 152-161 is not atomic
  with what follows); `createSubscription` leaves a suspended tenant suspended
  (`billing.service.ts:114`), though the interceptor asks it to renew; two such
  calls insert two active rows; an old cancelled row ends a newer subscription of
  the tenant; a sweep that dies between expiring and suspending strands the
  tenant (166-180); a feature whose statement failed stays on; tenants past
  `trialEndsAt` and rows with `autoRenew` are in none of the four lists; a Salla
  renewal without an end date keeps the past one.
- *Dispatcher.* Line 1743 takes a key for a message that succeeded, also when the
  call behind it fails later; a call that outlives the window deletes, in its
  `finally`, the key of a later one (`template-dispatcher.service.ts:1849`).
- *Mirror.* Zid's two status tables disagree, and so do Salla's about a merchant's
  own statuses, which are announced but stored as CREATED and announced again with
  the next update; a Zid payload with `display_status` alone announces that status
  and stores CREATED, though the comments list the field among those a status is
  read from (`zid-webhook.processor.ts:363`, 1226; the row is read at 1153), and an
  `order.updated` of Salla without a status sets the row back to CREATED
  (`salla-order.handler.ts:122`, 362); Zid's updates look for the id and the tenant, not the store;
  events are emitted even when the row could not be written; two first webhooks
  at once create two rows.
- *AI replies.* A handoff asked for by the customer is emitted twice; the polite
  reply to a picture ignores a human takeover, and its row makes the safety net
  believe the question before it was answered; the net's comment says 5 seconds
  where its delay is 45; a generation longer than the filter and the net leads to
  a second answer; a reply whose first attempts threw after it went out is sent
  again, up to three times in all, where the log speaks of two attempts
  (`message.service.ts:541-588`), and its row may say FAILED all the same; a change
  of the customer's name or phone writes back an old handler (367-386); the transitions of `conversation-manager.service.ts` are called
  by nobody; assigning a conversation does not make a human its handler.
- *Stores.* `save` skips undefined columns, so that disconnecting and uninstalling
  never clear the tokens; the second of two overlapping refreshes fails and writes
  the old pair back; any webhook of the merchant revives a deleted store, and so
  does the save of a copy loaded before the deletion; a sync begun before an ending
  sets the store ACTIVE.
- *WhatsApp.* A new session begins with `retryCount` 0, so `MAX_RETRIES` ends no
  series of failures; deleting a session does not disarm its timer, which may
  revive it; a restore that throws in the timer leaves the row CONNECTED without a
  session; a purged duplicate with conversations keeps its row CONNECTED; a status
  poll may write CONNECTED after a logout.
- *Notifications.* A phone that is too short is marked FAILED and then SENT; the
  count of sent notices includes those skipped; a failed `queue.add` leaves a
  PENDING row; a failed update after the send sends once more; an
  answer lost after the message went out leaves FAILED behind a delivered message
  and repeats it (`notification.processor.ts:152`, `whatsapp-baileys.service.ts:615`).
- *Inventory.* `getOne` sets no LIMIT, so a request locks every available account;
  a deletion removes an account assigned since it looked; an error after the
  assignment leaves an account used up with no record; the limit is counted
  outside the lock, so simultaneous requests may exceed it.
- *Automations.* A run's save can undo a deactivation made meanwhile or insert a
  deleted automation again (`automations.service.ts:362`); three kinds of action
  emit events nobody listens to; an action without a phone or a channel counts as
  done.
- *Conversion elements.* A chunk that fails puts the whole batch back, the written
  chunks included (`element-tracking.service.ts:270`); no length is checked before
  the columns of 100 characters, so one value too long makes every flush fail until
  the buffer overflows; the last flush of a stop returns at once if another is
  under way; the comment that counters are "reconciled by daily rollup" is not true
  of the rollup; `completeABTest` does not look at the test's status, so completing
  it twice with different winners pauses both variants.

Hazards that no run checks: a campaign due in the scheduler's list is executed
though it changed meanwhile, and an execution that throws half-way or whose process
dies leaves it ACTIVE (`campaigns.scheduler.ts:44` and 48,
`campaigns.service.ts:268`); completion that is never reached
(`campaigns.processor.ts:95`); a row of a webhook without a job
(`salla-webhooks.service.ts:88`); two subscription requests at once
(`billing.service.ts:114`); a tenant that renews under the sweep
(`subscription-expiry.service.ts:136`); two first messages of a customer, each of
which creates a conversation (`message.service.ts:340`). The models above contain
most of these cases; the code has them, so that a property against them would
only fail.

## 8. What is only model-checked, what is not modelled

Only model-checked: all liveness (`JobsSettle`, `ScheduledIsPickedUp`,
`PendingSettles`, `QueuedIsAnnounced`, `CancellationEnds`, `FreeIsStopped`,
`QuestionsSettled`, `NotificationsSettle`, `EventsLand`), which is out of the
prover's reach, since it rests on fairness and so on what is enabled; and
the counterexamples of section 7. `ProcessedHandled` has the hypothesis that its run
satisfies.

Not modelled inside the modelled components:

- *Campaigns*: the trigger path of automated campaigns (`handleTrigger`,
  `checkTriggerConditions`, `setupTriggerListeners`), the segment rules, the
  spacing of sends, edits of fields other than the body, and the expiry of kept
  jobs after seven days (which would free a job id).
- *Webhooks*: signature checks, the handlers handled inline
  (`app.store.authorize`, `app.uninstalled`), the Zid known-store check, how keys
  are derived, the fallback endpoints. One `MaxAttempts` stands for the five and
  three attempts of the two kinds of job. `Knows` stands for the dispatch on the
  event's name: what matters here is whether a processor has a handler for it.
- *Subscriptions*: payment records, invoices, usage statistics, proration, and
  `processExpiredSubscriptions` (`billing.service.ts:511`), which nothing calls; the
  sweep's pause of campaigns and cancellation of pending sends by SQL, which
  belongs to a composition of `Subscription` with `Campaign` and `TemplateScheduler`. Other tenants, as explained above.
- *AI replies, messaging, inbox*: the first message of a customer (no conversation
  yet), duplicates of the provider, the outgoing queue, the owner's and the test
  mode, what the reply says and how it is found; settings do not change.
- *Dispatcher*: the choice of a template among those of a trigger, the texts.
- *Mirror*: amounts, items, carts, products, reviews.
- *Stores*: Zid, the registration of a new store, the API clients.
- *WhatsApp*: a channel without conversations (whose row may be removed), another
  phone number under one channel, linked identities, the cache of messages. The
  other channels are one HTTP call each.
- *Notifications*: templates, automatic reports, statistics.
- *Inventory*: the counters of the store's configuration, mailbox and Telegram
  polling, screens.
- *Automations*: statistics and texts.
- *Conversion elements*: the rows of elements and their counters, the hourly
  rollup (one SQL statement), A/B tests, the elements' screens.
- *All*: the content of messages, and the database's own failures beyond a
  statement that fails without effect.

The map covers a small share of the lines. Most of the code is create, read,
update and delete over one table, text and prompts, the clients of other
services' interfaces, data transfer objects and migrations: there is nothing in it
that a step of another actor could disturb, and modelling it line by line would
only repeat it.

## 9. Continuing this work

1. Composition: webhook to dispatch to scheduled send, with an end-to-end promise
   "one event, one message"; the expiry sweep's pause and cancel over `Campaign`
   and `TemplateScheduler`.
2. Proofs: the liveness properties could be reduced to invariants (what is enabled
   while something is pending) and those proved.
3. The first message of a customer and the outgoing queue of `modules/messaging`,
   the latter as a fourth refinement of `OnceDelivery`; A/B tests of the
   conversion elements; codes and attempts of `modules/auth`.

Running TLC on a module with one of its configurations, and `tlapm` on a
`...Proofs` module, repeats everything; the longest run takes a little over four
minutes with two workers.
