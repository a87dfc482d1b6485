------------------------- MODULE WebhookIngestProofs -------------------------
(***************************************************************************)
(* Theorems about WebhookIngest: type correctness, that every job runs its *)
(* handler as OnceDelivery has it, that with Salla's events alone a        *)
(* processed row has had its effects, and that a failed row has had none   *)
(* but the excused ones, whoever retries it.                               *)
(***************************************************************************)
EXTENDS WebhookIngest, TLAPS

LEMMA NoJobType == NoEvent \in Events /\ NoJob \in Jobs
<1>1. NoEvent \in Events
  BY IngestAssumption DEF IngestAssumption, NoEvent
<1>2. Original \in 0..MaxRetries
  BY IngestAssumption DEF IngestAssumption, Original
<1> QED
  BY <1>1, <1>2 DEF NoJob, Jobs

LEMMA OriginalJob == \A e \in Events : <<e, Original>> \in Jobs /\ <<e, Original>>[1] = e
  BY IngestAssumption DEF IngestAssumption, Original, Jobs

LEMMA JobEvent == \A j \in Jobs : j[1] \in Events
  BY DEF Jobs

(* Incrementing one value of a function to Nat. *)
LEMMA Increment ==
  ASSUME NEW S, NEW f \in [S -> Nat], NEW x \in S
  PROVE  [f EXCEPT ![x] = @ + 1] \in [S -> Nat]
  OBVIOUS

Budget == [deliveries : Nat, orders : Nat, faults : Nat]

LEMMA SpendType ==
  ASSUME TypeOK, NEW kind \in {"deliveries", "orders", "faults"}, NEW limit \in Nat,
         Spend(kind, limit)
  PROVE  used' \in Budget
  BY DEF Spend, TypeOK, Budget

LEMMA BudgetType ==
  TypeOK /\ (Fault \/ Spend("deliveries", MaxDeliveries) \/ Spend("orders", MaxOrders))
    => used' \in Budget
  BY SpendType, IngestAssumption DEF Fault, IngestAssumption

LEMMA InitType == Init => TypeOK
  BY NoJobType
     DEF Init, TypeOK, JobState, RequestPc, OperatorPc, WorkerPc, Answer

LEMMA RespondType ==
  ASSUME TypeOK, NEW r \in Requests, NEW a \in Answer, Respond(r, a)
  PROVE  rpc' \in [Requests -> RequestPc] /\ told' \in [Events -> SUBSET Answer]
  BY DEF Respond, TypeOK, RequestPc

LEMMA GoToType ==
  ASSUME TypeOK, NEW r \in Requests, NEW from, NEW to \in RequestPc, GoTo(r, from, to)
  PROVE  rpc' \in [Requests -> RequestPc]
  BY DEF GoTo, TypeOK

RequestActs(r) == RequestStep(r) \/ CheckFails(r) \/ RequestFails(r)
OperatorActs(o) == OperatorStep(o) \/ OrderFails(o)
WorkerActs(w) == AttemptStep(w) \/ StatementFails(w) \/ CatchFails(w)

LEMMA RequestType ==
  ASSUME TypeOK, NEW r \in Requests, RequestActs(r)
  PROVE  TypeOK'
<1> USE DEF TypeOK, Budget, rowVars, queueVars, requestVars, operatorVars,
            workerVars, effectVars
<1>0. "queued" \in Answer /\ "duplicate" \in Answer /\ "error" \in Answer
      /\ "store" \in RequestPc /\ "insert" \in RequestPc /\ "add" \in RequestPc
  BY DEF Answer, RequestPc
<1>1. CASE CheckDuplicate(r)
  <2>1. rpc' \in [Requests -> RequestPc] /\ told' \in [Events -> SUBSET Answer]
    BY <1>0, <1>1, RespondType, GoToType DEF CheckDuplicate
  <2> QED
    BY <1>1, <2>1 DEF CheckDuplicate
<1>2. CASE FindStore(r)
  <2>1. rpc' \in [Requests -> RequestPc]
    BY <1>0, <1>2, GoToType DEF FindStore
  <2>2. used' \in Budget
    BY <1>2, BudgetType DEF FindStore
  <2> QED
    BY <1>2, <2>1, <2>2 DEF FindStore
<1>3. CASE Insert(r)
  <2>1. rpc' \in [Requests -> RequestPc] /\ told' \in [Events -> SUBSET Answer]
    BY <1>0, <1>3, RespondType, GoToType DEF Insert
  <2>2. /\ status' \in [Events -> WebhookStatus \union {"none"}]
        /\ tenant' \in [Events -> BOOLEAN]
    BY <1>3 DEF Insert, WebhookStatus
  <2> QED
    BY <1>3, <2>1, <2>2 DEF Insert
<1>4. CASE AddJob(r)
  <2>1. rpc' \in [Requests -> RequestPc] /\ told' \in [Events -> SUBSET Answer]
    BY <1>0, <1>4, RespondType DEF AddJob
  <2>2. job' \in [Jobs -> JobState]
    BY <1>4 DEF AddJob, JobState
  <2> QED
    BY <1>4, <2>1, <2>2 DEF AddJob
<1>5. CASE CheckFails(r)
  <2>1. rpc' \in [Requests -> RequestPc] /\ told' \in [Events -> SUBSET Answer]
    BY <1>0, <1>5, RespondType, GoToType DEF CheckFails
  <2>2. used' \in Budget
    BY <1>5, BudgetType DEF CheckFails
  <2> QED
    BY <1>5, <2>1, <2>2 DEF CheckFails
<1>6. CASE RequestFails(r)
  <2>1. rpc' \in [Requests -> RequestPc] /\ told' \in [Events -> SUBSET Answer]
    BY <1>0, <1>6, RespondType DEF RequestFails
  <2>2. used' \in Budget
    BY <1>6, BudgetType DEF RequestFails
  <2>3. job' \in [Jobs -> JobState]
    BY <1>6 DEF RequestFails, JobState
  <2> QED
    BY <1>6, <2>1, <2>2, <2>3 DEF RequestFails
<1> QED
  BY <1>1, <1>2, <1>3, <1>4, <1>5, <1>6 DEF RequestActs, RequestStep

LEMMA RetryJob ==
  ASSUME TypeOK, NEW o \in Operators, AddRetry(o)
  PROVE  \E j \in Jobs : /\ j[1] = order[o] /\ job[j] = "none"
                         /\ job' = [job EXCEPT ![j] = "queued"]
<1>1. PICK n \in 1..MaxRetries :
         /\ job[<<order[o], n>>] = "none"
         /\ job' = [job EXCEPT ![<<order[o], n>>] = "queued"]
  BY DEF AddRetry
<1>2. order[o] \in Events /\ n \in 0..MaxRetries
  BY IngestAssumption DEF TypeOK, IngestAssumption
<1>3. <<order[o], n>> \in Jobs /\ <<order[o], n>>[1] = order[o]
  BY <1>2 DEF Jobs
<1> QED
  BY <1>1, <1>3

LEMMA OperatorType ==
  ASSUME TypeOK, NEW o \in Operators, OperatorActs(o)
  PROVE  TypeOK'
<1> USE DEF TypeOK, OperatorPc, Budget, rowVars, queueVars, requestVars, operatorVars,
            workerVars, effectVars
<1>1. CASE AddRetry(o)
  <2>1. job' \in [Jobs -> JobState]
    BY <1>1, RetryJob DEF JobState
  <2> QED
    BY <1>1, <2>1 DEF AddRetry
<1>2. CASE MarkRetry(o)
  BY <1>2 DEF MarkRetry, WebhookStatus
<1>3. CASE Cancel(o)
  BY <1>3 DEF Cancel, WebhookStatus
<1>4. CASE OrderFails(o)
  BY <1>4, BudgetType DEF OrderFails
<1> QED
  BY <1>1, <1>2, <1>3, <1>4 DEF OperatorActs, OperatorStep

LEMMA SetStatusType ==
  ASSUME TypeOK, NEW w \in Workers, NEW s \in WebhookStatus, SetStatus(w, s)
  PROVE  status' \in [Events -> WebhookStatus \union {"none"}]
  BY DEF SetStatus, TypeOK

LEMMA WorkerType ==
  ASSUME TypeOK, NEW w \in Workers, WorkerActs(w)
  PROVE  TypeOK'
<1> USE DEF TypeOK, WorkerPc, Budget, rowVars, queueVars, requestVars, operatorVars,
            workerVars, effectVars
<1>0. {"processing", "processed", "failed"} \subseteq WebhookStatus
  BY DEF WebhookStatus
<1>1. CASE TakeJob(w)
  BY <1>1 DEF TakeJob, JobState
<1>2. CASE Start(w)
  BY <1>0, <1>2, SetStatusType DEF Start, Step
<1>3. CASE Handle(w)
  BY <1>3 DEF Handle, Step
<1>4. CASE Save(w)
  BY <1>0, <1>4, SetStatusType DEF Save, Step
<1>5. CASE Announce(w)
  <2>1. announced' \in [Events -> Nat]
    BY <1>5, JobEvent, Increment DEF Announce, EventOf
  <2> QED
    BY <1>5, <2>1 DEF Announce, Step
<1>6. CASE Catch(w)
  BY <1>0, <1>6, SetStatusType DEF Catch, Step
<1>7. CASE Settle(w)
  BY <1>7, NoJobType DEF Settle, Outcome, JobState
<1>8. CASE StatementFails(w)
  <2>1. excuses' \in [Jobs -> Nat]
    BY <1>8 DEF StatementFails, Excuse
  <2>2. status' \in [Events -> WebhookStatus \union {"none"}]
    BY <1>0, <1>8, SetStatusType DEF StatementFails
  <2>3. used' \in Budget
    BY <1>8, BudgetType DEF StatementFails
  <2> QED
    BY <1>8, <2>1, <2>2, <2>3 DEF StatementFails, Step
<1>9. CASE CatchFails(w)
  BY <1>9, BudgetType DEF CatchFails, Step
<1> QED
  BY <1>1, <1>2, <1>3, <1>4, <1>5, <1>6, <1>7, <1>8, <1>9 DEF WorkerActs, AttemptStep

LEMMA OutsideType ==
  ASSUME TypeOK,
         \/ \E r \in Requests, e \in Events : Deliver(r, e)
         \/ \E o \in Operators, e \in Events : AskRetry(o, e) \/ AskCancel(o, e)
         \/ Crash
         \/ UNCHANGED vars
  PROVE  TypeOK'
<1> USE DEF TypeOK, Budget, rowVars, queueVars, requestVars, operatorVars,
            workerVars, effectVars
<1>1. ASSUME NEW r \in Requests, NEW e \in Events, Deliver(r, e) PROVE TypeOK'
  <2>1. used' \in Budget
    BY <1>1, BudgetType DEF Deliver
  <2> QED
    BY <1>1, <2>1 DEF Deliver, GoTo, RequestPc
<1>2. ASSUME NEW o \in Operators, NEW e \in Events, AskRetry(o, e) \/ AskCancel(o, e)
      PROVE  TypeOK'
  <2>1. used' \in Budget
    BY <1>2, BudgetType DEF AskRetry, AskCancel
  <2> QED
    BY <1>2, <2>1 DEF AskRetry, AskCancel, OperatorPc
<1>3. CASE Crash
  <2>1. used' \in Budget
    BY <1>3, BudgetType DEF Crash
  <2>2. stalls' \in [Jobs -> Nat] /\ excuses' \in [Jobs -> Nat]
        /\ job' \in [Jobs -> JobState]
    BY <1>3 DEF Crash, JobState
  <2> QED
    BY <1>3, <2>1, <2>2, NoJobType DEF Crash, RequestPc, OperatorPc, WorkerPc
<1>4. CASE UNCHANGED vars
  BY <1>4 DEF vars
<1> QED
  BY <1>1, <1>2, <1>3, <1>4

LEMMA TypeStep == TypeOK /\ [Next]_vars => TypeOK'
  BY RequestType, OperatorType, WorkerType, OutsideType
     DEF Next, RequestActs, OperatorActs, WorkerActs
-----------------------------------------------------------------------------
(* The inductive invariant *)

(* A step that leaves the queue and the workers alone disturbs the invariant only
   if a request or an operator comes to hold an event. *)
LEMMA IngestKept ==
  ASSUME IngestInv,
         UNCHANGED <<status, job, wpc, wjob, threw, sends, excuses>>,
         \A r \in Requests : rpc'[r] = "add" => rpc[r] = "add" /\ received'[r] = received[r],
         \A o \in Operators : opc'[o] # "idle" => status[order'[o]] # "none"
  PROVE  IngestInv'
  BY DEF IngestInv, WorkersHoldJobs, OneWorkerPerJob, JobsHaveRows, RequestsHoldRows,
     UnsentIsUnsent, OncePerJob

(* A job that was in no queue is added: nobody holds it. *)
LEMMA QueueKept ==
  ASSUME TypeOK, IngestInv, NEW j \in Jobs, job[j] = "none", status[j[1]] # "none",
         job' = [job EXCEPT ![j] = "queued"],
         UNCHANGED <<status, wpc, wjob, threw, sends, excuses>>,
         \A r \in Requests : rpc'[r] = "add" =>
            rpc[r] = "add" /\ received'[r] = received[r] /\ <<received[r], Original>> # j,
         \A o \in Operators : opc'[o] # "idle" => status[order'[o]] # "none"
  PROVE  IngestInv'
<1>1. WorkersHoldJobs' /\ OneWorkerPerJob'
  BY DEF IngestInv, WorkersHoldJobs, OneWorkerPerJob, TypeOK
<1>2. JobsHaveRows'
  BY DEF IngestInv, JobsHaveRows, TypeOK
<1>3. RequestsHoldRows'
  <2>1. \A r \in Requests : rpc'[r] = "add" => job'[<<received'[r], Original>>] = "none"
    BY DEF IngestInv, RequestsHoldRows, TypeOK
  <2> QED
    BY <2>1 DEF IngestInv, RequestsHoldRows
<1>4. UnsentIsUnsent' /\ OncePerJob'
  BY DEF IngestInv, UnsentIsUnsent, OncePerJob, TypeOK
<1> QED
  BY <1>1, <1>2, <1>3, <1>4 DEF IngestInv

LEMMA InitInv == Init => IngestInv
  BY DEF Init, IngestInv, WorkersHoldJobs, OneWorkerPerJob, JobsHaveRows,
     RequestsHoldRows, UnsentIsUnsent, OncePerJob

LEMMA InvRequest ==
  ASSUME TypeOK, IngestInv, NEW r \in Requests, RequestActs(r)
  PROVE  IngestInv'
<1> USE DEF queueVars, workerVars, operatorVars, effectVars, rowVars
<1>0. \A o \in Operators : opc[o] # "idle" => status[order[o]] # "none"
  BY DEF IngestInv, JobsHaveRows
<1>1. CASE CheckDuplicate(r) \/ FindStore(r) \/ CheckFails(r)
  <2>1. UNCHANGED <<status, job, wpc, wjob, threw, sends, excuses, received, opc, order>>
    BY <1>1 DEF CheckDuplicate, FindStore, CheckFails
  <2>2. \A q \in Requests : rpc'[q] = "add" => rpc[q] = "add"
    BY <1>1 DEF CheckDuplicate, FindStore, CheckFails, GoTo, Respond, TypeOK
  <2> QED
    BY <1>0, <2>1, <2>2, IngestKept
<1>2. CASE Insert(r)
  <2>1. UNCHANGED <<job, wpc, wjob, threw, sends, excuses, received, opc, order>>
    BY <1>2 DEF Insert
  <2>2. CASE status[received[r]] = "none"
    <3>1. /\ status' = [status EXCEPT ![received[r]] = "pending"]
          /\ rpc' = [rpc EXCEPT ![r] = "add"]
      BY <1>2, <2>2 DEF Insert, GoTo
    <3>2. /\ received[r] \in Events /\ status'[received[r]] = "pending"
          /\ \A e \in Events : e # received[r] => status'[e] = status[e]
      BY <3>1 DEF TypeOK
    <3>3. JobsHaveRows'
      BY <2>1, <3>2, JobEvent DEF IngestInv, JobsHaveRows, TypeOK
    <3>4. job[<<received[r], Original>>] = "none"
      BY <2>2, <3>2, OriginalJob DEF IngestInv, JobsHaveRows
    <3>5. \A q \in Requests : q # r /\ rpc[q] = "add" => received[q] # received[r]
      BY <2>2 DEF IngestInv, RequestsHoldRows
    <3>6. RequestsHoldRows'
      BY <2>1, <3>1, <3>2, <3>4, <3>5 DEF IngestInv, RequestsHoldRows, TypeOK
    <3> QED
      BY <2>1, <3>3, <3>6 DEF IngestInv, WorkersHoldJobs, OneWorkerPerJob, UnsentIsUnsent,
         OncePerJob
  <2>3. CASE status[received[r]] # "none"
    <3>1. UNCHANGED status /\ rpc' = [rpc EXCEPT ![r] = "idle"]
      BY <1>2, <2>3 DEF Insert, Respond
    <3>2. \A q \in Requests : rpc'[q] = "add" => rpc[q] = "add"
      BY <3>1 DEF TypeOK
    <3> QED
      BY <1>0, <2>1, <3>1, <3>2, IngestKept
  <2> QED
    BY <2>2, <2>3
<1>3. CASE AddJob(r) \/ RequestFails(r)
  <2> DEFINE j == <<received[r], Original>>
  <2>1. /\ rpc' = [rpc EXCEPT ![r] = "idle"]
        /\ UNCHANGED <<status, wpc, wjob, threw, sends, excuses, received, opc, order>>
    BY <1>3 DEF AddJob, RequestFails, Respond
  <2>2. \A q \in Requests : rpc'[q] = "add" => q # r /\ rpc[q] = "add"
    BY <2>1 DEF TypeOK
  <2>3. CASE UNCHANGED job
    BY <1>0, <2>1, <2>2, <2>3, IngestKept
  <2>4. CASE rpc[r] = "add" /\ job' = [job EXCEPT ![j] = "queued"]
    <3>1. j \in Jobs /\ j[1] = received[r]
      BY OriginalJob DEF TypeOK
    <3>2. job[j] = "none" /\ status[received[r]] # "none"
      BY <2>4 DEF IngestInv, RequestsHoldRows
    <3>3. \A q \in Requests : rpc'[q] = "add" => <<received[q], Original>> # j
      BY <2>2, <2>4 DEF IngestInv, RequestsHoldRows
    <3> HIDE DEF j
    <3> QED
      BY <1>0, <2>1, <2>2, <2>4, <3>1, <3>2, <3>3, QueueKept
  <2> QED
    BY <1>3, <2>3, <2>4 DEF AddJob, RequestFails
<1> QED
  BY <1>1, <1>2, <1>3 DEF RequestActs, RequestStep

(* Writing the status of an event that has a row. *)
LEMMA StatusKept ==
  ASSUME TypeOK, IngestInv, NEW e \in Events, NEW s \in WebhookStatus,
         status[e] # "none", status' = [status EXCEPT ![e] = s]
  PROVE  \A d \in Events : status'[d] = "none" <=> status[d] = "none"
  BY DEF TypeOK, WebhookStatus

LEMMA InvOperator ==
  ASSUME TypeOK, IngestInv, NEW o \in Operators, OperatorActs(o)
  PROVE  IngestInv'
<1> USE DEF queueVars, requestVars, workerVars, effectVars, rowVars
<1>0. \A p \in Operators : opc[p] # "idle" => status[order[p]] # "none"
  BY DEF IngestInv, JobsHaveRows
<1>1. CASE AddRetry(o)
  <2>1. PICK j \in Jobs : /\ j[1] = order[o] /\ job[j] = "none"
                          /\ job' = [job EXCEPT ![j] = "queued"]
    BY <1>1, RetryJob
  <2>2. /\ opc[o] = "retry" /\ opc' = [opc EXCEPT ![o] = "mark"]
        /\ UNCHANGED <<status, rpc, received, order, wpc, wjob, threw, sends, excuses>>
    BY <1>1 DEF AddRetry
  <2>3. \A p \in Operators : opc'[p] # "idle" => status[order'[p]] # "none"
    BY <1>0, <2>2 DEF TypeOK
  <2>4. status[j[1]] # "none"
    BY <1>0, <2>1, <2>2
  <2>5. \A r \in Requests : rpc[r] = "add" => <<received[r], Original>> # j
    <3>1. PICK n \in 1..MaxRetries : job' = [job EXCEPT ![<<order[o], n>>] = "queued"]
      BY <1>1 DEF AddRetry
    <3>2. <<order[o], n>> \in Jobs
      BY IngestAssumption, <3>1 DEF TypeOK, IngestAssumption, Jobs
    <3>3. j = <<order[o], n>>
      BY <2>1, <3>1, <3>2 DEF TypeOK
    <3> QED
      BY <3>3 DEF Original
  <2> QED
    BY <2>1, <2>2, <2>3, <2>4, <2>5, QueueKept
<1>2. CASE MarkRetry(o) \/ Cancel(o)
  <2>1. /\ opc[o] # "idle" /\ opc' = [opc EXCEPT ![o] = "idle"]
        /\ UNCHANGED <<job, rpc, received, order, wpc, wjob, threw, sends, excuses>>
        /\ \/ status' = [status EXCEPT ![order[o]] = "retry_pending"]
           \/ status' = [status EXCEPT ![order[o]] = "skipped"]
    BY <1>2 DEF MarkRetry, Cancel
  <2>2. order[o] \in Events /\ status[order[o]] # "none"
    BY <1>0, <2>1 DEF TypeOK
  <2>3. \A e \in Events : status'[e] = "none" <=> status[e] = "none"
    BY <2>1, <2>2, StatusKept DEF WebhookStatus
  <2>4. JobsHaveRows'
    BY <2>1, <2>3, JobEvent DEF IngestInv, JobsHaveRows, TypeOK
  <2>5. RequestsHoldRows'
    BY <2>1, <2>3 DEF IngestInv, RequestsHoldRows, TypeOK
  <2> QED
    BY <2>1, <2>4, <2>5 DEF IngestInv, WorkersHoldJobs, OneWorkerPerJob, UnsentIsUnsent,
       OncePerJob
<1>3. CASE OrderFails(o)
  <2>1. /\ opc' = [opc EXCEPT ![o] = "idle"]
        /\ UNCHANGED <<status, job, rpc, received, order, wpc, wjob, threw, sends, excuses>>
    BY <1>3 DEF OrderFails
  <2>2. \A p \in Operators : opc'[p] # "idle" => status[order'[p]] # "none"
    BY <1>0, <2>1 DEF TypeOK
  <2> QED
    BY <2>1, <2>2, IngestKept
<1> QED
  BY <1>1, <1>2, <1>3 DEF OperatorActs, OperatorStep

LEMMA InvOutside ==
  ASSUME TypeOK, IngestInv,
         \/ \E r \in Requests, e \in Events : Deliver(r, e)
         \/ \E o \in Operators, e \in Events : AskRetry(o, e) \/ AskCancel(o, e)
         \/ Crash
         \/ UNCHANGED vars
  PROVE  IngestInv'
<1> USE DEF queueVars, requestVars, workerVars, operatorVars, effectVars, rowVars
<1>0. \A o \in Operators : opc[o] # "idle" => status[order[o]] # "none"
  BY DEF IngestInv, JobsHaveRows
<1>1. ASSUME NEW r \in Requests, NEW e \in Events, Deliver(r, e) PROVE IngestInv'
  <2>1. UNCHANGED <<status, job, wpc, wjob, threw, sends, excuses, opc, order>>
    BY <1>1 DEF Deliver
  <2>2. \A q \in Requests : rpc'[q] = "add" => rpc[q] = "add" /\ received'[q] = received[q]
    BY <1>1 DEF Deliver, GoTo, TypeOK
  <2> QED
    BY <1>0, <2>1, <2>2, IngestKept
<1>2. ASSUME NEW o \in Operators, NEW e \in Events, AskRetry(o, e) \/ AskCancel(o, e)
      PROVE  IngestInv'
  <2>1. /\ UNCHANGED <<status, job, rpc, received, wpc, wjob, threw, sends, excuses>>
        /\ order' = [order EXCEPT ![o] = e] /\ status[e] # "none"
        /\ \E pc \in OperatorPc : opc' = [opc EXCEPT ![o] = pc]
    BY <1>2 DEF AskRetry, AskCancel, OperatorPc
  <2>2. \A p \in Operators : opc'[p] # "idle" => status[order'[p]] # "none"
    BY <1>0, <2>1 DEF TypeOK
  <2> QED
    BY <2>1, <2>2, IngestKept
<1>3. CASE Crash
  <2> DEFINE hit == {wjob[w] : w \in {v \in Workers : wpc[v] # "idle"}}
  <2>1. /\ UNCHANGED <<status, received, order, sends>>
        /\ rpc' = [r \in Requests |-> "idle"] /\ opc' = [o \in Operators |-> "idle"]
        /\ wpc' = [w \in Workers |-> "idle"]
        /\ threw' = [w \in Workers |-> FALSE]
    BY <1>3 DEF Crash
  <2>2. /\ \A j \in Jobs : j \notin hit => job'[j] = job[j] /\ excuses'[j] = excuses[j]
        /\ \A j \in Jobs : j \in hit =>
             /\ job'[j] \in {"queued", "failed"}
             /\ excuses'[j] = IF sends[j] > excuses[j] THEN excuses[j] + 1 ELSE excuses[j]
    BY <1>3 DEF Crash
  <2>3. \A j \in Jobs : j \in hit => job[j] = "active"
    BY DEF IngestInv, WorkersHoldJobs
  <2> HIDE DEF hit
  <2>4. WorkersHoldJobs' /\ OneWorkerPerJob' /\ RequestsHoldRows'
    BY <2>1 DEF WorkersHoldJobs, OneWorkerPerJob, RequestsHoldRows
  <2>5. JobsHaveRows'
    BY <2>1, <2>2, <2>3 DEF IngestInv, JobsHaveRows
  <2>6. OncePerJob'
    BY <2>1, <2>2 DEF IngestInv, OncePerJob, TypeOK
  <2>7. \A j \in Jobs : job'[j] \in {"none", "queued"} => sends[j] <= excuses'[j]
    BY <2>2 DEF IngestInv, UnsentIsUnsent, OncePerJob, TypeOK
  <2>8. UnsentIsUnsent'
    BY <2>1, <2>7 DEF UnsentIsUnsent
  <2> QED
    BY <2>4, <2>5, <2>6, <2>8 DEF IngestInv
<1>4. CASE UNCHANGED vars
  BY <1>0, <1>4, IngestKept DEF vars
<1> QED
  BY <1>1, <1>2, <1>3, <1>4

(* The attempt of a worker goes on: the job stays active and the row remains; what
   is left to show is that the handler's count still fits where the attempt is. *)
LEMMA AttemptKept ==
  ASSUME TypeOK, IngestInv, NEW w \in Workers, NEW to \in WorkerPc \ {"idle"},
         wpc[w] # "idle", wpc' = [wpc EXCEPT ![w] = to],
         UNCHANGED <<job, rpc, received, opc, order, wjob>>,
         \A v \in Workers \ {w} : threw'[v] = threw[v],
         threw'[w] => to = "finish",
         \A e \in Events : status'[e] = "none" <=> status[e] = "none",
         \A j \in Jobs \ {wjob[w]} : sends'[j] = sends[j] /\ excuses'[j] = excuses[j],
         excuses'[wjob[w]] <= sends'[wjob[w]],
         sends'[wjob[w]] <= 1 + excuses'[wjob[w]],
         to \in {"start", "handle", "catch"} \/ (to = "finish" /\ threw'[w])
           => sends'[wjob[w]] <= excuses'[wjob[w]]
  PROVE  IngestInv'
<1>1. WorkersHoldJobs' /\ OneWorkerPerJob'
  BY DEF IngestInv, WorkersHoldJobs, OneWorkerPerJob, TypeOK
<1>2. JobsHaveRows' /\ RequestsHoldRows'
  BY JobEvent DEF IngestInv, JobsHaveRows, RequestsHoldRows, TypeOK
<1>3. OncePerJob'
  BY DEF IngestInv, OncePerJob, TypeOK
<1>4. \A j \in Jobs : job[j] \in {"none", "queued"} => j # wjob[w]
  BY DEF IngestInv, WorkersHoldJobs
<1>5. \A v \in Workers \ {w} : wpc[v] # "idle" => wjob[v] # wjob[w] /\ wjob[v] \in Jobs
  BY DEF IngestInv, OneWorkerPerJob, TypeOK
<1>6. \A v \in Workers \ {w} : wpc'[v] = wpc[v]
  BY DEF TypeOK
<1>7. wpc'[w] = to
  BY DEF TypeOK
<1>8. ASSUME NEW v \in Workers,
             wpc'[v] \in {"start", "handle", "catch"} \/ (wpc'[v] = "finish" /\ threw'[v])
      PROVE  sends'[wjob'[v]] <= excuses'[wjob'[v]]
  <2>1. CASE v = w
    BY <1>7, <1>8, <2>1
  <2>2. CASE v # w
    <3>1. sends'[wjob[v]] = sends[wjob[v]] /\ excuses'[wjob[v]] = excuses[wjob[v]]
      BY <1>5, <1>6, <1>8, <2>2
    <3>2. sends[wjob[v]] <= excuses[wjob[v]]
      BY <1>6, <1>8, <2>2 DEF IngestInv, UnsentIsUnsent
    <3> QED
      BY <3>1, <3>2
  <2> QED
    BY <2>1, <2>2
<1>9. \A j \in Jobs : job'[j] \in {"none", "queued"} => sends'[j] <= excuses'[j]
  BY <1>4 DEF IngestInv, UnsentIsUnsent
<1>10. UnsentIsUnsent'
  BY <1>8, <1>9 DEF UnsentIsUnsent
<1> QED
  BY <1>1, <1>2, <1>3, <1>10 DEF IngestInv

LEMMA InvWorker ==
  ASSUME TypeOK, IngestInv, NEW w \in Workers, WorkerActs(w)
  PROVE  IngestInv'
<1> USE DEF queueVars, requestVars, operatorVars, effectVars, rowVars
<1> DEFINE i == wjob[w]
<1>0. /\ i \in Jobs /\ i[1] \in Events
      /\ sends[i] \in Nat /\ excuses[i] \in Nat
      /\ excuses[i] <= sends[i] /\ sends[i] <= 1 + excuses[i]
  BY JobEvent DEF TypeOK, IngestInv, OncePerJob
<1>1. wpc[w] # "idle" => job[i] = "active" /\ status[i[1]] # "none"
  BY <1>0 DEF IngestInv, WorkersHoldJobs, JobsHaveRows
<1>2. wpc[w] \in {"start", "handle", "catch"} => sends[i] <= excuses[i]
  BY DEF IngestInv, UnsentIsUnsent
<1>12. threw[w] => wpc[w] = "finish"
  BY DEF IngestInv, WorkersHoldJobs
<1>3. ASSUME NEW s \in WebhookStatus, wpc[w] # "idle", SetStatus(w, s)
      PROVE  \A e \in Events : status'[e] = "none" <=> status[e] = "none"
  BY <1>0, <1>1, <1>3, StatusKept DEF SetStatus, EventOf
<1>4. CASE TakeJob(w)
  <2>1. PICK j \in Jobs : /\ job[j] = "queued"
                          /\ job' = [job EXCEPT ![j] = "active"]
                          /\ wjob' = [wjob EXCEPT ![w] = j]
    BY <1>4 DEF TakeJob
  <2>2. /\ wpc[w] = "idle" /\ wpc' = [wpc EXCEPT ![w] = "start"]
        /\ UNCHANGED <<status, rpc, received, opc, order, threw, sends, excuses>>
    BY <1>4 DEF TakeJob
  <2>3. \A v \in Workers \ {w} : wpc'[v] = wpc[v] /\ wjob'[v] = wjob[v]
    BY <2>1, <2>2 DEF TypeOK
  <2>4. wpc'[w] = "start" /\ wjob'[w] = j /\ job'[j] = "active"
        /\ \A k \in Jobs : k # j => job'[k] = job[k]
    BY <2>1, <2>2 DEF TypeOK
  <2>5. \A v \in Workers : wpc[v] # "idle" => wjob[v] # j /\ wjob[v] \in Jobs
    BY <2>1 DEF IngestInv, WorkersHoldJobs, TypeOK
  <2>6. WorkersHoldJobs' /\ OneWorkerPerJob'
    <3>1. \A v \in Workers \ {w} : threw'[v] = threw[v]
      BY <2>2 DEF TypeOK
    <3>2. ~threw'[w]
      BY <1>12, <2>2 DEF TypeOK
    <3> QED
      BY <2>3, <2>4, <2>5, <3>1, <3>2 DEF IngestInv, WorkersHoldJobs, OneWorkerPerJob
  <2>7. JobsHaveRows'
    BY <2>1, <2>2, <2>4 DEF IngestInv, JobsHaveRows
  <2>8. RequestsHoldRows'
    <3>1. \A r \in Requests : rpc[r] = "add" => job'[<<received[r], Original>>] = "none"
      <4>1. \A r \in Requests : <<received[r], Original>> \in Jobs
        BY OriginalJob DEF TypeOK
      <4> QED
        BY <2>1, <2>4, <4>1 DEF IngestInv, RequestsHoldRows
    <3> QED
      BY <2>2, <3>1 DEF IngestInv, RequestsHoldRows
  <2>9. UnsentIsUnsent'
    BY <2>1, <2>2, <2>3, <2>4 DEF IngestInv, UnsentIsUnsent
  <2>10. OncePerJob'
    BY <2>2 DEF IngestInv, OncePerJob
  <2> QED
    BY <2>6, <2>7, <2>8, <2>9, <2>10 DEF IngestInv
<1>5. CASE Settle(w)
  <2>1. /\ wpc[w] = "finish" /\ wpc' = [wpc EXCEPT ![w] = "idle"]
        /\ wjob' = [wjob EXCEPT ![w] = NoJob]
        /\ threw' = [threw EXCEPT ![w] = FALSE]
        /\ job' = [job EXCEPT ![i] = Outcome(w, i)]
        /\ UNCHANGED <<status, rpc, received, opc, order, sends, excuses>>
    BY <1>5 DEF Settle
  <2>2. Outcome(w, i) \in {"completed", "queued", "failed"}
        /\ (Outcome(w, i) = "queued" => threw[w])
    BY DEF Outcome
  <2>3. \A v \in Workers \ {w} : wpc'[v] = wpc[v] /\ wjob'[v] = wjob[v]
                                 /\ threw'[v] = threw[v]
    BY <2>1 DEF TypeOK
  <2>4. wpc'[w] = "idle" /\ job'[i] = Outcome(w, i)
        /\ \A k \in Jobs : k # i => job'[k] = job[k]
    BY <1>0, <2>1 DEF TypeOK
  <2>5. \A v \in Workers \ {w} : wpc[v] # "idle" => wjob[v] # i /\ wjob[v] \in Jobs
    BY <2>1 DEF IngestInv, OneWorkerPerJob, TypeOK
  <2>6. WorkersHoldJobs' /\ OneWorkerPerJob'
    <3>1. \A v \in Workers \ {w} : threw'[v] = threw[v]
      BY <2>1 DEF TypeOK
    <3>2. ~threw'[w]
      BY <1>12, <2>1 DEF TypeOK
    <3> QED
      BY <2>3, <2>4, <2>5, <3>1, <3>2 DEF IngestInv, WorkersHoldJobs, OneWorkerPerJob
  <2>7. JobsHaveRows'
    BY <1>1, <2>1, <2>4 DEF IngestInv, JobsHaveRows
  <2>8. RequestsHoldRows'
    <3>1. \A r \in Requests : rpc[r] = "add" => job'[<<received[r], Original>>] = "none"
      <4>1. \A r \in Requests : <<received[r], Original>> \in Jobs
        BY OriginalJob DEF TypeOK
      <4> QED
        BY <1>1, <2>1, <2>4, <4>1 DEF IngestInv, RequestsHoldRows
    <3> QED
      BY <2>1, <3>1 DEF IngestInv, RequestsHoldRows
  <2>9. threw[w] => sends[i] <= excuses[i]
    BY <2>1 DEF IngestInv, UnsentIsUnsent
  <2>10. UnsentIsUnsent'
    BY <2>1, <2>2, <2>3, <2>4, <2>9 DEF IngestInv, UnsentIsUnsent
  <2>11. OncePerJob'
    BY <2>1 DEF IngestInv, OncePerJob
  <2> QED
    BY <2>6, <2>7, <2>8, <2>10, <2>11 DEF IngestInv
<1>6. CASE Start(w)
  <2>1. Step(w, "start", "handle") /\ UNCHANGED <<threw, sends, excuses>>
    BY <1>6 DEF Start
  <2>2. \A e \in Events : status'[e] = "none" <=> status[e] = "none"
    BY <1>3, <1>6, <2>1 DEF Start, Step, WebhookStatus
  <2> HIDE DEF i
  <2> QED
    BY <1>0, <1>2, <1>12, <2>1, <2>2, AttemptKept DEF Step, WorkerPc, i
<1>7. CASE Handle(w)
  <2> DEFINE to == IF Refuses(w) THEN "catch" ELSE "save"
  <2>1. /\ wpc[w] = "handle" /\ wpc' = [wpc EXCEPT ![w] = to]
        /\ UNCHANGED <<status, job, rpc, received, opc, order, wjob, threw, excuses>>
    BY <1>7 DEF Handle, Step
  <2>2. to \in {"catch", "save"} /\ (to = "catch" => ~HasEffect(w))
    BY DEF Refuses, HasEffect
  <2>3. /\ sends'[i] = IF HasEffect(w) THEN sends[i] + 1 ELSE sends[i]
        /\ \A j \in Jobs \ {i} : sends'[j] = sends[j]
    <3>1. sends' = [sends EXCEPT ![i] = IF HasEffect(w) THEN @ + 1 ELSE @]
      BY <1>7 DEF Handle
    <3>2. i \in Jobs /\ sends \in [Jobs -> Nat]
      BY DEF TypeOK
    <3> HIDE DEF i
    <3> QED
      BY <3>1, <3>2
  <2>4. sends[i] = excuses[i]
    BY <1>0, <1>2, <2>1
  <2>5. excuses[i] <= sends'[i] /\ sends'[i] <= 1 + excuses[i]
        /\ (to = "catch" => sends'[i] <= excuses[i])
    <3> HIDE DEF i, to
    <3> QED
      BY <1>0, <2>2, <2>3, <2>4
  <2>6. to \in WorkerPc \ {"idle"} /\ to \notin {"start", "handle", "finish"}
    BY <2>2 DEF WorkerPc
  <2> HIDE DEF to
  <2> QED
    BY <1>12, <2>1, <2>3, <2>5, <2>6, AttemptKept
<1>8. CASE Save(w)
  <2>1. Step(w, "save", "announce") /\ UNCHANGED <<threw, sends, excuses>>
    BY <1>8 DEF Save
  <2>2. \A e \in Events : status'[e] = "none" <=> status[e] = "none"
    BY <1>3, <1>8, <2>1 DEF Save, Step, WebhookStatus
  <2> HIDE DEF i
  <2> QED
    BY <1>0, <1>12, <2>1, <2>2, AttemptKept DEF Step, WorkerPc, i
<1>9. CASE Announce(w)
  <2>1. Step(w, "announce", "finish") /\ UNCHANGED <<status, threw, sends, excuses>>
    BY <1>9 DEF Announce
  <2>2. ~threw[w]
    BY <2>1 DEF IngestInv, WorkersHoldJobs, Step
  <2> HIDE DEF i
  <2> QED
    BY <1>0, <1>12, <2>1, <2>2, AttemptKept DEF Step, WorkerPc, i
<1>10. CASE Catch(w) \/ CatchFails(w)
  <2>1. /\ Step(w, "catch", "finish") /\ UNCHANGED <<sends, excuses>>
        /\ threw' = [threw EXCEPT ![w] = TRUE]
    BY <1>10 DEF Catch, CatchFails
  <2>2. \A e \in Events : status'[e] = "none" <=> status[e] = "none"
    BY <1>3, <1>10, <2>1 DEF Catch, CatchFails, Step, WebhookStatus
  <2>3. \A v \in Workers \ {w} : threw'[v] = threw[v]
    BY <2>1 DEF TypeOK
  <2> HIDE DEF i
  <2> QED
    BY <1>0, <1>2, <2>1, <2>2, <2>3, AttemptKept DEF Step, WorkerPc, i
<1>11. CASE StatementFails(w)
  <2>1. /\ wpc[w] # "idle" /\ wpc' = [wpc EXCEPT ![w] = "catch"]
        /\ UNCHANGED <<job, rpc, received, opc, order, wjob, threw, sends>>
    BY <1>11 DEF StatementFails, Step
  <2>2. \A e \in Events : status'[e] = "none" <=> status[e] = "none"
    BY <1>3, <1>11, <2>1 DEF StatementFails, WebhookStatus
  <2>3. /\ excuses'[i] = IF sends[i] > excuses[i] THEN excuses[i] + 1 ELSE excuses[i]
        /\ \A j \in Jobs \ {i} : excuses'[j] = excuses[j]
    <3>1. excuses' = [excuses EXCEPT ![i] = IF sends[i] > excuses[i] THEN @ + 1 ELSE @]
      BY <1>11 DEF StatementFails, Excuse
    <3>2. i \in Jobs /\ excuses \in [Jobs -> Nat]
      BY DEF TypeOK
    <3> HIDE DEF i
    <3> QED
      BY <3>1, <3>2
  <2>4. excuses'[i] <= sends[i] /\ sends[i] <= excuses'[i] /\ sends[i] <= 1 + excuses'[i]
    <3> HIDE DEF i
    <3> QED
      BY <1>0, <2>3
  <2> HIDE DEF i
  <2> QED
    BY <1>11, <1>12, <2>1, <2>2, <2>3, <2>4, AttemptKept DEF StatementFails, Step, WorkerPc, i
<1> QED
  BY <1>4, <1>5, <1>6, <1>7, <1>8, <1>9, <1>10, <1>11 DEF WorkerActs, AttemptStep

LEMMA InvNext == TypeOK /\ IngestInv /\ [Next]_vars => IngestInv'
  BY InvRequest, InvOperator, InvWorker, InvOutside
     DEF Next, RequestActs, OperatorActs, WorkerActs

Safe == TypeOK /\ IngestInv

LEMMA Safety == Spec => []Safe
<1>1. Init => Safe
  BY InitType, InitInv DEF Safe
<1>2. Safe /\ [Next]_vars => Safe'
  BY TypeStep, InvNext DEF Safe
<1> QED
  BY <1>1, <1>2, PTL DEF Spec

(* Every variable keeps to its type: in particular a row and a job only ever have
   the states of the status column and of BullMQ. *)
THEOREM TypeCorrect == Spec => []TypeOK
  BY Safety, PTL DEF Safe

-----------------------------------------------------------------------------
(* The queues implement OnceDelivery *)

LEMMA InitMaps == Init => Delivery!Init
  BY DEF Init, Delivery!Init

(* The steps that run no handler and excuse none are stuttering ones. *)
Silent == UNCHANGED <<sends, excuses>>

LEMMA WorkerMaps ==
  ASSUME Safe, NEW w \in Workers, WorkerActs(w)
  PROVE  Delivery!Next \/ Silent
<1> DEFINE i == wjob[w]
<1>0. i \in Jobs
  BY DEF Safe, TypeOK
<1>1. CASE Handle(w)
  <2>1. sends[i] <= excuses[i]
    BY <1>1 DEF Safe, IngestInv, UnsentIsUnsent, Handle, Step
  <2>2. CASE HasEffect(w)
    <3>1. sends' = [sends EXCEPT ![i] = @ + 1] /\ UNCHANGED excuses
      BY <1>1, <2>2 DEF Handle
    <3>2. Delivery!Deliver(i)
      BY <2>1, <3>1 DEF Delivery!Deliver
    <3> QED
      BY <1>0, <3>2 DEF Delivery!Next
  <2>3. CASE ~HasEffect(w)
    BY <1>0, <1>1, <2>3 DEF Handle, Silent, Safe, TypeOK
  <2> QED
    BY <2>2, <2>3
<1>2. CASE StatementFails(w)
  <2>1. CASE sends[i] > excuses[i]
    <3>1. Delivery!Forget({i})
      BY <1>0, <1>2, <2>1 DEF Delivery!Forget, StatementFails, Excuse, Safe, TypeOK
    <3> QED
      BY <1>0, <3>1 DEF Delivery!Next
  <2>2. CASE ~(sends[i] > excuses[i])
    BY <1>0, <1>2, <2>2 DEF StatementFails, Excuse, Silent, Safe, TypeOK
  <2> QED
    BY <2>1, <2>2
<1>3. CASE TakeJob(w) \/ Start(w) \/ Save(w) \/ Announce(w) \/ Catch(w)
           \/ CatchFails(w) \/ Settle(w)
  BY <1>3 DEF TakeJob, Start, Save, Announce, Catch, CatchFails, Settle, effectVars,
     Silent
<1> QED
  BY <1>1, <1>2, <1>3 DEF WorkerActs, AttemptStep

LEMMA CrashMaps ==
  ASSUME Safe, Crash
  PROVE  Delivery!Next
<1> DEFINE hit == {wjob[w] : w \in {v \in Workers : wpc[v] # "idle"}}
           handled == {j \in hit : sends[j] > excuses[j]}
<1>1. handled \subseteq Jobs
  BY DEF Safe, TypeOK
<1>2. Delivery!Forget(handled)
  BY <1>1 DEF Delivery!Forget, Crash
<1> QED
  BY <1>1, <1>2 DEF Delivery!Next

LEMMA NextMaps == Safe /\ [Next]_vars => [Delivery!Next]_(Delivery!vars)
<1> SUFFICES ASSUME Safe, [Next]_vars
             PROVE  Delivery!Next \/ Silent
  BY DEF Delivery!vars, Silent
<1>1. CASE UNCHANGED vars
  BY <1>1 DEF vars, effectVars, Silent
<1>2. ASSUME NEW r \in Requests, RequestActs(r) \/ \E e \in Events : Deliver(r, e)
      PROVE  Silent
  BY <1>2 DEF RequestActs, RequestStep, Deliver, CheckDuplicate, CheckFails, FindStore,
     Insert, AddJob, RequestFails, effectVars, Silent
<1>3. ASSUME NEW o \in Operators,
             OperatorActs(o) \/ \E e \in Events : AskRetry(o, e) \/ AskCancel(o, e)
      PROVE  Silent
  BY <1>3 DEF OperatorActs, OperatorStep, AskRetry, AskCancel, AddRetry, MarkRetry,
     Cancel, OrderFails, effectVars, Silent
<1>4. ASSUME NEW w \in Workers, WorkerActs(w) PROVE Delivery!Next \/ Silent
  BY <1>4, WorkerMaps
<1>5. CASE Crash
  BY <1>5, CrashMaps
<1> QED
  BY <1>1, <1>2, <1>3, <1>4, <1>5 DEF Next, RequestActs, OperatorActs, WorkerActs

(* Every job runs its handler as the abstract specification has it: again only
   while every earlier run is excused by a fault that made its attempt fail. *)
THEOREM ImplementsOnceDelivery == Spec => DeliversOnce
  BY Safety, InitMaps, NextMaps, PTL DEF Spec, DeliversOnce, Delivery!Spec

-----------------------------------------------------------------------------
(* Processed rows, when every event is Salla's *)

SallaOnly == /\ \A e \in Events : Source[e] = "salla"
             /\ \A w \in Workers : Serves[w] = "salla"

(* Handlers that have run stay run. *)
LEMMA HandledKept ==
  ASSUME Safe, [Next]_vars, NEW e \in Events, Handled(e)
  PROVE  Handled(e)'
<1>1. \A j \in Jobs : sends'[j] >= sends[j]
  <2>1. CASE Delivery!Next
    BY <2>1 DEF Delivery!Next, Delivery!Deliver, Delivery!DeliverUnheard,
       Delivery!Forget, Safe, TypeOK
  <2>2. CASE UNCHANGED <<sends, excuses>>
    BY <2>2 DEF Safe, TypeOK
  <2> QED
    BY <2>1, <2>2, NextMaps DEF Delivery!vars
<1>2. PICK j \in EventJobs(e) : sends[j] > 0
  BY DEF Handled
<1>3. j \in Jobs /\ sends[j] \in Nat /\ sends'[j] \in Nat
  BY TypeStep DEF EventJobs, Safe, TypeOK
<1>4. sends'[j] > 0
  BY <1>1, <1>2, <1>3
<1> QED
  BY <1>4 DEF Handled, EventJobs

(* A step that writes neither processed nor a tenant, and after which no other
   worker is about to write processed, disturbs nothing. *)
LEMMA ProcessedKept ==
  ASSUME Safe, HandledInv, [Next]_vars,
         \A e \in Events : status'[e] = "processed" => status[e] = "processed",
         UNCHANGED tenant,
         \A w \in Workers : wpc'[w] = "save" => wpc[w] = "save" /\ wjob'[w] = wjob[w]
  PROVE  HandledInv'
<1>1. \A w \in Workers : EventOf(w) \in Events
  BY JobEvent DEF EventOf, Safe, TypeOK
<1> QED
  BY <1>1, HandledKept DEF HandledInv, ProcessedMeansHandled, EventOf

LEMMA HandledNext == SallaOnly /\ Safe /\ HandledInv /\ [Next]_vars => HandledInv'
<1> SUFFICES ASSUME SallaOnly, Safe, HandledInv, [Next]_vars
             PROVE  HandledInv'
  OBVIOUS
<1> USE DEF rowVars, workerVars
<1>0. \A w \in Workers : wjob[w] \in Jobs /\ EventOf(w) \in Events
  BY JobEvent DEF EventOf, Safe, TypeOK
<1>1. CASE UNCHANGED vars
  BY <1>1, ProcessedKept DEF vars
<1>2. ASSUME NEW r \in Requests, Insert(r)
      PROVE  HandledInv'
  <2>1. UNCHANGED <<wpc, wjob>>
    BY <1>2 DEF Insert
  <2>2. CASE status[received[r]] # "none"
    <3>1. UNCHANGED <<status, tenant>>
      BY <1>2, <2>2 DEF Insert
    <3> QED
      BY <2>1, <3>1, ProcessedKept
  <2>3. CASE status[received[r]] = "none"
    <3>1. /\ \A e \in Events : e # received[r]
                => status'[e] = status[e] /\ tenant'[e] = tenant[e]
          /\ status'[received[r]] = "pending"
      BY <1>2, <2>3 DEF Insert, Safe, TypeOK
    <3>2. \A w \in Workers : wpc[w] # "idle" => EventOf(w) # received[r]
      BY <1>0, <2>3 DEF EventOf, Safe, IngestInv, WorkersHoldJobs, JobsHaveRows
    <3>3. ProcessedMeansHandled'
      BY <3>1, HandledKept DEF HandledInv, ProcessedMeansHandled
    <3>4. ASSUME NEW w \in Workers, wpc'[w] = "save", tenant'[EventOf(w)']
          PROVE  Handled(EventOf(w))'
      <4>1. EventOf(w)' = EventOf(w) /\ tenant[EventOf(w)] /\ Handled(EventOf(w))
        BY <1>0, <2>1, <3>1, <3>2, <3>4 DEF EventOf, HandledInv
      <4> QED
        BY <1>0, <4>1, HandledKept DEF Handled, EventJobs
    <3> QED
      BY <3>3, <3>4 DEF HandledInv
  <2> QED
    BY <2>2, <2>3
<1>3. ASSUME NEW r \in Requests,
             \/ CheckDuplicate(r) \/ FindStore(r) \/ AddJob(r) \/ CheckFails(r)
             \/ RequestFails(r) \/ \E e \in Events : Deliver(r, e)
      PROVE  HandledInv'
  <2>1. UNCHANGED <<status, tenant, wpc, wjob>>
    BY <1>3 DEF CheckDuplicate, FindStore, AddJob, CheckFails, RequestFails, Deliver
  <2> QED
    BY <2>1, ProcessedKept
<1>4. ASSUME NEW o \in Operators,
             OperatorActs(o) \/ \E e \in Events : AskRetry(o, e) \/ AskCancel(o, e)
      PROVE  HandledInv'
  <2>1. UNCHANGED <<tenant, wpc, wjob>>
    BY <1>4 DEF OperatorActs, OperatorStep, AskRetry, AskCancel, AddRetry, MarkRetry,
       Cancel, OrderFails
  <2>2. \A e \in Events : status'[e] = "processed" => status[e] = "processed"
    BY <1>4 DEF OperatorActs, OperatorStep, AskRetry, AskCancel, AddRetry, MarkRetry,
       Cancel, OrderFails, Safe, TypeOK
  <2> QED
    BY <2>1, <2>2, ProcessedKept
<1>5. ASSUME NEW w \in Workers, Handle(w)
      PROVE  HandledInv'
  <2>1. /\ UNCHANGED <<status, tenant, wjob>>
        /\ \A v \in Workers \ {w} : wpc'[v] = wpc[v]
    BY <1>5 DEF Handle, Step, Safe, TypeOK
  <2>2. ProcessedMeansHandled'
    BY <2>1, HandledKept DEF HandledInv, ProcessedMeansHandled
  <2>3. ASSUME tenant[EventOf(w)]
        PROVE  Handled(EventOf(w))'
    <3>1. HasEffect(w)
      BY <1>0, <2>3 DEF HasEffect, Knows, SallaOnly
    <3>2. sends'[wjob[w]] = sends[wjob[w]] + 1 /\ sends[wjob[w]] \in Nat
      BY <1>0, <1>5, <3>1 DEF Handle, Safe, TypeOK
    <3> QED
      BY <1>0, <2>1, <3>2 DEF Handled, EventJobs, EventOf
  <2>4. ASSUME NEW v \in Workers \ {w}, wpc'[v] = "save", tenant'[EventOf(v)']
        PROVE  Handled(EventOf(v))'
    <3>1. EventOf(v)' = EventOf(v) /\ Handled(EventOf(v))
      BY <2>1, <2>4 DEF HandledInv, EventOf
    <3> QED
      BY <1>0, <3>1, HandledKept DEF Handled, EventJobs
  <2>5. \A v \in Workers : wpc'[v] = "save" /\ tenant'[EventOf(v)'] => Handled(EventOf(v))'
    BY <2>1, <2>3, <2>4 DEF EventOf
  <2> QED
    BY <2>2, <2>5 DEF HandledInv
<1>6. ASSUME NEW w \in Workers, Save(w)
      PROVE  HandledInv'
  <2>1. /\ wpc[w] = "save" /\ UNCHANGED <<tenant, wjob>>
        /\ \A v \in Workers : wpc'[v] = "save" => wpc[v] = "save"
        /\ \A e \in Events : e # EventOf(w) => status'[e] = status[e]
    BY <1>6 DEF Save, SetStatus, Step, Safe, TypeOK
  <2>2. \A v \in Workers : wpc'[v] = "save" /\ tenant'[EventOf(v)'] => Handled(EventOf(v))'
    <3>1. \A v \in Workers : EventOf(v)' = EventOf(v)
      BY <2>1 DEF EventOf
    <3>2. \A v \in Workers : wpc'[v] = "save" /\ tenant[EventOf(v)] => Handled(EventOf(v))
      BY <2>1 DEF HandledInv
    <3> QED
      BY <1>0, <2>1, <3>1, <3>2, HandledKept DEF Handled, EventJobs
  <2>3. tenant[EventOf(w)] => Handled(EventOf(w))
    BY <2>1 DEF HandledInv
  <2>4. ProcessedMeansHandled'
    BY <1>0, <2>1, <2>3, HandledKept DEF HandledInv, ProcessedMeansHandled
  <2> QED
    BY <2>2, <2>4 DEF HandledInv
<1>7. ASSUME NEW w \in Workers,
             \/ TakeJob(w) \/ Start(w) \/ Announce(w) \/ StatementFails(w) \/ Catch(w)
             \/ CatchFails(w) \/ Settle(w)
      PROVE  HandledInv'
  <2>1. UNCHANGED tenant
    BY <1>7 DEF TakeJob, Start, Announce, StatementFails, Catch, CatchFails, Settle, Step
  <2>2. UNCHANGED status \/ \E s \in {"processing", "failed"} : SetStatus(w, s)
    BY <1>7 DEF TakeJob, Start, Announce, StatementFails, Catch, CatchFails, Settle
  <2>3. \A e \in Events : status'[e] = "processed" => status[e] = "processed"
    BY <2>2 DEF SetStatus, Safe, TypeOK
  <2>4. \A v \in Workers : wpc'[v] = "save" => wpc[v] = "save" /\ wjob'[v] = wjob[v]
    BY <1>7 DEF TakeJob, Start, Announce, StatementFails, Catch, CatchFails, Settle, Step,
       Safe, TypeOK
  <2> QED
    BY <2>1, <2>3, <2>4, ProcessedKept
<1>8. CASE Crash
  <2>1. UNCHANGED <<status, tenant>> /\ \A w \in Workers : wpc'[w] = "idle"
    BY <1>8 DEF Crash
  <2> QED
    BY <2>1, ProcessedKept
<1> QED
  BY <1>1, <1>2, <1>3, <1>4, <1>5, <1>6, <1>7, <1>8
     DEF Next, RequestStep, AttemptStep, OperatorActs

(* With Salla's events alone a row that says processed tells the truth, for any
   number of deliveries, requests, workers, retries and faults. Zid's events are
   left out because an operator's retry sends them to Salla's processor. *)
THEOREM ProcessedHandled ==
  ASSUME SallaOnly
  PROVE  Spec => []ProcessedMeansHandled
<1>1. Init => HandledInv
  BY DEF Init, HandledInv, ProcessedMeansHandled
<1>2. Safe /\ HandledInv /\ [Next]_vars => HandledInv'
  BY HandledNext
<1>3. HandledInv => ProcessedMeansHandled
  BY DEF HandledInv
<1> QED
  BY <1>1, <1>2, <1>3, Safety, PTL DEF Spec

-----------------------------------------------------------------------------
(* Failed rows *)

(* What an attempt has failed stays on record: in the worker until the job settles,
   or is found stalled, then in the job's counts. *)
LEMMA FailureStays ==
  ASSUME Safe, Safe', [Next]_vars
  PROVE  \A j \in Jobs : AnotherFailed(j) => AnotherFailed(j)'
<1> USE DEF rowVars, queueVars, requestVars, operatorVars, workerVars, effectVars
<1>0. /\ \A j \in Jobs : failures[j] \in Nat /\ stalls[j] \in Nat
      /\ \A w \in Workers : wjob[w] \in Jobs
      /\ \A w \in Workers : threw[w] => wpc[w] = "finish"
  BY DEF Safe, TypeOK, IngestInv, WorkersHoldJobs
<1>1. ASSUME UNCHANGED <<failures, stalls>>,
             \A w \in Workers : threw[w] => threw'[w] /\ wjob'[w] = wjob[w]
      PROVE  \A j \in Jobs : HasFailed(j) => HasFailed(j)'
  BY <1>1 DEF HasFailed
<1>2. CASE \/ UNCHANGED vars
           \/ \E r \in Requests : RequestActs(r) \/ \E e \in Events : Deliver(r, e)
           \/ \E o \in Operators : \/ OperatorActs(o)
                                   \/ \E e \in Events : AskRetry(o, e) \/ AskCancel(o, e)
  <2>1. UNCHANGED <<failures, stalls, threw, wjob>>
    BY <1>2 DEF vars, RequestActs, RequestStep, CheckDuplicate, FindStore, Insert, AddJob,
       CheckFails, RequestFails, Deliver, OperatorActs, OperatorStep, AskRetry, AskCancel,
       AddRetry, MarkRetry, Cancel, OrderFails
  <2>2. \A j \in Jobs : HasFailed(j) => HasFailed(j)'
    BY <1>1, <2>1
  <2> QED
    BY <2>2 DEF AnotherFailed, EventJobs
<1>3. ASSUME NEW w \in Workers, WorkerActs(w)
      PROVE  \A j \in Jobs : AnotherFailed(j) => AnotherFailed(j)'
  <2>1. CASE Settle(w)
    <3>1. /\ wpc[w] = "finish" /\ stalls' = stalls
          /\ threw' = [threw EXCEPT ![w] = FALSE] /\ wjob' = [wjob EXCEPT ![w] = NoJob]
          /\ failures' = [failures EXCEPT ![wjob[w]] = IF threw[w] THEN @ + 1 ELSE @]
      BY <2>1 DEF Settle
    <3>2. /\ \A j \in Jobs : failures'[j] >= failures[j]
          /\ threw[w] => failures'[wjob[w]] > 0
      BY <1>0, <3>1 DEF Safe, TypeOK
    <3>3. \A v \in Workers \ {w} : threw'[v] = threw[v] /\ wjob'[v] = wjob[v]
      BY <3>1 DEF Safe, TypeOK
    <3>4. \A j \in Jobs : HasFailed(j) => HasFailed(j)'
      BY <1>0, <3>1, <3>2, <3>3 DEF HasFailed
    <3> QED
      BY <3>4 DEF AnotherFailed, EventJobs
  <2>2. CASE ~Settle(w)
    <3>1. /\ UNCHANGED <<failures, stalls>>
          /\ threw' = threw \/ threw' = [threw EXCEPT ![w] = TRUE]
          /\ \/ wjob' = wjob
             \/ wpc[w] = "idle" /\ \E j \in Jobs : wjob' = [wjob EXCEPT ![w] = j]
      <4>1. CASE TakeJob(w)
        BY <4>1 DEF TakeJob
      <4>2. CASE ~TakeJob(w)
        BY <1>3, <2>2, <4>2 DEF WorkerActs, AttemptStep, Start, Handle, Save, Announce,
           Catch, StatementFails, CatchFails, Step
      <4> QED
        BY <4>1, <4>2
    <3>2. \A v \in Workers : threw[v] => threw'[v] /\ wjob'[v] = wjob[v]
      BY <1>0, <3>1 DEF Safe, TypeOK
    <3>3. \A j \in Jobs : HasFailed(j) => HasFailed(j)'
      BY <1>1, <3>1, <3>2
    <3> QED
      BY <3>3 DEF AnotherFailed, EventJobs
  <2> QED
    BY <2>1, <2>2
<1>4. CASE Crash
  <2>1. /\ failures' = failures
        /\ stalls' = [j \in Jobs |->
              IF j \in {wjob[w] : w \in {v \in Workers : wpc[v] # "idle"}}
                THEN stalls[j] + 1 ELSE stalls[j]]
    BY <1>4 DEF Crash
  <2>2. \A j \in Jobs : stalls'[j] >= stalls[j]
    BY <1>0, <2>1
  <2>3. \A w \in Workers : threw[w] => stalls'[wjob[w]] > 0
    BY <1>0, <2>1
  <2>4. \A j \in Jobs : HasFailed(j) => HasFailed(j)'
    BY <1>0, <2>1, <2>2, <2>3 DEF HasFailed
  <2> QED
    BY <2>4 DEF AnotherFailed, EventJobs
<1> QED
  BY <1>2, <1>3, <1>4 DEF Next, RequestActs, OperatorActs, WorkerActs

(* A step that makes no row failed, runs no handler and begins none. *)
LEMMA FailedKept ==
  ASSUME Safe, FailedInv, \A j \in Jobs : AnotherFailed(j) => AnotherFailed(j)',
         \A e \in Events : status'[e] = "failed" => status[e] = "failed",
         UNCHANGED sends, \A j \in Jobs : excuses'[j] \in Nat /\ excuses'[j] >= excuses[j],
         \A w \in Workers : wpc'[w] = "handle" => wpc[w] = "handle" /\ wjob'[w] = wjob[w]
  PROVE  FailedInv'
<1>1. \A w \in Workers : wjob[w] \in Jobs /\ EventOf(w) \in Events
  BY JobEvent DEF EventOf, Safe, TypeOK
<1>2. \A j \in Jobs : sends[j] \in Nat /\ excuses[j] \in Nat
  BY DEF Safe, TypeOK
<1>3. ASSUME NEW e \in Events, status'[e] = "failed", NEW j \in Jobs, j[1] = e,
             sends'[j] > excuses'[j]
      PROVE  AnotherFailed(j)'
  <2>1. sends[j] > excuses[j]
    BY <1>2, <1>3
  <2>2. AnotherFailed(j)
    BY <1>3, <2>1 DEF FailedInv, FailedMeansUnhandled, EventJobs
  <2> QED
    BY <2>2
<1>4. FailedMeansUnhandled'
  BY <1>3 DEF FailedMeansUnhandled, EventJobs
<1>5. ASSUME NEW w \in Workers, wpc'[w] = "handle", status'[EventOf(w)'] = "failed"
      PROVE  AnotherFailed(wjob[w])' /\ wjob'[w] = wjob[w]
  <2>1. wpc[w] = "handle" /\ wjob'[w] = wjob[w] /\ status[EventOf(w)] = "failed"
    BY <1>1, <1>5 DEF EventOf
  <2> QED
    BY <1>1, <2>1 DEF FailedInv, AnotherFailed
<1> QED
  BY <1>4, <1>5 DEF FailedInv, AnotherFailed

LEMMA FailedWorker ==
  ASSUME Safe, Safe', FailedInv, NEW w \in Workers, WorkerActs(w),
         \A j \in Jobs : AnotherFailed(j) => AnotherFailed(j)'
  PROVE  FailedInv'
<1> USE DEF rowVars, effectVars
<1>0. /\ \A v \in Workers : wjob[v] \in Jobs /\ EventOf(v) \in Events
      /\ \A j \in Jobs : sends[j] \in Nat /\ excuses[j] \in Nat
  BY JobEvent DEF EventOf, Safe, TypeOK
<1>1. CASE TakeJob(w) \/ Save(w) \/ Announce(w) \/ CatchFails(w) \/ Settle(w)
  <2>1. /\ UNCHANGED <<sends, excuses>>
        /\ \A v \in Workers : wpc'[v] = "handle" => wpc[v] = "handle" /\ wjob'[v] = wjob[v]
    BY <1>1 DEF TakeJob, Save, Announce, CatchFails, Settle, Step, Safe, TypeOK
  <2>2. UNCHANGED status \/ SetStatus(w, "processed")
    BY <1>1 DEF TakeJob, Save, Announce, CatchFails, Settle
  <2>3. \A e \in Events : status'[e] = "failed" => status[e] = "failed"
    BY <1>0, <2>2 DEF SetStatus, Safe, TypeOK
  <2> QED
    BY <1>0, <2>1, <2>3, FailedKept
<1>2. CASE StatementFails(w)
  <2>1. /\ UNCHANGED <<sends, wjob>> /\ Excuse(w)
        /\ \A v \in Workers : wpc'[v] = "handle" => wpc[v] = "handle"
        /\ UNCHANGED status \/ SetStatus(w, "processing")
    BY <1>2 DEF StatementFails, Step, Safe, TypeOK
  <2>2. \A e \in Events : status'[e] = "failed" => status[e] = "failed"
    BY <1>0, <2>1 DEF SetStatus, Safe, TypeOK
  <2>3. \A j \in Jobs : excuses'[j] \in Nat /\ excuses'[j] >= excuses[j]
    BY <1>0, <2>1 DEF Excuse, Safe, TypeOK
  <2> QED
    BY <2>1, <2>2, <2>3, FailedKept
<1>3. ASSUME wjob' = wjob,
             \A j \in Jobs : AnotherFailed(j)' =>
                \A v \in Workers : j = wjob[v] => AnotherFailed(wjob[v])',
             \A e \in Events : \A j \in EventJobs(e) :
                status'[e] = "failed" /\ sends'[j] > excuses'[j] => AnotherFailed(j)',
             \A v \in Workers : wpc'[v] = "handle" /\ status'[EventOf(v)] = "failed"
                                  => AnotherFailed(wjob[v])'
      PROVE  FailedInv'
  BY <1>3 DEF FailedInv, FailedMeansUnhandled, EventOf, EventJobs
<1>4. ASSUME wjob' = wjob
      PROVE  \A j \in Jobs, v \in Workers :
                AnotherFailed(j)' /\ j = wjob[v] => AnotherFailed(wjob[v])'
  BY <1>4 DEF AnotherFailed, EventJobs
<1>5. \A e \in Events : \A j \in EventJobs(e) :
         status[e] = "failed" /\ sends[j] > excuses[j] => AnotherFailed(j)'
  BY DEF FailedInv, FailedMeansUnhandled, EventJobs
<1>6. ASSUME wjob' = wjob, NEW v \in Workers, wpc[v] = "handle",
             status[EventOf(v)] = "failed"
      PROVE  AnotherFailed(wjob[v])'
  <2>1. AnotherFailed(wjob[v])
    BY <1>6 DEF FailedInv
  <2>2. PICK j \in Jobs : j = wjob[v]
    BY <1>0
  <2>3. AnotherFailed(j)
    BY <2>1, <2>2 DEF AnotherFailed
  <2> QED
    BY <1>4, <1>6, <2>2, <2>3
<1>7. CASE Start(w)
  <2>1. /\ wjob' = wjob /\ UNCHANGED <<sends, excuses>>
        /\ \A v \in Workers \ {w} : wpc'[v] = wpc[v]
        /\ status'[EventOf(w)] = "processing"
        /\ \A e \in Events : status'[e] = "failed" => status[e] = "failed"
    BY <1>0, <1>7 DEF Start, Step, SetStatus, Safe, TypeOK
  <2>2. \A e \in Events : \A j \in EventJobs(e) :
           status'[e] = "failed" /\ sends'[j] > excuses'[j] => AnotherFailed(j)'
    BY <1>5, <2>1
  <2>3. \A v \in Workers : wpc'[v] = "handle" /\ status'[EventOf(v)] = "failed"
                             => AnotherFailed(wjob[v])'
    BY <1>0, <1>6, <2>1
  <2> QED
    BY <1>3, <1>4, <2>1, <2>2, <2>3
<1>8. CASE Handle(w)
  <2>1. /\ wpc[w] = "handle" /\ UNCHANGED <<status, wjob, excuses>>
        /\ \A v \in Workers : wpc'[v] = "handle" => wpc[v] = "handle"
        /\ \A j \in Jobs : j # wjob[w] => sends'[j] = sends[j]
    BY <1>0, <1>8 DEF Handle, Step, Safe, TypeOK
  <2>2. ASSUME NEW e \in Events, NEW j \in EventJobs(e),
               status'[e] = "failed", sends'[j] > excuses'[j]
        PROVE  AnotherFailed(j)'
    <3>1. CASE j = wjob[w]
      <4>1. status[EventOf(w)] = "failed"
        BY <2>1, <2>2, <3>1 DEF EventJobs, EventOf
      <4>2. AnotherFailed(wjob[w])
        BY <2>1, <4>1 DEF FailedInv
      <4>3. AnotherFailed(j)
        BY <3>1, <4>2 DEF AnotherFailed
      <4> QED
        BY <4>3 DEF EventJobs
    <3>2. CASE j # wjob[w]
      <4>1. j \in Jobs
        BY DEF EventJobs
      <4> QED
        BY <1>5, <2>1, <2>2, <3>2, <4>1
    <3> QED
      BY <3>1, <3>2
  <2>3. \A v \in Workers : wpc'[v] = "handle" /\ status'[EventOf(v)] = "failed"
                             => AnotherFailed(wjob[v])'
    BY <1>6, <2>1
  <2> QED
    BY <1>3, <1>4, <2>1, <2>2, <2>3
<1>9. CASE Catch(w)
  <2>1. /\ wpc[w] = "catch" /\ wpc'[w] = "finish" /\ UNCHANGED <<wjob, sends, excuses>>
        /\ \A v \in Workers \ {w} : wpc'[v] = wpc[v]
        /\ \A e \in Events \ {EventOf(w)} : status'[e] = status[e]
        /\ threw'[w]
    BY <1>0, <1>9 DEF Catch, Step, SetStatus, Safe, TypeOK
  <2>2. sends[wjob[w]] <= excuses[wjob[w]]
    BY <2>1 DEF Safe, IngestInv, UnsentIsUnsent
  <2>3. HasFailed(wjob[w])'
    BY <2>1 DEF HasFailed
  <2>4. ASSUME NEW j \in Jobs, j # wjob[w], j[1] = EventOf(w)
        PROVE  AnotherFailed(j)'
    <3>1. PICK k \in Jobs : k = wjob[w]
      BY <1>0
    <3>2. HasFailed(k)'
      BY <2>1, <3>1 DEF HasFailed
    <3>3. k \in EventJobs(j[1]) \ {j}
      BY <2>4, <3>1 DEF EventJobs, EventOf
    <3> QED
      BY <3>2, <3>3 DEF AnotherFailed, EventJobs
  <2>5. ASSUME NEW e \in Events, NEW j \in EventJobs(e),
               status'[e] = "failed", sends'[j] > excuses'[j]
        PROVE  AnotherFailed(j)'
    <3>1. j \in Jobs /\ j[1] = e /\ sends[j] \in Nat /\ excuses[j] \in Nat
      BY <1>0 DEF EventJobs
    <3>2. CASE e = EventOf(w)
      <4>1. j # wjob[w]
        BY <2>1, <2>2, <2>5, <3>1
      <4> QED
        BY <2>4, <3>1, <3>2, <4>1
    <3>3. CASE e # EventOf(w)
      BY <1>5, <2>1, <2>5, <3>3
    <3> QED
      BY <3>2, <3>3
  <2>6. ASSUME NEW v \in Workers, wpc'[v] = "handle", status'[EventOf(v)] = "failed"
        PROVE  AnotherFailed(wjob[v])'
    <3>1. v # w /\ wpc[v] = "handle"
      BY <2>1, <2>6
    <3>2. wjob[v] # wjob[w]
      BY <2>1, <3>1 DEF Safe, IngestInv, OneWorkerPerJob
    <3>3. CASE EventOf(v) = EventOf(w)
      <4>1. PICK j \in Jobs : j = wjob[v]
        BY <1>0
      <4>2. j[1] = EventOf(w)
        BY <3>3, <4>1 DEF EventOf
      <4> QED
        BY <1>4, <2>1, <2>4, <3>2, <4>1, <4>2
    <3>4. CASE EventOf(v) # EventOf(w)
      <4>1. status[EventOf(v)] = "failed"
        BY <1>0, <2>1, <2>6, <3>4
      <4> QED
        BY <1>6, <2>1, <3>1, <4>1
    <3> QED
      BY <3>3, <3>4
  <2> QED
    BY <1>3, <1>4, <2>1, <2>5, <2>6
<1> QED
  BY <1>1, <1>2, <1>7, <1>8, <1>9 DEF WorkerActs, AttemptStep

LEMMA FailedNext ==
  ASSUME Safe, Safe', FailedInv, [Next]_vars
  PROVE  FailedInv'
<1> USE DEF rowVars, workerVars, effectVars
<1>0. /\ \A j \in Jobs : sends[j] \in Nat /\ excuses[j] \in Nat
      /\ \A j \in Jobs : AnotherFailed(j) => AnotherFailed(j)'
  BY FailureStays DEF Safe, TypeOK
<1>1. CASE UNCHANGED vars
  BY <1>0, <1>1, FailedKept DEF vars
<1>2. ASSUME NEW r \in Requests, RequestActs(r) \/ \E e \in Events : Deliver(r, e)
      PROVE  FailedInv'
  <2>1. UNCHANGED <<wpc, wjob, sends, excuses>>
    BY <1>2 DEF RequestActs, RequestStep, CheckDuplicate, FindStore, Insert, AddJob,
       CheckFails, RequestFails, Deliver
  <2>2. \A e \in Events : status'[e] = "failed" => status[e] = "failed"
    BY <1>2 DEF RequestActs, RequestStep, CheckDuplicate, FindStore, Insert, AddJob,
       CheckFails, RequestFails, Deliver, Safe, TypeOK
  <2> QED
    BY <1>0, <2>1, <2>2, FailedKept
<1>3. ASSUME NEW o \in Operators,
             OperatorActs(o) \/ \E e \in Events : AskRetry(o, e) \/ AskCancel(o, e)
      PROVE  FailedInv'
  <2>1. UNCHANGED <<wpc, wjob, sends, excuses>>
    BY <1>3 DEF OperatorActs, OperatorStep, AskRetry, AskCancel, AddRetry, MarkRetry,
       Cancel, OrderFails
  <2>2. \A e \in Events : status'[e] = "failed" => status[e] = "failed"
    BY <1>3 DEF OperatorActs, OperatorStep, AskRetry, AskCancel, AddRetry, MarkRetry,
       Cancel, OrderFails, Safe, TypeOK
  <2> QED
    BY <1>0, <2>1, <2>2, FailedKept
<1>4. ASSUME NEW w \in Workers, WorkerActs(w) PROVE FailedInv'
  BY <1>0, <1>4, FailedWorker
<1>5. CASE Crash
  <2>1. /\ UNCHANGED <<status, sends>> /\ \A w \in Workers : wpc'[w] = "idle"
        /\ \A j \in Jobs : excuses'[j] = excuses[j] \/ excuses'[j] = excuses[j] + 1
    BY <1>5 DEF Crash
  <2>2. \A j \in Jobs : excuses'[j] \in Nat /\ excuses'[j] >= excuses[j]
    BY <1>0, <2>1
  <2> QED
    BY <1>0, <2>1, <2>2, FailedKept
<1> QED
  BY <1>1, <1>2, <1>3, <1>4, <1>5 DEF Next, RequestActs, OperatorActs, WorkerActs

(* A row that says failed has had no effect but the excused ones, for any number of
   retries by the queue and by hand, unless one job of its event has run the handler
   and another has failed: each job's own catch follows only attempts whose effects
   are excused. *)
THEOREM FailedUnhandled == Spec => []FailedMeansUnhandled
<1>1. ASSUME Init PROVE FailedInv
  BY <1>1 DEF Init, FailedInv, FailedMeansUnhandled
<1>2. Safe /\ Safe' /\ FailedInv /\ [Next]_vars => FailedInv'
  BY FailedNext
<1>3. FailedInv => FailedMeansUnhandled
  BY DEF FailedInv
<1> QED
  BY <1>1, <1>2, <1>3, Safety, PTL DEF Spec
=============================================================================
