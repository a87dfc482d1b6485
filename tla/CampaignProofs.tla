--------------------------- MODULE CampaignProofs ---------------------------
(***************************************************************************)
(* Theorems about Campaign: type correctness, the guarantees the queue and *)
(* the status check give to customers, the refinement of OnceDelivery, and *)
(* what the counters of the row and the pages of an execution can be       *)
(* trusted for.                                                            *)
(***************************************************************************)
EXTENDS Campaign, SumTheorems, FiniteSetTheorems, TLAPS

(* What is written into the row or into a local is of its type. *)
LEMMA NoRowType == NoRow \in Row
  BY DEF NoRow, Row, Status

LEMMA NoExecutionType == NoExecution \in Execution
  BY DEF NoExecution, Execution

LEMMA PageType ==
  ASSUME TypeOK, NEW o
  PROVE  Page(o) \in SUBSET Customers /\ Cardinality(Page(o)) \in Nat
<1>1. Page(o) \subseteq Customers
  BY DEF Page, TypeOK
<1>2. IsFiniteSet(Page(o))
  BY <1>1, CampaignAssumption, FS_Subset DEF CampaignAssumption
<1> QED
  BY <1>1, <1>2, FS_CardinalityType

(* Incrementing one value of a function to Nat. *)
LEMMA Increment ==
  ASSUME NEW S, NEW f \in [S -> Nat], NEW x \in S
  PROVE  [f EXCEPT ![x] = @ + 1] \in [S -> Nat]
  OBVIOUS

LEMMA WriteType ==
  ASSUME TypeOK, NEW r \in Row, Write(r)
  PROVE  row' \in Row /\ late' \in [Workers -> Nat]
  BY DEF Write, TypeOK

LEMMA StatusType ==
  ASSUME TypeOK, NEW s \in Status, SetStatus(s)
  PROVE  row' \in Row /\ late' \in [Workers -> Nat]
<1>1. [row EXCEPT !.status = s] \in Row
  BY DEF TypeOK, Row
<1> QED
  BY <1>1, WriteType DEF SetStatus

LEMMA SpendType ==
  ASSUME TypeOK, NEW kind \in {"requests", "faults", "churn"}, NEW limit \in Nat,
         Spend(kind, limit)
  PROVE  used' \in [requests : Nat, faults : Nat, churn : Nat]
  BY DEF Spend, TypeOK

LEMMA BoundType ==
  ASSUME TypeOK
  PROVE  /\ Request => used' \in [requests : Nat, faults : Nat, churn : Nat]
         /\ Fault => used' \in [requests : Nat, faults : Nat, churn : Nat]
  BY SpendType, CampaignAssumption DEF Request, Fault, CampaignAssumption

LEMMA InitType == Init => TypeOK
<1> SUFFICES ASSUME Init PROVE TypeOK
  OBVIOUS
<1>1. PICK a \in BOOLEAN : \E s \in InitialStatus(a) :
        row = [NoRow EXCEPT !.status = s, !.automated = a]
  BY DEF Init
<1>2. PICK s \in InitialStatus(a) :
        row = [NoRow EXCEPT !.status = s, !.automated = a]
  BY <1>1
<1>3. row \in Row
  BY <1>2 DEF InitialStatus, NoRow, Row, Status
<1> QED
  BY <1>3, NoRowType, NoExecutionType
     DEF Init, TypeOK, JobState, CallerPc, WorkerPc

LEMMA RequestType ==
  ASSUME TypeOK, RequestStep
  PROVE  TypeOK'
<1> USE DEF TypeOK, callerVars, workerVars, queueVars, sendVars
<1>1. CASE Pause
  BY <1>1, StatusType, BoundType DEF Pause, Status
<1>2. CASE Cancel
  BY <1>2, StatusType, BoundType DEF Cancel, Status
<1>3. CASE Activate
  BY <1>3, StatusType, BoundType DEF Activate, Status
<1>4. ASSUME NEW p \in Requests, ResumeLoad(p) PROVE TypeOK'
  BY <1>4, BoundType DEF ResumeLoad, Begin, Goto, CallerPc
<1>5. ASSUME NEW p \in Requests, ResumeWrite(p) PROVE TypeOK'
  BY <1>5, StatusType, NoRowType, NoExecutionType
     DEF ResumeWrite, End, Goto, CallerPc, Status
<1>6. ASSUME NEW p \in Requests, RemoveLoad(p) PROVE TypeOK'
  BY <1>6, BoundType DEF RemoveLoad, Begin, Goto, CallerPc
<1>7. ASSUME NEW p \in Requests, RemoveWrite(p) PROVE TypeOK'
  <2>1. [row EXCEPT !.deleted = TRUE] \in Row
    BY DEF Row
  <2> QED
    BY <1>7, <2>1, WriteType, NoRowType, NoExecutionType
       DEF RemoveWrite, End, Goto, CallerPc
<1>8. ASSUME NEW p \in Requests, UpdateLoad(p) PROVE TypeOK'
  BY <1>8, BoundType DEF UpdateLoad, Begin, Goto, CallerPc
<1>9. ASSUME NEW p \in Requests, UpdateSave(p) PROVE TypeOK'
  <2>1. copy[p] \in Row
    BY DEF Callers
  <2>2. PICK body \in BOOLEAN : Write([copy[p] EXCEPT !.hasBody = body])
    BY <1>9 DEF UpdateSave
  <2>3. [copy[p] EXCEPT !.hasBody = body] \in Row
    BY <2>1 DEF Row
  <2>4. row' \in Row /\ late' \in [Workers -> Nat]
    BY <2>2, <2>3, WriteType
  <2> QED
    BY <1>9, <2>4, NoRowType, NoExecutionType DEF UpdateSave, End, Goto, CallerPc
<1> QED
  BY <1>1, <1>2, <1>3, <1>4, <1>5, <1>6, <1>7, <1>8, <1>9 DEF RequestStep

LEMMA ExecuteType ==
  ASSUME TypeOK, NEW p \in Callers, ExecuteStep(p)
  PROVE  TypeOK'
<1> USE DEF TypeOK, callerVars, workerVars, queueVars, sendVars
<1>1. CASE ExecuteLoad(p)
  BY <1>1, BoundType DEF ExecuteLoad, Calls, Goto, CallerPc
<1>2. CASE ExecuteRefused(p)
  BY <1>2, BoundType, NoExecutionType
     DEF ExecuteRefused, Calls, Throw, Goto, CallerPc
<1>3. CASE ExecuteActivate(p)
  <2>1. exec' \in [Callers -> Execution]
    BY <1>3 DEF ExecuteActivate, Execution
  <2> QED
    BY <1>3, <2>1, StatusType DEF ExecuteActivate, Goto, CallerPc, Status
<1>4. CASE ReadPage(p)
  <2> DEFINE page == Page(exec[p].offset)
  <2>1. page \in SUBSET Customers /\ Cardinality(page) \in Nat
    BY PageType
  <2>2. [offset |-> exec[p].offset + BatchSize,
         queued |-> exec[p].queued + Cardinality(page),
         batch |-> page, start |-> exec[p].start] \in Execution
    BY <2>1, CampaignAssumption DEF CampaignAssumption, Execution
  <2>3. exec' \in [Callers -> Execution]
    BY <1>4, <2>2 DEF ReadPage
  <2> QED
    BY <1>4, <2>3 DEF ReadPage, Goto, CallerPc
<1>5. CASE AddJob(p)
  <2>1. exec' \in [Callers -> Execution]
    <3>1. PICK c \in exec[p].batch : exec' = [exec EXCEPT ![p].batch = @ \ {c}]
      BY <1>5 DEF AddJob
    <3>2. [exec[p] EXCEPT !.batch = @ \ {c}] \in Execution
      BY DEF Execution
    <3> QED
      BY <3>1, <3>2
  <2>2. job' \in [Customers -> JobState]
    <3>1. PICK c \in exec[p].batch : Enqueue(c)
      BY <1>5 DEF AddJob
    <3>2. job \in [Customers -> JobState] /\ "waiting" \in JobState
      BY DEF JobState
    <3> QED
      BY <3>1, <3>2 DEF Enqueue
  <2> QED
    BY <1>5, <2>1, <2>2 DEF AddJob, Goto, CallerPc
<1>6. CASE SetTotal(p)
  <2>1. [row EXCEPT !.total = exec[p].queued] \in Row
    BY DEF Row, Execution
  <2> QED
    BY <1>6, <2>1, WriteType, NoRowType, NoExecutionType
       DEF SetTotal, End, Goto, CallerPc
<1>7. CASE ExecuteError(p)
  BY <1>7, BoundType, NoExecutionType DEF ExecuteError, Throw, Goto, CallerPc
<1> QED
  BY <1>1, <1>2, <1>3, <1>4, <1>5, <1>6, <1>7 DEF ExecuteStep

LEMMA CronType ==
  ASSUME TypeOK, CronStep
  PROVE  TypeOK'
<1> USE DEF TypeOK, callerVars, workerVars, queueVars, sendVars, Callers
<1>1. CASE CronPick
  BY <1>1 DEF CronPick, Goto, CallerPc
<1>2. CASE CronFail
  BY <1>2, StatusType, NoRowType, NoExecutionType
     DEF CronFail, End, Goto, CallerPc, Status
<1>3. CASE ExecuteStep(Cron)
  BY <1>3, ExecuteType
<1> QED
  BY <1>1, <1>2, <1>3 DEF CronStep

LEMMA CountType ==
  ASSUME TypeOK
  PROVE  /\ Count([row EXCEPT !.failed = @ + 1]) =>
              /\ row' \in Row /\ late' \in [Workers -> Nat]
              /\ used' \in [requests : Nat, faults : Nat, churn : Nat]
         /\ Count([row EXCEPT !.sent = @ + 1]) =>
              /\ row' \in Row /\ late' \in [Workers -> Nat]
              /\ used' \in [requests : Nat, faults : Nat, churn : Nat]
<1>1. /\ [row EXCEPT !.failed = @ + 1] \in Row
      /\ [row EXCEPT !.sent = @ + 1] \in Row
  BY DEF TypeOK, Row
<1> QED
  BY <1>1, WriteType, BoundType DEF Count, TypeOK

LEMMA WorkerType ==
  ASSUME TypeOK, WorkersHoldJobs, NEW w \in Workers, WorkerStep(w)
  PROVE  TypeOK'
<1> USE DEF TypeOK, callerVars, workerVars, queueVars, sendVars
<1>0. wpc[w] # "idle" => wjob[w] \in Customers
  BY DEF WorkersHoldJobs
<1>1. CASE TakeJob(w)
  BY <1>1 DEF TakeJob, JobState, WorkerPc
<1>2. CASE LoadStopped(w)
  BY <1>0, <1>2 DEF LoadStopped, Step, WorkerPc
<1>3. CASE LoadOverThreshold(w)
  BY <1>3 DEF LoadOverThreshold, Step, WorkerPc
<1>4. CASE AutoPause(w)
  BY <1>0, <1>4, StatusType DEF AutoPause, Step, WorkerPc, Status
<1>5. CASE LoadPasses(w)
  BY <1>5 DEF LoadPasses, Step, WorkerPc
<1>6. CASE Unreachable(w)
  BY <1>6, CountType DEF Unreachable, Step, WorkerPc
<1>7. CASE Send(w)
  <2>1. sends' \in [Customers -> Nat] /\ late' \in [Workers -> Nat]
    BY <1>0, <1>7, Increment DEF Send, Deliver, Step
  <2> QED
    BY <1>7, <2>1 DEF Send, Step, WorkerPc
<1>8. CASE SendFails(w)
  BY <1>8 DEF SendFails, Step, WorkerPc
<1>9. CASE LoadFails(w)
  BY <1>9, BoundType DEF LoadFails, Step, WorkerPc
<1>10. CASE SendAnswerLost(w)
  <2>1. /\ sends' \in [Customers -> Nat] /\ late' \in [Workers -> Nat]
        /\ excuses' \in [Customers -> Nat]
    BY <1>0, <1>10, Increment DEF SendAnswerLost, Deliver, Step
  <2> QED
    BY <1>10, <2>1, BoundType DEF SendAnswerLost, Step, WorkerPc
<1>11. CASE CountSent(w)
  BY <1>11, CountType DEF CountSent, Step, WorkerPc
<1>12. CASE CountFailed(w)
  BY <1>12, CountType DEF CountFailed, Step, WorkerPc
<1>13. CASE CheckCompletion(w)
  BY <1>13 DEF CheckCompletion, Step, WorkerPc
<1>14. CASE WriteCompleted(w)
  BY <1>14, StatusType DEF WriteCompleted, Step, WorkerPc, Status
<1>15. CASE Settle(w)
  <2>1. job' \in [Customers -> JobState]
    BY <1>15 DEF Settle, Outcome, JobState
  <2>2. failures' \in [Customers -> Nat]
    <3>1. [failures EXCEPT ![wjob[w]] = @ + 1] \in [Customers -> Nat]
      BY <1>0, <1>15, Increment DEF Settle
    <3>2. failures' = IF threw[w] THEN [failures EXCEPT ![wjob[w]] = @ + 1]
                                  ELSE failures
      BY <1>15 DEF Settle
    <3> QED
      BY <3>1, <3>2
  <2> QED
    BY <1>15, <2>1, <2>2 DEF Settle, WorkerPc
<1> QED
  BY <1>1, <1>2, <1>3, <1>4, <1>5, <1>6, <1>7, <1>8, <1>9, <1>10, <1>11, <1>12,
     <1>13, <1>14, <1>15 DEF WorkerStep

LEMMA EnvironmentType ==
  ASSUME TypeOK, Crash \/ AudienceChange
  PROVE  TypeOK'
<1> USE DEF TypeOK, callerVars, workerVars, queueVars, sendVars
<1>1. CASE Crash
  BY <1>1, BoundType, NoRowType, NoExecutionType
     DEF Crash, JobState, CallerPc, WorkerPc
<1>2. CASE AudienceChange
  BY <1>2, SpendType, CampaignAssumption DEF AudienceChange, CampaignAssumption
<1> QED
  BY <1>1, <1>2

LEMMA TypeStep == TypeOK /\ WorkersHoldJobs /\ [Next]_vars => TypeOK'
<1> SUFFICES ASSUME TypeOK, WorkersHoldJobs, [Next]_vars
             PROVE  TypeOK'
  OBVIOUS
<1>1. CASE UNCHANGED vars
  BY <1>1 DEF vars, callerVars, workerVars, queueVars, sendVars, TypeOK
<1>2. CASE Next
  BY <1>2, RequestType, ExecuteType, CronType, WorkerType, EnvironmentType
     DEF Next, Callers
<1> QED
  BY <1>1, <1>2

-----------------------------------------------------------------------------
(* Jobs and workers *)

jobVars == <<job, wpc, wjob, threw, sends, excuses>>

(* A step of a caller other than AddJob leaves jobs, workers and messages. *)
LEMMA CallersKeepJobs ==
  ASSUME RequestStep \/ CronPick \/ CronFail \/ AudienceChange
           \/ \E p \in Callers : ExecuteStep(p) /\ ~AddJob(p)
  PROVE  UNCHANGED jobVars
<1> USE DEF jobVars, workerVars, queueVars, sendVars
<1>1. CASE RequestStep
  BY <1>1 DEF RequestStep, Pause, Cancel, Activate, ResumeLoad, ResumeWrite,
     RemoveLoad, RemoveWrite, UpdateLoad, UpdateSave, Begin, End
<1>2. CASE CronPick \/ CronFail \/ AudienceChange
  BY <1>2 DEF CronPick, CronFail, AudienceChange, End
<1>3. ASSUME NEW p \in Callers, ExecuteStep(p), ~AddJob(p)
      PROVE  UNCHANGED jobVars
  BY <1>3 DEF ExecuteStep, ExecuteLoad, ExecuteRefused, ExecuteActivate, ReadPage,
     SetTotal, ExecuteError, End
<1> QED
  BY <1>1, <1>2, <1>3

LEMMA JobInvKept == JobInv /\ UNCHANGED jobVars => JobInv'
  BY DEF JobInv, WorkersHoldJobs, OneWorkerPerJob, ThrowsAfterError,
     UnsentIsUnsent, AtMostOnce, Delivered, jobVars

LEMMA InitJob == Init => JobInv
  BY DEF Init, JobInv, WorkersHoldJobs, OneWorkerPerJob, ThrowsAfterError,
     UnsentIsUnsent, AtMostOnce

(* Only a job BullMQ does not hold yet is added, so a busy worker's job and a
   finished one are left as they are. *)
LEMMA JobInvAdd ==
  ASSUME TypeOK, JobInv, NEW p \in Callers, AddJob(p)
  PROVE  JobInv'
<1>1. PICK c \in exec[p].batch : Enqueue(c)
  BY DEF AddJob
<1>2. \A d \in Customers : \/ job'[d] = job[d]
                           \/ job[d] = "none" /\ job'[d] = "waiting"
  BY <1>1 DEF Enqueue, TypeOK
<1>3. UNCHANGED <<wpc, wjob, threw, sends, excuses>>
  BY DEF AddJob, workerVars, sendVars
<1> QED
  BY <1>2, <1>3 DEF JobInv, WorkersHoldJobs, OneWorkerPerJob, ThrowsAfterError,
     UnsentIsUnsent, AtMostOnce, Delivered

LEMMA JobInvTake ==
  ASSUME TypeOK, JobInv, NEW w \in Workers, TakeJob(w)
  PROVE  JobInv'
<1>1. PICK c \in Customers : /\ job[c] = "waiting"
                             /\ job' = [job EXCEPT ![c] = "active"]
                             /\ wjob' = [wjob EXCEPT ![w] = c]
  BY DEF TakeJob
<1>2. /\ wpc[w] = "idle" /\ wpc' = [wpc EXCEPT ![w] = "load"]
      /\ UNCHANGED <<threw, sends, excuses>>
  BY DEF TakeJob, sendVars
<1> USE <1>1, <1>2 DEF TypeOK
<1>3. \A v \in Workers : v # w /\ wpc[v] # "idle" => wjob[v] # c
  BY DEF JobInv, WorkersHoldJobs
<1>4. WorkersHoldJobs' /\ OneWorkerPerJob'
  BY <1>3 DEF JobInv, WorkersHoldJobs, OneWorkerPerJob
<1>5. ThrowsAfterError'
  BY DEF JobInv, ThrowsAfterError
<1>6. UnsentIsUnsent'
  BY DEF JobInv, UnsentIsUnsent, Delivered
<1> QED
  BY <1>4, <1>5, <1>6 DEF JobInv, AtMostOnce

(* Worker steps that neither send nor change a job: only the worker moves, and
   it stays on the same side of the send. *)
LEMMA JobInvMove ==
  ASSUME TypeOK, JobInv, NEW w \in Workers,
         LoadStopped(w) \/ LoadOverThreshold(w) \/ AutoPause(w) \/ LoadPasses(w)
           \/ Unreachable(w) \/ SendFails(w) \/ LoadFails(w) \/ CountSent(w)
           \/ CountFailed(w) \/ CheckCompletion(w) \/ WriteCompleted(w)
  PROVE  JobInv'
<1>1. /\ wpc[w] # "idle"
      /\ \E to \in WorkerPc \ {"idle"} : wpc' = [wpc EXCEPT ![w] = to]
      /\ UNCHANGED <<job, wjob, sends, excuses>>
  BY DEF LoadStopped, LoadOverThreshold, AutoPause, LoadPasses, Unreachable,
     SendFails, LoadFails, CountSent, CountFailed, CheckCompletion, WriteCompleted,
     Step, queueVars, sendVars, WorkerPc
<1>2. /\ threw' = IF CountFailed(w) THEN [threw EXCEPT ![w] = TRUE] ELSE threw
      /\ Delivered(w)' = Delivered(w)
      /\ threw'[w] => wpc'[w] \in {"check", "complete", "finish"}
  BY DEF LoadStopped, LoadOverThreshold, AutoPause, LoadPasses, Unreachable,
     SendFails, LoadFails, CountSent, CountFailed, CheckCompletion, WriteCompleted,
     Step, Delivered, TypeOK, JobInv, ThrowsAfterError
<1>3. \A v \in Workers \ {w} : wpc'[v] = wpc[v] /\ threw'[v] = threw[v]
  BY <1>1, <1>2 DEF TypeOK
<1>4. WorkersHoldJobs' /\ OneWorkerPerJob'
  BY <1>1, <1>3 DEF JobInv, WorkersHoldJobs, OneWorkerPerJob
<1>5. ThrowsAfterError'
  BY <1>2, <1>3 DEF JobInv, ThrowsAfterError
<1>6. UnsentIsUnsent'
  BY <1>1, <1>2, <1>3 DEF JobInv, UnsentIsUnsent, Delivered
<1> QED
  BY <1>1, <1>4, <1>5, <1>6 DEF JobInv, AtMostOnce

(* The send: the worker's customer had only excused messages, and the others'
   workers hold other jobs. *)
LEMMA JobInvSend ==
  ASSUME TypeOK, JobInv, NEW w \in Workers, Send(w) \/ SendAnswerLost(w)
  PROVE  JobInv'
<1> DEFINE c == wjob[w]
<1>1. c \in Customers /\ job[c] = "active" /\ wpc[w] = "send" /\ ~threw[w]
  BY DEF Send, SendAnswerLost, Step, JobInv, WorkersHoldJobs, ThrowsAfterError
<1>2. sends[c] <= excuses[c]
  BY <1>1 DEF JobInv, UnsentIsUnsent, Delivered
<1>3. /\ UNCHANGED <<job, wjob, threw>>
      /\ \/ wpc' = [wpc EXCEPT ![w] = "sent"] /\ excuses' = excuses
         \/ /\ wpc' = [wpc EXCEPT ![w] = "error"]
            /\ excuses' = [excuses EXCEPT ![c] = @ + 1]
      /\ sends' = [sends EXCEPT ![c] = @ + 1]
  BY DEF Send, SendAnswerLost, Deliver, Step, queueVars
<1>4. /\ \A d \in Customers \ {c} : sends'[d] = sends[d] /\ excuses'[d] = excuses[d]
      /\ \A v \in Workers \ {w} : wpc'[v] = wpc[v]
      /\ sends'[c] = sends[c] + 1
      /\ \/ wpc'[w] = "sent" /\ excuses'[c] = excuses[c]
         \/ wpc'[w] = "error" /\ excuses'[c] = excuses[c] + 1
  BY <1>1, <1>3 DEF TypeOK
<1>5. sends[c] \in Nat /\ excuses[c] \in Nat
  BY <1>1 DEF TypeOK
<1> HIDE DEF c
<1>6. WorkersHoldJobs' /\ OneWorkerPerJob'
  BY <1>1, <1>3, <1>4 DEF JobInv, WorkersHoldJobs, OneWorkerPerJob
<1>7. ThrowsAfterError'
  BY <1>1, <1>3, <1>4 DEF JobInv, ThrowsAfterError
<1>8. UnsentIsUnsent'
  <2>1. \A d \in Customers :
           job'[d] \in {"none", "waiting"} => sends'[d] <= excuses'[d]
    BY <1>1, <1>3, <1>4 DEF JobInv, UnsentIsUnsent
  <2>2. \A v \in Workers \ {w} : wpc[v] # "idle" => wjob[v] # c
    BY <1>1 DEF c, JobInv, OneWorkerPerJob
  <2>3. ASSUME NEW v \in Workers \ {w}, wpc'[v] # "idle", ~Delivered(v)'
        PROVE  sends'[wjob'[v]] <= excuses'[wjob'[v]]
    BY <1>3, <1>4, <2>2, <2>3
       DEF JobInv, UnsentIsUnsent, WorkersHoldJobs, Delivered
  <2>4. ~Delivered(w)' => sends'[c] <= excuses'[c]
    BY <1>2, <1>4, <1>5 DEF Delivered
  <2> QED
    BY <1>3, <2>1, <2>3, <2>4 DEF UnsentIsUnsent, c
<1>9. AtMostOnce'
  BY <1>2, <1>4, <1>5 DEF JobInv, AtMostOnce
<1> QED
  BY <1>6, <1>7, <1>8, <1>9 DEF JobInv

(* A settled job is waiting again only when its attempt threw, and then the
   attempt had not delivered. *)
LEMMA JobInvSettle ==
  ASSUME TypeOK, JobInv, NEW w \in Workers, Settle(w)
  PROVE  JobInv'
<1> DEFINE c == wjob[w]
<1>1. /\ wpc[w] \in {"finish", "discard"}
      /\ wpc' = [wpc EXCEPT ![w] = "idle"]
      /\ wjob' = [wjob EXCEPT ![w] = NoCustomer]
      /\ threw' = [threw EXCEPT ![w] = FALSE]
      /\ job' = [job EXCEPT ![c] = Outcome(w, c)]
      /\ UNCHANGED <<sends, excuses>>
  BY DEF Settle, sendVars
<1>2. c \in Customers
  BY <1>1 DEF JobInv, WorkersHoldJobs
<1>3. Outcome(w, c) = "waiting" => sends[c] <= excuses[c]
  BY <1>1 DEF Outcome, JobInv, UnsentIsUnsent, Delivered
<1>4. Outcome(w, c) # "none"
  BY DEF Outcome
<1>5. \A v \in Workers : wpc'[v] # "idle" =>
         /\ v # w /\ wpc'[v] = wpc[v] /\ wjob'[v] = wjob[v] /\ threw'[v] = threw[v]
         /\ wjob[v] \in Customers /\ job[wjob[v]] = "active" /\ wjob[v] # c
  BY <1>1 DEF TypeOK, JobInv, WorkersHoldJobs, OneWorkerPerJob
<1>6. \A d \in Customers \ {c} : job'[d] = job[d]
  BY <1>1 DEF TypeOK
<1>7. job'[c] = Outcome(w, c)
  BY <1>1, <1>2 DEF TypeOK
<1> HIDE DEF c
<1>8. WorkersHoldJobs' /\ OneWorkerPerJob'
  BY <1>5, <1>6 DEF JobInv, WorkersHoldJobs, OneWorkerPerJob
<1>9. ThrowsAfterError'
  BY <1>1 DEF TypeOK, JobInv, ThrowsAfterError
<1>10. UnsentIsUnsent'
  <2>1. \A d \in Customers :
           job'[d] \in {"none", "waiting"} => sends'[d] <= excuses'[d]
    BY <1>1, <1>3, <1>4, <1>6, <1>7 DEF JobInv, UnsentIsUnsent
  <2>2. ASSUME NEW v \in Workers, wpc'[v] # "idle", ~Delivered(v)'
        PROVE  sends'[wjob'[v]] <= excuses'[wjob'[v]]
    BY <1>1, <1>5, <2>2 DEF JobInv, UnsentIsUnsent, Delivered
  <2> QED
    BY <2>1, <2>2 DEF UnsentIsUnsent
<1> QED
  BY <1>1, <1>8, <1>9, <1>10 DEF JobInv, AtMostOnce

(* After a crash nobody is busy, and a job that had delivered is excused. *)
LEMMA JobInvCrash ==
  ASSUME TypeOK, JobInv, Crash
  PROVE  JobInv'
<1>1. /\ wpc' = [w \in Workers |-> "idle"]
      /\ threw' = [w \in Workers |-> FALSE]
      /\ sends' = sends
      /\ \A c \in Customers :
           excuses'[c] = IF \E w \in Workers : wjob[w] = c /\ Delivered(w)
                           THEN excuses[c] + 1 ELSE excuses[c]
  BY DEF Crash
<1>2. \A c \in Customers :
         job'[c] \in {"none", "waiting"} =>
            \/ job'[c] = job[c]
            \/ \E w \in Workers : wpc[w] # "idle" /\ wjob[w] = c
  BY DEF Crash
<1>3. \A c \in Customers : sends[c] \in Nat /\ excuses[c] \in Nat
  BY DEF TypeOK
<1>4. WorkersHoldJobs' /\ OneWorkerPerJob' /\ ThrowsAfterError'
  BY <1>1 DEF WorkersHoldJobs, OneWorkerPerJob, ThrowsAfterError
<1>5. AtMostOnce'
  BY <1>1, <1>3 DEF JobInv, AtMostOnce
<1>6. UnsentIsUnsent'
  <2>1. ASSUME NEW c \in Customers, job'[c] \in {"none", "waiting"}
        PROVE  sends'[c] <= excuses'[c]
    <3>1. CASE job'[c] = job[c]
      BY <1>1, <1>3, <2>1, <3>1 DEF JobInv, UnsentIsUnsent
    <3>2. CASE \E w \in Workers : wpc[w] # "idle" /\ wjob[w] = c
      <4>1. PICK w \in Workers : wpc[w] # "idle" /\ wjob[w] = c
        BY <3>2
      <4>2. CASE Delivered(w)
        BY <1>1, <1>3, <4>1, <4>2 DEF JobInv, AtMostOnce
      <4>3. CASE ~Delivered(w)
        BY <1>1, <1>3, <4>1, <4>3 DEF JobInv, UnsentIsUnsent
      <4> QED
        BY <4>2, <4>3
    <3> QED
      BY <1>2, <2>1, <3>1, <3>2
  <2> QED
    BY <1>1, <2>1 DEF UnsentIsUnsent
<1> QED
  BY <1>4, <1>5, <1>6 DEF JobInv

LEMMA JobInvStep == TypeOK /\ JobInv /\ [Next]_vars => JobInv'
<1> SUFFICES ASSUME TypeOK, JobInv, [Next]_vars
             PROVE  JobInv'
  OBVIOUS
<1>1. CASE UNCHANGED vars
  BY <1>1, JobInvKept DEF vars, workerVars, queueVars, sendVars, jobVars
<1>2. CASE RequestStep \/ CronPick \/ CronFail \/ AudienceChange
  BY <1>2, CallersKeepJobs, JobInvKept
<1>3. ASSUME NEW p \in Callers, ExecuteStep(p) PROVE JobInv'
  BY <1>3, CallersKeepJobs, JobInvKept, JobInvAdd
<1>4. ASSUME NEW w \in Workers, WorkerStep(w) PROVE JobInv'
  BY <1>4, JobInvTake, JobInvMove, JobInvSend, JobInvSettle DEF WorkerStep
<1>5. CASE Crash
  BY <1>5, JobInvCrash
<1> QED
  BY <1>1, <1>2, <1>3, <1>4, <1>5 DEF Next, CronStep, Callers

(* Every reachable state of the campaign, its callers, its queue and its workers
   is of its type. *)
THEOREM TypeCorrect == Spec => []TypeOK
<1>1. Init => TypeOK /\ JobInv
  BY InitType, InitJob
<1>2. TypeOK /\ JobInv /\ [Next]_vars => (TypeOK /\ JobInv)'
  BY TypeStep, JobInvStep DEF JobInv
<1> QED
  BY <1>1, <1>2, PTL DEF Spec

(* However the executions, pauses, resumes, retries and crashes interleave, a
   customer receives one message, plus one for each crash after a send or lost
   answer that hit their job. *)
THEOREM MessagesAtMostOnce == Spec => []AtMostOnce
<1>1. Init => TypeOK /\ JobInv
  BY InitType, InitJob
<1>2. TypeOK /\ JobInv /\ [Next]_vars => (TypeOK /\ JobInv)'
  BY TypeStep, JobInvStep DEF JobInv
<1>3. JobInv => AtMostOnce
  BY DEF JobInv
<1> QED
  BY <1>1, <1>2, <1>3, PTL DEF Spec

-----------------------------------------------------------------------------
(* The campaign implements OnceDelivery *)

Sound == TypeOK /\ JobInv /\ SentIsSent

LEMMA SentKept == SentIsSent /\ UNCHANGED jobVars => SentIsSent'
  BY DEF SentIsSent, Delivered, jobVars

(* The worker's own steps: its send, the ones around it and the settlement. *)
LEMMA SentWorker ==
  ASSUME Sound, NEW w \in Workers, WorkerStep(w)
  PROVE  SentIsSent'
<1> USE DEF Sound
<1>1. CASE TakeJob(w)
  <2>1. PICK c \in Customers : wjob' = [wjob EXCEPT ![w] = c]
    BY <1>1 DEF TakeJob
  <2>2. wpc' = [wpc EXCEPT ![w] = "load"] /\ UNCHANGED <<threw, sends, excuses>>
    BY <1>1 DEF TakeJob, sendVars
  <2> QED
    BY <2>1, <2>2 DEF SentIsSent, Delivered, TypeOK
<1>2. CASE Send(w) \/ SendAnswerLost(w)
  <2> DEFINE c == wjob[w]
  <2>1. c \in Customers /\ wpc[w] = "send" /\ ~threw[w]
    BY <1>2 DEF Send, SendAnswerLost, Step, JobInv, WorkersHoldJobs, ThrowsAfterError
  <2>2. sends[c] \in Nat /\ excuses[c] \in Nat /\ excuses[c] <= sends[c]
    BY <2>1 DEF TypeOK, SentIsSent
  <2>3. /\ UNCHANGED <<wjob, threw>>
        /\ \/ wpc' = [wpc EXCEPT ![w] = "sent"] /\ excuses' = excuses
           \/ /\ wpc' = [wpc EXCEPT ![w] = "error"]
              /\ excuses' = [excuses EXCEPT ![c] = @ + 1]
        /\ sends' = [sends EXCEPT ![c] = @ + 1]
    BY <1>2 DEF Send, SendAnswerLost, Deliver, Step
  <2>4. /\ \A d \in Customers \ {c} : sends'[d] = sends[d] /\ excuses'[d] = excuses[d]
        /\ \A v \in Workers \ {w} : wpc'[v] = wpc[v]
        /\ sends'[c] = sends[c] + 1
        /\ \/ wpc'[w] = "sent" /\ excuses'[c] = excuses[c]
           \/ wpc'[w] = "error" /\ excuses'[c] = excuses[c] + 1
    BY <2>1, <2>3 DEF TypeOK
  <2>5. \A v \in Workers \ {w} : Delivered(v) => wjob[v] \in Customers /\ wjob[v] # c
    BY <2>1 DEF Delivered, JobInv, OneWorkerPerJob, WorkersHoldJobs
  <2> HIDE DEF c
  <2>6. \A d \in Customers : excuses'[d] <= sends'[d]
    BY <2>1, <2>2, <2>4 DEF SentIsSent
  <2>7. ASSUME NEW v \in Workers \ {w}, Delivered(v)' PROVE sends'[wjob[v]] > excuses'[wjob[v]]
    BY <2>3, <2>4, <2>5, <2>7 DEF SentIsSent, Delivered
  <2>8. Delivered(w)' => sends'[c] > excuses'[c]
    BY <2>1, <2>2, <2>3, <2>4 DEF Delivered
  <2> QED
    BY <2>3, <2>6, <2>7, <2>8 DEF SentIsSent, c
<1>3. CASE Settle(w)
  <2>1. /\ wpc' = [wpc EXCEPT ![w] = "idle"] /\ wjob' = [wjob EXCEPT ![w] = NoCustomer]
        /\ threw' = [threw EXCEPT ![w] = FALSE] /\ UNCHANGED <<sends, excuses>>
    BY <1>3 DEF Settle, sendVars
  <2> QED
    BY <2>1 DEF SentIsSent, Delivered, TypeOK
<1>4. CASE LoadStopped(w) \/ LoadOverThreshold(w) \/ AutoPause(w) \/ LoadPasses(w)
           \/ Unreachable(w) \/ SendFails(w) \/ LoadFails(w) \/ CountSent(w)
           \/ CountFailed(w) \/ CheckCompletion(w) \/ WriteCompleted(w)
  <2>1. /\ \E to \in WorkerPc : wpc' = [wpc EXCEPT ![w] = to]
        /\ UNCHANGED <<wjob, sends, excuses>>
    BY <1>4 DEF LoadStopped, LoadOverThreshold, AutoPause, LoadPasses, Unreachable,
       SendFails, LoadFails, CountSent, CountFailed, CheckCompletion, WriteCompleted,
       Step, sendVars, WorkerPc
  <2>2. /\ threw' = IF CountFailed(w) THEN [threw EXCEPT ![w] = TRUE] ELSE threw
        /\ Delivered(w)' = Delivered(w)
    BY <1>4 DEF LoadStopped, LoadOverThreshold, AutoPause, LoadPasses, Unreachable,
       SendFails, LoadFails, CountSent, CountFailed, CheckCompletion, WriteCompleted,
       Step, Delivered, TypeOK, JobInv, ThrowsAfterError
  <2>3. \A v \in Workers \ {w} : wpc'[v] = wpc[v] /\ threw'[v] = threw[v]
    BY <2>1, <2>2 DEF TypeOK
  <2> QED
    BY <2>1, <2>2, <2>3 DEF SentIsSent, Delivered
<1> QED
  BY <1>1, <1>2, <1>3, <1>4 DEF WorkerStep

LEMMA SentCrash ==
  ASSUME Sound, Crash
  PROVE  SentIsSent'
<1>1. /\ wpc' = [w \in Workers |-> "idle"] /\ sends' = sends
      /\ \A c \in Customers :
           excuses'[c] = IF \E w \in Workers : wjob[w] = c /\ Delivered(w)
                           THEN excuses[c] + 1 ELSE excuses[c]
  BY DEF Crash
<1>2. \A c \in Customers : /\ sends[c] \in Nat /\ excuses[c] \in Nat
                           /\ excuses[c] <= sends[c]
  BY DEF Sound, TypeOK, SentIsSent
<1>3. \A c \in Customers : excuses'[c] <= sends[c]
  BY <1>1, <1>2 DEF Sound, SentIsSent
<1> QED
  BY <1>1, <1>3 DEF SentIsSent, Delivered

LEMMA SentStep == Sound /\ [Next]_vars => SentIsSent'
<1> SUFFICES ASSUME Sound, [Next]_vars
             PROVE  SentIsSent'
  OBVIOUS
<1> USE DEF Sound
<1>1. CASE UNCHANGED vars
  BY <1>1, SentKept DEF vars, workerVars, queueVars, sendVars, jobVars
<1>2. CASE RequestStep \/ CronPick \/ CronFail \/ AudienceChange
  BY <1>2, CallersKeepJobs, SentKept
<1>3. ASSUME NEW p \in Callers, ExecuteStep(p) PROVE SentIsSent'
  <2>1. CASE AddJob(p)
    BY <2>1 DEF AddJob, workerVars, sendVars, SentIsSent, Delivered
  <2>2. CASE ~AddJob(p)
    BY <1>3, <2>2, CallersKeepJobs, SentKept
  <2> QED
    BY <2>1, <2>2
<1>4. ASSUME NEW w \in Workers, WorkerStep(w) PROVE SentIsSent'
  BY <1>4, SentWorker
<1>5. CASE Crash
  BY <1>5, SentCrash
<1> QED
  BY <1>1, <1>2, <1>3, <1>4, <1>5 DEF Next, CronStep, Callers

Silent == UNCHANGED <<sends, excuses>>

LEMMA NextMaps == Sound /\ [Next]_vars => [Delivery!Next]_(Delivery!vars)
<1> SUFFICES ASSUME Sound, [Next]_vars
             PROVE  Delivery!Next \/ Silent
  BY DEF Delivery!vars, Silent
<1>1. CASE UNCHANGED vars \/ RequestStep \/ CronPick \/ CronFail \/ AudienceChange
  BY <1>1, CallersKeepJobs DEF vars, sendVars, jobVars, Silent
<1>2. ASSUME NEW p \in Callers, ExecuteStep(p) PROVE Silent
  <2>1. CASE AddJob(p)
    BY <2>1 DEF AddJob, sendVars, Silent
  <2>2. CASE ~AddJob(p)
    BY <1>2, <2>2, CallersKeepJobs DEF jobVars, Silent
  <2> QED
    BY <2>1, <2>2
<1>3. ASSUME NEW w \in Workers, Send(w) \/ SendAnswerLost(w) PROVE Delivery!Next
  <2>1. wjob[w] \in Customers /\ wpc[w] = "send"
    BY <1>3 DEF Sound, JobInv, WorkersHoldJobs, Send, SendAnswerLost, Step
  <2>2. sends[wjob[w]] <= excuses[wjob[w]]
    BY <2>1 DEF Sound, JobInv, UnsentIsUnsent, Delivered
  <2>3. Delivery!Deliver(wjob[w]) \/ Delivery!DeliverUnheard(wjob[w])
    BY <1>3, <2>2 DEF Delivery!Deliver, Delivery!DeliverUnheard, Send, SendAnswerLost,
       Deliver
  <2> QED
    BY <2>1, <2>3 DEF Delivery!Next
<1>4. ASSUME NEW w \in Workers, WorkerStep(w), ~(Send(w) \/ SendAnswerLost(w)) PROVE Silent
  BY <1>4 DEF WorkerStep, TakeJob, LoadStopped, LoadOverThreshold, AutoPause,
     LoadPasses, Unreachable, SendFails, LoadFails, CountSent, CountFailed,
     CheckCompletion, WriteCompleted, Settle, sendVars, Silent
<1>5. CASE Crash
  <2> DEFINE unsettled == {wjob[w] : w \in {v \in Workers : Delivered(v)}}
  <2>1. unsettled \subseteq Customers /\ \A c \in unsettled : sends[c] > excuses[c]
    BY DEF Sound, JobInv, WorkersHoldJobs, SentIsSent, Delivered
  <2>2. \A c \in Customers : c \in unsettled <=> \E w \in Workers : wjob[w] = c /\ Delivered(w)
    OBVIOUS
  <2>3. Delivery!Forget(unsettled)
    BY <1>5, <2>1, <2>2 DEF Delivery!Forget, Crash
  <2> QED
    BY <2>1, <2>3 DEF Delivery!Next
<1> QED
  BY <1>1, <1>2, <1>3, <1>4, <1>5 DEF Next, CronStep, Callers

(* The campaign implements the abstract specification: a customer's message goes
   out only while every earlier one is excused, and only a crash or a lost answer
   after a send excuses it. *)
THEOREM ImplementsOnceDelivery == Spec => DeliversOnce
<1>1. ASSUME Init PROVE Sound /\ Delivery!Init
  <2>1. SentIsSent
    BY <1>1 DEF Init, SentIsSent, Delivered
  <2>2. Delivery!Init
    BY <1>1 DEF Init, Delivery!Init
  <2> QED
    BY <1>1, <2>1, <2>2, InitType, InitJob DEF Sound
<1>2. Sound /\ [Next]_vars => Sound'
  BY TypeStep, JobInvStep, SentStep DEF Sound, JobInv
<1> QED
  BY <1>1, <1>2, NextMaps, PTL DEF Spec, DeliversOnce, Delivery!Spec

-----------------------------------------------------------------------------
(* Late messages *)

\* No worker gets to the send in this step.
NobodyPasses == \A w \in Workers : wpc'[w] = "send" => wpc[w] = "send"

LEMMA LateWrite ==
  ASSUME LateInv, NobodyPasses, NEW r, Write(r)
  PROVE  LateInv'
  BY DEF LateInv, NobodyPasses, Write

LEMMA LateKept ==
  ASSUME LateInv, NobodyPasses, UNCHANGED <<row, late>>
  PROVE  LateInv'
  BY DEF LateInv, NobodyPasses

LEMMA LateRequest == ASSUME LateInv, RequestStep PROVE LateInv'
<1>1. NobodyPasses
  BY DEF NobodyPasses, RequestStep, Pause, Cancel, Activate, ResumeLoad,
     ResumeWrite, RemoveLoad, RemoveWrite, UpdateLoad, UpdateSave, Begin, End,
     workerVars
<1>2. UNCHANGED <<row, late>> \/ \E r : Write(r)
  BY DEF RequestStep, Pause, Cancel, Activate, ResumeLoad, ResumeWrite, RemoveLoad,
     RemoveWrite, UpdateLoad, UpdateSave, Begin, SetStatus
<1> QED
  BY <1>1, <1>2, LateWrite, LateKept

LEMMA LateExecute ==
  ASSUME LateInv, NEW p \in Callers, ExecuteStep(p) PROVE LateInv'
<1>1. NobodyPasses
  BY DEF NobodyPasses, ExecuteStep, ExecuteLoad, ExecuteRefused, ExecuteActivate,
     ReadPage, AddJob, SetTotal, ExecuteError, End, workerVars
<1>2. UNCHANGED <<row, late>> \/ \E r : Write(r)
  BY DEF ExecuteStep, ExecuteLoad, ExecuteRefused, ExecuteActivate, ReadPage,
     AddJob, SetTotal, ExecuteError, SetStatus
<1> QED
  BY <1>1, <1>2, LateWrite, LateKept

LEMMA LateCron == ASSUME LateInv, CronPick \/ CronFail PROVE LateInv'
<1>1. NobodyPasses
  BY DEF NobodyPasses, CronPick, CronFail, End, workerVars
<1>2. UNCHANGED <<row, late>> \/ \E r : Write(r)
  BY DEF CronPick, CronFail, SetStatus
<1> QED
  BY <1>1, <1>2, LateWrite, LateKept

(* The send: the worker passed the status check, so it had sent nothing late. *)
LEMMA LateSend ==
  ASSUME TypeOK, LateInv, NEW w \in Workers, Send(w) \/ SendAnswerLost(w)
  PROVE  LateInv'
<1>1. /\ wpc[w] = "send" /\ wpc'[w] # "send" /\ row' = row
      /\ \A v \in Workers \ {w} : wpc'[v] = wpc[v] /\ late'[v] = late[v]
      /\ late'[w] = IF row.status \in Stopped THEN late[w] + 1 ELSE late[w]
  BY DEF Send, SendAnswerLost, Deliver, Step, TypeOK
<1>2. late[w] = 0
  BY <1>1 DEF LateInv, TypeOK
<1> QED
  BY <1>1, <1>2 DEF LateInv

(* The status check: a worker passes it only while the campaign is not stopped,
   and then nobody has sent anything late. *)
LEMMA LatePasses ==
  ASSUME TypeOK, LateInv, NEW w \in Workers, LoadPasses(w)
  PROVE  LateInv'
<1>1. row.status \notin Stopped /\ UNCHANGED <<row, late>>
  BY DEF LoadPasses, Refused
<1> QED
  BY <1>1 DEF LateInv

LEMMA LateWorker ==
  ASSUME TypeOK, LateInv, NEW w \in Workers, WorkerStep(w)
  PROVE  LateInv'
<1>1. CASE Send(w) \/ SendAnswerLost(w)
  BY <1>1, LateSend
<1>2. CASE LoadPasses(w)
  BY <1>2, LatePasses
<1>3. CASE ~Send(w) /\ ~SendAnswerLost(w) /\ ~LoadPasses(w)
  <2>1. NobodyPasses
    <3>1. \E to : to # "send" /\ wpc' = [wpc EXCEPT ![w] = to]
      BY <1>3 DEF WorkerStep, TakeJob, LoadStopped, LoadOverThreshold, AutoPause,
         Unreachable, SendFails, LoadFails, CountSent, CountFailed,
         CheckCompletion, WriteCompleted, Settle, Step
    <3> QED
      BY <3>1 DEF NobodyPasses, TypeOK
  <2>2. UNCHANGED <<row, late>> \/ \E r : Write(r)
    BY <1>3 DEF WorkerStep, TakeJob, LoadStopped, LoadOverThreshold, AutoPause,
       Unreachable, SendFails, LoadFails, CountSent, CountFailed, Count,
       CheckCompletion, WriteCompleted, Settle, SetStatus
  <2> QED
    BY <2>1, <2>2, LateWrite, LateKept
<1> QED
  BY <1>1, <1>2, <1>3

LEMMA LateEnvironment == ASSUME LateInv, Crash \/ AudienceChange PROVE LateInv'
<1>1. NobodyPasses /\ UNCHANGED <<row, late>>
  BY DEF NobodyPasses, Crash, AudienceChange, workerVars
<1> QED
  BY <1>1, LateKept

(* Once a pause or a cancel is written, a worker sends at most the one message it
   had already let past the status check, while the campaign stays stopped. *)
THEOREM LateMessages == Spec => []StopTakesEffect
<1>1. Init => LateInv
  BY DEF Init, LateInv
<1>2. ASSUME TypeOK, LateInv, [Next]_vars PROVE LateInv'
  <2>1. CASE UNCHANGED vars
    BY <1>2, <2>1 DEF vars, workerVars, LateInv
  <2>2. CASE RequestStep \/ CronPick \/ CronFail \/ Crash \/ AudienceChange
    BY <1>2, <2>2, LateRequest, LateCron, LateEnvironment
  <2>3. ASSUME NEW p \in Callers, ExecuteStep(p) PROVE LateInv'
    BY <1>2, <2>3, LateExecute
  <2>4. ASSUME NEW w \in Workers, WorkerStep(w) PROVE LateInv'
    BY <1>2, <2>4, LateWorker
  <2> QED
    BY <1>2, <2>1, <2>2, <2>3, <2>4 DEF Next, CronStep, Callers
<1>3. LateInv => StopTakesEffect
  BY DEF LateInv, StopTakesEffect
<1> QED
  BY <1>1, <1>2, <1>3, TypeCorrect, PTL DEF Spec

-----------------------------------------------------------------------------
(* The error threshold *)

LEMMA PendingFinite ==
  /\ IsFiniteSet(Pending) /\ Cardinality(Pending) \in Nat
  /\ Cardinality(Workers) \in Nat
  /\ Cardinality(Pending) <= Cardinality(Workers)
<1>1. Pending \in SUBSET Workers
  BY DEF Pending
<1>2. IsFiniteSet(Workers)
  BY CampaignAssumption DEF CampaignAssumption
<1> QED
  BY <1>1, <1>2, FS_Subset, FS_CardinalityType

(* A step that leaves the count alone and lets nobody past the status check. *)
LEMMA BudgetKept ==
  ASSUME TypeOK, TypeOK', BudgetInv, overwritten => overwritten',
         overwritten' \/ row'.failed = row.failed,
         used'.faults >= used.faults, Pending' \subseteq Pending
  PROVE  BudgetInv'
<1>1. Cardinality(Pending') \in Nat /\ Cardinality(Pending') <= Cardinality(Pending)
  BY PendingFinite, FS_Subset, FS_CardinalityType
<1>2. used.faults \in Nat /\ used'.faults \in Nat /\ Threshold \in Nat
      /\ row.failed \in Nat
  BY CampaignAssumption DEF CampaignAssumption, TypeOK, Row
<1> QED
  BY <1>1, <1>2, PendingFinite DEF BudgetInv

LEMMA BudgetRequest ==
  ASSUME TypeOK, TypeOK', BudgetInv, RequestStep
  PROVE  BudgetInv'
<1>1. used'.faults >= used.faults
  BY DEF RequestStep, Pause, Cancel, Activate, ResumeLoad, ResumeWrite, RemoveLoad,
     RemoveWrite, UpdateLoad, UpdateSave, Begin, End, Request, Spend, TypeOK
<1>2. Pending' = Pending
  BY DEF RequestStep, Pause, Cancel, Activate, ResumeLoad, ResumeWrite, RemoveLoad,
     RemoveWrite, UpdateLoad, UpdateSave, Begin, End, workerVars, Pending
<1>3. (overwritten => overwritten') /\ (overwritten' \/ row'.failed = row.failed)
  <2>1. ASSUME NEW p \in Requests, UpdateSave(p)
        PROVE  (overwritten => overwritten') /\ (overwritten' \/ row'.failed = row.failed)
    <3>1. PICK body \in BOOLEAN : row' = [copy[p] EXCEPT !.hasBody = body]
      BY <2>1 DEF UpdateSave, Write
    <3>2. copy[p] \in Row
      BY DEF TypeOK, Callers
    <3>3. row'.failed = copy[p].failed
      BY <3>1, <3>2 DEF Row
    <3> QED
      BY <2>1, <3>3 DEF UpdateSave, TypeOK
  <2>2. ASSUME \A p \in Requests : ~UpdateSave(p)
        PROVE  overwritten' = overwritten /\ row'.failed = row.failed
    BY <2>2 DEF RequestStep, Pause, Cancel, Activate, ResumeLoad, ResumeWrite,
       RemoveLoad, RemoveWrite, UpdateLoad, Begin, SetStatus, Write, TypeOK, Row
  <2> QED
    BY <2>1, <2>2
<1> QED
  BY <1>1, <1>2, <1>3, BudgetKept

LEMMA BudgetExecute ==
  ASSUME TypeOK, TypeOK', BudgetInv,
         CronPick \/ CronFail \/ \E p \in Callers : ExecuteStep(p)
  PROVE  BudgetInv'
<1>1. used'.faults >= used.faults
  <2>1. CASE CronPick \/ CronFail
    BY <2>1 DEF CronPick, CronFail, End, TypeOK
  <2>2. ASSUME NEW p \in Callers, ExecuteStep(p) PROVE used'.faults >= used.faults
    <3>1. used' = used \/ Request \/ Fault
      BY <2>2 DEF ExecuteStep, ExecuteLoad, ExecuteRefused, ExecuteActivate,
         ReadPage, AddJob, SetTotal, ExecuteError, Calls, End
    <3> QED
      BY <3>1 DEF Request, Fault, Spend, TypeOK
  <2> QED
    BY <2>1, <2>2
<1>2. Pending' = Pending
  BY DEF CronPick, CronFail, ExecuteStep, ExecuteLoad, ExecuteRefused,
     ExecuteActivate, ReadPage, AddJob, SetTotal, ExecuteError, End, workerVars,
     Pending
<1>3. overwritten' = overwritten /\ row'.failed = row.failed
  <2>1. row' = row \/ (\E s : SetStatus(s)) \/ (\E n : Write([row EXCEPT !.total = n]))
    BY DEF CronPick, CronFail, ExecuteStep, ExecuteLoad, ExecuteRefused,
       ExecuteActivate, ReadPage, AddJob, SetTotal, ExecuteError
  <2>2. overwritten' = overwritten
    BY DEF CronPick, CronFail, ExecuteStep, ExecuteLoad, ExecuteRefused,
       ExecuteActivate, ReadPage, AddJob, SetTotal, ExecuteError
  <2> QED
    BY <2>1, <2>2 DEF SetStatus, Write, TypeOK, Row
<1> QED
  BY <1>1, <1>2, <1>3, BudgetKept

(* The status check: the row is below the threshold, and only the workers can
   still be past it. *)
LEMMA BudgetPasses ==
  ASSUME TypeOK, TypeOK', BudgetInv, NEW w \in Workers, LoadPasses(w)
  PROVE  BudgetInv'
<1>1. UNCHANGED <<row, used>> /\ ~OverThreshold
  BY DEF LoadPasses
<1>2. Cardinality(Pending') \in Nat /\ Cardinality(Pending') <= Cardinality(Workers)
  <2>1. Pending' \in SUBSET Workers /\ IsFiniteSet(Workers)
    BY CampaignAssumption DEF CampaignAssumption, Pending
  <2> QED
    BY <2>1, FS_Subset, FS_CardinalityType
<1>3. used.faults \in Nat /\ Threshold \in Nat /\ row.failed \in Nat
  BY CampaignAssumption DEF CampaignAssumption, TypeOK, Row
<1> QED
  BY <1>1, <1>2, <1>3, PendingFinite DEF BudgetInv, OverThreshold

(* The threshold could not be read: one worker more, for one fault more. *)
LEMMA BudgetLoadFails ==
  ASSUME TypeOK, TypeOK', BudgetInv, NEW w \in Workers, LoadFails(w)
  PROVE  BudgetInv'
<1>1. UNCHANGED <<row, overwritten>> /\ used'.faults = used.faults + 1
  BY DEF LoadFails, Step, Fault, Spend, TypeOK
<1>2. Pending' = Pending \union {w}
  BY DEF LoadFails, Step, Pending, TypeOK
<1>3. Cardinality(Pending') \in Nat /\ Cardinality(Pending') <= Cardinality(Pending) + 1
  BY <1>2, PendingFinite, FS_AddElement
<1>4. used.faults \in Nat /\ Threshold \in Nat /\ row.failed \in Nat
  BY CampaignAssumption DEF CampaignAssumption, TypeOK, Row
<1> QED
  BY <1>1, <1>3, <1>4, PendingFinite DEF BudgetInv

(* The failure is counted: the worker leaves the set that may still count. *)
LEMMA BudgetCounts ==
  ASSUME TypeOK, TypeOK', BudgetInv, NEW w \in Workers,
         Unreachable(w) \/ CountFailed(w)
  PROVE  BudgetInv'
<1>1. /\ overwritten' = overwritten
      /\ \/ row'.failed = row.failed + 1 /\ used' = used
         \/ row' = row /\ used'.faults = used.faults + 1
  BY DEF Unreachable, CountFailed, Step, Count, Write, Fault, Spend, TypeOK, Row
<1>2. w \in Pending /\ Pending' = Pending \ {w}
  BY DEF Unreachable, CountFailed, Step, Pending, TypeOK
<1>3. Cardinality(Pending') = Cardinality(Pending) - 1
  BY <1>2, PendingFinite, FS_RemoveElement
<1>4. used.faults \in Nat /\ Threshold \in Nat /\ row.failed \in Nat
  BY CampaignAssumption DEF CampaignAssumption, TypeOK, Row
<1> QED
  BY <1>1, <1>3, <1>4, PendingFinite DEF BudgetInv

LEMMA BudgetWorker ==
  ASSUME TypeOK, TypeOK', BudgetInv, NEW w \in Workers, WorkerStep(w)
  PROVE  BudgetInv'
<1>1. CASE LoadPasses(w)
  BY <1>1, BudgetPasses
<1>2. CASE LoadFails(w)
  BY <1>2, BudgetLoadFails
<1>3. CASE Unreachable(w) \/ CountFailed(w)
  BY <1>3, BudgetCounts
<1>4. CASE TakeJob(w) \/ LoadStopped(w) \/ LoadOverThreshold(w) \/ AutoPause(w)
           \/ Send(w) \/ SendFails(w) \/ SendAnswerLost(w) \/ CountSent(w)
           \/ CheckCompletion(w) \/ WriteCompleted(w) \/ Settle(w)
  <2>1. Pending' \subseteq Pending
    BY <1>4 DEF TakeJob, LoadStopped, LoadOverThreshold, AutoPause, Send, SendFails,
       SendAnswerLost, CountSent, CheckCompletion, WriteCompleted, Settle, Step,
       Pending, TypeOK
  <2>2. overwritten' = overwritten /\ row'.failed = row.failed
    BY <1>4 DEF TakeJob, LoadStopped, LoadOverThreshold, AutoPause, Send, SendFails,
       SendAnswerLost, CountSent, CheckCompletion, WriteCompleted, Settle, Step,
       SetStatus, Count, Write, TypeOK, Row
  <2>3. used'.faults >= used.faults
    BY <1>4 DEF TakeJob, LoadStopped, LoadOverThreshold, AutoPause, Send, SendFails,
       SendAnswerLost, CountSent, CheckCompletion, WriteCompleted, Settle, Count,
       Fault, Spend, TypeOK
  <2> QED
    BY <2>1, <2>2, <2>3, BudgetKept
<1> QED
  BY <1>1, <1>2, <1>3, <1>4 DEF WorkerStep

LEMMA BudgetEnvironment ==
  ASSUME TypeOK, TypeOK', BudgetInv, Crash \/ AudienceChange
  PROVE  BudgetInv'
<1>1. Pending' \subseteq Pending
  BY DEF Crash, AudienceChange, workerVars, Pending
<1>2. UNCHANGED <<row, overwritten>> /\ used'.faults >= used.faults
  BY DEF Crash, AudienceChange, Fault, Spend, TypeOK
<1> QED
  BY <1>1, <1>2, BudgetKept

LEMMA BudgetStep == TypeOK /\ TypeOK' /\ BudgetInv /\ [Next]_vars => BudgetInv'
<1> SUFFICES ASSUME TypeOK, TypeOK', BudgetInv, [Next]_vars
             PROVE  BudgetInv'
  OBVIOUS
<1>1. CASE UNCHANGED vars
  BY <1>1 DEF vars, workerVars, BudgetInv, Pending
<1>2. CASE Next
  BY <1>2, BudgetRequest, BudgetExecute, BudgetWorker, BudgetEnvironment
     DEF Next, CronStep, Callers
<1> QED
  BY <1>1, <1>2

(* The failures counted in the row stay below the threshold, plus one for each
   worker past the check and one for each fault, as long as no save has put back
   older statistics. *)
THEOREM FailuresBounded == Spec => []ErrorBudget
<1>1. ASSUME Init PROVE BudgetInv
  <2>1. Pending = {} /\ row.failed = 0 /\ used.faults = 0
    <3>1. PICK a \in BOOLEAN : \E s \in InitialStatus(a) :
            row = [NoRow EXCEPT !.status = s, !.automated = a]
      BY <1>1 DEF Init
    <3> QED
      BY <1>1, <3>1 DEF Init, Pending, NoRow
  <2> QED
    BY <2>1, PendingFinite, CampaignAssumption, FS_EmptySet
       DEF BudgetInv, CampaignAssumption
<1>2. ASSUME BudgetInv, TypeOK PROVE ErrorBudget
  <2>1. used.faults \in Nat /\ Threshold \in Nat /\ row.failed \in Nat
    BY <1>2, CampaignAssumption DEF CampaignAssumption, TypeOK, Row
  <2> QED
    BY <1>2, <2>1, PendingFinite DEF BudgetInv, ErrorBudget
<1> QED
  BY <1>1, <1>2, BudgetStep, TypeCorrect, PTL DEF Spec

-----------------------------------------------------------------------------
(* The counter of sent messages *)

LEMMA AllSendsSum == /\ AllSends = SumOver(sends, Customers)
                     /\ AllSends' = SumOver(sends', Customers)
  BY DEF AllSends, SumOver, MapThenSumSet, MapThenFoldSet

LEMMA UncountedFinite ==
  /\ IsFiniteSet(Uncounted) /\ Cardinality(Uncounted) \in Nat
<1>1. Uncounted \in SUBSET Workers
  BY DEF Uncounted
<1>2. IsFiniteSet(Workers)
  BY CampaignAssumption DEF CampaignAssumption
<1> QED
  BY <1>1, <1>2, FS_Subset, FS_CardinalityType

LEMMA AllSendsType == /\ TypeOK => AllSends \in Nat
                      /\ TypeOK' => AllSends' \in Nat
  BY SumType, AllSendsSum, CampaignAssumption DEF TypeOK, CampaignAssumption

(* A message more for one customer is a message more in all. *)
LEMMA AllSendsGrows ==
  ASSUME TypeOK, NEW c \in Customers, sends' = [sends EXCEPT ![c] = @ + 1]
  PROVE  AllSends' >= AllSends + 1
<1>1. sends \in [Customers -> Nat] /\ IsFiniteSet(Customers)
  BY CampaignAssumption DEF TypeOK, CampaignAssumption
<1> DEFINE more == [sends EXCEPT ![c] = @ + 1]
<1>2. more \in [Customers -> Nat]
  BY <1>1, Increment
<1>3. SumOver(more, Customers) = SumOver(sends, Customers) + 1
  <2>1. \A d \in Customers : more[d] = sends[d] + (IF d = c THEN 1 ELSE 0)
    BY <1>1
  <2> HIDE DEF more
  <2> QED
    BY <1>1, <1>2, <2>1, SumIncreases
<1> HIDE DEF more
<1>4. AllSends' = SumOver(more, Customers)
  BY AllSendsSum DEF more
<1>5. AllSends \in Nat
  BY AllSendsType
<1> QED
  BY <1>3, <1>4, <1>5, AllSendsSum

(* What the row and the copies hold when a step starts. *)
LEMMA SentNumbers ==
  ASSUME TypeOK
  PROVE  /\ row.sent \in Nat /\ AllSends \in Nat /\ Cardinality(Uncounted) \in Nat
         /\ \A p \in Callers : copy[p].sent \in Nat
  BY AllSendsType, UncountedFinite DEF TypeOK, Row

(* A step that writes no count of its own: the row keeps its count or takes a
   caller's, and a caller's copy is the row, its own or empty. *)
LEMMA CountKept ==
  ASSUME TypeOK, TypeOK', SentInv, sends' = sends, Uncounted' \subseteq Uncounted,
         row'.sent = row.sent \/ \E p \in Callers : row'.sent = copy[p].sent,
         \A p \in Callers : \/ copy'[p].sent = copy[p].sent \/ copy'[p].sent = row.sent
                            \/ copy'[p].sent = 0
  PROVE  SentInv'
<1>1. Cardinality(Uncounted') <= Cardinality(Uncounted)
  BY UncountedFinite, FS_Subset
<1>2. AllSends' = AllSends
  BY AllSendsSum
<1>3. Cardinality(Uncounted') \in Nat
  BY UncountedFinite, FS_Subset, FS_CardinalityType
<1>4. row'.sent + Cardinality(Uncounted)' <= AllSends'
  BY <1>1, <1>2, <1>3, SentNumbers DEF SentInv
<1>5. ASSUME NEW p \in Callers
      PROVE  copy'[p].sent + Cardinality(Uncounted)' <= AllSends'
  BY <1>1, <1>2, <1>3, SentNumbers DEF SentInv
<1> QED
  BY <1>4, <1>5 DEF SentInv

LEMMA SentRequest ==
  ASSUME TypeOK, TypeOK', SentInv, RequestStep
  PROVE  SentInv'
<1>1. sends' = sends /\ Uncounted' = Uncounted
  BY DEF RequestStep, Pause, Cancel, Activate, ResumeLoad, ResumeWrite, RemoveLoad,
     RemoveWrite, UpdateLoad, UpdateSave, Begin, End, workerVars, sendVars, Uncounted
<1>2. row'.sent = row.sent \/ \E p \in Callers : row'.sent = copy[p].sent
  <2>1. ASSUME NEW p \in Requests, UpdateSave(p)
        PROVE  \E q \in Callers : row'.sent = copy[q].sent
    <3>1. PICK body \in BOOLEAN : row' = [copy[p] EXCEPT !.hasBody = body]
      BY <2>1 DEF UpdateSave, Write
    <3>2. p \in Callers /\ copy[p] \in Row
      BY DEF TypeOK, Callers
    <3>3. row'.sent = copy[p].sent
      BY <3>1, <3>2 DEF Row
    <3> QED
      BY <3>2, <3>3
  <2>2. ASSUME \A p \in Requests : ~UpdateSave(p)
        PROVE  row'.sent = row.sent
    BY <2>2 DEF RequestStep, Pause, Cancel, Activate, ResumeLoad, ResumeWrite,
       RemoveLoad, RemoveWrite, UpdateLoad, Begin, SetStatus, Write, TypeOK, Row
  <2> QED
    BY <2>1, <2>2
<1>3. copy' = copy \/ \E p \in Callers : \/ copy' = [copy EXCEPT ![p] = row]
                                         \/ copy' = [copy EXCEPT ![p] = NoRow]
  BY DEF RequestStep, Pause, Cancel, Activate, ResumeLoad, ResumeWrite, RemoveLoad,
     RemoveWrite, UpdateLoad, UpdateSave, Begin, End, callerVars, Callers
<1>4. \A p \in Callers : copy'[p] = copy[p] \/ copy'[p] = row \/ copy'[p] = NoRow
  BY <1>3 DEF TypeOK
<1>5. \A p \in Callers : \/ copy'[p].sent = copy[p].sent \/ copy'[p].sent = row.sent
                         \/ copy'[p].sent = 0
  BY <1>4 DEF NoRow
<1> QED
  BY <1>1, <1>2, <1>5, CountKept

LEMMA SentExecute ==
  ASSUME TypeOK, TypeOK', SentInv,
         CronPick \/ CronFail \/ \E p \in Callers : ExecuteStep(p)
  PROVE  SentInv'
<1>1. sends' = sends /\ Uncounted' = Uncounted
  BY DEF CronPick, CronFail, ExecuteStep, ExecuteLoad, ExecuteRefused,
     ExecuteActivate, ReadPage, AddJob, SetTotal, ExecuteError, End, workerVars,
     sendVars, Uncounted
<1>2. row'.sent = row.sent
  <2>1. row' = row \/ (\E s : SetStatus(s)) \/ (\E n : Write([row EXCEPT !.total = n]))
    BY DEF CronPick, CronFail, ExecuteStep, ExecuteLoad, ExecuteRefused,
       ExecuteActivate, ReadPage, AddJob, SetTotal, ExecuteError
  <2> QED
    BY <2>1 DEF SetStatus, Write, TypeOK, Row
<1>3. copy' = copy \/ \E p \in Callers : copy' = [copy EXCEPT ![p] = NoRow]
  BY DEF CronPick, CronFail, ExecuteStep, ExecuteLoad, ExecuteRefused,
     ExecuteActivate, ReadPage, AddJob, SetTotal, ExecuteError, End, Callers
<1>4. \A p \in Callers : copy'[p] = copy[p] \/ copy'[p] = NoRow
  BY <1>3 DEF TypeOK
<1>5. \A p \in Callers : copy'[p].sent = copy[p].sent \/ copy'[p].sent = 0
  BY <1>4 DEF NoRow
<1> QED
  BY <1>1, <1>2, <1>5, CountKept

(* The message goes out: one more to count at most, for one more sent. *)
LEMMA SentSend ==
  ASSUME TypeOK, TypeOK', WorkersHoldJobs, SentInv, NEW w \in Workers,
         Send(w) \/ SendAnswerLost(w)
  PROVE  SentInv'
<1>1. wjob[w] \in Customers /\ sends' = [sends EXCEPT ![wjob[w]] = @ + 1]
  BY DEF Send, SendAnswerLost, Deliver, Step, WorkersHoldJobs
<1>2. AllSends' >= AllSends + 1
  BY <1>1, AllSendsGrows
<1>3. UNCHANGED <<row, copy>>
  BY DEF Send, SendAnswerLost, Step, callerVars
<1>4. Uncounted' \in SUBSET (Uncounted \union {w})
  BY DEF Send, SendAnswerLost, Step, Uncounted, TypeOK
<1>5. /\ Cardinality(Uncounted') \in Nat
      /\ Cardinality(Uncounted') <= Cardinality(Uncounted) + 1
  <2>1. /\ IsFiniteSet(Uncounted \union {w})
        /\ Cardinality(Uncounted \union {w}) <= Cardinality(Uncounted) + 1
    BY UncountedFinite, FS_AddElement
  <2>2. /\ IsFiniteSet(Uncounted')
        /\ Cardinality(Uncounted') <= Cardinality(Uncounted \union {w})
    BY <1>4, <2>1, FS_Subset
  <2> QED
    BY <2>1, <2>2, UncountedFinite, FS_CardinalityType
<1>6. AllSends' \in Nat
  BY AllSendsType
<1>7. row'.sent + Cardinality(Uncounted)' <= AllSends'
  BY <1>2, <1>3, <1>5, <1>6, SentNumbers DEF SentInv
<1>8. ASSUME NEW p \in Callers
      PROVE  copy'[p].sent + Cardinality(Uncounted)' <= AllSends'
  BY <1>2, <1>3, <1>5, <1>6, SentNumbers DEF SentInv
<1> QED
  BY <1>7, <1>8 DEF SentInv

(* The message is counted: the worker leaves the set of those to count. *)
LEMMA SentCounts ==
  ASSUME TypeOK, TypeOK', SentInv, NEW w \in Workers, CountSent(w)
  PROVE  SentInv'
<1>1. /\ UNCHANGED <<sends, copy>>
      /\ row'.sent = row.sent + 1 \/ row' = row
  BY DEF CountSent, Step, Count, Write, callerVars, sendVars, TypeOK, Row
<1>2. w \in Uncounted /\ Uncounted' = Uncounted \ {w}
  BY DEF CountSent, Step, Uncounted, TypeOK
<1>3. Cardinality(Uncounted') = Cardinality(Uncounted) - 1
  BY <1>2, UncountedFinite, FS_RemoveElement
<1>4. AllSends' = AllSends
  BY <1>1, AllSendsSum
<1>5. row'.sent + Cardinality(Uncounted)' <= AllSends'
  BY <1>1, <1>3, <1>4, SentNumbers DEF SentInv
<1>6. ASSUME NEW p \in Callers
      PROVE  copy'[p].sent + Cardinality(Uncounted)' <= AllSends'
  BY <1>1, <1>3, <1>4, SentNumbers DEF SentInv
<1> QED
  BY <1>5, <1>6 DEF SentInv

LEMMA SentWorkerCounts ==
  ASSUME TypeOK, TypeOK', WorkersHoldJobs, SentInv, NEW w \in Workers, WorkerStep(w)
  PROVE  SentInv'
<1>1. CASE Send(w) \/ SendAnswerLost(w)
  BY <1>1, SentSend
<1>2. CASE CountSent(w)
  BY <1>2, SentCounts
<1>3. CASE TakeJob(w) \/ LoadStopped(w) \/ LoadOverThreshold(w) \/ AutoPause(w)
           \/ LoadPasses(w) \/ Unreachable(w) \/ SendFails(w) \/ LoadFails(w)
           \/ CountFailed(w) \/ CheckCompletion(w) \/ WriteCompleted(w) \/ Settle(w)
  <2>1. Uncounted' \subseteq Uncounted
    BY <1>3 DEF TakeJob, LoadStopped, LoadOverThreshold, AutoPause, LoadPasses,
       Unreachable, SendFails, LoadFails, CountFailed, CheckCompletion,
       WriteCompleted, Settle, Step, Uncounted, TypeOK
  <2>2. UNCHANGED <<copy, sends>>
    BY <1>3 DEF TakeJob, LoadStopped, LoadOverThreshold, AutoPause, LoadPasses,
       Unreachable, SendFails, LoadFails, CountFailed, CheckCompletion,
       WriteCompleted, Settle, Step, callerVars, sendVars
  <2>3. row'.sent = row.sent
    BY <1>3 DEF TakeJob, LoadStopped, LoadOverThreshold, AutoPause, LoadPasses,
       Unreachable, SendFails, LoadFails, CountFailed, CheckCompletion,
       WriteCompleted, Settle, Count, SetStatus, Write, TypeOK, Row
  <2> QED
    BY <2>1, <2>2, <2>3, CountKept
<1> QED
  BY <1>1, <1>2, <1>3 DEF WorkerStep

LEMMA SentEnvironment ==
  ASSUME TypeOK, TypeOK', SentInv, Crash \/ AudienceChange
  PROVE  SentInv'
<1>1. UNCHANGED <<sends, row>> /\ Uncounted' \subseteq Uncounted
  BY DEF Crash, AudienceChange, workerVars, sendVars, Uncounted
<1>2. copy' = copy \/ copy' = [p \in Callers |-> NoRow]
  BY DEF Crash, AudienceChange, callerVars
<1>3. \A p \in Callers : copy'[p].sent = copy[p].sent \/ copy'[p].sent = 0
  BY <1>2 DEF NoRow
<1> QED
  BY <1>1, <1>3, CountKept

LEMMA SentInvStep ==
  TypeOK /\ TypeOK' /\ WorkersHoldJobs /\ SentInv /\ [Next]_vars => SentInv'
<1> SUFFICES ASSUME TypeOK, TypeOK', WorkersHoldJobs, SentInv, [Next]_vars
             PROVE  SentInv'
  OBVIOUS
<1>1. CASE UNCHANGED vars
  BY <1>1, CountKept DEF vars, workerVars, callerVars, sendVars, Uncounted
<1>2. CASE Next
  BY <1>2, SentRequest, SentExecute, SentWorkerCounts, SentEnvironment
     DEF Next, CronStep, Callers
<1> QED
  BY <1>1, <1>2

(* Whatever is retried, lost or put back by a stale save, the row never claims
   more sent messages than went out. *)
THEOREM SentCounterSound == Spec => []SentNeverOverstated
<1>1. ASSUME Init PROVE TypeOK /\ JobInv /\ SentInv
  <2>1. TypeOK /\ JobInv
    BY <1>1, InitType, InitJob
  <2>2. Uncounted = {} /\ row.sent = 0 /\ \A p \in Callers : copy[p].sent = 0
    <3>1. PICK a \in BOOLEAN : \E s \in InitialStatus(a) :
            row = [NoRow EXCEPT !.status = s, !.automated = a]
      BY <1>1 DEF Init
    <3> QED
      BY <1>1, <3>1 DEF Init, Uncounted, NoRow
  <2>3. SentInv
    BY <2>1, <2>2, AllSendsType, FS_EmptySet DEF SentInv
  <2> QED
    BY <2>1, <2>3
<1>2. TypeOK /\ JobInv /\ SentInv /\ [Next]_vars => (TypeOK /\ JobInv /\ SentInv)'
  BY TypeStep, JobInvStep, SentInvStep DEF JobInv
<1>3. ASSUME TypeOK, SentInv PROVE SentNeverOverstated
  BY <1>3, SentNumbers DEF SentInv, SentNeverOverstated
<1> QED
  BY <1>1, <1>2, <1>3, PTL DEF Spec

-----------------------------------------------------------------------------
(* The pages of an execution *)

LEMMA AudienceNumbers == TypeOK => audience \in SUBSET Nat
  BY CampaignAssumption DEF CampaignAssumption, TypeOK

LEMMA RankType ==
  ASSUME TypeOK, NEW c
  PROVE  IsFiniteSet({d \in audience : d <= c}) /\ Rank(c) \in Nat
<1>1. audience \in SUBSET Customers /\ IsFiniteSet(audience)
  BY CampaignAssumption, FS_Subset DEF CampaignAssumption, TypeOK
<1>2. {d \in audience : d <= c} \in SUBSET audience
  OBVIOUS
<1> QED
  BY <1>1, <1>2, FS_Subset, FS_CardinalityType DEF Rank

(* The ranks of the audience have no gaps, so only the last page is empty. *)
LEMMA EmptyPageIsLast ==
  ASSUME TypeOK, NEW o \in Nat, Page(o) = {}, NEW c \in audience
  PROVE  Rank(c) <= o
<1> SUFFICES ASSUME ~(Rank(c) <= o) PROVE FALSE
  OBVIOUS
<1> DEFINE Far == {d \in audience : Rank(d) > o}
<1>1. PICK d \in Far : \A e \in Far : d <= e
  <2>1. c \in Far /\ Far \in SUBSET Nat
    <3>1. Rank(c) \in Nat /\ audience \in SUBSET Nat
      BY RankType, AudienceNumbers
    <3>2. Rank(c) > o
      BY <3>1
    <3> QED
      BY <3>1, <3>2
  <2> QED
    BY <2>1, Least
<1>2. d \in audience /\ Rank(d) > o /\ d \in Nat /\ Rank(d) \in Nat
  BY <1>1, RankType, AudienceNumbers
<1> DEFINE Before == {e \in audience : e <= d} \ {d}
<1>3. /\ IsFiniteSet(Before) /\ Cardinality(Before) = Rank(d) - 1
      /\ Before \in SUBSET Nat
  <2> DEFINE UpTo == {e \in audience : e <= d}
  <2>1. IsFiniteSet(UpTo) /\ Rank(d) = Cardinality(UpTo) /\ audience \in SUBSET Nat
    BY RankType, AudienceNumbers DEF Rank
  <2>2. d \in UpTo
    BY <1>2
  <2>3. UpTo \in SUBSET Nat
    BY <2>1
  <2> HIDE DEF UpTo
  <2>4. IsFiniteSet(UpTo \ {d}) /\ Cardinality(UpTo \ {d}) = Rank(d) - 1
    BY <2>1, <2>2, FS_RemoveElement
  <2> QED
    BY <2>3, <2>4 DEF UpTo
<1>4. Rank(d) <= o + 1
  <2>1. CASE Before = {}
    BY <1>2, <1>3, <2>1, FS_EmptySet
  <2>2. CASE Before # {}
    <3>1. PICK e \in Before : \A n \in Before : n <= e
      BY <1>3, <2>2, Greatest
    <3>2. e \in audience /\ e \in Nat /\ e < d
      BY <1>2, <1>3, <3>1
    <3>3. {n \in audience : n <= e} = Before
      <4>1. \A n \in audience : n \in Nat
        BY AudienceNumbers
      <4>2. ASSUME NEW n \in audience PROVE n <= e <=> n <= d /\ n # d
        <5>1. n \in Nat /\ (n <= d /\ n # d => n <= e)
          BY <3>1, <4>1
        <5> QED
          BY <1>2, <3>2, <5>1
      <4> QED
        BY <4>2
    <3>4. Rank(e) = Rank(d) - 1
      BY <1>3, <3>3 DEF Rank
    <3>5. ~(Rank(e) > o)
      <4>1. e \notin Far
        BY <1>1, <1>2, <3>2
      <4> QED
        BY <3>2, <4>1
    <3> QED
      BY <1>2, <3>4, <3>5
  <2> QED
    BY <2>1, <2>2
<1>5. d \in Page(o)
  BY <1>2, <1>4, CampaignAssumption DEF Page, CampaignAssumption
<1> QED
  BY <1>5

(* Who joins the audience lowers nobody's rank. *)
LEMMA RankGrows ==
  ASSUME TypeOK, TypeOK', audience \subseteq audience', NEW c
  PROVE  /\ Rank(c) \in Nat /\ Rank(c)' \in Nat /\ Rank(c) <= Rank(c)'
<1>1. IsFiniteSet({d \in audience : d <= c}) /\ Rank(c) \in Nat
  BY RankType
<1>2. {d \in audience' : d <= c} \in SUBSET Customers
  BY DEF TypeOK
<1>3. IsFiniteSet({d \in audience' : d <= c})
  BY <1>2, CampaignAssumption, FS_Subset DEF CampaignAssumption
<1>4. {d \in audience : d <= c} \in SUBSET {d \in audience' : d <= c}
  OBVIOUS
<1>5. Cardinality({d \in audience : d <= c}) <= Cardinality({d \in audience' : d <= c})
  BY <1>3, <1>4, FS_Subset
<1>6. Cardinality({d \in audience' : d <= c}) \in Nat
  BY <1>3, FS_CardinalityType
<1> QED
  BY <1>1, <1>5, <1>6 DEF Rank

JobsStay == \A c \in Customers : job[c] # "none" => job'[c] # "none"

LEMMA NextKeepsJobs ==
  ASSUME TypeOK, WorkersHoldJobs, [Next]_vars PROVE JobsStay
<1>1. CASE UNCHANGED vars \/ RequestStep \/ CronPick \/ CronFail \/ AudienceChange
  BY <1>1, CallersKeepJobs DEF vars, queueVars, jobVars, JobsStay
<1>2. ASSUME NEW p \in Callers, ExecuteStep(p) PROVE JobsStay
  <2>1. CASE AddJob(p)
    <3>1. PICK c \in exec[p].batch : Enqueue(c)
      BY <2>1 DEF AddJob
    <3> QED
      BY <3>1 DEF Enqueue, TypeOK, JobsStay
  <2>2. CASE ~AddJob(p)
    BY <1>2, <2>2, CallersKeepJobs DEF jobVars, JobsStay
  <2> QED
    BY <2>1, <2>2
<1>3. ASSUME NEW w \in Workers, WorkerStep(w) PROVE JobsStay
  <2>1. CASE TakeJob(w)
    BY <2>1 DEF TakeJob, TypeOK, JobsStay
  <2>2. CASE Settle(w)
    <3>1. job' = [job EXCEPT ![wjob[w]] = Outcome(w, wjob[w])]
      BY <2>2 DEF Settle
    <3>2. Outcome(w, wjob[w]) # "none"
      BY DEF Outcome
    <3> QED
      BY <3>1, <3>2 DEF TypeOK, JobsStay
  <2>3. CASE ~TakeJob(w) /\ ~Settle(w)
    <3>1. job' = job
      BY <1>3, <2>3 DEF WorkerStep, LoadStopped, LoadOverThreshold, AutoPause,
         LoadPasses, Unreachable, Send, SendFails, LoadFails, SendAnswerLost,
         CountSent, CountFailed, CheckCompletion, WriteCompleted, Step, queueVars
    <3> QED
      BY <3>1 DEF JobsStay
  <2> QED
    BY <2>1, <2>2, <2>3
<1>4. CASE Crash
  BY <1>4 DEF Crash, JobsStay
<1> QED
  BY <1>1, <1>2, <1>3, <1>4 DEF Next, CronStep, Callers

AudienceGrows == (departed => departed') /\ (departed' \/ audience \subseteq audience')

LEMMA NextKeepsAudience == ASSUME TypeOK, [Next]_vars PROVE AudienceGrows
<1>1. CASE AudienceChange
  BY <1>1 DEF AudienceChange, AudienceGrows, TypeOK
<1>2. CASE UNCHANGED vars \/ RequestStep \/ CronPick \/ CronFail \/ Crash
  BY <1>2 DEF vars, RequestStep, Pause, Cancel, Activate, ResumeLoad, ResumeWrite,
     RemoveLoad, RemoveWrite, UpdateLoad, UpdateSave, Begin, End, CronPick, CronFail,
     Crash, AudienceGrows
<1>3. ASSUME NEW p \in Callers, ExecuteStep(p) PROVE AudienceGrows
  BY <1>3 DEF ExecuteStep, ExecuteLoad, ExecuteRefused, ExecuteActivate, ReadPage,
     AddJob, SetTotal, ExecuteError, End, AudienceGrows
<1>4. ASSUME NEW w \in Workers, WorkerStep(w) PROVE AudienceGrows
  BY <1>4 DEF WorkerStep, TakeJob, LoadStopped, LoadOverThreshold, AutoPause,
     LoadPasses, Unreachable, Send, SendFails, LoadFails, SendAnswerLost, CountSent,
     CountFailed, CheckCompletion, WriteCompleted, Settle, Step, AudienceGrows
<1> QED
  BY <1>1, <1>2, <1>3, <1>4 DEF Next, CronStep, Callers

(* A caller that does not move keeps its cover: jobs and the audience only grow. *)
LEMMA CoverKept ==
  ASSUME TypeOK, TypeOK', JobsStay, AudienceGrows, NEW p \in Callers, Covers(p),
         pc'[p] = pc[p], exec'[p] = exec[p]
  PROVE  Covers(p)'
<1>1. ASSUME Paging(p), ~departed'
      PROVE  /\ exec[p].start \subseteq audience'
             /\ \A c \in exec[p].start :
                  Rank(c)' <= exec[p].offset \/ pc[p] = "total"
                    => c \in exec[p].batch \/ job'[c] # "none"
  <2>1. ~departed /\ audience \subseteq audience' /\ exec[p].start \subseteq audience
    BY <1>1 DEF AudienceGrows, Covers
  <2>2. \A c : Rank(c) \in Nat /\ Rank(c)' \in Nat /\ Rank(c) <= Rank(c)'
    BY <2>1, RankGrows
  <2>3. exec[p].offset \in Nat /\ exec[p].start \subseteq Customers
    BY DEF TypeOK, Execution
  <2>4. ASSUME NEW c \in exec[p].start,
               Rank(c)' <= exec[p].offset \/ pc[p] = "total"
        PROVE  c \in exec[p].batch \/ job'[c] # "none"
    <3>1. Rank(c) <= exec[p].offset \/ pc[p] = "total"
      BY <2>2, <2>3, <2>4
    <3>2. c \in exec[p].batch \/ job[c] # "none"
      BY <1>1, <2>1, <3>1 DEF Covers
    <3> QED
      BY <2>3, <3>2 DEF JobsStay
  <2> QED
    BY <2>1, <2>4
<1>2. Paging(p)' <=> Paging(p)
  BY DEF Paging
<1> QED
  BY <1>1, <1>2 DEF Covers

(* A caller that is not reading pages has no locals to cover. *)
LEMMA CoverIdle ==
  ASSUME NEW p \in Callers, ~Paging(p)', exec'[p] = NoExecution
  PROVE  Covers(p)'
  BY DEF Covers, Paging

LEMMA CoverRequest ==
  ASSUME TypeOK, TypeOK', CoverInv, JobsStay, AudienceGrows,
         RequestStep \/ CronPick \/ CronFail, NEW p \in Callers
  PROVE  Covers(p)'
<1>1. UNCHANGED <<pc, exec>> \/
      \E q \in Callers :
        /\ pc[q] \notin {"page", "add", "total"}
        /\ \E to \in CallerPc \ {"page", "add", "total"} : pc' = [pc EXCEPT ![q] = to]
        /\ exec' = exec \/ exec' = [exec EXCEPT ![q] = NoExecution]
  BY DEF RequestStep, Pause, Cancel, Activate, ResumeLoad, ResumeWrite, RemoveLoad,
     RemoveWrite, UpdateLoad, UpdateSave, Begin, End, Goto, CronPick, CronFail,
     callerVars, Callers, CallerPc
<1>2. CASE pc'[p] = pc[p] /\ exec'[p] = exec[p]
  BY <1>2, CoverKept DEF CoverInv
<1>3. CASE ~(pc'[p] = pc[p] /\ exec'[p] = exec[p])
  <2>1. ~Paging(p) /\ ~Paging(p)' /\ exec'[p] \in {exec[p], NoExecution}
    BY <1>1, <1>3 DEF Paging, TypeOK
  <2>2. exec[p] = NoExecution
    BY <2>1 DEF CoverInv, Covers
  <2> QED
    BY <2>1, <2>2, CoverIdle
<1> QED
  BY <1>2, <1>3

(* The steps of executeNow, for the caller that makes them. *)
LEMMA CoverExecute ==
  ASSUME TypeOK, TypeOK', JobsStay, AudienceGrows, NEW p \in Callers, Covers(p),
         ExecuteStep(p)
  PROVE  Covers(p)'
<1>1. CASE ExecuteLoad(p)
  <2>1. exec' = exec /\ ~Paging(p) /\ ~Paging(p)'
    BY <1>1 DEF ExecuteLoad, Calls, Goto, Paging, TypeOK
  <2> QED
    BY <2>1, CoverIdle DEF Covers
<1>2. CASE ExecuteRefused(p) \/ ExecuteError(p)
  <2>1. ~Paging(p)' /\ exec'[p] = NoExecution
    BY <1>2 DEF ExecuteRefused, ExecuteError, Throw, Goto, Paging, TypeOK
  <2> QED
    BY <2>1, CoverIdle
<1>3. CASE SetTotal(p)
  <2>1. ~Paging(p)' /\ exec'[p] = NoExecution
    BY <1>3 DEF SetTotal, End, Goto, Paging, TypeOK
  <2> QED
    BY <2>1, CoverIdle
<1>4. CASE ExecuteActivate(p)
  <2>1. /\ exec[p] = NoExecution /\ exec'[p] = [exec[p] EXCEPT !.start = audience]
        /\ pc'[p] = "page" /\ UNCHANGED <<audience, job, departed>>
    BY <1>4 DEF ExecuteActivate, Goto, Paging, Covers, TypeOK, queueVars
  <2>2. exec'[p] = [offset |-> 0, queued |-> 0, batch |-> {}, start |-> audience]
    BY <2>1 DEF NoExecution
  <2>3. ASSUME NEW c \in audience PROVE ~(Rank(c)' <= 0)
    <3>1. Rank(c)' = Rank(c) /\ Rank(c) \in Nat
      BY <2>1, RankType DEF Rank
    <3>2. c \in {d \in audience : d <= c} /\ IsFiniteSet({d \in audience : d <= c})
      <4>1. c \in Nat
        BY AudienceNumbers
      <4> QED
        BY <4>1, RankType
    <3>3. Rank(c) # 0
      BY <3>2, FS_EmptySet DEF Rank
    <3> QED
      BY <3>1, <3>3
  <2> QED
    BY <2>1, <2>2, <2>3 DEF Covers, Paging
<1>5. CASE ReadPage(p)
  <2> DEFINE o == exec[p].offset
  <2>1. /\ pc[p] = "page" /\ pc'[p] = (IF Page(o) = {} THEN "total" ELSE "add")
        /\ exec'[p] = [offset |-> o + BatchSize,
                       queued |-> exec[p].queued + Cardinality(Page(o)),
                       batch |-> Page(o), start |-> exec[p].start]
        /\ UNCHANGED <<audience, job, departed>>
    BY <1>5 DEF ReadPage, Goto, TypeOK, queueVars
  <2>2. o \in Nat /\ BatchSize \in Nat /\ exec[p].batch = {}
    BY <2>1, CampaignAssumption DEF TypeOK, Execution, CampaignAssumption, Covers
  <2> HIDE DEF o
  <2>3. ASSUME ~departed, NEW c \in exec[p].start,
               Rank(c)' <= o + BatchSize \/ pc'[p] = "total"
        PROVE  c \in Page(o) \/ job[c] # "none"
    <3>1. c \in audience /\ (Rank(c) <= o => job[c] # "none")
      BY <2>1, <2>2, <2>3 DEF Covers, Paging, o
    <3>2. Rank(c)' = Rank(c) /\ Rank(c) \in Nat
      BY <2>1, RankType DEF Rank
    <3>3. CASE Page(o) = {}
      BY <2>2, <3>1, <3>3, EmptyPageIsLast
    <3>4. CASE Page(o) # {}
      BY <2>1, <2>2, <2>3, <3>1, <3>2, <3>4 DEF Page
    <3> QED
      BY <3>3, <3>4
  <2>4. ~departed => exec[p].start \subseteq audience
    BY <2>1 DEF Covers, Paging
  <2> QED
    BY <2>1, <2>3, <2>4 DEF Covers, Paging
<1>6. CASE AddJob(p)
  <2>1. PICK c \in exec[p].batch :
          /\ Enqueue(c) /\ exec' = [exec EXCEPT ![p].batch = @ \ {c}]
          /\ Goto(p, IF exec[p].batch = {c} THEN "page" ELSE "add")
    BY <1>6 DEF AddJob
  <2>2. /\ exec'[p] = [exec[p] EXCEPT !.batch = @ \ {c}] /\ exec[p] \in Execution
        /\ pc[p] = "add" /\ pc'[p] = (IF exec[p].batch = {c} THEN "page" ELSE "add")
        /\ UNCHANGED <<audience, departed>>
    BY <1>6, <2>1 DEF AddJob, Goto, TypeOK
  <2>3. /\ exec'[p].batch = exec[p].batch \ {c} /\ exec'[p].start = exec[p].start
        /\ exec'[p].offset = exec[p].offset
    BY <2>2 DEF Execution
  <2>4. c \in Customers /\ job'[c] # "none"
    BY <2>1 DEF Enqueue, TypeOK, Execution
  <2>5. \A d : Rank(d)' = Rank(d)
    BY <2>2 DEF Rank
  <2>6. exec[p].start \subseteq Customers
    BY <2>2 DEF Execution
  <2> QED
    BY <2>2, <2>3, <2>4, <2>5, <2>6 DEF Covers, Paging, JobsStay
<1> QED
  BY <1>1, <1>2, <1>3, <1>4, <1>5, <1>6 DEF ExecuteStep

LEMMA CoverStep ==
  TypeOK /\ TypeOK' /\ WorkersHoldJobs /\ CoverInv /\ [Next]_vars => CoverInv'
<1> SUFFICES ASSUME TypeOK, TypeOK', WorkersHoldJobs, CoverInv, [Next]_vars,
                    NEW p \in Callers
             PROVE  Covers(p)'
  BY DEF CoverInv
<1>1. JobsStay /\ AudienceGrows /\ Covers(p)
  BY NextKeepsJobs, NextKeepsAudience DEF CoverInv
<1>2. CASE UNCHANGED vars \/ AudienceChange
  BY <1>1, <1>2, CoverKept DEF vars, callerVars, AudienceChange
<1>3. CASE RequestStep \/ CronPick \/ CronFail
  BY <1>1, <1>3, CoverRequest
<1>4. ASSUME NEW q \in Callers, ExecuteStep(q) PROVE Covers(p)'
  <2>1. CASE q = p
    BY <1>1, <1>4, <2>1, CoverExecute
  <2>2. CASE q # p
    <3>1. pc'[p] = pc[p] /\ exec'[p] = exec[p]
      BY <1>4, <2>2 DEF ExecuteStep, ExecuteLoad, ExecuteRefused, ExecuteActivate,
         ReadPage, AddJob, SetTotal, ExecuteError, Throw, End, Goto, TypeOK
    <3> QED
      BY <1>1, <3>1, CoverKept
  <2> QED
    BY <2>1, <2>2
<1>5. ASSUME NEW w \in Workers, WorkerStep(w) PROVE Covers(p)'
  <2>1. UNCHANGED <<pc, exec>>
    BY <1>5 DEF WorkerStep, TakeJob, LoadStopped, LoadOverThreshold, AutoPause,
       LoadPasses, Unreachable, Send, SendFails, LoadFails, SendAnswerLost, CountSent,
       CountFailed, CheckCompletion, WriteCompleted, Settle, Step, callerVars
  <2> QED
    BY <1>1, <2>1, CoverKept
<1>6. CASE Crash
  <2>1. ~Paging(p)' /\ exec'[p] = NoExecution
    BY <1>6 DEF Crash, Paging
  <2> QED
    BY <2>1, CoverIdle
<1> QED
  BY <1>2, <1>3, <1>4, <1>5, <1>6 DEF Next, CronStep, Callers

(* When a caller has read its last page, everyone who was in the audience when it
   began holds a job, unless somebody left meanwhile: the ranks of the audience
   have no gaps, and those who join only raise them. *)
THEOREM ExecutionsCover == Spec => []ExecutionCoversAudience
<1>1. ASSUME Init PROVE TypeOK /\ JobInv /\ CoverInv
  BY <1>1, InitType, InitJob DEF Init, CoverInv, Covers, Paging
<1>2. TypeOK /\ JobInv /\ CoverInv /\ [Next]_vars => (TypeOK /\ JobInv /\ CoverInv)'
  BY TypeStep, JobInvStep, CoverStep DEF JobInv
<1>3. CoverInv => ExecutionCoversAudience
  BY DEF CoverInv, Covers, Paging, ExecutionCoversAudience
<1> QED
  BY <1>1, <1>2, <1>3, PTL DEF Spec
=============================================================================
