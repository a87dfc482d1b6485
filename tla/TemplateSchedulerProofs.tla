---------------------- MODULE TemplateSchedulerProofs ----------------------
(***************************************************************************)
(* Theorems about TemplateScheduler: type correctness, that every row is   *)
(* delivered once as OnceDelivery has it, that a cancellation that took    *)
(* hold is never followed by a message, that a target is reminded once,    *)
(* and that a row that waits to be sent has a job.                         *)
(***************************************************************************)
EXTENDS TemplateScheduler, SumTheorems, FiniteSetTheorems, TLAPS

LEMMA NoTargetType == NoTarget \in Targets
  BY SchedulerAssumption DEF SchedulerAssumption, NoTarget

LEMMA NoBatchType == NoBatch \in Batch
<1>1. (CHOOSE e \in Events : TRUE) \in Events
  BY SchedulerAssumption DEF SchedulerAssumption
<1> QED
  BY <1>1 DEF NoBatch, NewBatch, Batch

LEMMA NewRowType == NoRow \in Row /\ NewRow \in Row
  BY DEF NoRow, NewRow, Row, RowStatus, RowError

(* Incrementing one value of a function to Nat. *)
LEMMA Increment ==
  ASSUME NEW S, NEW f \in [S -> Nat], NEW x \in S
  PROVE  [f EXCEPT ![x] = @ + 1] \in [S -> Nat]
  OBVIOUS

Budget == [requests : Nat, events : Nat, edits : Nat, faults : Nat]

LEMMA SpendType ==
  ASSUME TypeOK,
         NEW kind \in {"requests", "events", "edits", "faults"}, NEW limit \in Nat,
         Spend(kind, limit)
  PROVE  used' \in Budget
  BY DEF Spend, TypeOK, Budget

LEMMA FaultType == TypeOK /\ Fault => used' \in Budget
  BY SpendType, SchedulerAssumption DEF Fault, SchedulerAssumption

LEMMA InitType == Init => TypeOK
  BY NoTargetType, NoBatchType, NewRowType
     DEF Init, TypeOK, JobState, SchedulerPc, CancellerPc, WorkerPc, TemplateStatus

LEMMA SchedulerType ==
  ASSUME TypeOK, CallsHoldRows, NEW p \in Schedulers, SchedulerStep(p)
  PROVE  TypeOK'
<1> USE DEF TypeOK, SchedulerPc, Budget, schedVars, cancelVars, workerVars, queueVars,
            envVars, sendVars, noteVars
<1>1. ASSUME NEW t \in Targets, Schedule(p, t) PROVE TypeOK'
  <2>1. used' \in Budget
    BY <1>1, SpendType, SchedulerAssumption DEF Schedule, SchedulerAssumption
  <2> QED
    BY <1>1, <2>1 DEF Schedule
<1>2. CASE CheckLimit(p)
  BY <1>2 DEF CheckLimit
<1>3. CASE Insert(p)
  BY <1>3, NewRowType DEF Insert, Rivals
<1>4. CASE AddJob(p)
  BY <1>4 DEF AddJob, JobState
<1>5. CASE Link(p)
  <2>1. sid[p] \in Ids
    BY <1>5 DEF CallsHoldRows, Link
  <2>2. [status |-> "pending", linked |-> TRUE, error |-> row[sid[p]].error] \in Row
    BY <2>1 DEF Row, RowStatus
  <2>3. row' \in [Ids -> Row]
    BY <1>5, <2>2 DEF Link
  <2>4. excuses' \in [Ids -> Nat]
    BY <1>5, <2>1 DEF Link
  <2> QED
    BY <1>5, <2>3, <2>4 DEF Link
<1>6. CASE ScheduleFails(p)
  BY <1>6, FaultType DEF ScheduleFails, CallsHoldRows
<1> QED
  BY <1>1, <1>2, <1>3, <1>4, <1>5, <1>6 DEF SchedulerStep

(* A batch with other sets of rows, or of templates, is one. *)
LEMMA BatchType ==
  ASSUME NEW b \in Batch
  PROVE  /\ \A found, links, todo \in SUBSET Ids :
              [b EXCEPT !.found = found, !.links = links, !.todo = todo] \in Batch
         /\ \A todo \in SUBSET Ids : [b EXCEPT !.todo = todo] \in Batch
         /\ \A among \in SUBSET Templates : [b EXCEPT !.among = among] \in Batch
  BY DEF Batch

LEMMA EndQueryType ==
  ASSUME TypeOK, NEW c \in Cancellers, EndQuery(c)
  PROVE  cpc' \in [Cancellers -> CancellerPc] /\ batch' \in [Cancellers -> Batch]
<1>1. NewBatch(batch[c].event, TRUE) \in Batch
  BY DEF TypeOK, Batch, NewBatch
<1> QED
  BY <1>1 DEF EndQuery, TypeOK, CancellerPc

LEMMA CancellerType ==
  ASSUME TypeOK, NEW c \in Cancellers, CancellerStep(c)
  PROVE  TypeOK'
<1> USE DEF TypeOK, CancellerPc, Budget, schedVars, cancelVars, workerVars, queueVars,
            envVars, sendVars, noteVars
<1>1. ASSUME NEW e \in Events, EventArrives(c, e) PROVE TypeOK'
  <2>1. used' \in Budget
    BY <1>1, SpendType, SchedulerAssumption DEF EventArrives, SchedulerAssumption
  <2>2. NewBatch(e, ~HasOwnQuery(e)) \in Batch
    BY DEF Batch, HasOwnQuery, NewBatch
  <2>3. batch' \in [Cancellers -> Batch]
    BY <1>1, <2>2 DEF EventArrives
  <2> QED
    BY <1>1, <2>1, <2>3 DEF EventArrives
<1>2. CASE FindPending(c)
  <2> DEFINE found == IF batch[c].dynamic THEN DynamicQuery(batch[c].event, batch[c].among)
                                          ELSE OwnQuery(batch[c].event)
             links == {i \in found : row[i].linked}
             loaded == [batch[c] EXCEPT !.found = found, !.links = links, !.todo = links]
  <2>1. found \subseteq Ids
    BY DEF DynamicQuery, OwnQuery
  <2>2. loaded \in Batch
    <3>1. found \in SUBSET Ids /\ links \in SUBSET Ids /\ batch[c] \in Batch
      BY <2>1
    <3> HIDE DEF found, links
    <3> QED
      BY <3>1, BatchType
  <2>3. \/ EndQuery(c)
        \/ /\ cpc' = [cpc EXCEPT ![c] = "remove"]
           /\ batch' = [batch EXCEPT ![c] = loaded]
    BY <1>2 DEF FindPending
  <2> HIDE DEF loaded
  <2>4. cpc' \in [Cancellers -> CancellerPc] /\ batch' \in [Cancellers -> Batch]
    BY <2>2, <2>3, EndQueryType
  <2> QED
    BY <1>2, <2>4 DEF FindPending
<1>3. CASE RemoveJob(c)
  <2>1. PICK i \in batch[c].todo : /\ batch' = [batch EXCEPT ![c].todo = @ \ {i}]
                                   /\ \/ job' = [job EXCEPT ![i] = "removed"]
                                      \/ job' = job
                                   /\ used' = used \/ Fault
    BY <1>3 DEF RemoveJob
  <2>2. [batch[c] EXCEPT !.todo = @ \ {i}] \in Batch
    <3>1. batch[c] \in Batch /\ batch[c].todo \ {i} \in SUBSET Ids
      BY DEF Batch
    <3> QED
      BY <3>1, BatchType
  <2>3. batch' \in [Cancellers -> Batch]
    BY <2>1, <2>2
  <2>4. job' \in [Ids -> JobState]
    BY <2>1 DEF JobState
  <2> QED
    BY <1>3, <2>1, <2>3, <2>4, FaultType DEF RemoveJob
<1>4. CASE SaveCancelled(c)
  <2>1. \A i \in Ids : [status |-> "cancelled", error |-> "none",
                        linked |-> i \in batch[c].links] \in Row
    BY DEF Row, RowStatus, RowError
  <2>2. row' \in [Ids -> Row]
    BY <1>4, <2>1 DEF SaveCancelled
  <2>3. stopped' \subseteq Ids /\ repeatable' \subseteq Ids
    BY <1>4 DEF SaveCancelled, Batch
  <2> QED
    BY <1>4, <2>2, <2>3, EndQueryType DEF SaveCancelled
<1>5. CASE CancelFails(c)
  BY <1>5, FaultType, NoBatchType DEF CancelFails, Unsaved, Batch
<1>6. CASE FindTemplates(c)
  <2> DEFINE among == {t \in CancelOn[batch[c].event.kind] : template[t] # "deleted"}
  <2>1. batch[c].event.kind \in Kinds
    BY SchedulerAssumption DEF SchedulerAssumption, Batch
  <2>2. among \subseteq Templates
    BY <2>1, SchedulerAssumption DEF SchedulerAssumption
  <2>3. [batch[c] EXCEPT !.among = among] \in Batch
    <3> HIDE DEF among
    <3> QED
      BY <2>2, BatchType
  <2>4. /\ batch' = [batch EXCEPT ![c].among = among]
        /\ cpc' = [cpc EXCEPT ![c] = IF among = {} THEN "idle" ELSE "find"]
    BY <1>6 DEF FindTemplates
  <2> HIDE DEF among
  <2>5. batch' \in [Cancellers -> Batch] /\ cpc' \in [Cancellers -> CancellerPc]
    BY <2>3, <2>4
  <2> QED
    BY <1>6, <2>5 DEF FindTemplates
<1> QED
  BY <1>1, <1>2, <1>3, <1>4, <1>5, <1>6 DEF CancellerStep

LEMMA SetStatusType ==
  ASSUME TypeOK, NEW w \in Workers, wjob[w] \in Ids,
         NEW s \in RowStatus, NEW e \in RowError, SetStatus(w, s, e)
  PROVE  row' \in [Ids -> Row]
<1>1. [status |-> s, error |-> e, linked |-> row[wjob[w]].linked] \in Row
  BY DEF TypeOK, Row
<1> QED
  BY <1>1 DEF SetStatus, TypeOK

LEMMA WorkerType ==
  ASSUME TypeOK, WorkersHoldJobs, NEW w \in Workers, WorkerStep(w)
  PROVE  TypeOK'
<1> USE DEF TypeOK, WorkerPc, Budget, schedVars, cancelVars, workerVars, queueVars,
            envVars, sendVars, noteVars
<1>0. wpc[w] # "idle" => wjob[w] \in Ids
  BY DEF WorkersHoldJobs
<1>1. CASE TakeJob(w)
  BY <1>1 DEF TakeJob, JobState
<1>2. CASE LoadSkips(w)
  BY <1>2 DEF LoadSkips, Step, Move
<1>3. CASE LoadPasses(w)
  BY <1>3 DEF LoadPasses, Step, Move
<1>4. CASE FindTemplate(w)
  BY <1>4 DEF FindTemplate, Step, Move
<1>5. CASE FindChannel(w)
  BY <1>5 DEF FindChannel, Step, Move
<1>6. CASE Send(w)
  <2>1. sends' \in [Ids -> Nat]
    BY <1>0, <1>6, Increment DEF Send, Deliver, Step, Move
  <2> QED
    BY <1>6, <2>1 DEF Send, Step, Move
<1>7. CASE SendFails(w)
  BY <1>7 DEF SendFails, Step, Move
<1>8. CASE SendAnswerLost(w)
  <2>1. sends' \in [Ids -> Nat] /\ excuses' \in [Ids -> Nat]
    BY <1>0, <1>8, Increment DEF SendAnswerLost, Deliver, Excuse, Step, Move
  <2> QED
    BY <1>8, <2>1, FaultType DEF SendAnswerLost, Step, Move
<1>9. CASE LookupFails(w)
  BY <1>9, FaultType DEF LookupFails, Step, Move
<1>10. CASE MarkSent(w)
  <2>1. row' \in [Ids -> Row]
    <3>1. wjob[w] \in Ids /\ row[wjob[w]].error \in RowError
      BY <1>0, <1>10 DEF MarkSent, Step, Move, Row
    <3> QED
      BY <1>10, <3>1, SetStatusType DEF MarkSent, RowStatus
  <2> QED
    BY <1>10, <2>1 DEF MarkSent, Step, Move
<1>11. CASE MarkSentFails(w)
  <2>1. excuses' \in [Ids -> Nat]
    BY <1>0, <1>11, Increment DEF MarkSentFails, Excuse, Step, Move
  <2> QED
    BY <1>11, <2>1, FaultType DEF MarkSentFails, Step, Move
<1>12. CASE MarkFailed(w)
  <2>1. PICK e \in Refusals \union {"exception"} :
           Step(w, e, "finish") /\ SetStatus(w, "failed", e)
    BY <1>12 DEF MarkFailed
  <2>2. wjob[w] \in Ids
    BY <1>0, <2>1 DEF Step, Move, Refusals
  <2>3. row' \in [Ids -> Row]
    BY <2>1, <2>2, SetStatusType DEF RowStatus, RowError, Refusals
  <2>4. excuses' \in [Ids -> Nat]
    BY <1>12, <2>2 DEF MarkFailed
  <2> QED
    BY <1>12, <2>1, <2>3, <2>4 DEF MarkFailed, Step, Move
<1>13. CASE MarkFailedFails(w)
  <2>1. wjob[w] \in Ids
    BY <1>0, <1>13 DEF MarkFailedFails, Step, Move, Refusals
  <2> QED
    BY <1>13, <2>1, FaultType DEF MarkFailedFails, Step, Move
<1>14. CASE Settle(w)
  <2>1. job' \in [Ids -> JobState]
    BY <1>14 DEF Settle, Outcome, JobState
  <2>2. failures' \in [Ids -> Nat]
    BY <1>0, <1>14 DEF Settle
  <2> QED
    BY <1>14, <2>1, <2>2 DEF Settle
<1> QED
  BY <1>1, <1>2, <1>3, <1>4, <1>5, <1>6, <1>7, <1>8, <1>9, <1>10, <1>11, <1>12,
     <1>13, <1>14 DEF WorkerStep

LEMMA EnvironmentType ==
  ASSUME TypeOK, WorkersHoldJobs, CallsHoldRows,
         (\E t \in Templates : EditTemplate(t)) \/ ChannelChanges \/ Crash
  PROVE  TypeOK'
<1> USE DEF TypeOK, Budget, schedVars, cancelVars, workerVars, queueVars, envVars, sendVars,
            noteVars
<1>1. ASSUME NEW t \in Templates, EditTemplate(t) PROVE TypeOK'
  BY <1>1, SpendType, SchedulerAssumption DEF EditTemplate, SchedulerAssumption
<1>2. CASE ChannelChanges
  BY <1>2, SpendType, SchedulerAssumption DEF ChannelChanges, SchedulerAssumption
<1>3. CASE Crash
  <2>1. orphaned' \subseteq Ids
    BY <1>3 DEF Crash, Unsaved, Batch, WorkersHoldJobs, CallsHoldRows
  <2> QED
    BY <1>3, <2>1, FaultType, NoBatchType
       DEF Crash, JobState, SchedulerPc, CancellerPc, WorkerPc
<1> QED
  BY <1>1, <1>2, <1>3

LEMMA TypeStep ==
  TypeOK /\ WorkersHoldJobs /\ CallsHoldRows /\ [Next]_vars => TypeOK'
<1> SUFFICES ASSUME TypeOK, WorkersHoldJobs, CallsHoldRows, [Next]_vars
             PROVE  TypeOK'
  OBVIOUS
<1>1. CASE UNCHANGED vars
  BY <1>1 DEF vars, schedVars, cancelVars, workerVars, queueVars, envVars, sendVars,
     noteVars, TypeOK
<1>2. CASE Next
  BY <1>2, SchedulerType, CancellerType, WorkerType, EnvironmentType DEF Next
<1> QED
  BY <1>1, <1>2

-----------------------------------------------------------------------------
(* Rows, jobs and messages *)

invVars == <<row, job, spc, sid, wpc, wjob, sends, excuses>>

LEMMA SendInvKept == SendInv /\ UNCHANGED invVars => SendInv'
  BY DEF SendInv, WorkersHoldJobs, OneWorkerPerJob, CallsHoldRows, JobsHaveRows,
     UnsentIsUnsent, SentIsSent, OncePerRow, invVars, PastCheck

LEMMA InitSend == Init => SendInv
  BY DEF Init, SendInv, WorkersHoldJobs, OneWorkerPerJob, CallsHoldRows,
     JobsHaveRows, UnsentIsUnsent, SentIsSent, OncePerRow, NoRow, PastCheck

(* A scheduling call works on a row of its own: the one nobody had before. *)
LEMMA SendInvScheduler ==
  ASSUME TypeOK, SendInv, NEW p \in Schedulers, SchedulerStep(p)
  PROVE  SendInv'
<1> USE DEF TypeOK, SchedulerPc, SendInv, WorkersHoldJobs, OneWorkerPerJob,
            CallsHoldRows, JobsHaveRows, UnsentIsUnsent, SentIsSent, OncePerRow, schedVars,
            PastCheck, workerVars, queueVars, sendVars
<1>1. ASSUME NEW t \in Targets, Schedule(p, t) PROVE SendInv'
  BY <1>1 DEF Schedule
<1>2. CASE CheckLimit(p)
  BY <1>2 DEF CheckLimit
<1>3. CASE Insert(p)
  <2>1. PICK i \in Ids : /\ row[i].status = "none"
                         /\ row' = [row EXCEPT ![i] = NewRow]
                         /\ sid' = [sid EXCEPT ![p] = i]
    BY <1>3 DEF Insert
  <2>2. /\ spc' = [spc EXCEPT ![p] = "add"]
        /\ UNCHANGED <<job, wpc, wjob, sends, excuses>>
    BY <1>3 DEF Insert
  <2>3. NewRow.status = "pending"
    BY DEF NewRow, NoRow
  <2>4. job[i] = "none" /\ sends[i] = 0
    BY <2>1
  <2>5. CallsHoldRows'
    BY <2>1, <2>2, <2>3, <2>4
  <2>6. JobsHaveRows' /\ WorkersHoldJobs' /\ OneWorkerPerJob' /\ OncePerRow'
    BY <2>1, <2>2, <2>3
  <2>7. UnsentIsUnsent' /\ SentIsSent'
    BY <2>1, <2>2, <2>3, <2>4
  <2> QED
    BY <2>5, <2>6, <2>7
<1>4. CASE AddJob(p)
  <2>1. /\ sid[p] \in Ids /\ row[sid[p]].status # "none" /\ job[sid[p]] = "none"
    BY <1>4 DEF AddJob
  <2>2. /\ spc' = [spc EXCEPT ![p] = "link"] /\ spc[p] = "add"
        /\ job' = [job EXCEPT ![sid[p]] = "queued"]
        /\ UNCHANGED <<row, sid, wpc, wjob, sends, excuses>>
    BY <1>4 DEF AddJob
  <2>3. WorkersHoldJobs' /\ OneWorkerPerJob' /\ JobsHaveRows' /\ OncePerRow'
    BY <2>1, <2>2
  <2>4. CallsHoldRows'
    BY <2>1, <2>2
  <2>5. UnsentIsUnsent' /\ SentIsSent'
    BY <2>2
  <2> QED
    BY <2>3, <2>4, <2>5
<1>5. CASE Link(p)
  <2> DEFINE i == sid[p]
  <2>1. /\ i \in Ids /\ row[i].status # "none"
    BY <1>5 DEF Link
  <2>2. /\ row' = [row EXCEPT ![i] = [status |-> "pending", linked |-> TRUE,
                                      error |-> row[i].error]]
        /\ excuses' = [excuses EXCEPT ![i] = IF Hides(i) THEN @ + 1 ELSE @]
        /\ spc' = [spc EXCEPT ![p] = "idle"] /\ sid' = [sid EXCEPT ![p] = NoId]
        /\ UNCHANGED <<job, wpc, wjob, sends>>
    BY <1>5 DEF Link
  <2>3. /\ row'[i].status = "pending"
        /\ \A k \in Ids : k # i => row'[k] = row[k] /\ excuses'[k] = excuses[k]
        /\ excuses'[i] = IF Hides(i) THEN excuses[i] + 1 ELSE excuses[i]
    BY <2>1, <2>2
  <2> HIDE DEF i
  <2>4. \A k \in Ids : excuses'[k] >= excuses[k] /\ excuses'[k] \in Nat
    BY <2>1, <2>3
  <2>5. WorkersHoldJobs' /\ OneWorkerPerJob' /\ JobsHaveRows'
    BY <2>1, <2>2, <2>3
  <2>6. CallsHoldRows'
    BY <2>1, <2>2, <2>3
  <2>7. OncePerRow'
    BY <2>2, <2>4
  <2>8. /\ \A w \in Workers : wpc[w] = "sent" => wjob[w] # i
        => sends[i] <= excuses'[i]
    BY <2>1, <2>3 DEF Hides
  <2>9. UnsentIsUnsent'
    BY <2>1, <2>2, <2>3, <2>4, <2>8
  <2>10. \A w \in Workers : wpc[w] = "sent" => excuses'[wjob[w]] = excuses[wjob[w]]
    BY <2>3 DEF Hides
  <2>11. \A k \in Ids : /\ excuses'[k] <= sends[k]
                        /\ row'[k].status = "sent" => sends[k] > excuses'[k]
    BY <2>1, <2>3 DEF Hides
  <2>12. \A w \in Workers : wpc[w] = "sent" => sends[wjob[w]] > excuses'[wjob[w]]
    BY <2>10
  <2>13. \A w \in Workers : wpc[w] \in PastCheck
                            => row'[wjob[w]].status # "sent"
    <3>1. \A w \in Workers : wpc[w] \in PastCheck
                            => wjob[w] \in Ids /\ row[wjob[w]].status # "sent"
      OBVIOUS
    <3> QED
      BY <2>3, <3>1
  <2>14. SentIsSent'
    BY <2>2, <2>11, <2>12, <2>13
  <2> QED
    BY <2>5, <2>6, <2>7, <2>9, <2>14
<1>6. CASE ScheduleFails(p)
  BY <1>6 DEF ScheduleFails
<1> QED
  BY <1>1, <1>2, <1>3, <1>4, <1>5, <1>6 DEF SchedulerStep

(* A listener only removes queued jobs and ends the waiting of rows. *)
LEMMA SendInvCanceller ==
  ASSUME TypeOK, SendInv, NEW c \in Cancellers, CancellerStep(c)
  PROVE  SendInv'
<1> USE DEF TypeOK, schedVars, workerVars, queueVars, sendVars
<1>1. CASE (\E e \in Events : EventArrives(c, e)) \/ FindTemplates(c) \/ FindPending(c)
           \/ CancelFails(c)
  BY <1>1, SendInvKept DEF EventArrives, FindTemplates, FindPending, CancelFails, invVars
<1>2. CASE RemoveJob(c)
  <2>1. \A i \in Ids : \/ job'[i] = job[i]
                       \/ job[i] = "queued" /\ job'[i] = "removed"
    BY <1>2 DEF RemoveJob
  <2>2. UNCHANGED <<row, spc, sid, wpc, wjob, sends, excuses>>
    BY <1>2 DEF RemoveJob
  <2> QED
    BY <2>1, <2>2 DEF SendInv, WorkersHoldJobs, OneWorkerPerJob, CallsHoldRows,
       JobsHaveRows, UnsentIsUnsent, SentIsSent, OncePerRow
<1>3. CASE SaveCancelled(c)
  <2>1. \A i \in batch[c].found : i \in Ids /\ row'[i].status = "cancelled"
    BY <1>3 DEF SaveCancelled, Batch
  <2>2. \A i \in Ids \ batch[c].found : row'[i] = row[i]
    BY <1>3 DEF SaveCancelled
  <2>3. UNCHANGED <<job, spc, sid, wpc, wjob, sends, excuses>>
    BY <1>3 DEF SaveCancelled
  <2>4. \A i \in Ids : \/ row'[i] = row[i]
                       \/ row'[i].status = "cancelled"
    BY <2>1, <2>2
  <2>5. WorkersHoldJobs' /\ OneWorkerPerJob' /\ OncePerRow' /\ JobsHaveRows'
    BY <2>3, <2>4 DEF SendInv, WorkersHoldJobs, OneWorkerPerJob, JobsHaveRows, OncePerRow
  <2>6. CallsHoldRows' /\ UnsentIsUnsent' /\ SentIsSent'
    BY <2>3, <2>4 DEF SendInv, CallsHoldRows, UnsentIsUnsent, SentIsSent, WorkersHoldJobs,
       PastCheck
  <2> QED
    BY <2>5, <2>6 DEF SendInv
<1> QED
  BY <1>1, <1>2, <1>3 DEF CancellerStep

LEMMA SendInvTake ==
  ASSUME TypeOK, SendInv, NEW w \in Workers, TakeJob(w)
  PROVE  SendInv'
<1>1. PICK i \in Ids : /\ job[i] = "queued"
                       /\ job' = [job EXCEPT ![i] = "active"]
                       /\ wjob' = [wjob EXCEPT ![w] = i]
  BY DEF TakeJob
<1>2. /\ wpc[w] = "idle" /\ wpc' = [wpc EXCEPT ![w] = "load"]
      /\ UNCHANGED <<row, spc, sid, sends, excuses>>
  BY DEF TakeJob, schedVars, sendVars
<1> USE <1>1, <1>2 DEF TypeOK
<1>3. \A v \in Workers : v # w /\ wpc[v] # "idle" => wjob[v] # i
  BY DEF SendInv, WorkersHoldJobs
<1>4. WorkersHoldJobs' /\ OneWorkerPerJob'
  BY <1>3 DEF SendInv, WorkersHoldJobs, OneWorkerPerJob
<1>5. CallsHoldRows' /\ JobsHaveRows' /\ OncePerRow'
  BY DEF SendInv, CallsHoldRows, JobsHaveRows, OncePerRow
<1>6. UnsentIsUnsent' /\ SentIsSent'
  BY DEF SendInv, UnsentIsUnsent, SentIsSent, PastCheck
<1> QED
  BY <1>4, <1>5, <1>6 DEF SendInv

(* A worker's step within its attempt: it keeps its job, and what it does to the
   row and the message counts is the only thing left to look at. *)
LEMMA SendInvStep ==
  ASSUME TypeOK, SendInv, NEW w \in Workers, NEW from, from # "idle", NEW to,
         Move(w, from, to), to # "idle",
         \A i \in Ids : row'[i].status # "none" <=> row[i].status # "none",
         sends' \in [Ids -> Nat], excuses' \in [Ids -> Nat],
         \A i \in Ids : row[i].status = "none" => sends'[i] = sends[i],
         OncePerRow', UnsentIsUnsent', SentIsSent'
  PROVE  SendInv'
<1>1. /\ wpc[w] = from /\ wpc' = [wpc EXCEPT ![w] = to]
      /\ UNCHANGED <<job, spc, sid, wjob>>
  BY DEF Move, schedVars, queueVars
<1>2. WorkersHoldJobs' /\ OneWorkerPerJob'
  BY <1>1 DEF SendInv, WorkersHoldJobs, OneWorkerPerJob, TypeOK
<1>3. CallsHoldRows' /\ JobsHaveRows'
  BY <1>1 DEF SendInv, CallsHoldRows, JobsHaveRows, TypeOK
<1> QED
  BY <1>2, <1>3 DEF SendInv

LEMMA SendInvWorker ==
  ASSUME TypeOK, SendInv, NEW w \in Workers, WorkerStep(w)
  PROVE  SendInv'
<1> DEFINE i == wjob[w]
<1> USE DEF PastCheck
<1>0. wpc[w] # "idle" => i \in Ids /\ job[i] = "active" /\ row[i].status # "none"
  BY DEF SendInv, WorkersHoldJobs, JobsHaveRows
<1>a. \A v \in Workers : v # w /\ wpc[v] # "idle" /\ wpc[w] # "idle" => wjob[v] # i
  BY DEF SendInv, OneWorkerPerJob
<1>1. CASE TakeJob(w)
  BY <1>1, SendInvTake
<1>2. CASE LoadSkips(w) \/ FindTemplate(w) \/ FindChannel(w) \/ SendFails(w)
           \/ LookupFails(w) \/ MarkFailedFails(w)
  <2>1. PICK from \in WorkerPc \ {"idle", "sent"}, to \in WorkerPc \ {"idle", "sent"} :
          /\ Move(w, from, to)
          /\ to \in {"template", "channel", "send"} =>
               from \in {"template", "channel", "send"}
    BY <1>2 DEF LoadSkips, FindTemplate, FindChannel, SendFails, LookupFails,
       MarkFailedFails, Refusals, WorkerPc, Step
  <2>2. UNCHANGED <<row, sends, excuses>>
    BY <1>2 DEF LoadSkips, FindTemplate, FindChannel, SendFails, LookupFails,
       MarkFailedFails, sendVars
  <2>3. wpc[w] = from /\ wpc' = [wpc EXCEPT ![w] = to] /\ wjob' = wjob
    BY <2>1 DEF Step, Move
  <2>4. OncePerRow' /\ UnsentIsUnsent' /\ SentIsSent'
    BY <2>1, <2>2, <2>3 DEF SendInv, OncePerRow, UnsentIsUnsent, SentIsSent, TypeOK
  <2> QED
    BY <2>1, <2>2, <2>4, SendInvStep DEF Step, TypeOK
<1>3. CASE LoadPasses(w)
  <2>1. /\ Step(w, "load", "template") /\ row[i].status = "pending"
        /\ UNCHANGED <<row, sends, excuses>>
    BY <1>3 DEF LoadPasses, Skips, sendVars
  <2>2. wpc[w] = "load" /\ wpc' = [wpc EXCEPT ![w] = "template"] /\ wjob' = wjob
    BY <2>1 DEF Step, Move
  <2>3. sends[i] <= excuses[i]
    BY <1>0, <1>a, <2>1, <2>2 DEF SendInv, UnsentIsUnsent
  <2>4. OncePerRow' /\ UnsentIsUnsent' /\ SentIsSent'
    BY <2>1, <2>2, <2>3 DEF SendInv, OncePerRow, UnsentIsUnsent, SentIsSent, TypeOK
  <2> QED
    BY <2>1, <2>4, SendInvStep DEF Step, TypeOK
<1>4. CASE Send(w)
  <2>1. /\ Step(w, "send", "sent")
        /\ sends' = [sends EXCEPT ![i] = @ + 1]
        /\ UNCHANGED <<row, excuses>>
    BY <1>4 DEF Send, Deliver
  <2>2. wpc[w] = "send" /\ wpc' = [wpc EXCEPT ![w] = "sent"] /\ wjob' = wjob
    BY <2>1 DEF Step, Move
  <2>3. i \in Ids /\ sends[i] <= excuses[i]
    BY <1>0, <2>2 DEF SendInv, UnsentIsUnsent
  <2>4. /\ sends'[i] = sends[i] + 1 /\ \A k \in Ids : k # i => sends'[k] = sends[k]
        /\ sends' \in [Ids -> Nat]
    BY <2>1, <2>3, Increment DEF TypeOK
  <2>5. OncePerRow'
    BY <2>1, <2>3, <2>4 DEF SendInv, OncePerRow, TypeOK
  <2>6. \A v \in Workers : /\ wpc'[v] = IF v = w THEN "sent" ELSE wpc[v]
                          /\ v # w /\ wpc[v] # "idle" =>
                               wjob[v] \in Ids /\ sends'[wjob[v]] = sends[wjob[v]]
    BY <1>a, <2>2, <2>4 DEF SendInv, WorkersHoldJobs, TypeOK
  <2>7. UnsentIsUnsent'
    BY <2>1, <2>2, <2>4, <2>6 DEF SendInv, UnsentIsUnsent, TypeOK
  <2>8. SentIsSent'
    <3>1. sends'[i] > excuses[i]
      <4>1. excuses[i] <= sends[i] /\ sends[i] \in Nat /\ excuses[i] \in Nat
        BY <2>3 DEF SendInv, SentIsSent, TypeOK
      <4> QED
        BY <2>4, <4>1
    <3> QED
      BY <2>1, <2>2, <2>3, <2>4, <2>6, <3>1 DEF SendInv, SentIsSent, TypeOK
  <2> QED
    BY <1>0, <2>1, <2>2, <2>4, <2>5, <2>7, <2>8, SendInvStep DEF Step, TypeOK
<1>5. CASE SendAnswerLost(w)
  <2>1. /\ Step(w, "send", "exception")
        /\ sends' = [sends EXCEPT ![i] = @ + 1]
        /\ excuses' = [excuses EXCEPT ![i] = @ + 1]
        /\ UNCHANGED row
    BY <1>5 DEF SendAnswerLost, Deliver, Excuse
  <2>2. wpc[w] = "send" /\ wpc' = [wpc EXCEPT ![w] = "exception"] /\ wjob' = wjob
    BY <2>1 DEF Step, Move
  <2>3. i \in Ids /\ sends[i] <= excuses[i]
    BY <1>0, <2>2 DEF SendInv, UnsentIsUnsent
  <2>4. /\ sends'[i] = sends[i] + 1 /\ excuses'[i] = excuses[i] + 1
        /\ \A k \in Ids : k # i => sends'[k] = sends[k] /\ excuses'[k] = excuses[k]
        /\ sends' \in [Ids -> Nat] /\ excuses' \in [Ids -> Nat]
    BY <2>1, <2>3, Increment DEF TypeOK
  <2>5. OncePerRow'
    BY <2>3, <2>4 DEF SendInv, OncePerRow, TypeOK
  <2>6. UnsentIsUnsent' /\ SentIsSent'
    BY <1>0, <1>a, <2>1, <2>2, <2>3, <2>4
       DEF SendInv, UnsentIsUnsent, SentIsSent, WorkersHoldJobs, TypeOK
  <2> QED
    BY <1>0, <2>1, <2>2, <2>4, <2>5, <2>6, SendInvStep DEF Step, TypeOK
<1>6. CASE MarkSent(w)
  <2>1. /\ Step(w, "sent", "finish") /\ UNCHANGED <<sends, excuses>>
        /\ row' = [row EXCEPT ![i] = [status |-> "sent", error |-> row[i].error,
                                      linked |-> row[i].linked]]
    BY <1>6 DEF MarkSent, SetStatus, sendVars
  <2>2. wpc[w] = "sent" /\ wpc' = [wpc EXCEPT ![w] = "finish"] /\ wjob' = wjob
    BY <2>1 DEF Step, Move
  <2>3. row'[i].status = "sent" /\ \A k \in Ids : k # i => row'[k] = row[k]
    BY <1>0, <2>1, <2>2 DEF TypeOK
  <2>4. OncePerRow' /\ UnsentIsUnsent'
    BY <1>0, <2>1, <2>2, <2>3 DEF SendInv, OncePerRow, UnsentIsUnsent, TypeOK
  <2>5. SentIsSent'
    BY <1>0, <1>a, <2>1, <2>2, <2>3 DEF SendInv, SentIsSent, WorkersHoldJobs, TypeOK
  <2> QED
    BY <1>0, <2>1, <2>2, <2>3, <2>4, <2>5, SendInvStep DEF Step, TypeOK
<1>7. CASE MarkSentFails(w)
  <2>1. /\ Step(w, "sent", "exception") /\ UNCHANGED <<row, sends>>
        /\ excuses' = [excuses EXCEPT ![i] = @ + 1]
    BY <1>7 DEF MarkSentFails, Excuse
  <2>2. wpc[w] = "sent" /\ wpc' = [wpc EXCEPT ![w] = "exception"] /\ wjob' = wjob
    BY <2>1 DEF Step, Move
  <2>3. /\ i \in Ids /\ excuses'[i] = excuses[i] + 1
        /\ \A k \in Ids : k # i => excuses'[k] = excuses[k]
        /\ excuses' \in [Ids -> Nat]
    BY <1>0, <2>1, <2>2, Increment DEF TypeOK
  <2>4. OncePerRow'
    BY <2>1, <2>3 DEF SendInv, OncePerRow, TypeOK
  <2>5. sends[i] <= excuses'[i]
    BY <2>3 DEF SendInv, OncePerRow, TypeOK
  <2>6. UnsentIsUnsent' /\ SentIsSent'
    BY <1>0, <1>a, <2>1, <2>2, <2>3, <2>5
       DEF SendInv, UnsentIsUnsent, SentIsSent, WorkersHoldJobs, TypeOK
  <2> QED
    BY <2>1, <2>3, <2>4, <2>6, SendInvStep DEF Step, TypeOK
<1>8. CASE MarkFailed(w)
  <2>1. PICK e \in Refusals \union {"exception"} :
           Step(w, e, "finish") /\ SetStatus(w, "failed", e)
    BY <1>8 DEF MarkFailed
  <2>2. /\ wpc[w] = e /\ e \notin {"idle", "sent"}
        /\ wpc' = [wpc EXCEPT ![w] = "finish"] /\ wjob' = wjob
        /\ row' = [row EXCEPT ![i] = [status |-> "failed", error |-> e,
                                      linked |-> row[i].linked]]
    BY <2>1 DEF Step, Move, SetStatus, Refusals
  <2>3. /\ sends' = sends
        /\ excuses' = [excuses EXCEPT ![i] =
                         IF row[i].status = "sent" THEN @ + 1 ELSE @]
    BY <1>8 DEF MarkFailed
  <2>4. /\ i \in Ids /\ row'[i].status = "failed"
        /\ \A k \in Ids : k # i => row'[k] = row[k] /\ excuses'[k] = excuses[k]
        /\ \A k \in Ids : excuses'[k] >= excuses[k]
        /\ excuses' \in [Ids -> Nat]
    BY <1>0, <2>2, <2>3 DEF TypeOK
  <2>5. OncePerRow'
    BY <2>3, <2>4 DEF SendInv, OncePerRow, TypeOK
  <2>6. UnsentIsUnsent' /\ SentIsSent'
    BY <1>0, <1>a, <2>2, <2>3, <2>4
       DEF SendInv, UnsentIsUnsent, SentIsSent, WorkersHoldJobs, TypeOK
  <2> QED
    BY <1>0, <2>1, <2>2, <2>3, <2>4, <2>5, <2>6, SendInvStep DEF Step, TypeOK
<1>9. CASE Settle(w)
  <2>1. /\ wpc[w] = "finish" /\ wpc' = [wpc EXCEPT ![w] = "idle"]
        /\ wjob' = [wjob EXCEPT ![w] = NoId]
        /\ job' = [job EXCEPT ![i] = Outcome(w, i)]
        /\ UNCHANGED <<row, spc, sid, sends, excuses>>
    BY <1>9 DEF Settle, schedVars, sendVars
  <2>2. WorkersHoldJobs' /\ OneWorkerPerJob'
    BY <1>0, <1>a, <2>1 DEF SendInv, WorkersHoldJobs, OneWorkerPerJob, TypeOK
  <2>3. CallsHoldRows' /\ JobsHaveRows' /\ OncePerRow'
    BY <1>0, <2>1 DEF SendInv, CallsHoldRows, JobsHaveRows, OncePerRow, TypeOK
  <2>4. UnsentIsUnsent' /\ SentIsSent'
    BY <1>0, <2>1 DEF SendInv, UnsentIsUnsent, SentIsSent, TypeOK, PastCheck
  <2> QED
    BY <2>2, <2>3, <2>4 DEF SendInv
<1> QED
  BY <1>1, <1>2, <1>3, <1>4, <1>5, <1>6, <1>7, <1>8, <1>9 DEF WorkerStep

LEMMA SendInvCrash ==
  ASSUME TypeOK, SendInv, Crash
  PROVE  SendInv'
<1>1. /\ spc' = [p \in Schedulers |-> "idle"]
      /\ wpc' = [w \in Workers |-> "idle"]
      /\ UNCHANGED <<row, sends>>
      /\ excuses' = [i \in Ids |->
            IF i \in {wjob[w] : w \in {v \in Workers : wpc[v] = "sent"}}
              THEN excuses[i] + 1 ELSE excuses[i]]
  BY DEF Crash
<1>2. \A i \in Ids : job[i] = "none" => job'[i] = "none"
  BY DEF Crash, SendInv, WorkersHoldJobs
<1>3. \A i \in Ids : excuses'[i] >= excuses[i] /\ excuses'[i] \in Nat
  BY <1>1 DEF TypeOK
<1>4. OncePerRow'
  BY <1>1, <1>3 DEF SendInv, OncePerRow, TypeOK
<1>5. UnsentIsUnsent'
  <2> SUFFICES ASSUME NEW i \in Ids, row[i].status = "pending"
               PROVE  sends[i] <= excuses'[i]
    BY <1>1 DEF UnsentIsUnsent
  <2>1. CASE \E w \in Workers : wpc[w] = "sent" /\ wjob[w] = i
    BY <1>1, <2>1 DEF SendInv, OncePerRow, TypeOK
  <2>2. CASE ~\E w \in Workers : wpc[w] = "sent" /\ wjob[w] = i
    BY <1>3, <2>2 DEF SendInv, UnsentIsUnsent, TypeOK
  <2> QED
    BY <2>1, <2>2
<1>6. WorkersHoldJobs' /\ OneWorkerPerJob' /\ CallsHoldRows' /\ JobsHaveRows'
  BY <1>1, <1>2 DEF SendInv, WorkersHoldJobs, OneWorkerPerJob, CallsHoldRows, JobsHaveRows
<1>7. SentIsSent'
  BY <1>1 DEF SendInv, SentIsSent, TypeOK, PastCheck
<1> QED
  BY <1>4, <1>5, <1>6, <1>7 DEF SendInv

LEMMA SendInvNext == TypeOK /\ SendInv /\ [Next]_vars => SendInv'
<1> SUFFICES ASSUME TypeOK, SendInv, [Next]_vars
             PROVE  SendInv'
  OBVIOUS
<1>1. CASE UNCHANGED vars \/ (\E t \in Templates : EditTemplate(t)) \/ ChannelChanges
  BY <1>1, SendInvKept
     DEF vars, EditTemplate, ChannelChanges, schedVars, workerVars, queueVars,
         sendVars, invVars
<1>2. CASE \E p \in Schedulers : SchedulerStep(p)
  BY <1>2, SendInvScheduler
<1>3. CASE \E c \in Cancellers : CancellerStep(c)
  BY <1>3, SendInvCanceller
<1>4. CASE \E w \in Workers : WorkerStep(w)
  BY <1>4, SendInvWorker
<1>5. CASE Crash
  BY <1>5, SendInvCrash
<1> QED
  BY <1>1, <1>2, <1>3, <1>4, <1>5 DEF Next

Safe == TypeOK /\ SendInv

LEMMA Safety == Spec => []Safe
<1>1. Init => Safe
  BY InitType, InitSend DEF Safe
<1>2. Safe /\ [Next]_vars => Safe'
  BY TypeStep, SendInvNext DEF Safe, SendInv
<1> QED
  BY <1>1, <1>2, PTL DEF Spec

(* Every variable keeps to its type: in particular a job and a row only ever
   have the states BullMQ and the status column know. *)
THEOREM TypeCorrect == Spec => []TypeOK
  BY Safety, PTL DEF Safe

(* A row's message goes out once, plus once for each fault or late write that
   hid it: the run with faults checks it, for two attempts and two faults. *)
THEOREM RowsSentOnce == Spec => []OncePerRow
  BY Safety, PTL DEF Safe, SendInv

-----------------------------------------------------------------------------
(* The scheduler implements OnceDelivery *)

LEMMA InitMaps == Init => Delivery!Init
  BY DEF Init, Delivery!Init

(* The steps that send nothing and hide nothing are stuttering ones. *)
Silent == UNCHANGED <<sends, excuses>>

LEMMA LinkMaps ==
  ASSUME Safe, NEW p \in Schedulers, Link(p)
  PROVE  Delivery!Next \/ Silent
<1> DEFINE i == sid[p]
<1>1. i \in Ids
  BY DEF Safe, SendInv, CallsHoldRows, Link
<1>2. CASE Hides(i)
  <2>1. Delivery!Forget({i})
    BY <1>1, <1>2 DEF Delivery!Forget, Link, Hides, Safe, TypeOK
  <2> QED
    BY <1>1, <2>1 DEF Delivery!Next
<1>3. CASE ~Hides(i)
  BY <1>1, <1>3 DEF Link, Silent, Safe, TypeOK
<1> QED
  BY <1>2, <1>3

LEMMA WorkerMaps ==
  ASSUME Safe, NEW w \in Workers, WorkerStep(w)
  PROVE  Delivery!Next \/ Silent
<1> DEFINE i == wjob[w]
<1>0. wpc[w] # "idle" => i \in Ids
  BY DEF Safe, SendInv, WorkersHoldJobs
<1>1. CASE Send(w)
  <2>1. i \in Ids /\ sends[i] <= excuses[i]
    BY <1>0, <1>1 DEF Safe, SendInv, UnsentIsUnsent, Send, Step, Move
  <2>2. Delivery!Deliver(i)
    BY <1>1, <2>1 DEF Delivery!Deliver, Send, Deliver
  <2> QED
    BY <2>1, <2>2 DEF Delivery!Next
<1>2. CASE SendAnswerLost(w)
  <2>1. i \in Ids /\ sends[i] <= excuses[i]
    BY <1>0, <1>2 DEF Safe, SendInv, UnsentIsUnsent, SendAnswerLost, Step, Move
  <2>2. Delivery!DeliverUnheard(i)
    BY <1>2, <2>1 DEF Delivery!DeliverUnheard, SendAnswerLost, Deliver, Excuse
  <2> QED
    BY <2>1, <2>2 DEF Delivery!Next
<1>3. CASE MarkSentFails(w)
  <2>1. i \in Ids /\ sends[i] > excuses[i]
    BY <1>0, <1>3 DEF Safe, SendInv, SentIsSent, MarkSentFails, Step, Move
  <2>2. Delivery!Forget({i})
    BY <1>3, <2>1 DEF Delivery!Forget, MarkSentFails, Excuse, Safe, TypeOK
  <2> QED
    BY <2>1, <2>2 DEF Delivery!Next
<1>4. CASE MarkFailed(w)
  <2>1. i \in Ids
    BY <1>0, <1>4 DEF MarkFailed, Step, Move, Refusals
  <2>2. CASE row[i].status = "sent"
    <3>1. sends[i] > excuses[i]
      BY <2>1, <2>2 DEF Safe, SendInv, SentIsSent
    <3>2. Delivery!Forget({i})
      BY <1>4, <2>1, <2>2, <3>1 DEF Delivery!Forget, MarkFailed, Safe, TypeOK
    <3> QED
      BY <2>1, <3>2 DEF Delivery!Next
  <2>3. CASE row[i].status # "sent"
    BY <1>4, <2>1, <2>3 DEF MarkFailed, Silent, Safe, TypeOK
  <2> QED
    BY <2>2, <2>3
<1>5. CASE TakeJob(w) \/ LoadSkips(w) \/ LoadPasses(w) \/ FindTemplate(w)
           \/ FindChannel(w) \/ SendFails(w) \/ LookupFails(w) \/ MarkSent(w)
           \/ MarkFailedFails(w) \/ Settle(w)
  BY <1>5 DEF TakeJob, LoadSkips, LoadPasses, FindTemplate, FindChannel, SendFails,
     LookupFails, MarkSent, MarkFailedFails, Settle, sendVars, Silent
<1> QED
  BY <1>1, <1>2, <1>3, <1>4, <1>5 DEF WorkerStep

LEMMA CrashMaps ==
  ASSUME Safe, Crash
  PROVE  Delivery!Next
<1> DEFINE unmarked == {wjob[w] : w \in {v \in Workers : wpc[v] = "sent"}}
<1>1. unmarked \subseteq Ids /\ \A i \in unmarked : sends[i] > excuses[i]
  BY DEF Safe, SendInv, WorkersHoldJobs, SentIsSent
<1>2. Delivery!Forget(unmarked)
  BY <1>1 DEF Delivery!Forget, Crash
<1> QED
  BY <1>1, <1>2 DEF Delivery!Next

LEMMA NextMaps == Safe /\ [Next]_vars => [Delivery!Next]_(Delivery!vars)
<1> SUFFICES ASSUME Safe, [Next]_vars
             PROVE  Delivery!Next \/ Silent
  BY DEF Delivery!vars, Silent
<1>1. CASE UNCHANGED vars \/ (\E t \in Templates : EditTemplate(t)) \/ ChannelChanges
  BY <1>1 DEF vars, EditTemplate, ChannelChanges, sendVars, Silent
<1>2. ASSUME NEW p \in Schedulers, SchedulerStep(p) PROVE Delivery!Next \/ Silent
  BY <1>2, LinkMaps DEF SchedulerStep, Schedule, CheckLimit, Insert, AddJob,
     ScheduleFails, sendVars, Silent
<1>3. ASSUME NEW c \in Cancellers, CancellerStep(c) PROVE Delivery!Next \/ Silent
  BY <1>3 DEF CancellerStep, EventArrives, FindTemplates, FindPending, RemoveJob, SaveCancelled,
     CancelFails, sendVars, Silent
<1>4. ASSUME NEW w \in Workers, WorkerStep(w) PROVE Delivery!Next \/ Silent
  BY <1>4, WorkerMaps
<1>5. CASE Crash
  BY <1>5, CrashMaps
<1> QED
  BY <1>1, <1>2, <1>3, <1>4, <1>5 DEF Next

(* The scheduler implements the abstract specification: a message of a row goes
   out only while every earlier one is excused, and a message is excused only by
   a step that hides it after it was sent. *)
THEOREM ImplementsOnceDelivery == Spec => DeliversOnce
  BY Safety, InitMaps, NextMaps, PTL DEF Spec, DeliversOnce, Delivery!Spec

-----------------------------------------------------------------------------
(* Cancellation *)

(* What can disturb SilentInv: a row made pending, or a call or worker that
   comes to work on a row. *)
LEMMA SilentKept ==
  ASSUME SilentInv, UNCHANGED stopped,
         \A i \in stopped : row[i].status \notin {"none", "pending"}
                              => row'[i].status \notin {"none", "pending"},
         \A i \in stopped : InProgress(i)' => InProgress(i)
  PROVE  SilentInv'
  BY DEF SilentInv

LEMMA SilentScheduler ==
  ASSUME Safe, SilentInv, NEW p \in Schedulers, SchedulerStep(p)
  PROVE  SilentInv'
<1> USE DEF Safe, TypeOK, SchedulerPc, workerVars, queueVars, schedVars, noteVars
<1>1. CASE (\E t \in Targets : Schedule(p, t)) \/ CheckLimit(p) \/ AddJob(p)
           \/ ScheduleFails(p)
  <2>1. UNCHANGED <<row, stopped, wpc, wjob>>
    BY <1>1 DEF Schedule, CheckLimit, AddJob, ScheduleFails
  <2>2. \A q \in Schedulers :
           spc'[q] \in {"add", "link"} => spc[q] \in {"add", "link"} /\ sid'[q] = sid[q]
    BY <1>1 DEF Schedule, CheckLimit, AddJob, ScheduleFails
  <2>3. \A i : InProgress(i)' => InProgress(i)
    BY <2>1, <2>2 DEF InProgress
  <2> QED
    BY <2>1, <2>3, SilentKept
<1>2. CASE Insert(p)
  <2>1. PICK i \in Ids : /\ row[i].status = "none"
                         /\ row' = [row EXCEPT ![i] = NewRow]
                         /\ sid' = [sid EXCEPT ![p] = i]
    BY <1>2 DEF Insert
  <2>2. spc' = [spc EXCEPT ![p] = "add"] /\ UNCHANGED <<stopped, wpc, wjob>>
    BY <1>2 DEF Insert
  <2>3. i \notin stopped
    BY <2>1 DEF SilentInv
  <2>4. \A k \in stopped : row'[k] = row[k]
    BY <2>1, <2>3
  <2>5. \A k \in stopped : InProgress(k)' => InProgress(k)
    BY <2>1, <2>2, <2>3 DEF InProgress
  <2> QED
    BY <2>2, <2>4, <2>5, SilentKept
<1>3. CASE Link(p)
  <2>1. /\ spc[p] = "link" /\ spc' = [spc EXCEPT ![p] = "idle"]
        /\ sid' = [sid EXCEPT ![p] = NoId] /\ UNCHANGED <<stopped, wpc, wjob>>
    BY <1>3 DEF Link
  <2>2. sid[p] \notin stopped
    BY <2>1 DEF SilentInv, InProgress
  <2>3. \A k \in stopped : row'[k] = row[k]
    BY <1>3, <2>2 DEF Link
  <2>4. \A k \in stopped : InProgress(k)' => InProgress(k)
    BY <2>1 DEF InProgress
  <2> QED
    BY <2>1, <2>3, <2>4, SilentKept
<1> QED
  BY <1>1, <1>2, <1>3 DEF SchedulerStep

LEMMA SilentCanceller ==
  ASSUME Safe, SilentInv, NEW c \in Cancellers, CancellerStep(c)
  PROVE  SilentInv'
<1> USE DEF schedVars, workerVars, queueVars, noteVars
<1>1. UNCHANGED <<spc, sid, wpc, wjob>>
  BY DEF CancellerStep, EventArrives, FindTemplates, FindPending, RemoveJob, SaveCancelled,
     CancelFails
<1>2. \A i : InProgress(i)' <=> InProgress(i)
  BY <1>1 DEF InProgress
<1>3. CASE SaveCancelled(c)
  <2>1. \A i \in Ids : i \in batch[c].found => row'[i].status = "cancelled"
    BY <1>3 DEF SaveCancelled
  <2>2. \A i \in Ids : i \notin batch[c].found => row'[i] = row[i]
    BY <1>3 DEF SaveCancelled
  <2>3. /\ stopped' = stopped \union {i \in batch[c].found : ~InProgress(i)}
        /\ stopped' \subseteq Ids
    BY <1>3 DEF SaveCancelled, Safe, TypeOK, Batch
  <2> QED
    BY <1>2, <2>1, <2>2, <2>3 DEF SilentInv
<1>4. CASE ~SaveCancelled(c)
  <2>1. UNCHANGED <<row, stopped>>
    BY <1>4 DEF CancellerStep, EventArrives, FindTemplates, FindPending, RemoveJob, CancelFails
  <2> QED
    BY <1>2, <2>1, SilentKept
<1> QED
  BY <1>3, <1>4

LEMMA SilentWorker ==
  ASSUME Safe, SilentInv, NEW w \in Workers, WorkerStep(w)
  PROVE  SilentInv'
<1> USE DEF Safe, TypeOK, schedVars, noteVars
<1> DEFINE busy == {"template", "channel", "send"}
<1>1. UNCHANGED <<spc, sid, stopped>>
  BY DEF WorkerStep, TakeJob, LoadSkips, LoadPasses, FindTemplate, FindChannel, Send,
     SendFails, SendAnswerLost, LookupFails, MarkSent, MarkSentFails, MarkFailed,
     MarkFailedFails, Settle, Step, Move
<1>2. CASE TakeJob(w) \/ Settle(w)
  <2>1. UNCHANGED row /\ wpc'[w] \notin busy
        /\ \A v \in Workers \ {w} : wpc'[v] = wpc[v] /\ wjob'[v] = wjob[v]
    BY <1>2 DEF TakeJob, Settle
  <2>2. \A i \in stopped : InProgress(i)' => InProgress(i)
    BY <1>1, <2>1 DEF InProgress
  <2> QED
    BY <1>1, <2>1, <2>2, SilentKept
<1>3. CASE LoadPasses(w)
  <2>1. /\ row[wjob[w]].status = "pending" /\ UNCHANGED <<row, wjob>>
        /\ \A v \in Workers \ {w} : wpc'[v] = wpc[v]
    BY <1>3 DEF LoadPasses, Skips, Step, Move
  <2>2. wjob[w] \notin stopped
    BY <2>1 DEF SilentInv
  <2>3. \A i \in stopped : InProgress(i)' => InProgress(i)
    BY <1>1, <2>1, <2>2 DEF InProgress
  <2> QED
    BY <1>1, <2>1, <2>3, SilentKept
<1>4. CASE ~(TakeJob(w) \/ Settle(w) \/ LoadPasses(w))
  <2>1. /\ UNCHANGED wjob /\ \A v \in Workers \ {w} : wpc'[v] = wpc[v]
        /\ wpc'[w] \in busy => wpc[w] \in busy
    BY <1>4 DEF WorkerStep, LoadSkips, FindTemplate, FindChannel, Send, SendFails,
       SendAnswerLost, LookupFails, MarkSent, MarkSentFails, MarkFailed,
       MarkFailedFails, Step, Move, Refusals
  <2>2. \A i \in stopped : InProgress(i)' => InProgress(i)
    BY <1>1, <2>1 DEF InProgress
  <2>3. UNCHANGED row \/ \E s \in {"sent", "failed"}, e \in RowError : SetStatus(w, s, e)
    <3>1. CASE MarkSent(w)
      <4>1. row[wjob[w]].error \in RowError
        BY <3>1 DEF MarkSent, Step, Move, SendInv, WorkersHoldJobs, Row
      <4> QED
        BY <3>1, <4>1 DEF MarkSent
    <3>2. CASE MarkFailed(w)
      BY <3>2 DEF MarkFailed, Refusals, RowError
    <3>3. CASE ~(MarkSent(w) \/ MarkFailed(w))
      BY <1>4, <3>3 DEF WorkerStep, LoadSkips, FindTemplate, FindChannel, Send, SendFails,
         SendAnswerLost, LookupFails, MarkSentFails, MarkFailedFails
    <3> QED
      BY <3>1, <3>2, <3>3
  <2>4. \A i \in stopped : row[i].status \notin {"none", "pending"}
                            => row'[i].status \notin {"none", "pending"}
    BY <2>3 DEF SetStatus
  <2> QED
    BY <1>1, <2>2, <2>4, SilentKept
<1> QED
  BY <1>2, <1>3, <1>4

LEMMA SilentNext == Safe /\ SilentInv /\ [Next]_vars => SilentInv'
<1> SUFFICES ASSUME Safe, SilentInv, [Next]_vars
             PROVE  SilentInv'
  OBVIOUS
<1>1. CASE UNCHANGED vars \/ (\E t \in Templates : EditTemplate(t)) \/ ChannelChanges
  <2>1. UNCHANGED <<row, stopped, spc, sid, wpc, wjob>>
    BY <1>1 DEF vars, EditTemplate, ChannelChanges, schedVars, workerVars, noteVars
  <2> QED
    BY <2>1 DEF SilentInv, InProgress
<1>2. CASE (\E p \in Schedulers : SchedulerStep(p)) \/ (\E c \in Cancellers : CancellerStep(c))
           \/ \E w \in Workers : WorkerStep(w)
  BY <1>2, SilentScheduler, SilentCanceller, SilentWorker
<1>3. CASE Crash
  BY <1>3 DEF Crash, SilentInv, InProgress
<1> QED
  BY <1>1, <1>2, <1>3 DEF Next

LEMMA SilentStep ==
  Safe /\ SilentInv /\ [Next]_vars => \A i \in stopped : sends'[i] = sends[i]
<1> SUFFICES ASSUME Safe, SilentInv, [Next]_vars, NEW i \in stopped
             PROVE  sends'[i] = sends[i]
  OBVIOUS
<1>1. ASSUME NEW w \in Workers, Send(w) \/ SendAnswerLost(w) PROVE sends'[i] = sends[i]
  <2>1. wjob[w] # i
    BY <1>1 DEF SilentInv, InProgress, Send, SendAnswerLost, Step, Move
  <2> QED
    BY <1>1, <2>1 DEF Send, SendAnswerLost, Deliver, Safe, TypeOK
<1>2. ASSUME NEW w \in Workers, WorkerStep(w), ~(Send(w) \/ SendAnswerLost(w))
      PROVE  sends' = sends
  BY <1>2 DEF WorkerStep, TakeJob, LoadSkips, LoadPasses, FindTemplate, FindChannel,
     SendFails, LookupFails, MarkSent, MarkSentFails, MarkFailed, MarkFailedFails,
     Settle, sendVars
<1>3. ASSUME NEW p \in Schedulers, SchedulerStep(p) PROVE sends' = sends
  BY <1>3 DEF SchedulerStep, Schedule, CheckLimit, Insert, AddJob, Link,
     ScheduleFails, sendVars
<1>4. ASSUME NEW c \in Cancellers, CancellerStep(c) PROVE sends' = sends
  BY <1>4 DEF CancellerStep, EventArrives, FindTemplates, FindPending, RemoveJob, SaveCancelled,
     CancelFails, sendVars
<1>5. CASE UNCHANGED vars \/ (\E t \in Templates : EditTemplate(t)) \/ ChannelChanges \/ Crash
  BY <1>5 DEF vars, EditTemplate, ChannelChanges, Crash, sendVars
<1> QED
  BY <1>1, <1>2, <1>3, <1>4, <1>5 DEF Next

(* Once a cancellation has taken hold, nothing is sent for the row, whether or
   not its job could be removed. *)
THEOREM CancellationHolds == Spec => CancelledStaysSilent
<1>1. Init => SilentInv
  BY DEF Init, SilentInv
<1>2. Safe /\ SilentInv /\ [Next]_vars
        => SilentInv' /\ [\A i \in stopped : sends'[i] = sends[i]]_vars
  BY SilentNext, SilentStep
<1> QED
  BY <1>1, <1>2, Safety, PTL DEF Spec, CancelledStaysSilent
-----------------------------------------------------------------------------
(* One reminder per target *)

(* A step after which no other row counts, and no other call is past its check. *)
LEMMA ReminderKept ==
  ASSUME ReminderInv, SettledSilent', UNCHANGED target,
         \A i \in Ids : Exact(i)' => Exact(i),
         \A p \in Schedulers \ overtaken' : spc'[p] \in {"limit", "insert"} =>
            p \notin overtaken /\ spc[p] \in {"limit", "insert"} /\ asked'[p] = asked[p]
  PROVE  ReminderInv'
<1>1. OneExact'
  BY DEF ReminderInv, OneExact
<1>2. ChecksHold'
  BY DEF ReminderInv, ChecksHold
<1> QED
  BY <1>1, <1>2 DEF ReminderInv

(* A step that settles no row and brings no worker past its check. *)
LEMMA SettledKept ==
  ASSUME Safe, SettledSilent, repeatable \subseteq repeatable', sends' = sends,
         \A i \in Ids : excuses'[i] \in Nat /\ excuses[i] <= excuses'[i],
         \A i \in Ids : row'[i].status \in {"cancelled", "failed"} =>
                          row[i].status \in {"cancelled", "failed"},
         \A w \in Workers : wpc'[w] \in PastCheck =>
                              wpc[w] \in PastCheck /\ wjob'[w] = wjob[w]
  PROVE  SettledSilent'
<1> SUFFICES ASSUME NEW i \in Ids \ repeatable', row'[i].status \in {"cancelled", "failed"}
             PROVE  /\ sends'[i] <= excuses'[i]
                    /\ \A w \in Workers : wpc'[w] \in PastCheck => wjob'[w] # i
  BY DEF SettledSilent
<1>1. i \notin repeatable /\ row[i].status \in {"cancelled", "failed"}
  OBVIOUS
<1>2. sends[i] \in Nat /\ excuses[i] \in Nat /\ sends[i] <= excuses[i]
  BY <1>1 DEF Safe, TypeOK, SettledSilent
<1>3. \A w \in Workers : wpc[w] \in PastCheck => wjob[w] # i
  BY <1>1 DEF SettledSilent
<1> QED
  BY <1>2, <1>3

(* The call: unless it was overtaken, no row that counts is there when it inserts. *)
LEMMA ReminderScheduler ==
  ASSUME Safe, Safe', ReminderInv, NEW p \in Schedulers, SchedulerStep(p)
  PROVE  ReminderInv'
<1> USE DEF Safe, TypeOK, schedVars, cancelVars, workerVars, queueVars, sendVars, noteVars
<1>1. ASSUME NEW t \in Targets, Schedule(p, t) PROVE ReminderInv'
  <2>1. /\ spc[p] = "idle" /\ ~IsDuplicate(t)
        /\ asked' = [asked EXCEPT ![p] = t]
        /\ \A q \in Schedulers \ {p} : spc'[q] = spc[q]
        /\ overtaken' = overtaken \ {p}
        /\ UNCHANGED <<row, target, wpc, wjob, sends, excuses, repeatable>>
    BY <1>1 DEF Schedule
  <2>2. \A i \in Ids : Exact(i)' <=> Exact(i)
    BY <2>1 DEF Exact, Live
  <2>3. \A i \in Ids : Exact(i) => target[i] # t
    BY <2>1 DEF Exact, Live, IsDuplicate, SameCustomer
  <2>4. ChecksHold'
    <3> SUFFICES ASSUME NEW q \in Schedulers \ overtaken', spc'[q] \in {"limit", "insert"},
                        NEW i \in Ids, Exact(i)
                 PROVE  target[i] # asked'[q]
      BY <2>1, <2>2 DEF ChecksHold
    <3>1. CASE q = p
      BY <2>1, <2>3, <3>1
    <3>2. CASE q # p
      BY <2>1, <3>2 DEF ReminderInv, ChecksHold
    <3> QED
      BY <3>1, <3>2
  <2>5. OneExact' /\ SettledSilent'
    BY <2>1, <2>2 DEF ReminderInv, OneExact, SettledSilent
  <2> QED
    BY <2>4, <2>5 DEF ReminderInv
<1>2. CASE CheckLimit(p) \/ AddJob(p) \/ ScheduleFails(p)
  <2>1. /\ UNCHANGED <<row, target, asked, wpc, wjob, sends, excuses, repeatable, overtaken>>
        /\ \A q \in Schedulers : spc'[q] \in {"limit", "insert"}
                                   => spc[q] \in {"limit", "insert"}
    BY <1>2 DEF CheckLimit, AddJob, ScheduleFails
  <2>2. \A i \in Ids : Exact(i)' => Exact(i)
    BY <2>1 DEF Exact, Live
  <2>3. SettledSilent'
    BY <2>1 DEF ReminderInv, SettledSilent
  <2> QED
    BY <2>1, <2>2, <2>3, ReminderKept
<1>3. CASE Insert(p)
  <2>1. PICK i \in Ids :
          /\ row[i].status = "none" /\ row' = [row EXCEPT ![i] = NewRow]
          /\ target' = [target EXCEPT ![i] = asked[p]]
          /\ repeatable' = repeatable \union IF p \in overtaken THEN {i} ELSE {}
    BY <1>3 DEF Insert
  <2>2. /\ spc[p] = "insert" /\ spc'[p] = "add"
        /\ \A q \in Schedulers \ {p} : spc'[q] = spc[q]
        /\ overtaken' = (overtaken \ {p}) \union Rivals(p)
        /\ UNCHANGED <<asked, wpc, wjob, sends, excuses>>
    BY <1>3 DEF Insert
  <2>3. /\ row'[i].status = "pending" /\ target'[i] = asked[p]
        /\ \A j \in Ids \ {i} : row'[j] = row[j] /\ target'[j] = target[j]
    BY <2>1 DEF NewRow, NoRow
  <2>4. \A j \in Ids \ {i} : Exact(j)' <=> Exact(j)
    BY <2>1, <2>3 DEF Exact, Live
  <2>5. Exact(i)' => p \notin overtaken
    BY <2>1 DEF Exact
  <2>6. p \notin overtaken => \A j \in Ids : Exact(j) => target[j] # asked[p]
    BY <2>2 DEF ReminderInv, ChecksHold
  <2>7. OneExact'
    BY <2>3, <2>4, <2>5, <2>6 DEF ReminderInv, OneExact
  <2>8. ChecksHold'
    <3> SUFFICES ASSUME NEW q \in Schedulers \ overtaken', spc'[q] \in {"limit", "insert"},
                        NEW j \in Ids, Exact(j)'
                 PROVE  target'[j] # asked'[q]
      BY DEF ChecksHold
    <3>1. q # p /\ q \notin Rivals(p) /\ q \notin overtaken /\ spc[q] \in {"limit", "insert"}
      BY <2>2
    <3>2. asked[q] # asked[p]
      BY <3>1 DEF Rivals
    <3>3. CASE j = i
      BY <2>2, <2>3, <3>2, <3>3
    <3>4. CASE j # i
      BY <2>2, <2>3, <2>4, <3>1, <3>4 DEF ReminderInv, ChecksHold
    <3> QED
      BY <3>3, <3>4
  <2>9. SettledSilent'
    BY <2>1, <2>2, <2>3 DEF ReminderInv, SettledSilent
  <2> QED
    BY <2>7, <2>8, <2>9 DEF ReminderInv
<1>4. CASE Link(p)
  <2> DEFINE i == sid[p]
  <2>1. i \in Ids /\ row[i].status # "none"
    BY <1>4 DEF Link, SendInv, CallsHoldRows
  <2>2. /\ row' = [row EXCEPT ![i] = [status |-> "pending", linked |-> TRUE,
                                      error |-> row[i].error]]
        /\ excuses' = [excuses EXCEPT ![i] = IF Hides(i) THEN @ + 1 ELSE @]
        /\ repeatable' = repeatable \union IF row[i].status \in {"cancelled", "failed"}
                                           THEN {i} ELSE {}
        /\ spc' = [spc EXCEPT ![p] = "idle"]
        /\ UNCHANGED <<target, asked, wpc, wjob, sends, overtaken>>
    BY <1>4 DEF Link
  <2>3. row[i].status \in {"pending", "sent"} \/ i \in repeatable'
    BY <2>1, <2>2 DEF Row, RowStatus
  <2> HIDE DEF i
  <2>4. row'[i].status = "pending" /\ \A j \in Ids \ {i} : row'[j] = row[j]
    BY <2>1, <2>2
  <2>5. \A j \in Ids : Exact(j)' => Exact(j)
    BY <2>2, <2>3, <2>4 DEF Exact, Live
  <2>6. \A j \in Ids : excuses'[j] \in Nat /\ excuses[j] <= excuses'[j]
    BY <2>1, <2>2
  <2>7. \A j \in Ids : row'[j].status \in {"cancelled", "failed"} =>
                          row[j].status \in {"cancelled", "failed"}
    BY <2>4
  <2>8. SettledSilent'
    BY <2>2, <2>6, <2>7, SettledKept DEF ReminderInv
  <2> QED
    BY <2>2, <2>5, <2>8, ReminderKept
<1> QED
  BY <1>1, <1>2, <1>3, <1>4 DEF SchedulerStep

(* A cancellation that does not come late leaves a row with no message that is not
   excused and nobody about to send one. *)
LEMMA ReminderCanceller ==
  ASSUME Safe, Safe', ReminderInv, NEW c \in Cancellers, CancellerStep(c)
  PROVE  ReminderInv'
<1> USE DEF Safe, TypeOK, schedVars, workerVars, queueVars, sendVars, noteVars
<1>1. UNCHANGED <<target, spc, asked, wpc, wjob, sends, excuses, overtaken>>
  BY DEF CancellerStep, EventArrives, FindTemplates, FindPending, RemoveJob, SaveCancelled,
     CancelFails
<1>2. CASE ~SaveCancelled(c)
  <2>1. row' = row /\ repeatable' = repeatable
    BY <1>2 DEF CancellerStep, EventArrives, FindTemplates, FindPending, RemoveJob,
       CancelFails
  <2>2. \A i \in Ids : Exact(i)' => Exact(i)
    BY <2>1 DEF Exact, Live
  <2>3. SettledSilent'
    BY <1>1, <2>1 DEF ReminderInv, SettledSilent
  <2> QED
    BY <1>1, <2>2, <2>3, ReminderKept
<1>3. CASE SaveCancelled(c)
  <2> DEFINE found == batch[c].found
  <2>1. /\ \A i \in Ids : i \in found => row'[i].status = "cancelled"
        /\ \A i \in Ids : i \notin found => row'[i] = row[i]
        /\ repeatable' = repeatable \union {i \in found : ComesLate(i)}
    BY <1>3 DEF SaveCancelled
  <2>2. \A i \in Ids : Exact(i)' => Exact(i)
    BY <2>1 DEF Exact, Live
  <2>3. ASSUME NEW i \in Ids \ repeatable', i \in found
        PROVE  /\ sends[i] <= excuses[i]
               /\ \A w \in Workers : wpc[w] \in PastCheck => wjob[w] # i
    <3>1. i \notin repeatable /\ ~ComesLate(i)
      BY <2>1, <2>3
    <3>2. /\ row[i].status # "sent"
          /\ \A w \in Workers : wpc[w] \in PastCheck => wjob[w] # i
      BY <3>1 DEF ComesLate
    <3>3. sends[i] \in Nat /\ excuses[i] \in Nat
      OBVIOUS
    <3>4. CASE row[i].status = "none"
      BY <3>2, <3>3, <3>4 DEF SendInv, JobsHaveRows
    <3>5. CASE row[i].status = "pending"
      BY <3>2, <3>5 DEF SendInv, UnsentIsUnsent, PastCheck
    <3>6. CASE row[i].status \in {"cancelled", "failed"}
      BY <3>1, <3>6 DEF ReminderInv, SettledSilent
    <3> QED
      BY <3>2, <3>4, <3>5, <3>6 DEF Row, RowStatus
  <2>4. ASSUME NEW i \in Ids \ repeatable', i \notin found,
               row'[i].status \in {"cancelled", "failed"}
        PROVE  /\ sends[i] <= excuses[i]
               /\ \A w \in Workers : wpc[w] \in PastCheck => wjob[w] # i
    BY <2>1, <2>4 DEF ReminderInv, SettledSilent
  <2> HIDE DEF found
  <2>5. SettledSilent'
    BY <1>1, <2>3, <2>4 DEF SettledSilent
  <2> QED
    BY <1>1, <2>2, <2>5, ReminderKept
<1> QED
  BY <1>2, <1>3

(* No row comes to count by a worker's step, and a row it refuses has no message
   that is not excused. *)
LEMMA ReminderWorker ==
  ASSUME Safe, Safe', ReminderInv, NEW w \in Workers, WorkerStep(w)
  PROVE  ReminderInv'
<1> USE DEF Safe, schedVars, cancelVars, workerVars, queueVars, sendVars, noteVars
<1> DEFINE i == wjob[w]
<1>1. UNCHANGED <<target, spc, asked, overtaken, repeatable>>
  BY DEF WorkerStep, TakeJob, LoadSkips, LoadPasses, FindTemplate, FindChannel, Send,
     SendFails, SendAnswerLost, LookupFails, MarkSent, MarkSentFails, MarkFailed,
     MarkFailedFails, Settle, Step, Move
<1>2. /\ wpc[w] # "idle" => i \in Ids /\ row[i].status # "none"
      /\ \A v \in Workers \ {w} : wpc[v] # "idle" /\ wpc[w] # "idle" => wjob[v] # i
  BY DEF SendInv, WorkersHoldJobs, OneWorkerPerJob, JobsHaveRows
<1>3. \A v \in Workers \ {w} : wpc'[v] = wpc[v] /\ wjob'[v] = wjob[v]
  BY DEF WorkerStep, TakeJob, LoadSkips, LoadPasses, FindTemplate, FindChannel, Send,
     SendFails, SendAnswerLost, LookupFails, MarkSent, MarkSentFails, MarkFailed,
     MarkFailedFails, Settle, Step, Move, TypeOK
<1>4. \A j \in Ids \ repeatable : row[j].status \in {"cancelled", "failed"} =>
        /\ sends[j] <= excuses[j]
        /\ \A v \in Workers : wpc[v] \in PastCheck => wjob[v] # j
  BY DEF ReminderInv, SettledSilent
<1>5. ASSUME SettledSilent', \A j \in Ids : Exact(j)' => Exact(j)
      PROVE  ReminderInv'
  BY <1>1, <1>5, ReminderKept
<1>6. ASSUME row' = row, sends' = sends, excuses' = excuses, wpc'[w] \notin PastCheck
      PROVE  ReminderInv'
  <2>1. SettledSilent'
    BY <1>1, <1>3, <1>4, <1>6 DEF SettledSilent
  <2>2. \A j \in Ids : Exact(j)' => Exact(j)
    BY <1>1, <1>6 DEF Exact, Live
  <2> QED
    BY <1>5, <2>1, <2>2
<1>7. ASSUME row' = row, wjob' = wjob, i \in Ids,
             i \in repeatable \/ row[i].status \notin {"cancelled", "failed"},
             \A j \in Ids \ {i} : sends'[j] = sends[j] /\ excuses'[j] = excuses[j]
      PROVE  ReminderInv'
  <2>1. SettledSilent'
    <3> SUFFICES ASSUME NEW j \in Ids \ repeatable, row[j].status \in {"cancelled", "failed"}
                 PROVE  /\ sends'[j] <= excuses'[j]
                        /\ \A v \in Workers : wpc'[v] \in PastCheck => wjob[v] # j
      BY <1>1, <1>7 DEF SettledSilent
    <3>1. j # i
      BY <1>7
    <3>2. sends'[j] = sends[j] /\ excuses'[j] = excuses[j]
      BY <1>7, <3>1
    <3> QED
      BY <1>3, <1>4, <3>1, <3>2
  <2>2. \A j \in Ids : Exact(j)' => Exact(j)
    BY <1>1, <1>7 DEF Exact, Live
  <2> QED
    BY <1>5, <2>1, <2>2
<1>8. CASE \/ TakeJob(w) \/ Settle(w) \/ LoadSkips(w)
           \/ LookupFails(w) \/ MarkFailedFails(w)
  <2>1. row' = row /\ sends' = sends /\ excuses' = excuses /\ wpc'[w] \notin PastCheck
    BY <1>8 DEF TakeJob, Settle, LoadSkips, LookupFails, MarkFailedFails, Step, Move,
       TypeOK, PastCheck
  <2> QED
    BY <1>6, <2>1
<1>9. CASE LoadPasses(w)
  <2>1. /\ row' = row /\ sends' = sends /\ excuses' = excuses /\ wjob' = wjob
        /\ row[i].status = "pending" /\ wpc[w] # "idle"
    BY <1>9 DEF LoadPasses, Step, Move, Skips
  <2> QED
    BY <1>2, <1>7, <2>1
<1>10. CASE \/ FindTemplate(w) \/ FindChannel(w) \/ SendFails(w)
            \/ Send(w) \/ SendAnswerLost(w) \/ MarkSentFails(w)
  <2>1. row' = row /\ wjob' = wjob /\ wpc[w] \in PastCheck /\ wpc[w] # "idle"
    BY <1>10 DEF FindTemplate, FindChannel, SendFails, Send, SendAnswerLost, MarkSentFails,
       Step, Move, PastCheck
  <2>2. \A j \in Ids \ {i} : sends'[j] = sends[j] /\ excuses'[j] = excuses[j]
    BY <1>10 DEF FindTemplate, FindChannel, SendFails, Send, SendAnswerLost, MarkSentFails,
       Deliver, Excuse, TypeOK
  <2>3. i \in Ids /\ (i \in repeatable \/ row[i].status \notin {"cancelled", "failed"})
    BY <1>2, <1>4, <2>1
  <2> QED
    BY <1>7, <2>1, <2>2, <2>3
<1>11. CASE MarkSent(w)
  <2>1. /\ SetStatus(w, "sent", row[i].error) /\ wpc[w] \in PastCheck /\ wpc[w] # "idle"
        /\ wpc'[w] = "finish" /\ sends' = sends /\ excuses' = excuses /\ wjob' = wjob
    BY <1>11 DEF MarkSent, Step, Move, TypeOK, PastCheck
  <2>2. i \in Ids /\ row'[i].status = "sent" /\ \A j \in Ids \ {i} : row'[j] = row[j]
    BY <1>2, <2>1 DEF SetStatus, TypeOK
  <2>3. i \in repeatable \/ row[i].status \in {"pending", "sent"}
    <3>1. row[i].status \in RowStatus \ {"none"}
      BY <1>2, <2>1 DEF TypeOK, Row
    <3> QED
      BY <1>2, <1>4, <2>1, <3>1 DEF RowStatus
  <2> HIDE DEF i
  <2>4. \A j \in Ids : Exact(j)' => Exact(j)
    BY <1>1, <2>2, <2>3 DEF Exact, Live
  <2>5. SettledSilent'
    <3> SUFFICES ASSUME NEW j \in Ids \ repeatable, row'[j].status \in {"cancelled", "failed"}
                 PROVE  /\ sends[j] <= excuses[j]
                        /\ \A v \in Workers : wpc'[v] \in PastCheck => wjob[v] # j
      BY <1>1, <2>1 DEF SettledSilent
    <3>1. j # i /\ row'[j] = row[j]
      BY <2>2
    <3> QED
      BY <1>3, <1>4, <2>1, <3>1 DEF PastCheck
  <2> QED
    BY <1>5, <2>4, <2>5
<1>12. CASE MarkFailed(w)
  <2>1. PICK e \in Refusals \union {"exception"} :
          Step(w, e, "finish") /\ SetStatus(w, "failed", e)
    BY <1>12 DEF MarkFailed
  <2>2. /\ sends' = sends /\ wjob' = wjob
        /\ excuses' = [excuses EXCEPT ![i] = IF row[i].status = "sent" THEN @ + 1 ELSE @]
    BY <1>12, <2>1 DEF MarkFailed, Step, Move
  <2>3. wpc[w] = e /\ e \notin {"idle", "sent"} /\ wpc'[w] = "finish" /\ i \in Ids
    BY <1>2, <2>1 DEF Step, Move, Refusals, TypeOK
  <2>4. sends[i] \in Nat /\ excuses[i] \in Nat /\ sends[i] <= 1 + excuses[i]
    BY <2>3 DEF TypeOK, SendInv, OncePerRow
  <2>5. row[i].status = "pending" => sends[i] <= excuses[i]
    <3>1. \A v \in Workers : wpc[v] = "sent" => wjob[v] # i
      BY <1>2, <2>3
    <3> QED
      BY <2>3, <3>1 DEF SendInv, UnsentIsUnsent
  <2>6. row[i].status \in {"pending", "sent", "cancelled", "failed"}
    BY <1>2, <2>3 DEF TypeOK, Row, RowStatus
  <2>7. i \in repeatable \/ sends'[i] <= excuses'[i]
    BY <1>4, <2>2, <2>3, <2>4, <2>5, <2>6 DEF TypeOK
  <2>8. \A j \in Ids \ {i} : excuses'[j] = excuses[j]
    BY <2>2 DEF TypeOK
  <2>9. row'[i].status = "failed" /\ \A j \in Ids \ {i} : row'[j] = row[j]
    BY <2>1, <2>3 DEF SetStatus, TypeOK
  <2>10. \A v \in Workers : wpc'[v] \in PastCheck =>
            v # w /\ wpc[v] \in PastCheck /\ wjob[v] # i
    BY <1>2, <1>3, <2>3 DEF PastCheck
  <2> HIDE DEF i
  <2>11. \A j \in Ids : Exact(j)' => Exact(j)
    BY <1>1, <2>9 DEF Exact, Live
  <2>12. SettledSilent'
    <3> SUFFICES ASSUME NEW j \in Ids \ repeatable, row'[j].status \in {"cancelled", "failed"}
                 PROVE  /\ sends'[j] <= excuses'[j]
                        /\ \A v \in Workers : wpc'[v] \in PastCheck => wjob[v] # j
      BY <1>1, <2>2 DEF SettledSilent
    <3>1. CASE j = i
      BY <2>7, <2>10, <3>1
    <3>2. CASE j # i
      BY <1>4, <2>2, <2>8, <2>9, <2>10, <3>2
    <3> QED
      BY <3>1, <3>2
  <2> QED
    BY <1>5, <2>11, <2>12
<1> QED
  BY <1>8, <1>9, <1>10, <1>11, <1>12 DEF WorkerStep

LEMMA ReminderOthers ==
  ASSUME Safe, Safe', ReminderInv,
         \/ UNCHANGED vars \/ ChannelChanges \/ Crash
         \/ \E t \in Templates : EditTemplate(t)
  PROVE  ReminderInv'
<1> USE DEF schedVars, cancelVars, workerVars, queueVars, sendVars, noteVars
<1>1. UNCHANGED <<row, target, asked, sends, overtaken, repeatable>>
  BY DEF vars, ChannelChanges, EditTemplate, Crash
<1>2. /\ \A p \in Schedulers : spc'[p] \in {"limit", "insert"} => spc'[p] = spc[p]
      /\ \A w \in Workers : wpc'[w] \in PastCheck => wpc'[w] = wpc[w] /\ wjob'[w] = wjob[w]
  BY DEF vars, ChannelChanges, EditTemplate, Crash, PastCheck
<1>3. \A i \in Ids : excuses'[i] \in Nat /\ excuses[i] <= excuses'[i]
  BY DEF vars, ChannelChanges, EditTemplate, Crash, Safe, TypeOK
<1>4. SettledSilent'
  BY <1>1, <1>2, <1>3, SettledKept DEF ReminderInv
<1>5. \A i \in Ids : Exact(i)' => Exact(i)
  BY <1>1 DEF Exact, Live
<1> QED
  BY <1>1, <1>2, <1>4, <1>5, ReminderKept

(* Of the rows that count one at most has a message that is not excused. *)
LEMMA ReminderTotal ==
  ASSUME Safe, ReminderInv
  PROVE  OneReminder
<1> SUFFICES ASSUME NEW t \in Targets
             PROVE  Total(Counted(t)) <= 1 + ExcusesOf(Counted(t))
  BY DEF OneReminder
<1> DEFINE S == Counted(t)
<1>1. S \in SUBSET Ids /\ IsFiniteSet(S)
  BY SchedulerAssumption, FS_Subset DEF SchedulerAssumption, Counted, SameTarget
<1>2. \A i \in S : sends[i] \in Nat /\ excuses[i] \in Nat
  BY <1>1 DEF Safe, TypeOK
<1>3. \A i \in S : sends[i] <= 1 + excuses[i]
  BY <1>1 DEF Safe, SendInv, OncePerRow
<1>4. \A i \in S : /\ target[i] = t /\ i \notin repeatable
                   /\ row[i].status \in RowStatus \ {"none"}
  BY <1>1 DEF Safe, TypeOK, Row, Counted, SameTarget
<1>5. \A i \in S : ~Exact(i) => sends[i] <= excuses[i]
  <2>1. ASSUME NEW i \in S, ~Exact(i) PROVE row[i].status \in {"cancelled", "failed"}
    BY <1>4, <2>1 DEF Exact, Live, RowStatus
  <2> QED
    BY <1>1, <1>4, <2>1 DEF ReminderInv, SettledSilent
<1>6. \A i, j \in S : Exact(i) /\ Exact(j) => i = j
  BY <1>1, <1>4 DEF ReminderInv, OneExact
<1> HIDE DEF S
<1>7. PICK c : \A i \in S : Exact(i) => i = c
  <2>1. CASE \E i \in S : Exact(i)
    BY <1>6, <2>1
  <2> QED
    BY <2>1
<1>8. \A i \in S : sends[i] <= excuses[i] + (IF i = c THEN 1 ELSE 0)
  BY <1>2, <1>3, <1>5, <1>7
<1>9. Total(S) = SumOver(sends, S) /\ ExcusesOf(S) = SumOver(excuses, S)
  BY DEF Total, ExcusesOf, SumOver, MapThenSumSet, MapThenFoldSet
<1>10. SumOver(sends, S) <= SumOver(excuses, S) + (IF c \in S THEN 1 ELSE 0)
  <2>1. 1 \in Int
    OBVIOUS
  <2> QED
    BY <1>1, <1>2, <1>8, <2>1, SumDiffers
<1>11. SumOver(sends, S) \in Nat /\ SumOver(excuses, S) \in Nat
  BY <1>1, <1>2, SumType
<1> QED
  BY <1>9, <1>10, <1>11 DEF S

(* A target's rows, but those the code repeats, give one message and the excused
   ones between them, whatever fails, however often it is asked and however the
   calls, the cancellations and the workers overlap. *)
THEOREM RemindedOnce == Spec => []OneReminder
<1>1. ASSUME Init PROVE ReminderInv
  BY <1>1 DEF Init, ReminderInv, OneExact, ChecksHold, SettledSilent, Exact, Live, NoRow
<1>2. Safe /\ Safe' /\ ReminderInv /\ [Next]_vars => ReminderInv'
  BY ReminderScheduler, ReminderCanceller, ReminderWorker, ReminderOthers DEF Next
<1>3. Safe /\ ReminderInv => OneReminder
  BY ReminderTotal
<1> QED
  BY <1>1, <1>2, <1>3, Safety, PTL DEF Spec

-----------------------------------------------------------------------------
(* Pending rows have jobs *)

LEMMA PendingScheduler ==
  ASSUME Safe, PendingInv, NEW p \in Schedulers, SchedulerStep(p)
  PROVE  PendingInv'
<1> USE DEF Safe, TypeOK, schedVars, cancelVars, workerVars, queueVars, sendVars, noteVars
<1>1. /\ UNCHANGED <<failures, cpc, batch, wpc, wjob, threw>>
      /\ \A q \in Schedulers \ {p} : spc'[q] = spc[q] /\ sid'[q] = sid[q]
  BY DEF SchedulerStep, Schedule, CheckLimit, Insert, AddJob, Link, ScheduleFails
<1>2. ListenersFind' /\ \A c \in Cancellers : Unsaved(c)' = Unsaved(c)
  BY <1>1 DEF PendingInv, ListenersFind, Unsaved
<1>3. orphaned \subseteq orphaned'
  BY DEF SchedulerStep, Schedule, CheckLimit, Insert, AddJob, Link, ScheduleFails
<1>4. \A w \in Workers : wpc[w] # "idle" => wjob[w] \in Ids /\ row[wjob[w]].status # "none"
  BY DEF SendInv, WorkersHoldJobs, JobsHaveRows
<1>5. ASSUME NEW i \in Ids, \A j \in Ids \ {i} : row'[j] = row[j] /\ job'[j] = job[j],
             row'[i].status = "pending" => \/ row[i].status \in {"none", "pending"}
                                           \/ i \in orphaned',
             row'[i].status = "pending" => \/ i \in orphaned'
                                           \/ spc'[p] = "add" /\ sid'[p] = i
                                           \/ job'[i] \in {"queued", "active"}
                                           \/ row[i].status = "pending" /\ job'[i] = job[i],
             spc[p] = "add" => sid[p] = i,
             spc[p] # "add" \/ i \in orphaned' \/ job'[i] = "queued"
      PROVE  PendingInv'
  <2>1. AttemptsGoOn'
    <3> SUFFICES ASSUME NEW w \in Workers, wpc[w] = "finish",
                        row'[wjob[w]].status = "pending", wjob[w] \notin orphaned'
                 PROVE  threw[w] /\ ~IsLastAttempt(wjob[w])
      BY <1>1 DEF AttemptsGoOn, IsLastAttempt
    <3>1. wjob[w] \in Ids /\ row[wjob[w]].status # "none" /\ wjob[w] \notin orphaned
      BY <1>3, <1>4
    <3>2. row[wjob[w]].status = "pending"
      BY <1>5, <3>1
    <3> QED
      BY <3>1, <3>2 DEF PendingInv, AttemptsGoOn
  <2>2. PendingHasJob'
    <3> SUFFICES ASSUME NEW j \in Ids \ orphaned', row'[j].status = "pending"
                 PROVE  \/ job'[j] \in {"queued", "active"}
                        \/ \E q \in Schedulers : spc'[q] = "add" /\ sid'[q] = j
                        \/ \E c \in Cancellers : j \in Unsaved(c)
      BY <1>2 DEF PendingHasJob
    <3>1. j \notin orphaned
      BY <1>3
    <3>2. row[j].status = "pending" =>
            \/ job[j] \in {"queued", "active"}
            \/ \E q \in Schedulers : spc[q] = "add" /\ sid[q] = j
            \/ \E c \in Cancellers : j \in Unsaved(c)
      BY <3>1 DEF PendingInv, PendingHasJob
    <3>3. \A q \in Schedulers \ {p} : spc[q] = "add" => spc'[q] = "add" /\ sid'[q] = sid[q]
      BY <1>1
    <3>4. CASE j = i
      BY <1>5, <3>2, <3>3, <3>4
    <3>5. CASE j # i
      BY <1>5, <3>2, <3>3, <3>5
    <3> QED
      BY <3>4, <3>5
  <2> QED
    BY <1>2, <2>1, <2>2 DEF PendingInv
<1>6. CASE \/ (\E t \in Targets : Schedule(p, t)) \/ CheckLimit(p)
           \/ spc[p] # "add" /\ ScheduleFails(p)
  <2>1. row' = row /\ job' = job /\ spc[p] # "add" /\ orphaned' = orphaned
    BY <1>6 DEF Schedule, CheckLimit, ScheduleFails
  <2>2. \A q \in Schedulers : spc[q] = "add" => spc'[q] = "add" /\ sid'[q] = sid[q]
    BY <1>1, <2>1
  <2>3. PendingHasJob'
    BY <1>2, <2>1, <2>2 DEF PendingInv, PendingHasJob
  <2>4. AttemptsGoOn'
    BY <1>1, <2>1 DEF PendingInv, AttemptsGoOn, IsLastAttempt
  <2> QED
    BY <1>2, <2>3, <2>4 DEF PendingInv
<1>7. CASE Insert(p)
  <2>1. PICK i \in Ids : /\ row[i].status = "none" /\ row' = [row EXCEPT ![i] = NewRow]
                         /\ sid' = [sid EXCEPT ![p] = i]
    BY <1>7 DEF Insert
  <2>2. spc[p] = "insert" /\ spc'[p] = "add" /\ sid'[p] = i /\ job' = job
    BY <1>7, <2>1 DEF Insert
  <2>3. \A j \in Ids \ {i} : row'[j] = row[j] /\ job'[j] = job[j]
    BY <2>1, <2>2
  <2> QED
    BY <1>5, <2>1, <2>2, <2>3
<1>8. CASE AddJob(p)
  <2> DEFINE i == sid[p]
  <2>1. /\ spc[p] = "add" /\ row' = row /\ job' = [job EXCEPT ![i] = "queued"]
        /\ i \in Ids
    BY <1>8 DEF AddJob, SendInv, CallsHoldRows
  <2>2. job'[i] = "queued" /\ \A j \in Ids \ {i} : row'[j] = row[j] /\ job'[j] = job[j]
    BY <2>1
  <2> QED
    BY <1>5, <2>1, <2>2
<1>9. CASE Link(p)
  <2> DEFINE i == sid[p]
  <2>1. /\ spc[p] = "link" /\ job' = job /\ i \in Ids
        /\ row' = [row EXCEPT ![i] = [status |-> "pending", linked |-> TRUE,
                                      error |-> row[i].error]]
        /\ orphaned' = orphaned \union IF row[i].status # "pending" THEN {i} ELSE {}
    BY <1>9 DEF Link, SendInv, CallsHoldRows
  <2>2. row[i].status = "pending" \/ i \in orphaned'
    BY <2>1
  <2> HIDE DEF i
  <2>3. \A j \in Ids \ {i} : row'[j] = row[j] /\ job'[j] = job[j]
    BY <2>1
  <2> QED
    BY <1>5, <2>1, <2>2, <2>3
<1>10. CASE spc[p] = "add" /\ ScheduleFails(p)
  <2> DEFINE i == sid[p]
  <2>1. row' = row /\ job' = job /\ i \in Ids /\ i \in orphaned'
    BY <1>10 DEF ScheduleFails, SendInv, CallsHoldRows
  <2> QED
    BY <1>5, <1>10, <2>1
<1> QED
  BY <1>6, <1>7, <1>8, <1>9, <1>10 DEF SchedulerStep

LEMMA PendingCanceller ==
  ASSUME Safe, PendingInv, NEW c \in Cancellers, CancellerStep(c)
  PROVE  PendingInv'
<1> USE DEF Safe, TypeOK, schedVars, cancelVars, workerVars, queueVars, sendVars, noteVars
<1>1. /\ UNCHANGED <<spc, sid, wpc, wjob, threw, failures>> /\ orphaned \subseteq orphaned'
      /\ \A d \in Cancellers \ {c} : cpc'[d] = cpc[d] /\ batch'[d] = batch[d]
  BY DEF CancellerStep, EventArrives, FindTemplates, FindPending, RemoveJob, SaveCancelled,
     CancelFails, EndQuery
<1>2. \A d \in Cancellers \ {c} : Unsaved(d)' = Unsaved(d)
  BY <1>1 DEF Unsaved
<1>3. ASSUME \A i \in Ids : row'[i].status = "pending" => row[i].status = "pending"
      PROVE  AttemptsGoOn'
  <2>1. \A w \in Workers : wpc[w] = "finish" => wjob[w] \in Ids
    BY DEF SendInv, WorkersHoldJobs
  <2> QED
    BY <1>1, <1>3, <2>1 DEF PendingInv, AttemptsGoOn, IsLastAttempt
<1>4. ASSUME \A i \in Ids : row'[i].status = "pending" => row[i].status = "pending",
             \A i \in Ids : job'[i] = job[i] \/ i \in Unsaved(c)',
             \A i \in Unsaved(c) \ Unsaved(c)' : \/ i \in orphaned'
                                                 \/ row'[i].status # "pending"
      PROVE  PendingHasJob'
  <2> SUFFICES ASSUME NEW i \in Ids \ orphaned', row'[i].status = "pending"
               PROVE  \/ job'[i] \in {"queued", "active"}
                      \/ \E p \in Schedulers : spc[p] = "add" /\ sid[p] = i
                      \/ \E d \in Cancellers : i \in Unsaved(d)'
    BY <1>1 DEF PendingHasJob
  <2>1. \/ job[i] \in {"queued", "active"}
        \/ \E p \in Schedulers : spc[p] = "add" /\ sid[p] = i
        \/ \E d \in Cancellers : i \in Unsaved(d)
    BY <1>1, <1>4 DEF PendingInv, PendingHasJob
  <2>2. \A d \in Cancellers : i \in Unsaved(d) => i \in Unsaved(d)'
    BY <1>2, <1>4
  <2> QED
    BY <1>4, <2>1, <2>2
<1>5. ASSUME batch'[c].todo \subseteq batch'[c].links,
             batch'[c].links \subseteq batch'[c].found
      PROVE  ListenersFind'
  BY <1>1, <1>5 DEF PendingInv, ListenersFind
<1>6. ASSUME NEW b, batch' = [batch EXCEPT ![c] = b],
             b.todo = b.links, b.links \subseteq b.found,
             row' = row, job' = job, cpc[c] # "remove"
      PROVE  PendingInv'
  <2>1. batch'[c] = b /\ Unsaved(c) = {}
    BY <1>6 DEF Unsaved
  <2> QED
    BY <1>3, <1>4, <1>5, <1>6, <2>1 DEF PendingInv
<1>7. ASSUME NEW e, NEW d, NEW b, b = NewBatch(e, d)
      PROVE  b.todo = {} /\ b.links = {} /\ b.found = {}
  BY <1>7 DEF NewBatch
<1>8. ASSUME NEW e \in Events, EventArrives(c, e) PROVE PendingInv'
  <2> DEFINE b == NewBatch(e, ~HasOwnQuery(e))
  <2>1. b.todo = {} /\ b.links = {} /\ b.found = {}
    BY <1>7
  <2>2. /\ batch' = [batch EXCEPT ![c] = b] /\ row' = row /\ job' = job
        /\ cpc[c] # "remove"
    BY <1>8 DEF EventArrives
  <2> HIDE DEF b
  <2> QED
    BY <1>6, <2>1, <2>2
<1>9. CASE FindTemplates(c)
  <2> DEFINE among == {t \in CancelOn[batch[c].event.kind] : template[t] # "deleted"}
  <2>1. /\ batch' = [batch EXCEPT ![c].among = among] /\ row' = row /\ job' = job
        /\ cpc[c] = "templates"
        /\ cpc' = [cpc EXCEPT ![c] = IF among = {} THEN "idle" ELSE "find"]
    BY <1>9 DEF FindTemplates
  <2> HIDE DEF among
  <2>2. /\ batch'[c].todo = batch[c].todo /\ batch'[c].links = batch[c].links
        /\ batch'[c].found = batch[c].found
    BY <2>1 DEF Batch
  <2>3. Unsaved(c) = {}
    BY <2>1 DEF Unsaved
  <2>4. ListenersFind'
    BY <1>5, <2>2 DEF PendingInv, ListenersFind
  <2> QED
    BY <1>3, <1>4, <2>1, <2>3, <2>4 DEF PendingInv
<1>10. CASE FindPending(c)
  <2> DEFINE found == IF batch[c].dynamic THEN DynamicQuery(batch[c].event, batch[c].among)
                                          ELSE OwnQuery(batch[c].event)
             links == {i \in found : row[i].linked}
  <2>1. /\ cpc[c] = "find" /\ row' = row /\ job' = job
        /\ IF found = {}
             THEN EndQuery(c)
             ELSE batch' = [batch EXCEPT ![c].found = found, ![c].links = links,
                                         ![c].todo = links]
    BY <1>10 DEF FindPending
  <2>2. CASE found = {}
    <3> DEFINE b == NewBatch(batch[c].event, TRUE)
    <3>1. b.todo = {} /\ b.links = {} /\ b.found = {}
      BY <1>7
    <3>2. batch' = [batch EXCEPT ![c] = b]
      BY <2>1, <2>2 DEF EndQuery
    <3> HIDE DEF b
    <3> QED
      BY <1>6, <2>1, <3>1, <3>2
  <2>3. CASE found # {}
    <3> DEFINE b == [batch[c] EXCEPT !.found = found, !.links = links, !.todo = links]
    <3>1. b.todo = links /\ b.links = links /\ b.found = found /\ links \subseteq found
      BY DEF Batch
    <3>2. batch' = [batch EXCEPT ![c] = b]
      BY <2>1, <2>3
    <3> HIDE DEF b, links, found
    <3> QED
      BY <1>6, <2>1, <3>1, <3>2
  <2> QED
    BY <2>2, <2>3
<1>11. CASE RemoveJob(c)
  <2>1. PICK i \in batch[c].todo :
          /\ batch' = [batch EXCEPT ![c].todo = @ \ {i}]
          /\ job' = job \/ job' = [job EXCEPT ![i] = "removed"]
    BY <1>11 DEF RemoveJob
  <2>2. cpc[c] = "remove" /\ cpc' = cpc /\ row' = row
    BY <1>11 DEF RemoveJob
  <2>3. /\ batch'[c].todo = batch[c].todo \ {i}
        /\ batch'[c].links = batch[c].links /\ batch'[c].found = batch[c].found
    BY <2>1 DEF Batch
  <2>4. /\ i \in batch[c].links /\ batch[c].todo \subseteq batch[c].links
        /\ batch[c].links \subseteq batch[c].found
    BY DEF PendingInv, ListenersFind
  <2>5. i \in Unsaved(c)' /\ Unsaved(c) \subseteq Unsaved(c)'
    BY <2>2, <2>3, <2>4 DEF Unsaved
  <2>6. \A j \in Ids : job'[j] = job[j] \/ j \in Unsaved(c)'
    BY <2>1, <2>5
  <2>7. ListenersFind'
    BY <1>5, <2>3, <2>4
  <2> QED
    BY <1>3, <1>4, <2>2, <2>5, <2>6, <2>7 DEF PendingInv
<1>12. CASE SaveCancelled(c)
  <2> DEFINE b == NewBatch(batch[c].event, TRUE)
  <2>1. /\ cpc[c] = "remove" /\ job' = job /\ batch' = [batch EXCEPT ![c] = b]
        /\ \A i \in Ids : i \in batch[c].found => row'[i].status = "cancelled"
        /\ \A i \in Ids : i \notin batch[c].found => row'[i] = row[i]
    BY <1>12 DEF SaveCancelled, EndQuery
  <2>2. b.todo = {} /\ b.links = {} /\ b.found = {}
    BY <1>7
  <2>3. batch'[c] = b
    BY <2>1
  <2> HIDE DEF b
  <2>4. Unsaved(c) \subseteq batch[c].found /\ Unsaved(c) \subseteq Ids
    BY DEF Unsaved, PendingInv, ListenersFind, Batch
  <2>5. \A i \in Ids : row'[i].status = "pending" => row[i].status = "pending"
    BY <2>1
  <2>6. \A i \in Unsaved(c) : row'[i].status # "pending"
    BY <2>1, <2>4
  <2> QED
    BY <1>3, <1>4, <1>5, <2>1, <2>2, <2>3, <2>5, <2>6 DEF PendingInv
<1>13. CASE CancelFails(c)
  <2>1. /\ row' = row /\ job' = job /\ batch'[c] = NoBatch
        /\ Unsaved(c) \subseteq orphaned'
    BY <1>13 DEF CancelFails
  <2>2. NoBatch.todo = {} /\ NoBatch.links = {} /\ NoBatch.found = {}
    BY <1>7 DEF NoBatch
  <2> QED
    BY <1>3, <1>4, <1>5, <2>1, <2>2 DEF PendingInv
<1> QED
  BY <1>8, <1>9, <1>10, <1>11, <1>12, <1>13 DEF CancellerStep

LEMMA PendingWorker ==
  ASSUME Safe, PendingInv, NEW w \in Workers, WorkerStep(w)
  PROVE  PendingInv'
<1> USE DEF Safe, TypeOK, schedVars, cancelVars, workerVars, queueVars, sendVars, noteVars
<1> DEFINE i == wjob[w]
<1>1. /\ UNCHANGED <<spc, sid, cpc, batch>> /\ orphaned \subseteq orphaned'
      /\ \A v \in Workers \ {w} : wpc'[v] = wpc[v] /\ wjob'[v] = wjob[v] /\ threw'[v] = threw[v]
  BY DEF WorkerStep, TakeJob, LoadSkips, LoadPasses, FindTemplate, FindChannel, Send,
     SendFails, SendAnswerLost, LookupFails, MarkSent, MarkSentFails, MarkFailed,
     MarkFailedFails, Settle, Step, Move
<1>2. /\ \A v \in Workers : wpc[v] # "idle" => wjob[v] \in Ids
      /\ \A v \in Workers \ {w} : wpc[v] # "idle" /\ wpc[w] # "idle" => wjob[v] # i
  BY DEF SendInv, WorkersHoldJobs, OneWorkerPerJob
<1>3. ListenersFind' /\ \A c \in Cancellers : Unsaved(c)' = Unsaved(c)
  BY <1>1 DEF PendingInv, ListenersFind, Unsaved
<1>4. ASSUME \A j \in Ids : row'[j].status = "pending" => row[j].status = "pending",
             \A j \in Ids \ orphaned' : row'[j].status = "pending" =>
                job'[j] = job[j] \/ job'[j] \in {"queued", "active"}
      PROVE  PendingHasJob'
  <2> SUFFICES ASSUME NEW j \in Ids \ orphaned', row'[j].status = "pending"
               PROVE  \/ job'[j] \in {"queued", "active"}
                      \/ \E p \in Schedulers : spc[p] = "add" /\ sid[p] = j
                      \/ \E c \in Cancellers : j \in Unsaved(c)
    BY <1>1, <1>3 DEF PendingHasJob
  <2>1. j \notin orphaned /\ row[j].status = "pending"
    BY <1>1, <1>4
  <2>2. \/ job[j] \in {"queued", "active"}
        \/ \E p \in Schedulers : spc[p] = "add" /\ sid[p] = j
        \/ \E c \in Cancellers : j \in Unsaved(c)
    BY <2>1 DEF PendingInv, PendingHasJob
  <2> QED
    BY <1>4, <2>2
<1>5. ASSUME \A j \in Ids : row'[j].status = "pending" => row[j].status = "pending",
             \A v \in Workers \ {w} :
                wpc[v] = "finish" => failures'[wjob[v]] = failures[wjob[v]],
             wpc'[w] = "finish" /\ row'[wjob'[w]].status = "pending" =>
                \/ wjob'[w] \in orphaned'
                \/ (threw[w] /\ ~IsLastAttempt(wjob[w]))'
      PROVE  AttemptsGoOn'
  <2> SUFFICES ASSUME NEW v \in Workers \ {w}, wpc[v] = "finish",
                      row'[wjob[v]].status = "pending", wjob[v] \notin orphaned'
               PROVE  threw[v] /\ ~IsLastAttempt(wjob[v])'
    BY <1>1, <1>5 DEF AttemptsGoOn
  <2>1. row[wjob[v]].status = "pending" /\ wjob[v] \notin orphaned
    BY <1>1, <1>2, <1>5
  <2>2. threw[v] /\ ~IsLastAttempt(wjob[v])
    BY <2>1 DEF PendingInv, AttemptsGoOn
  <2> QED
    BY <1>1, <1>5, <2>2 DEF IsLastAttempt
<1>6. CASE TakeJob(w)
  <2>1. PICK j \in Ids : job[j] = "queued" /\ job' = [job EXCEPT ![j] = "active"]
    BY <1>6 DEF TakeJob
  <2>2. row' = row /\ failures' = failures /\ wpc'[w] = "load"
    BY <1>6 DEF TakeJob
  <2>3. \A k \in Ids : job'[k] = job[k] \/ job'[k] \in {"queued", "active"}
    BY <2>1
  <2> QED
    BY <1>3, <1>4, <1>5, <2>2, <2>3 DEF PendingInv
<1>7. ASSUME UNCHANGED <<job, failures, wjob>>, wpc[w] # "idle",
             \A j \in Ids : row'[j].status = "pending" => row[j].status = "pending",
             wpc'[w] = "finish" /\ row'[i].status = "pending" =>
                i \in orphaned' \/ (threw'[w] /\ ~IsLastAttempt(i))
      PROVE  PendingInv'
  <2>1. AttemptsGoOn'
    BY <1>5, <1>7 DEF IsLastAttempt
  <2>2. PendingHasJob'
    BY <1>4, <1>7
  <2> QED
    BY <1>3, <2>1, <2>2 DEF PendingInv
<1>8. CASE \/ LoadSkips(w) \/ LoadPasses(w) \/ FindTemplate(w) \/ FindChannel(w)
           \/ Send(w) \/ SendFails(w) \/ SendAnswerLost(w) \/ LookupFails(w)
           \/ MarkSentFails(w)
  <2>1. UNCHANGED <<job, failures, wjob, row>> /\ wpc[w] # "idle"
    BY <1>8 DEF LoadSkips, LoadPasses, FindTemplate, FindChannel, Send, SendFails,
       SendAnswerLost, LookupFails, MarkSentFails, Step, Move
  <2>2. wpc'[w] = "finish" => row[i].status # "pending"
    BY <1>8 DEF LoadSkips, LoadPasses, FindTemplate, FindChannel, Send, SendFails,
       SendAnswerLost, LookupFails, MarkSentFails, Step, Move, Skips
  <2> QED
    BY <1>7, <2>1, <2>2
<1>9. CASE MarkSent(w) \/ MarkFailed(w)
  <2>1. PICK s \in {"sent", "failed"} : \E e : SetStatus(w, s, e)
    BY <1>9 DEF MarkSent, MarkFailed
  <2>2. UNCHANGED <<job, failures, wjob>> /\ wpc[w] # "idle"
    BY <1>9 DEF MarkSent, MarkFailed, Step, Move, Refusals
  <2>3. i \in Ids /\ row'[i].status = s /\ \A k \in Ids \ {i} : row'[k] = row[k]
    BY <1>2, <2>1, <2>2 DEF SetStatus
  <2> HIDE DEF i
  <2>4. \A j \in Ids : row'[j].status = "pending" => row[j].status = "pending"
    BY <2>3
  <2> QED
    BY <1>7, <2>2, <2>3, <2>4 DEF i
<1>10. CASE MarkFailedFails(w)
  <2>1. UNCHANGED <<job, failures, wjob, row>> /\ wpc[w] # "idle"
    BY <1>10 DEF MarkFailedFails, Step, Move, Refusals
  <2>2. wpc'[w] = "finish" => i \in orphaned' \/ (threw'[w] /\ ~IsLastAttempt(i))
    BY <1>10 DEF MarkFailedFails, Step, Move
  <2> QED
    BY <1>7, <2>1, <2>2
<1>11. CASE Settle(w)
  <2>1. /\ wpc[w] = "finish" /\ wpc'[w] = "idle" /\ row' = row /\ i \in Ids
        /\ job' = [job EXCEPT ![i] = Outcome(w, i)]
        /\ failures' = [failures EXCEPT ![i] = IF threw[w] THEN @ + 1 ELSE @]
    BY <1>2, <1>11 DEF Settle
  <2>2. i \in orphaned' \/ (row[i].status = "pending" => Outcome(w, i) = "queued")
    BY <1>1, <2>1 DEF PendingInv, AttemptsGoOn, Outcome
  <2>3. \A v \in Workers \ {w} : wpc[v] = "finish" => failures'[wjob[v]] = failures[wjob[v]]
    BY <1>2, <2>1
  <2>4. \A j \in Ids \ {i} : job'[j] = job[j]
    BY <2>1
  <2>5. job'[i] = Outcome(w, i)
    BY <2>1
  <2> HIDE DEF i
  <2> QED
    BY <1>3, <1>4, <1>5, <2>1, <2>2, <2>3, <2>4, <2>5 DEF PendingInv
<1> QED
  BY <1>6, <1>8, <1>9, <1>10, <1>11 DEF WorkerStep

LEMMA PendingOthers ==
  ASSUME Safe, PendingInv,
         \/ UNCHANGED vars \/ ChannelChanges \/ Crash
         \/ \E t \in Templates : EditTemplate(t)
  PROVE  PendingInv'
<1> USE DEF Safe, TypeOK, schedVars, cancelVars, workerVars, queueVars, sendVars, noteVars
<1>1. CASE UNCHANGED vars \/ ChannelChanges \/ \E t \in Templates : EditTemplate(t)
  <2>1. UNCHANGED <<row, job, failures, spc, sid, cpc, batch, wpc, wjob, threw, orphaned>>
    BY <1>1 DEF vars, ChannelChanges, EditTemplate
  <2> QED
    BY <2>1 DEF PendingInv, PendingHasJob, AttemptsGoOn, ListenersFind, Unsaved,
       IsLastAttempt
<1>2. CASE Crash
  <2>1. /\ row' = row /\ wpc' = [w \in Workers |-> "idle"]
        /\ batch' = [c \in Cancellers |-> NoBatch]
    BY <1>2 DEF Crash
  <2>2. AttemptsGoOn'
    BY <2>1 DEF AttemptsGoOn
  <2>3. ListenersFind'
    BY <2>1 DEF ListenersFind, NoBatch, NewBatch
  <2>4. /\ orphaned \subseteq orphaned'
        /\ \A p \in Schedulers : spc[p] = "add" => sid[p] \in orphaned'
        /\ \A c \in Cancellers : Unsaved(c) \subseteq orphaned'
        /\ \A i \in Ids : \/ job'[i] = job[i] \/ job'[i] = "queued" \/ i \in orphaned'
    BY <1>2 DEF Crash
  <2>5. PendingHasJob'
    BY <2>1, <2>4 DEF PendingInv, PendingHasJob
  <2> QED
    BY <2>2, <2>3, <2>5 DEF PendingInv
<1> QED
  BY <1>1, <1>2

(* A row that waits to be sent has a job that will send it, or a call that is about
   to add it or to cancel the row, whatever fails, however short the delay is and
   for any number of calls, listeners and workers; the rows that a fault took the
   job from, or that a late link brought back, are those PendingHasJob names. *)
THEOREM JobsFollowRows == Spec => []PendingHasJob
<1>1. ASSUME Init PROVE PendingInv
  BY <1>1 DEF Init, PendingInv, PendingHasJob, AttemptsGoOn, ListenersFind, NoRow, NoBatch,
     NewBatch
<1>2. Safe /\ PendingInv /\ [Next]_vars => PendingInv'
  BY PendingScheduler, PendingCanceller, PendingWorker, PendingOthers DEF Next
<1>3. PendingInv => PendingHasJob
  BY DEF PendingInv
<1> QED
  BY <1>1, <1>2, <1>3, Safety, PTL DEF Spec
=============================================================================
