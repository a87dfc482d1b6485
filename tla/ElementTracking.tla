-------------------------- MODULE ElementTracking --------------------------
(***************************************************************************)
(* What visitors do with a store's conversion elements, on its way to the  *)
(* table element_events: a job of the queue puts an event into a buffer in *)
(* memory, and a timer writes the buffer in chunks.  A flush swaps the     *)
(* buffer for an empty one and holds bufferLock; when a chunk fails, the   *)
(* whole batch goes back to the head of the buffer, or is dropped when     *)
(* there is too much.  A graceful stop flushes once more.                  *)
(***************************************************************************)
EXTENDS Naturals, Sequences, Functions

CONSTANTS
    Events,            \* what visitors do
    Misfits,           \* events with a value longer than its column
    ChunkSize,         \* events of one insert statement
    BufferLimit,       \* what may be put back
    MaxFailedFlushes,  \* bound
    MaxStops           \* bound: graceful stops and crashes

ASSUME ElementTrackingAssumption ==
    /\ Misfits \subseteq Events /\ ChunkSize \in Nat \ {0}
    /\ BufferLimit \in Nat /\ MaxFailedFlushes \in Nat /\ MaxStops \in Nat

VARIABLES
    eventJob,      \* the job of each event
    eventBuffer, bufferLock,
    inFlush,       \* what the flush under way took from the buffer
    inserted,      \* how much of it is written
    closing,       \* onModuleDestroy has begun
    finalFlush,    \* the flush it waits for
    rows           \* rows of each event in element_events

VARIABLES          \* observation only
    late,          \* events that entered the buffer after onModuleDestroy began
    missed,        \* the last flush was not begun, or failed
    dropped,       \* events dropped because the buffer was too long
    cut,           \* events that were in memory when the process ended
    again,         \* how often each event was put back although it had a row
    failedFlushes, stops

trackingVars == <<eventJob, eventBuffer, bufferLock, inFlush, inserted, closing,
                  finalFlush, rows, late, missed, dropped, cut, again, failedFlushes,
                  stops>>

JobStates == {"none", "queued", "active", "done"}

ElementTrackingTypeOK ==
    /\ eventJob \in [Events -> JobStates]
    /\ eventBuffer \in Seq(Events) /\ inFlush \in Seq(Events)
    /\ inserted \in 0..Len(inFlush)
    /\ {bufferLock, closing, finalFlush, missed} \subseteq BOOLEAN
    /\ rows \in [Events -> Nat] /\ again \in [Events -> Nat]
    /\ late \subseteq Events /\ dropped \subseteq Events /\ cut \subseteq Events
    /\ failedFlushes \in 0..MaxFailedFlushes /\ stops \in 0..MaxStops

ElementTrackingInit ==
    /\ eventJob = [e \in Events |-> "none"]
    /\ eventBuffer = <<>> /\ bufferLock = FALSE /\ inFlush = <<>> /\ inserted = 0
    /\ closing = FALSE /\ finalFlush = FALSE /\ rows = [e \in Events |-> 0]
    /\ late = {} /\ missed = FALSE /\ dropped = {} /\ cut = {}
    /\ again = [e \in Events |-> 0] /\ failedFlushes = 0 /\ stops = 0

InProcess == Range(eventBuffer) \cup Range(inFlush)

(* A misfit waits ahead of the event, or shares its insert statement. *)
Waiting == inFlush \o eventBuffer
HeldUp(e) ==
    \E i, j \in 1..Len(Waiting) :
        Waiting[i] \in Misfits /\ Waiting[j] = e /\ i < j + ChunkSize

-----------------------------------------------------------------------------
(* trackEvent and trackBatch: the store is known, and each event becomes a  *)
(* job; an event of an unknown type or store, and one whose job cannot be   *)
(* queued, is forgotten before it counts.                                   *)
TrackBatch(S) ==
    /\ S # {} /\ \A e \in S : eventJob[e] = "none"
    /\ eventJob' = [e \in Events |-> IF e \in S THEN "queued" ELSE eventJob[e]]
    /\ UNCHANGED <<eventBuffer, bufferLock, inFlush, inserted, closing, finalFlush,
                   rows, late, missed, dropped, cut, again, failedFlushes, stops>>

(* processEvent: the event is in the buffer, and its job soon completed.    *)
(* The workers are closed last, so a stopping process goes on taking jobs.  *)
ProcessEvent(e) ==
    /\ eventJob[e] = "queued"
    /\ eventJob' = [eventJob EXCEPT ![e] = "active"]
    /\ eventBuffer' = Append(eventBuffer, e)
    /\ late' = IF closing THEN late \cup {e} ELSE late
    /\ UNCHANGED <<bufferLock, inFlush, inserted, closing, finalFlush, rows, missed,
                   dropped, cut, again, failedFlushes, stops>>

JobDone(e) ==
    /\ eventJob[e] = "active"
    /\ eventJob' = [eventJob EXCEPT ![e] = "done"]
    /\ UNCHANGED <<eventBuffer, bufferLock, inFlush, inserted, closing, finalFlush,
                   rows, late, missed, dropped, cut, again, failedFlushes, stops>>

-----------------------------------------------------------------------------
(* Mutant: the flush works on the buffer itself. *)
SwappedForItself(buffer) == buffer

(* The new buffer of the atomic swap. *)
Swapped(buffer) == <<>>

Swap ==
    /\ bufferLock' = TRUE /\ inFlush' = eventBuffer /\ inserted' = 0
    /\ eventBuffer' = Swapped(eventBuffer)

(* The timer: nothing to flush, or a flush under way, ends it at once. *)
FlushBuffer ==
    /\ ~closing /\ eventBuffer # <<>> /\ ~bufferLock
    /\ Swap
    /\ UNCHANGED <<eventJob, closing, finalFlush, rows, late, missed, dropped, cut,
                   again, failedFlushes, stops>>

UpTo == IF inserted + ChunkSize < Len(inFlush) THEN inserted + ChunkSize
                                               ELSE Len(inFlush)
Chunk == Range(SubSeq(inFlush, inserted + 1, UpTo))
WithRows(S) == [e \in Events |-> IF e \in S THEN rows[e] + 1 ELSE rows[e]]

InsertChunk ==
    /\ inFlush # <<>> /\ Chunk \cap Misfits = {}
    /\ rows' = WithRows(Chunk)
    /\ IF UpTo < Len(inFlush)
         THEN inserted' = UpTo /\ UNCHANGED <<bufferLock, inFlush, finalFlush>>
         ELSE /\ bufferLock' = FALSE /\ finalFlush' = FALSE
              /\ inFlush' = <<>> /\ inserted' = 0
    /\ UNCHANGED <<eventJob, eventBuffer, closing, late, missed, dropped, cut, again,
                   failedFlushes, stops>>

(* Mutant: the batch takes the place of what came during the flush. *)
ReaddedAlone(old, new) == old

Readded(old, new) == old \o new

(* Mutant: only the end of the loop gives the lock back. *)
LockKept == TRUE

(* What the finally block leaves of the lock. *)
LockAfterFailure == FALSE

(* The statement fails: a value does not fit, the database refuses, or it   *)
(* has written the chunk and its answer is lost.                            *)
InsertFails ==
    /\ inFlush # <<>> /\ failedFlushes < MaxFailedFlushes
    /\ failedFlushes' = failedFlushes + 1
    /\ \E written \in {{}, Chunk} :
         /\ Chunk \cap Misfits # {} => written = {}
         /\ rows' = WithRows(written)
         /\ again' = [e \in Events |->
                        IF e \in written \cup Range(SubSeq(inFlush, 1, inserted))
                          THEN again[e] + 1 ELSE again[e]]
    /\ IF Len(eventBuffer) + Len(inFlush) < BufferLimit
         THEN eventBuffer' = Readded(inFlush, eventBuffer) /\ UNCHANGED dropped
         ELSE dropped' = dropped \cup Range(inFlush) /\ UNCHANGED eventBuffer
    /\ bufferLock' = LockAfterFailure /\ inFlush' = <<>> /\ inserted' = 0
    /\ finalFlush' = FALSE /\ missed' = closing
    /\ UNCHANGED <<eventJob, closing, late, cut, stops>>

-----------------------------------------------------------------------------
(* onModuleDestroy: the timer stops, and a last flush begins, if the        *)
(* buffer is not empty and no flush is under way; one that is, is not       *)
(* waited for.                                                              *)
OnModuleDestroy ==
    /\ ~closing /\ stops < MaxStops /\ stops' = stops + 1
    /\ closing' = TRUE /\ missed' = bufferLock
    /\ IF eventBuffer # <<>> /\ ~bufferLock
         THEN Swap /\ finalFlush' = TRUE
         ELSE UNCHANGED <<eventBuffer, bufferLock, inFlush, inserted, finalFlush>>
    /\ UNCHANGED <<eventJob, rows, late, dropped, cut, again, failedFlushes>>

NewProcess ==
    /\ eventBuffer' = <<>> /\ bufferLock' = FALSE /\ inFlush' = <<>> /\ inserted' = 0
    /\ closing' = FALSE /\ finalFlush' = FALSE /\ late' = {} /\ missed' = FALSE

(* The modules are closed, the workers wait for their jobs, and the process *)
(* exits; the next one begins.                                              *)
Exit ==
    /\ closing /\ ~finalFlush /\ \A e \in Events : eventJob[e] # "active"
    /\ cut' = cut \cup (IF missed THEN InProcess ELSE late)
    /\ NewProcess
    /\ UNCHANGED <<eventJob, rows, dropped, again, failedFlushes, stops>>

(* The process dies: the queue gives active jobs out once more. *)
TrackingCrash ==
    /\ stops < MaxStops /\ stops' = stops + 1
    /\ eventJob' = [e \in Events |-> IF eventJob[e] = "active" THEN "queued"
                                                           ELSE eventJob[e]]
    /\ again' = [e \in Events |-> IF eventJob[e] = "active" /\ rows[e] > 0
                                    THEN again[e] + 1 ELSE again[e]]
    /\ cut' = cut \cup {e \in InProcess : eventJob[e] = "done"}
    /\ NewProcess
    /\ UNCHANGED <<rows, dropped, failedFlushes>>

ElementTrackingNext ==
    \/ \E S \in SUBSET Events : TrackBatch(S)
    \/ \E e \in Events : ProcessEvent(e) \/ JobDone(e)
    \/ FlushBuffer \/ InsertChunk \/ InsertFails
    \/ OnModuleDestroy \/ Exit \/ TrackingCrash

ElementTrackingSpec == ElementTrackingInit /\ [][ElementTrackingNext]_trackingVars

-----------------------------------------------------------------------------
(* An event whose job is completed is in memory or in the table: nothing    *)
(* that came during a flush is lost by it, whether it succeeds or fails,    *)
(* and a graceful stop loses only what came after it began, unless another  *)
(* flush was under way or the last one failed (flushBuffer and              *)
(* onModuleDestroy, element-tracking.service.ts:247 and 314).               *)
EventsKept ==
    \A e \in Events : eventJob[e] = "done" =>
        e \in InProcess \cup dropped \cup cut \/ rows[e] > 0

(* An event gets a second row only when its flush failed after its chunk    *)
(* was written, or when the process died before its job was completed       *)
(* (flushBuffer, element-tracking.service.ts:269).                          *)
RecordedOnce == \A e \in Events : rows[e] <= 1 + again[e]

(* Under fairness an event that was queued gets its row, through failed     *)
(* flushes and restarts, unless the buffer overflowed, the process took it  *)
(* along, or a value longer than its column holds it up: then every flush   *)
(* of the batch fails at that value's chunk and the whole batch is put back *)
(* (flushBuffer, element-tracking.service.ts:239 and 270).                  *)
EventsLand ==
    \A e \in Events :
        eventJob[e] = "queued" ~> rows[e] > 0 \/ e \in dropped \cup cut \/ HeldUp(e)

-----------------------------------------------------------------------------
(* The inductive invariants behind them                                     *)

(* The lock is held while a flush is under way, what it has written has its *)
(* rows, and once the last flush is over nothing but latecomers is left,    *)
(* unless it failed or was not begun.                                       *)
FlushInv ==
    /\ bufferLock <=> inFlush # <<>>
    /\ \A i \in 1..inserted : rows[inFlush[i]] > 0
    /\ closing /\ ~missed => /\ Range(eventBuffer) \subseteq late
                             /\ finalFlush \/ inFlush = <<>>

(* An event that has left the queue is somewhere.  Its job may still be     *)
(* active, for that job may complete with no further look at the event.     *)
KeptInv ==
    \A e \in Events : eventJob[e] \in {"active", "done"} =>
        e \in InProcess \cup dropped \cup cut \/ rows[e] > 0

(* An event is in memory once, and only when its job has been given out; as *)
(* long as it waits there or in the queue, every row it has is excused.     *)
Unwritten == {inFlush[i] : i \in (inserted + 1)..Len(inFlush)}
OnceInv ==
    /\ IsInjective(eventBuffer) /\ IsInjective(inFlush)
    /\ Range(eventBuffer) \cap Range(inFlush) = {}
    /\ \A e \in InProcess : eventJob[e] \in {"active", "done"}
    /\ \A e \in Events :
         \/ rows[e] <= again[e]
         \/ /\ rows[e] = 1 + again[e] /\ eventJob[e] \in {"active", "done"}
            /\ e \notin Range(eventBuffer) \cup Unwritten
=============================================================================
