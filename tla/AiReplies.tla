------------------------------ MODULE AiReplies ------------------------------
(***************************************************************************)
(* The AI replies of one conversation, from the stored message of the      *)
(* customer to the stored reply: the listener of `message.received' with   *)
(* its duplicate filter and its buffer of messages, the generation of a    *)
(* reply with the handoff to a human and the count of failed attempts, the *)
(* delayed job that checks 45 seconds later that somebody answered, and    *)
(* the employees who edit the same row from the inbox.                     *)
(*                                                                         *)
(* Time is counted down in ticks, the largest step that divides the        *)
(* delays of the code (15 seconds in the instances).  What takes           *)
(* milliseconds happens within a tick; the model's answer and the sending  *)
(* of the reply may take any number of ticks.                              *)
(***************************************************************************)
EXTENDS Integers, FiniteSets

CONSTANTS
    Inbound,          \* messages of the customer
    TextMessages,     \* those of type TEXT; the others are pictures, files...
    Generations,      \* bound: replies being produced at the same time
    BatchTicks,       \* messageBatchingSeconds
    BufferTicks,      \* MAX_BUFFER_AGE_MS
    DedupTicks,       \* life of an entry of processingMessages
    SafetyTicks,      \* delay of the process-incoming job
    ThrottleTicks,    \* NON_TEXT_THROTTLE_MS
    SilenceTicks,     \* silenceDurationMinutes, or 24 h without silenceOnHandoff
    MaxFailures,      \* handoffAfterFailures
    StoreSettings,    \* settings a store may have; they do not change here
    MaxHandoffs,      \* bound: handoffs the model asks for
    MaxTroubles       \* bound: employees' requests, updates of the customer's
                      \* data, deaths of the process, failed statements and
                      \* replies whose first attempt goes wrong, together

ASSUME RepliesAssumption ==
    /\ IsFiniteSet(Inbound) /\ TextMessages \subseteq Inbound
    /\ BatchTicks \in Nat /\ BufferTicks \in Nat /\ DedupTicks \in Nat
    /\ SafetyTicks \in Nat /\ ThrottleTicks \in Nat
    /\ SilenceTicks \in Nat \ {0} /\ MaxFailures \in Nat \ {0}
    /\ StoreSettings \subseteq
         [batching : BOOLEAN, silenceOnHandoff : BOOLEAN, autoHandoff : BOOLEAN]
    /\ MaxHandoffs \in Nat /\ MaxTroubles \in Nat

VARIABLES
    settings,   \* the AI settings of the store; the bot is enabled
    conv,       \* the row of the conversation
    arrival,    \* where each message is on its way into the database
    payload,    \* the copy of the row that travels with `message.received'
    listening,  \* messages whose listener waits for the settings
    recent,     \* ticks left in processingMessages
    safety,     \* ticks left of the process-incoming job, or NoJob
    batch,      \* the buffer of the conversation
    gen,        \* each reply being produced
    quietOn,    \* ticks left in nonTextReplies
    agent       \* an employee's request that loads and saves the row

(* Observation only: no action reads these except to respect a bound. *)
VARIABLES
    handoffs,   \* handoffs so far
    troubles,   \* what MaxTroubles bounds, so far
    replied,    \* messages followed by a row with sender AI
    answers,    \* texts that reached the customer and cover a message
    resent,     \* their reply went out again: an attempt was not heard of
    undelivered,\* no attempt of their reply went out, and its row says FAILED
    returned,   \* the bot has had the conversation since the last handoff
    overtaken,  \* re-emitted while still in memory, or sent and not recorded
    skipped,    \* the code has decided not to answer
    shaken,     \* dropped by a crash or an error, with the job still to run
    lost        \* dropped by a crash or an error after its job ran

convVars   == <<conv, returned>>
rowVars    == <<settings, convVars, arrival, payload, safety, agent>>
memoryVars == <<listening, recent, batch, gen, quietOn>>
resultVars == <<replied, answers, resent, undelivered>>
ghostVars  == <<handoffs, troubles, resultVars, overtaken, skipped, shaken, lost>>
replyVars  == <<rowVars, memoryVars, ghostVars>>

NoJob == SafetyTicks + 1
Reasons == {"none", "CUSTOMER_REQUEST", "AI_ERROR"}

(* The columns the handlers read and write.  `silence' stands for         *)
(* handoffAt: the ticks until the bot may speak again, 0 when handoffAt   *)
(* is missing.  `seen' counts the handoffs the copy knows of.             *)
Row == [handler : {"AI", "HUMAN"}, silence : 0..SilenceTicks,
        reason : Reasons, failed : 0..(MaxFailures + MaxHandoffs + 1),
        seen : 0..MaxHandoffs]
FreshRow == [handler |-> "AI", silence |-> 0, reason |-> "none",
             failed |-> 0, seen |-> 0]
LegacyRow == [FreshRow EXCEPT !.handler = "HUMAN", !.reason = "AI_ERROR"]
NoBatch == [on |-> FALSE, msgs |-> {}, timer |-> 0, age |-> 0]
NoGen == [pc |-> "idle", msgs |-> {}, copy |-> FreshRow, out |-> "none",
          free |-> TRUE,   \* no human had the conversation when it began
          sent |-> FALSE]  \* some attempt to send it reached the customer

(* What each part of processMessage may decide; "plain" is a reply that     *)
(* writes nothing: a question about the order's number, an order not found, *)
(* a missing key, a timeout, the failures of the language model; "empty" is *)
(* a completion without text, which counts as an answer and is not sent.    *)
CheckDirectHandoff  == {"handoff"}
DetectSimpleIntent  == {"handoff", "answer"}
HandleOrderQuery    == {"answer", "plain"}
AskLanguageModel    == {"handoff", "answer", "nomatch", "plain", "empty"}
Outcome == {"none"} \union CheckDirectHandoff \union DetectSimpleIntent
             \union HandleOrderQuery \union AskLanguageModel
Sending == {"sending", "retrying", "resending"}
GenPc == {"idle", "thinking", "loading", "saving", "recording"} \union Sending
ArrivalPc == {"new", "updating", "loaded", "committed", "stored"}

RepliesTypeOK ==
    /\ settings \in StoreSettings /\ conv \in Row
    /\ arrival \in [Inbound -> ArrivalPc]
    /\ payload \in [Inbound -> Row]
    /\ listening \subseteq Inbound
    /\ recent \in [Inbound -> 0..DedupTicks]
    /\ safety \in [Inbound -> 0..NoJob]
    /\ batch \in [on : BOOLEAN, msgs : SUBSET Inbound, timer : 0..BatchTicks,
                  age : 0..(BufferTicks + 1)]
    /\ gen \in [Generations -> [pc : GenPc, msgs : SUBSET Inbound, copy : Row,
                                out : Outcome, free : BOOLEAN, sent : BOOLEAN]]
    /\ quietOn \in 0..ThrottleTicks
    /\ agent \in [on : BOOLEAN, copy : Row]
    /\ handoffs \in 0..MaxHandoffs /\ troubles \in 0..MaxTroubles
    /\ answers \in [Inbound -> 0..4]
    /\ resent \subseteq Inbound /\ undelivered \subseteq Inbound
    /\ replied \subseteq Inbound /\ overtaken \subseteq Inbound
    /\ skipped \subseteq Inbound /\ shaken \subseteq Inbound
    /\ lost \subseteq Inbound /\ returned \in BOOLEAN

(* A conversation the bot handles, or one left by an older version. *)
RepliesInit ==
    /\ settings \in StoreSettings /\ conv \in {FreshRow, LegacyRow}
    /\ arrival = [m \in Inbound |-> "new"]
    /\ payload = [m \in Inbound |-> FreshRow]
    /\ listening = {} /\ recent = [m \in Inbound |-> 0]
    /\ safety = [m \in Inbound |-> NoJob]
    /\ batch = NoBatch
    /\ gen = [g \in Generations |-> NoGen]
    /\ quietOn = 0 /\ agent = [on |-> FALSE, copy |-> FreshRow]
    /\ handoffs = 0 /\ troubles = 0 /\ returned = TRUE
    /\ answers = [m \in Inbound |-> 0] /\ resent = {} /\ undelivered = {}
    /\ replied = {} /\ overtaken = {} /\ skipped = {}
    /\ shaken = {} /\ lost = {}

Stored == {m \in Inbound : arrival[m] \in {"committed", "stored"}}
InGeneration == UNION {gen[g].msgs : g \in Generations}
InMemory == listening \union batch.msgs \union InGeneration

WriteRow(row) == /\ conv' = row
                 /\ returned' = (returned \/ row.handler = "AI")

-----------------------------------------------------------------------------
(* Arrival: processIncomingMessage finds the conversation, then stores the  *)
(* message, emits the event with the copy it found and queues the job.      *)

LoadConversation(m) ==
    /\ arrival[m] = "new"
    /\ \/ arrival' = [arrival EXCEPT ![m] = "loaded"] /\ UNCHANGED troubles
       \/ /\ troubles < MaxTroubles /\ troubles' = troubles + 1
          /\ arrival' = [arrival EXCEPT ![m] = "updating"]
    /\ payload' = [payload EXCEPT ![m] = conv]
    /\ UNCHANGED <<settings, convVars, safety, agent, memoryVars, handoffs,
                   resultVars, overtaken, skipped, shaken, lost>>

(* The message brings a new address, or a name or a number that was         *)
(* missing: the whole row is saved as it was found.                         *)
UpdateCustomer(m) ==
    /\ arrival[m] = "updating"
    /\ arrival' = [arrival EXCEPT ![m] = "loaded"]
    /\ WriteRow(payload[m])
    /\ UNCHANGED <<settings, payload, safety, agent, memoryVars, ghostVars>>

(* The listener drops a message it has seen in the last 30 seconds. *)
Emit(m) ==
    IF recent[m] > 0
      THEN UNCHANGED <<listening, recent>>
      ELSE /\ listening' = listening \union {m}
           /\ recent' = [recent EXCEPT ![m] = DedupTicks]

StoreMessage(m) ==
    /\ arrival[m] = "loaded"
    /\ arrival' = [arrival EXCEPT ![m] = "committed"]
    /\ Emit(m)
    /\ UNCHANGED <<settings, convVars, payload, safety, agent, batch, gen, quietOn,
                   ghostVars>>

QueueSafetyNet(m) ==
    /\ arrival[m] = "committed"
    /\ arrival' = [arrival EXCEPT ![m] = "stored"]
    /\ safety' = [safety EXCEPT ![m] = SafetyTicks]
    /\ UNCHANGED <<settings, convVars, payload, agent, memoryVars, ghostVars>>

-----------------------------------------------------------------------------
(* The listener. *)

(* bufferMessage: append and restart the timer, or flush a buffer that is   *)
(* older than five minutes.                                                 *)
BufferMessage(m) ==
    IF ~batch.on
      THEN batch' = [on |-> TRUE, msgs |-> {m}, timer |-> BatchTicks, age |-> 0]
      ELSE batch' = [batch EXCEPT !.msgs = @ \union {m},
                       !.timer = IF batch.age > BufferTicks THEN 0
                                                            ELSE BatchTicks]

(* A human was called, and the silence the store asked for is not over. *)
Silenced(row) ==
    settings.silenceOnHandoff /\ row.handler = "HUMAN" /\ row.silence > 0

(* processAndRespond begins: generateResponse loads the row. *)
Ask(g, msgs, row) ==
    /\ gen[g].pc = "idle"
    /\ gen' = [gen EXCEPT ![g] = [pc |-> "thinking", msgs |-> msgs, copy |-> row,
                                  out |-> "none", free |-> ~Silenced(conv'),
                                  sent |-> FALSE]]

TakeUp(m) ==
    IF settings.batching
      THEN BufferMessage(m) /\ UNCHANGED gen
      ELSE \E g \in Generations : Ask(g, {m}, conv') /\ UNCHANGED batch

(* Mutant: a new message always wakes the bot. *)
RecoversAlways(copy) == copy.handler = "HUMAN"

(* A human has the conversation: only a technical handoff, or one whose     *)
(* silence is over in the payload's copy, gives it back to the bot.         *)
Recovers(copy) == copy.reason = "AI_ERROR" \/ copy.silence = 0

(* The UPDATE writes the handler and the whole of the copy's aiContext.     *)
Recovered(copy) == [conv EXCEPT !.handler = "AI", !.failed = 0,
                      !.silence = copy.silence, !.reason = copy.reason]

ListenText(m) ==
    /\ m \in TextMessages
    /\ LET copy == payload[m]
       IN \/ /\ copy.handler = "AI"
             /\ UNCHANGED <<convVars, skipped>>
             /\ TakeUp(m)
          \/ /\ copy.handler = "HUMAN" /\ Recovers(copy)
             /\ WriteRow(Recovered(copy))
             /\ TakeUp(m)
             /\ UNCHANGED skipped
          \/ /\ copy.handler = "HUMAN" /\ ~Recovers(copy)
             /\ skipped' = skipped \union {m}
             /\ UNCHANGED <<convVars, batch, gen>>
    /\ UNCHANGED <<quietOn, replied>>

(* A row with sender AI answers, for the safety net, all that precedes it. *)
AiRow == replied' = Stored

(* A picture gets a polite reply whoever handles the conversation, once in  *)
(* five minutes.                                                            *)
ListenOther(m) ==
    /\ m \notin TextMessages
    /\ IF quietOn > 0
         THEN UNCHANGED <<quietOn, replied>>
         ELSE quietOn' = ThrottleTicks /\ AiRow
    /\ UNCHANGED <<convVars, batch, gen, skipped>>

Listen(m) ==
    /\ m \in listening
    /\ listening' = listening \ {m}
    /\ ListenText(m) \/ ListenOther(m)
    /\ payload' = [payload EXCEPT ![m] = FreshRow]
    /\ UNCHANGED <<settings, arrival, safety, agent, recent, handoffs,
                   troubles, answers, resent, undelivered, overtaken, shaken, lost>>

(* Mutant: the reply is decided on the row the buffer holds. *)
FlushHeld(g) ==
    /\ batch.on /\ batch.timer = 0
    /\ UNCHANGED <<rowVars, listening, recent, quietOn, ghostVars>>
    /\ Ask(g, batch.msgs, FreshRow)
    /\ batch' = NoBatch

(* flushBuffer: the buffer is emptied before the reply is produced. *)
Flush(g) ==
    /\ batch.on /\ batch.timer = 0
    /\ UNCHANGED <<rowVars, listening, recent, quietOn, ghostVars>>
    /\ Ask(g, batch.msgs, conv)
    /\ batch' = NoBatch

-----------------------------------------------------------------------------
(* generateResponse and processMessage. *)

Finish(g) == gen' = [gen EXCEPT ![g] = NoGen]

KeepSilent(g) ==
    /\ gen[g].pc = "thinking" /\ Silenced(gen[g].copy)
    /\ skipped' = skipped \union gen[g].msgs
    /\ Finish(g)
    /\ UNCHANGED <<rowVars, listening, recent, batch, quietOn, handoffs, troubles,
                   resultVars, overtaken, shaken, lost>>

(* The silence is over: the bot takes the conversation back. *)
WakeUp(copy) ==
    IF settings.silenceOnHandoff /\ copy.handler = "HUMAN"
      THEN WriteRow([conv EXCEPT !.handler = "AI"])
      ELSE UNCHANGED convVars

(* The keywords, the patterns and the model decide what the reply is.  The  *)
(* copy of the row is of no more use then.                                  *)
Think(g, out) ==
    /\ gen[g].pc = "thinking" /\ ~Silenced(gen[g].copy)
    /\ out = "handoff" => handoffs < MaxHandoffs
    /\ WakeUp(gen[g].copy)
    /\ gen' = [gen EXCEPT ![g].out = out, ![g].copy = FreshRow,
                 ![g].pc = IF out = "plain" THEN "sending" ELSE "loading"]
    /\ UNCHANGED <<settings, arrival, payload, safety, agent, listening, recent,
                   batch, quietOn, ghostVars>>

(* handleHandoff, incrementFailedAttempts and resetFailedAttempts load the  *)
(* row, and save all of it.                                                 *)
LoadRow(g) ==
    /\ gen[g].pc = "loading"
    /\ gen' = [gen EXCEPT ![g].pc = "saving", ![g].copy = conv]
    /\ UNCHANGED <<rowVars, listening, recent, batch, quietOn, ghostVars>>

HandedOff(copy) ==
    [copy EXCEPT !.handler = "HUMAN", !.silence = SilenceTicks,
                 !.reason = "CUSTOMER_REQUEST", !.failed = 0,
                 !.seen = handoffs + 1]

SaveHandoff(g) ==
    /\ gen[g].pc = "saving" /\ gen[g].out = "handoff"
    /\ handoffs < MaxHandoffs
    /\ conv' = HandedOff(gen[g].copy)
    /\ handoffs' = handoffs + 1 /\ returned' = FALSE
    /\ gen' = [gen EXCEPT ![g].pc = "sending", ![g].copy = FreshRow]
    /\ UNCHANGED <<settings, arrival, payload, safety, agent, listening, recent,
                   batch, quietOn, troubles, resultVars, overtaken, skipped,
                   shaken, lost>>

SaveAnswer(g) ==
    /\ gen[g].pc = "saving" /\ gen[g].out \in {"answer", "empty"}
    /\ IF gen[g].copy.failed > 0
         THEN WriteRow([gen[g].copy EXCEPT !.failed = 0])
         ELSE UNCHANGED convVars
    /\ gen' = [gen EXCEPT ![g].pc = "sending", ![g].copy = FreshRow,
                 ![g].out = IF @ = "answer" THEN "plain" ELSE @]
    /\ UNCHANGED <<settings, arrival, payload, safety, agent, listening, recent,
                   batch, quietOn, ghostVars>>

(* handleNoMatch: ask for details, then hand over or offer to. *)
SaveNoMatch(g) ==
    /\ gen[g].pc = "saving" /\ gen[g].out = "nomatch"
    /\ LET failed == gen[g].copy.failed + 1
           gives == failed >= MaxFailures /\ settings.autoHandoff
       IN /\ gives => handoffs < MaxHandoffs
          /\ failed <= MaxFailures + MaxHandoffs
          /\ WriteRow([gen[g].copy EXCEPT !.failed = failed])
          /\ gen' = IF gives
                      THEN [gen EXCEPT ![g].pc = "loading", ![g].copy = FreshRow,
                              ![g].out = "handoff"]
                      ELSE [gen EXCEPT ![g].pc = "sending", ![g].copy = FreshRow,
                              ![g].out = "plain"]
    /\ UNCHANGED <<settings, arrival, payload, safety, agent, listening, recent,
                   batch, quietOn, ghostVars>>

(* What is dropped with no answer sent, and what was sent and left no row. *)
Forget(dropped, unrecorded) ==
    /\ lost' = lost \union {m \in dropped : safety[m] = NoJob}
    /\ shaken' = shaken \union {m \in dropped : safety[m] # NoJob}
    /\ overtaken' = overtaken \union unrecorded

(* processAndRespond has nothing to send: there is no message and no row.   *)
DropEmpty(g) ==
    /\ gen[g].pc = "sending" /\ gen[g].out = "empty"
    /\ Forget(gen[g].msgs, {})
    /\ Finish(g)
    /\ UNCHANGED <<rowVars, listening, recent, batch, quietOn, handoffs, troubles,
                   resultVars, skipped>>

(* createOutgoingMessage waits for the provider's id of the message.  When   *)
(* there is none it sends the text again, and when an attempt throws once   *)
(* more, which may be the third time.                                       *)
AfterAttempt(pc, outcome) ==
    CASE outcome = "error" /\ pc # "resending" -> "resending"
      [] outcome = "noId" /\ pc = "sending"    -> "retrying"
      [] OTHER                                 -> "recording"

(* An attempt that is not confirmed may have reached the customer.  What    *)
(* is recorded is a "plain" reply, whatever led to it.                      *)
Attempt(g, outcome, reaches) ==
    LET next == AfterAttempt(gen[g].pc, outcome)
    IN /\ outcome = "id" => reaches
       /\ IF gen[g].pc = "sending" /\ outcome # "id"
            THEN troubles < MaxTroubles /\ troubles' = troubles + 1
            ELSE UNCHANGED troubles
       /\ answers' = [m \in Inbound |->
                        IF reaches /\ m \in gen[g].msgs /\ answers[m] < 4
                          THEN answers[m] + 1 ELSE answers[m]]
       /\ resent' = IF reaches /\ next # "recording"
                      THEN resent \union gen[g].msgs ELSE resent
       /\ gen' = [gen EXCEPT ![g].pc = next,
                    ![g].sent = gen[g].sent \/ reaches,
                    ![g].out = IF next = "recording" THEN "plain" ELSE gen[g].out]

SendReply(g) ==
    /\ gen[g].pc \in Sending /\ gen[g].out # "empty"
    /\ \E outcome \in {"id", "noId", "error"}, reaches \in BOOLEAN :
         Attempt(g, outcome, reaches)
    /\ UNCHANGED <<rowVars, listening, recent, batch, quietOn, handoffs, replied,
                   undelivered, overtaken, skipped, shaken, lost>>

(* The row has sender AI whatever became of the text.                       *)
RecordReply(g) ==
    /\ gen[g].pc = "recording"
    /\ AiRow
    /\ undelivered' = IF gen[g].sent THEN undelivered
                                     ELSE undelivered \union gen[g].msgs
    /\ Finish(g)
    /\ UNCHANGED <<rowVars, listening, recent, batch, quietOn, handoffs, troubles,
                   answers, resent, overtaken, skipped, shaken, lost>>

(* A statement fails: processAndRespond logs the error and gives up. *)
ReplyFails(g) ==
    /\ gen[g].pc \in {"thinking", "sending", "recording"}
    /\ troubles < MaxTroubles /\ troubles' = troubles + 1
    /\ IF gen[g].sent THEN Forget({}, gen[g].msgs)
                      ELSE Forget(gen[g].msgs, {})
    /\ Finish(g)
    /\ UNCHANGED <<rowVars, listening, recent, batch, quietOn, handoffs, replied,
                   answers, resent, undelivered, skipped>>

Generate(g) ==
    \/ KeepSilent(g) \/ LoadRow(g)
    \/ \E out \in Outcome \ {"none"} : Think(g, out)
    \/ SaveHandoff(g) \/ SaveAnswer(g) \/ SaveNoMatch(g)
    \/ DropEmpty(g) \/ SendReply(g) \/ RecordReply(g) \/ ReplyFails(g)

-----------------------------------------------------------------------------
(* handleProcessIncoming: the safety net. *)

(* Mutant: whoever answered, a message is asked about again. *)
NeedsReplyAlways(m) == m \in TextMessages /\ conv.handler = "AI"

(* Mutant: any reply of the conversation, even an earlier one, will do. *)
NeedsFirstReply(m) ==
    m \in TextMessages /\ conv.handler = "AI" /\ replied = {}

NeedsReply(m) ==
    m \in TextMessages /\ conv.handler = "AI" /\ m \notin replied

SafetyNet(m) ==
    /\ safety[m] = 0
    /\ safety' = [safety EXCEPT ![m] = NoJob]
    /\ IF NeedsReply(m)
         THEN /\ Emit(m)
              /\ payload' = [payload EXCEPT ![m] = conv]
              /\ overtaken' = IF m \in InMemory THEN overtaken \union {m}
                                                ELSE overtaken
              /\ UNCHANGED skipped
         ELSE /\ skipped' = IF conv.handler # "AI" THEN skipped \union {m}
                                                   ELSE skipped
              /\ UNCHANGED <<listening, recent, payload, overtaken>>
    /\ UNCHANGED <<settings, convVars, arrival, agent, batch, gen, quietOn,
                   handoffs, troubles, resultVars, shaken, lost>>

-----------------------------------------------------------------------------
(* An employee tags, assigns, prioritises, annotates or closes the          *)
(* conversation: the whole row is loaded and saved.                         *)

AgentLoad ==
    /\ ~agent.on /\ troubles < MaxTroubles /\ troubles' = troubles + 1
    /\ agent' = [on |-> TRUE, copy |-> conv]
    /\ UNCHANGED <<settings, convVars, arrival, payload, safety, memoryVars,
                   handoffs, resultVars, overtaken, skipped, shaken, lost>>

AgentSave ==
    /\ agent.on
    /\ WriteRow(agent.copy)
    /\ agent' = [agent EXCEPT !.on = FALSE, !.copy = FreshRow]
    /\ UNCHANGED <<settings, arrival, payload, safety, memoryVars, ghostVars>>

-----------------------------------------------------------------------------
(* The process dies: the jobs and the rows survive, the memory does not. *)
Unrecorded == UNION {gen[g].msgs : g \in {h \in Generations : gen[h].sent}}

ReplyCrash ==
    /\ troubles < MaxTroubles /\ troubles' = troubles + 1
    /\ Forget(InMemory \ Unrecorded, Unrecorded)
    /\ listening' = {} /\ recent' = [m \in Inbound |-> 0]
    /\ batch' = NoBatch /\ quietOn' = 0
    /\ gen' = [g \in Generations |-> NoGen]
    /\ agent' = [on |-> FALSE, copy |-> FreshRow]
    /\ arrival' = [m \in Inbound |->
                     CASE arrival[m] \in {"updating", "loaded"} -> "new"
                       [] arrival[m] = "committed"             -> "stored"
                       [] OTHER                                -> arrival[m]]
    /\ UNCHANGED <<settings, convVars, payload, safety, handoffs, resultVars,
                   skipped>>

(* Mutant: a timer that is not stopped. *)
SoonerForever(n) == n - 1

Sooner(n) == IF n = 0 THEN 0 ELSE n - 1
Later(row) == [row EXCEPT !.silence = Sooner(@)]

(* What is quick has been done before time passes. *)
Urgent ==
    \/ listening # {} \/ agent.on
    \/ \E m \in Inbound : arrival[m] \in {"updating", "loaded", "committed"}
    \/ batch.on /\ batch.timer = 0
    \/ \E g \in Generations :
         \/ gen[g].pc \in {"loading", "saving"}
         \/ gen[g].pc = "thinking" /\ Silenced(gen[g].copy)
         \/ gen[g].pc = "sending" /\ gen[g].out = "empty"

ReplyTick ==
    /\ ~Urgent
    /\ conv' = Later(conv)
    /\ payload' = [m \in Inbound |-> Later(payload[m])]
    /\ agent' = [agent EXCEPT !.copy = Later(@)]
    /\ gen' = [g \in Generations |-> [gen[g] EXCEPT !.copy = Later(@)]]
    /\ recent' = [m \in Inbound |-> Sooner(recent[m])]
    /\ safety' = [m \in Inbound |-> IF safety[m] = NoJob THEN NoJob
                                                         ELSE Sooner(safety[m])]
    /\ batch' = IF batch.on
                  THEN [batch EXCEPT !.timer = Sooner(@),
                          !.age = IF @ > BufferTicks THEN @ ELSE @ + 1]
                  ELSE batch
    /\ quietOn' = Sooner(quietOn)
    /\ UNCHANGED <<settings, returned, arrival, listening, ghostVars>>

ReplyNext ==
    \/ \E m \in Inbound : \/ LoadConversation(m) \/ UpdateCustomer(m)
                          \/ StoreMessage(m) \/ QueueSafetyNet(m)
                          \/ Listen(m) \/ SafetyNet(m)
    \/ \E g \in Generations : Flush(g) \/ Generate(g)
    \/ AgentLoad \/ AgentSave \/ ReplyCrash \/ ReplyTick

ReplySpec == RepliesInit /\ [][ReplyNext]_replyVars

-----------------------------------------------------------------------------
(* A reply reaches a conversation that a human has taken only if it was      *)
(* begun before that, or announces it: neither the buffer nor the copy of   *)
(* the row in the event carries a message past the handoff                  *)
(* (processMessage, ai.service.ts:760).                                     *)
NoReplyIntoSilence ==
    \A g \in Generations :
        gen[g].pc \in Sending /\ gen[g].out # "handoff" /\ Silenced(conv)
          => gen[g].free

(* A message is answered by two replies only if the safety net looked while *)
(* it was still in memory, or its first reply left no row                   *)
(* (handleProcessIncoming, messaging.processor.ts:228).  The text of one    *)
(* reply reaches the customer again only after an attempt that reached him  *)
(* and was not confirmed, and three times at most.                          *)
OneReplyPerMessage ==
    \A m \in Inbound :
        m \in overtaken \/ answers[m] <= IF m \in resent THEN 3 ELSE 1

(* The first time a conversation comes back to the bot after a handoff, and *)
(* before its silence is over, it is by the hand of somebody who loaded the *)
(* row before the handoff.  After that, rows loaded in between may take it  *)
(* and bring it back again.                                                 *)
Copies == {payload[m] : m \in {n \in Inbound : \/ n \in listening
                                              \/ arrival[n] \in {"updating", "loaded"}}}
            \union {a.copy : a \in {b \in {agent} : b.on}}
            \union {gen[g].copy : g \in {h \in Generations :
                                       gen[h].pc \in {"thinking", "saving"}}}
SilenceKept ==
    [][~returned /\ conv.silence > 0 /\ conv'.handler = "AI"
         => \E copy \in Copies : copy.seen < handoffs]_replyVars

(* Every stored question is answered, left to a human or left with a reply  *)
(* whose row says FAILED, unless its reply was dropped, by a crash, an error *)
(* or an empty completion: after its safety net had run, or before that     *)
(* while another reply made the safety net believe it was answered.         *)
Settled(m) == \/ answers[m] > 0 \/ m \in skipped \union undelivered \/ m \in lost
              \/ m \in shaken \intersect replied
QuestionsSettled == \A m \in TextMessages : m \in Stored ~> Settled(m)

-----------------------------------------------------------------------------
(* The inductive invariants behind the safety properties                    *)

(* A reply whose conversation was silent when it began has not got past the *)
(* check that keeps it silent, and one that reached the customer is tried   *)
(* again or waits to be recorded.                                           *)
BegunInv ==
    \A g \in Generations :
        /\ \/ gen[g].pc = "idle" \/ gen[g].free
           \/ gen[g].pc = "thinking" /\ Silenced(gen[g].copy)
        /\ gen[g].sent => gen[g].pc \in {"retrying", "resending", "recording"}

(* Only a stored message is in memory, answered or watched by a job. *)
StoredFirst ==
    /\ replied \subseteq Stored
    /\ \A m \in Inbound \ Stored :
         m \notin InMemory /\ answers[m] = 0 /\ safety[m] = NoJob

(* A message that the safety net has not seen in memory is in one place     *)
(* there, where no text covers it except those of its own reply; the row of *)
(* a reply that reached the customer finds it nowhere in memory.            *)
InOnePlace(m) ==
    /\ m \in listening => m \notin batch.msgs \union InGeneration
    /\ m \in batch.msgs => m \notin InGeneration
    /\ \A g, h \in Generations : m \in gen[g].msgs /\ m \in gen[h].msgs => g = h
AwaitsRecord(m) == \E g \in Generations : gen[g].sent /\ m \in gen[g].msgs
TimesSent(pc) == CASE pc = "retrying"  -> 1
                   [] pc = "resending" -> 2
                   [] pc = "recording" -> 3
                   [] OTHER            -> 0
AnsweredOnce(m) ==
    /\ InOnePlace(m)
    /\ answers[m] <= IF m \in resent THEN 3 ELSE 1
    /\ answers[m] > 0 => AwaitsRecord(m) \/ m \in replied \ InMemory
    /\ \A g \in Generations : m \in gen[g].msgs =>
         /\ answers[m] <= TimesSent(gen[g].pc)
         /\ answers[m] > 0 /\ gen[g].pc # "recording" => m \in resent
AnsweredInv == \A m \in Inbound \ overtaken : AnsweredOnce(m)

(* Until the bot takes the conversation back, it is a human's, the copies   *)
(* that know of the last handoff all say so, and no copy is silent for      *)
(* longer.                                                                  *)
RowsAround == Copies \union {conv}
HandoffKnown ==
    /\ \A row \in RowsAround : row.seen <= handoffs
    /\ ~returned =>
         /\ conv.handler = "HUMAN"
         /\ \A row \in RowsAround : row.seen = handoffs =>
              /\ row.handler = "HUMAN" /\ row.reason = "CUSTOMER_REQUEST"
              /\ \A other \in RowsAround : other.silence <= row.silence
=============================================================================
