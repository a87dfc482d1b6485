-------------------------- MODULE ConversationProofs --------------------------
(***************************************************************************)
(* Theorems about AiReplies and WhatsAppSession, the two services that     *)
(* keep a conversation going.                                              *)
(*                                                                         *)
(* AiReplies: no reply reaches a conversation that was a human's when the  *)
(* reply began; a message is answered twice only if the safety net found   *)
(* it in memory or its first reply was not recorded; a silence ends early  *)
(* by the hand of somebody who loaded the row before the handoff.  The     *)
(* arguments follow a message from place to place, and the copies of the   *)
(* conversation's row that are around.                                     *)
(*                                                                         *)
(* WhatsAppSession: one socket listens, a closed session is given up or    *)
(* about to be replaced, and the row agrees with the session at rest.  The *)
(* last follows each kind of call from its first step to its last.         *)
(***************************************************************************)
EXTENDS AiReplies, WhatsAppSession, TLAPS

-----------------------------------------------------------------------------
(* AiReplies: types. *)

LEMMA SoonerType == ASSUME NEW b \in Nat, NEW n \in 0..b PROVE Sooner(n) \in 0..b
  BY DEF Sooner

LEMMA RowBounds ==
  /\ MaxFailures \in Nat /\ MaxHandoffs \in Nat /\ SilenceTicks \in Nat
  /\ 0 \in 0..(MaxFailures + MaxHandoffs + 1) /\ 0 \in 0..MaxHandoffs
  /\ 0 \in 0..SilenceTicks /\ SilenceTicks \in 0..SilenceTicks
  /\ 0..(MaxFailures + MaxHandoffs) \subseteq 0..(MaxFailures + MaxHandoffs + 1)
  BY RepliesAssumption DEF RepliesAssumption

LEMMA RowTypes ==
  /\ FreshRow \in Row /\ LegacyRow \in Row
  /\ \A row \in Row : Later(row) \in Row
  /\ \A row \in Row : [row EXCEPT !.handler = "AI"] \in Row
  /\ \A row \in Row : [row EXCEPT !.failed = 0] \in Row
  /\ \A row \in Row : \A n \in 0..(MaxFailures + MaxHandoffs) :
       [row EXCEPT !.failed = n] \in Row
<1>1. FreshRow \in Row
  BY RowBounds DEF FreshRow, Row, Reasons
<1>2. LegacyRow \in Row
  BY <1>1 DEF LegacyRow, Row, Reasons
<1>3. ASSUME NEW row \in Row PROVE Later(row) \in Row
  <2>1. row.silence \in 0..SilenceTicks
    BY DEF Row
  <2>2. Sooner(row.silence) \in 0..SilenceTicks
    BY <2>1, RowBounds DEF Sooner
  <2>3. Later(row) = [row EXCEPT !.silence = Sooner(row.silence)]
    BY DEF Later
  <2> QED
    BY <2>2, <2>3 DEF Row
<1>4. \A row \in Row : [row EXCEPT !.handler = "AI"] \in Row
  BY DEF Row
<1>5. \A row \in Row : [row EXCEPT !.failed = 0] \in Row
  BY RowBounds DEF Row
<1>6. ASSUME NEW row \in Row, NEW n \in 0..(MaxFailures + MaxHandoffs)
      PROVE  [row EXCEPT !.failed = n] \in Row
  <2>1. n \in 0..(MaxFailures + MaxHandoffs + 1)
    BY RowBounds
  <2> QED
    BY <2>1 DEF Row
<1> QED
  BY <1>1, <1>2, <1>3, <1>4, <1>5, <1>6

LEMMA WrittenTypes ==
  ASSUME RepliesTypeOK, NEW copy \in Row
  PROVE  /\ Recovered(copy) \in Row
         /\ handoffs < MaxHandoffs => HandedOff(copy) \in Row
<1>1. conv \in Row /\ handoffs \in 0..MaxHandoffs
  BY DEF RepliesTypeOK
<1>2. Recovered(copy) \in Row
  <2>1. copy.silence \in 0..SilenceTicks /\ copy.reason \in Reasons
    BY DEF Row
  <2> QED
    BY <1>1, <2>1, RowBounds DEF Recovered, Row
<1>3. ASSUME handoffs < MaxHandoffs PROVE HandedOff(copy) \in Row
  <2>1. handoffs + 1 \in 0..MaxHandoffs
    BY <1>1, <1>3, RowBounds
  <2> QED
    BY <2>1, RowBounds DEF HandedOff, Row, Reasons
<1> QED
  BY <1>2, <1>3

Batches == [on : BOOLEAN, msgs : SUBSET Inbound, timer : 0..BatchTicks,
            age : 0..(BufferTicks + 1)]
Gens == [pc : GenPc, msgs : SUBSET Inbound, copy : Row, out : Outcome, free : BOOLEAN,
         sent : BOOLEAN]

LEMMA Bounds ==
  /\ BatchTicks \in Nat /\ BufferTicks \in Nat /\ DedupTicks \in Nat
  /\ ThrottleTicks \in Nat /\ SafetyTicks \in Nat /\ MaxTroubles \in Nat
  /\ 0 \in 0..BatchTicks /\ BatchTicks \in 0..BatchTicks
  /\ 0 \in 0..(BufferTicks + 1) /\ 0 \in 0..DedupTicks /\ DedupTicks \in 0..DedupTicks
  /\ 0 \in 0..ThrottleTicks /\ ThrottleTicks \in 0..ThrottleTicks
  /\ SafetyTicks \in 0..NoJob /\ NoJob \in 0..NoJob /\ 0 \in 0..MaxTroubles
  BY RepliesAssumption DEF RepliesAssumption, NoJob

LEMMA NoneTypes == NoBatch \in Batches /\ NoGen \in Gens
<1>1. NoBatch \in Batches
  BY Bounds DEF NoBatch, Batches
<1>2. NoGen \in Gens
  BY RowTypes DEF NoGen, Gens, GenPc, Outcome
<1> QED
  BY <1>1, <1>2

LEMMA EmitType ==
  ASSUME RepliesTypeOK, NEW m \in Inbound, Emit(m)
  PROVE  listening' \subseteq Inbound /\ recent' \in [Inbound -> 0..DedupTicks]
  BY RepliesAssumption DEF RepliesTypeOK, RepliesAssumption, Emit

LEMMA BufferType ==
  ASSUME RepliesTypeOK, NEW m \in Inbound, BufferMessage(m)
  PROVE  batch' \in Batches
<1>1. batch \in Batches
  BY DEF RepliesTypeOK, Batches
<1>2. CASE ~batch.on
  <2>1. batch' = [on |-> TRUE, msgs |-> {m}, timer |-> BatchTicks, age |-> 0]
    BY <1>2 DEF BufferMessage
  <2> QED
    BY <2>1, Bounds DEF Batches
<1>3. CASE batch.on
  <2> DEFINE n == IF batch.age > BufferTicks THEN 0 ELSE BatchTicks
  <2>1. n \in 0..BatchTicks /\ batch.msgs \union {m} \in SUBSET Inbound
    BY <1>1, Bounds DEF Batches
  <2>2. batch' = [batch EXCEPT !.msgs = batch.msgs \union {m}, !.timer = n]
    BY <1>3 DEF BufferMessage
  <2> HIDE DEF n
  <2> QED
    BY <1>1, <2>1, <2>2 DEF Batches
<1> QED
  BY <1>2, <1>3

LEMMA AskType ==
  ASSUME RepliesTypeOK, NEW g \in Generations, NEW msgs \in SUBSET Inbound, NEW row \in Row,
         Ask(g, msgs, row)
  PROVE  gen' \in [Generations -> Gens]
  BY DEF Ask, RepliesTypeOK, Gens, GenPc, Outcome

LEMMA WriteType ==
  ASSUME RepliesTypeOK, NEW row \in Row, WriteRow(row)
  PROVE  conv' \in Row /\ returned' \in BOOLEAN
  BY DEF WriteRow, RepliesTypeOK

MessageStep(m) == LoadConversation(m) \/ UpdateCustomer(m) \/ StoreMessage(m)
                  \/ QueueSafetyNet(m) \/ Listen(m) \/ SafetyNet(m)

LEMMA MessageType ==
  ASSUME RepliesTypeOK, NEW m \in Inbound, MessageStep(m)
  PROVE  RepliesTypeOK'
<1> USE DEF RepliesTypeOK, rowVars, convVars, memoryVars, ghostVars, resultVars
<1>1. CASE LoadConversation(m)
  <2>1. troubles' \in 0..MaxTroubles
    BY <1>1, Bounds DEF LoadConversation
  <2>2. arrival' \in [Inbound -> ArrivalPc] /\ payload' \in [Inbound -> Row]
    BY <1>1 DEF LoadConversation, ArrivalPc
  <2> QED
    BY <1>1, <2>1, <2>2 DEF LoadConversation
<1>11. CASE UpdateCustomer(m)
  <2>1. conv' \in Row /\ returned' \in BOOLEAN
    BY <1>11, WriteType DEF UpdateCustomer
  <2> QED
    BY <1>11, <2>1 DEF UpdateCustomer, ArrivalPc
<1>2. CASE StoreMessage(m)
  <2>1. Emit(m)
    BY <1>2 DEF StoreMessage
  <2> QED
    BY <1>2, <2>1, EmitType DEF StoreMessage, ArrivalPc
<1>3. CASE QueueSafetyNet(m)
  <2>1. SafetyTicks \in 0..NoJob
    BY RepliesAssumption DEF RepliesAssumption, NoJob
  <2> QED
    BY <1>3, <2>1 DEF QueueSafetyNet, ArrivalPc
<1>4. CASE Listen(m)
  <2>1. /\ listening' \subseteq Inbound /\ payload' \in [Inbound -> Row]
        /\ UNCHANGED <<settings, arrival, safety, agent, recent, handoffs, troubles,
                       answers, resent, undelivered, overtaken, shaken, lost>>
    BY <1>4, RowTypes DEF Listen
  <2>2. CASE ListenText(m)
    <3>1. /\ UNCHANGED <<quietOn, replied>>
          /\ UNCHANGED skipped \/ skipped' = skipped \union {m}
      BY <2>2 DEF ListenText
    <3>2. conv' \in Row /\ returned' \in BOOLEAN
      BY <2>2, WriteType, WrittenTypes DEF ListenText
    <3>3. batch' \in Batches /\ gen' \in [Generations -> Gens]
      <4>1. TakeUp(m) \/ UNCHANGED <<batch, gen>>
        BY <2>2 DEF ListenText
      <4>2. CASE TakeUp(m)
        <5>1. CASE settings.batching
          BY <4>2, <5>1, BufferType DEF TakeUp, Gens
        <5>2. CASE ~settings.batching
          <6>1. PICK g \in Generations : Ask(g, {m}, conv') /\ UNCHANGED batch
            BY <4>2, <5>2 DEF TakeUp
          <6> QED
            BY <3>2, <6>1, AskType DEF Batches
        <5> QED
          BY <5>1, <5>2
      <4> QED
        BY <4>1, <4>2 DEF Batches, Gens
    <3> QED
      BY <2>1, <3>1, <3>2, <3>3 DEF Batches, Gens
  <2>3. CASE ListenOther(m)
    <3>1. /\ UNCHANGED <<conv, returned, batch, gen, skipped>>
          /\ quietOn' \in 0..ThrottleTicks /\ replied' \subseteq Inbound
      BY <2>3, RepliesAssumption DEF RepliesAssumption, ListenOther, AiRow, Stored
    <3> QED
      BY <2>1, <3>1
  <2> QED
    BY <1>4, <2>2, <2>3 DEF Listen
<1>5. CASE SafetyNet(m)
  <2>1. safety' \in [Inbound -> 0..NoJob]
    BY <1>5, RepliesAssumption DEF SafetyNet, NoJob, RepliesAssumption
  <2>2. /\ listening' \subseteq Inbound /\ recent' \in [Inbound -> 0..DedupTicks]
        /\ payload' \in [Inbound -> Row] /\ overtaken' \subseteq Inbound
        /\ skipped' \subseteq Inbound
    BY <1>5, EmitType DEF SafetyNet
  <2> QED
    BY <1>5, <2>1, <2>2 DEF SafetyNet
<1> QED
  BY <1>1, <1>11, <1>2, <1>3, <1>4, <1>5 DEF MessageStep

LEMMA ForgetType ==
  ASSUME RepliesTypeOK, NEW dropped \in SUBSET Inbound, NEW unrecorded \in SUBSET Inbound,
         Forget(dropped, unrecorded)
  PROVE  /\ lost' \subseteq Inbound /\ shaken' \subseteq Inbound
         /\ overtaken' \subseteq Inbound
  BY DEF Forget, RepliesTypeOK

LEMMA GenerationType ==
  ASSUME RepliesTypeOK, NEW g \in Generations, Flush(g) \/ Generate(g)
  PROVE  RepliesTypeOK'
<1> USE DEF RepliesTypeOK, rowVars, convVars, memoryVars, ghostVars,
        resultVars
<1>0. /\ gen \in [Generations -> Gens] /\ gen[g] \in Gens /\ gen[g].copy \in Row
      /\ gen[g].msgs \subseteq Inbound
      /\ FreshRow \in Row
  BY RowTypes DEF Gens
<1>1. CASE Flush(g)
  <2>1. gen' \in [Generations -> Gens]
    BY <1>1, AskType DEF Flush
  <2> QED
    BY <1>1, <2>1, NoneTypes DEF Flush, Batches, Gens
<1>2. CASE KeepSilent(g)
  <2>1. gen' \in [Generations -> Gens]
    BY <1>0, <1>2, NoneTypes DEF KeepSilent, Finish
  <2> QED
    BY <1>0, <1>2, <2>1 DEF KeepSilent, Gens
<1>3. ASSUME NEW out \in Outcome \ {"none"}, Think(g, out) PROVE RepliesTypeOK'
  <2>1. conv' \in Row /\ returned' \in BOOLEAN
    BY <1>3, RowTypes, WriteType DEF Think, WakeUp
  <2>2. gen' \in [Generations -> Gens]
    BY <1>0, <1>3 DEF Think, Gens, GenPc, Sending
  <2> QED
    BY <1>3, <2>1, <2>2 DEF Think, Gens
<1>4. CASE LoadRow(g)
  <2>1. gen' \in [Generations -> Gens]
    BY <1>0, <1>4 DEF LoadRow, Gens, GenPc, Sending
  <2> QED
    BY <1>4, <2>1 DEF LoadRow, Gens
<1>5. CASE SaveHandoff(g)
  <2>1. gen' \in [Generations -> Gens]
    BY <1>0, <1>5 DEF SaveHandoff, Gens, GenPc, Sending
  <2>2. conv' \in Row /\ handoffs' \in 0..MaxHandoffs /\ returned' \in BOOLEAN
    <3>1. handoffs < MaxHandoffs /\ conv' = HandedOff(gen[g].copy)
          /\ handoffs' = handoffs + 1 /\ returned' = FALSE
      BY <1>5 DEF SaveHandoff
    <3>2. HandedOff(gen[g].copy) \in Row
      BY <1>0, <3>1, WrittenTypes
    <3>3. handoffs \in 0..MaxHandoffs
      OBVIOUS
    <3>4. handoffs + 1 \in 0..MaxHandoffs
      BY <3>1, <3>3, RowBounds
    <3> QED
      BY <3>1, <3>2, <3>4
  <2> QED
    BY <1>5, <2>1, <2>2 DEF SaveHandoff, Gens
<1>6. CASE SaveAnswer(g)
  <2>1. gen' \in [Generations -> Gens]
    BY <1>0, <1>6 DEF SaveAnswer, Gens, GenPc, Sending, Outcome, AskLanguageModel
  <2>2. conv' \in Row /\ returned' \in BOOLEAN
    BY <1>0, <1>6, RowTypes, WriteType DEF SaveAnswer
  <2> QED
    BY <1>6, <2>1, <2>2 DEF SaveAnswer, Gens
<1>7. CASE SaveNoMatch(g)
  <2>1. gen' \in [Generations -> Gens]
    BY <1>0, <1>7 DEF SaveNoMatch, Gens, GenPc, Sending, Outcome, CheckDirectHandoff, AskLanguageModel
  <2>2. gen[g].copy.failed + 1 \in 0..(MaxFailures + MaxHandoffs)
    BY <1>0, <1>7, RepliesAssumption DEF SaveNoMatch, Row, RepliesAssumption
  <2>3. conv' \in Row /\ returned' \in BOOLEAN
    BY <1>0, <1>7, <2>2, RowTypes, WriteType DEF SaveNoMatch
  <2> QED
    BY <1>7, <2>1, <2>3 DEF SaveNoMatch, Gens
<1>8. CASE SendReply(g)
  <2>1. PICK outcome \in {"id", "noId", "error"}, reaches \in BOOLEAN :
          Attempt(g, outcome, reaches)
    BY <1>8 DEF SendReply
  <2>2. AfterAttempt(gen[g].pc, outcome) \in GenPc /\ "plain" \in Outcome
    BY DEF AfterAttempt, GenPc, Sending, Outcome, AskLanguageModel
  <2>3. gen' \in [Generations -> Gens]
    BY <1>0, <2>1, <2>2 DEF Attempt, Gens
  <2>4. answers' \in [Inbound -> 0..4]
    BY <2>1 DEF Attempt
  <2>5. troubles' \in 0..MaxTroubles /\ resent' \subseteq Inbound
    BY <1>0, <2>1, Bounds DEF Attempt
  <2> QED
    BY <1>8, <2>3, <2>4, <2>5 DEF SendReply, Gens
<1>81. CASE DropEmpty(g)
  <2>1. gen' \in [Generations -> Gens]
    BY <1>0, <1>81, NoneTypes DEF DropEmpty, Finish
  <2>2. lost' \subseteq Inbound /\ shaken' \subseteq Inbound /\ overtaken' \subseteq Inbound
    <3>1. {} \in SUBSET Inbound /\ Forget(gen[g].msgs, {})
      BY <1>81 DEF DropEmpty
    <3> QED
      BY <1>0, <3>1, ForgetType
  <2> QED
    BY <1>81, <2>1, <2>2 DEF DropEmpty, Gens
<1>9. CASE RecordReply(g)
  <2>1. gen' \in [Generations -> Gens]
    BY <1>0, <1>9, NoneTypes DEF RecordReply, Finish
  <2>2. undelivered' \subseteq Inbound
    BY <1>0, <1>9 DEF RecordReply
  <2> QED
    BY <1>9, <2>1, <2>2 DEF RecordReply, AiRow, Stored, Gens
<1>10. CASE ReplyFails(g)
  <2>1. gen' \in [Generations -> Gens]
    BY <1>0, <1>10, NoneTypes DEF ReplyFails, Finish
  <2>2. lost' \subseteq Inbound /\ shaken' \subseteq Inbound /\ overtaken' \subseteq Inbound
    <3>1. {} \in SUBSET Inbound /\ gen[g].msgs \in SUBSET Inbound
      BY <1>0
    <3>2. CASE gen[g].sent
      <4>1. Forget({}, gen[g].msgs)
        BY <1>10, <3>2 DEF ReplyFails
      <4> QED
        BY <3>1, <4>1, ForgetType
    <3>3. CASE ~gen[g].sent
      <4>1. Forget(gen[g].msgs, {})
        BY <1>10, <3>3 DEF ReplyFails
      <4> QED
        BY <3>1, <4>1, ForgetType
    <3> QED
      BY <3>2, <3>3
  <2>3. troubles' \in 0..MaxTroubles
    BY <1>10, RepliesAssumption DEF ReplyFails, RepliesAssumption
  <2> QED
    BY <1>10, <2>1, <2>2, <2>3 DEF ReplyFails, Gens
<1> QED
  BY <1>1, <1>2, <1>3, <1>4, <1>5, <1>6, <1>7, <1>8, <1>81, <1>9, <1>10
     DEF Generate

LEMMA OtherRepliesType ==
  ASSUME RepliesTypeOK, AgentLoad \/ AgentSave \/ ReplyCrash \/ ReplyTick
  PROVE  RepliesTypeOK'
<1> USE RepliesAssumption DEF RepliesAssumption, RepliesTypeOK, rowVars, convVars,
        memoryVars, ghostVars, resultVars
<1>1. CASE AgentLoad
  BY <1>1 DEF AgentLoad
<1>2. CASE AgentSave
  <2>1. conv' \in Row /\ returned' \in BOOLEAN
    BY <1>2, WriteType DEF AgentSave
  <2> QED
    BY <1>2, <2>1, RowTypes DEF AgentSave
<1>3. CASE ReplyCrash
  <2>1. InMemory \subseteq Inbound /\ Unrecorded \subseteq Inbound
    BY DEF InMemory, InGeneration, Unrecorded
  <2>2. lost' \subseteq Inbound /\ shaken' \subseteq Inbound /\ overtaken' \subseteq Inbound
    BY <1>3, <2>1, ForgetType DEF ReplyCrash
  <2>3. arrival' \in [Inbound -> ArrivalPc]
    BY <1>3 DEF ReplyCrash, ArrivalPc
  <2>4. batch' \in Batches /\ gen' \in [Generations -> Gens]
    BY <1>3, NoneTypes DEF ReplyCrash
  <2> QED
    BY <1>3, <2>2, <2>3, <2>4, RowTypes DEF ReplyCrash, Batches, Gens
<1>4. CASE ReplyTick
  <2>1. conv' \in Row /\ payload' \in [Inbound -> Row]
    BY <1>4, RowTypes DEF ReplyTick
  <2>2. agent' \in [on : BOOLEAN, copy : Row]
    BY <1>4, RowTypes DEF ReplyTick
  <2>3. gen' \in [Generations -> Gens]
    <3>1. ASSUME NEW h \in Generations
          PROVE  [gen[h] EXCEPT !.copy = Later(gen[h].copy)] \in Gens
      <4>1. gen[h] \in Gens /\ Later(gen[h].copy) \in Row
        BY RowTypes DEF Gens
      <4> QED
        BY <4>1 DEF Gens
    <3> QED
      BY <1>4, <3>1 DEF ReplyTick
  <2>4. recent' \in [Inbound -> 0..DedupTicks]
    <3>1. \A m \in Inbound : Sooner(recent[m]) \in 0..DedupTicks
      BY Bounds DEF Sooner
    <3> QED
      BY <1>4, <3>1 DEF ReplyTick
  <2>41. safety' \in [Inbound -> 0..NoJob]
    <3>1. \A m \in Inbound : Sooner(safety[m]) \in 0..NoJob /\ NoJob \in 0..NoJob
      BY Bounds DEF Sooner, NoJob
    <3> QED
      BY <1>4, <3>1 DEF ReplyTick
  <2>5. batch' \in Batches
    <3>1. CASE batch.on
      <4> DEFINE n == IF batch.age > BufferTicks THEN batch.age ELSE batch.age + 1
      <4>0. batch.timer \in 0..BatchTicks /\ batch.age \in 0..(BufferTicks + 1)
        OBVIOUS
      <4>1. Sooner(batch.timer) \in 0..BatchTicks
        BY <4>0, Bounds, SoonerType
      <4>3. n \in 0..(BufferTicks + 1)
        <5>1. batch.age \in Int /\ BufferTicks \in Int /\ 0 <= batch.age
              /\ batch.age <= BufferTicks + 1
          BY <4>0, Bounds
        <5>2. ~(batch.age > BufferTicks) => batch.age + 1 \in 0..(BufferTicks + 1)
          BY <5>1
        <5> QED
          BY <4>0, <5>2
      <4>2. batch' = [batch EXCEPT !.timer = Sooner(batch.timer), !.age = n]
        BY <1>4, <3>1 DEF ReplyTick
      <4> HIDE DEF n
      <4> QED
        BY <4>1, <4>2, <4>3 DEF Batches
    <3>2. CASE ~batch.on
      BY <1>4, <3>2 DEF ReplyTick, Batches
    <3> QED
      BY <3>1, <3>2
  <2>6. quietOn' \in 0..ThrottleTicks
    BY <1>4 DEF ReplyTick, Sooner
  <2> QED
    BY <1>4, <2>1, <2>2, <2>3, <2>4, <2>41, <2>5, <2>6 DEF ReplyTick, Batches, Gens
<1> QED
  BY <1>1, <1>2, <1>3, <1>4

LEMMA RepliesTypeStep == RepliesTypeOK /\ [ReplyNext]_replyVars => RepliesTypeOK'
<1>1. RepliesTypeOK /\ UNCHANGED replyVars => RepliesTypeOK'
  BY DEF RepliesTypeOK, replyVars, rowVars, convVars, memoryVars, ghostVars,
        resultVars
<1> QED
  BY <1>1, MessageType, GenerationType, OtherRepliesType DEF ReplyNext, MessageStep

LEMMA RepliesInitType == RepliesInit => RepliesTypeOK
<1> SUFFICES ASSUME RepliesInit PROVE RepliesTypeOK
  OBVIOUS
<1>1. /\ 0 \in 0..DedupTicks /\ NoJob \in 0..NoJob /\ 0 \in 0..ThrottleTicks
      /\ 0 \in 0..MaxHandoffs /\ 0 \in 0..MaxTroubles
  BY RepliesAssumption DEF RepliesAssumption, NoJob
<1> QED
  BY <1>1, RowTypes, NoneTypes DEF RepliesInit, RepliesTypeOK, Batches, Gens, ArrivalPc

(* The values of the conversation's row, of its copies and of the memory of the process
   are those its handlers may meet. *)
THEOREM RepliesTypeCorrect == ReplySpec => []RepliesTypeOK
  BY RepliesInitType, RepliesTypeStep, PTL DEF ReplySpec

-----------------------------------------------------------------------------
LEMMA CopyTypes ==
  ASSUME RepliesTypeOK
  PROVE  /\ RowsAround \subseteq Row /\ conv \in RowsAround
         /\ \A row \in Row : row.silence \in 0..SilenceTicks /\ row.seen \in 0..MaxHandoffs
  BY DEF RepliesTypeOK, RowsAround, Copies, Row

(* A reply begun while the conversation was silent is still the one that looks at the
   row and keeps silent: no time passes between its load and its check. *)
LEMMA BegunStep ==
  ASSUME RepliesTypeOK, BegunInv, [ReplyNext]_replyVars
  PROVE  BegunInv'
<1> USE DEF BegunInv, Silenced, rowVars, memoryVars, convVars
<1>0. settings' = settings
  BY DEF ReplyNext, replyVars, ghostVars, LoadConversation, UpdateCustomer, StoreMessage,
         QueueSafetyNet, Listen, SafetyNet, Flush, Generate, KeepSilent, Think, LoadRow,
         SaveHandoff, SaveAnswer, SaveNoMatch, DropEmpty, SendReply, RecordReply, ReplyFails,
         AgentLoad, AgentSave,
         ReplyCrash, ReplyTick
<1>a. ASSUME NEW g \in Generations, NEW msgs, Ask(g, msgs, conv') PROVE BegunInv'
  BY <1>0, <1>a DEF Ask, RepliesTypeOK
<1>f. ASSUME NEW g \in Generations, Finish(g) PROVE BegunInv'
  BY <1>0, <1>f DEF Finish, NoGen, RepliesTypeOK
<1>u. ASSUME UNCHANGED gen PROVE BegunInv'
  BY <1>0, <1>u
<1>1. ASSUME NEW m \in Inbound, MessageStep(m) PROVE BegunInv'
  <2>1. CASE UNCHANGED gen
    BY <2>1, <1>u
  <2>2. CASE \E g \in Generations : Ask(g, {m}, conv')
    BY <2>2, <1>a
  <2> QED
    BY <1>1, <2>1, <2>2 DEF MessageStep, LoadConversation, UpdateCustomer, StoreMessage, QueueSafetyNet,
       SafetyNet, Listen, ListenText, ListenOther, TakeUp
<1>2. ASSUME NEW g \in Generations, Flush(g) PROVE BegunInv'
  <2>1. Ask(g, batch.msgs, conv')
    BY <1>2 DEF Flush, Ask
  <2> QED
    BY <2>1, <1>a
<1>3. ASSUME NEW g \in Generations, Generate(g) PROVE BegunInv'
  <2>1. CASE KeepSilent(g) \/ DropEmpty(g) \/ RecordReply(g) \/ ReplyFails(g)
    BY <2>1, <1>f DEF KeepSilent, DropEmpty, RecordReply, ReplyFails
  <2>2. CASE \E out \in Outcome \ {"none"} : Think(g, out)
    BY <1>0, <2>2 DEF Think, RepliesTypeOK
  <2>3. CASE LoadRow(g) \/ SaveHandoff(g) \/ SaveAnswer(g) \/ SaveNoMatch(g)
    BY <1>0, <2>3 DEF LoadRow, SaveHandoff, SaveAnswer, SaveNoMatch, RepliesTypeOK
  <2>4. CASE SendReply(g)
    <3>1. gen[g].pc \in Sending /\ settings' = settings
      BY <1>0, <2>4 DEF SendReply
    <3>2. /\ \A h \in Generations \ {g} : gen'[h] = gen[h]
          /\ gen'[g].free = gen[g].free
      BY <2>4 DEF SendReply, Attempt, RepliesTypeOK
    <3>3. gen[g].free
      BY <3>1 DEF Sending
    <3>4. gen'[g].pc \in {"retrying", "resending", "recording"}
          \/ (gen'[g].sent = FALSE)
      <4>1. PICK outcome \in {"id", "noId", "error"}, reaches \in BOOLEAN :
              Attempt(g, outcome, reaches)
        BY <2>4 DEF SendReply
      <4>2. gen'[g].pc = AfterAttempt(gen[g].pc, outcome)
        BY <4>1 DEF Attempt, RepliesTypeOK
      <4> QED
        BY <3>1, <4>2 DEF AfterAttempt, Sending
    <3> QED
      BY <3>1, <3>2, <3>3, <3>4
  <2> QED
    BY <1>3, <2>1, <2>2, <2>3, <2>4 DEF Generate
<1>4. CASE ReplyCrash
  BY <1>4 DEF ReplyCrash, NoGen
<1>5. CASE ReplyTick
  BY <1>0, <1>5 DEF ReplyTick, Urgent, RepliesTypeOK
<1>6. CASE AgentLoad \/ AgentSave \/ UNCHANGED replyVars
  BY <1>6, <1>u DEF AgentLoad, AgentSave, replyVars
<1> QED
  BY <1>1, <1>2, <1>3, <1>4, <1>5, <1>6 DEF ReplyNext, MessageStep

(* A reply that begins while the conversation is silent is given up: nothing is sent
   into the silence by a generation that began after the handoff was saved. *)
THEOREM SilentBegun == ReplySpec => []NoReplyIntoSilence
<1>1. RepliesInit => BegunInv
  BY DEF RepliesInit, BegunInv, NoGen
<1>2. BegunInv => NoReplyIntoSilence
  BY DEF BegunInv, NoReplyIntoSilence, Sending
<1>3. ReplySpec => []RepliesTypeOK
  BY RepliesTypeCorrect
<1> QED
  BY <1>1, <1>2, <1>3, BegunStep, PTL DEF ReplySpec

LEMMA InMemoryMeans ==
  \A m : /\ m \in InGeneration <=> \E g \in Generations : m \in gen[g].msgs
         /\ m \in InMemory <=> \/ m \in listening \/ m \in batch.msgs
                               \/ \E g \in Generations : m \in gen[g].msgs
  BY DEF InGeneration, InMemory

Remains(n) == /\ n \in listening' => n \in listening
              /\ n \in batch'.msgs => n \in batch.msgs
              /\ \A h \in Generations : n \in gen'[h].msgs => n \in gen[h].msgs

LEMMA ForgetsOnly ==
  ASSUME NEW dropped, NEW unrecorded, Forget(dropped, unrecorded)
  PROVE  overtaken' = overtaken \union unrecorded
  BY DEF Forget

(* What a message's own steps and the flush of the buffer do not move stays where it is. *)
LEMMA GenRemains ==
  ASSUME RepliesTypeOK, NEW n \in Inbound, NEW g \in Generations, Generate(g)
  PROVE  Remains(n)
<1> USE DEF Remains, RepliesTypeOK, rowVars, memoryVars, ghostVars, convVars,
        resultVars
<1>1. CASE KeepSilent(g) \/ DropEmpty(g) \/ RecordReply(g) \/ ReplyFails(g)
  <2>1. UNCHANGED <<listening, batch>> /\ Finish(g)
    BY <1>1 DEF KeepSilent, DropEmpty, RecordReply, ReplyFails
  <2> QED
    BY <2>1 DEF Finish, NoGen
<1>2. CASE \E out \in Outcome \ {"none"} : Think(g, out)
  BY <1>2 DEF Think
<1>3. CASE LoadRow(g) \/ SaveHandoff(g) \/ SaveAnswer(g)
  BY <1>3 DEF LoadRow, SaveHandoff, SaveAnswer
<1>5. CASE SendReply(g)
  <2>1. UNCHANGED <<listening, batch>> /\ \A h \in Generations : gen'[h].msgs = gen[h].msgs
    BY <1>5 DEF SendReply, Attempt
  <2> QED
    BY <2>1
<1>4. CASE SaveNoMatch(g)
  BY <1>4 DEF SaveNoMatch
<1> QED
  BY <1>1, <1>2, <1>3, <1>4, <1>5 DEF Generate

LEMMA MessageRemains ==
  ASSUME RepliesTypeOK, NEW n \in Inbound, NEW m \in Inbound, m # n, MessageStep(m)
  PROVE  Remains(n)
<1> USE DEF Remains, RepliesTypeOK, rowVars, memoryVars, ghostVars, convVars,
        resultVars
<1>1. CASE LoadConversation(m) \/ UpdateCustomer(m) \/ QueueSafetyNet(m)
  BY <1>1 DEF LoadConversation, UpdateCustomer, QueueSafetyNet
<1>2. CASE StoreMessage(m) \/ SafetyNet(m)
  BY <1>2 DEF StoreMessage, SafetyNet, Emit
<1>3. CASE Listen(m)
  <2>1. listening' = listening \ {m}
    BY <1>3 DEF Listen
  <2>2. CASE UNCHANGED <<batch, gen>>
    BY <2>1, <2>2
  <2>3. CASE BufferMessage(m) /\ UNCHANGED gen
    <3>1. batch'.msgs \subseteq batch.msgs \union {m}
      <4>1. CASE ~batch.on
        BY <2>3, <4>1 DEF BufferMessage
      <4>2. CASE batch.on
        BY <2>3, <4>2 DEF BufferMessage
      <4> QED
        BY <4>1, <4>2
    <3> QED
      BY <2>1, <2>3, <3>1
  <2>4. CASE \E g \in Generations : Ask(g, {m}, conv') /\ UNCHANGED batch
    BY <2>1, <2>4 DEF Ask
  <2> QED
    BY <1>3, <2>2, <2>3, <2>4 DEF Listen, ListenText, ListenOther, TakeUp
<1> QED
  BY <1>1, <1>2, <1>3 DEF MessageStep

LEMMA OtherRemains ==
  ASSUME RepliesTypeOK, NEW n \in Inbound,
         AgentLoad \/ AgentSave \/ ReplyCrash \/ ReplyTick \/ UNCHANGED replyVars
  PROVE  Remains(n)
<1> USE DEF Remains, RepliesTypeOK, rowVars, memoryVars, ghostVars, convVars,
        resultVars
<1>1. CASE AgentLoad \/ AgentSave \/ UNCHANGED replyVars
  BY <1>1 DEF AgentLoad, AgentSave, replyVars
<1>2. CASE ReplyCrash
  BY <1>2 DEF ReplyCrash, NoBatch, NoGen
<1>3. CASE ReplyTick
  BY <1>3 DEF ReplyTick
<1> QED
  BY <1>1, <1>2, <1>3

LEMMA StoredGrows ==
  ASSUME RepliesTypeOK, [ReplyNext]_replyVars
  PROVE  /\ Stored \subseteq Stored'
         /\ replied' = replied \/ replied' = Stored
<1> USE DEF RepliesTypeOK, rowVars, memoryVars, ghostVars, convVars,
        resultVars, Stored
<1>1. ASSUME NEW m \in Inbound, MessageStep(m)
      PROVE  Stored \subseteq Stored' /\ (replied' = replied \/ replied' = Stored)
  BY <1>1 DEF MessageStep, LoadConversation, UpdateCustomer, StoreMessage, QueueSafetyNet, Listen,
     ListenText, ListenOther, AiRow, SafetyNet
<1>2. ASSUME NEW g \in Generations, Flush(g) \/ Generate(g)
      PROVE  Stored \subseteq Stored' /\ (replied' = replied \/ replied' = Stored)
  BY <1>2 DEF Flush, Generate, KeepSilent, Think, LoadRow, SaveHandoff, SaveAnswer,
     SaveNoMatch, DropEmpty, SendReply, RecordReply, ReplyFails, AiRow
<1>3. CASE AgentLoad \/ AgentSave \/ ReplyTick \/ UNCHANGED replyVars
  BY <1>3 DEF AgentLoad, AgentSave, ReplyTick, replyVars
<1>4. CASE ReplyCrash
  BY <1>4 DEF ReplyCrash
<1> QED
  BY <1>1, <1>2, <1>3, <1>4 DEF ReplyNext, MessageStep

(* A step answers the messages of the reply that is being sent, and no others. *)
LEMMA AnswersCount ==
  ASSUME RepliesTypeOK, [ReplyNext]_replyVars, NEW n \in Inbound
  PROVE  \/ answers'[n] = answers[n]
         \/ \E g \in Generations : SendReply(g) /\ n \in gen[g].msgs
<1> USE DEF RepliesTypeOK, rowVars, memoryVars, ghostVars, convVars,
        resultVars
<1>1. ASSUME NEW m \in Inbound, MessageStep(m) PROVE answers' = answers
  BY <1>1 DEF MessageStep, LoadConversation, UpdateCustomer, StoreMessage, QueueSafetyNet, Listen, SafetyNet
<1>2. ASSUME NEW g \in Generations, SendReply(g)
      PROVE  answers'[n] = answers[n] \/ n \in gen[g].msgs
  BY <1>2 DEF SendReply, Attempt
<1>3. ASSUME NEW g \in Generations, Flush(g) \/ Generate(g), ~SendReply(g)
      PROVE  answers' = answers
  BY <1>3 DEF Flush, Generate, KeepSilent, Think, LoadRow, SaveHandoff, SaveAnswer,
     SaveNoMatch, DropEmpty, RecordReply, ReplyFails
<1>4. CASE AgentLoad \/ AgentSave \/ ReplyTick \/ ReplyCrash \/ UNCHANGED replyVars
  BY <1>4 DEF AgentLoad, AgentSave, ReplyTick, ReplyCrash, replyVars
<1> QED
  BY <1>1, <1>2, <1>3, <1>4 DEF ReplyNext, MessageStep

LEMMA JobsKept ==
  ASSUME RepliesTypeOK, [ReplyNext]_replyVars, NEW n \in Inbound, safety[n] = NoJob
  PROVE  safety'[n] = NoJob \/ QueueSafetyNet(n)
<1> USE DEF RepliesTypeOK, rowVars, memoryVars, ghostVars, convVars,
        resultVars
<1>1. ASSUME NEW m \in Inbound, MessageStep(m) PROVE safety'[n] = NoJob \/ QueueSafetyNet(n)
  BY <1>1 DEF MessageStep, LoadConversation, UpdateCustomer, StoreMessage, QueueSafetyNet, Listen, SafetyNet
<1>2. ASSUME NEW g \in Generations, Flush(g) \/ Generate(g) PROVE safety' = safety
  BY <1>2 DEF Flush, Generate, KeepSilent, Think, LoadRow, SaveHandoff, SaveAnswer,
     SaveNoMatch, DropEmpty, SendReply, RecordReply, ReplyFails
<1>3. CASE AgentLoad \/ AgentSave \/ ReplyCrash \/ UNCHANGED replyVars
  BY <1>3 DEF AgentLoad, AgentSave, ReplyCrash, replyVars
<1>4. CASE ReplyTick
  BY <1>4 DEF ReplyTick
<1> QED
  BY <1>1, <1>2, <1>3, <1>4 DEF ReplyNext, MessageStep

LEMMA StoredFirstStep ==
  ASSUME RepliesTypeOK, StoredFirst, [ReplyNext]_replyVars
  PROVE  StoredFirst'
<1>1. replied' \subseteq Stored'
  BY StoredGrows DEF StoredFirst
<1>2. ASSUME NEW n \in Inbound, n \notin Stored'
      PROVE  n \notin InMemory' /\ answers'[n] = 0 /\ safety'[n] = NoJob
  <2>1. n \notin Stored /\ n \notin InMemory /\ answers[n] = 0 /\ safety[n] = NoJob
    BY <1>2, StoredGrows DEF StoredFirst
  <2>2. answers'[n] = 0
    BY <2>1, AnswersCount, InMemoryMeans
  <2>3. ~QueueSafetyNet(n) /\ ~StoreMessage(n)
    BY <1>2 DEF QueueSafetyNet, StoreMessage, Stored, RepliesTypeOK
  <2>4. safety'[n] = NoJob
    BY <2>1, <2>3, JobsKept
  <2>5. ~Listen(n) /\ ~SafetyNet(n)
    BY <2>1, RepliesAssumption
       DEF Listen, SafetyNet, InMemory, NoJob, RepliesAssumption
  <2>6. CASE Remains(n)
    <3>1. /\ n \notin listening' /\ n \notin batch'.msgs
          /\ \A h \in Generations : n \notin gen'[h].msgs
      BY <2>1, <2>6, InMemoryMeans DEF Remains
    <3> QED
      BY <2>2, <2>4, <3>1 DEF InMemory, InGeneration
  <2>7. CASE \E g \in Generations : Flush(g)
    <3>1. /\ n \notin listening' /\ n \notin batch'.msgs
          /\ \A h \in Generations : n \notin gen'[h].msgs
      BY <2>1, <2>7, InMemoryMeans DEF Flush, Ask, NoBatch, RepliesTypeOK
    <3> QED
      BY <2>2, <2>4, <3>1 DEF InMemory, InGeneration
  <2>8. CASE LoadConversation(n) \/ UpdateCustomer(n)
    BY <2>6, <2>8 DEF Remains, LoadConversation, UpdateCustomer, memoryVars
  <2> QED
    BY <2>3, <2>5, <2>6, <2>7, <2>8, GenRemains, MessageRemains, OtherRemains
       DEF ReplyNext, MessageStep
<1> QED
  BY <1>1, <1>2 DEF StoredFirst

-----------------------------------------------------------------------------
Waits(n) == \A h \in Generations :
    /\ gen[h].sent /\ n \in gen[h].msgs => gen'[h].sent /\ n \in gen'[h].msgs
    /\ n \in gen'[h].msgs => \/ gen'[h].pc = gen[h].pc
                             \/ gen[h].pc \notin {"retrying", "resending", "recording"}

LEMMA TimesSentBounds ==
  \A pc : /\ TimesSent(pc) \in 0..3
          /\ pc \notin {"retrying", "resending", "recording"} => TimesSent(pc) = 0
  BY DEF TimesSent

(* A message that stays where it is, is not answered, and whose reply still waits to be
   recorded if it waited. *)
LEMMA OnceRemains ==
  ASSUME RepliesTypeOK, NEW n \in Inbound, AnsweredOnce(n), Remains(n), Waits(n),
         answers'[n] = answers[n], resent' = resent, replied \subseteq replied'
  PROVE  AnsweredOnce(n)'
<1> USE DEF Remains
<1>1. n \in InMemory' => n \in InMemory
  BY DEF InMemory, InGeneration
<1>2. n \in InGeneration' => n \in InGeneration
  BY DEF InGeneration
<1>3. InOnePlace(n)'
  BY <1>2 DEF AnsweredOnce, InOnePlace
<1>4. AwaitsRecord(n) => AwaitsRecord(n)'
  BY DEF AwaitsRecord, Waits
<1>5. ASSUME NEW h \in Generations, n \in gen'[h].msgs
      PROVE  /\ answers'[n] <= TimesSent(gen'[h].pc)
             /\ answers'[n] > 0 /\ gen'[h].pc # "recording" => n \in resent'
  <2>1. n \in gen[h].msgs /\ answers[n] \in Nat
    BY <1>5 DEF RepliesTypeOK
  <2>2. /\ answers[n] <= TimesSent(gen[h].pc)
        /\ answers[n] > 0 /\ gen[h].pc # "recording" => n \in resent
    BY <2>1 DEF AnsweredOnce
  <2>3. CASE gen'[h].pc = gen[h].pc
    BY <2>2, <2>3
  <2>4. CASE gen[h].pc \notin {"retrying", "resending", "recording"}
    BY <2>1, <2>2, <2>4, TimesSentBounds
  <2> QED
    BY <1>5, <2>3, <2>4 DEF Waits
<1> QED
  BY <1>1, <1>3, <1>4, <1>5 DEF AnsweredOnce

(* A message in memory and in no reply that waits to be recorded is not answered. *)
LEMMA NotYetAnswered ==
  ASSUME RepliesTypeOK, NEW n \in Inbound, AnsweredOnce(n), ~AwaitsRecord(n),
         n \in InMemory \/ n \notin replied
  PROVE  answers[n] = 0
  BY DEF AnsweredOnce, RepliesTypeOK

(* A message that comes to one place and was in no reply. *)
LEMMA OnceMoves ==
  ASSUME NEW n \in Inbound, answers'[n] = 0, InOnePlace(n)'
  PROVE  AnsweredOnce(n)'
<1>1. \A pc : 0 <= TimesSent(pc)
  BY TimesSentBounds
<1> QED
  BY <1>1 DEF AnsweredOnce

LEMMA AskWaits ==
  ASSUME RepliesTypeOK, BegunInv, NEW n \in Inbound, NEW g \in Generations, NEW msgs, NEW row,
         Ask(g, msgs, row)
  PROVE  Waits(n)
<1>1. gen[g].pc = "idle" /\ ~gen[g].sent
  BY DEF Ask, BegunInv
<1>2. \A h \in Generations \ {g} : gen'[h] = gen[h]
  BY DEF Ask, RepliesTypeOK
<1> QED
  BY <1>1, <1>2 DEF Waits

LEMMA MessageOnce ==
  ASSUME RepliesTypeOK, BegunInv, StoredFirst, NEW n \in Inbound, AnsweredOnce(n), n \notin overtaken',
         NEW m \in Inbound, MessageStep(m)
  PROVE  AnsweredOnce(n)'
<1> USE DEF RepliesTypeOK, rowVars, memoryVars, ghostVars, convVars,
        resultVars
<1>1. /\ answers' = answers /\ resent' = resent
      /\ replied \subseteq replied'
  BY DEF MessageStep, LoadConversation, UpdateCustomer, StoreMessage, QueueSafetyNet, Listen,
     ListenText, ListenOther, AiRow, SafetyNet, StoredFirst
<1>2. Waits(n)
  <2>1. UNCHANGED gen \/ \E g \in Generations : Ask(g, {m}, conv')
    BY DEF MessageStep, LoadConversation, UpdateCustomer, StoreMessage, QueueSafetyNet, Listen,
       ListenText, ListenOther, TakeUp, SafetyNet
  <2> QED
    BY <2>1, AskWaits DEF Waits
<1>3. CASE m # n \/ LoadConversation(m) \/ UpdateCustomer(m) \/ QueueSafetyNet(m)
  <2>1. Remains(n)
    BY <1>3, MessageRemains DEF LoadConversation, UpdateCustomer, QueueSafetyNet, Remains
  <2> QED
    BY <1>1, <1>2, <2>1, OnceRemains
<1>4. CASE m = n /\ (StoreMessage(m) \/ (SafetyNet(m) /\ NeedsReply(m)))
  <2>1. n \notin InMemory
    <3>1. CASE StoreMessage(m)
      BY <1>4, <3>1 DEF StoreMessage, StoredFirst, Stored
    <3>2. CASE SafetyNet(m) /\ NeedsReply(m)
      BY <1>4, <3>2 DEF SafetyNet
    <3> QED
      BY <1>4, <3>1, <3>2
  <2>2. n \notin replied
    BY <1>4 DEF StoreMessage, StoredFirst, Stored, NeedsReply
  <2>3. answers[n] = 0
    BY <2>2, <2>1, InMemoryMeans, NotYetAnswered DEF AwaitsRecord
  <2>4. UNCHANGED <<batch, gen>>
    BY <1>4 DEF StoreMessage, SafetyNet
  <2>5. InOnePlace(n)'
    BY <2>1, <2>4, InMemoryMeans DEF InOnePlace, InGeneration
  <2> QED
    BY <1>1, <2>3, <2>5, OnceMoves
<1>5. CASE m = n /\ SafetyNet(m) /\ ~NeedsReply(m)
  <2>1. Remains(n)
    BY <1>5 DEF SafetyNet, Remains
  <2> QED
    BY <1>1, <1>2, <2>1, OnceRemains
<1>6. CASE m = n /\ Listen(m)
  <2>1. /\ n \in listening /\ listening' = listening \ {n}
        /\ n \notin batch.msgs /\ n \notin InGeneration
    BY <1>6 DEF Listen, AnsweredOnce, InOnePlace
  <2>2. answers[n] = 0
    BY <2>1, InMemoryMeans, NotYetAnswered DEF AwaitsRecord
  <2>3. CASE UNCHANGED <<batch, gen>>
    <3>1. Remains(n)
      BY <2>1, <2>3 DEF Remains
    <3> QED
      BY <1>1, <1>2, <3>1, OnceRemains
  <2>4. CASE UNCHANGED gen
    <3>1. InOnePlace(n)'
      BY <2>1, <2>4, InMemoryMeans DEF InOnePlace, InGeneration
    <3> QED
      BY <1>1, <2>2, <3>1, OnceMoves
  <2>5. CASE \E g \in Generations : Ask(g, {n}, conv') /\ UNCHANGED batch
    <3>1. InOnePlace(n)'
      BY <2>1, <2>5, InMemoryMeans DEF InOnePlace, InGeneration, Ask
    <3> QED
      BY <1>1, <2>2, <3>1, OnceMoves
  <2> QED
    BY <1>6, <2>3, <2>4, <2>5 DEF Listen, ListenText, ListenOther, TakeUp
<1> QED
  BY <1>3, <1>4, <1>5, <1>6 DEF MessageStep

LEMMA GenerationOnce ==
  ASSUME RepliesTypeOK, BegunInv, StoredFirst, NEW n \in Inbound, AnsweredOnce(n), n \notin overtaken',
         NEW g \in Generations, Flush(g) \/ Generate(g)
  PROVE  AnsweredOnce(n)'
<1> USE DEF RepliesTypeOK, rowVars, memoryVars, ghostVars, convVars,
        resultVars
<1>1. CASE Flush(g)
  <2>1. /\ Ask(g, batch.msgs, conv) /\ batch' = NoBatch
        /\ UNCHANGED <<listening, answers, resent, replied>>
    BY <1>1 DEF Flush
  <2>2. CASE n \in batch.msgs
    <3>1. n \notin listening /\ n \notin InGeneration
      BY <2>2 DEF AnsweredOnce, InOnePlace
    <3>2. answers[n] = 0
      BY <2>2, <3>1, InMemoryMeans, NotYetAnswered DEF AwaitsRecord
    <3>3. InOnePlace(n)'
      BY <2>1, <3>1, InMemoryMeans DEF InOnePlace, InGeneration, Ask, NoBatch
    <3> QED
      BY <2>1, <3>2, <3>3, OnceMoves
  <2>3. CASE n \notin batch.msgs
    <3>1. Remains(n)
      BY <2>1, <2>3 DEF Remains, Ask, NoBatch
    <3>2. Waits(n)
      BY <2>1, AskWaits
    <3> QED
      BY <2>1, <3>1, <3>2, OnceRemains
  <2> QED
    BY <2>2, <2>3
<1>2. CASE SendReply(g)
  <2>0. PICK outcome \in {"id", "noId", "error"}, reaches \in BOOLEAN :
          Attempt(g, outcome, reaches)
    BY <1>2 DEF SendReply
  <2> DEFINE next == AfterAttempt(gen[g].pc, outcome)
  <2>1. /\ UNCHANGED <<listening, batch, replied>> /\ gen[g].pc \in Sending
        /\ \A h \in Generations : gen'[h].msgs = gen[h].msgs
        /\ \A h \in Generations \ {g} : gen'[h] = gen[h]
        /\ gen'[g].pc = next /\ gen'[g].sent = (gen[g].sent \/ reaches)
    BY <1>2, <2>0 DEF SendReply, Attempt
  <2>2. Remains(n)
    BY <2>1 DEF Remains
  <2>3. InOnePlace(n)' /\ InMemory' = InMemory
    BY <2>1 DEF AnsweredOnce, InOnePlace, InGeneration, InMemory
  <2>4. AwaitsRecord(n) => AwaitsRecord(n)'
    BY <2>1 DEF AwaitsRecord
  <2>5. CASE n \notin gen[g].msgs
    <3>1. answers'[n] = answers[n] /\ (n \in resent' <=> n \in resent)
      BY <2>0, <2>5 DEF Attempt
    <3>2. \A h \in Generations : n \in gen[h].msgs => gen'[h] = gen[h]
      BY <2>1, <2>5
    <3> QED
      BY <2>1, <2>3, <2>4, <3>1, <3>2 DEF AnsweredOnce
  <2>6. CASE n \in gen[g].msgs
    <3>1. /\ answers[n] \in Nat /\ answers[n] <= TimesSent(gen[g].pc)
          /\ answers[n] > 0 => n \in resent
      BY <2>1, <2>6 DEF AnsweredOnce, Sending
    <3>2. /\ TimesSent(gen[g].pc) + 1 <= TimesSent(next)
          /\ TimesSent(gen[g].pc) \in 0..2 /\ TimesSent(next) \in 0..3
      BY <2>1 DEF AfterAttempt, TimesSent, Sending
    <3>3. /\ answers'[n] = answers[n] + (IF reaches THEN 1 ELSE 0)
          /\ (n \in resent' <=> n \in resent \/ (reaches /\ next # "recording"))
      BY <2>0, <2>6, <3>1, <3>2 DEF Attempt
    <3> HIDE DEF next
    <3>4. /\ answers'[n] <= TimesSent(next)
          /\ answers'[n] > 0 /\ next # "recording" => n \in resent'
          /\ answers'[n] <= IF n \in resent' THEN 3 ELSE 1
      BY <3>1, <3>2, <3>3
    <3>5. answers'[n] > 0 => AwaitsRecord(n)'
      <4>1. CASE reaches
        BY <2>1, <2>6, <4>1 DEF AwaitsRecord
      <4>2. CASE ~reaches
        <5>1. n \in InMemory /\ answers'[n] = answers[n]
          BY <2>6, <3>1, <3>3, <4>2, InMemoryMeans
        <5> QED
          BY <2>4, <5>1 DEF AnsweredOnce
      <4> QED
        BY <4>1, <4>2
    <3>6. \A h \in Generations : n \in gen'[h].msgs => h = g
      BY <2>1, <2>6 DEF AnsweredOnce, InOnePlace
    <3> QED
      BY <2>1, <2>3, <3>4, <3>5, <3>6 DEF AnsweredOnce
  <2> QED
    BY <2>5, <2>6
<1>3. CASE RecordReply(g)
  <2>1. /\ replied' = Stored /\ gen' = [gen EXCEPT ![g] = NoGen]
        /\ UNCHANGED <<listening, batch, answers, resent>> /\ replied \subseteq replied'
    BY <1>3 DEF RecordReply, AiRow, Finish, StoredFirst
  <2>2. Remains(n)
    BY <1>3, GenRemains DEF Generate
  <2>3. CASE n \in gen[g].msgs
    <3>1. n \in Stored
      BY <2>3, InMemoryMeans DEF StoredFirst
    <3>2. n \notin listening /\ n \notin batch.msgs
          /\ \A h \in Generations : n \in gen[h].msgs => h = g
      BY <2>3, InMemoryMeans DEF AnsweredOnce, InOnePlace
    <3>3. \A h \in Generations : n \notin gen'[h].msgs
      BY <2>1, <3>2 DEF NoGen
    <3>4. n \notin InMemory' /\ InOnePlace(n)'
      BY <2>1, <3>2, <3>3 DEF InMemory, InGeneration, InOnePlace
    <3>5. answers'[n] <= IF n \in resent' THEN 3 ELSE 1
      BY <2>1 DEF AnsweredOnce
    <3> QED
      BY <2>1, <3>1, <3>3, <3>4, <3>5 DEF AnsweredOnce
  <2>4. CASE n \notin gen[g].msgs
    <3>1. Waits(n)
      BY <2>1, <2>4 DEF Waits, NoGen
    <3> QED
      BY <2>1, <2>2, <3>1, OnceRemains
  <2> QED
    BY <2>3, <2>4
<1>4. CASE ReplyFails(g)
  <2>1. gen' = [gen EXCEPT ![g] = NoGen] /\ UNCHANGED <<answers, resent, replied>>
    BY <1>4 DEF ReplyFails, Finish
  <2>2. gen[g].sent => n \notin gen[g].msgs
    BY <1>4, ForgetsOnly DEF ReplyFails
  <2>3. Waits(n)
    BY <2>1, <2>2 DEF Waits, NoGen
  <2> QED
    BY <1>4, <2>1, <2>3, GenRemains, OnceRemains DEF Generate
<1>5. CASE DropEmpty(g)
  <2>1. gen' = [gen EXCEPT ![g] = NoGen] /\ UNCHANGED <<answers, resent, replied>>
    BY <1>5 DEF DropEmpty, Finish
  <2>2. n \notin gen[g].msgs \/ answers[n] = 0
    <3>1. gen[g].pc = "sending"
      BY <1>5 DEF DropEmpty
    <3> QED
      BY <3>1, TimesSentBounds DEF AnsweredOnce
  <2>3. Remains(n)
    BY <1>5, GenRemains DEF Generate
  <2>4. CASE n \notin gen[g].msgs
    <3>1. Waits(n)
      BY <2>1, <2>4 DEF Waits, NoGen
    <3> QED
      BY <2>1, <2>3, <3>1, OnceRemains
  <2>5. CASE answers[n] = 0
    <3>1. InOnePlace(n)'
      BY <2>3 DEF Remains, AnsweredOnce, InOnePlace, InGeneration
    <3> QED
      BY <2>1, <2>5, <3>1, OnceMoves
  <2> QED
    BY <2>2, <2>4, <2>5
<1>6. CASE \/ KeepSilent(g) \/ LoadRow(g) \/ SaveHandoff(g) \/ SaveAnswer(g)
           \/ SaveNoMatch(g) \/ \E out \in Outcome \ {"none"} : Think(g, out)
  <2>1. UNCHANGED <<answers, resent, replied>>
    BY <1>6 DEF KeepSilent, LoadRow, SaveHandoff, SaveAnswer, SaveNoMatch, Think
  <2>2. /\ gen[g].pc \in {"thinking", "loading", "saving"}
        /\ \A h \in Generations \ {g} : gen'[h] = gen[h]
    BY <1>6 DEF KeepSilent, Finish, LoadRow, SaveHandoff, SaveAnswer, SaveNoMatch, Think
  <2>3. Remains(n)
    BY <1>6, GenRemains DEF Generate
  <2>4. CASE n \notin gen[g].msgs
    <3>1. Waits(n)
      BY <2>2, <2>3, <2>4 DEF Waits, Remains
    <3> QED
      BY <2>1, <2>3, <3>1, OnceRemains
  <2>5. CASE n \in gen[g].msgs
    <3>1. answers[n] = 0
      BY <2>2, <2>5, TimesSentBounds DEF AnsweredOnce
    <3>2. InOnePlace(n)'
      BY <2>3 DEF Remains, AnsweredOnce, InOnePlace, InGeneration
    <3> QED
      BY <2>1, <3>1, <3>2, OnceMoves
  <2> QED
    BY <2>4, <2>5
<1> QED
  BY <1>1, <1>2, <1>3, <1>4, <1>5, <1>6 DEF Generate

LEMMA OtherOnce ==
  ASSUME RepliesTypeOK, StoredFirst, NEW n \in Inbound, AnsweredOnce(n), n \notin overtaken',
         AgentLoad \/ AgentSave \/ ReplyCrash \/ ReplyTick \/ UNCHANGED replyVars
  PROVE  AnsweredOnce(n)'
<1> USE DEF RepliesTypeOK, rowVars, memoryVars, ghostVars, convVars,
        resultVars
<1>1. CASE AgentLoad \/ AgentSave \/ ReplyTick \/ UNCHANGED replyVars
  <2>1. UNCHANGED <<answers, resent, replied>>
    BY <1>1 DEF AgentLoad, AgentSave, ReplyTick, replyVars
  <2>2. Waits(n)
    BY <1>1 DEF AgentLoad, AgentSave, ReplyTick, replyVars, Waits
  <2> QED
    BY <2>1, <2>2, OtherRemains, OnceRemains
<1>2. CASE ReplyCrash
  <2>1. n \notin Unrecorded
    BY <1>2, ForgetsOnly DEF ReplyCrash
  <2>2. Waits(n)
    BY <1>2, <2>1 DEF Waits, Unrecorded, ReplyCrash, NoGen
  <2>3. UNCHANGED <<answers, resent, replied>>
    BY <1>2 DEF ReplyCrash
  <2> QED
    BY <2>2, <2>3, OtherRemains, OnceRemains
<1> QED
  BY <1>1, <1>2

LEMMA OvertakenGrows ==
  ASSUME RepliesTypeOK, [ReplyNext]_replyVars
  PROVE  overtaken \subseteq overtaken'
<1> USE DEF RepliesTypeOK, rowVars, memoryVars, ghostVars, convVars,
        resultVars
<1>1. ASSUME NEW m \in Inbound, MessageStep(m) PROVE overtaken \subseteq overtaken'
  BY <1>1 DEF MessageStep, LoadConversation, UpdateCustomer, StoreMessage, QueueSafetyNet, Listen, SafetyNet
<1>2. ASSUME NEW g \in Generations, Flush(g) \/ Generate(g)
      PROVE  overtaken \subseteq overtaken'
  BY <1>2, ForgetsOnly
     DEF Flush, Generate, KeepSilent, Think, LoadRow, SaveHandoff, SaveAnswer,
     SaveNoMatch, DropEmpty, SendReply, RecordReply, ReplyFails
<1>3. CASE AgentLoad \/ AgentSave \/ ReplyTick \/ ReplyCrash \/ UNCHANGED replyVars
  BY <1>3, ForgetsOnly DEF AgentLoad, AgentSave, ReplyTick, ReplyCrash, replyVars
<1> QED
  BY <1>1, <1>2, <1>3 DEF ReplyNext, MessageStep

LEMMA AnsweredStep ==
  ASSUME RepliesTypeOK, BegunInv, StoredFirst, AnsweredInv, [ReplyNext]_replyVars
  PROVE  AnsweredInv'
<1>1. ASSUME NEW n \in Inbound, n \notin overtaken' PROVE AnsweredOnce(n)'
  <2>1. AnsweredOnce(n)
    BY <1>1, OvertakenGrows DEF AnsweredInv
  <2> QED
    BY <1>1, <2>1, MessageOnce, GenerationOnce, OtherOnce DEF ReplyNext, MessageStep
<1> QED
  BY <1>1 DEF AnsweredInv

(* A message gets a second answer only if the safety net took it up while it was still
   in memory, or its first answer was not recorded as the reply to it. *)
THEOREM AnsweredTwice == ReplySpec => []OneReplyPerMessage
<1>1. RepliesInit => BegunInv /\ StoredFirst /\ AnsweredInv
  BY DEF RepliesInit, BegunInv, StoredFirst, AnsweredInv, AnsweredOnce, InOnePlace, AwaitsRecord,
     InMemory, InGeneration, NoGen, NoBatch, Stored
<1>2. RepliesTypeOK /\ AnsweredInv => OneReplyPerMessage
  BY DEF AnsweredInv, AnsweredOnce, OneReplyPerMessage, RepliesTypeOK
<1>3. ReplySpec => []RepliesTypeOK
  BY RepliesTypeCorrect
<1> QED
  BY <1>1, <1>2, <1>3, BegunStep, StoredFirstStep, AnsweredStep, PTL DEF ReplySpec

-----------------------------------------------------------------------------
CopyOf(row) ==
    \/ \E m \in Inbound : (m \in listening \/ arrival[m] \in {"updating", "loaded"})
                           /\ row = payload[m]
    \/ agent.on /\ row = agent.copy
    \/ \E g \in Generations : gen[g].pc \in {"thinking", "saving"} /\ row = gen[g].copy

LEMMA CopiesAre == \A row : /\ row \in Copies <=> CopyOf(row)
                            /\ row \in Copies' <=> CopyOf(row)'
  BY DEF Copies, CopyOf

Alike(row, copy) == /\ row.seen = copy.seen /\ row.handler = copy.handler
                    /\ row.reason = copy.reason /\ row.silence = copy.silence

(* Rows like those that are around already, or a conversation the bot has. *)
LEMMA KnownKept ==
  ASSUME HandoffKnown, handoffs' = handoffs, returned' = returned,
         conv'.handler = conv.handler,
         \A row \in RowsAround' : \E copy \in RowsAround : Alike(row, copy)
  PROVE  HandoffKnown'
  BY DEF HandoffKnown, Alike

LEMMA KnownReturned ==
  ASSUME HandoffKnown, handoffs' = handoffs, returned' = TRUE,
         \A row \in RowsAround' : \E copy \in RowsAround : row.seen = copy.seen
  PROVE  HandoffKnown'
  BY DEF HandoffKnown

(* The writes of a whole row and of some columns. *)
LEMMA KnownWritten ==
  ASSUME RepliesTypeOK, HandoffKnown, handoffs' = handoffs, NEW row \in Row, WriteRow(row),
         \E copy \in RowsAround : row.seen = copy.seen,
         row.handler = "HUMAN" => \E copy \in RowsAround : Alike(row, copy),
         \A r \in Copies' : r \in Copies \/ r = row
  PROVE  HandoffKnown'
<1>1. /\ conv' = row /\ returned' = (returned \/ row.handler = "AI")
      /\ row.handler \in {"AI", "HUMAN"} /\ returned \in BOOLEAN
  BY DEF WriteRow, Row, RepliesTypeOK
<1>2. \A r \in RowsAround' : r \in RowsAround \/ r = row
  BY <1>1 DEF RowsAround
<1>3. \A r \in RowsAround' : \E copy \in RowsAround : r.seen = copy.seen
  BY <1>2
<1>4. CASE returned'
  BY <1>3, <1>4, KnownReturned, <1>1
<1>5. CASE ~returned'
  <2>1. row.handler = "HUMAN" /\ ~returned /\ conv.handler = "HUMAN"
    BY <1>1, <1>5 DEF HandoffKnown
  <2>2. \A r \in RowsAround' : \E copy \in RowsAround : Alike(r, copy)
    BY <1>2, <2>1 DEF Alike
  <2> QED
    BY <1>1, <1>5, <2>1, <2>2, KnownKept
<1> QED
  BY <1>4, <1>5

(* A step that writes no row and hands out copies of those around only. *)
LEMMA KnownUnwritten ==
  ASSUME HandoffKnown, UNCHANGED <<handoffs, conv, returned>>,
         \A r \in Copies' : r \in Copies \/ r = conv
  PROVE  HandoffKnown'
<1>1. \A r \in RowsAround' : \E copy \in RowsAround : Alike(r, copy)
  BY DEF RowsAround, Alike
<1> QED
  BY <1>1, KnownKept

LEMMA MessageKnown ==
  ASSUME RepliesTypeOK, StoredFirst, HandoffKnown, NEW m \in Inbound, MessageStep(m)
  PROVE  HandoffKnown'
<1> USE DEF RepliesTypeOK, rowVars, memoryVars, ghostVars, convVars,
        resultVars
<1>1. CASE LoadConversation(m)
  <2>1. \A r : CopyOf(r)' => CopyOf(r) \/ r = conv
    BY <1>1 DEF LoadConversation, CopyOf
  <2> QED
    BY <1>1, <2>1, CopiesAre, KnownUnwritten DEF LoadConversation
<1>11. CASE UpdateCustomer(m)
  <2>1. /\ payload[m] \in Row /\ CopyOf(payload[m]) /\ WriteRow(payload[m])
        /\ UNCHANGED handoffs
    BY <1>11 DEF UpdateCustomer, CopyOf
  <2>2. \A r : CopyOf(r)' => CopyOf(r)
    BY <1>11 DEF UpdateCustomer, CopyOf
  <2>3. payload[m] \in RowsAround /\ Alike(payload[m], payload[m])
    BY <2>1, CopiesAre DEF RowsAround, Alike
  <2> QED
    BY <2>1, <2>2, <2>3, CopiesAre, KnownWritten DEF Alike
<1>2. CASE StoreMessage(m)
  <2>1. \A r : CopyOf(r)' => CopyOf(r)
    BY <1>2 DEF StoreMessage, CopyOf, Emit
  <2> QED
    BY <1>2, <2>1, CopiesAre, KnownUnwritten DEF StoreMessage
<1>3. CASE QueueSafetyNet(m)
  <2>1. \A r : CopyOf(r)' => CopyOf(r)
    BY <1>3 DEF QueueSafetyNet, CopyOf
  <2> QED
    BY <1>3, <2>1, CopiesAre, KnownUnwritten DEF QueueSafetyNet
<1>4. CASE SafetyNet(m)
  <2>1. arrival[m] \notin {"updating", "loaded"}
    BY <1>4, RepliesAssumption
       DEF SafetyNet, StoredFirst, Stored, NoJob, RepliesAssumption
  <2>2. \A r : CopyOf(r)' => CopyOf(r) \/ r = conv
    BY <1>4, <2>1 DEF SafetyNet, CopyOf, Emit
  <2> QED
    BY <1>4, <2>2, CopiesAre, KnownUnwritten DEF SafetyNet
<1>5. CASE Listen(m)
  <2>1. /\ arrival[m] \notin {"updating", "loaded"} /\ m \in listening /\ CopyOf(payload[m])
        /\ listening' = listening \ {m} /\ payload' = [payload EXCEPT ![m] = FreshRow]
        /\ UNCHANGED <<arrival, agent, handoffs>>
    BY <1>5 DEF Listen, StoredFirst, Stored, InMemory, CopyOf
  <2>2. \A r : (\E n \in Inbound : (n \in listening' \/ arrival'[n] \in {"updating", "loaded"})
                                     /\ r = payload'[n]) => CopyOf(r)
    BY <2>1 DEF CopyOf
  <2>3. ASSUME gen' = gen \/ (\E g \in Generations : Ask(g, {m}, conv'))
        PROVE  \A r \in Copies' : r \in Copies \/ r = conv'
    <3>1. \A r : (\E g \in Generations : gen'[g].pc \in {"thinking", "saving"}
                    /\ r = gen'[g].copy) => CopyOf(r) \/ r = conv'
      BY <2>3 DEF Ask, CopyOf
    <3>2. \A r : agent'.on /\ r = agent'.copy => CopyOf(r)
      BY <2>1 DEF CopyOf
    <3>3. ASSUME NEW r, CopyOf(r)' PROVE CopyOf(r) \/ r = conv'
      <4>1. \/ \E n \in Inbound : (n \in listening' \/ arrival'[n] \in {"updating", "loaded"})
                                /\ r = payload'[n]
            \/ agent'.on /\ r = agent'.copy
            \/ \E g \in Generations : gen'[g].pc \in {"thinking", "saving"}
                                     /\ r = gen'[g].copy
        BY <3>3 DEF CopyOf
      <4> QED
        BY <2>2, <3>1, <3>2, <4>1
    <3> QED
      BY <3>3, CopiesAre
  <2>4. gen' = gen \/ (\E g \in Generations : Ask(g, {m}, conv'))
    BY <1>5 DEF Listen, ListenText, ListenOther, TakeUp
  <2>5. CASE UNCHANGED convVars
    BY <2>1, <2>3, <2>4, <2>5, KnownUnwritten
  <2>6. CASE WriteRow(Recovered(payload[m]))
    <3>1. Recovered(payload[m]) \in Row /\ Recovered(payload[m]).seen = conv.seen
          /\ Recovered(payload[m]).handler = "AI"
      BY WrittenTypes DEF Recovered, Row
    <3>2. \A r \in Copies' : r \in Copies \/ r = Recovered(payload[m])
      BY <2>3, <2>4, <2>6 DEF WriteRow
    <3> QED
      BY <2>1, <2>6, <3>1, <3>2, KnownWritten, CopyTypes
  <2> QED
    BY <1>5, <2>5, <2>6 DEF Listen, ListenText, ListenOther
<1> QED
  BY <1>1, <1>11, <1>2, <1>3, <1>4, <1>5 DEF MessageStep

(* The steps of a reply that change no payload and no employee's copy. *)
LEMMA GenerationCopies ==
  ASSUME RepliesTypeOK, NEW g \in Generations, NEW row,
         UNCHANGED <<arrival, payload, agent, listening>>,
         \A h \in Generations \ {g} : gen'[h] = gen[h],
         gen'[g].pc \in {"thinking", "saving"} =>
           gen'[g].copy = row \/ CopyOf(gen'[g].copy)
  PROVE  \A r \in Copies' : r \in Copies \/ r = row
<1>1. \A r : CopyOf(r)' => CopyOf(r) \/ r = row
  BY DEF CopyOf
<1> QED
  BY <1>1, CopiesAre

LEMMA GenerationKnown ==
  ASSUME RepliesTypeOK, HandoffKnown, NEW g \in Generations, Flush(g) \/ Generate(g)
  PROVE  HandoffKnown'
<1> USE DEF RepliesTypeOK, rowVars, memoryVars, ghostVars, convVars,
        resultVars
<1>0. gen[g].copy \in Row
  OBVIOUS
<1>1. CASE Flush(g) \/ KeepSilent(g) \/ LoadRow(g) \/ DropEmpty(g) \/ SendReply(g)
           \/ RecordReply(g) \/ ReplyFails(g)
  <2>1. /\ UNCHANGED <<arrival, payload, agent, listening, handoffs, conv, returned>>
        /\ \A h \in Generations \ {g} : gen'[h] = gen[h]
    BY <1>1 DEF Flush, Ask, KeepSilent, Finish, LoadRow, DropEmpty, SendReply, Attempt,
       RecordReply, ReplyFails
  <2>2. gen'[g].pc \in {"thinking", "saving"} => gen'[g].copy = conv
    <3>1. CASE SendReply(g)
      <4>1. PICK outcome \in {"id", "noId", "error"}, reaches \in BOOLEAN :
              Attempt(g, outcome, reaches)
        BY <3>1 DEF SendReply
      <4>2. gen'[g].pc = AfterAttempt(gen[g].pc, outcome)
        BY <4>1 DEF Attempt
      <4> QED
        BY <4>2 DEF AfterAttempt
    <3> QED
      BY <1>1, <3>1 DEF Flush, Ask, KeepSilent, Finish, LoadRow, DropEmpty, RecordReply,
         ReplyFails, NoGen
  <2> QED
    BY <2>1, <2>2, GenerationCopies, KnownUnwritten
<1>2. ASSUME NEW out \in Outcome \ {"none"}, Think(g, out) PROVE HandoffKnown'
  <2>1. /\ UNCHANGED <<arrival, payload, agent, listening, handoffs>>
        /\ \A h \in Generations \ {g} : gen'[h] = gen[h]
        /\ gen'[g].pc \notin {"thinking", "saving"}
    BY <1>2 DEF Think
  <2>2. \A row : \A r \in Copies' : r \in Copies \/ r = row
    BY <2>1, GenerationCopies
  <2>3. CASE UNCHANGED convVars
    BY <2>1, <2>2, <2>3, KnownUnwritten
  <2>4. CASE WriteRow([conv EXCEPT !.handler = "AI"])
    <3>1. /\ [conv EXCEPT !.handler = "AI"] \in Row
          /\ [conv EXCEPT !.handler = "AI"].seen = conv.seen
          /\ [conv EXCEPT !.handler = "AI"].handler = "AI"
      BY RowTypes DEF Row
    <3> QED
      BY <2>1, <2>2, <2>4, <3>1, KnownWritten, CopyTypes
  <2> QED
    BY <1>2, <2>3, <2>4 DEF Think, WakeUp
<1>3. CASE SaveHandoff(g)
  <2>1. /\ UNCHANGED <<arrival, payload, agent, listening>>
        /\ \A h \in Generations \ {g} : gen'[h] = gen[h]
        /\ gen'[g].pc \notin {"thinking", "saving"}
        /\ conv' = HandedOff(gen[g].copy) /\ handoffs' = handoffs + 1
    BY <1>3 DEF SaveHandoff
  <2>2. \A r \in RowsAround' : r \in RowsAround \/ r = HandedOff(gen[g].copy)
    BY <2>1, GenerationCopies DEF RowsAround
  <2>3. /\ HandedOff(gen[g].copy).seen = handoffs + 1
        /\ HandedOff(gen[g].copy).handler = "HUMAN"
        /\ HandedOff(gen[g].copy).reason = "CUSTOMER_REQUEST"
        /\ HandedOff(gen[g].copy).silence = SilenceTicks
    BY <1>0 DEF HandedOff, Row
  <2>4. \A r \in RowsAround :
          r.seen <= handoffs /\ r.seen \in Nat /\ r.silence <= SilenceTicks
    BY CopyTypes, RowBounds DEF HandoffKnown
  <2>5. \A r \in RowsAround' : /\ r.seen <= handoffs + 1 /\ r.silence <= SilenceTicks
                               /\ (r.seen = handoffs + 1 => r = HandedOff(gen[g].copy))
    BY <2>2, <2>3, <2>4, RowBounds
  <2> QED
    BY <2>1, <2>3, <2>5 DEF HandoffKnown
<1>4. CASE SaveAnswer(g) \/ SaveNoMatch(g)
  <2>1. /\ UNCHANGED <<arrival, payload, agent, listening, handoffs>>
        /\ \A h \in Generations \ {g} : gen'[h] = gen[h]
        /\ gen'[g].pc \notin {"thinking", "saving"} /\ gen[g].pc = "saving"
    BY <1>4 DEF SaveAnswer, SaveNoMatch
  <2>2. \A row : \A r \in Copies' : r \in Copies \/ r = row
    BY <2>1, GenerationCopies
  <2>3. CASE UNCHANGED convVars
    BY <2>1, <2>2, <2>3, KnownUnwritten
  <2>4. ASSUME NEW n \in 0..(MaxFailures + MaxHandoffs),
               WriteRow([gen[g].copy EXCEPT !.failed = n])
        PROVE  HandoffKnown'
    <3>1. [gen[g].copy EXCEPT !.failed = n] \in Row
      BY <1>0, RowTypes
    <3>2. Alike([gen[g].copy EXCEPT !.failed = n], gen[g].copy)
      BY <1>0 DEF Alike, Row
    <3>3. gen[g].copy \in RowsAround
      BY <2>1, CopiesAre DEF CopyOf, RowsAround
    <3>4. \A r \in Copies' : r \in Copies \/ r = [gen[g].copy EXCEPT !.failed = n]
      BY <2>2
    <3>5. \E copy \in RowsAround : [gen[g].copy EXCEPT !.failed = n].seen = copy.seen
      BY <3>2, <3>3 DEF Alike
    <3>6. \E copy \in RowsAround : Alike([gen[g].copy EXCEPT !.failed = n], copy)
      BY <3>2, <3>3
    <3> QED
      BY <2>1, <2>4, <3>1, <3>4, <3>5, <3>6, KnownWritten
  <2>5. CASE SaveAnswer(g)
    <3>1. 0 \in 0..(MaxFailures + MaxHandoffs)
      BY RowBounds
    <3> QED
      BY <2>3, <2>4, <2>5, <3>1 DEF SaveAnswer
  <2>6. CASE SaveNoMatch(g)
    <3>1. gen[g].copy.failed + 1 \in 0..(MaxFailures + MaxHandoffs)
      BY <1>0, <2>6, RowBounds DEF SaveNoMatch, Row
    <3>2. WriteRow([gen[g].copy EXCEPT !.failed = gen[g].copy.failed + 1])
      BY <2>6 DEF SaveNoMatch
    <3> QED
      BY <2>4, <3>1, <3>2
  <2> QED
    BY <1>4, <2>5, <2>6
<1> QED
  BY <1>1, <1>2, <1>3, <1>4 DEF Generate

LEMMA OtherKnown ==
  ASSUME RepliesTypeOK, HandoffKnown,
         AgentLoad \/ AgentSave \/ ReplyCrash \/ ReplyTick \/ UNCHANGED replyVars
  PROVE  HandoffKnown'
<1> USE DEF RepliesTypeOK, rowVars, memoryVars, ghostVars, convVars,
        resultVars
<1>1. CASE AgentLoad \/ UNCHANGED replyVars
  <2>1. \A r : CopyOf(r)' => CopyOf(r) \/ r = conv
    BY <1>1 DEF AgentLoad, CopyOf, replyVars
  <2> QED
    BY <1>1, <2>1, CopiesAre, KnownUnwritten DEF AgentLoad, replyVars
<1>2. CASE AgentSave
  <2>1. \A r : CopyOf(r)' => CopyOf(r)
    BY <1>2 DEF AgentSave, CopyOf
  <2>2. agent.copy \in RowsAround /\ agent.copy \in Row
    BY <1>2, CopiesAre DEF AgentSave, CopyOf, RowsAround
  <2>3. Alike(agent.copy, agent.copy)
    BY DEF Alike
  <2> QED
    BY <1>2, <2>1, <2>2, <2>3, CopiesAre, KnownWritten DEF AgentSave
<1>3. CASE ReplyCrash
  <2>1. \A r : CopyOf(r)' => CopyOf(r)
    <3>1. \A n \in Inbound : arrival'[n] \notin {"updating", "loaded"}
      BY <1>3 DEF ReplyCrash
    <3>2. \A h \in Generations : gen'[h].pc = "idle"
      BY <1>3 DEF ReplyCrash, NoGen
    <3> QED
      BY <1>3, <3>1, <3>2 DEF ReplyCrash, CopyOf
  <2> QED
    BY <1>3, <2>1, CopiesAre, KnownUnwritten DEF ReplyCrash
<1>4. CASE ReplyTick
  <2>1. /\ UNCHANGED <<handoffs, returned, listening, arrival>> /\ conv' = Later(conv)
        /\ \A m \in Inbound : payload'[m] = Later(payload[m])
        /\ agent'.on = agent.on /\ agent'.copy = Later(agent.copy)
        /\ \A g \in Generations :
             gen'[g].pc = gen[g].pc /\ gen'[g].copy = Later(gen[g].copy)
    BY <1>4 DEF ReplyTick
  <2>2. \A r : CopyOf(r)' => \E q : CopyOf(q) /\ r = Later(q)
    BY <2>1 DEF CopyOf
  <2>3. \A r \in RowsAround' : \E q \in RowsAround : r = Later(q)
    BY <2>1, <2>2, CopiesAre DEF RowsAround
  <2>4. \A q \in Row : /\ Later(q).seen = q.seen /\ Later(q).handler = q.handler
                       /\ Later(q).reason = q.reason
                       /\ Later(q).silence = Sooner(q.silence)
    BY DEF Later, Row
  <2>5. \A a, b \in 0..SilenceTicks : a <= b => Sooner(a) <= Sooner(b)
    BY RowBounds DEF Sooner
  <2>6. \A r \in RowsAround' : \E q \in RowsAround :
          /\ r.seen = q.seen /\ r.handler = q.handler /\ r.reason = q.reason
          /\ r.silence = Sooner(q.silence)
    BY <2>3, <2>4, CopyTypes
  <2>7. \A q \in RowsAround : q.silence \in 0..SilenceTicks
    BY CopyTypes
  <2>8. conv'.handler = conv.handler
    BY <2>1, <2>4, CopyTypes
  <2> QED
    BY <2>1, <2>5, <2>6, <2>7, <2>8 DEF HandoffKnown
<1> QED
  BY <1>1, <1>2, <1>3, <1>4

LEMMA HandoffKnownStep ==
  ASSUME RepliesTypeOK, StoredFirst, HandoffKnown, [ReplyNext]_replyVars
  PROVE  HandoffKnown'
  BY MessageKnown, GenerationKnown, OtherKnown DEF ReplyNext, MessageStep

LEMMA BringsBack ==
  ASSUME RepliesTypeOK, HandoffKnown, [ReplyNext]_replyVars,
         ~returned, conv.silence > 0, conv'.handler = "AI"
  PROVE  \E copy \in Copies : copy.seen < handoffs
<1> USE DEF RepliesTypeOK, rowVars, memoryVars, ghostVars, convVars,
        resultVars
<1> SUFFICES ASSUME \A copy \in Copies : ~(copy.seen < handoffs)
             PROVE  FALSE
  OBVIOUS
<1>1. ASSUME NEW copy, CopyOf(copy)
      PROVE  copy.handler = "HUMAN" /\ copy.reason # "AI_ERROR" /\ copy.silence # 0
  <2>1. copy \in Copies /\ copy \in RowsAround /\ copy \in Row
    BY <1>1, CopiesAre, CopyTypes DEF RowsAround
  <2>2. copy.seen <= handoffs /\ copy.seen \in 0..MaxHandoffs /\ handoffs \in 0..MaxHandoffs
    BY <2>1, CopyTypes DEF HandoffKnown
  <2>3. copy.seen = handoffs
    <3>1. copy.seen \in Int /\ handoffs \in Int
      BY <2>2, RowBounds
    <3>2. ~(copy.seen < handoffs)
      BY <2>1
    <3> HIDE DEF RepliesTypeOK
    <3> QED
      BY <2>2, <3>1, <3>2
  <2>4. copy.handler = "HUMAN" /\ copy.reason = "CUSTOMER_REQUEST"
        /\ conv.silence <= copy.silence
    BY <2>1, <2>3, CopyTypes DEF HandoffKnown
  <2>5. conv.silence \in 0..SilenceTicks /\ copy.silence \in 0..SilenceTicks
    BY <2>1, CopyTypes
  <2> QED
    BY <2>4, <2>5, RowBounds
<1>2. conv.handler = "HUMAN"
  BY DEF HandoffKnown
<1>3. ASSUME NEW m \in Inbound, Listen(m) PROVE FALSE
  <2>1. CopyOf(payload[m])
    BY <1>3 DEF Listen, CopyOf
  <2>2. payload[m].handler = "HUMAN" /\ ~Recovers(payload[m])
    BY <1>1, <2>1 DEF Recovers
  <2>3. conv' = conv
    BY <1>3, <2>2 DEF Listen, ListenText, ListenOther
  <2> QED
    BY <1>2, <2>3
<1>31. ASSUME NEW m \in Inbound, UpdateCustomer(m) PROVE FALSE
  <2>1. CopyOf(payload[m])
    BY <1>31 DEF UpdateCustomer, CopyOf
  <2> QED
    BY <1>1, <1>31, <2>1 DEF UpdateCustomer, WriteRow
<1>4. ASSUME NEW m \in Inbound, MessageStep(m) PROVE FALSE
  BY <1>2, <1>3, <1>31, <1>4
     DEF MessageStep, LoadConversation, StoreMessage, QueueSafetyNet, SafetyNet
<1>5. ASSUME NEW g \in Generations, NEW out \in Outcome \ {"none"}, Think(g, out) PROVE FALSE
  <2>1. CopyOf(gen[g].copy)
    BY <1>5 DEF Think, CopyOf
  <2>2. gen[g].copy.silence > 0
    <3>1. gen[g].copy.silence \in 0..SilenceTicks
      BY CopyTypes
    <3> QED
      BY <1>1, <2>1, <3>1, RowBounds
  <2>3. conv' = conv
    BY <1>1, <1>5, <2>1, <2>2 DEF Think, WakeUp, Silenced
  <2> QED
    BY <1>2, <2>3
<1>6. ASSUME NEW g \in Generations, SaveAnswer(g) \/ SaveNoMatch(g) PROVE FALSE
  <2>1. CopyOf(gen[g].copy) /\ gen[g].copy \in Row
    BY <1>6 DEF SaveAnswer, SaveNoMatch, CopyOf
  <2>2. conv'.handler \in {conv.handler, gen[g].copy.handler}
    BY <1>6, <2>1 DEF SaveAnswer, SaveNoMatch, WriteRow, Row
  <2> QED
    BY <1>1, <1>2, <2>1, <2>2
<1>7. ASSUME NEW g \in Generations, SaveHandoff(g) PROVE FALSE
  <2>1. gen[g].copy \in Row
    OBVIOUS
  <2>2. conv'.handler = "HUMAN"
    BY <1>7, <2>1 DEF SaveHandoff, HandedOff, Row
  <2> QED
    BY <2>2
<1>8. ASSUME NEW g \in Generations, Flush(g) \/ Generate(g) PROVE FALSE
  BY <1>2, <1>5, <1>6, <1>7, <1>8 DEF Flush, Generate, KeepSilent, LoadRow,
     DropEmpty, SendReply, RecordReply, ReplyFails
<1>9. CASE AgentSave
  <2>1. CopyOf(agent.copy)
    BY <1>9 DEF AgentSave, CopyOf
  <2> QED
    BY <1>1, <1>9, <2>1 DEF AgentSave, WriteRow
<1>10. CASE ReplyTick
  BY <1>2, <1>10 DEF ReplyTick, Later, Row
<1>11. CASE AgentLoad \/ ReplyCrash \/ UNCHANGED replyVars
  BY <1>2, <1>11 DEF AgentLoad, ReplyCrash, replyVars
<1> QED
  BY <1>4, <1>8, <1>9, <1>10, <1>11 DEF ReplyNext, MessageStep

(* After a handoff the bot takes the conversation back before its silence is over only
   by the hand of somebody who loaded the row before the handoff. *)
THEOREM SilenceLasts == ReplySpec => SilenceKept
<1>1. RepliesInit => StoredFirst /\ HandoffKnown
  <2> SUFFICES ASSUME RepliesInit PROVE StoredFirst /\ HandoffKnown
    OBVIOUS
  <2>1. StoredFirst
    BY DEF RepliesInit, StoredFirst, InMemory, InGeneration, NoGen, NoBatch, Stored
  <2>2. \A r : ~CopyOf(r)
    BY DEF RepliesInit, CopyOf, NoGen
  <2>3. conv.seen = 0 /\ returned = TRUE /\ handoffs = 0
    <3>1. FreshRow.seen = 0 /\ LegacyRow.seen = 0
      BY DEF FreshRow, LegacyRow
    <3> QED
      BY <3>1 DEF RepliesInit
  <2> QED
    BY <2>1, <2>2, <2>3, CopiesAre DEF HandoffKnown, RowsAround
<1>2. RepliesTypeOK /\ HandoffKnown /\ [ReplyNext]_replyVars
        => [~returned /\ conv.silence > 0 /\ conv'.handler = "AI"
              => \E copy \in Copies : copy.seen < handoffs]_replyVars
  BY BringsBack
<1>3. ReplySpec => []RepliesTypeOK
  BY RepliesTypeCorrect
<1> QED
  BY <1>1, <1>2, <1>3, StoredFirstStep, HandoffKnownStep, PTL DEF ReplySpec, SilenceKept

-----------------------------------------------------------------------------
(* WhatsAppSession: types. *)

Owners == Sockets \union {NoSocket}
SockRecord == [net : {"closed", "connecting", "open"}, listening : BOOLEAN,
               paired : BOOLEAN,
               status : ChannelStatuses, retries : 0..MaxRetries, drawing : BOOLEAN]
CallRecord == [kind : CallKind, pc : CallPc, of : Owners, out : ChannelStatus]
ChannelRecord == [status : ChannelStatus, data : BOOLEAN]

LEMMA SessionBounds ==
  /\ MaxRetries \in Nat /\ MaxTimers \in Nat /\ MaxVisits \in Nat /\ MaxLosses \in Nat
  /\ 0 \in 0..MaxRetries /\ 0 \in 0..MaxTimers /\ 0 \in 0..MaxVisits /\ 0 \in 0..MaxLosses
  /\ NoSocket \notin Sockets
  BY WhatsAppSessionAssumption DEF WhatsAppSessionAssumption

LEMMA SessionNoneTypes == NoCall \in CallRecord /\ Unused \in SockRecord
<1>1. NoCall \in CallRecord
  BY DEF NoCall, CallRecord, CallKind, CallPc, Owners, ChannelStatus
<1>2. Unused \in SockRecord
  BY SessionBounds DEF Unused, SockRecord, ChannelStatuses
<1> QED
  BY <1>1, <1>2

LEMMA CountTypes ==
  ASSUME WhatsAppSessionTypeOK
  PROVE  /\ Miss => losses' \in 0..MaxLosses
         /\ Visit => visits' \in 0..MaxVisits
<1>1. losses \in Nat /\ visits \in Nat
  BY SessionBounds DEF WhatsAppSessionTypeOK
<1> QED
  BY <1>1, SessionBounds DEF Miss, Visit

(* What the steps of a call may do to it. *)
CallMoves(c) ==
    \/ UNCHANGED call
    \/ Over(c)
    \/ \E pc \in CallPc : Continue(c, pc)
    \/ \E status \in ChannelStatus : Answer(c, status)
    \/ /\ call[c].kind = "none"
       /\ \E kind \in CallKind, pc \in CallPc, of \in Owners :
            call' = [call EXCEPT ![c] = [NoCall EXCEPT !.kind = kind, !.pc = pc, !.of = of]]

LEMMA CallTypes ==
  ASSUME WhatsAppSessionTypeOK, NEW c \in Slots, CallMoves(c)
  PROVE  call' \in [Slots -> CallRecord]
<1>0. call \in [Slots -> CallRecord] /\ NoCall \in CallRecord
  BY SessionNoneTypes DEF WhatsAppSessionTypeOK, CallRecord, Owners
<1>1. CASE UNCHANGED call \/ Over(c)
  BY <1>0, <1>1 DEF Over
<1>2. ASSUME NEW pc \in CallPc, Continue(c, pc) PROVE call' \in [Slots -> CallRecord]
  BY <1>0, <1>2 DEF Continue, CallRecord
<1>3. ASSUME NEW status \in ChannelStatus, Answer(c, status)
      PROVE  call' \in [Slots -> CallRecord]
  BY <1>0, <1>3 DEF Answer, CallRecord, CallPc
<1>4. ASSUME NEW kind \in CallKind, NEW pc \in CallPc, NEW of \in Owners
      PROVE  [NoCall EXCEPT !.kind = kind, !.pc = pc, !.of = of] \in CallRecord
  BY <1>0 DEF CallRecord
<1>5. ASSUME NEW kind \in CallKind, NEW pc \in CallPc, NEW of \in Owners,
             call' = [call EXCEPT ![c] = [NoCall EXCEPT !.kind = kind, !.pc = pc, !.of = of]]
      PROVE  call' \in [Slots -> CallRecord]
  <2> DEFINE new == [NoCall EXCEPT !.kind = kind, !.pc = pc, !.of = of]
  <2>1. new \in CallRecord /\ call' = [call EXCEPT ![c] = new]
    BY <1>4, <1>5
  <2> HIDE DEF new
  <2> QED
    BY <1>0, <2>1
<1> QED
  BY <1>0, <1>1, <1>2, <1>3, <1>5 DEF CallMoves

LEMMA StartMoves ==
  ASSUME NEW c \in Slots, NEW kind \in CallKind, NEW pc \in CallPc, NEW of \in Owners,
         Start(c, kind, pc, of)
  PROVE  CallMoves(c) /\ shared' \in BOOLEAN
  BY DEF Start, CallMoves

LEMMA CleanUpType ==
  ASSUME WhatsAppSessionTypeOK, CleanUp
  PROVE  session' \in Owners /\ sock' \in [Sockets -> SockRecord]
<1>1. session' \in Owners
  BY DEF CleanUp, Owners
<1>2. ASSUME NEW s \in Sockets
      PROVE  /\ sock[s] \in SockRecord
             /\ [sock[s] EXCEPT !.listening = FALSE, !.net = "closed", !.drawing = FALSE]
                  \in SockRecord
  BY DEF WhatsAppSessionTypeOK, SockRecord
<1>3. sock' \in [Sockets -> SockRecord]
  BY <1>2 DEF CleanUp
<1> QED
  BY <1>1, <1>3

LEMMA OpenSocketType ==
  ASSUME WhatsAppSessionTypeOK, OpenSocket
  PROVE  session' \in Owners /\ sock' \in [Sockets -> SockRecord]
<1>1. PICK s \in Sockets :
        /\ sock' = [sock EXCEPT ![s] = [net |-> "connecting", listening |-> TRUE,
                      paired |-> files, status |-> "connecting", retries |-> 0,
                      drawing |-> FALSE]]
        /\ session' = s
  BY DEF OpenSocket
<1>2. [net |-> "connecting", listening |-> TRUE, paired |-> files,
       status |-> "connecting", retries |-> 0, drawing |-> FALSE] \in SockRecord
  BY SessionBounds DEF WhatsAppSessionTypeOK, SockRecord, ChannelStatuses
<1> QED
  BY <1>1, <1>2 DEF WhatsAppSessionTypeOK, SockRecord, Owners

LEMMA StatusType ==
  ASSUME WhatsAppSessionTypeOK, NEW s, NEW status \in ChannelStatuses,
         sock' = [sock EXCEPT ![s].status = status]
  PROVE  sock' \in [Sockets -> SockRecord]
  BY DEF WhatsAppSessionTypeOK, SockRecord

LEMMA WipeType ==
  ASSUME WhatsAppSessionTypeOK, NEW c \in Slots, NEW next \in CallPc \union {"over"},
         Wipe(c, next)
  PROVE  WhatsAppSessionTypeOK' /\ CallMoves(c)
<1>1. CallMoves(c)
  BY DEF Wipe, CallMoves
<1>2. channel' \in ChannelRecord /\ losses' \in 0..MaxLosses
  BY CountTypes DEF Wipe, WhatsAppSessionTypeOK, ChannelRecord
<1> QED
  BY <1>1, <1>2, CallTypes
     DEF Wipe, WhatsAppSessionTypeOK, ChannelRecord, CallRecord, Owners

LEMMA ClosedType ==
  ASSUME WhatsAppSessionTypeOK, NEW s \in Sockets, NEW c \in Slots,
         NEW why \in CallKind, Closed(s, c, why)
  PROVE  /\ sock' \in [Sockets -> SockRecord] /\ shared' \in BOOLEAN
         /\ call' \in [Slots -> CallRecord]
<1>1. sock' \in [Sockets -> SockRecord]
  BY DEF Closed, WhatsAppSessionTypeOK, SockRecord
<1>2. CASE session = NoSocket
  BY <1>1, <1>2 DEF Closed, WhatsAppSessionTypeOK, CallRecord, Owners
<1>3. CASE session # NoSocket
  <2>1. Start(c, why, "begin", session) /\ "begin" \in CallPc /\ session \in Owners
    BY <1>3 DEF Closed, WhatsAppSessionTypeOK, CallPc, Owners
  <2> QED
    BY <1>1, <2>1, StartMoves, CallTypes
<1> QED
  BY <1>2, <1>3

LEMMA RequestTypes ==
  ASSUME WhatsAppSessionTypeOK, NEW c \in Slots,
         \/ Connect(c) \/ SavePending(c) \/ InitSession(c) \/ CreateBaileysSession(c)
         \/ Check(c) \/ RecordConnect(c) \/ DeleteSession(c) \/ EndPurge(c)
         \/ RecordDisconnect(c) \/ Poll(c) \/ RecordConnected(c) \/ SaveSessionToDB(c)
  PROVE  WhatsAppSessionTypeOK'
<1> USE DEF WhatsAppSessionTypeOK, SockRecord, CallRecord, ChannelRecord, Owners
<1>1. CASE Connect(c)
  <2>1. call' \in [Slots -> CallRecord] /\ shared' \in BOOLEAN
    BY <1>1, StartMoves, CallTypes DEF Connect, CallKind, CallPc
  <2> QED
    BY <1>1, <2>1, CleanUpType, CountTypes DEF Connect
<1>2. CASE SavePending(c)
  <2>1. call' \in [Slots -> CallRecord]
    BY <1>2, CallTypes DEF SavePending, CallMoves, CallPc
  <2>2. channel' \in ChannelRecord /\ losses' \in 0..MaxLosses
    <3>1. [status |-> "PENDING", data |-> FALSE] \in ChannelRecord
      BY DEF ChannelStatus
    <3> QED
      BY <1>2, <3>1, CountTypes DEF SavePending
  <2> QED
    BY <1>2, <2>1, <2>2 DEF SavePending
<1>3. CASE InitSession(c)
  <2>1. call' \in [Slots -> CallRecord]
    BY <1>3, CallTypes DEF InitSession, CallMoves, CallPc
  <2> QED
    BY <1>3, <2>1, CleanUpType DEF InitSession
<1>4. CASE CreateBaileysSession(c)
  <2>1. call' \in [Slots -> CallRecord]
    BY <1>4, CallTypes DEF CreateBaileysSession, CallMoves, CallPc, ChannelStatus
  <2>2. session' \in Owners /\ sock' \in [Sockets -> SockRecord] /\ losses' \in 0..MaxLosses
    BY <1>4, OpenSocketType, CountTypes DEF CreateBaileysSession
  <2> QED
    BY <1>4, <2>1, <2>2 DEF CreateBaileysSession
<1>5. CASE Check(c)
  <2>1. \E status \in ChannelStatus : Answer(c, status)
    BY <1>5 DEF Check, ChannelStatus
  <2>2. call' \in [Slots -> CallRecord]
    BY <2>1, CallTypes DEF CallMoves
  <2>3. sock' \in [Sockets -> SockRecord]
    BY <1>5, StatusType DEF Check, ChannelStatuses
  <2> QED
    BY <1>5, <2>2, <2>3 DEF Check
<1>6. CASE RecordConnect(c)
  <2>1. call' \in [Slots -> CallRecord]
    BY <1>6, CallTypes DEF RecordConnect, CallMoves, ChannelStatus
  <2>2. channel' \in ChannelRecord /\ losses' \in 0..MaxLosses
    BY <1>6, CountTypes DEF RecordConnect
  <2> QED
    BY <1>6, <2>1, <2>2 DEF RecordConnect
<1>7. CASE DeleteSession(c)
  <2>1. call' \in [Slots -> CallRecord] /\ shared' \in BOOLEAN
    BY <1>7, StartMoves, CallTypes DEF DeleteSession, CallKind, CallPc
  <2> QED
    BY <1>7, <2>1, CleanUpType, CountTypes DEF DeleteSession
<1>8. CASE EndPurge(c)
  <2>1. call' \in [Slots -> CallRecord]
    BY <1>8, CallTypes DEF EndPurge, CallMoves
  <2> QED
    BY <1>8, <2>1 DEF EndPurge
<1>9. CASE RecordDisconnect(c)
  <2>1. call' \in [Slots -> CallRecord]
    BY <1>9, CallTypes DEF RecordDisconnect, CallMoves
  <2>2. channel' \in ChannelRecord /\ losses' \in 0..MaxLosses
    <3>1. [status |-> "DISCONNECTED", data |-> FALSE] \in ChannelRecord
      BY DEF ChannelStatus
    <3> QED
      BY <1>9, <3>1, CountTypes DEF RecordDisconnect
  <2> QED
    BY <1>9, <2>1, <2>2 DEF RecordDisconnect
<1>10. CASE Poll(c)
  <2>1. call' \in [Slots -> CallRecord] /\ shared' \in BOOLEAN
    BY <1>10, StartMoves, CallTypes DEF Poll, CallKind, CallPc
  <2> QED
    BY <1>10, <2>1, CountTypes DEF Poll
<1>11. CASE RecordConnected(c) \/ SaveSessionToDB(c)
  <2>1. call' \in [Slots -> CallRecord]
    BY <1>11, CallTypes DEF RecordConnected, SaveSessionToDB, CallMoves, CallPc
  <2>2. channel' \in ChannelRecord /\ losses' \in 0..MaxLosses
    BY <1>11, CountTypes DEF RecordConnected, SaveSessionToDB, ChannelStatus
  <2> QED
    BY <1>11, <2>1, <2>2 DEF RecordConnected, SaveSessionToDB
<1> QED
  BY <1>1, <1>2, <1>3, <1>4, <1>5, <1>6, <1>7, <1>8, <1>9, <1>10, <1>11

LEMMA EventTypes ==
  ASSUME WhatsAppSessionTypeOK, NEW c \in Slots, NEW s \in Sockets,
         Qr(s) \/ Open(s, c) \/ Scan(s, c) \/ Close(s, c)
  PROVE  WhatsAppSessionTypeOK'
<1> USE DEF WhatsAppSessionTypeOK, SockRecord, CallRecord, ChannelRecord, Owners
<1>1. CASE Qr(s)
  BY <1>1 DEF Qr
<1>2. CASE Open(s, c)
  <2>1. sock' \in [Sockets -> SockRecord]
    <3>1. CASE session = NoSocket
      BY <1>2, <3>1 DEF Open
    <3>2. CASE session # NoSocket
      <4>1. ASSUME NEW t \in Sockets
            PROVE  sock'[t] \in SockRecord
        <5> DEFINE net == IF t = s THEN "open" ELSE sock[t].net
        <5>1. net \in {"closed", "connecting", "open"}
          OBVIOUS
        <5>2. sock'[t] = IF t = session
                           THEN [sock[t] EXCEPT !.status = "connected", !.retries = 0,
                                                !.net = net]
                           ELSE [sock[t] EXCEPT !.net = net]
          BY <1>2, <3>2 DEF Open
        <5> HIDE DEF net
        <5> QED
          BY <5>1, <5>2, SessionBounds DEF ChannelStatuses
      <4>2. sock' = [t \in Sockets |-> sock'[t]]
        BY <1>2, <3>2 DEF Open
      <4> QED
        BY <4>1, <4>2
    <3> QED
      BY <3>1, <3>2
  <2>2. call' \in [Slots -> CallRecord] /\ shared' \in BOOLEAN
    <3>1. CASE session = NoSocket
      BY <1>2, <3>1 DEF Open
    <3>2. CASE session # NoSocket
      <4>1. Start(c, "opened", "record", NoSocket)
        BY <1>2, <3>2 DEF Open
      <4> QED
        BY <4>1, StartMoves, CallTypes DEF CallKind, CallPc
    <3> QED
      BY <3>1, <3>2
  <2> QED
    BY <1>2, <2>1, <2>2 DEF Open
<1>3. CASE Scan(s, c)
  <2>1. /\ sock' \in [Sockets -> SockRecord] /\ shared' \in BOOLEAN
        /\ call' \in [Slots -> CallRecord]
    BY <1>3, ClosedType DEF Scan, CallKind
  <2> QED
    BY <1>3, <2>1 DEF Scan
<1>4. CASE Close(s, c)
  <2>1. /\ sock' \in [Sockets -> SockRecord] /\ shared' \in BOOLEAN
        /\ call' \in [Slots -> CallRecord]
    BY <1>4, ClosedType DEF Close, CallKind
  <2> QED
    BY <1>4, <2>1 DEF Close
<1> QED
  BY <1>1, <1>2, <1>3, <1>4

LEMMA HandlerTypes ==
  ASSUME WhatsAppSessionTypeOK, NEW c \in Slots,
         \/ LogOut(c) \/ Replace(c) \/ Drop(c) \/ MarkChannelDisconnected(c)
         \/ FireTimer(c) \/ RestoreSession(c) \/ Restarted(c)
  PROVE  WhatsAppSessionTypeOK'
<1> USE DEF WhatsAppSessionTypeOK, SockRecord, CallRecord, ChannelRecord, Owners
<1>1. CASE LogOut(c)
  <2>1. call' \in [Slots -> CallRecord]
    BY <1>1, CallTypes DEF LogOut, CallMoves, CallPc
  <2>2. ASSUME NEW s \in Sockets PROVE sock'[s] \in SockRecord
    BY <1>1 DEF LogOut, ChannelStatuses
  <2>3. sock' = [s \in Sockets |-> sock'[s]]
    BY <1>1 DEF LogOut
  <2> QED
    BY <1>1, <2>1, <2>2, <2>3 DEF LogOut
<1>2. ASSUME GiveUpSession(c)
      PROVE  call' \in [Slots -> CallRecord] /\ sock' \in [Sockets -> SockRecord]
  BY <1>2, CallTypes, StatusType DEF GiveUpSession, CallMoves, CallPc, ChannelStatuses
<1>3. CASE Replace(c)
  BY <1>2, <1>3 DEF Replace
<1>4. CASE Drop(c)
  <2>1. channel' \in ChannelRecord
    BY <1>4 DEF Drop
  <2>2. CASE sock[call[c].of].retries < MaxRetries
    <3>1. /\ timers < MaxTimers /\ timers' = timers + 1 /\ Over(c)
          /\ sock' = [sock EXCEPT ![call[c].of].retries = sock[call[c].of].retries + 1]
      BY <1>4, <2>2 DEF Drop
    <3>2. timers' \in 0..MaxTimers
      BY <3>1, SessionBounds
    <3>3. call' \in [Slots -> CallRecord]
      BY <3>1, CallTypes DEF CallMoves
    <3>4. sock' \in [Sockets -> SockRecord]
      <4>1. CASE call[c].of \in Sockets
        <5>1. sock[call[c].of].retries + 1 \in 0..MaxRetries
          BY <2>2, <4>1, SessionBounds
        <5> QED
          BY <3>1, <4>1, <5>1
      <4>2. CASE call[c].of \notin Sockets
        BY <3>1, <4>2
      <4> QED
        BY <4>1, <4>2
    <3> QED
      BY <1>4, <2>1, <3>2, <3>3, <3>4 DEF Drop
  <2>3. CASE ~(sock[call[c].of].retries < MaxRetries)
    <3>1. GiveUpSession(c) /\ UNCHANGED timers
      BY <1>4, <2>3 DEF Drop
    <3> QED
      BY <1>2, <1>4, <2>1, <3>1 DEF Drop
  <2> QED
    BY <2>2, <2>3
<1>5. CASE MarkChannelDisconnected(c)
  <2>1. call' \in [Slots -> CallRecord]
    BY <1>5, CallTypes DEF MarkChannelDisconnected, CallMoves
  <2>2. channel' \in ChannelRecord /\ losses' \in 0..MaxLosses
    BY <1>5, CountTypes DEF MarkChannelDisconnected, ChannelStatus
  <2> QED
    BY <1>5, <2>1, <2>2 DEF MarkChannelDisconnected
<1>6. CASE FireTimer(c)
  <2>1. call' \in [Slots -> CallRecord] /\ shared' \in BOOLEAN
    BY <1>6, StartMoves, CallTypes DEF FireTimer, CallKind, CallPc
  <2>2. timers' \in 0..MaxTimers
    BY <1>6, SessionBounds DEF FireTimer
  <2> QED
    BY <1>6, <2>1, <2>2, CleanUpType DEF FireTimer
<1>7. CASE RestoreSession(c)
  <2>1. call' \in [Slots -> CallRecord]
    BY <1>7, CallTypes DEF RestoreSession, CallMoves, CallPc
  <2>2. session' \in Owners /\ sock' \in [Sockets -> SockRecord] /\ losses' \in 0..MaxLosses
    BY <1>7, OpenSocketType, CountTypes DEF RestoreSession, ChannelStatuses
  <2> QED
    BY <1>7, <2>1, <2>2 DEF RestoreSession
<1>8. CASE Restarted(c)
  <2>1. /\ channel' \in ChannelRecord /\ files' \in BOOLEAN
        /\ losses' \in 0..MaxLosses /\ timers' \in 0..MaxTimers
    BY <1>8, CountTypes, SessionBounds DEF Restarted
  <2>2. sock' \in [Sockets -> SockRecord]
    BY <1>8, SessionNoneTypes DEF Restarted
  <2>3. call' \in [Slots -> CallRecord]
    <3>1. [NoCall EXCEPT !.kind = "boot", !.pc = "create"] \in CallRecord
          /\ [NoCall EXCEPT !.kind = "boot", !.pc = "record"] \in CallRecord
      BY SessionNoneTypes DEF CallKind, CallPc
    <3>2. ASSUME NEW d \in Slots
          PROVE  call'[d] \in {NoCall, [NoCall EXCEPT !.kind = "boot", !.pc = "create"],
                                 [NoCall EXCEPT !.kind = "boot", !.pc = "record"]}
      BY <1>8 DEF Restarted
    <3>3. call' = [d \in Slots |-> call'[d]]
      BY <1>8 DEF Restarted
    <3> QED
      BY <3>1, <3>2, <3>3, SessionNoneTypes
  <2> QED
    BY <1>8, <2>1, <2>2, <2>3 DEF Restarted
<1> QED
  BY <1>1, <1>3, <1>4, <1>5, <1>6, <1>7, <1>8

LEMMA SessionTypeStep ==
  ASSUME WhatsAppSessionTypeOK, [WhatsAppSessionNext]_waVars
  PROVE  WhatsAppSessionTypeOK'
<1>1. CASE UNCHANGED waVars
  BY <1>1 DEF WhatsAppSessionTypeOK, waVars
<1>2. ASSUME NEW c \in Slots,
             WipeFirst(c) \/ WipeAgain(c) \/ WipeDeleted(c) \/ WipeLoggedOut(c)
      PROVE  WhatsAppSessionTypeOK'
  BY <1>2, WipeType DEF WipeFirst, WipeAgain, WipeDeleted, WipeLoggedOut, CallPc
<1>3. ASSUME NEW s \in Sockets, Qr(s) \/ QrDrawn(s) PROVE WhatsAppSessionTypeOK'
  <2>1. /\ sock \in [Sockets -> SockRecord]
        /\ UNCHANGED <<channel, files, linked, session, timers, call, overlapped, shared,
                       purged, visits, losses>>
    BY <1>3 DEF Qr, QrDrawn, WhatsAppSessionTypeOK, SockRecord
  <2>2. CASE Qr(s)
    <3>1. session \in Sockets /\ [sock[session] EXCEPT !.drawing = TRUE] \in SockRecord
      BY <2>1, <2>2 DEF Qr, WhatsAppSessionTypeOK, SockRecord
    <3>2. sock' = [sock EXCEPT ![session] = [sock[session] EXCEPT !.drawing = TRUE]]
      BY <2>1, <2>2 DEF Qr
    <3>3. sock' \in [Sockets -> SockRecord]
      BY <2>1, <3>1, <3>2
    <3> QED
      BY <2>1, <3>3 DEF WhatsAppSessionTypeOK, SockRecord
  <2>3. CASE QrDrawn(s)
    <3>1. [sock[s] EXCEPT !.drawing = FALSE, !.status = "qr_ready"] \in SockRecord
      BY <2>1 DEF SockRecord, ChannelStatuses
    <3>2. sock' = [sock EXCEPT ![s] = [sock[s] EXCEPT !.drawing = FALSE,
                                                      !.status = "qr_ready"]]
      BY <2>1, <2>3 DEF QrDrawn
    <3>3. sock' \in [Sockets -> SockRecord]
      BY <2>1, <3>1, <3>2
    <3> QED
      BY <2>1, <3>3 DEF WhatsAppSessionTypeOK, SockRecord
  <2> QED
    BY <1>3, <2>2, <2>3
<1> QED
  BY <1>1, <1>2, <1>3, RequestTypes, EventTypes, HandlerTypes DEF WhatsAppSessionNext

LEMMA SessionInitType == WhatsAppSessionInit => WhatsAppSessionTypeOK
<1> SUFFICES ASSUME WhatsAppSessionInit PROVE WhatsAppSessionTypeOK
  OBVIOUS
<1>1. channel \in ChannelRecord
  BY DEF WhatsAppSessionInit, ChannelRecord, ChannelStatus
<1>2. sock \in [Sockets -> SockRecord] /\ call \in [Slots -> CallRecord]
  BY SessionNoneTypes DEF WhatsAppSessionInit
<1> QED
  BY <1>1, <1>2, SessionBounds
     DEF WhatsAppSessionInit, WhatsAppSessionTypeOK, ChannelRecord, SockRecord, CallRecord,
         Owners

(* The row of the channel, its sockets and the calls that work on them have values their
   handlers may meet. *)
THEOREM SessionTypeCorrect == WhatsAppSessionSpec => []WhatsAppSessionTypeOK
  BY SessionInitType, SessionTypeStep, PTL DEF WhatsAppSessionSpec

-----------------------------------------------------------------------------
(* The calls that are replacing the session after a step of the call c. *)
LEMMA ReplacingAfter ==
  ASSUME WhatsAppSessionTypeOK, NEW c \in Slots
  PROVE  /\ Over(c) => Replacing' \subseteq Replacing \ {c}
         /\ \A pc : Continue(c, pc) => Replacing' \subseteq Replacing \union {c}
         /\ \A pc : Continue(c, pc) /\ pc \notin {"rewipe", "create"}
              => Replacing' \subseteq Replacing \ {c}
         /\ \A status : Answer(c, status) => Replacing' \subseteq Replacing \ {c}
         /\ \A kind, pc, of : Start(c, kind, pc, of)
              => Replacing' \subseteq Replacing \union {c}
         /\ \A kind, pc, of : Start(c, kind, pc, of) /\ pc \notin {"rewipe", "create"}
              => Replacing' \subseteq Replacing
         /\ call' = call => Replacing' = Replacing
<1> USE DEF Replacing, WhatsAppSessionTypeOK, NoCall
<1>1. Over(c) => Replacing' \subseteq Replacing \ {c}
  BY DEF Over
<1>2. ASSUME NEW pc, Continue(c, pc)
      PROVE  /\ Replacing' \subseteq Replacing \union {c}
             /\ pc \notin {"rewipe", "create"} => Replacing' \subseteq Replacing \ {c}
  BY <1>2 DEF Continue
<1>3. ASSUME NEW status, Answer(c, status) PROVE Replacing' \subseteq Replacing \ {c}
  BY <1>3 DEF Answer
<1>4. ASSUME NEW kind, NEW pc, NEW of, Start(c, kind, pc, of)
      PROVE  /\ Replacing' \subseteq Replacing \union {c}
             /\ pc \notin {"rewipe", "create"} => Replacing' \subseteq Replacing
  BY <1>4 DEF Start
<1> QED
  BY <1>1, <1>2, <1>3, <1>4

SocketsStay == /\ session' = session /\ overlapped' = overlapped
               /\ \A s \in Sockets : sock'[s].listening => sock[s].listening
               /\ Replacing' \subseteq Replacing

LEMMA CleanUpMeans ==
  ASSUME WhatsAppSessionTypeOK, CleanUp
  PROVE  /\ session' = NoSocket
         /\ \A s \in Sockets : /\ sock'[s].listening => sock[s].listening /\ s # session
                               /\ s # session => sock'[s] = sock[s]
  BY DEF WhatsAppSessionTypeOK, CleanUp

LEMMA OpenSockets ==
  ASSUME WhatsAppSessionTypeOK, SocketInv, NEW c \in Slots, c \in Replacing, OpenSocket,
         overlapped' = overlapped, Replacing' \subseteq Replacing \ {c}
  PROVE  SocketInv'
<1>1. PICK s \in Sockets :
        /\ sock' = [sock EXCEPT ![s] = [net |-> "connecting", listening |-> TRUE,
                      paired |-> files, status |-> "connecting", retries |-> 0,
                      drawing |-> FALSE]]
        /\ session' = s
  BY DEF OpenSocket
<1>2. CASE overlapped
  BY <1>2 DEF SocketInv
<1>3. CASE ~overlapped
  <2>1. session = NoSocket /\ \A d \in Replacing : d = c
    BY <1>3 DEF SocketInv
  <2>2. Replacing' = {}
    BY <2>1
  <2>3. \A t \in Sockets \ {s} : sock'[t] = sock[t] /\ ~sock[t].listening
    BY <1>1, <1>3, <2>1, SessionBounds DEF SocketInv, WhatsAppSessionTypeOK
  <2> QED
    BY <1>1, <2>2, <2>3 DEF SocketInv
<1> QED
  BY <1>2, <1>3 DEF WhatsAppSessionTypeOK

LEMMA RequestSockets ==
  ASSUME WhatsAppSessionTypeOK, SocketInv, NEW c \in Slots,
         \/ Connect(c) \/ SavePending(c) \/ InitSession(c) \/ CreateBaileysSession(c)
         \/ Check(c) \/ RecordConnect(c) \/ DeleteSession(c) \/ EndPurge(c)
         \/ RecordDisconnect(c) \/ Poll(c) \/ RecordConnected(c) \/ SaveSessionToDB(c)
  PROVE  SocketInv'
<1>0. SocketsStay => SocketInv'
  BY DEF SocketsStay, SocketInv
<1>1. CASE Connect(c) \/ DeleteSession(c)
  <2>1. CleanUp /\ overlapped' = overlapped /\ Replacing' \subseteq Replacing
    BY <1>1, ReplacingAfter DEF Connect, DeleteSession
  <2> QED
    BY <2>1, CleanUpMeans DEF SocketInv
<1>2. CASE \/ SavePending(c) \/ RecordConnect(c) \/ EndPurge(c)
           \/ RecordDisconnect(c) \/ Poll(c) \/ RecordConnected(c) \/ SaveSessionToDB(c)
  <2>1. /\ UNCHANGED <<session, sock, overlapped>>
        /\ Replacing' \subseteq Replacing
    BY <1>2, ReplacingAfter
       DEF SavePending, RecordConnect, EndPurge, RecordDisconnect, Poll, RecordConnected,
           SaveSessionToDB
  <2> QED
    BY <1>0, <2>1 DEF SocketsStay
<1>3. CASE InitSession(c)
  <2>1. /\ CleanUp /\ overlapped' = (overlapped \/ Replacing # {})
        /\ Replacing' \subseteq Replacing \union {c}
    BY <1>3, ReplacingAfter DEF InitSession
  <2> QED
    BY <2>1, CleanUpMeans DEF SocketInv
<1>4. CASE CreateBaileysSession(c)
  <2>1. c \in Replacing /\ overlapped' = overlapped /\ Replacing' \subseteq Replacing \ {c}
    BY <1>4, ReplacingAfter DEF CreateBaileysSession, Replacing
  <2>2. CASE OpenSocket
    BY <2>1, <2>2, OpenSockets
  <2>3. CASE session' = NoSocket /\ UNCHANGED sock
    BY <2>1, <2>3 DEF SocketInv
  <2> QED
    BY <1>4, <2>2, <2>3 DEF CreateBaileysSession
<1>5. CASE Check(c)
  <2>1. /\ \E status \in ChannelStatus : Answer(c, status)
        /\ UNCHANGED <<session, overlapped>>
        /\ UNCHANGED sock \/ sock' = [sock EXCEPT ![session].status = "disconnected"]
    BY <1>5 DEF Check, ChannelStatus
  <2>2. \A s \in Sockets : sock'[s].listening = sock[s].listening
    BY <2>1 DEF WhatsAppSessionTypeOK
  <2>3. Replacing' \subseteq Replacing
    BY <2>1, ReplacingAfter
  <2> QED
    BY <1>0, <2>1, <2>2, <2>3 DEF SocketsStay
<1> QED
  BY <1>1, <1>2, <1>3, <1>4, <1>5

LEMMA WipeSockets ==
  ASSUME WhatsAppSessionTypeOK, SocketInv, NEW c \in Slots,
         WipeFirst(c) \/ WipeAgain(c) \/ WipeDeleted(c) \/ WipeLoggedOut(c)
  PROVE  SocketInv'
<1>1. UNCHANGED <<session, sock, overlapped>>
  BY DEF WipeFirst, WipeAgain, WipeDeleted, WipeLoggedOut, Wipe
<1>2. Replacing' \subseteq Replacing
  <2>1. CASE WipeAgain(c)
    BY <2>1, ReplacingAfter DEF WipeAgain, Wipe, Replacing
  <2>2. CASE WipeFirst(c) \/ WipeDeleted(c) \/ WipeLoggedOut(c)
    BY <2>2, ReplacingAfter DEF WipeFirst, WipeDeleted, WipeLoggedOut, Wipe
  <2> QED
    BY <2>1, <2>2
<1> QED
  BY <1>1, <1>2 DEF SocketInv

LEMMA OpenMeans ==
  ASSUME WhatsAppSessionTypeOK, NEW s \in Sockets, NEW c \in Slots, Open(s, c),
         session # NoSocket
  PROVE  \A t \in Sockets :
           /\ sock'[t].listening = sock[t].listening /\ sock'[t].paired = sock[t].paired
           /\ sock'[t].net = IF t = s THEN "open" ELSE sock[t].net
           /\ sock'[t].status = IF t = session THEN "connected" ELSE sock[t].status
<1> SUFFICES ASSUME NEW t \in Sockets
             PROVE  /\ sock'[t].listening = sock[t].listening
                    /\ sock'[t].paired = sock[t].paired
                    /\ sock'[t].net = IF t = s THEN "open" ELSE sock[t].net
                    /\ sock'[t].status = IF t = session THEN "connected" ELSE sock[t].status
  OBVIOUS
<1> DEFINE net == IF t = s THEN "open" ELSE sock[t].net
<1>1. sock'[t] = IF t = session
                   THEN [sock[t] EXCEPT !.status = "connected", !.retries = 0, !.net = net]
                   ELSE [sock[t] EXCEPT !.net = net]
  BY DEF Open
<1>2. sock[t] \in SockRecord
  BY DEF WhatsAppSessionTypeOK, SockRecord
<1>3. net = IF t = s THEN "open" ELSE sock[t].net
  OBVIOUS
<1> HIDE DEF net
<1>4. /\ sock'[t].listening = sock[t].listening
      /\ sock'[t].paired = sock[t].paired
      /\ sock'[t].net = net
      /\ sock'[t].status = IF t = session THEN "connected" ELSE sock[t].status
  BY <1>1, <1>2 DEF SockRecord
<1> QED
  BY <1>3, <1>4

LEMMA EventSockets ==
  ASSUME WhatsAppSessionTypeOK, SocketInv, NEW c \in Slots, NEW s \in Sockets,
         Qr(s) \/ Open(s, c) \/ Scan(s, c) \/ Close(s, c)
  PROVE  SocketInv'
<1> USE DEF WhatsAppSessionTypeOK
<1>1. session' = session /\ overlapped' = overlapped
  BY DEF Qr, Open, Scan, Close
<1>2. \A t \in Sockets : sock'[t].listening = sock[t].listening
  <2>1. CASE Qr(s)
    BY <2>1 DEF Qr
  <2>2. CASE Open(s, c) /\ session = NoSocket
    BY <2>2 DEF Open
  <2>3. CASE Open(s, c) /\ session # NoSocket
    BY <2>3, OpenMeans
  <2>4. CASE Scan(s, c) \/ Close(s, c)
    <3>1. sock' = [sock EXCEPT ![s].net = "closed"]
      BY <2>4 DEF Scan, Close, Closed
    <3> QED
      BY <3>1
  <2> QED
    BY <2>1, <2>2, <2>3, <2>4
<1>3. Replacing' \subseteq Replacing
  <2>1. \/ call' = call
        \/ \E kind : Start(c, kind, "record", NoSocket)
        \/ \E kind : Start(c, kind, "begin", session)
    BY DEF Qr, Open, Scan, Close, Closed
  <2> QED
    BY <2>1, ReplacingAfter
<1> QED
  BY <1>1, <1>2, <1>3 DEF SocketInv

LEMMA HandlerSockets ==
  ASSUME WhatsAppSessionTypeOK, SocketInv, NEW c \in Slots,
         \/ LogOut(c) \/ Replace(c) \/ Drop(c) \/ MarkChannelDisconnected(c)
         \/ FireTimer(c) \/ RestoreSession(c) \/ Restarted(c)
  PROVE  SocketInv'
<1> USE DEF WhatsAppSessionTypeOK
<1>0. SocketsStay => SocketInv'
  BY DEF SocketsStay, SocketInv
<1>1. CASE LogOut(c)
  <2>1. /\ session' = NoSocket /\ overlapped' = overlapped
        /\ \A s \in Sockets : sock'[s].listening => sock[s].listening /\ s # session
    BY <1>1 DEF LogOut
  <2>2. Replacing' \subseteq Replacing
    BY <1>1, ReplacingAfter DEF LogOut
  <2> QED
    BY <2>1, <2>2 DEF SocketInv
<1>2. CASE Replace(c) \/ Drop(c) \/ MarkChannelDisconnected(c)
  <2>1. session' = session /\ overlapped' = overlapped
    BY <1>2 DEF Replace, Drop, MarkChannelDisconnected
  <2>2. Replacing' \subseteq Replacing
    BY <1>2, ReplacingAfter DEF Replace, Drop, GiveUpSession, MarkChannelDisconnected
  <2>3. \A s \in Sockets : sock'[s].listening = sock[s].listening
    BY <1>2 DEF Replace, Drop, GiveUpSession, MarkChannelDisconnected
  <2> QED
    BY <1>0, <2>1, <2>2, <2>3 DEF SocketsStay
<1>3. CASE FireTimer(c)
  <2>1. /\ CleanUp /\ overlapped' = (overlapped \/ Replacing # {})
        /\ Replacing' \subseteq Replacing \union {c}
    BY <1>3, ReplacingAfter DEF FireTimer
  <2> QED
    BY <2>1, CleanUpMeans DEF SocketInv
<1>4. CASE RestoreSession(c)
  <2>1. c \in Replacing /\ overlapped' = overlapped /\ Replacing' \subseteq Replacing \ {c}
    BY <1>4, ReplacingAfter DEF RestoreSession, Replacing
  <2>2. CASE OpenSocket
    BY <2>1, <2>2, OpenSockets
  <2>3. CASE session' = session /\ ~OpenSocket
    <3>1. \A s \in Sockets : sock'[s].listening = sock[s].listening
      BY <1>4, <2>3 DEF RestoreSession
    <3> QED
      BY <2>1, <2>3, <3>1 DEF SocketInv
  <2> QED
    BY <1>4, <2>2, <2>3 DEF RestoreSession
<1>5. CASE Restarted(c)
  <2>1. /\ \A s \in Sockets : ~sock'[s].listening
        /\ session' = NoSocket
    BY <1>5 DEF Restarted, Unused
  <2>2. \A d \in Slots : d # c => call'[d].pc = "begin"
    BY <1>5 DEF Restarted, NoCall
  <2> QED
    BY <2>1, <2>2 DEF SocketInv, Replacing
<1> QED
  BY <1>1, <1>2, <1>3, <1>4, <1>5

LEMMA SocketStep ==
  ASSUME WhatsAppSessionTypeOK, SocketInv, [WhatsAppSessionNext]_waVars
  PROVE  SocketInv'
<1>1. CASE UNCHANGED waVars
  BY <1>1 DEF SocketInv, Replacing, waVars
<1>2. CASE \E s \in Sockets : Qr(s) \/ QrDrawn(s)
  BY <1>2 DEF Qr, QrDrawn, SocketInv, Replacing, WhatsAppSessionTypeOK
<1> QED
  BY <1>1, <1>2, RequestSockets, WipeSockets, EventSockets, HandlerSockets
     DEF WhatsAppSessionNext

(* Events reach the service from one socket at a time, that of the session in the map,
   unless two calls were replacing the session at once. *)
THEOREM OneSocketListens == WhatsAppSessionSpec => []OneSocket
<1>1. WhatsAppSessionInit => SocketInv
  BY DEF WhatsAppSessionInit, SocketInv, Unused, Replacing, NoCall
<1>2. SocketInv => OneSocket
  BY DEF SocketInv, OneSocket
<1>3. WhatsAppSessionSpec => []WhatsAppSessionTypeOK
  BY SessionTypeCorrect
<1> QED
  BY <1>1, <1>2, <1>3, SocketStep, PTL DEF WhatsAppSessionSpec

-----------------------------------------------------------------------------
Holders == {"drop", "loggedOut", "replaced"}
HoldersInv == \A c \in Slots : call[c].of # NoSocket => call[c].kind \in Holders
DeadHandled ==
    session # NoSocket /\ ~overlapped /\ sock[session].net = "closed"
      => \/ sock[session].status = "disconnected" \/ timers > 0
         \/ \E c \in Slots : call[c].of = session /\ call[c].pc = "begin"

LEMMA ClosedParts == /\ ClosedInv <=> HoldersInv /\ DeadHandled
                     /\ ClosedInv' <=> HoldersInv' /\ DeadHandled'
  BY DEF ClosedInv, HoldersInv, Holders, DeadHandled

(* A step of the call c leaves the handlers that hold a socket what they were. *)
LEMMA HoldersStay ==
  ASSUME WhatsAppSessionTypeOK, HoldersInv, NEW c \in Slots,
         \/ UNCHANGED call \/ Over(c)
         \/ \E pc : Continue(c, pc)
         \/ \E status : Answer(c, status)
         \/ \E kind, pc, of : Start(c, kind, pc, of) /\ (of = NoSocket \/ kind \in Holders)
  PROVE  /\ HoldersInv'
         /\ \A d \in Slots \ {c} : call'[d] = call[d]
<1> USE DEF WhatsAppSessionTypeOK, HoldersInv
<1>1. CASE UNCHANGED call \/ Over(c)
  BY <1>1 DEF Over, NoCall
<1>2. ASSUME NEW pc, Continue(c, pc)
      PROVE  HoldersInv' /\ \A d \in Slots \ {c} : call'[d] = call[d]
  BY <1>2 DEF Continue
<1>3. ASSUME NEW status, Answer(c, status)
      PROVE  HoldersInv' /\ \A d \in Slots \ {c} : call'[d] = call[d]
  BY <1>3 DEF Answer
<1>4. ASSUME NEW kind, NEW pc, NEW of, Start(c, kind, pc, of),
             of = NoSocket \/ kind \in Holders
      PROVE  HoldersInv' /\ \A d \in Slots \ {c} : call'[d] = call[d]
  BY <1>4 DEF Start, NoCall
<1> QED
  BY <1>1, <1>2, <1>3, <1>4

LEMMA DeadStays ==
  ASSUME WhatsAppSessionTypeOK, HoldersInv, DeadHandled, session' = session,
         overlapped => overlapped',
         session # NoSocket /\ sock'[session].net = "closed"
           => /\ sock[session].net = "closed"
              /\ sock[session].status = "disconnected"
                   => sock'[session].status = "disconnected",
         timers' = timers,
         NEW c \in Slots, \A d \in Slots \ {c} : call'[d] = call[d],
         call[c].kind \notin Holders \/ call[c].pc # "begin"
  PROVE  DeadHandled'
<1>1. ASSUME NEW d \in Slots, call[d].of = session, call[d].pc = "begin", session # NoSocket
      PROVE  call'[d] = call[d]
  BY <1>1 DEF HoldersInv
<1> QED
  BY <1>1 DEF DeadHandled

LEMMA RequestClosed ==
  ASSUME WhatsAppSessionTypeOK, ClosedInv, NEW c \in Slots,
         \/ Connect(c) \/ SavePending(c) \/ InitSession(c) \/ CreateBaileysSession(c)
         \/ Check(c) \/ RecordConnect(c) \/ DeleteSession(c) \/ EndPurge(c)
         \/ RecordDisconnect(c) \/ Poll(c) \/ RecordConnected(c) \/ SaveSessionToDB(c)
  PROVE  ClosedInv'
<1>0. HoldersInv /\ DeadHandled
  BY ClosedParts
<1>1. /\ HoldersInv'
      /\ \A d \in Slots \ {c} : call'[d] = call[d]
  BY <1>0, HoldersStay
     DEF Connect, SavePending, InitSession, CreateBaileysSession, Check, RecordConnect,
         DeleteSession, EndPurge, RecordDisconnect, Poll, RecordConnected, SaveSessionToDB
<1>2. CASE session' = NoSocket
  BY <1>1, <1>2, ClosedParts DEF DeadHandled
<1>3. CASE CreateBaileysSession(c) /\ OpenSocket
  BY <1>1, <1>3, ClosedParts DEF OpenSocket, DeadHandled, WhatsAppSessionTypeOK
<1>4. CASE \/ SavePending(c) \/ Check(c) \/ RecordConnect(c) \/ EndPurge(c)
           \/ RecordDisconnect(c) \/ Poll(c) \/ RecordConnected(c) \/ SaveSessionToDB(c)
  <2>1. UNCHANGED <<session, overlapped, timers>>
    BY <1>4 DEF SavePending, Check, RecordConnect, EndPurge, RecordDisconnect, Poll,
       RecordConnected, SaveSessionToDB
  <2>2. call[c].kind \notin Holders \/ call[c].pc # "begin"
    BY <1>4 DEF SavePending, Check, RecordConnect, EndPurge, RecordDisconnect, Poll,
       RecordConnected, SaveSessionToDB, Start, Holders
  <2>3. UNCHANGED sock \/ (session # NoSocket
                            /\ sock' = [sock EXCEPT ![session].status = "disconnected"])
    BY <1>4 DEF SavePending, Check, RecordConnect, EndPurge, RecordDisconnect, Poll,
       RecordConnected, SaveSessionToDB
  <2>4. session # NoSocket /\ sock'[session].net = "closed"
          => /\ sock[session].net = "closed"
             /\ sock[session].status = "disconnected"
                  => sock'[session].status = "disconnected"
    BY <2>3 DEF WhatsAppSessionTypeOK
  <2> QED
    BY <1>0, <1>1, <2>1, <2>2, <2>4, DeadStays, ClosedParts
<1> QED
  BY <1>2, <1>3, <1>4
     DEF Connect, InitSession, CreateBaileysSession, DeleteSession, CleanUp

LEMMA WipeClosed ==
  ASSUME WhatsAppSessionTypeOK, ClosedInv, NEW c \in Slots,
         WipeFirst(c) \/ WipeAgain(c) \/ WipeDeleted(c) \/ WipeLoggedOut(c)
  PROVE  ClosedInv'
<1>0. HoldersInv /\ DeadHandled
  BY ClosedParts
<1>1. /\ HoldersInv'
      /\ \A d \in Slots \ {c} : call'[d] = call[d]
  BY <1>0, HoldersStay DEF WipeFirst, WipeAgain, WipeDeleted, WipeLoggedOut, Wipe
<1>2. /\ UNCHANGED <<session, overlapped, timers, sock>>
      /\ call[c].kind \notin Holders \/ call[c].pc # "begin"
  BY DEF WipeFirst, WipeAgain, WipeDeleted, WipeLoggedOut, Wipe, Holders
<1>3. DeadHandled'
  BY <1>0, <1>1, <1>2, DeadStays
<1> QED
  BY <1>1, <1>3, ClosedParts

LEMMA EventClosed ==
  ASSUME WhatsAppSessionTypeOK, SocketInv, ClosedInv, NEW c \in Slots, NEW s \in Sockets,
         Qr(s) \/ Open(s, c) \/ Scan(s, c) \/ Close(s, c)
  PROVE  ClosedInv'
<1>0. HoldersInv /\ DeadHandled
  BY ClosedParts
<1>a. /\ HoldersInv'
      /\ \A d \in Slots \ {c} : call'[d] = call[d]
  <2>1. \/ UNCHANGED call
        \/ Start(c, "opened", "record", NoSocket)
        \/ \E kind \in Holders : Start(c, kind, "begin", session)
    BY DEF Qr, Open, Scan, Close, Closed, Holders
  <2> QED
    BY <1>0, <2>1, HoldersStay
<1>b. CASE overlapped \/ session = NoSocket
  <2>0. overlapped' = overlapped /\ session' = session
    BY DEF Qr, Open, Scan, Close
  <2>1. overlapped' \/ session' = NoSocket
    BY <1>b, <2>0
  <2> QED
    BY <1>a, <2>1, ClosedParts DEF DeadHandled
<1>c. ASSUME ~overlapped, session # NoSocket
      PROVE  DeadHandled'
  <2>0. s = session /\ session' = session /\ session \in Sockets
    BY <1>c DEF Qr, Open, Scan, Close, SocketInv
  <2>1. CASE Qr(s)
    BY <2>0, <2>1 DEF Qr, DeadHandled, WhatsAppSessionTypeOK
  <2>2. CASE Open(s, c)
    BY <1>c, <2>0, <2>2, OpenMeans DEF DeadHandled
  <2>3. CASE Scan(s, c) \/ Close(s, c)
    <3>1. PICK kind : Start(c, kind, "begin", session)
      BY <1>c, <2>3 DEF Scan, Close, Closed
    <3>2. call'[c].of = session /\ call'[c].pc = "begin"
      BY <3>1 DEF Start, NoCall, WhatsAppSessionTypeOK
    <3> QED
      BY <2>0, <3>2 DEF DeadHandled
  <2> QED
    BY <2>1, <2>2, <2>3
<1> QED
  BY <1>a, <1>b, <1>c, ClosedParts

LEMMA HandlerClosed ==
  ASSUME WhatsAppSessionTypeOK, ClosedInv, NEW c \in Slots,
         \/ LogOut(c) \/ Replace(c) \/ Drop(c) \/ MarkChannelDisconnected(c)
         \/ FireTimer(c) \/ RestoreSession(c) \/ Restarted(c)
  PROVE  ClosedInv'
<1>0. HoldersInv /\ DeadHandled
  BY ClosedParts
<1>1. CASE Restarted(c)
  <2>1. session' = NoSocket /\ \A d \in Slots : call'[d].of = NoSocket
    BY <1>1 DEF Restarted, NoCall
  <2> QED
    BY <2>1 DEF ClosedInv
<1>2. ASSUME ~Restarted(c)
      PROVE  /\ HoldersInv'
             /\ \A d \in Slots \ {c} : call'[d] = call[d]
  BY <1>0, <1>2, HoldersStay
     DEF LogOut, Replace, GiveUpSession, Drop, MarkChannelDisconnected, FireTimer,
         RestoreSession
<1>3. CASE session' = NoSocket /\ ~Restarted(c)
  BY <1>2, <1>3, ClosedParts DEF DeadHandled
<1>4. CASE RestoreSession(c) /\ OpenSocket /\ ~Restarted(c)
  BY <1>2, <1>4, ClosedParts DEF OpenSocket, DeadHandled, WhatsAppSessionTypeOK
<1>5. CASE (MarkChannelDisconnected(c) \/ (RestoreSession(c) /\ ~OpenSocket))
           /\ ~Restarted(c)
  <2>1. UNCHANGED <<session, overlapped, timers>>
    BY <1>5 DEF MarkChannelDisconnected, RestoreSession
  <2>2. call[c].pc # "begin"
    BY <1>5 DEF MarkChannelDisconnected, RestoreSession
  <2>3. session # NoSocket /\ sock'[session].net = "closed"
          => /\ sock[session].net = "closed"
             /\ sock[session].status = "disconnected"
                  => sock'[session].status = "disconnected"
    BY <1>5 DEF MarkChannelDisconnected, RestoreSession, WhatsAppSessionTypeOK
  <2> QED
    BY <1>0, <1>2, <1>5, <2>1, <2>2, <2>3, DeadStays, ClosedParts
<1>6. CASE (Replace(c) \/ Drop(c)) /\ ~Restarted(c)
  <2>1. session' = session /\ overlapped' = overlapped
    BY <1>6 DEF Replace, Drop
  <2>2. CASE timers' = timers + 1
    BY <1>2, <1>6, <2>2, SessionBounds, ClosedParts DEF DeadHandled, WhatsAppSessionTypeOK
  <2>3. CASE GiveUpSession(c) /\ timers' = timers
    <3>1. /\ sock' = [sock EXCEPT ![call[c].of].status = "disconnected"]
          /\ session \in Sockets \union {NoSocket} /\ sock \in [Sockets -> SockRecord]
      BY <2>3 DEF GiveUpSession, WhatsAppSessionTypeOK, SockRecord
    <3>2. CASE session = NoSocket
      BY <1>2, <1>6, <2>1, <3>2, ClosedParts DEF DeadHandled
    <3>3. CASE session # NoSocket /\ call[c].of = session
      <4>1. sock'[session].status = "disconnected"
        BY <3>1, <3>3 DEF SockRecord
      <4> QED
        BY <1>2, <1>6, <2>1, <4>1, ClosedParts DEF DeadHandled
    <3>4. CASE session # NoSocket /\ call[c].of # session
      <4>1. sock'[session] = sock[session]
        BY <3>1, <3>4
      <4>2. \A d \in Slots : call[d].of = session => call'[d] = call[d]
        BY <1>2, <1>6, <3>4
      <4> QED
        BY <1>0, <1>2, <1>6, <2>1, <2>3, <4>1, <4>2, ClosedParts DEF DeadHandled
    <3> QED
      BY <3>2, <3>3, <3>4
  <2> QED
    BY <1>6, <2>2, <2>3 DEF Replace, Drop
<1> QED
  BY <1>1, <1>3, <1>4, <1>5, <1>6 DEF LogOut, FireTimer, CleanUp

(* A step that leaves the session and its socket as they are, for all that matters here,
   and the handlers of its close event too. *)
LEMMA DrawKept ==
  ASSUME WhatsAppSessionTypeOK, DrawingInv, session' = session,
         overlapped => overlapped', timers' = timers \/ timers' = timers + 1,
         session # NoSocket =>
           /\ sock'[session].net = sock[session].net
           /\ sock'[session].paired = sock[session].paired
           /\ sock'[session].retries = sock[session].retries
           /\ sock'[session].drawing => sock[session].drawing,
         \A d \in Slots : session # NoSocket /\ call'[d].of = session
                            => call[d].of = session /\ (call'[d].pc = "begin"
                                                          => call'[d] = call[d]),
         \A d \in Slots : session # NoSocket /\ call[d].of = session /\ call[d].pc = "begin"
                            => call'[d] = call[d] \/ call[d].kind # "drop"
  PROVE  DrawingInv'
<1> SUFFICES ASSUME session # NoSocket, ~overlapped'
             PROVE  DrawingInv'
  BY DEF DrawingInv, DrawnInv
<1>1. timers' >= timers
  BY SessionBounds DEF WhatsAppSessionTypeOK
<1>2. timers > 0 => timers' > 0
  BY <1>1, SessionBounds DEF WhatsAppSessionTypeOK
<1>3. CASE sock[session].paired
  BY <1>3 DEF DrawingInv, DrawnInv
<1>4. CASE ~sock[session].paired
  <2>1. DrawnInv /\ ~overlapped
    BY DEF DrawingInv
  <2>2. \A c \in Slots : call'[c].of = session /\ call'[c].pc = "begin"
          => call[c].of = session /\ call[c].pc = "begin" /\ call'[c] = call[c]
    OBVIOUS
  <2>3. \A c \in Slots : call[c].of = session /\ call[c].pc = "begin"
          => call'[c].of = session /\ call'[c].pc = "begin"
    BY <1>4, <2>1 DEF DrawnInv
  <2> QED
    BY <1>2, <1>4, <2>1, <2>2, <2>3 DEF DrawingInv, DrawnInv
<1> QED
  BY <1>3, <1>4

(* What a step of the call c does to the handlers that have not begun. *)
LEMMA CallKept ==
  ASSUME WhatsAppSessionTypeOK, NEW c \in Slots,
         \/ UNCHANGED call
         \/ call[c].pc # "begin" /\ Over(c)
         \/ call[c].kind = "purge" /\ Over(c)
         \/ \E pc : call[c].pc # "begin" /\ pc # "begin" /\ Continue(c, pc)
         \/ \E status : call[c].pc # "begin" /\ Answer(c, status)
         \/ \E kind, pc : pc # "begin" /\ Start(c, kind, pc, NoSocket)
  PROVE  \A d \in Slots :
           /\ session # NoSocket /\ call'[d].of = session
                => call[d].of = session /\ (call'[d].pc = "begin" => call'[d] = call[d])
           /\ session # NoSocket /\ call[d].of = session /\ call[d].pc = "begin"
                => call'[d] = call[d] \/ call[d].kind # "drop"
<1> USE DEF WhatsAppSessionTypeOK
<1> SUFFICES ASSUME NEW d \in Slots, session # NoSocket
             PROVE  /\ call'[d].of = session
                         => call[d].of = session /\ (call'[d].pc = "begin"
                                                       => call'[d] = call[d])
                    /\ call[d].of = session /\ call[d].pc = "begin"
                         => call'[d] = call[d] \/ call[d].kind # "drop"
  OBVIOUS
<1>1. CASE UNCHANGED call
  BY <1>1
<1>2. CASE (call[c].pc # "begin" \/ call[c].kind = "purge") /\ Over(c)
  BY <1>2, SessionBounds DEF Over, NoCall
<1>3. ASSUME NEW pc, call[c].pc # "begin", pc # "begin", Continue(c, pc)
      PROVE  /\ call'[d].of = call[d].of
             /\ call'[d] = call[d] \/ (call'[d].pc # "begin" /\ call[d].pc # "begin")
  BY <1>3 DEF Continue
<1>4. ASSUME NEW status, call[c].pc # "begin", Answer(c, status)
      PROVE  /\ call'[d].of = call[d].of
             /\ call'[d] = call[d] \/ (call'[d].pc # "begin" /\ call[d].pc # "begin")
  BY <1>4 DEF Answer
<1>5. ASSUME NEW kind, NEW pc, pc # "begin", Start(c, kind, pc, NoSocket)
      PROVE  \/ call'[d] = call[d]
             \/ call'[d].of = NoSocket /\ call[d].kind # "drop"
  BY <1>5 DEF Start, NoCall
<1> QED
  BY <1>1, <1>2, <1>3, <1>4, <1>5

LEMMA DrawOpens ==
  ASSUME WhatsAppSessionTypeOK, OpenSocket, NEW c \in Slots,
         Over(c) \/ \E pc : Continue(c, pc)
  PROVE  DrawingInv'
<1> USE DEF WhatsAppSessionTypeOK
<1>1. PICK s \in Sockets :
        /\ \A d \in Slots : call[d].of # s
        /\ sock' = [sock EXCEPT ![s] = [net |-> "connecting", listening |-> TRUE,
                      paired |-> files, status |-> "connecting", retries |-> 0,
                      drawing |-> FALSE]]
        /\ session' = s
  BY DEF OpenSocket, Idle
<1>2. /\ sock'[s].net = "connecting" /\ sock'[s].retries = 0 /\ ~sock'[s].drawing
  BY <1>1
<1>3. \A d \in Slots : call'[d].of # s
  BY <1>1, SessionBounds DEF Over, Continue, NoCall
<1> QED
  BY <1>1, <1>2, <1>3 DEF DrawingInv, DrawnInv

LEMMA RequestDraw ==
  ASSUME WhatsAppSessionTypeOK, DrawingInv, NEW c \in Slots,
         \/ Connect(c) \/ SavePending(c) \/ InitSession(c) \/ CreateBaileysSession(c)
         \/ Check(c) \/ RecordConnect(c) \/ DeleteSession(c) \/ EndPurge(c)
         \/ RecordDisconnect(c) \/ Poll(c) \/ RecordConnected(c) \/ SaveSessionToDB(c)
         \/ WipeFirst(c) \/ WipeAgain(c) \/ WipeDeleted(c) \/ WipeLoggedOut(c)
  PROVE  DrawingInv'
<1>1. CASE session' = NoSocket
  BY <1>1 DEF DrawingInv, DrawnInv
<1>2. CASE OpenSocket /\ Continue(c, "wait")
  BY <1>2, DrawOpens
<1>3. CASE \/ SavePending(c) \/ Check(c) \/ RecordConnect(c) \/ EndPurge(c)
           \/ RecordDisconnect(c) \/ Poll(c) \/ RecordConnected(c) \/ SaveSessionToDB(c)
           \/ WipeFirst(c) \/ WipeAgain(c) \/ WipeDeleted(c) \/ WipeLoggedOut(c)
  <2>1. /\ UNCHANGED <<session, overlapped, timers>>
        /\ UNCHANGED sock \/ sock' = [sock EXCEPT ![session].status = "disconnected"]
    BY <1>3 DEF SavePending, Check, RecordConnect, EndPurge, RecordDisconnect, Poll,
       RecordConnected, SaveSessionToDB, WipeFirst, WipeAgain, WipeDeleted, WipeLoggedOut,
       Wipe
  <2>2. session # NoSocket =>
          /\ sock'[session].net = sock[session].net
          /\ sock'[session].paired = sock[session].paired
          /\ sock'[session].retries = sock[session].retries
          /\ sock'[session].drawing => sock[session].drawing
    BY <2>1 DEF WhatsAppSessionTypeOK
  <2>3. \/ call[c].pc # "begin" /\ Over(c)
        \/ call[c].kind = "purge" /\ Over(c)
        \/ \E pc : call[c].pc # "begin" /\ pc # "begin" /\ Continue(c, pc)
        \/ \E status : call[c].pc # "begin" /\ Answer(c, status)
        \/ \E kind, pc : pc # "begin" /\ Start(c, kind, pc, NoSocket)
    BY <1>3 DEF SavePending, Check, RecordConnect, EndPurge, RecordDisconnect, Poll,
       RecordConnected, SaveSessionToDB, WipeFirst, WipeAgain, WipeDeleted, WipeLoggedOut,
       Wipe
  <2> QED
    BY <2>1, <2>2, <2>3, CallKept, DrawKept
<1>4. Connect(c) \/ InitSession(c) \/ DeleteSession(c) => session' = NoSocket
  BY DEF Connect, InitSession, DeleteSession, CleanUp
<1>5. CreateBaileysSession(c) => (OpenSocket /\ Continue(c, "wait")) \/ session' = NoSocket
  BY DEF CreateBaileysSession
<1> QED
  BY <1>1, <1>2, <1>3, <1>4, <1>5

LEMMA EventDraw ==
  ASSUME WhatsAppSessionTypeOK, SocketInv, DrawingInv, NEW c \in Slots, NEW s \in Sockets,
         Open(s, c) \/ Scan(s, c) \/ Close(s, c)
  PROVE  DrawingInv'
<1>0. session' = session /\ overlapped' = overlapped /\ timers' = timers
  BY DEF Open, Scan, Close
<1> SUFFICES ASSUME session # NoSocket, ~overlapped
             PROVE  DrawingInv'
  BY <1>0 DEF DrawingInv, DrawnInv
<1>1. /\ s = session /\ session' = session /\ overlapped' = overlapped
      /\ timers' = timers
  BY <1>0 DEF Open, Scan, Close, SocketInv
<1>2. CASE Open(s, c)
  <2>1. sock[session].paired /\ sock'[session].paired = sock[session].paired
    BY <1>1, <1>2, OpenMeans DEF Open
  <2>2. sock'[session].drawing = sock[session].drawing
    BY <1>1, <1>2 DEF Open, WhatsAppSessionTypeOK
  <2> QED
    BY <1>1, <2>1, <2>2 DEF DrawingInv, DrawnInv
<1>3. CASE Scan(s, c) \/ Close(s, c)
  <2>1. sock' = [sock EXCEPT ![s].net = "closed"]
    BY <1>3 DEF Scan, Close, Closed
  <2>2. /\ sock'[session].paired = sock[session].paired
        /\ sock'[session].drawing = sock[session].drawing
        /\ sock'[session].retries = sock[session].retries
        /\ sock'[session].net = "closed"
    BY <1>1, <2>1 DEF WhatsAppSessionTypeOK
  <2>3. CASE sock[session].paired
    BY <1>1, <2>2, <2>3 DEF DrawingInv, DrawnInv
  <2>4. CASE ~sock[session].paired
    <3>1. /\ sock[session].net \notin {"open", "closed"} /\ sock[session].retries = 0
          /\ \A d \in Slots : call[d].of # session
      BY <1>1, <1>3, <2>4 DEF Scan, Close, DrawingInv, DrawnInv
    <3>2. Start(c, "drop", "begin", session)
      BY <1>1, <1>3, <2>4, <3>1 DEF Scan, Close, Closed
    <3>3. /\ call'[c].of = session /\ call'[c].pc = "begin" /\ call'[c].kind = "drop"
          /\ \A d \in Slots \ {c} : call'[d] = call[d]
      BY <3>2 DEF Start, NoCall, WhatsAppSessionTypeOK
    <3> QED
      BY <1>1, <2>2, <2>4, <3>1, <3>3 DEF DrawingInv, DrawnInv
  <2> QED
    BY <2>3, <2>4
<1> QED
  BY <1>2, <1>3

LEMMA HandlerDraw ==
  ASSUME WhatsAppSessionTypeOK, DrawingInv, NEW c \in Slots,
         \/ LogOut(c) \/ Replace(c) \/ Drop(c) \/ MarkChannelDisconnected(c)
         \/ FireTimer(c) \/ RestoreSession(c) \/ Restarted(c)
  PROVE  DrawingInv'
<1>1. CASE session' = NoSocket
  BY <1>1 DEF DrawingInv, DrawnInv
<1>2. CASE RestoreSession(c) /\ OpenSocket
  BY <1>2, DrawOpens DEF RestoreSession
<1>3. CASE MarkChannelDisconnected(c) \/ (RestoreSession(c) /\ ~OpenSocket)
  <2>1. UNCHANGED <<session, overlapped, timers>>
    BY <1>3 DEF MarkChannelDisconnected, RestoreSession
  <2>2. session # NoSocket =>
          /\ sock'[session].net = sock[session].net
          /\ sock'[session].paired = sock[session].paired
          /\ sock'[session].retries = sock[session].retries
          /\ sock'[session].drawing => sock[session].drawing
    BY <1>3 DEF MarkChannelDisconnected, RestoreSession, WhatsAppSessionTypeOK
  <2>3. \/ call[c].pc # "begin" /\ Over(c)
        \/ \E pc : call[c].pc # "begin" /\ pc # "begin" /\ Continue(c, pc)
    BY <1>3 DEF MarkChannelDisconnected, RestoreSession
  <2> QED
    BY <2>1, <2>2, <2>3, CallKept, DrawKept
<1>4. CASE Replace(c) \/ Drop(c)
  <2>1. /\ session' = session /\ overlapped' = overlapped
        /\ timers' = timers \/ timers' = timers + 1
        /\ \/ sock' = [sock EXCEPT ![call[c].of].status = "disconnected"]
           \/ sock' = [sock EXCEPT ![call[c].of].retries = sock[call[c].of].retries + 1]
        /\ Over(c) \/ Continue(c, "record")
        /\ call[c].pc = "begin"
    BY <1>4 DEF Replace, Drop, GiveUpSession
  <2>2. session # NoSocket =>
          /\ sock'[session].net = sock[session].net
          /\ sock'[session].paired = sock[session].paired
          /\ sock'[session].drawing = sock[session].drawing
    BY <2>1 DEF WhatsAppSessionTypeOK
  <2>3. \A d \in Slots :
          /\ d # c => call'[d] = call[d]
          /\ d = c => call'[d].pc = "record" \/ call'[d].of = NoSocket
          /\ call'[d].of = call[d].of \/ call'[d].of = NoSocket
    BY <2>1 DEF Over, Continue, NoCall, WhatsAppSessionTypeOK
  <2>4. CASE call[c].of # session
    <3>1. session # NoSocket => sock'[session] = sock[session]
      BY <2>1, <2>4 DEF WhatsAppSessionTypeOK
    <3> QED
      BY <2>1, <2>3, <2>4, <3>1, DrawKept
  <2>5. CASE call[c].of = session /\ session # NoSocket /\ ~overlapped /\ ~sock[session].paired
    <3>1. /\ sock[session].net = "closed" /\ call[c].kind = "drop"
          /\ timers > 0 \/ sock[session].retries = 0
          /\ \A d \in Slots \ {c} : ~(call[d].of = session /\ call[d].pc = "begin")
      BY <2>1, <2>5 DEF DrawingInv, DrawnInv
    <3>2. timers' > 0
      <4>1. timers \in Nat /\ MaxRetries \in Nat \ {0}
        BY SessionBounds, WhatsAppSessionAssumption
           DEF WhatsAppSessionTypeOK, WhatsAppSessionAssumption
      <4>2. sock[session].retries < MaxRetries => timers' = timers + 1
        BY <1>4, <2>5, <3>1 DEF Drop, Replace
      <4>3. timers > 0 \/ sock[session].retries < MaxRetries
        BY <3>1, <4>1
      <4> QED
        BY <2>1, <4>1, <4>2, <4>3
    <3>3. \A d \in Slots : ~(call'[d].of = session /\ call'[d].pc = "begin")
      BY <2>3, <2>5, <3>1
    <3> QED
      BY <2>1, <2>2, <2>5, <3>1, <3>2, <3>3 DEF DrawingInv, DrawnInv
  <2>6. CASE session = NoSocket \/ overlapped \/ sock[session].paired
    BY <2>1, <2>2, <2>6 DEF DrawingInv, DrawnInv
  <2> QED
    BY <2>4, <2>5, <2>6
<1> QED
  BY <1>1, <1>2, <1>3, <1>4 DEF LogOut, FireTimer, CleanUp, Restarted

LEMMA DrawStep ==
  ASSUME WhatsAppSessionTypeOK, SocketInv, DrawingInv, [WhatsAppSessionNext]_waVars
  PROVE  DrawingInv'
<1>1. CASE UNCHANGED waVars
  BY <1>1 DEF DrawingInv, DrawnInv, waVars
<1>2. ASSUME NEW s \in Sockets, Qr(s) PROVE DrawingInv'
  <2>1. /\ UNCHANGED <<session, overlapped, timers, call>>
        /\ ~overlapped => s = session
        /\ ~sock[s].paired
        /\ sock' = [sock EXCEPT ![session].drawing = TRUE]
    BY <1>2 DEF Qr, SocketInv
  <2>2. \A t \in Sockets : /\ sock'[t].net = sock[t].net
                           /\ sock'[t].paired = sock[t].paired
                           /\ sock'[t].retries = sock[t].retries
    BY <2>1 DEF WhatsAppSessionTypeOK
  <2> QED
    BY <2>1, <2>2 DEF DrawingInv, DrawnInv
<1>3. ASSUME NEW s \in Sockets, QrDrawn(s) PROVE DrawingInv'
  <2>1. /\ UNCHANGED <<session, overlapped, timers, call>>
        /\ \A t \in Sockets : /\ sock'[t].net = sock[t].net
                              /\ sock'[t].paired = sock[t].paired
                              /\ sock'[t].retries = sock[t].retries
                              /\ sock'[t].drawing => sock[t].drawing
    BY <1>3 DEF QrDrawn, WhatsAppSessionTypeOK
  <2>2. session # NoSocket => session \in Sockets
    BY DEF WhatsAppSessionTypeOK
  <2> QED
    BY <2>1, <2>2, DrawKept
<1> QED
  BY <1>1, <1>2, <1>3, RequestDraw, EventDraw, HandlerDraw DEF WhatsAppSessionNext

LEMMA ClosedStep ==
  ASSUME WhatsAppSessionTypeOK, SocketInv, ClosedInv, DrawingInv,
         [WhatsAppSessionNext]_waVars
  PROVE  ClosedInv'
<1>1. CASE UNCHANGED waVars
  BY <1>1 DEF ClosedInv, waVars
<1>2. ASSUME NEW s \in Sockets, Qr(s) PROVE ClosedInv'
  <2>1. CASE overlapped \/ session # s
    BY <1>2, <2>1 DEF Qr, SocketInv, ClosedInv
  <2>2. CASE ~overlapped /\ session = s
    BY <1>2, <2>2 DEF Qr, ClosedInv, WhatsAppSessionTypeOK
  <2> QED
    BY <2>1, <2>2
<1>3. ASSUME NEW s \in Sockets, QrDrawn(s) PROVE ClosedInv'
  <2>1. /\ UNCHANGED <<session, overlapped, timers, call>>
        /\ \A t \in Sockets : sock'[t].net = sock[t].net
        /\ \A t \in Sockets \ {s} : sock'[t] = sock[t]
    BY <1>3 DEF QrDrawn, WhatsAppSessionTypeOK
  <2>2. CASE overlapped \/ session # s
    BY <2>1, <2>2 DEF ClosedInv, WhatsAppSessionTypeOK
  <2>3. CASE ~overlapped /\ session = s
    <3>1. session # NoSocket /\ ~sock[session].paired
      BY <1>3, <2>3, SessionBounds DEF QrDrawn, DrawingInv
    <3>2. sock[session].net = "closed"
            => timers > 0 \/ \E c \in Slots : call[c].of = session /\ call[c].pc = "begin"
      BY <2>3, <3>1 DEF DrawingInv, DrawnInv
    <3> QED
      BY <2>1, <2>3, <3>2 DEF ClosedInv
  <2> QED
    BY <2>2, <2>3
<1> QED
  BY <1>1, <1>2, <1>3, RequestClosed, WipeClosed, EventClosed, HandlerClosed
     DEF WhatsAppSessionNext

(* A session whose socket has closed is not left in the map: it is given up, has a timer
   that will replace it, or the handler of its close event has not run. *)
THEOREM DeadSessionReplaced == WhatsAppSessionSpec => []DeadIsReplaced
<1>1. WhatsAppSessionInit => SocketInv /\ ClosedInv /\ DrawingInv
  BY DEF WhatsAppSessionInit, SocketInv, ClosedInv, DrawingInv, DrawnInv, Unused, Replacing,
     NoCall
<1>2. ClosedInv => DeadIsReplaced
  BY DEF ClosedInv, DeadIsReplaced
<1>3. WhatsAppSessionSpec => []WhatsAppSessionTypeOK
  BY SessionTypeCorrect
<1> QED
  BY <1>1, <1>2, <1>3, SocketStep, DrawStep, ClosedStep, PTL DEF WhatsAppSessionSpec

-----------------------------------------------------------------------------
RowUndisturbed == ~shared /\ ~purged /\ losses = 0
RowFacts ==
    /\ ~overlapped
    /\ \A c \in Slots \ Busy : call[c] = NoCall
    /\ \A c, d \in Busy : c = d
    /\ session # NoSocket /\ sock[session].paired => files
    /\ InTouch => sock[session].paired
    /\ Busy = {} => Agreed
    /\ \A c \in Busy : CallAgrees(c)

LEMMA RowParts == /\ RowInv <=> (RowUndisturbed => RowFacts)
                  /\ RowInv' <=> (RowUndisturbed' => RowFacts')
  BY DEF RowInv, RowUndisturbed, RowFacts

LEMMA NoMiss == ASSUME WhatsAppSessionTypeOK, Miss PROVE ~RowUndisturbed'
<1>1. losses \in Nat
  BY SessionBounds DEF WhatsAppSessionTypeOK
<1> QED
  BY <1>1 DEF Miss, RowUndisturbed

LEMMA StaysUndisturbed ==
  ASSUME WhatsAppSessionTypeOK, [WhatsAppSessionNext]_waVars, RowUndisturbed'
  PROVE  RowUndisturbed
<1>1. losses' = losses \/ losses' = losses + 1
  BY DEF WhatsAppSessionNext, waVars,
         Connect, WipeFirst, SavePending, InitSession, WipeAgain,
     CreateBaileysSession, Check, RecordConnect, DeleteSession, WipeDeleted, EndPurge,
     RecordDisconnect, Poll, RecordConnected, SaveSessionToDB, QrDrawn, LogOut, WipeLoggedOut, Replace, Drop,
     MarkChannelDisconnected, FireTimer, RestoreSession, Restarted, Open, Scan, Close, Qr,
     Wipe, Miss
<1>2. shared' = shared \/ \E c \in Slots : \E kind, pc, of : Start(c, kind, pc, of)
  BY DEF WhatsAppSessionNext, waVars,
         Connect, WipeFirst, SavePending, InitSession, WipeAgain,
     CreateBaileysSession, Check, RecordConnect, DeleteSession, WipeDeleted, EndPurge,
     RecordDisconnect, Poll, RecordConnected, SaveSessionToDB, QrDrawn, LogOut, WipeLoggedOut, Replace, Drop,
     MarkChannelDisconnected, FireTimer, RestoreSession, Restarted, Open, Scan, Close, Qr,
     Wipe, Closed
<1>3. purged' = purged \/ purged'
  BY DEF WhatsAppSessionNext, waVars,
         Connect, WipeFirst, SavePending, InitSession, WipeAgain,
     CreateBaileysSession, Check, RecordConnect, DeleteSession, WipeDeleted, EndPurge,
     RecordDisconnect, Poll, RecordConnected, SaveSessionToDB, QrDrawn, LogOut, WipeLoggedOut, Replace, Drop,
     MarkChannelDisconnected, FireTimer, RestoreSession, Restarted, Open, Scan, Close, Qr,
     Wipe
<1>4. losses \in Nat /\ shared \in BOOLEAN /\ purged \in BOOLEAN
  BY SessionBounds DEF WhatsAppSessionTypeOK
<1>5. losses = 0
  BY <1>1, <1>4 DEF RowUndisturbed
<1>6. ~shared
  BY <1>2, <1>4 DEF RowUndisturbed, Start
<1> QED
  BY <1>3, <1>4, <1>5, <1>6 DEF RowUndisturbed

(* The only call under way, after one of its steps. *)
Lone(c) == Busy = {c} /\ \A d \in Slots \ {c} : call[d] = NoCall

LEMMA LoneAfter ==
  ASSUME WhatsAppSessionTypeOK, RowFacts, NEW c \in Slots, call[c] # NoCall
  PROVE  /\ Lone(c) /\ call[c].kind # "none" /\ CallAgrees(c)
         /\ Over(c) => Busy' = {} /\ \A d \in Slots : call'[d] = NoCall
         /\ \A pc : Continue(c, pc) =>
              /\ Lone(c)' /\ call'[c].pc = pc
              /\ call'[c].kind = call[c].kind /\ call'[c].of = call[c].of
         /\ \A status : Answer(c, status) =>
              /\ Lone(c)' /\ call'[c].pc = "record" /\ call'[c].out = status
              /\ call'[c].kind = call[c].kind /\ call'[c].of = call[c].of
<1> USE DEF WhatsAppSessionTypeOK
<1>0. c \in Busy
  BY DEF RowFacts
<1>1. Lone(c) /\ call[c].kind # "none" /\ CallAgrees(c)
  BY <1>0 DEF RowFacts, Busy, Lone
<1>2. NoCall.kind = "none"
  BY DEF NoCall
<1>3. Over(c) => Busy' = {} /\ \A d \in Slots : call'[d] = NoCall
  BY <1>1, <1>2 DEF Over, Busy, Lone
<1>4. ASSUME NEW new, new.kind # "none", call' = [call EXCEPT ![c] = new]
      PROVE  Lone(c)' /\ call'[c] = new
  BY <1>1, <1>2, <1>4 DEF Busy, Lone
<1>5. ASSUME NEW pc, Continue(c, pc)
      PROVE  /\ Lone(c)' /\ call'[c].pc = pc
             /\ call'[c].kind = call[c].kind /\ call'[c].of = call[c].of
  <2>1. /\ [call[c] EXCEPT !.pc = pc].kind = call[c].kind
        /\ [call[c] EXCEPT !.pc = pc].of = call[c].of
        /\ [call[c] EXCEPT !.pc = pc].pc = pc
    OBVIOUS
  <2> QED
    BY <1>1, <1>4, <1>5, <2>1 DEF Continue
<1>6. ASSUME NEW status, Answer(c, status)
      PROVE  /\ Lone(c)' /\ call'[c].pc = "record" /\ call'[c].out = status
             /\ call'[c].kind = call[c].kind /\ call'[c].of = call[c].of
  <2> DEFINE new == [call[c] EXCEPT !.pc = "record", !.out = status]
  <2>1. /\ new.kind = call[c].kind /\ new.of = call[c].of
        /\ new.pc = "record" /\ new.out = status
    OBVIOUS
  <2>2. call' = [call EXCEPT ![c] = new]
    BY <1>6 DEF Answer
  <2> HIDE DEF new
  <2> QED
    BY <1>1, <1>4, <2>1, <2>2
<1> QED
  BY <1>1, <1>3, <1>5, <1>6

LEMMA LoneStart ==
  ASSUME WhatsAppSessionTypeOK, RowFacts, RowUndisturbed', NEW c \in Slots, NEW kind, NEW pc,
         NEW of, kind # "none", Start(c, kind, pc, of)
  PROVE  /\ Busy = {} /\ Agreed /\ Replacing = {} /\ Lone(c)'
         /\ call'[c].kind = kind /\ call'[c].pc = pc /\ call'[c].of = of
<1>1. Busy = {} /\ Agreed /\ \A d \in Slots : call[d] = NoCall
  BY DEF Start, RowUndisturbed, RowFacts
<1>2. Replacing = {}
  BY <1>1 DEF Replacing, NoCall
<1>3. /\ call'[c] = [NoCall EXCEPT !.kind = kind, !.pc = pc, !.of = of]
      /\ \A d \in Slots \ {c} : call'[d] = call[d]
  BY DEF Start, WhatsAppSessionTypeOK
<1>4. /\ call'[c].kind = kind /\ call'[c].pc = pc /\ call'[c].of = of
      /\ NoCall.kind = "none"
  BY <1>3 DEF NoCall
<1>5. Lone(c)'
  <2>1. \A d \in Slots \ {c} : call'[d] = NoCall /\ call'[d].kind = "none"
    BY <1>1, <1>3, <1>4
  <2>2. \A d \in Slots : d \in Busy' <=> d = c
    BY <1>4, <2>1 DEF Busy
  <2> QED
    BY <2>1, <2>2 DEF Busy, Lone
<1> QED
  BY <1>1, <1>2, <1>4, <1>5

PairedHasFiles == /\ session # NoSocket /\ sock[session].paired => files
                  /\ InTouch => sock[session].paired

LEMMA CallEndsWell ==
  ASSUME Busy' = {}, \A d \in Slots : call'[d] = NoCall, ~overlapped', PairedHasFiles',
         Agreed'
  PROVE  RowFacts'
  BY DEF RowFacts, PairedHasFiles

LEMMA CallGoesOn ==
  ASSUME NEW c \in Slots, Lone(c)', ~overlapped', PairedHasFiles', CallAgrees(c)'
  PROVE  RowFacts'
  BY DEF RowFacts, PairedHasFiles, Lone

LEMMA NoSessionPaired == session' = NoSocket => PairedHasFiles' /\ ~InTouch'
  BY DEF PairedHasFiles, InTouch

LEMMA SamePaired ==
  ASSUME RowFacts, UNCHANGED <<session, sock>>, files => files'
  PROVE  PairedHasFiles' /\ InTouch' = InTouch
  BY DEF RowFacts, PairedHasFiles, InTouch

LEMMA OpenedPaired ==
  ASSUME WhatsAppSessionTypeOK, OpenSocket, files' = files
  PROVE  /\ PairedHasFiles' /\ ~InTouch' /\ session' # NoSocket
         /\ sock'[session'].paired = files /\ sock'[session'].status = "connecting"
<1>1. PICK s \in Sockets :
        /\ sock' = [sock EXCEPT ![s] = [net |-> "connecting", listening |-> TRUE,
                      paired |-> files, status |-> "connecting", retries |-> 0,
                      drawing |-> FALSE]]
        /\ session' = s
  BY DEF OpenSocket
<1>2. sock'[s].paired = files /\ sock'[s].status = "connecting"
  BY <1>1 DEF WhatsAppSessionTypeOK
<1> QED
  BY <1>1, <1>2, SessionBounds DEF PairedHasFiles, InTouch

(* What a call is doing tells which call it is. *)
LEMMA CallIs ==
  ASSUME WhatsAppSessionTypeOK, NEW c \in Slots, CallAgrees(c)
  PROVE  /\ call[c].pc \in {"pending", "renew", "rewipe"} => call[c].kind = "connect"
         /\ call[c].pc = "wait" => call[c].kind = "connect"
         /\ call[c].pc \in {"pending", "renew", "rewipe", "create", "wipe"} =>
              session = NoSocket
         /\ call[c].kind = "connect" => ~SaysConnected /\ ~InTouch
         /\ call[c].kind # "boot"
  BY DEF CallAgrees

LEMMA ConnectRow ==
  ASSUME WhatsAppSessionTypeOK, RowFacts, RowUndisturbed', NEW c \in Slots,
         \/ Connect(c) \/ SavePending(c) \/ InitSession(c) \/ CreateBaileysSession(c)
         \/ Check(c) \/ RecordConnect(c)
  PROVE  RowFacts'
<1> USE DEF WhatsAppSessionTypeOK
<1>1. CASE Connect(c)
  <2>1. /\ Start(c, "connect", "wipe", NoSocket) /\ session' = NoSocket
        /\ ~SaysConnected' /\ ~overlapped'
    BY <1>1 DEF Connect, CleanUp, SaysConnected, RowFacts
  <2>2. Lone(c)'
    BY <2>1, LoneStart
  <2>3. call'[c].kind = "connect" /\ call'[c].pc = "wipe"
    BY <2>1, LoneStart
  <2>4. CallAgrees(c)'
    BY <2>1, <2>3, NoSessionPaired DEF CallAgrees
  <2> QED
    BY <2>1, <2>2, <2>4, NoSessionPaired, CallGoesOn
<1>2. ASSUME ~Connect(c)
      PROVE  call[c] # NoCall
  BY <1>2 DEF SavePending, InitSession, CreateBaileysSession, Check, RecordConnect, NoCall
<1>3. ASSUME ~Connect(c)
      PROVE  Lone(c) /\ CallAgrees(c) /\ ~overlapped
  BY <1>2, <1>3, LoneAfter DEF RowFacts
<1>4. CASE SavePending(c) /\ ~Connect(c)
  <2>1. /\ channel' = [status |-> "PENDING", data |-> FALSE] /\ Continue(c, "renew")
        /\ UNCHANGED <<files, session, sock, overlapped, timers>> /\ session = NoSocket
        /\ call[c].kind = "connect"
    BY <1>3, <1>4, CallIs, NoMiss DEF SavePending
  <2>2. Lone(c)' /\ call'[c].kind = "connect" /\ call'[c].pc = "renew"
    BY <1>2, <1>4, <2>1, LoneAfter
  <2>3. CallAgrees(c)'
    BY <2>1, <2>2, NoSessionPaired DEF CallAgrees, SaysConnected
  <2> QED
    BY <1>3, <1>4, <2>1, <2>2, <2>3, NoSessionPaired, CallGoesOn
<1>5. CASE InitSession(c) /\ ~Connect(c)
  <2>1. /\ Continue(c, "rewipe") /\ session' = NoSocket /\ call[c].kind = "connect"
        /\ SaysConnected' = SaysConnected /\ ~SaysConnected
    BY <1>3, <1>5, CallIs DEF InitSession, CleanUp, SaysConnected
  <2>2. Replacing = {}
    BY <1>3, <1>5 DEF InitSession, Replacing, Lone, NoCall
  <2>3. ~overlapped'
    BY <1>3, <1>5, <2>2 DEF InitSession
  <2>4. Lone(c)' /\ call'[c].kind = "connect" /\ call'[c].pc = "rewipe"
    BY <1>2, <1>5, <2>1, LoneAfter
  <2>5. CallAgrees(c)'
    BY <2>1, <2>4, NoSessionPaired DEF CallAgrees
  <2> QED
    BY <2>1, <2>3, <2>4, <2>5, NoSessionPaired, CallGoesOn
<1>6. CASE CreateBaileysSession(c) /\ ~Connect(c)
  <2>1. /\ OpenSocket /\ Continue(c, "wait") /\ call[c].kind = "connect"
        /\ UNCHANGED <<files, overlapped>>
        /\ SaysConnected' = SaysConnected /\ ~SaysConnected
    BY <1>3, <1>6, NoMiss, CallIs DEF CreateBaileysSession, SaysConnected
  <2>2. Lone(c)' /\ call'[c].kind = "connect" /\ call'[c].pc = "wait"
    BY <1>2, <1>6, <2>1, LoneAfter
  <2>3. CallAgrees(c)'
    BY <2>1, <2>2, OpenedPaired DEF CallAgrees
  <2> QED
    BY <1>3, <1>6, <2>1, <2>2, <2>3, OpenedPaired, CallGoesOn
<1>7. CASE Check(c) /\ ~Connect(c)
  <2>1. /\ call[c].pc = "wait" /\ call[c].kind = "connect" /\ ~SaysConnected /\ ~InTouch
        /\ UNCHANGED <<files, session, overlapped>> /\ SaysConnected' = SaysConnected
    BY <1>3, <1>7, CallIs DEF Check, SaysConnected
  <2>2. /\ Answer(c, "DISCONNECTED") \/ Answer(c, "PENDING")
        /\ \/ UNCHANGED sock
           \/ session # NoSocket /\ sock' = [sock EXCEPT ![session].status = "disconnected"]
    BY <1>7, <2>1 DEF Check, InTouch
  <2>3. Lone(c)' /\ call'[c].kind = "connect" /\ call'[c].pc = "record"
        /\ call'[c].out # "CONNECTED"
    BY <1>2, <1>7, <2>1, <2>2, LoneAfter
  <2>4. PairedHasFiles' /\ ~InTouch'
    <3>1. CASE UNCHANGED sock
      BY <2>1, <3>1, SamePaired
    <3>2. CASE session # NoSocket /\ sock' = [sock EXCEPT ![session].status = "disconnected"]
      <4>1. sock'[session].status = "disconnected"
            /\ sock'[session].paired = sock[session].paired
        BY <3>2
      <4> QED
        BY <2>1, <3>2, <4>1 DEF PairedHasFiles, InTouch, RowFacts
    <3> QED
      BY <2>2, <3>1, <3>2
  <2>5. CallAgrees(c)'
    BY <2>1, <2>3, <2>4 DEF CallAgrees
  <2> QED
    BY <1>3, <1>7, <2>1, <2>3, <2>4, <2>5, CallGoesOn
<1>8. CASE RecordConnect(c) /\ ~Connect(c)
  <2>1. /\ call[c].kind = "connect" /\ call[c].pc = "record" /\ ~InTouch
        /\ channel' = [channel EXCEPT !.status = call[c].out] /\ Over(c)
        /\ UNCHANGED <<files, session, sock, overlapped>>
    BY <1>3, <1>8, CallIs, NoMiss DEF RecordConnect
  <2>3. call[c].out # "CONNECTED"
    BY <1>3, <1>8, <2>1 DEF CallAgrees
  <2>4. ~SaysConnected'
    BY <2>1, <2>3 DEF SaysConnected
  <2>5. PairedHasFiles' /\ Agreed'
    BY <2>1, <2>4, SamePaired DEF Agreed
  <2>6. Busy' = {} /\ \A d \in Slots : call'[d] = NoCall
    BY <1>2, <1>8, <2>1, LoneAfter
  <2> QED
    BY <1>3, <1>8, <2>1, <2>5, <2>6, CallEndsWell
<1> QED
  BY <1>1, <1>4, <1>5, <1>6, <1>7, <1>8

(* The step of a call that says how the row is, the session being as it says. *)
LEMMA WipeRow ==
  ASSUME WhatsAppSessionTypeOK, RowFacts, RowUndisturbed', NEW c \in Slots,
         WipeFirst(c) \/ WipeAgain(c) \/ WipeDeleted(c) \/ WipeLoggedOut(c)
  PROVE  RowFacts'
<1>1. call[c] # NoCall /\ call[c].pc \in {"wipe", "rewipe"}
  BY DEF WipeFirst, WipeAgain, WipeDeleted, WipeLoggedOut, NoCall
<1>2. Lone(c) /\ CallAgrees(c) /\ ~overlapped /\ session = NoSocket
  BY <1>1, LoneAfter, CallIs DEF RowFacts
<1>3. /\ session' = NoSocket /\ overlapped' = overlapped
      /\ SaysConnected' = SaysConnected
  BY <1>2, NoMiss
     DEF WipeFirst, WipeAgain, WipeDeleted, WipeLoggedOut, Wipe, WhatsAppSessionTypeOK,
         SaysConnected
<1>4. \/ call[c].kind = "connect" /\ (Continue(c, "pending") \/ Continue(c, "create"))
      \/ call[c].kind \in {"disconnect", "loggedOut"} /\ Continue(c, "record")
  <2>1. call[c].pc = "rewipe" => call[c].kind = "connect"
    BY <1>2, CallIs
  <2> QED
    BY <2>1 DEF WipeFirst, WipeAgain, WipeDeleted, WipeLoggedOut, Wipe
<1>5. /\ Lone(c)' /\ call'[c].kind = call[c].kind
      /\ \/ call'[c].kind = "connect" /\ call'[c].pc \in {"pending", "create"}
         \/ call'[c].kind \in {"disconnect", "loggedOut"} /\ call'[c].pc = "record"
  BY <1>1, <1>4, LoneAfter
<1>6. call[c].kind = "connect" => ~SaysConnected
  BY <1>2, CallIs
<1>7. CallAgrees(c)'
  BY <1>3, <1>5, <1>6, NoSessionPaired DEF CallAgrees
<1> QED
  BY <1>2, <1>3, <1>5, <1>7, NoSessionPaired, CallGoesOn

LEMMA DeleteRow ==
  ASSUME WhatsAppSessionTypeOK, RowFacts, RowUndisturbed', NEW c \in Slots,
         DeleteSession(c) \/ EndPurge(c) \/ RecordDisconnect(c)
  PROVE  RowFacts'
<1>1. CASE DeleteSession(c)
  <2>1. PICK kind \in {"disconnect", "purge"} : Start(c, kind, "wipe", NoSocket)
    BY <1>1 DEF DeleteSession
  <2>2. session' = NoSocket /\ ~overlapped'
    BY <1>1 DEF DeleteSession, CleanUp, RowFacts
  <2>3. Lone(c)' /\ call'[c].kind = kind /\ call'[c].pc = "wipe"
    BY <2>1, LoneStart
  <2>4. CallAgrees(c)'
    BY <2>2, <2>3 DEF CallAgrees
  <2> QED
    BY <2>2, <2>3, <2>4, NoSessionPaired, CallGoesOn
<1>2. CASE EndPurge(c)
  BY <1>2 DEF EndPurge, RowUndisturbed
<1>3. CASE RecordDisconnect(c)
  <2>1. /\ call[c] # NoCall /\ call[c].kind = "disconnect" /\ Over(c)
        /\ channel' = [status |-> "DISCONNECTED", data |-> FALSE]
        /\ UNCHANGED <<session, sock, files, overlapped>>
    BY <1>3, NoMiss DEF RecordDisconnect, NoCall
  <2>2. session = NoSocket /\ ~overlapped
    BY <2>1, LoneAfter DEF CallAgrees, RowFacts
  <2>3. Busy' = {} /\ \A d \in Slots : call'[d] = NoCall
    BY <2>1, LoneAfter
  <2>4. ~SaysConnected' /\ ~InTouch' /\ PairedHasFiles'
    BY <2>1, <2>2, NoSessionPaired DEF SaysConnected
  <2> QED
    BY <2>1, <2>2, <2>3, <2>4, CallEndsWell DEF Agreed
<1> QED
  BY <1>1, <1>2, <1>3

LEMMA PollRow ==
  ASSUME WhatsAppSessionTypeOK, RowFacts, RowUndisturbed', NEW c \in Slots,
         Poll(c) \/ RecordConnected(c) \/ SaveSessionToDB(c)
  PROVE  RowFacts'
<1>1. CASE Poll(c)
  <2>1. /\ Start(c, "poll", "record", NoSocket) /\ InTouch /\ ~overlapped'
        /\ UNCHANGED <<session, sock, files>>
    BY <1>1 DEF Poll, InTouch, RowFacts
  <2>2. Lone(c)' /\ call'[c].kind = "poll" /\ call'[c].pc = "record"
    BY <2>1, LoneStart
  <2>3. PairedHasFiles' /\ InTouch'
    BY <2>1, SamePaired
  <2>4. CallAgrees(c)'
    BY <2>2, <2>3 DEF CallAgrees
  <2> QED
    BY <2>1, <2>2, <2>3, <2>4, CallGoesOn
<1>2. CASE RecordConnected(c)
  <2>1. /\ call[c] # NoCall /\ call[c].kind \in {"opened", "poll"} /\ call[c].pc = "record"
        /\ IF call[c].kind = "opened" THEN Continue(c, "keep") ELSE Over(c)
        /\ SaysConnected'
        /\ UNCHANGED <<session, sock, files, overlapped, timers>>
    BY <1>2, NoMiss DEF RecordConnected, NoCall, SaysConnected, WhatsAppSessionTypeOK
  <2>2. InTouch /\ ~overlapped
    BY <2>1, LoneAfter DEF CallAgrees, RowFacts
  <2>3. files
    BY <2>2 DEF RowFacts, InTouch
  <2>4. PairedHasFiles' /\ Agreed'
    BY <2>1, <2>2, <2>3, SamePaired DEF Agreed
  <2>5. CASE call[c].kind = "opened"
    <3>1. Lone(c)' /\ call'[c].kind = "opened" /\ call'[c].pc = "keep"
      BY <2>1, <2>5, LoneAfter
    <3>2. CallAgrees(c)'
      BY <2>4, <3>1 DEF CallAgrees
    <3> QED
      BY <2>1, <2>2, <2>4, <3>1, <3>2, CallGoesOn
  <2>6. CASE call[c].kind # "opened"
    <3>1. Busy' = {} /\ \A d \in Slots : call'[d] = NoCall
      BY <2>1, <2>6, LoneAfter
    <3> QED
      BY <2>1, <2>2, <2>4, <3>1, CallEndsWell
  <2> QED
    BY <2>5, <2>6
<1>3. CASE SaveSessionToDB(c)
  <2>1. /\ call[c] # NoCall /\ call[c].kind = "opened" /\ call[c].pc = "keep" /\ Over(c)
        /\ SaysConnected' = SaysConnected
        /\ UNCHANGED <<session, sock, files, overlapped, timers>>
    BY <1>3, NoMiss DEF SaveSessionToDB, NoCall, SaysConnected, WhatsAppSessionTypeOK
  <2>2. Agreed /\ ~overlapped
    BY <2>1, LoneAfter DEF CallAgrees, RowFacts
  <2>3. PairedHasFiles' /\ Agreed'
    BY <2>1, <2>2, SamePaired DEF Agreed
  <2>4. Busy' = {} /\ \A d \in Slots : call'[d] = NoCall
    BY <2>1, LoneAfter
  <2> QED
    BY <2>1, <2>2, <2>3, <2>4, CallEndsWell
<1> QED
  BY <1>1, <1>2, <1>3

(* An event may end the session's handshake, and changes neither the row's status nor
   the timers. *)
LEMMA QrRow ==
  ASSUME WhatsAppSessionTypeOK, SocketInv, DrawingInv, RowFacts, NEW s \in Sockets,
         Qr(s) \/ QrDrawn(s)
  PROVE  RowFacts'
<1>1. /\ UNCHANGED <<session, call, channel, files, timers, overlapped>> /\ ~overlapped
      /\ \A t \in Sockets : sock'[t].paired = sock[t].paired
      /\ \A t \in Sockets : \/ sock'[t].status = sock[t].status
                            \/ /\ t = session => ~sock[t].paired
                               /\ sock'[t].status = "qr_ready"
  BY DEF Qr, QrDrawn, DrawingInv, SocketInv, RowFacts, WhatsAppSessionTypeOK
<1>2. session # NoSocket =>
        /\ session \in Sockets
        /\ sock'[session].paired = sock[session].paired
        /\ \/ sock'[session].status = sock[session].status
           \/ ~sock[session].paired /\ sock'[session].status = "qr_ready"
  BY <1>1 DEF WhatsAppSessionTypeOK
<1>3. PairedHasFiles' /\ InTouch' = InTouch /\ SaysConnected' = SaysConnected
  BY <1>1, <1>2 DEF RowFacts, PairedHasFiles, InTouch, SaysConnected
<1>4. Agreed => Agreed'
  BY <1>1, <1>2, <1>3 DEF Agreed
<1>5. \A c \in Slots : CallAgrees(c) => CallAgrees(c)'
  <2> SUFFICES ASSUME NEW c \in Slots, CallAgrees(c) PROVE CallAgrees(c)'
    OBVIOUS
  <2> HIDE DEF Agreed, InTouch, SaysConnected
  <2> QED
    BY <1>1, <1>3, <1>4 DEF CallAgrees
<1>6. Busy' = Busy
  BY <1>1 DEF Busy
<1>7. /\ ~overlapped'
      /\ \A c \in Slots \ Busy' : call'[c] = NoCall
      /\ \A c, d \in Busy' : c = d
  BY <1>1, <1>6 DEF RowFacts
<1>8. /\ Busy' = {} => Agreed'
      /\ \A c \in Busy' : CallAgrees(c)'
  BY <1>4, <1>5, <1>6 DEF RowFacts, Busy
<1> QED
  BY <1>3, <1>7, <1>8 DEF RowFacts, PairedHasFiles

LEMMA EventRow ==
  ASSUME WhatsAppSessionTypeOK, SocketInv, RowFacts, RowUndisturbed', NEW c \in Slots,
         NEW s \in Sockets, Open(s, c) \/ Scan(s, c) \/ Close(s, c)
  PROVE  RowFacts'
<1>1. /\ s = session /\ session # NoSocket /\ ~overlapped
      /\ UNCHANGED <<session, overlapped, timers>>
      /\ SaysConnected' = SaysConnected /\ (files => files')
  BY SessionBounds DEF Open, Scan, Close, SocketInv, RowFacts, SaysConnected,
     WhatsAppSessionTypeOK
<1>2. CASE Open(s, c)
  <2>1. Start(c, "opened", "record", NoSocket) /\ sock[s].paired /\ files' = files
    BY <1>1, <1>2 DEF Open
  <2>2. sock'[session].paired /\ sock'[session].status = "connected"
    BY <1>1, <1>2, <2>1, OpenMeans
  <2>3. Lone(c)' /\ call'[c].kind = "opened" /\ call'[c].pc = "record"
    BY <2>1, LoneStart
  <2>4. PairedHasFiles' /\ InTouch'
    BY <1>1, <2>1, <2>2 DEF PairedHasFiles, InTouch, RowFacts
  <2>5. CallAgrees(c)'
    BY <2>3, <2>4 DEF CallAgrees
  <2> QED
    BY <1>1, <2>3, <2>4, <2>5, CallGoesOn
<1>3. CASE Scan(s, c) \/ Close(s, c)
  <2>1. PICK why \in Holders : Start(c, why, "begin", session)
    BY <1>1, <1>3 DEF Scan, Close, Closed, Holders
  <2>2. sock' = [sock EXCEPT ![s].net = "closed"]
    BY <1>3 DEF Scan, Close, Closed
  <2>3. /\ sock'[session].paired = sock[session].paired
        /\ sock'[session].status = sock[session].status
    BY <1>1, <2>2 DEF WhatsAppSessionTypeOK
  <2>4. PairedHasFiles' /\ InTouch' = InTouch
    BY <1>1, <2>3 DEF PairedHasFiles, InTouch, RowFacts
  <2>5. Agreed /\ Lone(c)'
    BY <2>1, LoneStart DEF Holders
  <2>6. call'[c].kind \in Holders /\ call'[c].pc = "begin" /\ call'[c].of = session
    BY <2>1, LoneStart DEF Holders
  <2>7. Agreed'
    BY <1>1, <2>3, <2>4, <2>5 DEF Agreed
  <2>8. CallAgrees(c)'
    BY <1>1, <2>6, <2>7 DEF CallAgrees, Holders
  <2> QED
    BY <1>1, <2>4, <2>5, <2>8, CallGoesOn
<1> QED
  BY <1>2, <1>3

LEMMA CloseHandlerRow ==
  ASSUME WhatsAppSessionTypeOK, RowFacts, RowUndisturbed', NEW c \in Slots,
         LogOut(c) \/ Replace(c) \/ Drop(c) \/ MarkChannelDisconnected(c)
  PROVE  RowFacts'
<1>0. call[c] # NoCall
  <2>1. call[c].kind # "none" /\ NoCall.kind = "none"
    BY DEF LogOut, Replace, Drop, MarkChannelDisconnected, NoCall
  <2> QED
    BY <2>1
<1>1. Lone(c) /\ CallAgrees(c) /\ ~overlapped
  BY <1>0, LoneAfter DEF RowFacts
<1>2. CASE LogOut(c)
  <2>1. session' = NoSocket /\ Continue(c, "wipe") /\ overlapped' = overlapped
        /\ call[c].kind = "loggedOut"
    BY <1>2 DEF LogOut
  <2>2. Lone(c)' /\ call'[c].kind = "loggedOut" /\ call'[c].pc = "wipe"
    BY <1>0, <2>1, LoneAfter
  <2>3. CallAgrees(c)'
    BY <2>1, <2>2 DEF CallAgrees
  <2> QED
    BY <1>1, <2>1, <2>2, <2>3, NoSessionPaired, CallGoesOn
<1>3. ASSUME GiveUpSession(c), call[c].kind \in {"drop", "replaced"}, call[c].pc = "begin",
             UNCHANGED <<session, files, overlapped>>
      PROVE  RowFacts'
  <2>1. call[c].of = session /\ session # NoSocket
    BY <1>1, <1>3 DEF CallAgrees
  <2>2. /\ sock' = [sock EXCEPT ![session].status = "disconnected"]
        /\ Continue(c, "record")
    BY <1>3, <2>1 DEF GiveUpSession
  <2>3. /\ sock'[session].paired = sock[session].paired
        /\ sock'[session].status = "disconnected"
    BY <2>1, <2>2 DEF WhatsAppSessionTypeOK
  <2>4. PairedHasFiles' /\ ~InTouch'
    BY <1>3, <2>3 DEF PairedHasFiles, InTouch, RowFacts
  <2>5. /\ Lone(c)' /\ call'[c].kind \in {"drop", "replaced"} /\ call'[c].pc = "record"
        /\ call'[c].of = session
    BY <1>0, <1>3, <2>1, <2>2, LoneAfter
  <2>6. CallAgrees(c)'
    BY <1>3, <2>1, <2>4, <2>5 DEF CallAgrees
  <2> QED
    BY <1>1, <1>3, <2>4, <2>5, <2>6, CallGoesOn
<1>4. CASE Replace(c)
  BY <1>3, <1>4 DEF Replace
<1>5. CASE Drop(c)
  <2>1. CASE GiveUpSession(c)
    BY <1>3, <1>5, <2>1 DEF Drop
  <2>2. CASE ~GiveUpSession(c)
    <3>1. /\ call[c].kind = "drop" /\ call[c].pc = "begin"
          /\ timers' = timers + 1 /\ Over(c)
          /\ sock' = [sock EXCEPT ![call[c].of].retries = sock[call[c].of].retries + 1]
          /\ UNCHANGED <<session, files, overlapped>>
          /\ SaysConnected' = SaysConnected
      BY <1>5, <2>2 DEF Drop, SaysConnected, WhatsAppSessionTypeOK
    <3>2. call[c].of = session /\ session # NoSocket /\ Agreed
      BY <1>1, <3>1 DEF CallAgrees
    <3>3. /\ sock'[session].paired = sock[session].paired
          /\ sock'[session].status = sock[session].status
      BY <3>1, <3>2 DEF WhatsAppSessionTypeOK
    <3>4. PairedHasFiles' /\ InTouch' = InTouch
      BY <3>1, <3>3 DEF PairedHasFiles, InTouch, RowFacts
    <3>5. timers' > 0
      BY <3>1, SessionBounds DEF WhatsAppSessionTypeOK
    <3>6. Agreed'
      BY <3>1, <3>2, <3>4, <3>5 DEF Agreed
    <3>7. Busy' = {} /\ \A d \in Slots : call'[d] = NoCall
      BY <1>0, <3>1, LoneAfter
    <3> QED
      BY <1>1, <3>1, <3>4, <3>6, <3>7, CallEndsWell
  <2> QED
    BY <2>1, <2>2
<1>6. CASE MarkChannelDisconnected(c)
  <2>1. /\ call[c].kind \in {"loggedOut", "replaced", "drop", "boot"}
        /\ call[c].pc = "record" /\ Over(c) /\ ~SaysConnected'
        /\ UNCHANGED <<session, sock, files, overlapped>>
    BY <1>6, NoMiss DEF MarkChannelDisconnected, SaysConnected, WhatsAppSessionTypeOK
  <2>2. ~InTouch
    BY <1>1, <2>1 DEF CallAgrees, InTouch
  <2>3. PairedHasFiles' /\ ~InTouch'
    BY <2>1, <2>2, SamePaired
  <2>4. Busy' = {} /\ \A d \in Slots : call'[d] = NoCall
    BY <1>0, <2>1, LoneAfter
  <2> QED
    BY <1>1, <2>1, <2>3, <2>4, CallEndsWell DEF Agreed
<1> QED
  BY <1>2, <1>4, <1>5, <1>6

LEMMA RetryRow ==
  ASSUME WhatsAppSessionTypeOK, RowFacts, RowUndisturbed', NEW c \in Slots,
         FireTimer(c) \/ RestoreSession(c) \/ Restarted(c)
  PROVE  RowFacts'
<1>1. CASE FireTimer(c)
  <2>1. /\ Start(c, "retry", "create", NoSocket) /\ session' = NoSocket
        /\ overlapped' = (overlapped \/ Replacing # {})
        /\ files' = files /\ SaysConnected' = SaysConnected
    BY <1>1 DEF FireTimer, CleanUp, SaysConnected
  <2>2. Agreed /\ Replacing = {} /\ Lone(c)'
    BY <2>1, LoneStart
  <2>3. call'[c].kind = "retry" /\ call'[c].pc = "create"
    BY <2>1, LoneStart
  <2>4. ~overlapped'
    BY <2>1, <2>2 DEF RowFacts
  <2>5. SaysConnected' => files'
    BY <2>1, <2>2 DEF Agreed
  <2>6. CallAgrees(c)'
    BY <2>1, <2>3, <2>5 DEF CallAgrees
  <2> QED
    BY <2>1, <2>2, <2>4, <2>6, NoSessionPaired, CallGoesOn
<1>2. CASE RestoreSession(c)
  <2>0. call[c] # NoCall
    BY <1>2 DEF RestoreSession, NoCall
  <2>1. Lone(c) /\ CallAgrees(c) /\ ~overlapped
    BY <2>0, LoneAfter DEF RowFacts
  <2>2. /\ OpenSocket /\ Over(c)
        /\ UNCHANGED <<files, overlapped>> /\ SaysConnected' = SaysConnected
        /\ call[c].kind = "retry"
    BY <1>2, <2>1, NoMiss, CallIs DEF RestoreSession, SaysConnected
  <2>3. SaysConnected => files
    BY <2>1, <2>2 DEF CallAgrees
  <2>4. Agreed' /\ PairedHasFiles'
    BY <2>2, <2>3, OpenedPaired DEF Agreed
  <2>5. Busy' = {} /\ \A d \in Slots : call'[d] = NoCall
    BY <2>0, <2>2, LoneAfter
  <2> QED
    BY <2>1, <2>2, <2>4, <2>5, CallEndsWell
<1>3. CASE Restarted(c)
  BY <1>3, NoMiss DEF Restarted
<1> QED
  BY <1>1, <1>2, <1>3

LEMMA RowStep ==
  ASSUME WhatsAppSessionTypeOK, SocketInv, DrawingInv, RowInv,
         [WhatsAppSessionNext]_waVars
  PROVE  RowInv'
<1> SUFFICES ASSUME RowUndisturbed' PROVE RowFacts'
  BY RowParts
<1>1. RowFacts
  BY StaysUndisturbed, RowParts
<1>2. CASE UNCHANGED waVars
  BY <1>1, <1>2
     DEF waVars, RowFacts, Busy, Agreed, CallAgrees, InTouch, SaysConnected
<1> QED
  BY <1>1, <1>2, ConnectRow, WipeRow, DeleteRow, PollRow, QrRow, EventRow, CloseHandlerRow,
     RetryRow DEF WhatsAppSessionNext

(* When no call is under way, and none has overlapped another or failed, the row says
   that the channel is connected just when its session is, or is about to be. *)
THEOREM RowAgreesAtRest == WhatsAppSessionSpec => []RowAgrees
<1>1. WhatsAppSessionInit => SocketInv /\ DrawingInv /\ RowInv
  <2> SUFFICES ASSUME WhatsAppSessionInit
               PROVE  SocketInv /\ DrawingInv /\ RowInv
    OBVIOUS
  <2>1. SocketInv /\ DrawingInv
    BY DEF WhatsAppSessionInit, SocketInv, DrawingInv, DrawnInv, Unused,
       Replacing, NoCall
  <2>2. RowFacts
    BY DEF WhatsAppSessionInit, RowFacts, Busy, Agreed, InTouch, SaysConnected, NoCall
  <2> QED
    BY <2>1, <2>2, RowParts
<1>2. WhatsAppSessionTypeOK /\ RowInv => RowAgrees
  <2> SUFFICES ASSUME WhatsAppSessionTypeOK, RowInv, AtRest, RowUndisturbed
               PROVE  SaysConnected <=> InTouch
    BY DEF RowAgrees, RowUndisturbed, SaysConnected, InTouch
  <2>1. Agreed /\ timers = 0 /\ (session # NoSocket => sock[session].status # "connecting")
    BY RowParts DEF AtRest, RowFacts
  <2> QED
    BY <2>1 DEF Agreed
<1>3. WhatsAppSessionSpec => []WhatsAppSessionTypeOK
  BY SessionTypeCorrect
<1> QED
  BY <1>1, <1>2, <1>3, SocketStep, DrawStep, RowStep, PTL DEF WhatsAppSessionSpec
=============================================================================
