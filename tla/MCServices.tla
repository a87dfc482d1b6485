----------------------------- MODULE MCServices -----------------------------
(***************************************************************************)
(* Instances of the smaller modules for TLC.  The services they model      *)
(* share no state: a behaviour is about one of them, the subject, and the  *)
(* variables of the others stay as they are.                               *)
(***************************************************************************)
EXTENDS AiReplies, TemplateDispatcher, EmployeeNotifications, OtpRelay,
        StoreTokens, WhatsAppSession, OrderMirror, Automations, ElementTracking

CONSTANTS
    q1, q2, pic, g1, g2,        \* questions, a picture, replies in the making
    c1, c2, c3, ti, td, tm,     \* calls of the dispatcher, templates
    d1, d2, r1, r2,             \* deliveries and rules
    tx, ts, tb, tu,             \* targets of a rule
    p1, p2, p3,                 \* requests of a store's page
    h1, h2, h3,                 \* handlers of a store's row
    s1, s2, slot1, slot2,       \* sockets, calls of a channel
    a1, a2, a3, a4,             \* runs and requests of an automation
    e1, e2, e3,                 \* what visitors do
    Subjects                    \* the services the run is about

VARIABLE subject

LOCAL INSTANCE TLC

(* AiReplies *)
TwoQuestions == {q1, q2}
OneQuestion == {q1}
QuestionAndPicture == {q1, pic}
TwoReplies == {g1, g2}
OneReply == {g1}
Batching == [batching |-> TRUE, silenceOnHandoff |-> TRUE, autoHandoff |-> TRUE]
OnlyBatching == {Batching}
Symmetry == Permutations(TwoQuestions) \union Permutations(TwoReplies)
ThreeSettings == {Batching, [Batching EXCEPT !.batching = FALSE],
                  [Batching EXCEPT !.silenceOnHandoff = FALSE, !.autoHandoff = FALSE]}

(* TemplateDispatcher *)
ThreeCalls == {c1, c2, c3}
DispatchesOrRelays == {[c \in ThreeCalls |-> "dispatch"],
                       [c \in ThreeCalls |-> IF c = c1 THEN "otp" ELSE "relay"]}
Known == [payloadPhone |-> TRUE, storedPhone |-> FALSE, storeChannel |-> FALSE,
          tenantChannel |-> TRUE]
KnownOrNot == {Known, [Known EXCEPT !.payloadPhone = FALSE]}
ThreeTemplates == {ti, td, tm}
ModeOfTemplate == [t \in ThreeTemplates |-> CASE t = ti -> "instant"
                                              [] t = td -> "delayed"
                                              [] t = tm -> "manual"]

(* EmployeeNotifications *)
RuleOfTarget == [t \in Targets |-> IF t = tb THEN r2 ELSE r1]
KindOfTarget == [t \in Targets |-> CASE t = tx -> "external"
                                              [] t = ts -> "short"
                                              [] t = tb -> "dashboard"
                                              [] t = tu -> "unreachable"]

(* OtpRelay *)
ThreeRequests == {p1, p2, p3}
CodesOrCompensations == {[r \in ThreeRequests |-> "code"],
                         [r \in ThreeRequests |-> "auto"],
                         [r \in ThreeRequests |-> IF r = p1 THEN "manual" ELSE "auto"]}

(* OrderMirror: what a platform sends of an order, in a few orders. *)
Sent(kind, slug) == [kind |-> kind, slug |-> slug, named |-> "none", unpaid |-> FALSE,
                     previous |-> FALSE]
SentWithPrevious(kind, slug) == [Sent(kind, slug) EXCEPT !.previous = TRUE]
SentUnpaid(kind, slug) == [Sent(kind, slug) EXCEPT !.unpaid = TRUE]
Named(kind, slug, name) == [Sent(kind, slug) EXCEPT !.named = name]
Of(name, hooks) == [platform |-> name, hook |-> hooks]
OrderHistories ==
    {Of("salla", <<Sent("create", "new"), Sent("update", "custom"),
                   Named("fixed", "shipped", "shipped")>>),
     Of("salla", <<SentUnpaid("update", "new"), Sent("update", "new"),
                   Sent("update", "shipped")>>),
     Of("salla", <<Sent("create", "shipped"), Sent("update", "shipped"),
                   Sent("update", "none")>>),
     Of("salla", <<Sent("status", "custom"), SentWithPrevious("update", "restoring"),
                   Named("fixed", "none", "cancelled")>>),
     Of("salla", <<Sent("status", "shipped"), Sent("update", "none"),
                   Sent("update", "shipped")>>),
     Of("zid", <<Sent("create", "new"), Sent("status", "unpaid"),
                 Named("paid", "none", "paid")>>),
     Of("zid", <<Sent("status", "restoring"), Named("status", "none", "shipped"),
                 Sent("status", "shipped")>>),
     Of("zid", <<Named("status", "new", "shipped"), Sent("status", "shipped"),
                 Named("fixed", "none", "cancelled")>>)}

-----------------------------------------------------------------------------
(* The variables of the services that are not the subject begin in one      *)
(* state only.                                                              *)
ServicesInit ==
    /\ subject \in Subjects
    /\ RepliesInit
    /\ subject # "replies" => settings = Batching /\ conv = FreshRow
    /\ DispatcherInit
    /\ subject # "dispatcher" => /\ path = [c \in Calls |-> "dispatch"]
                                 /\ active = {} /\ reach = Known
    /\ NotificationsInit
    /\ subject # "notifications" => enabled = {}
    /\ OtpRelayInit
    /\ subject # "otp" => /\ favour = [r \in Requests |-> "code"]
                          /\ stock = [a \in Accounts |-> "missing"]
    /\ StoreTokensInit
    /\ WhatsAppSessionInit
    /\ AutomationsInit
    /\ ElementTrackingInit
    /\ OrderMirrorInit
    /\ subject # "orders" => history = CHOOSE h \in HistoryChoices : TRUE

RepliesStep ==
    /\ subject = "replies" /\ ReplyNext
    /\ UNCHANGED <<subject, dispatcherVars, notifyVars, otpVars, storeVars,
                   waVars, mirrorVars, automationVars, trackingVars>>

DispatcherStep ==
    /\ subject = "dispatcher" /\ DispatcherNext
    /\ UNCHANGED <<subject, replyVars, notifyVars, otpVars, storeVars,
                   waVars, mirrorVars, automationVars, trackingVars>>

NotificationsStep ==
    /\ subject = "notifications" /\ NotificationsNext
    /\ UNCHANGED <<subject, replyVars, dispatcherVars, otpVars, storeVars,
                   waVars, mirrorVars, automationVars, trackingVars>>

OtpRelayStep ==
    /\ subject = "otp" /\ OtpRelayNext
    /\ UNCHANGED <<subject, replyVars, dispatcherVars, notifyVars, storeVars,
                   waVars, mirrorVars, automationVars, trackingVars>>

StoresStep ==
    /\ subject = "stores" /\ StoreTokensNext
    /\ UNCHANGED <<subject, replyVars, dispatcherVars, notifyVars, otpVars,
                   waVars, mirrorVars, automationVars, trackingVars>>

WhatsAppStep ==
    /\ subject = "whatsapp" /\ WhatsAppSessionNext
    /\ UNCHANGED <<subject, replyVars, dispatcherVars, notifyVars, otpVars,
                   storeVars, mirrorVars, automationVars, trackingVars>>

OrdersStep ==
    /\ subject = "orders" /\ OrderMirrorNext
    /\ UNCHANGED <<subject, replyVars, dispatcherVars, notifyVars, otpVars,
                   storeVars, waVars, automationVars, trackingVars>>

AutomationsStep ==
    /\ subject = "automations" /\ AutomationsNext
    /\ UNCHANGED <<subject, replyVars, dispatcherVars, notifyVars, otpVars,
                   storeVars, waVars, mirrorVars, trackingVars>>

ElementsStep ==
    /\ subject = "elements" /\ ElementTrackingNext
    /\ UNCHANGED <<subject, replyVars, dispatcherVars, notifyVars, otpVars,
                   storeVars, waVars, mirrorVars, automationVars>>

ServicesNext == RepliesStep \/ DispatcherStep \/ NotificationsStep \/ OtpRelayStep
                \/ StoresStep \/ WhatsAppStep \/ OrdersStep \/ AutomationsStep
                \/ ElementsStep

servicesVars == <<subject, replyVars, dispatcherVars, notifyVars, otpVars, storeVars,
                  waVars, mirrorVars, automationVars, trackingVars>>

ServicesSpec == ServicesInit /\ [][ServicesNext]_servicesVars

(* Of the replies, the timers, the promises and the queue go on, and time   *)
(* itself; of the notifications, the loop over the rules and the queue; of  *)
(* the elements, the queue, the timer, the statements and a stop once begun.*)
(* Crashes, errors, employees and customers owe nothing.                    *)
ServicesFairness ==
    /\ \A m \in Inbound : /\ WF_replyVars(subject = "replies" /\ UpdateCustomer(m))
                          /\ WF_replyVars(subject = "replies" /\ StoreMessage(m))
                          /\ WF_replyVars(subject = "replies" /\ QueueSafetyNet(m))
                          /\ WF_replyVars(subject = "replies" /\ Listen(m))
                          /\ WF_replyVars(subject = "replies" /\ SafetyNet(m))
    /\ \A g \in Generations : /\ WF_replyVars(subject = "replies" /\ Flush(g))
                              /\ WF_replyVars(subject = "replies" /\ Generate(g))
    /\ WF_replyVars(subject = "replies" /\ AgentSave)
    /\ WF_replyVars(subject = "replies" /\ ReplyTick)
    /\ \A d \in Deliveries : WF_notifyVars(subject = "notifications" /\ Notify(d))
    /\ \A n \in Notes : WF_notifyVars(subject = "notifications" /\ Work(n))
    /\ \A e \in Events : /\ WF_trackingVars(subject = "elements" /\ ProcessEvent(e))
                         /\ WF_trackingVars(subject = "elements" /\ JobDone(e))
    /\ WF_trackingVars(subject = "elements" /\ FlushBuffer)
    /\ WF_trackingVars(subject = "elements" /\ (InsertChunk \/ InsertFails))
    /\ WF_trackingVars(subject = "elements" /\ Exit)

FairServicesSpec == ServicesSpec /\ ServicesFairness

(* The type invariants of the modules: every value the code keeps is one of *)
(* those its handlers may meet.                                             *)
TypesOK ==
    /\ subject = "replies" => RepliesTypeOK
    /\ subject = "dispatcher" => DispatcherTypeOK
    /\ subject = "notifications" => NotificationsTypeOK
    /\ subject = "otp" => OtpRelayTypeOK
    /\ subject = "stores" => StoreTokensTypeOK
    /\ subject = "whatsapp" => WhatsAppSessionTypeOK
    /\ subject = "orders" => OrderMirrorTypeOK
    /\ subject = "automations" => AutomationsTypeOK
    /\ subject = "elements" => ElementTrackingTypeOK
=============================================================================
