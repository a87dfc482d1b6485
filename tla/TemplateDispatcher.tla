------------------------- MODULE TemplateDispatcher -------------------------
(***************************************************************************)
(* The dispatcher of message templates: what happens to the events of one  *)
(* customer and one trigger within one process.  An event takes one of two *)
(* paths, each with its own key in the in-memory map `recentDispatches':   *)
(*   dispatch - an order, cart or customer event sends the newest active   *)
(*              template of its trigger;                                   *)
(*   relay    - a communication.* event of Salla sends every active one;   *)
(* and a one-time password is relayed as Salla wrote it.  A key keeps the  *)
(* duplicates of an event away for a window of time, counted in ticks.     *)
(***************************************************************************)
EXTENDS Naturals, FiniteSets

CONSTANTS
    Calls,        \* events handed to the dispatcher
    PathChoices,  \* which path each takes: functions from Calls to Paths
    Templates,    \* templates of the trigger
    Customers,    \* what may be known of the customer and the channels
    Mode,         \* sendSettings of each: "manual", "delayed" or "instant"
    Window,       \* DEDUP_WINDOW_MS
    MaxErrors     \* bound: failed sends, failed statements, restarts

Paths == {"dispatch", "relay", "otp"}
Reach == [payloadPhone : BOOLEAN, storedPhone : BOOLEAN,
          storeChannel : BOOLEAN, tenantChannel : BOOLEAN]

ASSUME DispatcherAssumption ==
    /\ PathChoices \subseteq [Calls -> Paths] /\ Customers \subseteq Reach
    /\ Mode \in [Templates -> {"manual", "delayed", "instant"}]
    /\ Window \in Nat /\ MaxErrors \in Nat

VARIABLES
    path,       \* the path each call takes
    active,     \* templates the tenant has activated
    reach,      \* what is known of the customer and of the store's channels
    recentDispatches,     \* recentDispatches: age of each path's key, or NoKey
    cpc,        \* where each call is
    stamp,      \* ticks since the call read the clock
    todo        \* templates the call still has to send

(* Observation only: no action reads these except to respect a bound. *)
VARIABLES
    errors,
    served,     \* ages of the calls of each path that reached the customer
    doubled,    \* paths on which two such calls lie within one window
    excused     \* paths on which the key could not tell: a call outlived the
                \* window, two relays were between test and set, an answer
                \* was lost, the process was restarted

dispatcherVars == <<path, active, reach, recentDispatches, cpc, stamp, todo, errors,
                    served, doubled, excused>>
observed == <<errors, served, doubled, excused>>

NoKey == Window + 1
Old   == Window + 1
DispatchPc == {"idle", "claim", "prepare", "send", "resolve", "build", "loop", "more",
           "done"}

DispatcherTypeOK ==
    /\ path \in PathChoices /\ active \subseteq Templates /\ reach \in Customers
    /\ recentDispatches \in [Paths -> 0..NoKey]
    /\ cpc \in [Calls -> DispatchPc]
    /\ stamp \in [Calls -> 0..Old]
    /\ todo \in [Calls -> SUBSET Templates]
    /\ errors \in 0..MaxErrors
    /\ served \in [Paths -> SUBSET (0..Window)]
    /\ doubled \subseteq Paths /\ excused \subseteq Paths

DispatcherInit ==
    /\ path \in PathChoices
    /\ active \in SUBSET Templates /\ reach \in Customers
    /\ recentDispatches = [p \in Paths |-> NoKey]
    /\ cpc = [c \in Calls |-> "idle"]
    /\ stamp = [c \in Calls |-> 0]
    /\ todo = [c \in Calls |-> {}]
    /\ errors = 0 /\ served = [p \in Paths |-> {}]
    /\ doubled = {} /\ excused = {}

Goto(c, pc) == cpc' = [cpc EXCEPT ![c] = pc]

(* A key older than the window is swept before the test. *)
Fresh(p) == recentDispatches[p] # NoKey

(* The customer's phone in the event, else in the mirror of the orders. *)
ExtractCustomerPhone == reach.payloadPhone
LookupCustomerPhone  == reach.storedPhone
CustomerPhone == ExtractCustomerPhone \/ LookupCustomerPhone

(* A connected WhatsApp channel of the store, else of its tenant. *)
FindActiveWhatsAppChannel == reach.storeChannel \/ reach.tenantChannel

(* The customer has been reached by a call that read the clock `age' ago.   *)
Serve(p, age) ==
    /\ doubled' = IF served[p] # {} /\ age <= Window
                    THEN doubled \union {p} ELSE doubled
    /\ served' = IF age <= Window THEN [served EXCEPT ![p] = @ \union {age}]
                                  ELSE served

Err == errors < MaxErrors /\ errors' = errors + 1

-----------------------------------------------------------------------------
(* dispatch *)

(* Templates, channel and phone are looked up for the log; outside the try. *)
Diagnose(c) ==
    /\ cpc[c] = "idle" /\ path[c] = "dispatch"
    /\ \/ Goto(c, "claim") /\ UNCHANGED errors
       \/ Goto(c, "done") /\ Err
    /\ UNCHANGED <<path, active, reach, recentDispatches, stamp, todo, served,
                   doubled, excused>>

(* Mutant: the key is tested, then set after the lookups. *)
ClaimLate(c) ==
    /\ cpc[c] = "claim"
    /\ Goto(c, IF Fresh("dispatch") THEN "done" ELSE "prepare")
    /\ stamp' = [stamp EXCEPT ![c] = 0]
    /\ UNCHANGED <<path, active, reach, recentDispatches, todo, observed>>

(* The key is tested and set without giving way to another call. *)
Claim(c) ==
    /\ cpc[c] = "claim"
    /\ IF Fresh("dispatch")
         THEN Goto(c, "done") /\ UNCHANGED <<recentDispatches, stamp>>
         ELSE /\ recentDispatches' = [recentDispatches EXCEPT !["dispatch"] = 0]
              /\ stamp' = [stamp EXCEPT ![c] = 0]
              /\ Goto(c, "prepare")
    /\ UNCHANGED <<path, active, reach, todo, observed>>

(* Mutant: the key outlives a failure. *)
ReleaseNothing(c) == Goto(c, "done") /\ UNCHANGED recentDispatches

(* finally: whoever set the key, it is deleted unless a message went out.   *)
Release(c) ==
    /\ recentDispatches' = [recentDispatches EXCEPT !["dispatch"] = NoKey]
    /\ Goto(c, "done")

Unsendable(t) == \/ ~FindActiveWhatsAppChannel \/ ~CustomerPhone
                 \/ Mode[t] = "manual"

GiveUp(c) ==
    /\ cpc[c] = "prepare"
    /\ \/ active = {} /\ UNCHANGED errors
       \/ \E t \in active : Unsendable(t) /\ UNCHANGED errors
       \/ Err
    /\ Release(c)
    /\ UNCHANGED <<path, active, reach, stamp, todo, served, doubled, excused>>

(* The template updated last is the one: any of them may be. *)
Choose(c) ==
    /\ cpc[c] = "prepare"
    /\ \E t \in active : ~Unsendable(t) /\ todo' = [todo EXCEPT ![c] = {t}]
    /\ Goto(c, "send")
    /\ UNCHANGED <<path, active, reach, recentDispatches, stamp, observed>>

(* scheduleDelayedSend or sendTemplate; the second swallows its errors and  *)
(* answers false, and both leave the key to `finally'.  An error may hide a *)
(* message that went out.                                                   *)
Dispatch(c) ==
    /\ cpc[c] = "send"
    /\ \/ /\ Serve("dispatch", stamp[c])
          /\ Goto(c, "done")
          /\ UNCHANGED <<recentDispatches, errors, excused>>
       \/ Err /\ Release(c) /\ UNCHANGED <<served, doubled, excused>>
       \/ /\ Err /\ Release(c)
          /\ Serve("dispatch", stamp[c])
          /\ excused' = excused \union {"dispatch"}
    /\ todo' = [todo EXCEPT ![c] = {}]
    /\ UNCHANGED <<path, active, reach, stamp>>

-----------------------------------------------------------------------------
(* relayCommunicationMessage: the tenant and the recipients are known. *)

(* The key is tested here, and set only once templates have been found.     *)
TestRelay(c) ==
    /\ cpc[c] = "idle" /\ path[c] = "relay"
    /\ stamp' = [stamp EXCEPT ![c] = 0]
    /\ Goto(c, IF Fresh("relay") THEN "done" ELSE "resolve")
    /\ UNCHANGED <<path, active, reach, recentDispatches, todo, observed>>

Resolve(c) ==
    /\ cpc[c] = "resolve"
    /\ IF active = {}
         THEN Goto(c, "done") /\ UNCHANGED <<recentDispatches, excused>>
         ELSE /\ recentDispatches' = [recentDispatches EXCEPT !["relay"] = stamp[c]]
              /\ excused' = IF recentDispatches["relay"] # NoKey
                              THEN excused \union {"relay"} ELSE excused
              /\ Goto(c, "build")
    /\ UNCHANGED <<path, active, reach, stamp, todo, errors, served, doubled>>

(* Without a phone the delayed templates are skipped, like the manual ones. *)
Relayed == {t \in active : \/ Mode[t] = "instant"
                           \/ Mode[t] = "delayed" /\ CustomerPhone}

BuildVariables(c) ==
    /\ cpc[c] = "build"
    /\ todo' = [todo EXCEPT ![c] = Relayed]
    /\ Goto(c, "loop")
    /\ UNCHANGED <<path, active, reach, recentDispatches, stamp, observed>>

(* One template of the loop; its error is logged and the next one follows.  *)
RelayOne(c) ==
    /\ cpc[c] \in {"loop", "more"}
    /\ \E t \in todo[c] : todo' = [todo EXCEPT ![c] = @ \ {t}]
    /\ \/ /\ Goto(c, "more") /\ UNCHANGED errors
          /\ IF cpc[c] = "loop" THEN Serve("relay", stamp[c])
                                ELSE UNCHANGED <<served, doubled>>
       \/ Err /\ UNCHANGED <<cpc, served, doubled>>
    /\ UNCHANGED <<path, active, reach, recentDispatches, stamp, excused>>

EndRelay(c) ==
    /\ cpc[c] \in {"loop", "more"} /\ todo[c] = {}
    /\ Goto(c, "done")
    /\ UNCHANGED <<path, active, reach, recentDispatches, stamp, todo, observed>>

(* A statement fails on the way: the error is logged, the key stays.        *)
RelayFails(c) ==
    /\ cpc[c] \in {"resolve", "build"} /\ Err
    /\ Goto(c, "done")
    /\ UNCHANGED <<path, active, reach, recentDispatches, stamp, todo, served,
                   doubled, excused>>

(* A one-time password: the key is set before anything else is awaited.     *)
RelayOtp(c) ==
    /\ cpc[c] = "idle" /\ path[c] = "otp"
    /\ IF Fresh("otp")
         THEN UNCHANGED <<recentDispatches, errors, served, doubled>>
         ELSE /\ recentDispatches' = [recentDispatches EXCEPT !["otp"] = 0]
              /\ \/ Serve("otp", 0) /\ UNCHANGED errors
                 \/ Err /\ UNCHANGED <<served, doubled>>
    /\ Goto(c, "done")
    /\ UNCHANGED <<path, active, reach, stamp, todo, excused>>

-----------------------------------------------------------------------------
Older(age) == IF age = Old THEN Old ELSE age + 1

(* Time passes; a call that outlives the window excuses its path. *)
DispatcherTick ==
    /\ recentDispatches' = [p \in Paths |-> Older(recentDispatches[p])]
    /\ stamp' = [c \in Calls |-> IF cpc[c] \in {"idle", "done"} THEN stamp[c]
                                                            ELSE Older(stamp[c])]
    /\ served' = [p \in Paths |-> {age + 1 : age \in served[p] \ {Window}}]
    /\ excused' = excused \union
         {path[c] : c \in {d \in Calls : /\ cpc[d] \notin {"idle", "claim", "done"}
                                         /\ stamp[d] = Window}}
    /\ UNCHANGED <<path, active, reach, cpc, todo, errors, doubled>>

(* The map dies with the process, and so do the calls. *)
Restart ==
    /\ Err
    /\ recentDispatches' = [p \in Paths |-> NoKey]
    /\ cpc' = [c \in Calls |-> IF cpc[c] = "idle" THEN "idle" ELSE "done"]
    /\ excused' = Paths
    /\ UNCHANGED <<path, active, reach, stamp, todo, served, doubled>>

DispatcherNext ==
    \/ \E c \in Calls : \/ Diagnose(c) \/ Claim(c) \/ GiveUp(c) \/ Choose(c)
                        \/ Dispatch(c) \/ TestRelay(c) \/ Resolve(c)
                        \/ BuildVariables(c) \/ RelayOne(c) \/ EndRelay(c)
                        \/ RelayFails(c) \/ RelayOtp(c)
    \/ DispatcherTick \/ Restart

DispatcherSpec == DispatcherInit /\ [][DispatcherNext]_dispatcherVars

-----------------------------------------------------------------------------
(* The customer is reached at most once within a window on each path, while *)
(* no call outlives the window, no two relays are between the test and the  *)
(* set of the key, no answer is lost, and the process lives (dispatch, line *)
(* 1732; relay, 476).                                                       *)
OncePerWindow == doubled \subseteq excused

(* A key of dispatch keeps events away only on behalf of a call that is     *)
(* under way or reached the customer: a failure leaves the way free to the  *)
(* platform's next delivery (dispatch, the finally of line 1849).           *)
InProgress(c) == cpc[c] \in {"prepare", "send"}
KeyMeansMessage ==
    recentDispatches["dispatch"] # NoKey
      => \/ recentDispatches["dispatch"] \in served["dispatch"]
         \/ \E c \in Calls : InProgress(c) /\ stamp[c] = recentDispatches["dispatch"]
=============================================================================
