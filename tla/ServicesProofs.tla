-------------------------- MODULE ServicesProofs ---------------------------
(***************************************************************************)
(* Theorems about three services that have to do a thing once and not      *)
(* lose it, and about the instance MCServices puts all services into.      *)
(*                                                                         *)
(* TemplateDispatcher: a key of dispatch stands for a call under way or a  *)
(* message sent, and no path reaches the customer twice within a window    *)
(* unless excused.  The invariant follows a path that is not excused: at   *)
(* most one of its calls has set the key and is at work, and then nobody   *)
(* else has been served; once somebody has been, the key is theirs.        *)
(*                                                                         *)
(* EmployeeNotifications: the row of a notification says what happened     *)
(* once its job is over.  A job is queued once, since each delivery works  *)
(* through each of its rules once, and its place says what its row, its    *)
(* messages and its attempts are.                                          *)
(*                                                                         *)
(* ElementTracking: no event is lost by a flush, and none is written twice *)
(* without an excuse.  An event is in the buffer or in the flush under way *)
(* once, and its row is there exactly when its chunk has been written.     *)
(*                                                                         *)
(* MCServices: a behaviour of the instance is one of every service, hence  *)
(* what is proved of the services holds of the run.                        *)
(***************************************************************************)
EXTENDS MCServices, ConversationProofs, RowCopiesProofs, TLAPS

(* The places of dispatch and of the relay. *)
PathOfPlace ==
    \A c \in Calls :
      /\ cpc[c] \in {"claim", "prepare", "send"} => path[c] = "dispatch"
      /\ cpc[c] \in {"resolve", "build", "loop", "more"} => path[c] = "relay"

(* A call that has set its path's key and may still reach the customer, or  *)
(* is about to end.                                                         *)
HoldsKey(c) == cpc[c] \in {"prepare", "send", "build", "loop", "more"}

(* What the key of a path that is not excused says. *)
KeyOfHolder ==
    \A c \in Calls : HoldsKey(c) /\ path[c] \notin excused
      => /\ stamp[c] <= Window /\ recentDispatches[path[c]] = stamp[c]
         /\ cpc[c] # "more" => served[path[c]] = {}

OneHolder ==
    \A c, d \in Calls : HoldsKey(c) /\ HoldsKey(d) /\ path[c] = path[d] /\ c # d
      => path[c] \in excused

KeyOfServed ==
    \A p \in Paths \ excused :
      served[p] \subseteq {recentDispatches[p]} \ {NoKey}

(* A call of the relay that has not set the key yet. *)
Resolving ==
    \A c \in Calls : cpc[c] = "resolve" /\ path[c] \notin excused => stamp[c] <= Window

DispatcherInv == /\ DispatcherTypeOK /\ PathOfPlace /\ KeyMeansMessage
                 /\ KeyOfHolder /\ OneHolder /\ KeyOfServed /\ Resolving
                 /\ OncePerWindow

-----------------------------------------------------------------------------
LEMMA DispatcherInitInv == DispatcherInit => DispatcherInv
<1> SUFFICES ASSUME DispatcherInit PROVE DispatcherInv
  OBVIOUS
<1>1. DispatcherTypeOK
  BY DispatcherAssumption
     DEF DispatcherAssumption, DispatcherInit, DispatcherTypeOK, DispatchPc, NoKey, Old
<1>2. \A c \in Calls : cpc[c] = "idle"
  BY DEF DispatcherInit
<1>3. PathOfPlace /\ KeyOfHolder /\ OneHolder /\ Resolving
  BY <1>2 DEF PathOfPlace, KeyOfHolder, OneHolder, Resolving, HoldsKey
<1>4. KeyMeansMessage /\ KeyOfServed /\ OncePerWindow
  BY DEF DispatcherInit, KeyMeansMessage, KeyOfServed, OncePerWindow, Paths
<1> QED
  BY <1>1, <1>3, <1>4 DEF DispatcherInv

LEMMA PathType ==
  ASSUME DispatcherTypeOK, NEW c \in Calls
  PROVE  path[c] \in Paths
  BY DispatcherAssumption DEF DispatcherAssumption, DispatcherTypeOK

LEMMA ErrType == DispatcherTypeOK /\ Err => errors' \in 0..MaxErrors
  BY DispatcherAssumption DEF DispatcherAssumption, DispatcherTypeOK, Err

LEMMA GotoType ==
  ASSUME DispatcherTypeOK, NEW c \in Calls, NEW pc \in DispatchPc, Goto(c, pc)
  PROVE  cpc' \in [Calls -> DispatchPc]
  BY DEF DispatcherTypeOK, Goto

LEMMA GotoOnly ==
  ASSUME DispatcherTypeOK, NEW c \in Calls, NEW pc \in DispatchPc, Goto(c, pc)
  PROVE  \A d \in Calls : cpc'[d] = IF d = c THEN pc ELSE cpc[d]
  BY DEF DispatcherTypeOK, Goto

LEMMA Ages == /\ Window \in Nat /\ NoKey = Window + 1 /\ Old = Window + 1
              /\ 0 \in 0..NoKey /\ 0 \in 0..Old /\ NoKey \in 0..NoKey /\ NoKey # 0
  BY DispatcherAssumption DEF DispatcherAssumption, NoKey, Old

(* Serve counts a call, and doubles its path only if somebody was counted.  *)
LEMMA ServeFacts ==
  ASSUME DispatcherTypeOK, NEW p \in Paths, NEW age \in 0..Old, Serve(p, age)
  PROVE  /\ served' \in [Paths -> SUBSET (0..Window)] /\ doubled' \subseteq Paths
         /\ \A q \in Paths \ {p} : served'[q] = served[q]
         /\ served[p] \subseteq served'[p] /\ served'[p] \subseteq served[p] \union {age}
         /\ age <= Window => age \in served'[p]
         /\ served[p] = {} => doubled' = doubled
         /\ doubled' \subseteq doubled \union {p}
<1>1. CASE age <= Window
  <2>1. served' = [served EXCEPT ![p] = served[p] \union {age}]
    BY <1>1 DEF Serve
  <2>2. age \in 0..Window
    BY <1>1, Ages
  <2>3. /\ served'[p] = served[p] \union {age}
        /\ \A q \in Paths \ {p} : served'[q] = served[q]
    BY <2>1 DEF DispatcherTypeOK
  <2>4. served' \in [Paths -> SUBSET (0..Window)]
    BY <2>1, <2>2 DEF DispatcherTypeOK
  <2> QED
    BY <2>3, <2>4 DEF Serve, DispatcherTypeOK
<1>2. CASE ~(age <= Window)
  BY <1>2 DEF Serve, DispatcherTypeOK
<1> QED
  BY <1>1, <1>2

-----------------------------------------------------------------------------
(* A call goes on, or ends, and changes neither keys nor what is observed.  *)
LEMMA QuietInv ==
  ASSUME DispatcherInv, DispatcherTypeOK', NEW c \in Calls, NEW pc \in DispatchPc,
         Goto(c, pc),
         UNCHANGED <<path, recentDispatches, stamp, served, doubled, excused>>,
         \/ pc \in {"claim", "done"} /\ ~InProgress(c)
         \/ cpc[c] = "prepare" /\ pc = "send"
         \/ cpc[c] = "build" /\ pc = "loop",
         pc = "claim" => path[c] = "dispatch"
  PROVE  DispatcherInv'
<1> USE DEF HoldsKey
<1>1. \A d \in Calls : cpc'[d] = IF d = c THEN pc ELSE cpc[d]
  BY GotoOnly DEF DispatcherInv
<1>2. /\ \A d \in Calls : HoldsKey(d)' => HoldsKey(d)
      /\ \A d \in Calls : cpc'[d] = "resolve" => cpc[d] = "resolve"
      /\ \A d \in Calls : HoldsKey(d)' /\ cpc[d] = "more" => cpc'[d] = "more"
      /\ \A d \in Calls : InProgress(d) => InProgress(d)'
  BY <1>1 DEF InProgress
<1>3. PathOfPlace'
  BY <1>1 DEF DispatcherInv, PathOfPlace
<1>4. KeyMeansMessage'
  BY <1>2 DEF DispatcherInv, KeyMeansMessage
<1>5. KeyOfHolder'
  BY <1>2 DEF DispatcherInv, KeyOfHolder
<1>6. OneHolder'
  BY <1>2 DEF DispatcherInv, OneHolder
<1>7. KeyOfServed' /\ OncePerWindow'
  BY DEF DispatcherInv, KeyOfServed, OncePerWindow
<1>8. Resolving'
  BY <1>2 DEF DispatcherInv, Resolving
<1> QED
  BY <1>3, <1>4, <1>5, <1>6, <1>7, <1>8 DEF DispatcherInv

LEMMA ClaimInv ==
  ASSUME DispatcherInv, NEW c \in Calls, Claim(c)
  PROVE  DispatcherInv'
<1> USE DEF HoldsKey
<1>0. cpc[c] = "claim" /\ UNCHANGED <<path, active, reach, todo, observed>>
  BY DEF Claim
<1>1. CASE Fresh("dispatch")
  <2>1. Goto(c, "done") /\ UNCHANGED <<recentDispatches, stamp>>
    BY <1>1 DEF Claim
  <2>2. DispatcherTypeOK'
    BY <1>0, <2>1, GotoType
       DEF DispatcherInv, DispatcherTypeOK, DispatchPc, observed
  <2> QED
    BY <1>0, <2>1, <2>2, QuietInv DEF observed, InProgress, DispatchPc
<1>2. CASE ~Fresh("dispatch")
  <2>1. /\ Goto(c, "prepare") /\ stamp' = [stamp EXCEPT ![c] = 0]
        /\ recentDispatches' = [recentDispatches EXCEPT !["dispatch"] = 0]
        /\ recentDispatches["dispatch"] = NoKey
    BY <1>2 DEF Claim, Fresh
  <2>2. DispatcherTypeOK'
    BY <1>0, <2>1, GotoType, Ages
       DEF DispatcherInv, DispatcherTypeOK, DispatchPc, observed
  <2>3. /\ \A d \in Calls : /\ cpc'[d] = IF d = c THEN "prepare" ELSE cpc[d]
                            /\ stamp'[d] = IF d = c THEN 0 ELSE stamp[d]
        /\ \A p \in Paths : recentDispatches'[p] =
                              IF p = "dispatch" THEN 0 ELSE recentDispatches[p]
    BY <2>1, GotoOnly DEF DispatcherInv, DispatcherTypeOK, DispatchPc
  <2>4. path[c] = "dispatch" /\ "dispatch" \in Paths
    BY <1>0 DEF DispatcherInv, PathOfPlace, Paths
  <2>5. "dispatch" \notin excused =>
          /\ served["dispatch"] = {}
          /\ \A d \in Calls : path[d] = "dispatch" => ~HoldsKey(d)
    BY <2>1, <2>4, Ages DEF DispatcherInv, KeyOfServed, KeyOfHolder
  <2>6. PathOfPlace' /\ OncePerWindow'
    BY <1>0, <2>3, <2>4 DEF DispatcherInv, PathOfPlace, OncePerWindow, observed
  <2>7. KeyMeansMessage'
    BY <2>3, <2>4 DEF KeyMeansMessage, InProgress
  <2>8. KeyOfHolder'
    BY <1>0, <2>3, <2>4, <2>5, Ages, PathType
       DEF DispatcherInv, KeyOfHolder, observed
  <2>9. OneHolder'
    BY <1>0, <2>3, <2>4, <2>5 DEF DispatcherInv, OneHolder, observed
  <2>10. KeyOfServed'
    BY <1>0, <2>3, <2>5 DEF DispatcherInv, KeyOfServed, observed
  <2>11. Resolving'
    BY <1>0, <2>3 DEF DispatcherInv, Resolving, observed
  <2> QED
    BY <2>2, <2>6, <2>7, <2>8, <2>9, <2>10, <2>11 DEF DispatcherInv
<1> QED
  BY <1>1, <1>2

(* The finally of dispatch after a failure: if the path is not excused, the *)
(* key was the call's own and nobody has been served.                       *)
LEMMA ReleaseInv ==
  ASSUME DispatcherInv, NEW c \in Calls, InProgress(c), Release(c),
         UNCHANGED <<path, active, reach, stamp, served, doubled, excused>>,
         todo' \in [Calls -> SUBSET Templates], errors' \in 0..MaxErrors
  PROVE  DispatcherInv'
<1> USE DEF HoldsKey
<1>1. /\ Goto(c, "done")
      /\ recentDispatches' = [recentDispatches EXCEPT !["dispatch"] = NoKey]
  BY DEF Release
<1>2. /\ \A d \in Calls : cpc'[d] = IF d = c THEN "done" ELSE cpc[d]
      /\ \A p \in Paths : recentDispatches'[p] =
                            IF p = "dispatch" THEN NoKey ELSE recentDispatches[p]
  BY <1>1, GotoOnly DEF DispatcherInv, DispatcherTypeOK, DispatchPc
<1>3. DispatcherTypeOK'
  BY <1>1, GotoType, Ages DEF DispatcherInv, DispatcherTypeOK, DispatchPc
<1>4. path[c] = "dispatch" /\ "dispatch" \in Paths
  BY DEF InProgress, DispatcherInv, PathOfPlace, Paths
<1>5. "dispatch" \notin excused =>
        /\ served["dispatch"] = {}
        /\ \A d \in Calls : path[d] = "dispatch" /\ d # c => ~HoldsKey(d)
  BY <1>4 DEF InProgress, DispatcherInv, KeyOfHolder, OneHolder
<1>6. PathOfPlace' /\ OncePerWindow' /\ Resolving'
  BY <1>2 DEF DispatcherInv, PathOfPlace, OncePerWindow, Resolving
<1>7. KeyMeansMessage'
  BY <1>2, <1>4 DEF KeyMeansMessage
<1>8. KeyOfHolder'
  BY <1>2, <1>4, <1>5, PathType DEF DispatcherInv, KeyOfHolder
<1>9. OneHolder'
  BY <1>2 DEF DispatcherInv, OneHolder
<1>10. KeyOfServed'
  BY <1>2, <1>5 DEF DispatcherInv, KeyOfServed
<1> QED
  BY <1>3, <1>6, <1>7, <1>8, <1>9, <1>10 DEF DispatcherInv

(* The first message of a call that holds its key is the only one of a path *)
(* that is not excused.                                                     *)
LEMMA ServeOnce ==
  ASSUME DispatcherInv, NEW c \in Calls, HoldsKey(c), cpc[c] # "more",
         Serve(path[c], stamp[c])
  PROVE  /\ doubled' \subseteq excused \union {path[c]}
         /\ path[c] \notin excused =>
              /\ doubled' \subseteq excused /\ stamp[c] <= Window
              /\ served'[path[c]] = {stamp[c]}
         /\ served' \in [Paths -> SUBSET (0..Window)] /\ doubled' \subseteq Paths
         /\ \A q \in Paths \ {path[c]} : served'[q] = served[q]
         /\ served[path[c]] \subseteq served'[path[c]]
         /\ stamp[c] <= Window => stamp[c] \in served'[path[c]]
<1>1. path[c] \in Paths /\ stamp[c] \in 0..Old
  BY PathType DEF DispatcherInv, DispatcherTypeOK
<1>2. /\ served' \in [Paths -> SUBSET (0..Window)] /\ doubled' \subseteq Paths
      /\ \A q \in Paths \ {path[c]} : served'[q] = served[q]
      /\ served[path[c]] \subseteq served'[path[c]]
      /\ served'[path[c]] \subseteq served[path[c]] \union {stamp[c]}
      /\ stamp[c] <= Window => stamp[c] \in served'[path[c]]
      /\ served[path[c]] = {} => doubled' = doubled
      /\ doubled' \subseteq doubled \union {path[c]}
  BY <1>1, ServeFacts DEF DispatcherInv
<1>3. path[c] \notin excused => served[path[c]] = {} /\ stamp[c] <= Window
  BY DEF DispatcherInv, KeyOfHolder
<1>4. doubled \subseteq excused
  BY DEF DispatcherInv, OncePerWindow
<1> QED
  BY <1>2, <1>3, <1>4

LEMMA DispatchInv ==
  ASSUME DispatcherInv, NEW c \in Calls, Dispatch(c)
  PROVE  DispatcherInv'
<1> USE DEF HoldsKey
<1>0. /\ cpc[c] = "send" /\ InProgress(c)
      /\ UNCHANGED <<path, active, reach, stamp>>
      /\ todo' \in [Calls -> SUBSET Templates]
  BY DEF Dispatch, InProgress, DispatcherInv, DispatcherTypeOK
<1>1. path[c] = "dispatch" /\ "dispatch" \in Paths
  BY <1>0 DEF DispatcherInv, PathOfPlace, Paths
<1>2. CASE /\ Serve("dispatch", stamp[c]) /\ Goto(c, "done")
           /\ UNCHANGED <<recentDispatches, errors, excused>>
  <2>1. \A d \in Calls : cpc'[d] = IF d = c THEN "done" ELSE cpc[d]
    BY <1>2, GotoOnly DEF DispatcherInv, DispatchPc
  <2>2. /\ "dispatch" \notin excused =>
             /\ doubled' \subseteq excused /\ stamp[c] <= Window
             /\ served'["dispatch"] = {stamp[c]}
             /\ recentDispatches["dispatch"] = stamp[c]
             /\ \A d \in Calls : path[d] = "dispatch" /\ d # c => ~HoldsKey(d)
        /\ doubled' \subseteq excused \union {"dispatch"}
        /\ served' \in [Paths -> SUBSET (0..Window)] /\ doubled' \subseteq Paths
        /\ \A q \in Paths \ {"dispatch"} : served'[q] = served[q]
        /\ served["dispatch"] \subseteq served'["dispatch"]
        /\ stamp[c] <= Window => stamp[c] \in served'["dispatch"]
    <3>1. HoldsKey(c) /\ cpc[c] # "more" /\ Serve(path[c], stamp[c])
      BY <1>0, <1>1, <1>2
    <3>2. "dispatch" \notin excused =>
             /\ recentDispatches["dispatch"] = stamp[c]
             /\ \A d \in Calls : path[d] = "dispatch" /\ d # c => ~HoldsKey(d)
      BY <3>1, <1>1 DEF DispatcherInv, KeyOfHolder, OneHolder
    <3> QED
      BY <3>1, <3>2, <1>1, ServeOnce
  <2>3. DispatcherTypeOK'
    BY <1>0, <1>2, <2>2, GotoType DEF DispatcherInv, DispatcherTypeOK, DispatchPc
  <2>4. PathOfPlace' /\ Resolving' /\ OneHolder' /\ OncePerWindow'
    BY <1>0, <1>2, <2>1, <2>2
       DEF DispatcherInv, PathOfPlace, Resolving, OneHolder, OncePerWindow
  <2>5. recentDispatches["dispatch"] # NoKey => recentDispatches["dispatch"] <= Window
    BY <1>1, Ages DEF DispatcherInv, DispatcherTypeOK
  <2>6. KeyMeansMessage'
    <3> SUFFICES ASSUME recentDispatches["dispatch"] # NoKey,
                        recentDispatches["dispatch"] \notin served'["dispatch"]
                 PROVE  \E d \in Calls : /\ InProgress(d)'
                                         /\ stamp'[d] = recentDispatches'["dispatch"]
      BY <1>2 DEF KeyMeansMessage
    <3>1. PICK d \in Calls : InProgress(d) /\ stamp[d] = recentDispatches["dispatch"]
      BY <2>2 DEF DispatcherInv, KeyMeansMessage
    <3>2. d # c
      BY <3>1, <2>2, <2>5
    <3> QED
      BY <3>1, <3>2, <1>0, <1>2, <2>1 DEF InProgress
  <2>7. KeyOfHolder'
    BY <1>0, <1>1, <1>2, <2>1, <2>2, PathType DEF DispatcherInv, KeyOfHolder
  <2>8. KeyOfServed'
    BY <1>2, <2>2, Ages DEF DispatcherInv, KeyOfServed, DispatcherTypeOK
  <2> QED
    BY <2>3, <2>4, <2>6, <2>7, <2>8 DEF DispatcherInv
<1>3. CASE Err /\ Release(c) /\ UNCHANGED <<served, doubled, excused>>
  BY <1>0, <1>3, ReleaseInv, ErrType DEF DispatcherInv
<1>4. CASE /\ Err /\ Release(c)
           /\ Serve("dispatch", stamp[c])
           /\ excused' = excused \union {"dispatch"}
  <2>1. /\ Goto(c, "done")
        /\ recentDispatches' = [recentDispatches EXCEPT !["dispatch"] = NoKey]
    BY <1>4 DEF Release
  <2>2. /\ \A d \in Calls : cpc'[d] = IF d = c THEN "done" ELSE cpc[d]
        /\ \A p \in Paths : recentDispatches'[p] =
                              IF p = "dispatch" THEN NoKey ELSE recentDispatches[p]
    BY <2>1, GotoOnly DEF DispatcherInv, DispatcherTypeOK, DispatchPc
  <2>3. /\ doubled' \subseteq excused'
        /\ served' \in [Paths -> SUBSET (0..Window)] /\ doubled' \subseteq Paths
        /\ \A q \in Paths \ {"dispatch"} : served'[q] = served[q]
    <3>1. HoldsKey(c) /\ cpc[c] # "more" /\ Serve(path[c], stamp[c])
      BY <1>0, <1>1, <1>4
    <3> QED
      BY <3>1, <1>1, <1>4, ServeOnce
  <2>4. DispatcherTypeOK'
    BY <1>0, <1>1, <1>4, <2>1, <2>3, GotoType, Ages, ErrType
       DEF DispatcherInv, DispatcherTypeOK, DispatchPc
  <2>5. PathOfPlace' /\ Resolving' /\ OneHolder' /\ OncePerWindow'
    BY <1>0, <1>4, <2>2, <2>3
       DEF DispatcherInv, PathOfPlace, Resolving, OneHolder, OncePerWindow
  <2>6. KeyMeansMessage'
    BY <1>1, <2>2 DEF KeyMeansMessage
  <2>7. KeyOfHolder'
    BY <1>0, <1>4, <2>2, <2>3, PathType DEF DispatcherInv, KeyOfHolder
  <2>8. KeyOfServed'
    BY <1>4, <2>2, <2>3 DEF DispatcherInv, KeyOfServed
  <2> QED
    BY <2>4, <2>5, <2>6, <2>7, <2>8 DEF DispatcherInv
<1> QED
  BY <1>2, <1>3, <1>4 DEF Dispatch

-----------------------------------------------------------------------------
LEMMA TestRelayInv ==
  ASSUME DispatcherInv, NEW c \in Calls, TestRelay(c)
  PROVE  DispatcherInv'
<1> USE DEF HoldsKey
<1>1. /\ cpc[c] = "idle" /\ path[c] = "relay"
      /\ stamp' = [stamp EXCEPT ![c] = 0]
      /\ UNCHANGED <<path, active, reach, recentDispatches, todo, observed>>
  BY DEF TestRelay
<1>2. PICK pc \in {"done", "resolve"} : Goto(c, pc)
  BY DEF TestRelay
<1>3. \A d \in Calls : /\ cpc'[d] = IF d = c THEN pc ELSE cpc[d]
                       /\ stamp'[d] = IF d = c THEN 0 ELSE stamp[d]
  BY <1>1, <1>2, GotoOnly DEF DispatcherInv, DispatcherTypeOK, DispatchPc
<1>4. DispatcherTypeOK'
  BY <1>1, <1>2, GotoType, Ages
     DEF DispatcherInv, DispatcherTypeOK, DispatchPc, observed
<1>5. PathOfPlace' /\ OneHolder' /\ OncePerWindow' /\ KeyOfServed'
  BY <1>1, <1>3
     DEF DispatcherInv, PathOfPlace, OneHolder, OncePerWindow, KeyOfServed, observed
<1>6. KeyMeansMessage'
  BY <1>1, <1>3 DEF DispatcherInv, KeyMeansMessage, InProgress, observed
<1>7. KeyOfHolder' /\ Resolving'
  BY <1>1, <1>3, Ages DEF DispatcherInv, KeyOfHolder, Resolving, observed
<1> QED
  BY <1>4, <1>5, <1>6, <1>7 DEF DispatcherInv

(* The relay sets its key late; the path is excused if somebody else's key  *)
(* was there already.                                                       *)
LEMMA ResolveInv ==
  ASSUME DispatcherInv, NEW c \in Calls, Resolve(c)
  PROVE  DispatcherInv'
<1> USE DEF HoldsKey
<1>0. /\ cpc[c] = "resolve"
      /\ UNCHANGED <<path, active, reach, stamp, todo, errors, served, doubled>>
  BY DEF Resolve
<1>1. path[c] = "relay" /\ {"relay", "dispatch"} \subseteq Paths
  BY <1>0 DEF DispatcherInv, PathOfPlace, Paths
<1>2. CASE active = {}
  <2>1. Goto(c, "done") /\ UNCHANGED <<recentDispatches, excused>>
    BY <1>2 DEF Resolve
  <2>2. DispatcherTypeOK'
    BY <1>0, <2>1, GotoType DEF DispatcherInv, DispatcherTypeOK, DispatchPc
  <2> QED
    BY <1>0, <2>1, <2>2, QuietInv DEF InProgress, DispatchPc
<1>3. CASE active # {}
  <2>1. /\ recentDispatches' = [recentDispatches EXCEPT !["relay"] = stamp[c]]
        /\ excused' = IF recentDispatches["relay"] # NoKey
                        THEN excused \union {"relay"} ELSE excused
        /\ Goto(c, "build")
    BY <1>3 DEF Resolve
  <2>2. /\ \A d \in Calls : cpc'[d] = IF d = c THEN "build" ELSE cpc[d]
        /\ \A p \in Paths : recentDispatches'[p] =
                              IF p = "relay" THEN stamp[c] ELSE recentDispatches[p]
    BY <2>1, GotoOnly DEF DispatcherInv, DispatcherTypeOK, DispatchPc
  <2>3. stamp[c] \in 0..NoKey
    BY Ages DEF DispatcherInv, DispatcherTypeOK
  <2>4. DispatcherTypeOK'
    BY <1>0, <1>1, <2>1, <2>3, GotoType
       DEF DispatcherInv, DispatcherTypeOK, DispatchPc
  <2>5. /\ excused \subseteq excused'
        /\ \A p \in Paths \ {"relay"} : p \in excused' => p \in excused
    BY <2>1
  <2>6. "relay" \notin excused' =>
          /\ served["relay"] = {} /\ stamp[c] <= Window
          /\ \A d \in Calls : path[d] = "relay" => ~HoldsKey(d)
    <3> SUFFICES ASSUME "relay" \notin excused'
                 PROVE  /\ served["relay"] = {} /\ stamp[c] <= Window
                        /\ \A d \in Calls : path[d] = "relay" => ~HoldsKey(d)
      OBVIOUS
    <3>1. recentDispatches["relay"] = NoKey /\ "relay" \notin excused
      BY <2>1
    <3> QED
      BY <3>1, <1>0, <1>1, Ages
         DEF DispatcherInv, KeyOfServed, KeyOfHolder, Resolving
  <2>7. PathOfPlace' /\ OncePerWindow' /\ Resolving'
    BY <1>0, <1>1, <2>2, <2>5
       DEF DispatcherInv, PathOfPlace, OncePerWindow, Resolving
  <2>8. KeyMeansMessage'
    BY <1>0, <1>1, <2>2 DEF DispatcherInv, KeyMeansMessage, InProgress
  <2>9. KeyOfHolder'
    BY <1>0, <1>1, <2>2, <2>5, <2>6, PathType DEF DispatcherInv, KeyOfHolder
  <2>10. OneHolder'
    BY <1>0, <1>1, <2>2, <2>5, <2>6 DEF DispatcherInv, OneHolder
  <2>11. KeyOfServed'
    BY <1>0, <2>2, <2>5, <2>6 DEF DispatcherInv, KeyOfServed
  <2> QED
    BY <2>4, <2>7, <2>8, <2>9, <2>10, <2>11 DEF DispatcherInv
<1> QED
  BY <1>2, <1>3

(* One template of the relay: only the first one sent is counted. *)
LEMMA RelayOneInv ==
  ASSUME DispatcherInv, NEW c \in Calls, RelayOne(c)
  PROVE  DispatcherInv'
<1> USE DEF HoldsKey
<1>0. /\ cpc[c] \in {"loop", "more"}
      /\ UNCHANGED <<path, active, reach, recentDispatches, stamp, excused>>
  BY DEF RelayOne
<1>1. todo' \in [Calls -> SUBSET Templates]
  BY DEF RelayOne, DispatcherInv, DispatcherTypeOK
<1>2. path[c] = "relay" /\ {"relay", "dispatch"} \subseteq Paths
  BY <1>0 DEF DispatcherInv, PathOfPlace, Paths
<1>3. CASE Goto(c, "more") /\ UNCHANGED <<errors, served, doubled>> /\ cpc[c] = "more"
  <2>1. \A d \in Calls : cpc'[d] = cpc[d]
    BY <1>3, GotoOnly DEF DispatcherInv, DispatchPc
  <2>2. DispatcherTypeOK'
    BY <1>0, <1>1, <1>3, GotoType DEF DispatcherInv, DispatcherTypeOK, DispatchPc
  <2>3. PathOfPlace' /\ KeyOfHolder' /\ OneHolder' /\ Resolving'
    BY <1>0, <1>3, <2>1
       DEF DispatcherInv, PathOfPlace, KeyOfHolder, OneHolder, Resolving
  <2>4. KeyMeansMessage' /\ KeyOfServed' /\ OncePerWindow'
    BY <1>0, <1>3, <2>1
       DEF DispatcherInv, KeyMeansMessage, KeyOfServed, OncePerWindow, InProgress
  <2> QED
    BY <2>2, <2>3, <2>4 DEF DispatcherInv
<1>4. CASE /\ Goto(c, "more") /\ UNCHANGED errors
           /\ cpc[c] = "loop" /\ Serve("relay", stamp[c])
  <2>1. \A d \in Calls : cpc'[d] = IF d = c THEN "more" ELSE cpc[d]
    BY <1>4, GotoOnly DEF DispatcherInv, DispatchPc
  <2>2. /\ "relay" \notin excused =>
             /\ doubled' \subseteq excused /\ stamp[c] <= Window
             /\ served'["relay"] = {stamp[c]}
             /\ recentDispatches["relay"] = stamp[c]
             /\ \A d \in Calls : path[d] = "relay" /\ d # c => ~HoldsKey(d)
        /\ doubled' \subseteq excused \union {"relay"}
        /\ served' \in [Paths -> SUBSET (0..Window)] /\ doubled' \subseteq Paths
        /\ \A q \in Paths \ {"relay"} : served'[q] = served[q]
    <3>1. HoldsKey(c) /\ cpc[c] # "more" /\ Serve(path[c], stamp[c])
      BY <1>2, <1>4
    <3>2. "relay" \notin excused =>
             /\ recentDispatches["relay"] = stamp[c]
             /\ \A d \in Calls : path[d] = "relay" /\ d # c => ~HoldsKey(d)
      BY <3>1, <1>2 DEF DispatcherInv, KeyOfHolder, OneHolder
    <3> QED
      BY <3>1, <3>2, <1>2, ServeOnce
  <2>3. DispatcherTypeOK'
    BY <1>0, <1>1, <1>4, <2>2, GotoType DEF DispatcherInv, DispatcherTypeOK, DispatchPc
  <2>4. PathOfPlace' /\ Resolving' /\ OneHolder' /\ OncePerWindow'
    BY <1>0, <1>2, <1>4, <2>1, <2>2
       DEF DispatcherInv, PathOfPlace, Resolving, OneHolder, OncePerWindow
  <2>5. KeyMeansMessage'
    BY <1>0, <1>2, <1>4, <2>1, <2>2 DEF DispatcherInv, KeyMeansMessage, InProgress
  <2>6. KeyOfHolder'
    BY <1>0, <1>2, <1>4, <2>1, <2>2, PathType DEF DispatcherInv, KeyOfHolder
  <2>7. KeyOfServed'
    BY <1>0, <1>2, <2>2, Ages DEF DispatcherInv, KeyOfServed, DispatcherTypeOK
  <2> QED
    BY <2>3, <2>4, <2>5, <2>6, <2>7 DEF DispatcherInv
<1>5. CASE Err /\ UNCHANGED <<cpc, served, doubled>>
  <2>1. DispatcherTypeOK'
    BY <1>0, <1>1, <1>5, ErrType DEF DispatcherInv, DispatcherTypeOK
  <2>2. PathOfPlace' /\ KeyOfHolder' /\ OneHolder' /\ Resolving'
    BY <1>0, <1>5 DEF DispatcherInv, PathOfPlace, KeyOfHolder, OneHolder, Resolving
  <2>3. KeyMeansMessage' /\ KeyOfServed' /\ OncePerWindow'
    BY <1>0, <1>5
       DEF DispatcherInv, KeyMeansMessage, KeyOfServed, OncePerWindow, InProgress
  <2> QED
    BY <2>1, <2>2, <2>3 DEF DispatcherInv
<1> QED
  BY <1>0, <1>3, <1>4, <1>5 DEF RelayOne

LEMMA RelayOtpInv ==
  ASSUME DispatcherInv, NEW c \in Calls, RelayOtp(c)
  PROVE  DispatcherInv'
<1> USE DEF HoldsKey
<1>0. /\ cpc[c] = "idle" /\ path[c] = "otp" /\ Goto(c, "done")
      /\ UNCHANGED <<path, active, reach, stamp, todo, excused>>
  BY DEF RelayOtp
<1>1. CASE Fresh("otp")
  <2>1. UNCHANGED <<recentDispatches, errors, served, doubled>>
    BY <1>1 DEF RelayOtp
  <2>2. DispatcherTypeOK'
    BY <1>0, <2>1, GotoType DEF DispatcherInv, DispatcherTypeOK, DispatchPc
  <2> QED
    BY <1>0, <2>1, <2>2, QuietInv DEF InProgress, DispatchPc
<1>2. CASE ~Fresh("otp")
  <2>1. /\ recentDispatches' = [recentDispatches EXCEPT !["otp"] = 0]
        /\ recentDispatches["otp"] = NoKey
        /\ "otp" \in Paths /\ "dispatch" \in Paths
    BY <1>2 DEF RelayOtp, Fresh, Paths
  <2>2. /\ \A d \in Calls : cpc'[d] = IF d = c THEN "done" ELSE cpc[d]
        /\ \A p \in Paths : recentDispatches'[p] =
                              IF p = "otp" THEN 0 ELSE recentDispatches[p]
    BY <1>0, <2>1, GotoOnly DEF DispatcherInv, DispatcherTypeOK, DispatchPc
  <2>3. "otp" \notin excused => served["otp"] = {}
    BY <2>1 DEF DispatcherInv, KeyOfServed
  <2>4. /\ errors' \in 0..MaxErrors
        /\ served' \in [Paths -> SUBSET (0..Window)] /\ doubled' \subseteq Paths
        /\ \A q \in Paths \ {"otp"} : served'[q] = served[q]
        /\ served'["otp"] \subseteq served["otp"] \union {0}
        /\ served["otp"] = {} => doubled' = doubled
        /\ doubled' \subseteq doubled \union {"otp"}
    <3>1. CASE Serve("otp", 0) /\ UNCHANGED errors
      BY <3>1, <2>1, Ages, ServeFacts DEF DispatcherInv, DispatcherTypeOK
    <3>2. CASE Err /\ UNCHANGED <<served, doubled>>
      BY <3>2, ErrType DEF DispatcherInv, DispatcherTypeOK
    <3> QED
      BY <1>2, <3>1, <3>2 DEF RelayOtp
  <2>5. DispatcherTypeOK'
    BY <1>0, <2>1, <2>4, GotoType, Ages DEF DispatcherInv, DispatcherTypeOK, DispatchPc
  <2>6. PathOfPlace' /\ Resolving' /\ OneHolder' /\ OncePerWindow'
    BY <1>0, <2>2, <2>3, <2>4
       DEF DispatcherInv, PathOfPlace, Resolving, OneHolder, OncePerWindow
  <2>7. KeyMeansMessage'
    BY <1>0, <2>1, <2>2, <2>4 DEF DispatcherInv, KeyMeansMessage, InProgress
  <2>8. KeyOfHolder'
    <3> SUFFICES ASSUME NEW d \in Calls, HoldsKey(d)', path[d] \notin excused
                 PROVE  /\ stamp[d] <= Window /\ recentDispatches'[path[d]] = stamp[d]
                        /\ cpc'[d] # "more" => served'[path[d]] = {}
      BY <1>0 DEF KeyOfHolder
    <3>1. d # c /\ cpc'[d] = cpc[d] /\ path[d] \in Paths \ {"otp"}
      BY <2>2, PathType DEF DispatcherInv, PathOfPlace
    <3> QED
      BY <3>1, <2>2, <2>4 DEF DispatcherInv, KeyOfHolder
  <2>9. KeyOfServed'
    BY <1>0, <2>2, <2>3, <2>4, Ages DEF DispatcherInv, KeyOfServed
  <2> QED
    BY <2>5, <2>6, <2>7, <2>8, <2>9 DEF DispatcherInv
<1> QED
  BY <1>1, <1>2

LEMMA QuietSteps ==
  ASSUME DispatcherInv, NEW c \in Calls,
         Diagnose(c) \/ Choose(c) \/ BuildVariables(c) \/ EndRelay(c) \/ RelayFails(c)
  PROVE  DispatcherInv'
<1>1. CASE Diagnose(c)
  <2>1. PICK pc \in {"claim", "done"} : Goto(c, pc)
    BY <1>1 DEF Diagnose
  <2>2. DispatcherTypeOK'
    BY <1>1, <2>1, GotoType, ErrType
       DEF Diagnose, DispatcherInv, DispatcherTypeOK, DispatchPc
  <2> QED
    BY <1>1, <2>1, <2>2, QuietInv DEF Diagnose, InProgress, DispatchPc
<1>2. CASE Choose(c)
  <2>1. Goto(c, "send") /\ todo' \in [Calls -> SUBSET Templates]
    BY <1>2 DEF Choose, DispatcherInv, DispatcherTypeOK
  <2>2. DispatcherTypeOK'
    BY <1>2, <2>1, GotoType
       DEF Choose, DispatcherInv, DispatcherTypeOK, DispatchPc, observed
  <2> QED
    BY <1>2, <2>1, <2>2, QuietInv DEF Choose, DispatchPc, observed
<1>3. CASE BuildVariables(c)
  <2>1. Goto(c, "loop") /\ todo' \in [Calls -> SUBSET Templates]
    BY <1>3 DEF BuildVariables, Relayed, DispatcherInv, DispatcherTypeOK
  <2>2. DispatcherTypeOK'
    BY <1>3, <2>1, GotoType
       DEF BuildVariables, DispatcherInv, DispatcherTypeOK, DispatchPc, observed
  <2> QED
    BY <1>3, <2>1, <2>2, QuietInv DEF BuildVariables, DispatchPc, observed
<1>4. CASE EndRelay(c)
  <2>1. DispatcherTypeOK'
    BY <1>4, GotoType
       DEF EndRelay, DispatcherInv, DispatcherTypeOK, DispatchPc, observed
  <2> QED
    BY <1>4, <2>1, QuietInv DEF EndRelay, InProgress, DispatchPc, observed
<1>5. CASE RelayFails(c)
  <2>1. DispatcherTypeOK'
    BY <1>5, GotoType, ErrType
       DEF RelayFails, DispatcherInv, DispatcherTypeOK, DispatchPc
  <2> QED
    BY <1>5, <2>1, QuietInv DEF RelayFails, InProgress, DispatchPc
<1> QED
  BY <1>1, <1>2, <1>3, <1>4, <1>5

LEMMA GiveUpInv ==
  ASSUME DispatcherInv, NEW c \in Calls, GiveUp(c)
  PROVE  DispatcherInv'
<1>1. InProgress(c) /\ Release(c) /\ errors' \in 0..MaxErrors
  BY ErrType DEF GiveUp, InProgress, DispatcherInv, DispatcherTypeOK
<1>2. /\ UNCHANGED <<path, active, reach, stamp, served, doubled, excused>>
      /\ todo' \in [Calls -> SUBSET Templates]
  BY DEF GiveUp, DispatcherInv, DispatcherTypeOK
<1> QED
  BY <1>1, <1>2, ReleaseInv

-----------------------------------------------------------------------------
(* A key, its holder and the calls it stands for grow old together; when a  *)
(* holder outlives the window its path is excused.                          *)
LEMMA DispatcherTickInv ==
  ASSUME DispatcherInv, DispatcherTick
  PROVE  DispatcherInv'
<1> USE DEF HoldsKey
<1>1. /\ UNCHANGED <<path, active, reach, cpc, todo, errors, doubled>>
      /\ \A p \in Paths : /\ recentDispatches'[p] = Older(recentDispatches[p])
                          /\ served'[p] = {age + 1 : age \in served[p] \ {Window}}
      /\ \A d \in Calls : stamp'[d] = IF cpc[d] \in {"idle", "done"} THEN stamp[d]
                                                                ELSE Older(stamp[d])
      /\ excused \subseteq excused'
  BY DEF DispatcherTick
<1>2. \A d \in Calls : /\ cpc[d] \notin {"idle", "claim", "done"} /\ stamp[d] = Window
                          => path[d] \in excused'
  BY DEF DispatcherTick
<1>3. \A age \in 0..Old : /\ Older(age) \in 0..Old
                          /\ age <= Window => Older(age) = age + 1
                          /\ Older(age) # Old => Older(age) = age + 1 /\ age < Window
  BY Ages DEF Older
<1>4. /\ \A p \in Paths : recentDispatches[p] \in 0..Old /\ served[p] \subseteq 0..Window
      /\ \A d \in Calls : stamp[d] \in 0..Old
  BY DEF DispatcherInv, DispatcherTypeOK, NoKey, Old
<1>5. DispatcherTypeOK'
  <2>1. recentDispatches' \in [Paths -> 0..NoKey]
    BY <1>3, <1>4 DEF DispatcherTick, NoKey, Old
  <2>2. stamp' \in [Calls -> 0..Old]
    BY <1>3, <1>4 DEF DispatcherTick
  <2>3. served' \in [Paths -> SUBSET (0..Window)]
    <3>1. \A p \in Paths : {age + 1 : age \in served[p] \ {Window}} \subseteq 0..Window
      BY <1>4, Ages
    <3> QED
      BY <3>1 DEF DispatcherTick
  <2>4. excused' \subseteq Paths
    BY PathType DEF DispatcherTick, DispatcherInv, DispatcherTypeOK
  <2> QED
    BY <1>1, <2>1, <2>2, <2>3, <2>4 DEF DispatcherInv, DispatcherTypeOK
<1>6. PathOfPlace' /\ OneHolder' /\ OncePerWindow'
  BY <1>1 DEF DispatcherInv, PathOfPlace, OneHolder, OncePerWindow
<1>7. KeyMeansMessage'
  <2>1. "dispatch" \in Paths
    BY DEF Paths
  <2> DEFINE key == recentDispatches["dispatch"]
  <2> SUFFICES ASSUME recentDispatches'["dispatch"] # NoKey
               PROVE  \/ recentDispatches'["dispatch"] \in served'["dispatch"]
                      \/ \E d \in Calls : /\ InProgress(d)'
                                          /\ stamp'[d] = recentDispatches'["dispatch"]
    BY DEF KeyMeansMessage
  <2>2. /\ key \in 0..Old /\ recentDispatches'["dispatch"] = key + 1
        /\ Older(key) = key + 1 /\ key < Window
    BY <2>1, <1>1, <1>3, <1>4 DEF NoKey, Old
  <2>3. key # NoKey
    BY <2>2, Ages
  <2>4. CASE key \in served["dispatch"]
    BY <2>1, <2>2, <2>4, <1>1, Ages
  <2>5. CASE \E d \in Calls : InProgress(d) /\ stamp[d] = key
    <3>1. PICK d \in Calls : InProgress(d) /\ stamp[d] = key
      BY <2>5
    <3>2. InProgress(d)' /\ stamp'[d] = Older(key)
      BY <3>1, <1>1 DEF InProgress
    <3> QED
      BY <3>2, <2>2
  <2> QED
    BY <2>3, <2>4, <2>5 DEF DispatcherInv, KeyMeansMessage
<1>8. KeyOfHolder'
  <2> SUFFICES ASSUME NEW d \in Calls, HoldsKey(d), path[d] \notin excused'
               PROVE  /\ stamp'[d] <= Window /\ recentDispatches'[path[d]] = stamp'[d]
                      /\ cpc[d] # "more" => served'[path[d]] = {}
    BY <1>1 DEF KeyOfHolder
  <2>1. /\ stamp[d] \in 0..Old /\ stamp[d] <= Window /\ recentDispatches[path[d]] = stamp[d]
        /\ cpc[d] # "more" => served[path[d]] = {}
        /\ path[d] \in Paths /\ stamp'[d] = Older(stamp[d])
    BY <1>1, <1>4, PathType DEF DispatcherInv, KeyOfHolder
  <2>2. stamp[d] # Window
    BY <1>2
  <2>3. stamp'[d] = stamp[d] + 1 /\ stamp[d] + 1 <= Window
    BY <1>3, <2>1, <2>2, Ages
  <2> QED
    BY <1>1, <2>1, <2>3
<1>9. KeyOfServed'
  <2> SUFFICES ASSUME NEW p \in Paths \ excused', NEW a \in served'[p]
               PROVE  a = recentDispatches'[p] /\ a # NoKey
    BY DEF KeyOfServed
  <2>1. PICK age \in served[p] \ {Window} : a = age + 1
    BY <1>1
  <2>2. age = recentDispatches[p] /\ age \in 0..Window
    BY <1>1, <1>4 DEF DispatcherInv, KeyOfServed
  <2> QED
    BY <1>1, <1>3, <1>4, <2>1, <2>2, Ages
<1>10. Resolving'
  <2> SUFFICES ASSUME NEW d \in Calls, cpc[d] = "resolve", path[d] \notin excused'
               PROVE  stamp'[d] <= Window
    BY <1>1 DEF Resolving
  <2>1. stamp[d] \in 0..Old /\ stamp[d] <= Window /\ stamp'[d] = Older(stamp[d])
    BY <1>1, <1>4 DEF DispatcherInv, Resolving
  <2>2. stamp[d] # Window
    BY <1>2
  <2> QED
    BY <1>3, <2>1, <2>2, Ages
<1> QED
  BY <1>5, <1>6, <1>7, <1>8, <1>9, <1>10 DEF DispatcherInv

LEMMA DispatcherRestartInv ==
  ASSUME DispatcherInv, Restart
  PROVE  DispatcherInv'
<1>1. /\ \A p \in Paths : recentDispatches'[p] = NoKey
      /\ \A d \in Calls : cpc'[d] \in {"idle", "done"}
      /\ excused' = Paths /\ UNCHANGED <<path, active, reach, stamp, todo, served, doubled>>
  BY DEF Restart
<1>2. DispatcherTypeOK'
  <2>1. recentDispatches' \in [Paths -> 0..NoKey]
    BY Ages DEF Restart
  <2>2. cpc' \in [Calls -> DispatchPc]
    BY DEF Restart, DispatchPc
  <2> QED
    BY <1>1, <2>1, <2>2, ErrType DEF Restart, DispatcherInv, DispatcherTypeOK
<1>3. PathOfPlace' /\ KeyOfHolder' /\ OneHolder' /\ Resolving'
  BY <1>1 DEF PathOfPlace, KeyOfHolder, OneHolder, Resolving, HoldsKey
<1>4. KeyMeansMessage' /\ KeyOfServed' /\ OncePerWindow'
  BY <1>1, <1>2 DEF KeyMeansMessage, KeyOfServed, OncePerWindow, Paths, DispatcherTypeOK
<1> QED
  BY <1>2, <1>3, <1>4 DEF DispatcherInv

LEMMA DispatcherStutterInv ==
  DispatcherInv /\ UNCHANGED dispatcherVars => DispatcherInv'
BY DEF DispatcherInv, DispatcherTypeOK, PathOfPlace, KeyMeansMessage, KeyOfHolder,
       OneHolder, KeyOfServed, Resolving, OncePerWindow, HoldsKey, InProgress,
       dispatcherVars

LEMMA DispatcherStepInv ==
  DispatcherInv /\ [DispatcherNext]_dispatcherVars => DispatcherInv'
<1> SUFFICES ASSUME DispatcherInv, [DispatcherNext]_dispatcherVars
             PROVE  DispatcherInv'
  OBVIOUS
<1>1. ASSUME NEW c \in Calls,
             \/ Diagnose(c) \/ Claim(c) \/ GiveUp(c) \/ Choose(c)
             \/ Dispatch(c) \/ TestRelay(c) \/ Resolve(c)
             \/ BuildVariables(c) \/ RelayOne(c) \/ EndRelay(c)
             \/ RelayFails(c) \/ RelayOtp(c)
      PROVE  DispatcherInv'
  <2>1. CASE Claim(c)
    BY <2>1, ClaimInv
  <2>2. CASE GiveUp(c)
    BY <2>2, GiveUpInv
  <2>3. CASE Dispatch(c)
    BY <2>3, DispatchInv
  <2>4. CASE TestRelay(c)
    BY <2>4, TestRelayInv
  <2>5. CASE Resolve(c)
    BY <2>5, ResolveInv
  <2>6. CASE RelayOne(c)
    BY <2>6, RelayOneInv
  <2>7. CASE RelayOtp(c)
    BY <2>7, RelayOtpInv
  <2> QED
    BY <1>1, <2>1, <2>2, <2>3, <2>4, <2>5, <2>6, <2>7, QuietSteps
<1>2. CASE DispatcherTick
  BY <1>2, DispatcherTickInv
<1>3. CASE Restart
  BY <1>3, DispatcherRestartInv
<1>4. CASE UNCHANGED dispatcherVars
  BY <1>4, DispatcherStutterInv
<1> QED
  BY <1>1, <1>2, <1>3, <1>4 DEF DispatcherNext

LEMMA DispatcherSafe == DispatcherSpec => []DispatcherInv
BY DispatcherInitInv, DispatcherStepInv, PTL DEF DispatcherSpec

-----------------------------------------------------------------------------
(* Every variable of the dispatcher keeps its type, for any set of calls    *)
(* and templates and any window.                                            *)
THEOREM DispatcherTypeCorrect == DispatcherSpec => []DispatcherTypeOK
<1>1. DispatcherInv => DispatcherTypeOK
  BY DEF DispatcherInv
<1> QED
  BY <1>1, DispatcherSafe, PTL

(* A key of dispatch stands for a call under way or for a customer reached  *)
(* at that time: no failed call keeps the next event away.                  *)
THEOREM KeyStandsForMessage == DispatcherSpec => []KeyMeansMessage
<1>1. DispatcherInv => KeyMeansMessage
  BY DEF DispatcherInv
<1> QED
  BY <1>1, DispatcherSafe, PTL

(* Whatever the interleaving of the calls and however many there are, two   *)
(* of them reach the customer within one window only on a path excused.     *)
THEOREM ReachedOncePerWindow == DispatcherSpec => []OncePerWindow
<1>1. DispatcherInv => OncePerWindow
  BY DEF DispatcherInv
<1> QED
  BY <1>1, DispatcherSafe, PTL

-----------------------------------------------------------------------------
(* EmployeeNotifications: a job is queued once, and what its place says.    *)

(* The rules a delivery has left and the targets of the one it works on are *)
(* apart, and have no jobs yet.                                             *)
QueuedOnce ==
    \A d \in Deliveries :
      /\ npc[d] \in {"new", "find"} =>
           /\ rulesLeft[d] = {} /\ toNotify[d] = {}
           /\ \A t \in Targets : job[<<d, t>>] = "none"
      /\ \A t \in Targets : RuleOf[t] \in rulesLeft[d] \/ t \in toNotify[d]
                              => job[<<d, t>>] = "none"
      /\ \A t \in toNotify[d] : RuleOf[t] \notin rulesLeft[d]

(* A stalled job has one more try than it has attempts. *)
Spare(n) == IF n \in stalled THEN 1 ELSE 0

(* What went out for a note, and what its attempts allow. *)
Counted(n) ==
    /\ unheard[n] <= texted[n]
    /\ job[n] = "none" => texted[n] = 0 /\ tries[n] = 0
    /\ job[n] \in {"waiting", "sending"} =>
         tries[n] < Attempts /\ texted[n] <= tries[n] + Spare(n)
    /\ job[n] \in {"sent", "failing"} =>
         tries[n] < Attempts /\ texted[n] <= tries[n] + 1 + Spare(n)

(* The messages of a note that its process knows of. *)
Confirmed(n) == texted[n] - unheard[n]

Truth(n) == /\ row[n] = "SENT" => Confirmed(n) = 1 \/ Kind[n[2]] = "short"
            /\ row[n] = "FAILED" => Confirmed(n) = 0
            /\ row[n] \notin {"PENDING", "absent"}
            /\ Confirmed(n) <= 1 /\ texted[n] <= Attempts

Told(n) ==
    /\ job[n] # "none" => row[n] # "absent"
    /\ Kind[n[2]] = "dashboard" => /\ row[n] \in {"absent", "DELIVERED", "READ"}
                                   /\ job[n] \notin {"sent", "failing"}
    /\ n \in stalled => n \in marred
    /\ n \notin marred =>
         /\ job[n] \in {"waiting", "sending", "failing"} => texted[n] = unheard[n]
         /\ job[n] = "sent" => \/ Kind[n[2]] = "external" /\ texted[n] = unheard[n] + 1
                               \/ Kind[n[2]] = "short" /\ texted[n] = unheard[n]
         /\ job[n] = "over" => Truth(n)

NotesInv == /\ NotificationsTypeOK /\ QueuedOnce
            /\ \A n \in Notes : Counted(n) /\ Told(n)

-----------------------------------------------------------------------------
LEMMA NoteBounds ==
                /\ Attempts \in Nat \ {0} /\ MaxSlips \in Nat /\ MaxReads \in Nat
                /\ NotifyWindow \in Nat \ {0} /\ NotSeen = NotifyWindow
                /\ RuleOf \in [Targets -> Rules] /\ Kind \in [Targets -> Kinds]
BY NotificationsAssumption DEF NotificationsAssumption, NotSeen

LEMMA NoteParts == /\ \A n \in Notes : /\ n[1] \in Deliveries /\ n[2] \in Targets
                                       /\ n = <<n[1], n[2]>>
                   /\ \A d \in Deliveries, t \in Targets : <<d, t>> \in Notes
BY DEF Notes

LEMMA NotesInitInv == NotificationsInit => NotesInv
<1> SUFFICES ASSUME NotificationsInit PROVE NotesInv
  OBVIOUS
<1>1. NotificationsTypeOK
  BY NoteBounds DEF NotificationsInit, NotificationsTypeOK, Statuses, Jobs
<1>2. \A n \in Notes : job[n] = "none" /\ row[n] = "absent"
                        /\ texted[n] = 0 /\ unheard[n] = 0
                        /\ tries[n] = 0 /\ n \notin stalled
  BY DEF NotificationsInit
<1>3. QueuedOnce
  BY <1>2, NoteParts DEF NotificationsInit, QueuedOnce
<1>4. \A n \in Notes : Counted(n) /\ Told(n)
  BY <1>2 DEF Counted, Told
<1> QED
  BY <1>1, <1>3, <1>4 DEF NotesInv

LEMMA SlipType == NotificationsTypeOK /\ Slip => slips' \in 0..MaxSlips
BY NoteBounds DEF NotificationsTypeOK, Slip

-----------------------------------------------------------------------------
(* A step of one note's job leaves the deliveries and the other notes alone.*)
LEMMA OneNoteInv ==
  ASSUME NotesInv, NEW n \in Notes, NotificationsTypeOK',
         UNCHANGED <<npc, rulesLeft, toNotify>>,
         job[n] = "none" => job'[n] = "none",
         \A m \in Notes \ {n} : /\ row'[m] = row[m] /\ job'[m] = job[m]
                                /\ tries'[m] = tries[m] /\ texted'[m] = texted[m]
                                /\ unheard'[m] = unheard[m],
         UNCHANGED stalled, marred' \subseteq marred \union {n}, marred \subseteq marred',
         Counted(n)', Told(n)'
  PROVE  NotesInv'
<1>1. \A m \in Notes : job[m] = "none" => job'[m] = "none"
  OBVIOUS
<1>2. QueuedOnce'
  BY <1>1, NoteParts DEF NotesInv, QueuedOnce, NotificationsTypeOK
<1>3. \A m \in Notes \ {n} : Counted(m)' /\ Told(m)'
  BY DEF NotesInv, Counted, Told, Truth, Spare, Confirmed
<1> QED
  BY <1>2, <1>3 DEF NotesInv

LEMMA BeginSendInv ==
  ASSUME NotesInv, NEW n \in Notes, BeginSend(n)
  PROVE  NotesInv'
<1>1. /\ job[n] = "waiting" /\ job' = [job EXCEPT ![n] = "sending"]
      /\ UNCHANGED <<enabled, recentEvents, npc, rulesLeft, rule, toNotify, row, tries,
                     stalled, texted, unheard, orphan, marred, slips, reads>>
  BY DEF BeginSend
<1>2. NotificationsTypeOK'
  BY <1>1 DEF NotesInv, NotificationsTypeOK, Jobs
<1>3. /\ job'[n] = "sending" /\ \A m \in Notes \ {n} : job'[m] = job[m]
  BY <1>1 DEF NotesInv, NotificationsTypeOK
<1>4. Counted(n)' /\ Told(n)'
  BY <1>1, <1>3 DEF NotesInv, Counted, Told, Spare
<1> QED
  BY <1>1, <1>2, <1>3, <1>4, OneNoteInv

(* What a job under way knows of itself. *)
SendFacts(n) ==
    /\ tries[n] < Attempts /\ texted[n] <= tries[n] + Spare(n) /\ tries[n] \in Nat
    /\ texted[n] \in Nat /\ unheard[n] \in Nat /\ unheard[n] <= texted[n]
    /\ Spare(n) \in 0..1 /\ row[n] # "absent" /\ Attempts \in Nat
    /\ n \in stalled => n \in marred
    /\ n \notin marred => texted[n] = unheard[n] /\ Spare(n) = 0
    /\ Kind[n[2]] = "dashboard" => row[n] \in {"DELIVERED", "READ"}

LEMMA SendExternalInv ==
  ASSUME NotesInv, NEW n \in Notes, job[n] = "sending", SendFacts(n), SendExternal(n),
         UNCHANGED <<enabled, recentEvents, npc, rulesLeft, rule, toNotify, tries, stalled,
                     orphan, reads>>
  PROVE  NotesInv'
<1>1. Kind[n[2]] = "external" /\ UNCHANGED <<row, marred>>
  BY DEF SendExternal
<1>2. CASE /\ texted' = [texted EXCEPT ![n] = texted[n] + 1]
           /\ job' = [job EXCEPT ![n] = "sent"] /\ UNCHANGED <<unheard, slips>>
  <2>1. /\ job'[n] = "sent" /\ texted'[n] = texted[n] + 1
        /\ \A m \in Notes \ {n} : job'[m] = job[m] /\ texted'[m] = texted[m]
    BY <1>2 DEF NotesInv, NotificationsTypeOK
  <2>2. NotificationsTypeOK'
    BY <1>1, <1>2 DEF SendFacts, NotesInv, NotificationsTypeOK, Jobs
  <2>3. Counted(n)' /\ Told(n)'
    BY <1>1, <1>2, <2>1 DEF SendFacts, Counted, Told, Spare
  <2> QED
    BY <1>1, <1>2, <2>1, <2>2, <2>3, OneNoteInv
<1>3. CASE job' = [job EXCEPT ![n] = "failing"] /\ UNCHANGED <<texted, unheard, slips>>
  <2>1. /\ job'[n] = "failing" /\ \A m \in Notes \ {n} : job'[m] = job[m]
    BY <1>3 DEF NotesInv, NotificationsTypeOK
  <2>2. NotificationsTypeOK'
    BY <1>1, <1>3 DEF NotesInv, NotificationsTypeOK, Jobs
  <2>3. Counted(n)' /\ Told(n)'
    BY <1>1, <1>3, <2>1 DEF SendFacts, Counted, Told, Spare
  <2> QED
    BY <1>1, <1>3, <2>1, <2>2, <2>3, OneNoteInv
<1>4. CASE /\ Slip /\ texted' = [texted EXCEPT ![n] = texted[n] + 1]
           /\ unheard' = [unheard EXCEPT ![n] = unheard[n] + 1]
           /\ job' = [job EXCEPT ![n] = "failing"]
  <2>1. /\ job'[n] = "failing" /\ texted'[n] = texted[n] + 1
        /\ unheard'[n] = unheard[n] + 1
        /\ \A m \in Notes \ {n} : /\ job'[m] = job[m] /\ texted'[m] = texted[m]
                                  /\ unheard'[m] = unheard[m]
    BY <1>4 DEF NotesInv, NotificationsTypeOK
  <2>2. NotificationsTypeOK'
    BY <1>1, <1>4, SlipType DEF SendFacts, NotesInv, NotificationsTypeOK, Jobs
  <2>3. Counted(n)' /\ Told(n)'
    BY <1>1, <1>4, <2>1 DEF SendFacts, Counted, Told, Spare
  <2> QED
    BY <1>1, <1>4, <2>1, <2>2, <2>3, OneNoteInv
<1> QED
  BY <1>2, <1>3, <1>4 DEF SendExternal

LEMMA RefuseShortPhoneInv ==
  ASSUME NotesInv, NEW n \in Notes, job[n] = "sending", SendFacts(n), RefuseShortPhone(n),
         UNCHANGED <<enabled, recentEvents, npc, rulesLeft, rule, toNotify, tries, stalled,
                     orphan, reads>>
  PROVE  NotesInv'
<1>1. Kind[n[2]] = "short" /\ UNCHANGED <<texted, unheard>>
  BY DEF RefuseShortPhone
<1>2. CASE /\ row' = [row EXCEPT ![n] = "FAILED"]
           /\ job' = [job EXCEPT ![n] = "sent"] /\ UNCHANGED <<marred, slips>>
  <2>1. /\ job'[n] = "sent" /\ row'[n] = "FAILED"
        /\ \A m \in Notes \ {n} : job'[m] = job[m] /\ row'[m] = row[m]
    BY <1>2 DEF NotesInv, NotificationsTypeOK
  <2>2. NotificationsTypeOK'
    BY <1>1, <1>2 DEF NotesInv, NotificationsTypeOK, Jobs, Statuses
  <2>3. Counted(n)' /\ Told(n)'
    BY <1>1, <1>2, <2>1 DEF SendFacts, Counted, Told, Spare
  <2> QED
    BY <1>1, <1>2, <2>1, <2>2, <2>3, OneNoteInv
<1>3. CASE /\ Slip /\ marred' = marred \union {n}
           /\ job' = [job EXCEPT ![n] = "failing"] /\ UNCHANGED row
  <2>1. /\ job'[n] = "failing" /\ \A m \in Notes \ {n} : job'[m] = job[m]
    BY <1>3 DEF NotesInv, NotificationsTypeOK
  <2>2. NotificationsTypeOK'
    BY <1>1, <1>3, SlipType DEF NotesInv, NotificationsTypeOK, Jobs
  <2>3. Counted(n)' /\ Told(n)'
    BY <1>1, <1>3, <2>1 DEF SendFacts, Counted, Told, Spare
  <2> QED
    BY <1>1, <1>3, <2>1, <2>2, <2>3, OneNoteInv
<1> QED
  BY <1>2, <1>3 DEF RefuseShortPhone

LEMMA SendInv ==
  ASSUME NotesInv, NEW n \in Notes, Send(n)
  PROVE  NotesInv'
<1>1. /\ job[n] = "sending"
      /\ UNCHANGED <<enabled, recentEvents, npc, rulesLeft, rule, toNotify, tries, stalled,
                     orphan, reads>>
  BY DEF Send
<1>2. SendFacts(n)
  BY <1>1, NoteBounds DEF NotesInv, NotificationsTypeOK, Counted, Told, Spare, SendFacts
<1>3. CASE SendExternal(n)
  BY <1>1, <1>2, <1>3, SendExternalInv
<1>4. CASE RefuseShortPhone(n)
  BY <1>1, <1>2, <1>4, RefuseShortPhoneInv
<1>5. CASE /\ Kind[n[2]] = "dashboard"
           /\ job' = [job EXCEPT ![n] = "over"]
           /\ UNCHANGED <<texted, unheard, row, marred, slips>>
  <2>1. /\ job'[n] = "over" /\ \A m \in Notes \ {n} : job'[m] = job[m]
    BY <1>5 DEF NotesInv, NotificationsTypeOK
  <2>2. NotificationsTypeOK'
    BY <1>1, <1>5 DEF NotesInv, NotificationsTypeOK, Jobs
  <2>3. Counted(n)' /\ Told(n)'
    BY <1>1, <1>2, <1>5, <2>1 DEF SendFacts, Counted, Told, Truth, Confirmed
  <2> QED
    BY <1>1, <1>5, <2>1, <2>2, <2>3, OneNoteInv
<1> QED
  BY <1>3, <1>4, <1>5 DEF Send

LEMMA RecordSentInv ==
  ASSUME NotesInv, NEW n \in Notes, RecordSent(n)
  PROVE  NotesInv'
<1>1. /\ job[n] = "sent"
      /\ UNCHANGED <<enabled, recentEvents, npc, rulesLeft, rule, toNotify, tries, stalled,
                     texted, unheard, orphan, reads>>
  BY DEF RecordSent
<1>2. /\ tries[n] < Attempts /\ texted[n] <= tries[n] + 1 + Spare(n)
      /\ row[n] # "absent" /\ Kind[n[2]] # "dashboard"
      /\ n \in stalled => n \in marred
      /\ n \notin marred => \/ Kind[n[2]] = "external" /\ texted[n] = unheard[n] + 1
                            \/ Kind[n[2]] = "short" /\ texted[n] = unheard[n]
      /\ tries[n] \in Nat /\ texted[n] \in Nat /\ unheard[n] \in Nat /\ Attempts \in Nat
      /\ unheard[n] <= texted[n] /\ Spare(n) = IF n \in stalled THEN 1 ELSE 0
  BY <1>1, NoteBounds DEF NotesInv, Counted, Told, NotificationsTypeOK, Spare
<1>3. CASE /\ row' = [row EXCEPT ![n] = "SENT"]
           /\ job' = [job EXCEPT ![n] = "over"] /\ UNCHANGED <<marred, slips>>
  <2>1. /\ job'[n] = "over" /\ row'[n] = "SENT"
        /\ \A m \in Notes \ {n} : job'[m] = job[m] /\ row'[m] = row[m]
    BY <1>3 DEF NotesInv, NotificationsTypeOK
  <2>2. NotificationsTypeOK'
    BY <1>1, <1>3 DEF NotesInv, NotificationsTypeOK, Jobs, Statuses
  <2>3. Counted(n)' /\ Told(n)'
    BY <1>1, <1>2, <1>3, <2>1 DEF Counted, Told, Truth, Confirmed
  <2> QED
    BY <1>1, <1>3, <2>1, <2>2, <2>3, OneNoteInv
<1>4. CASE /\ Slip /\ marred' = marred \union {n}
           /\ job' = [job EXCEPT ![n] = "failing"] /\ UNCHANGED row
  <2>1. /\ job'[n] = "failing" /\ \A m \in Notes \ {n} : job'[m] = job[m]
    BY <1>4 DEF NotesInv, NotificationsTypeOK
  <2>2. NotificationsTypeOK'
    BY <1>1, <1>4, SlipType DEF NotesInv, NotificationsTypeOK, Jobs
  <2>3. Counted(n)' /\ Told(n)'
    BY <1>1, <1>2, <1>4, <2>1 DEF Counted, Told, Spare
  <2> QED
    BY <1>1, <1>4, <2>1, <2>2, <2>3, OneNoteInv
<1> QED
  BY <1>3, <1>4 DEF RecordSent

(* A failure is recorded, or not; the attempt is spent either way. *)
LEMMA RecordFailedInv ==
  ASSUME NotesInv, NEW n \in Notes, RecordFailed(n)
  PROVE  NotesInv'
<1>1. /\ job[n] = "failing"
      /\ tries' = [tries EXCEPT ![n] = tries[n] + 1]
      /\ job' = [job EXCEPT ![n] = IF tries'[n] < Attempts THEN "waiting" ELSE "over"]
      /\ UNCHANGED <<enabled, recentEvents, npc, rulesLeft, rule, toNotify, stalled, texted,
                     unheard, orphan, reads>>
  BY DEF RecordFailed
<1>2. /\ tries[n] < Attempts /\ texted[n] <= tries[n] + 1 + Spare(n)
      /\ row[n] # "absent" /\ Kind[n[2]] # "dashboard"
      /\ n \in stalled => n \in marred
      /\ n \notin marred => texted[n] = unheard[n] /\ Spare(n) = 0
      /\ tries[n] \in Nat /\ texted[n] \in Nat /\ Spare(n) \in 0..1 /\ Attempts \in Nat
      /\ unheard[n] \in Nat /\ unheard[n] <= texted[n]
  BY <1>1, NoteBounds DEF NotesInv, Counted, Told, NotificationsTypeOK, Spare
<1>3. /\ tries'[n] = tries[n] + 1
      /\ job'[n] = IF tries'[n] < Attempts THEN "waiting" ELSE "over"
      /\ \A m \in Notes \ {n} : job'[m] = job[m] /\ tries'[m] = tries[m]
  BY <1>1 DEF NotesInv, NotificationsTypeOK
<1>4. tries' \in [Notes -> 0..Attempts] /\ job' \in [Notes -> Jobs]
  BY <1>1, <1>2 DEF NotesInv, NotificationsTypeOK, Jobs
<1>5. Counted(n)'
  BY <1>1, <1>2, <1>3 DEF Counted, Spare
<1>6. CASE row' = [row EXCEPT ![n] = "FAILED"] /\ UNCHANGED <<marred, slips>>
  <2>1. row'[n] = "FAILED" /\ \A m \in Notes \ {n} : row'[m] = row[m]
    BY <1>6 DEF NotesInv, NotificationsTypeOK
  <2>2. NotificationsTypeOK'
    BY <1>1, <1>4, <1>6 DEF NotesInv, NotificationsTypeOK, Statuses
  <2>3. Told(n)'
    BY <1>1, <1>2, <1>3, <1>6, <2>1 DEF Told, Truth, Confirmed
  <2> QED
    BY <1>1, <1>3, <1>5, <1>6, <2>1, <2>2, <2>3, OneNoteInv
<1>7. CASE Slip /\ marred' = marred \union {n} /\ UNCHANGED row
  <2>1. NotificationsTypeOK'
    BY <1>1, <1>4, <1>7, SlipType DEF NotesInv, NotificationsTypeOK
  <2>2. Told(n)'
    BY <1>1, <1>2, <1>3, <1>7 DEF Told
  <2> QED
    BY <1>1, <1>3, <1>5, <1>7, <2>1, <2>2, OneNoteInv
<1> QED
  BY <1>6, <1>7 DEF RecordFailed

LEMMA MarkAsReadInv ==
  ASSUME NotesInv, NEW n \in Notes, MarkAsRead(n)
  PROVE  NotesInv'
<1>1. /\ row[n] # "absent" /\ row' = [row EXCEPT ![n] = "READ"]
      /\ UNCHANGED <<enabled, recentEvents, npc, rulesLeft, rule, toNotify, job, tries,
                     stalled, texted, unheard, orphan, marred, slips>>
  BY DEF MarkAsRead
<1>2. reads' \in 0..MaxReads
  BY NoteBounds DEF MarkAsRead, NotesInv, NotificationsTypeOK
<1>3. row'[n] = "READ" /\ \A m \in Notes \ {n} : row'[m] = row[m]
  BY <1>1 DEF NotesInv, NotificationsTypeOK
<1>4. NotificationsTypeOK'
  BY <1>1, <1>2 DEF NotesInv, NotificationsTypeOK, Statuses
<1>5. Counted(n)'
  BY <1>1 DEF NotesInv, Counted, Spare
<1>6. Told(n)'
  BY <1>1, <1>3 DEF NotesInv, Told, Truth, Confirmed
<1> QED
  BY <1>1, <1>3, <1>4, <1>5, <1>6, OneNoteInv

-----------------------------------------------------------------------------
(* A step of a delivery that touches neither rows nor jobs. *)
LEMMA DeliveryInv ==
  ASSUME NotesInv, NotificationsTypeOK', QueuedOnce',
         UNCHANGED <<row, job, tries, stalled, texted, unheard, marred>>
  PROVE  NotesInv'
BY DEF NotesInv, Counted, Told, Truth, Spare, Confirmed

LEMMA HandleInv ==
  ASSUME NotesInv, NEW d \in Deliveries, HandleWebhookProcessed(d)
  PROVE  NotesInv'
<1>1. /\ npc[d] = "new" /\ UNCHANGED rowsAndJobs
      /\ UNCHANGED <<enabled, rulesLeft, rule, toNotify, slips, reads>>
  BY DEF HandleWebhookProcessed
<1>2. PICK pc \in {"done", "find"} : Step(d, pc) /\ recentEvents' \in {recentEvents, 0}
  BY DEF HandleWebhookProcessed
<1>3. \A e \in Deliveries : npc'[e] = IF e = d THEN pc ELSE npc[e]
  BY <1>2 DEF Step, NotesInv, NotificationsTypeOK
<1>4. NotificationsTypeOK'
  BY <1>1, <1>2, NoteBounds DEF Step, NotesInv, NotificationsTypeOK, rowsAndJobs
<1>5. QueuedOnce'
  BY <1>1, <1>3 DEF NotesInv, QueuedOnce, rowsAndJobs
<1> QED
  BY <1>1, <1>4, <1>5, DeliveryInv DEF rowsAndJobs

LEMMA FindRulesInv ==
  ASSUME NotesInv, NEW d \in Deliveries, FindRules(d)
  PROVE  NotesInv'
<1>1. /\ npc[d] = "find" /\ UNCHANGED rowsAndJobs
      /\ UNCHANGED <<enabled, recentEvents, rule, toNotify, reads>>
  BY DEF FindRules
<1>2. PICK pc \in {"rule", "done"} : Step(d, pc)
  BY DEF FindRules
<1>3. /\ rulesLeft' \in [Deliveries -> SUBSET Rules] /\ slips' \in 0..MaxSlips
      /\ \A e \in Deliveries \ {d} : rulesLeft'[e] = rulesLeft[e]
  BY SlipType DEF FindRules, NotesInv, NotificationsTypeOK
<1>4. \A e \in Deliveries : npc'[e] = IF e = d THEN pc ELSE npc[e]
  BY <1>2 DEF Step, NotesInv, NotificationsTypeOK
<1>5. NotificationsTypeOK'
  BY <1>1, <1>2, <1>3 DEF Step, NotesInv, NotificationsTypeOK, rowsAndJobs
<1>6. toNotify[d] = {} /\ \A t \in Targets : job[<<d, t>>] = "none"
  BY <1>1 DEF NotesInv, QueuedOnce
<1>7. QueuedOnce'
  BY <1>1, <1>3, <1>4, <1>6 DEF NotesInv, QueuedOnce, rowsAndJobs
<1> QED
  BY <1>1, <1>5, <1>7, DeliveryInv DEF rowsAndJobs

LEMMA BeginRuleInv ==
  ASSUME NotesInv, NEW d \in Deliveries, BeginRule(d)
  PROVE  NotesInv'
<1>1. /\ npc[d] = "rule" /\ UNCHANGED rowsAndJobs
      /\ UNCHANGED <<enabled, recentEvents, slips, reads>>
  BY DEF BeginRule
<1>2. PICK r \in rulesLeft[d] :
         /\ rulesLeft' = [rulesLeft EXCEPT ![d] = rulesLeft[d] \ {r}]
         /\ \/ /\ rule' = [rule EXCEPT ![d] = {r}]
               /\ toNotify' = [toNotify EXCEPT ![d] = Recipients(r)]
               /\ Step(d, "create")
            \/ UNCHANGED <<rule, toNotify, npc>>
  BY DEF BeginRule
<1>3. r \in Rules /\ Recipients(r) \subseteq {t \in Targets : RuleOf[t] = r}
  BY DEF NotesInv, NotificationsTypeOK, Recipients
<1>4. /\ rulesLeft' \in [Deliveries -> SUBSET Rules] /\ rulesLeft'[d] = rulesLeft[d] \ {r}
      /\ \A e \in Deliveries \ {d} : rulesLeft'[e] = rulesLeft[e]
  BY <1>2 DEF NotesInv, NotificationsTypeOK
<1>5. /\ rule' \in [Deliveries -> SUBSET Rules]
      /\ toNotify' \in [Deliveries -> SUBSET Targets]
      /\ toNotify'[d] \in {toNotify[d], Recipients(r)}
      /\ \A e \in Deliveries \ {d} : toNotify'[e] = toNotify[e]
  BY <1>2, <1>3 DEF NotesInv, NotificationsTypeOK
<1>6. /\ npc' \in [Deliveries -> {"new", "find", "rule", "create", "queue", "done"}]
      /\ npc'[d] \in {"create", "rule"} /\ \A e \in Deliveries \ {d} : npc'[e] = npc[e]
  BY <1>1, <1>2 DEF Step, NotesInv, NotificationsTypeOK
<1>7. NotificationsTypeOK'
  BY <1>1, <1>4, <1>5, <1>6 DEF NotesInv, NotificationsTypeOK, rowsAndJobs
<1>8. QueuedOnce'
  <2>1. \A t \in toNotify'[d] : RuleOf[t] \notin rulesLeft'[d] /\ job[<<d, t>>] = "none"
    BY <1>2, <1>3, <1>4, <1>5 DEF NotesInv, QueuedOnce, NotificationsTypeOK
  <2> QED
    BY <1>1, <1>4, <1>5, <1>6, <2>1 DEF NotesInv, QueuedOnce, rowsAndJobs
<1> QED
  BY <1>1, <1>7, <1>8, DeliveryInv DEF rowsAndJobs

LEMMA EndOrCountInv ==
  ASSUME NotesInv, NEW d \in Deliveries, EndEvent(d) \/ CountRule(d)
  PROVE  NotesInv'
<1>1. /\ npc[d] \in {"rule", "create"} /\ UNCHANGED rowsAndJobs
      /\ UNCHANGED <<enabled, recentEvents, rulesLeft, toNotify, slips, reads>>
  BY DEF EndEvent, CountRule
<1>2. PICK pc \in {"rule", "done"} : Step(d, pc)
  BY DEF EndEvent, CountRule
<1>3. \A e \in Deliveries : npc'[e] = IF e = d THEN pc ELSE npc[e]
  BY <1>2 DEF Step, NotesInv, NotificationsTypeOK
<1>4. rule' \in [Deliveries -> SUBSET Rules]
  BY DEF EndEvent, CountRule, NotesInv, NotificationsTypeOK
<1>5. NotificationsTypeOK'
  BY <1>1, <1>2, <1>4 DEF Step, NotesInv, NotificationsTypeOK, rowsAndJobs
<1>6. QueuedOnce'
  BY <1>1, <1>3 DEF NotesInv, QueuedOnce, rowsAndJobs
<1> QED
  BY <1>1, <1>5, <1>6, DeliveryInv DEF rowsAndJobs

(* An error ends the rule: nothing is left of it to notify. *)
LEMMA AbandonFacts ==
  ASSUME NotesInv, NEW d \in Deliveries, npc[d] \in {"create", "queue"}, AbandonRule(d)
  PROVE  /\ slips' \in 0..MaxSlips
         /\ rule' \in [Deliveries -> SUBSET Rules]
         /\ toNotify' \in [Deliveries -> SUBSET Targets] /\ toNotify'[d] = {}
         /\ \A e \in Deliveries \ {d} : toNotify'[e] = toNotify[e] /\ npc'[e] = npc[e]
         /\ npc' \in [Deliveries -> {"new", "find", "rule", "create", "queue", "done"}]
         /\ npc'[d] = "rule"
BY SlipType DEF AbandonRule, Step, NotesInv, NotificationsTypeOK

LEMMA CreateInv ==
  ASSUME NotesInv, NEW d \in Deliveries, CreateNotification(d)
  PROVE  NotesInv'
<1>1. /\ npc[d] = "create"
      /\ UNCHANGED <<enabled, recentEvents, rulesLeft, job, tries, stalled, texted, unheard,
                     orphan, marred, reads>>
  BY DEF CreateNotification
<1>2. CASE \E t \in toNotify[d] :
             /\ row' = [row EXCEPT ![<<d, t>>] =
                          IF Kind[t] = "dashboard" THEN "DELIVERED" ELSE "PENDING"]
             /\ Step(d, "queue")
             /\ UNCHANGED <<rule, toNotify, slips>>
  <2>1. PICK t \in toNotify[d] :
             /\ row' = [row EXCEPT ![<<d, t>>] =
                          IF Kind[t] = "dashboard" THEN "DELIVERED" ELSE "PENDING"]
             /\ Step(d, "queue")
             /\ UNCHANGED <<rule, toNotify, slips>>
    BY <1>2
  <2> DEFINE n == <<d, t>>
  <2>2. t \in Targets /\ n \in Notes /\ n[1] = d /\ n[2] = t /\ job[n] = "none"
    BY NoteParts DEF NotesInv, NotificationsTypeOK, QueuedOnce
  <2>3. /\ row'[n] = IF Kind[n[2]] = "dashboard" THEN "DELIVERED" ELSE "PENDING"
        /\ \A m \in Notes \ {n} : row'[m] = row[m]
        /\ row' \in [Notes -> Statuses]
    BY <2>1, <2>2 DEF NotesInv, NotificationsTypeOK, Statuses
  <2>4. \A e \in Deliveries : npc'[e] = IF e = d THEN "queue" ELSE npc[e]
    BY <2>1 DEF Step, NotesInv, NotificationsTypeOK
  <2>5. NotificationsTypeOK'
    BY <1>1, <2>1, <2>3 DEF Step, NotesInv, NotificationsTypeOK
  <2>6. QueuedOnce'
    BY <1>1, <2>1, <2>4 DEF NotesInv, QueuedOnce
  <2> HIDE DEF n
  <2>7. \A m \in Notes : Counted(m)'
    BY <1>1 DEF NotesInv, Counted, Spare
  <2>8. \A m \in Notes \ {n} : Told(m)'
    BY <1>1, <2>3 DEF NotesInv, Told, Truth, Confirmed
  <2>9. Told(n)'
    BY <1>1, <2>2, <2>3 DEF NotesInv, Told
  <2> QED
    BY <2>5, <2>6, <2>7, <2>8, <2>9 DEF NotesInv
<1>3. CASE AbandonRule(d) /\ UNCHANGED row
  <2>1. NotificationsTypeOK'
    BY <1>1, <1>3, AbandonFacts DEF NotesInv, NotificationsTypeOK
  <2>2. QueuedOnce'
    BY <1>1, <1>3, AbandonFacts DEF NotesInv, QueuedOnce
  <2> QED
    BY <1>1, <1>3, <2>1, <2>2, DeliveryInv
<1> QED
  BY <1>2, <1>3 DEF CreateNotification

(* The job of a target is queued as the target leaves the list, or never.   *)
LEMMA QueueInv ==
  ASSUME NotesInv, NEW d \in Deliveries, QueueNotification(d)
  PROVE  NotesInv'
<1>1. /\ npc[d] = "queue"
      /\ UNCHANGED <<enabled, recentEvents, rulesLeft, row, tries, stalled, texted, unheard,
                     marred, reads>>
  BY DEF QueueNotification
<1>2. PICK t \in Unqueued(d) :
         \/ /\ job' = [job EXCEPT ![<<d, t>>] = "waiting"]
            /\ toNotify' = [toNotify EXCEPT ![d] = toNotify[d] \ {t}]
            /\ Step(d, "create")
            /\ UNCHANGED <<rule, orphan, slips>>
         \/ /\ AbandonRule(d)
            /\ orphan' = orphan \union {<<d, t>>}
            /\ UNCHANGED job
  BY DEF QueueNotification
<1> DEFINE n == <<d, t>>
<1>3. /\ t \in Targets /\ t \in toNotify[d] /\ n \in Notes /\ n[1] = d /\ n[2] = t
      /\ row[n] # "absent" /\ job[n] = "none" /\ RuleOf[t] \notin rulesLeft[d]
  BY NoteParts DEF Unqueued, NotesInv, NotificationsTypeOK, QueuedOnce
<1>4. CASE /\ job' = [job EXCEPT ![n] = "waiting"]
           /\ toNotify' = [toNotify EXCEPT ![d] = toNotify[d] \ {t}]
           /\ Step(d, "create")
           /\ UNCHANGED <<rule, orphan, slips>>
  <2>1. /\ job'[n] = "waiting" /\ \A m \in Notes \ {n} : job'[m] = job[m]
        /\ job' \in [Notes -> Jobs]
    BY <1>3, <1>4 DEF NotesInv, NotificationsTypeOK, Jobs
  <2>2. /\ \A e \in Deliveries : npc'[e] = IF e = d THEN "create" ELSE npc[e]
        /\ toNotify'[d] = toNotify[d] \ {t}
        /\ \A e \in Deliveries \ {d} : toNotify'[e] = toNotify[e]
    BY <1>4 DEF Step, NotesInv, NotificationsTypeOK
  <2>3. NotificationsTypeOK'
    BY <1>1, <1>4, <2>1 DEF Step, NotesInv, NotificationsTypeOK
  <2>4. QueuedOnce'
    <3>1. /\ \A e \in Deliveries \ {d}, u \in Targets : job'[<<e, u>>] = job[<<e, u>>]
          /\ \A u \in Targets \ {t} : job'[<<d, u>>] = job[<<d, u>>]
      BY <2>1, NoteParts
    <3> HIDE DEF n
    <3> QED
      BY <1>1, <1>3, <2>2, <3>1 DEF NotesInv, QueuedOnce
  <2> HIDE DEF n
  <2>5. \A m \in Notes \ {n} : Counted(m)' /\ Told(m)'
    BY <1>1, <2>1 DEF NotesInv, Counted, Told, Truth, Spare, Confirmed
  <2>6. Counted(n)' /\ Told(n)'
    <3>1. /\ texted[n] = 0 /\ tries[n] = 0 /\ unheard[n] = 0
          /\ n \in stalled => n \in marred
          /\ Kind[n[2]] = "dashboard" => row[n] \in {"absent", "DELIVERED", "READ"}
      BY <1>3 DEF NotesInv, NotificationsTypeOK, Counted, Told
    <3> QED
      BY <1>1, <1>3, <2>1, <3>1, NoteBounds DEF Counted, Told, Spare
  <2> QED
    BY <2>3, <2>4, <2>5, <2>6 DEF NotesInv
<1>5. CASE AbandonRule(d) /\ orphan' = orphan \union {n} /\ UNCHANGED job
  <2>1. NotificationsTypeOK'
    BY <1>1, <1>3, <1>5, AbandonFacts DEF NotesInv, NotificationsTypeOK
  <2>2. QueuedOnce'
    BY <1>1, <1>5, AbandonFacts DEF NotesInv, QueuedOnce
  <2> QED
    BY <1>1, <1>5, <2>1, <2>2, DeliveryInv
<1> QED
  BY <1>2, <1>4, <1>5

LEMMA RulesAndTimeInv ==
  ASSUME NotesInv, (\E r \in Rules : EditRule(r)) \/ NotifyTick
  PROVE  NotesInv'
<1>1. UNCHANGED <<npc, rulesLeft, rule, toNotify, rowsAndJobs, slips>>
  BY DEF EditRule, NotifyTick
<1>2. enabled' \subseteq Rules /\ reads' \in 0..MaxReads /\ recentEvents' \in 0..NotSeen
  BY NoteBounds DEF EditRule, NotifyTick, NotesInv, NotificationsTypeOK
<1>3. NotificationsTypeOK'
  BY <1>1, <1>2 DEF NotesInv, NotificationsTypeOK, rowsAndJobs
<1>4. QueuedOnce'
  BY <1>1 DEF NotesInv, QueuedOnce, rowsAndJobs
<1> QED
  BY <1>1, <1>3, <1>4, DeliveryInv DEF rowsAndJobs

(* A job caught by a crash is marred; its spare try is used up by it. *)
LEMMA NotifyCrashInv ==
  ASSUME NotesInv, NotifyCrash
  PROVE  NotesInv'
<1> DEFINE hit == {n \in Notes : job[n] \in {"sending", "sent", "failing"}}
<1>1. /\ Slip /\ recentEvents' = NotSeen
      /\ npc' = [d \in Deliveries |-> IF npc[d] = "new" THEN "new" ELSE "done"]
      /\ rulesLeft' = [d \in Deliveries |-> {}] /\ rule' = [d \in Deliveries |-> {}]
      /\ toNotify' = [d \in Deliveries |-> {}]
      /\ marred' = marred \union hit /\ stalled' = stalled \union hit
      /\ job' = [n \in Notes |-> IF n \notin hit THEN job[n]
                                 ELSE IF n \in stalled THEN "over" ELSE "waiting"]
      /\ orphan' \subseteq orphan \union Notes
      /\ UNCHANGED <<enabled, row, tries, texted, unheard, reads>>
  BY DEF NotifyCrash
<1>2. NotificationsTypeOK'
  BY <1>1, SlipType, NoteBounds DEF NotesInv, NotificationsTypeOK, Jobs
<1>3. QueuedOnce'
  <2>1. \A n \in Notes : job[n] = "none" => job'[n] = "none"
    BY <1>1
  <2> QED
    BY <1>1, <2>1, NoteParts DEF NotesInv, QueuedOnce
<1>4. ASSUME NEW n \in Notes
      PROVE  Counted(n)' /\ Told(n)'
  <2>1. CASE n \notin hit
    BY <1>1, <2>1 DEF NotesInv, Counted, Told, Truth, Spare, Confirmed
  <2>2. CASE n \in hit
    <3>1. /\ n \in marred' /\ n \in stalled' /\ job[n] \in {"sending", "sent", "failing"}
          /\ job'[n] = IF n \in stalled THEN "over" ELSE "waiting"
      BY <1>1, <2>2
    <3>2. tries[n] \in Nat /\ texted[n] \in Nat /\ Counted(n) /\ Told(n)
      BY DEF NotesInv, NotificationsTypeOK
    <3> HIDE DEF hit
    <3> QED
      BY <1>1, <3>1, <3>2 DEF Counted, Told, Spare
  <2> QED
    BY <2>1, <2>2
<1> QED
  BY <1>2, <1>3, <1>4 DEF NotesInv

LEMMA NotesStutterInv == NotesInv /\ UNCHANGED notifyVars => NotesInv'
BY DEF NotesInv, NotificationsTypeOK, QueuedOnce, Counted, Told, Truth, Spare, Confirmed,
       notifyVars

LEMMA NotesStepInv == NotesInv /\ [NotificationsNext]_notifyVars => NotesInv'
<1> SUFFICES ASSUME NotesInv, [NotificationsNext]_notifyVars
             PROVE  NotesInv'
  OBVIOUS
<1>1. ASSUME NEW d \in Deliveries, Notify(d)
      PROVE  NotesInv'
  BY <1>1, HandleInv, FindRulesInv, BeginRuleInv, EndOrCountInv, CreateInv, QueueInv
     DEF Notify
<1>2. ASSUME NEW n \in Notes, Work(n) \/ MarkAsRead(n)
      PROVE  NotesInv'
  BY <1>2, BeginSendInv, SendInv, RecordSentInv, RecordFailedInv, MarkAsReadInv DEF Work
<1>3. CASE (\E r \in Rules : EditRule(r)) \/ NotifyTick
  BY <1>3, RulesAndTimeInv
<1>4. CASE NotifyCrash
  BY <1>4, NotifyCrashInv
<1>5. CASE UNCHANGED notifyVars
  BY <1>5, NotesStutterInv
<1> QED
  BY <1>1, <1>2, <1>3, <1>4, <1>5 DEF NotificationsNext

LEMMA NotesSafe == NotificationsSpec => []NotesInv
BY NotesInitInv, NotesStepInv, PTL DEF NotificationsSpec

-----------------------------------------------------------------------------
(* Every variable of the notifications keeps its type: however many times   *)
(* its job fails or dies, a note sends at most one message more than it has *)
(* attempts.                                                                *)
THEOREM NotificationsTypeCorrect == NotificationsSpec => []NotificationsTypeOK
<1>1. NotesInv => NotificationsTypeOK
  BY DEF NotesInv
<1> QED
  BY <1>1, NotesSafe, PTL

(* Once a job is over and no statement or process was lost on it, its row   *)
(* says how many of its messages were confirmed, none or one, and no more   *)
(* went out than it had attempts: for any rules, targets and number of      *)
(* attempts, whichever of the sends that threw reached the employee.        *)
THEOREM RowSaysWhatHappened == NotificationsSpec => []RowTellsTruth
<1>1. NotesInv => RowTellsTruth
  BY DEF NotesInv, Told, Truth, RowTellsTruth, Confirmed
<1> QED
  BY <1>1, NotesSafe, PTL

-----------------------------------------------------------------------------
(* ElementTracking: an event is in one place.                               *)

ElementsInv == ElementTrackingTypeOK /\ FlushInv /\ KeptInv /\ OnceInv

LEMMA ElementBounds ==
  /\ ChunkSize \in Nat \ {0} /\ BufferLimit \in Nat /\ MaxFailedFlushes \in Nat
  /\ MaxStops \in Nat /\ 0 \in 0..MaxFailedFlushes /\ 0 \in 0..MaxStops
  BY ElementTrackingAssumption DEF ElementTrackingAssumption

(* Sequences of events, as sets. *)
LEMMA EmptyEvents ==
  /\ Range(<<>>) = {} /\ IsInjective(<<>>) /\ <<>> \in Seq(Events)
  /\ Len(<<>>) = 0 /\ 0 \in 0..Len(<<>>)
  BY DEF Range, IsInjective

LEMMA SomeEvents ==
  ASSUME NEW s \in Seq(Events)
  PROVE  /\ Range(s) \subseteq Events /\ Len(s) \in Nat
         /\ s = <<>> <=> Len(s) = 0
         /\ Range(s) = {s[i] : i \in 1..Len(s)}
         /\ \A i \in 1..Len(s) : s[i] \in Events
  BY DEF Range

LEMMA AppendEvent ==
  ASSUME NEW s \in Seq(Events), NEW e \in Events
  PROVE  /\ Append(s, e) \in Seq(Events) /\ Range(Append(s, e)) = Range(s) \cup {e}
         /\ IsInjective(s) /\ e \notin Range(s) => IsInjective(Append(s, e))
<1>1. /\ Append(s, e) \in Seq(Events) /\ DOMAIN s = 1..Len(s)
      /\ DOMAIN Append(s, e) = 1..(Len(s) + 1) /\ Len(s) \in Nat
      /\ Append(s, e)[Len(s) + 1] = e
      /\ \A i \in 1..Len(s) : Append(s, e)[i] = s[i]
  OBVIOUS
<1>2. Range(Append(s, e)) = Range(s) \cup {e}
  BY <1>1 DEF Range
<1>3. ASSUME IsInjective(s), e \notin Range(s) PROVE IsInjective(Append(s, e))
  <2> SUFFICES ASSUME NEW i \in 1..(Len(s) + 1), NEW j \in 1..(Len(s) + 1),
                      Append(s, e)[i] = Append(s, e)[j]
               PROVE  i = j
    BY <1>1 DEF IsInjective
  <2>1. \A k \in 1..Len(s) : s[k] # e
    BY <1>1, <1>3 DEF Range
  <2> QED
    BY <1>1, <1>3, <2>1 DEF IsInjective
<1> QED
  BY <1>1, <1>2, <1>3

LEMMA ReaddEvents ==
  ASSUME NEW s \in Seq(Events), NEW t \in Seq(Events)
  PROVE  /\ s \o t \in Seq(Events) /\ Range(s \o t) = Range(s) \cup Range(t)
         /\ IsInjective(s) /\ IsInjective(t) /\ Range(s) \cap Range(t) = {}
              => IsInjective(s \o t)
<1>1. /\ s \o t \in Seq(Events) /\ Len(s) \in Nat /\ Len(t) \in Nat
      /\ DOMAIN s = 1..Len(s) /\ DOMAIN t = 1..Len(t)
      /\ DOMAIN (s \o t) = 1..(Len(s) + Len(t))
  OBVIOUS
<1>2. \A i \in 1..Len(s) : (s \o t)[i] = s[i]
  OBVIOUS
<1>3. \A i \in 1..(Len(s) + Len(t)) : i > Len(s) =>
        i - Len(s) \in 1..Len(t) /\ (s \o t)[i] = t[i - Len(s)]
  OBVIOUS
<1>4. \A j \in 1..Len(t) :
        /\ j + Len(s) \in 1..(Len(s) + Len(t)) /\ (j + Len(s)) - Len(s) = j
        /\ j + Len(s) > Len(s)
  BY <1>1
<1>5. \A j \in 1..Len(t) : (s \o t)[j + Len(s)] = t[j]
  BY <1>3, <1>4
<1>6. Range(s) \subseteq Range(s \o t)
  <2>1. 1..Len(s) \subseteq 1..(Len(s) + Len(t))
    BY <1>1
  <2> QED
    BY <1>1, <1>2, <2>1 DEF Range
<1>7. Range(t) \subseteq Range(s \o t)
  BY <1>1, <1>4, <1>5 DEF Range
<1>8. Range(s \o t) \subseteq Range(s) \cup Range(t)
  <2> SUFFICES ASSUME NEW i \in 1..(Len(s) + Len(t))
               PROVE  (s \o t)[i] \in Range(s) \cup Range(t)
    BY <1>1 DEF Range
  <2>1. CASE i > Len(s)
    BY <1>1, <1>3, <2>1 DEF Range
  <2>2. CASE i \in 1..Len(s)
    BY <1>1, <1>2, <2>2 DEF Range
  <2> QED
    BY <1>1, <2>1, <2>2
<1>9. ASSUME IsInjective(s), IsInjective(t), Range(s) \cap Range(t) = {}
      PROVE  IsInjective(s \o t)
  <2> SUFFICES ASSUME NEW i \in 1..(Len(s) + Len(t)), NEW j \in 1..(Len(s) + Len(t)),
                      (s \o t)[i] = (s \o t)[j]
               PROVE  i = j
    BY <1>1 DEF IsInjective
  <2>1. ASSUME NEW k \in 1..Len(s), NEW m \in 1..Len(t) PROVE s[k] # t[m]
    <3>1. s[k] \in Range(s) /\ t[m] \in Range(t)
      BY <1>1 DEF Range
    <3> QED
      BY <3>1, <1>9
  <2>2. CASE i > Len(s) /\ j > Len(s)
    <3>1. i - Len(s) = j - Len(s)
      BY <1>1, <1>3, <1>9, <2>2 DEF IsInjective
    <3> QED
      BY <1>1, <3>1
  <2>3. CASE i \in 1..Len(s) /\ j \in 1..Len(s)
    BY <1>1, <1>2, <1>9, <2>3 DEF IsInjective
  <2>4. CASE i \in 1..Len(s) /\ j > Len(s)
    BY <1>2, <1>3, <2>1, <2>4
  <2>5. CASE j \in 1..Len(s) /\ i > Len(s)
    BY <1>2, <1>3, <2>1, <2>5
  <2> QED
    BY <1>1, <2>2, <2>3, <2>4, <2>5
<1> QED
  BY <1>1, <1>6, <1>7, <1>8, <1>9

(* The chunk being written, and what is written before it. *)
LEMMA ChunkEvents ==
  ASSUME ElementTrackingTypeOK
  PROVE  /\ UpTo \in inserted..Len(inFlush) /\ UpTo \in 0..Len(inFlush) /\ UpTo \in Nat
         /\ inserted \in Nat /\ Len(inFlush) \in Nat /\ inserted <= Len(inFlush)
         /\ Chunk = {inFlush[i] : i \in (inserted + 1)..UpTo}
         /\ Range(SubSeq(inFlush, 1, inserted)) = {inFlush[i] : i \in 1..inserted}
         /\ Range(inFlush) = {inFlush[i] : i \in 1..Len(inFlush)}
         /\ Unwritten \subseteq Range(inFlush) /\ Chunk \subseteq Unwritten
<1>1. /\ inFlush \in Seq(Events) /\ inserted \in 0..Len(inFlush) /\ Len(inFlush) \in Nat
      /\ inserted \in Nat /\ inserted <= Len(inFlush)
  BY DEF ElementTrackingTypeOK
<1>2. /\ UpTo \in inserted..Len(inFlush) /\ UpTo \in 0..Len(inFlush) /\ UpTo \in Nat
      /\ UpTo <= Len(inFlush) /\ UpTo >= inserted
  BY <1>1, ElementBounds DEF UpTo
<1>3. ASSUME NEW m \in 1..(Len(inFlush) + 1), NEW n \in 0..Len(inFlush), m <= n + 1
      PROVE  Range(SubSeq(inFlush, m, n)) = {inFlush[i] : i \in m..n}
  <2>1. /\ DOMAIN SubSeq(inFlush, m, n) = 1..(n - m + 1)
        /\ \A i \in 1..(n - m + 1) : SubSeq(inFlush, m, n)[i] = inFlush[i + m - 1]
    BY <1>1, <1>3
  <2>2. \A i \in 1..(n - m + 1) : i + m - 1 \in m..n
    BY <1>1
  <2>3. \A i \in m..n : i - m + 1 \in 1..(n - m + 1) /\ (i - m + 1) + m - 1 = i
    BY <1>1
  <2>4. \A i \in m..n : SubSeq(inFlush, m, n)[i - m + 1] = inFlush[i]
    BY <2>1, <2>3
  <2>5. ASSUME NEW i \in m..n PROVE inFlush[i] \in Range(SubSeq(inFlush, m, n))
    <3>1. i - m + 1 \in DOMAIN SubSeq(inFlush, m, n)
      BY <2>1, <2>3
    <3> QED
      BY <2>4, <3>1 DEF Range
  <2>6. Range(SubSeq(inFlush, m, n)) \subseteq {inFlush[i] : i \in m..n}
    BY <2>1, <2>2 DEF Range
  <2> QED
    BY <2>5, <2>6
<1>4. Chunk = {inFlush[i] : i \in (inserted + 1)..UpTo}
  BY <1>1, <1>2, <1>3 DEF Chunk
<1>5. Range(SubSeq(inFlush, 1, inserted)) = {inFlush[i] : i \in 1..inserted}
  BY <1>1, <1>3
<1>6. Range(inFlush) = {inFlush[i] : i \in 1..Len(inFlush)}
  BY <1>1, SomeEvents
<1>7. /\ (inserted + 1)..Len(inFlush) \subseteq 1..Len(inFlush)
      /\ (inserted + 1)..UpTo \subseteq (inserted + 1)..Len(inFlush)
  BY <1>1, <1>2
<1>8. Unwritten \subseteq Range(inFlush) /\ Chunk \subseteq Unwritten
  BY <1>4, <1>6, <1>7 DEF Unwritten
<1> QED
  BY <1>1, <1>2, <1>4, <1>5, <1>6, <1>8

-----------------------------------------------------------------------------
LEMMA ElementsInitInv == ElementTrackingInit => ElementsInv
<1> SUFFICES ASSUME ElementTrackingInit PROVE ElementsInv
  OBVIOUS
<1>1. ElementTrackingTypeOK
  <2>1. /\ eventJob \in [Events -> JobStates]
        /\ rows \in [Events -> Nat] /\ again \in [Events -> Nat]
    BY DEF ElementTrackingInit, JobStates
  <2> QED
    BY <2>1, ElementBounds, EmptyEvents DEF ElementTrackingInit, ElementTrackingTypeOK
<1>2. FlushInv /\ KeptInv
  BY EmptyEvents DEF ElementTrackingInit, FlushInv, KeptInv
<1>3. OnceInv
  BY EmptyEvents DEF ElementTrackingInit, OnceInv, InProcess
<1> QED
  BY <1>1, <1>2, <1>3 DEF ElementsInv

(* Steps that only move jobs, of events that are not given out or may end. *)
LEMMA JobsInv ==
  ASSUME ElementsInv, eventJob' \in [Events -> JobStates],
         \A e \in Events : \/ eventJob'[e] = eventJob[e]
                           \/ eventJob[e] = "none" /\ eventJob'[e] = "queued"
                           \/ eventJob[e] = "active" /\ eventJob'[e] = "done",
         UNCHANGED <<eventBuffer, bufferLock, inFlush, inserted, closing, finalFlush,
                     rows, late, missed, dropped, cut, again, failedFlushes, stops>>
  PROVE  ElementsInv'
<1>1. ElementTrackingTypeOK'
  BY DEF ElementsInv, ElementTrackingTypeOK
<1>2. FlushInv' /\ InProcess' = InProcess /\ Unwritten' = Unwritten
  BY DEF ElementsInv, FlushInv, InProcess, Unwritten
<1>3. InProcess \subseteq Events
  BY SomeEvents DEF ElementsInv, ElementTrackingTypeOK, InProcess
<1>4. KeptInv'
  BY <1>2 DEF ElementsInv, KeptInv
<1>5. OnceInv'
  BY <1>2, <1>3 DEF ElementsInv, OnceInv
<1> QED
  BY <1>1, <1>2, <1>4, <1>5 DEF ElementsInv

LEMMA ProcessEventInv ==
  ASSUME ElementsInv, NEW e \in Events, ProcessEvent(e)
  PROVE  ElementsInv'
<1>t. ElementTrackingTypeOK /\ FlushInv /\ KeptInv /\ OnceInv
  BY DEF ElementsInv
<1>1. /\ e \notin InProcess /\ eventJob[e] = "queued" /\ rows[e] <= again[e]
      /\ InProcess \subseteq Events
  BY <1>t, SomeEvents DEF ProcessEvent, OnceInv, ElementTrackingTypeOK, InProcess
<1>2. /\ eventBuffer' \in Seq(Events) /\ Range(eventBuffer') = Range(eventBuffer) \cup {e}
      /\ IsInjective(eventBuffer')
  BY <1>t, <1>1, AppendEvent DEF ProcessEvent, OnceInv, ElementTrackingTypeOK, InProcess
<1>3. /\ InProcess' = InProcess \cup {e} /\ Unwritten' = Unwritten
      /\ Unwritten \subseteq Range(inFlush)
  BY <1>t, <1>2, ChunkEvents DEF ProcessEvent, InProcess, Unwritten
<1>4. ElementTrackingTypeOK'
  BY <1>t, <1>2 DEF ProcessEvent, ElementTrackingTypeOK, JobStates
<1>5. FlushInv'
  BY <1>t, <1>2 DEF ProcessEvent, FlushInv
<1>6. KeptInv'
  BY <1>t, <1>3 DEF ProcessEvent, KeptInv, ElementTrackingTypeOK
<1>7. OnceInv'
  <2>1. /\ IsInjective(eventBuffer') /\ IsInjective(inFlush')
        /\ Range(eventBuffer') \cap Range(inFlush') = {}
    BY <1>t, <1>1, <1>2 DEF ProcessEvent, OnceInv, InProcess
  <2>2. \A v \in InProcess' : eventJob'[v] \in {"active", "done"}
    BY <1>t, <1>1, <1>3 DEF ProcessEvent, OnceInv, ElementTrackingTypeOK
  <2>3. ASSUME NEW v \in Events
        PROVE  \/ rows'[v] <= again'[v]
               \/ /\ rows'[v] = 1 + again'[v] /\ eventJob'[v] \in {"active", "done"}
                  /\ v \notin Range(eventBuffer') \cup Unwritten'
    BY <1>t, <1>1, <1>2, <1>3 DEF ProcessEvent, OnceInv, ElementTrackingTypeOK
  <2> QED
    BY <2>1, <2>2, <2>3 DEF OnceInv
<1> QED
  BY <1>4, <1>5, <1>6, <1>7 DEF ElementsInv

(* The swap takes the whole buffer into an empty flush. *)
LEMMA SwapFacts ==
  ASSUME ElementsInv, Swap, ~bufferLock
  PROVE  /\ inFlush = <<>> /\ Range(inFlush) = {} /\ Unwritten = {}
         /\ eventBuffer' = <<>> /\ Range(eventBuffer') = {} /\ inFlush' = eventBuffer
         /\ inserted' = 0 /\ Unwritten' = Range(eventBuffer) /\ bufferLock'
         /\ InProcess' = InProcess /\ inserted' \in 0..Len(inFlush')
         /\ {eventBuffer', inFlush'} \subseteq Seq(Events)
         /\ IsInjective(eventBuffer') /\ IsInjective(inFlush')
<1>1. inFlush = <<>> /\ inserted \in 0..Len(inFlush) /\ eventBuffer \in Seq(Events)
  BY DEF ElementsInv, FlushInv, ElementTrackingTypeOK
<1>2. Range(inFlush) = {} /\ Unwritten = {}
  BY <1>1, EmptyEvents, ChunkEvents DEF ElementsInv
<1>3. /\ eventBuffer' = <<>> /\ inFlush' = eventBuffer /\ inserted' = 0 /\ bufferLock'
  BY DEF Swap, Swapped
<1>4. Unwritten' = {eventBuffer[i] : i \in 1..Len(eventBuffer)}
  <2>1. Unwritten' = {inFlush'[i] : i \in (inserted' + 1)..Len(inFlush')}
    BY DEF Unwritten
  <2> QED
    BY <1>3, <2>1
<1>5. Unwritten' = Range(eventBuffer) /\ 0 \in 0..Len(eventBuffer)
  BY <1>1, <1>4, SomeEvents
<1> QED
  BY <1>1, <1>2, <1>3, <1>5, EmptyEvents DEF ElementsInv, OnceInv, InProcess

LEMMA SwapInv ==
  ASSUME ElementsInv, Swap, ~bufferLock, eventBuffer # <<>>,
         closing' \in BOOLEAN, finalFlush' \in BOOLEAN, missed' \in BOOLEAN,
         stops' \in 0..MaxStops, closing' => finalFlush',
         UNCHANGED <<eventJob, rows, late, dropped, cut, again, failedFlushes>>
  PROVE  ElementsInv'
<1>t. ElementTrackingTypeOK /\ FlushInv /\ KeptInv /\ OnceInv
  BY DEF ElementsInv
<1>1. ElementTrackingTypeOK'
  BY <1>t, SwapFacts DEF ElementTrackingTypeOK
<1>2. FlushInv'
  BY <1>t, SwapFacts DEF FlushInv
<1>3. KeptInv'
  BY <1>t, SwapFacts DEF KeptInv
<1>4. OnceInv'
  BY <1>t, SwapFacts DEF OnceInv
<1> QED
  BY <1>1, <1>2, <1>3, <1>4 DEF ElementsInv

LEMMA FlushBufferInv == ElementsInv /\ FlushBuffer => ElementsInv'
<1> SUFFICES ASSUME ElementsInv, FlushBuffer PROVE ElementsInv'
  OBVIOUS
<1>1. /\ Swap /\ ~bufferLock /\ eventBuffer # <<>> /\ ~closing
      /\ UNCHANGED <<closing, finalFlush, missed, stops>>
      /\ UNCHANGED <<eventJob, rows, late, dropped, cut, again, failedFlushes>>
  BY DEF FlushBuffer
<1> QED
  BY <1>1, SwapInv DEF ElementsInv, ElementTrackingTypeOK

LEMMA OnModuleDestroyInv == ElementsInv /\ OnModuleDestroy => ElementsInv'
<1> SUFFICES ASSUME ElementsInv, OnModuleDestroy PROVE ElementsInv'
  OBVIOUS
<1>t. ElementTrackingTypeOK /\ FlushInv /\ KeptInv /\ OnceInv
  BY DEF ElementsInv
<1>1. /\ closing' = TRUE /\ missed' = bufferLock /\ stops' \in 0..MaxStops
      /\ UNCHANGED <<eventJob, rows, late, dropped, cut, again, failedFlushes>>
  BY <1>t, ElementBounds DEF OnModuleDestroy, ElementTrackingTypeOK
<1>2. CASE eventBuffer # <<>> /\ ~bufferLock
  <2>1. Swap /\ finalFlush' = TRUE
    BY <1>2 DEF OnModuleDestroy
  <2> QED
    BY <1>t, <1>1, <1>2, <2>1, SwapInv DEF ElementTrackingTypeOK
<1>3. CASE ~(eventBuffer # <<>> /\ ~bufferLock)
  <2>1. UNCHANGED <<eventBuffer, bufferLock, inFlush, inserted, finalFlush>>
    BY <1>3 DEF OnModuleDestroy
  <2>2. ElementTrackingTypeOK'
    BY <1>t, <1>1, <2>1 DEF ElementTrackingTypeOK
  <2>3. FlushInv'
    BY <1>t, <1>1, <1>3, <2>1, EmptyEvents DEF FlushInv
  <2>4. InProcess' = InProcess /\ Unwritten' = Unwritten
    BY <2>1 DEF InProcess, Unwritten
  <2>5. KeptInv'
    BY <1>t, <1>1, <2>4 DEF KeptInv
  <2>6. OnceInv'
    BY <1>t, <1>1, <2>1, <2>4 DEF OnceInv
  <2> QED
    BY <2>2, <2>3, <2>5, <2>6 DEF ElementsInv
<1> QED
  BY <1>2, <1>3

-----------------------------------------------------------------------------
(* Nothing under way, or about to be. *)
LEMMA NothingUnderWay ==
  ASSUME inFlush' = <<>>, inserted' = 0
  PROVE  /\ Range(inFlush') = {} /\ Unwritten' = {} /\ IsInjective(inFlush')
         /\ InProcess' = Range(eventBuffer') /\ inserted' \in 0..Len(inFlush')
         /\ inFlush' \in Seq(Events) /\ 1..inserted' = {}
<1>1. Unwritten' = {inFlush'[i] : i \in (inserted' + 1)..Len(inFlush')}
  BY DEF Unwritten
<1>2. Unwritten' = {}
  BY <1>1, EmptyEvents
<1> QED
  BY <1>2, EmptyEvents DEF InProcess

(* What is written of a flush is apart from its chunk, the chunk from the   *)
(* rest, and what is in no other place is in one of them.                   *)
LEMMA FlushParts ==
  ASSUME ElementsInv
  PROVE  /\ Range(inFlush) = {inFlush[i] : i \in 1..inserted} \cup Unwritten
         /\ {inFlush[i] : i \in 1..inserted} \cap Chunk = {}
         /\ Chunk \cap {inFlush[i] : i \in (UpTo + 1)..Len(inFlush)} = {}
         /\ {inFlush[i] : i \in (UpTo + 1)..Len(inFlush)} \subseteq Unwritten
         /\ Chunk \subseteq InProcess /\ Chunk \subseteq Events
         /\ Chunk \cap Range(eventBuffer) = {} /\ InProcess \subseteq Events
         /\ \A e \in Chunk : rows[e] <= again[e] /\ eventJob[e] \in {"active", "done"}
         /\ \A e \in {inFlush[i] : i \in 1..inserted} : rows[e] > 0
<1>t. ElementTrackingTypeOK /\ FlushInv /\ OnceInv /\ IsInjective(inFlush)
  BY DEF ElementsInv, OnceInv
<1>c. /\ UpTo \in inserted..Len(inFlush) /\ UpTo \in Nat /\ inserted \in Nat
      /\ Len(inFlush) \in Nat /\ inserted <= Len(inFlush)
      /\ Chunk = {inFlush[i] : i \in (inserted + 1)..UpTo}
      /\ Range(inFlush) = {inFlush[i] : i \in 1..Len(inFlush)}
      /\ Unwritten \subseteq Range(inFlush) /\ Chunk \subseteq Unwritten
      /\ DOMAIN inFlush = 1..Len(inFlush)
  BY <1>t, ChunkEvents DEF ElementTrackingTypeOK
<1>1. \A i, j \in 1..Len(inFlush) : i # j => inFlush[i] # inFlush[j]
  BY <1>t, <1>c DEF IsInjective
<1>2. /\ 1..inserted \subseteq 1..Len(inFlush)
      /\ (inserted + 1)..UpTo \subseteq 1..Len(inFlush)
      /\ (UpTo + 1)..Len(inFlush) \subseteq 1..Len(inFlush)
      /\ (UpTo + 1)..Len(inFlush) \subseteq (inserted + 1)..Len(inFlush)
      /\ 1..Len(inFlush) = (1..inserted) \cup ((inserted + 1)..Len(inFlush))
      /\ \A i \in 1..inserted : \A j \in (inserted + 1)..UpTo : i # j
      /\ \A i \in (UpTo + 1)..Len(inFlush) : \A j \in (inserted + 1)..UpTo : i # j
  BY <1>c
<1>3. Range(inFlush) = {inFlush[i] : i \in 1..inserted} \cup Unwritten
  BY <1>c, <1>2 DEF Unwritten
<1>4. {inFlush[i] : i \in 1..inserted} \cap Chunk = {}
  BY <1>c, <1>1, <1>2
<1>5. Chunk \cap {inFlush[i] : i \in (UpTo + 1)..Len(inFlush)} = {}
  BY <1>c, <1>1, <1>2
<1>6. {inFlush[i] : i \in (UpTo + 1)..Len(inFlush)} \subseteq Unwritten
  BY <1>2 DEF Unwritten
<1>7. /\ Chunk \subseteq InProcess /\ InProcess \subseteq Events
      /\ Chunk \cap Range(eventBuffer) = {}
  BY <1>t, <1>c, SomeEvents DEF OnceInv, InProcess, ElementTrackingTypeOK
<1>8. \A e \in Chunk : rows[e] <= again[e] /\ eventJob[e] \in {"active", "done"}
  BY <1>t, <1>c, <1>7 DEF OnceInv
<1>9. \A e \in {inFlush[i] : i \in 1..inserted} : rows[e] > 0
  BY <1>t DEF FlushInv
<1> QED
  BY <1>3, <1>4, <1>5, <1>6, <1>7, <1>8, <1>9

LEMMA InsertChunkInv == ElementsInv /\ InsertChunk => ElementsInv'
<1> SUFFICES ASSUME ElementsInv, InsertChunk PROVE ElementsInv'
  OBVIOUS
<1>t. ElementTrackingTypeOK /\ FlushInv /\ KeptInv /\ OnceInv
  BY DEF ElementsInv
<1>1. /\ rows' = [e \in Events |-> IF e \in Chunk THEN rows[e] + 1 ELSE rows[e]]
      /\ rows' \in [Events -> Nat]
      /\ \A e \in Events : rows'[e] >= rows[e]
      /\ \A e \in Chunk : rows'[e] > 0
  <2>1. rows' = [e \in Events |-> IF e \in Chunk THEN rows[e] + 1 ELSE rows[e]]
    BY DEF InsertChunk, WithRows
  <2>2. \A e \in Events : rows[e] \in Nat
    BY <1>t DEF ElementTrackingTypeOK
  <2> QED
    BY <2>1, <2>2, FlushParts
<1>2. /\ UpTo \in 0..Len(inFlush) /\ UpTo \in Nat /\ Len(inFlush) \in Nat
      /\ inserted \in Nat /\ Chunk = {inFlush[i] : i \in (inserted + 1)..UpTo}
      /\ UpTo \in inserted..Len(inFlush)
  BY <1>t, ChunkEvents
<1>3. UNCHANGED <<eventJob, eventBuffer, closing, late, missed, dropped, cut, again,
                  failedFlushes, stops>>
  BY DEF InsertChunk
<1>4. \A e \in Events :
        \/ rows'[e] <= again'[e]
        \/ /\ rows'[e] = 1 + again'[e] /\ eventJob'[e] \in {"active", "done"}
           /\ e \notin Range(eventBuffer') \cup (Unwritten \ Chunk)
  <2>1. ASSUME NEW e \in Chunk PROVE rows'[e] <= again'[e] \/ rows'[e] = 1 + again'[e]
    BY <1>t, <1>1, <1>3, FlushParts DEF ElementTrackingTypeOK
  <2>2. ASSUME NEW e \in Chunk
        PROVE  /\ eventJob'[e] \in {"active", "done"}
               /\ e \notin Range(eventBuffer') \cup (Unwritten \ Chunk)
    BY <1>3, FlushParts
  <2>3. ASSUME NEW e \in Events \ Chunk
        PROVE  \/ rows'[e] <= again'[e]
               \/ /\ rows'[e] = 1 + again'[e] /\ eventJob'[e] \in {"active", "done"}
                  /\ e \notin Range(eventBuffer') \cup (Unwritten \ Chunk)
    BY <1>t, <1>1, <1>3 DEF OnceInv
  <2> QED
    BY <2>1, <2>2, <2>3
<1>5. CASE UpTo < Len(inFlush)
  <2>1. inserted' = UpTo /\ UNCHANGED <<bufferLock, inFlush, finalFlush>>
    BY <1>5 DEF InsertChunk
  <2>2. ElementTrackingTypeOK'
    BY <1>t, <1>1, <1>2, <1>3, <2>1 DEF ElementTrackingTypeOK
  <2>3. Unwritten' = {inFlush[i] : i \in (UpTo + 1)..Len(inFlush)}
    <3>1. Unwritten' = {inFlush'[i] : i \in (inserted' + 1)..Len(inFlush')}
      BY DEF Unwritten
    <3> QED
      BY <3>1, <2>1
  <2>4. Unwritten' \subseteq Unwritten \ Chunk /\ InProcess' = InProcess
    BY <1>3, <2>1, <2>3, FlushParts DEF InProcess
  <2>5. \A i \in 1..inserted' : rows'[inFlush'[i]] > 0
    <3> SUFFICES ASSUME NEW i \in 1..UpTo PROVE rows'[inFlush[i]] > 0
      BY <2>1
    <3>1. CASE i \in 1..inserted
      <4>1. rows[inFlush[i]] > 0 /\ inFlush[i] \in Events
        BY <1>t, <1>2, <3>1, SomeEvents DEF FlushInv, ElementTrackingTypeOK
      <4> QED
        BY <1>t, <1>1, <4>1 DEF ElementTrackingTypeOK
    <3>2. CASE i \in (inserted + 1)..UpTo
      BY <1>1, <1>2, <3>2
    <3> QED
      BY <1>2, <3>1, <3>2
  <2>6. FlushInv'
    BY <1>t, <1>3, <2>1, <2>5 DEF FlushInv
  <2>7. KeptInv'
    <3> SUFFICES ASSUME NEW e \in Events, eventJob'[e] \in {"active", "done"}
                 PROVE  e \in InProcess' \cup dropped' \cup cut' \/ rows'[e] > 0
      BY DEF KeptInv
    <3>1. e \in InProcess \cup dropped \cup cut \/ rows[e] > 0
      BY <1>t, <1>3 DEF KeptInv
    <3> QED
      BY <1>t, <1>1, <1>3, <2>4, <3>1 DEF ElementTrackingTypeOK
  <2>8. OnceInv'
    BY <1>t, <1>3, <1>4, <2>1, <2>4 DEF OnceInv
  <2> QED
    BY <2>2, <2>6, <2>7, <2>8 DEF ElementsInv
<1>6. CASE ~(UpTo < Len(inFlush))
  <2>1. bufferLock' = FALSE /\ finalFlush' = FALSE /\ inFlush' = <<>> /\ inserted' = 0
    BY <1>6 DEF InsertChunk
  <2>2. ElementTrackingTypeOK'
    BY <1>t, <1>1, <1>3, <2>1, NothingUnderWay DEF ElementTrackingTypeOK
  <2>3. FlushInv'
    BY <1>t, <1>3, <2>1, NothingUnderWay DEF FlushInv
  <2>4. Unwritten = Chunk
    <3>1. UpTo = Len(inFlush)
      BY <1>2, <1>6
    <3> QED
      BY <1>2, <3>1 DEF Unwritten
  <2>5. KeptInv'
    <3> SUFFICES ASSUME NEW e \in Events, eventJob'[e] \in {"active", "done"}
                 PROVE  e \in InProcess' \cup dropped' \cup cut' \/ rows'[e] > 0
      BY DEF KeptInv
    <3>1. e \in InProcess \cup dropped \cup cut \/ rows[e] > 0
      BY <1>t, <1>3 DEF KeptInv
    <3>2. rows[e] > 0 => rows'[e] > 0
      BY <1>t, <1>1 DEF ElementTrackingTypeOK
    <3>3. e \in Range(inFlush) => rows'[e] > 0
      BY <1>1, <2>4, <3>2, FlushParts
    <3> QED
      BY <1>3, <2>1, <3>1, <3>2, <3>3, NothingUnderWay DEF InProcess
  <2>6. OnceInv'
    BY <1>t, <1>3, <1>4, <2>1, NothingUnderWay DEF OnceInv, InProcess
  <2> QED
    BY <2>2, <2>3, <2>5, <2>6 DEF ElementsInv
<1> QED
  BY <1>5, <1>6

(* What a failed statement leaves: every event of the flush may get another *)
(* row only as far as it is excused.                                        *)
LEMMA FailureRows ==
  ASSUME ElementsInv, InsertFails
  PROVE  /\ rows' \in [Events -> Nat] /\ again' \in [Events -> Nat]
         /\ \A e \in Events : rows'[e] >= rows[e]
         /\ \A e \in Range(inFlush) : rows'[e] <= again'[e]
         /\ \A e \in Events \ Range(inFlush) : rows'[e] = rows[e] /\ again'[e] = again[e]
<1>t. /\ ElementTrackingTypeOK /\ OnceInv
      /\ rows \in [Events -> Nat] /\ again \in [Events -> Nat]
  BY DEF ElementsInv, ElementTrackingTypeOK
<1> DEFINE Inserted == {inFlush[i] : i \in 1..inserted}
<1>1. /\ Range(SubSeq(inFlush, 1, inserted)) = Inserted /\ Chunk \subseteq Range(inFlush)
      /\ Chunk \subseteq Unwritten
  BY <1>t, ChunkEvents
<1>2. /\ Range(inFlush) = Inserted \cup Unwritten /\ Inserted \cap Chunk = {}
      /\ Range(inFlush) \subseteq Events
  BY <1>t, FlushParts, SomeEvents DEF ElementTrackingTypeOK
<1>3. PICK written \in {{}, Chunk} :
        /\ rows' = [e \in Events |-> IF e \in written THEN rows[e] + 1 ELSE rows[e]]
        /\ again' = [e \in Events |-> IF e \in written \cup Inserted
                                       THEN again[e] + 1 ELSE again[e]]
  BY <1>1 DEF InsertFails, WithRows
<1>4. \A e \in Events : rows[e] \in Nat /\ again[e] \in Nat /\ rows[e] <= 1 + again[e]
  BY <1>t DEF OnceInv
<1>5. \A e \in Unwritten : rows[e] <= again[e]
  BY <1>t, <1>2 DEF OnceInv
<1> HIDE DEF Inserted
<1>6. rows' \in [Events -> Nat] /\ again' \in [Events -> Nat]
  BY <1>3, <1>4
<1>7. \A e \in Events : rows'[e] >= rows[e]
  BY <1>3, <1>4
<1>8. \A e \in Events \ Range(inFlush) : rows'[e] = rows[e] /\ again'[e] = again[e]
  BY <1>1, <1>2, <1>3
<1>9. ASSUME NEW e \in Range(inFlush) PROVE rows'[e] <= again'[e]
  <2>1. CASE e \in Inserted
    <3>1. rows'[e] = rows[e] /\ again'[e] = again[e] + 1
      BY <1>2, <1>3, <2>1
    <3> QED
      BY <1>2, <1>4, <3>1
  <2>2. CASE e \notin Inserted
    <3>1. rows[e] <= again[e] /\ e \in Events
      BY <1>2, <1>5, <2>2
    <3> QED
      BY <1>3, <1>4, <2>2, <3>1
  <2> QED
    BY <2>1, <2>2
<1> QED
  BY <1>6, <1>7, <1>8, <1>9

LEMMA InsertFailsInv == ElementsInv /\ InsertFails => ElementsInv'
<1> SUFFICES ASSUME ElementsInv, InsertFails PROVE ElementsInv'
  OBVIOUS
<1>t. ElementTrackingTypeOK /\ FlushInv /\ KeptInv /\ OnceInv
  BY DEF ElementsInv
<1>1. /\ inFlush' = <<>> /\ inserted' = 0 /\ finalFlush' = FALSE /\ bufferLock' = FALSE
      /\ missed' = closing /\ UNCHANGED <<eventJob, closing, late, cut, stops>>
      /\ failedFlushes' \in 0..MaxFailedFlushes
  BY <1>t, ElementBounds DEF InsertFails, LockAfterFailure, ElementTrackingTypeOK
<1>2. \/ eventBuffer' = inFlush \o eventBuffer /\ dropped' = dropped
      \/ dropped' = dropped \cup Range(inFlush) /\ eventBuffer' = eventBuffer
  BY DEF InsertFails, Readded
<1>3. /\ eventBuffer \in Seq(Events) /\ inFlush \in Seq(Events)
      /\ Range(inFlush) \subseteq Events
  BY <1>t, SomeEvents DEF ElementTrackingTypeOK
<1>4. /\ eventBuffer' \in Seq(Events) /\ IsInjective(eventBuffer')
      /\ Range(eventBuffer') \subseteq InProcess
      /\ InProcess \subseteq Range(eventBuffer') \cup dropped'
      /\ dropped' \subseteq Events /\ dropped \subseteq dropped'
  <2>1. CASE eventBuffer' = inFlush \o eventBuffer /\ dropped' = dropped
    BY <1>t, <1>3, <2>1, ReaddEvents DEF OnceInv, InProcess, ElementTrackingTypeOK
  <2>2. CASE dropped' = dropped \cup Range(inFlush) /\ eventBuffer' = eventBuffer
    BY <1>t, <1>3, <2>2 DEF OnceInv, InProcess, ElementTrackingTypeOK
  <2> QED
    BY <1>2, <2>1, <2>2
<1>5. ElementTrackingTypeOK'
  BY <1>t, <1>1, <1>4, FailureRows, NothingUnderWay DEF ElementTrackingTypeOK
<1>6. FlushInv'
  BY <1>1, NothingUnderWay DEF FlushInv
<1>7. KeptInv'
  <2> SUFFICES ASSUME NEW e \in Events, eventJob'[e] \in {"active", "done"}
               PROVE  e \in InProcess' \cup dropped' \cup cut' \/ rows'[e] > 0
    BY DEF KeptInv
  <2>1. e \in InProcess \cup dropped \cup cut \/ rows[e] > 0
    BY <1>t, <1>1 DEF KeptInv
  <2>2. rows[e] > 0 => rows'[e] > 0
    BY <1>t, FailureRows DEF ElementTrackingTypeOK
  <2>3. InProcess' = Range(eventBuffer')
    BY <1>1, NothingUnderWay
  <2> QED
    BY <1>1, <1>4, <2>1, <2>2, <2>3
<1>8. OnceInv'
  <2>1. /\ IsInjective(eventBuffer') /\ IsInjective(inFlush')
        /\ Range(eventBuffer') \cap Range(inFlush') = {}
        /\ Unwritten' = {} /\ InProcess' = Range(eventBuffer')
    BY <1>1, <1>4, NothingUnderWay
  <2>2. \A e \in InProcess' : eventJob'[e] \in {"active", "done"}
    BY <1>t, <1>1, <1>4, <2>1 DEF OnceInv
  <2>3. ASSUME NEW e \in Events
        PROVE  \/ rows'[e] <= again'[e]
               \/ /\ rows'[e] = 1 + again'[e] /\ eventJob'[e] \in {"active", "done"}
                  /\ e \notin Range(eventBuffer') \cup Unwritten'
    <3>1. CASE e \in Range(inFlush)
      BY <3>1, FailureRows
    <3>2. CASE e \notin Range(inFlush)
      <4>1. rows'[e] = rows[e] /\ again'[e] = again[e]
        BY <3>2, FailureRows
      <4>2. e \in Range(eventBuffer') => e \in Range(eventBuffer)
        BY <1>4, <3>2 DEF InProcess
      <4>3. \/ rows[e] <= again[e]
            \/ /\ rows[e] = 1 + again[e] /\ eventJob[e] \in {"active", "done"}
               /\ e \notin Range(eventBuffer)
        BY <1>t DEF OnceInv
      <4> QED
        BY <1>1, <2>1, <4>1, <4>2, <4>3
    <3> QED
      BY <3>1, <3>2
  <2> QED
    BY <2>1, <2>2, <2>3 DEF OnceInv
<1> QED
  BY <1>5, <1>6, <1>7, <1>8 DEF ElementsInv

LEMMA NewProcessFacts ==
  ASSUME NewProcess
  PROVE  /\ eventBuffer' = <<>> /\ bufferLock' = FALSE /\ inFlush' = <<>> /\ inserted' = 0
         /\ closing' = FALSE /\ finalFlush' = FALSE /\ late' = {} /\ missed' = FALSE
         /\ InProcess' = {} /\ Unwritten' = {} /\ FlushInv'
         /\ IsInjective(eventBuffer') /\ IsInjective(inFlush')
         /\ Range(eventBuffer') = {} /\ inserted' \in 0..Len(inFlush')
         /\ eventBuffer' \in Seq(Events) /\ inFlush' \in Seq(Events)
<1>1. /\ eventBuffer' = <<>> /\ bufferLock' = FALSE /\ inFlush' = <<>> /\ inserted' = 0
      /\ closing' = FALSE /\ finalFlush' = FALSE /\ late' = {} /\ missed' = FALSE
  BY DEF NewProcess
<1>2. FlushInv'
  BY <1>1, NothingUnderWay DEF FlushInv
<1> QED
  BY <1>1, <1>2, NothingUnderWay, EmptyEvents

LEMMA ExitInv == ElementsInv /\ Exit => ElementsInv'
<1> SUFFICES ASSUME ElementsInv, Exit PROVE ElementsInv'
  OBVIOUS
<1>t. ElementTrackingTypeOK /\ FlushInv /\ KeptInv /\ OnceInv
  BY DEF ElementsInv
<1>1. /\ closing /\ ~finalFlush /\ NewProcess /\ \A e \in Events : eventJob[e] # "active"
      /\ cut' = cut \cup (IF missed THEN InProcess ELSE late)
      /\ UNCHANGED <<eventJob, rows, dropped, again, failedFlushes, stops>>
  BY DEF Exit
<1>2. InProcess \subseteq Events /\ late \subseteq Events
  BY <1>t, SomeEvents DEF ElementTrackingTypeOK, InProcess
<1>3. InProcess \subseteq cut' /\ cut \subseteq cut' /\ cut' \subseteq Events
  <2>1. CASE missed
    BY <1>t, <1>1, <1>2, <2>1 DEF ElementTrackingTypeOK
  <2>2. CASE ~missed
    BY <1>t, <1>1, <1>2, <2>2, EmptyEvents DEF ElementTrackingTypeOK, FlushInv, InProcess
  <2> QED
    BY <2>1, <2>2
<1>4. ElementTrackingTypeOK'
  BY <1>t, <1>1, <1>3, NewProcessFacts DEF ElementTrackingTypeOK
<1>5. KeptInv'
  BY <1>t, <1>1, <1>3 DEF KeptInv
<1>6. OnceInv'
  BY <1>t, <1>1, NewProcessFacts DEF OnceInv
<1> QED
  BY <1>1, <1>4, <1>5, <1>6, NewProcessFacts DEF ElementsInv

LEMMA TrackingCrashInv == ElementsInv /\ TrackingCrash => ElementsInv'
<1> SUFFICES ASSUME ElementsInv, TrackingCrash PROVE ElementsInv'
  OBVIOUS
<1>t. ElementTrackingTypeOK /\ FlushInv /\ KeptInv /\ OnceInv
  BY DEF ElementsInv
<1>1. /\ eventJob' = [e \in Events |-> IF eventJob[e] = "active" THEN "queued"
                                                                ELSE eventJob[e]]
      /\ again' = [e \in Events |-> IF eventJob[e] = "active" /\ rows[e] > 0
                                       THEN again[e] + 1 ELSE again[e]]
      /\ cut' = cut \cup {e \in InProcess : eventJob[e] = "done"}
      /\ NewProcess /\ UNCHANGED <<rows, dropped, failedFlushes>>
      /\ stops' \in 0..MaxStops
  BY <1>t, ElementBounds DEF TrackingCrash, ElementTrackingTypeOK
<1>2. InProcess \subseteq Events
  BY <1>t, SomeEvents DEF ElementTrackingTypeOK, InProcess
<1>3. eventJob' \in [Events -> JobStates] /\ again' \in [Events -> Nat]
  BY <1>t, <1>1 DEF ElementTrackingTypeOK, JobStates
<1>4. ElementTrackingTypeOK'
  BY <1>t, <1>1, <1>2, <1>3, NewProcessFacts DEF ElementTrackingTypeOK
<1>5. KeptInv'
  BY <1>t, <1>1 DEF KeptInv
<1>6. ASSUME NEW e \in Events
      PROVE  \/ rows'[e] <= again'[e]
             \/ rows'[e] = 1 + again'[e] /\ eventJob'[e] \in {"active", "done"}
  <2>1. rows[e] \in Nat /\ again[e] \in Nat
    BY <1>t DEF ElementTrackingTypeOK
  <2>2. CASE eventJob[e] = "active"
    <3>1. rows[e] <= 1 + again[e]
      BY <1>t, <2>1 DEF OnceInv
    <3> QED
      BY <1>1, <2>1, <2>2, <3>1
  <2>3. CASE eventJob[e] # "active"
    BY <1>t, <1>1, <2>3 DEF OnceInv
  <2> QED
    BY <2>2, <2>3
<1>7. OnceInv'
  BY <1>6, NewProcessFacts, <1>1 DEF OnceInv
<1> QED
  BY <1>1, <1>4, <1>5, <1>7, NewProcessFacts DEF ElementsInv

LEMMA ElementsStepInv == ElementsInv /\ [ElementTrackingNext]_trackingVars => ElementsInv'
<1> SUFFICES ASSUME ElementsInv, [ElementTrackingNext]_trackingVars PROVE ElementsInv'
  OBVIOUS
<1>t. eventJob \in [Events -> JobStates]
  BY DEF ElementsInv, ElementTrackingTypeOK
<1>1. CASE \E S \in SUBSET Events : TrackBatch(S)
  <2>1. /\ eventJob' \in [Events -> JobStates]
        /\ \A e \in Events : \/ eventJob'[e] = eventJob[e]
                             \/ eventJob[e] = "none" /\ eventJob'[e] = "queued"
    BY <1>t, <1>1 DEF TrackBatch, JobStates
  <2> QED
    BY <1>1, <2>1, JobsInv DEF TrackBatch
<1>2. ASSUME NEW e \in Events, JobDone(e) PROVE ElementsInv'
  <2>1. eventJob[e] = "active" /\ eventJob' = [eventJob EXCEPT ![e] = "done"]
    BY <1>2 DEF JobDone
  <2>2. /\ eventJob' \in [Events -> JobStates]
        /\ \A v \in Events : \/ eventJob'[v] = eventJob[v]
                             \/ eventJob[v] = "active" /\ eventJob'[v] = "done"
    BY <1>t, <2>1 DEF JobStates
  <2> QED
    BY <1>2, <2>2, JobsInv DEF JobDone
<1>3. CASE UNCHANGED trackingVars
  BY <1>t, <1>3, JobsInv DEF trackingVars
<1> QED
  BY <1>1, <1>2, <1>3, ProcessEventInv, FlushBufferInv, InsertChunkInv, InsertFailsInv,
     OnModuleDestroyInv, ExitInv, TrackingCrashInv DEF ElementTrackingNext

LEMMA ElementsSafe == ElementTrackingSpec => []ElementsInv
  BY ElementsInitInv, ElementsStepInv, PTL DEF ElementTrackingSpec

(* The buffer, the flush under way and the counters of the service have values its   *)
(* timer and its jobs may meet.                                                       *)
THEOREM ElementsTypeCorrect == ElementTrackingSpec => []ElementTrackingTypeOK
<1>1. ElementsInv => ElementTrackingTypeOK
  BY DEF ElementsInv
<1> QED
  BY <1>1, ElementsSafe, PTL

(* An event whose job is completed is in memory or in the table, unless the buffer    *)
(* overflowed or the process took it along: no flush loses it, whatever comes during  *)
(* the flush and however its statements end.                                          *)
THEOREM NoEventLost == ElementTrackingSpec => []EventsKept
<1>1. ElementsInv => EventsKept
  BY DEF ElementsInv, KeptInv, EventsKept
<1> QED
  BY <1>1, ElementsSafe, PTL

(* An event has at most one row more than the times its flush failed after its chunk  *)
(* was written or the process died before its job was completed.                      *)
THEOREM EventsRecordedOnce == ElementTrackingSpec => []RecordedOnce
<1>1. ElementsInv => RecordedOnce
  <2> SUFFICES ASSUME ElementsInv, NEW e \in Events PROVE rows[e] <= 1 + again[e]
    BY DEF RecordedOnce
  <2>1. rows[e] \in Nat /\ again[e] \in Nat
    BY DEF ElementsInv, ElementTrackingTypeOK
  <2> QED
    BY <2>1 DEF ElementsInv, OnceInv
<1> QED
  BY <1>1, ElementsSafe, PTL

-----------------------------------------------------------------------------
(* MCServices: the services side by side.                                   *)

LEMMA ServicesInitParts ==
  ASSUME ServicesInit
  PROVE  /\ RepliesInit /\ DispatcherInit /\ NotificationsInit /\ OtpRelayInit
         /\ StoreTokensInit /\ WhatsAppSessionInit /\ OrderMirrorInit
         /\ AutomationsInit /\ ElementTrackingInit
  BY DEF ServicesInit

LEMMA ServicesStepParts ==
  ASSUME [ServicesNext]_servicesVars
  PROVE  /\ [ReplyNext]_replyVars
         /\ [DispatcherNext]_dispatcherVars
         /\ [NotificationsNext]_notifyVars
         /\ [OtpRelayNext]_otpVars
         /\ [StoreTokensNext]_storeVars
         /\ [WhatsAppSessionNext]_waVars
         /\ [OrderMirrorNext]_mirrorVars
         /\ [AutomationsNext]_automationVars
         /\ [ElementTrackingNext]_trackingVars
<1>1. CASE UNCHANGED servicesVars
  BY <1>1 DEF servicesVars
<1>2. CASE RepliesStep
  BY <1>2 DEF RepliesStep
<1>3. CASE DispatcherStep
  BY <1>3 DEF DispatcherStep
<1>4. CASE NotificationsStep
  BY <1>4 DEF NotificationsStep
<1>5. CASE OtpRelayStep
  BY <1>5 DEF OtpRelayStep
<1>6. CASE StoresStep
  BY <1>6 DEF StoresStep
<1>7. CASE WhatsAppStep
  BY <1>7 DEF WhatsAppStep
<1>8. CASE OrdersStep
  BY <1>8 DEF OrdersStep
<1>9. CASE AutomationsStep
  BY <1>9 DEF AutomationsStep
<1>10. CASE ElementsStep
  BY <1>10 DEF ElementsStep
<1> QED
  BY <1>1, <1>2, <1>3, <1>4, <1>5, <1>6, <1>7, <1>8, <1>9, <1>10 DEF ServicesNext

(* The run that is about one service at a time does nothing its modules do  *)
(* not allow: what is proved of a service holds of the run.                 *)
THEOREM ServicesKeepSpecs ==
  ServicesSpec => /\ ReplySpec /\ DispatcherSpec /\ NotificationsSpec /\ OtpRelaySpec
                  /\ StoreTokensSpec /\ WhatsAppSessionSpec /\ OrderMirrorSpec
                  /\ AutomationsSpec /\ ElementTrackingSpec
<1> QED
  BY ServicesInitParts, ServicesStepParts, PTL
     DEF ServicesSpec, ReplySpec, DispatcherSpec, NotificationsSpec, OtpRelaySpec,
         StoreTokensSpec, WhatsAppSessionSpec, OrderMirrorSpec, AutomationsSpec,
         ElementTrackingSpec

(* Whatever service a behaviour is about, its variables keep their types.   *)
THEOREM ServicesTypeCorrect == ServicesSpec => []TypesOK
<1>1. /\ RepliesTypeOK /\ DispatcherTypeOK /\ NotificationsTypeOK /\ OtpRelayTypeOK
      /\ StoreTokensTypeOK /\ WhatsAppSessionTypeOK /\ OrderMirrorTypeOK
      /\ AutomationsTypeOK /\ ElementTrackingTypeOK
      => TypesOK
  BY DEF TypesOK
<1> QED
  BY <1>1, ServicesKeepSpecs, RepliesTypeCorrect, DispatcherTypeCorrect,
     NotificationsTypeCorrect, OtpTypeCorrect, StoreTokensTypeCorrect,
     SessionTypeCorrect, MirrorTypeCorrect, AutomationsTypeCorrect,
     ElementsTypeCorrect, PTL
=============================================================================
