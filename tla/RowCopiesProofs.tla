-------------------------- MODULE RowCopiesProofs --------------------------
(***************************************************************************)
(* Theorems about services whose handlers load rows, wait, and write what  *)
(* they have made of their copies.                                         *)
(*                                                                         *)
(* StoreTokens and Automations save the whole copy: a store's row at rest  *)
(* holds the pair Salla honours unless handlers met or an answer was lost; *)
(* an ended store, or an automation that is off, comes back only by the    *)
(* ways the property names.  For the tokens, the invariant follows the     *)
(* only handler under way; for the endings, it says that a copy as new as  *)
(* the last ending is not active.                                          *)
(*                                                                         *)
(* OtpRelay locks its rows: no account of the inventory is given to two    *)
(* requests, since what an open transaction has locked stays available, no *)
(* two have locked the same account, and what is given away is never       *)
(* available again.                                                        *)
(*                                                                         *)
(* OrderMirror does neither: as long as the webhooks come in order and one *)
(* by one, the mirror says what the newest has said.  The invariant says   *)
(* of every place of the one handler under way which webhook the row, the  *)
(* customer and the announcement stand for.                                *)
(***************************************************************************)
EXTENDS StoreTokens, Automations, OtpRelay, OrderMirror, FiniteSetTheorems, TLAPS

SyncPlaces == {"loaded", "refreshing", "refreshed", "refused", "api", "synced", "failed"}

(* Undisturbed, one handler is under way and the newest pair is where the   *)
(* handler has got to: in the row, in its copy, or in its request.          *)
Undisturbed ==
    ~met /\ outages = 0 =>
      /\ \A g, h \in UnderWay : g = h
      /\ UnderWay = {} => store.pair = issued
      /\ \A h \in UnderWay :
           /\ hpc[h] # "refused"
           /\ hpc[h] \in SyncPlaces => held[h].pair = issued
           /\ hpc[h] \in (SyncPlaces \ {"refreshed"}) \union {"remove"}
                => store.pair = issued
           /\ hpc[h] = "save" =>
                /\ held[h].pair = Undefined
                /\ IF task[h] = "authorize" THEN reauth[h] = issued
                                            ELSE store.pair = issued

(* The row knows of every ending; a copy that does too is not ACTIVE while  *)
(* the store is ended.                                                      *)
CopiesKnow ==
    /\ store.seen = endings
    /\ \A h \in UnderWay :
         /\ held[h].seen <= endings
         /\ held[h].seen = endings /\ store.status \in Ended
              => held[h].status # "ACTIVE"
         /\ hpc[h] \in SyncPlaces => held[h].status \in {"ACTIVE", "TOKEN_EXPIRED"}

TokensInv == StoreTokensTypeOK /\ Undisturbed /\ CopiesKnow

-----------------------------------------------------------------------------
LEMMA TokensInitInv == StoreTokensInit => TokensInv
<1> SUFFICES ASSUME StoreTokensInit PROVE TokensInv
  OBVIOUS
<1> USE DEF Connected
<1>1. /\ store = Connected /\ endings = 0 /\ issued = 1
      /\ \A h \in Handlers : hpc[h] = "idle"
  BY DEF StoreTokensInit
<1>2. UnderWay = {}
  BY <1>1 DEF UnderWay
<1>3. StoreTokensTypeOK
  <2>1. MaxPairs \in Nat \ {0} /\ MaxExpiries \in Nat /\ MaxOutages \in Nat
    BY StoreTokensAssumption DEF StoreTokensAssumption
  <2>2. Connected \in StoreRow
    <3>1. 1 \in 0..MaxPairs /\ 0 \in Nat /\ FALSE \in BOOLEAN /\ TRUE \in BOOLEAN
      BY <2>1
    <3> QED
      BY <3>1, Zenon DEF StoreRow, StoreStatus
  <2>3. store \in StoreRow /\ held \in [Handlers -> StoreRow]
    BY <2>2 DEF StoreTokensInit
  <2>4. /\ hpc \in [Handlers -> HandlerPc] /\ task \in [Handlers -> Tasks]
        /\ reauth \in [Handlers -> 0..MaxPairs] /\ issued \in 1..MaxPairs
    BY <2>1 DEF StoreTokensInit, HandlerPc, Tasks
  <2>5. /\ endings \in Nat
        /\ outages \in 0..MaxOutages /\ expiries \in 0..MaxExpiries
    BY <2>1 DEF StoreTokensInit
  <2>6. met \in BOOLEAN
    BY Zenon DEF StoreTokensInit
  <2> QED
    BY <2>3, <2>4, <2>5, <2>6 DEF StoreTokensTypeOK
<1>4. Undisturbed /\ CopiesKnow
  BY <1>1, <1>2 DEF Undisturbed, CopiesKnow
<1> QED
  BY <1>3, <1>4 DEF TokensInv

(* Saving a copy gives a row. *)
LEMMA SavedRow ==
  ASSUME StoreTokensTypeOK, NEW copy \in StoreRow
  PROVE  /\ Saved(copy) \in StoreRow
         /\ Saved(copy).status = copy.status /\ Saved(copy).seen = endings
         /\ Saved(copy).deleted = copy.deleted
         /\ Saved(copy).pair = IF copy.pair = Undefined THEN store.pair ELSE copy.pair
BY DEF StoreTokensTypeOK, StoreRow, Saved

(* A handler that moves to another place is the only one that moves. *)
LEMMA NowOnly ==
  ASSUME StoreTokensTypeOK, NEW h \in Handlers, NEW pc \in HandlerPc, Now(h, pc)
  PROVE  /\ hpc' \in [Handlers -> HandlerPc]
         /\ \A g \in Handlers : hpc'[g] = IF g = h THEN pc ELSE hpc[g]
         /\ hpc[h] \notin {"idle", "over"} =>
              UnderWay' = IF pc \in {"idle", "over"} THEN UnderWay \ {h} ELSE UnderWay
BY DEF StoreTokensTypeOK, Now, UnderWay

-----------------------------------------------------------------------------
LEMMA LookedRow ==
  ASSUME StoreTokensTypeOK, NEW k \in Tasks
  PROVE  /\ Looked(k) \in StoreRow
         /\ Looked(k).pair = store.pair /\ Looked(k).seen = store.seen
         /\ Looked(k).status \in {store.status, "ACTIVE"}
         /\ Looked(k).status # store.status => store.deleted
BY DEF StoreTokensTypeOK, StoreRow, StoreStatus, Looked

LEMMA LoadInv ==
  ASSUME TokensInv, NEW h \in Handlers, NEW k \in Tasks \ {"none"}, Load(h, k)
  PROVE  TokensInv'
<1> DEFINE pc == IF k = "sync" THEN "loaded" ELSE "save"
<1> DEFINE copy == IF k = "sync" THEN store' ELSE [store' EXCEPT !.pair = Undefined]
<1>1. /\ hpc[h] = "idle" /\ Now(h, pc) /\ store' = Looked(k)
      /\ held' = [held EXCEPT ![h] = copy] /\ task' = [task EXCEPT ![h] = k]
      /\ k = "authorize" => issued < MaxPairs
      /\ issued' = IF k = "authorize" THEN issued + 1 ELSE issued
      /\ reauth' = [reauth EXCEPT ![h] = IF k = "authorize" THEN issued + 1 ELSE 0]
      /\ UNCHANGED <<endings, outages, expiries>>
  BY DEF Load
<1>2. met' = (met \/ UnderWay # {})
  BY DEF Load
<1>3. /\ store' \in StoreRow /\ store'.pair = store.pair /\ store'.seen = store.seen
      /\ store'.status # store.status => store'.status = "ACTIVE"
  BY <1>1, LookedRow DEF TokensInv
<1>4. /\ copy \in StoreRow /\ copy.status = store'.status /\ copy.seen = store'.seen
      /\ copy.pair = IF k = "sync" THEN store'.pair ELSE Undefined
  <2>1. 0 \in 0..MaxPairs
    BY StoreTokensAssumption DEF StoreTokensAssumption
  <2> QED
    BY <1>3, <2>1 DEF StoreRow, Undefined
<1>5. /\ hpc' \in [Handlers -> HandlerPc]
      /\ \A g \in Handlers : hpc'[g] = IF g = h THEN pc ELSE hpc[g]
      /\ UnderWay' = UnderWay \union {h} /\ h \notin UnderWay
  BY <1>1, NowOnly DEF TokensInv, HandlerPc, UnderWay
<1>6. \A g \in Handlers : /\ held'[g] = IF g = h THEN copy ELSE held[g]
                          /\ task'[g] = IF g = h THEN k ELSE task[g]
                          /\ reauth'[g] = IF g # h THEN reauth[g]
                                          ELSE IF k = "authorize" THEN issued + 1 ELSE 0
  BY <1>1 DEF TokensInv, StoreTokensTypeOK
<1>7. StoreTokensTypeOK'
  <2>1. held' \in [Handlers -> StoreRow] /\ task' \in [Handlers -> Tasks]
    BY <1>1, <1>4 DEF TokensInv, StoreTokensTypeOK
  <2>2. issued' \in 1..MaxPairs /\ reauth' \in [Handlers -> 0..MaxPairs]
    BY <1>1, StoreTokensAssumption DEF StoreTokensAssumption, TokensInv, StoreTokensTypeOK
  <2>3. met' \in BOOLEAN
    BY <1>2
  <2> QED
    BY <1>1, <1>3, <1>5, <2>1, <2>2, <2>3 DEF TokensInv, StoreTokensTypeOK
<1>8. Undisturbed'
  <2> SUFFICES ASSUME ~met', outages' = 0
               PROVE  /\ UnderWay' = {h}
                      /\ hpc'[h] # "refused"
                      /\ hpc'[h] \in SyncPlaces => held'[h].pair = issued'
                      /\ hpc'[h] \in (SyncPlaces \ {"refreshed"}) \union {"remove"}
                           => store'.pair = issued'
                      /\ hpc'[h] = "save" =>
                           /\ held'[h].pair = Undefined
                           /\ IF task'[h] = "authorize" THEN reauth'[h] = issued'
                                                       ELSE store'.pair = issued'
    BY DEF Undisturbed
  <2>1. UnderWay = {} /\ ~met /\ outages = 0
    BY <1>1, <1>2
  <2>2. store.pair = issued
    BY <2>1 DEF TokensInv, Undisturbed
  <2> QED
    BY <1>1, <1>3, <1>4, <1>5, <1>6, <2>1, <2>2 DEF SyncPlaces
<1>9. CopiesKnow'
  <2>1. \A g \in UnderWay : g # h /\ g \in Handlers
    BY <1>5 DEF UnderWay
  <2>2. endings \in Nat /\ store.status \in StoreStatus
    BY DEF TokensInv, StoreTokensTypeOK, StoreRow
  <2>3. k = "sync" => store'.status = "ACTIVE"
    BY <1>3 DEF Load
  <2>4. /\ held'[h].seen = endings /\ held'[h].status = store'.status
        /\ hpc'[h] \in SyncPlaces => held'[h].status = "ACTIVE"
    BY <1>3, <1>4, <1>5, <1>6, <2>3 DEF TokensInv, CopiesKnow, SyncPlaces
  <2>5. "ACTIVE" \notin Ended
    BY DEF Ended
  <2> QED
    BY <1>1, <1>3, <1>5, <1>6, <2>1, <2>2, <2>4, <2>5 DEF TokensInv, CopiesKnow
<1> QED
  BY <1>7, <1>8, <1>9 DEF TokensInv

-----------------------------------------------------------------------------
(* A handler goes from one place of the synchronisation to another. *)
LEMMA MoveInv ==
  ASSUME TokensInv, NEW h \in Handlers, hpc[h] \in {"loaded", "api"},
         NEW pc \in SyncPlaces \ {"refused", "refreshed"}, Now(h, pc),
         UNCHANGED <<store, task, held, issued, reauth, endings, met, outages, expiries>>
  PROVE  TokensInv'
<1>1. /\ hpc' \in [Handlers -> HandlerPc]
      /\ \A g \in Handlers : hpc'[g] = IF g = h THEN pc ELSE hpc[g]
      /\ UnderWay' = UnderWay /\ h \in UnderWay /\ hpc[h] \in SyncPlaces \ {"refreshed"}
  BY NowOnly DEF TokensInv, HandlerPc, SyncPlaces, UnderWay
<1>2. StoreTokensTypeOK'
  BY <1>1 DEF TokensInv, StoreTokensTypeOK
<1>3. \A g \in UnderWay : g \in Handlers
  BY DEF UnderWay
<1>4. Undisturbed'
  BY <1>1, <1>3 DEF TokensInv, Undisturbed, SyncPlaces
<1>5. CopiesKnow'
  BY <1>1, <1>3 DEF TokensInv, CopiesKnow
<1> QED
  BY <1>2, <1>4, <1>5 DEF TokensInv

LEMMA RefreshInv ==
  ASSUME TokensInv, NEW h \in Handlers, RefreshAccessToken(h)
  PROVE  TokensInv'
<1>0. /\ hpc[h] = "refreshing" /\ h \in UnderWay /\ "refreshing" \in SyncPlaces
      /\ UNCHANGED <<store, task, reauth, endings, met, expiries>>
  BY DEF RefreshAccessToken, UnderWay, SyncPlaces
<1>1. PICK pc \in {"refreshed", "refused"} : Now(h, pc)
  BY DEF RefreshAccessToken
<1>2. /\ hpc' \in [Handlers -> HandlerPc]
      /\ \A g \in Handlers : hpc'[g] = IF g = h THEN pc ELSE hpc[g]
      /\ UnderWay' = UnderWay
  BY <1>0, <1>1, NowOnly DEF TokensInv, HandlerPc
<1>3. \A g \in UnderWay : g \in Handlers
  BY DEF UnderWay
<1>4. /\ issued' \in 1..MaxPairs /\ outages' \in 0..MaxOutages
      /\ held' \in [Handlers -> StoreRow]
      /\ \A g \in Handlers : /\ held'[g].seen = held[g].seen
                             /\ held'[g].status = held[g].status
      /\ ~met /\ outages' = 0 =>
           pc = "refreshed" /\ held'[h].pair = issued' /\ outages = 0
  <2>1. MaxPairs \in Nat \ {0} /\ MaxOutages \in Nat
    BY StoreTokensAssumption DEF StoreTokensAssumption
  <2>2. /\ issued \in 1..MaxPairs /\ outages \in 0..MaxOutages
        /\ held \in [Handlers -> StoreRow] /\ hpc \in [Handlers -> HandlerPc]
    BY DEF TokensInv, StoreTokensTypeOK
  <2>3. ~met /\ outages = 0 => held[h].pair = issued
    BY <1>0 DEF TokensInv, Undisturbed
  <2>4. CASE /\ held[h].pair = issued /\ issued < MaxPairs /\ issued' = issued + 1
             /\ held' = [held EXCEPT ![h].pair = issued + 1, ![h].fresh = TRUE]
             /\ Now(h, "refreshed") /\ UNCHANGED outages
    <3>1. issued + 1 \in 0..MaxPairs /\ issued + 1 \in 1..MaxPairs
      BY <2>1, <2>2, <2>4
    <3>2. held' = [held EXCEPT ![h] = [held[h] EXCEPT !.pair = issued + 1, !.fresh = TRUE]]
      BY <2>4
    <3>3. [held[h] EXCEPT !.pair = issued + 1, !.fresh = TRUE] \in StoreRow
      BY <2>2, <3>1 DEF StoreRow
    <3>4. /\ [held[h] EXCEPT !.pair = issued + 1, !.fresh = TRUE].pair = issued + 1
          /\ [held[h] EXCEPT !.pair = issued + 1, !.fresh = TRUE].seen = held[h].seen
          /\ [held[h] EXCEPT !.pair = issued + 1, !.fresh = TRUE].status = held[h].status
      BY <2>2 DEF StoreRow
    <3>5. pc = "refreshed"
      BY <1>1, <2>2, <2>4 DEF Now
    <3> QED
      BY <2>2, <2>4, <3>1, <3>2, <3>3, <3>4, <3>5
  <2>5. CASE /\ issued < MaxPairs /\ issued' = issued + 1
             /\ Outage /\ UNCHANGED held
    BY <2>1, <2>2, <2>5 DEF Outage
  <2>6. CASE held[h].pair # issued /\ UNCHANGED <<issued, held, outages>>
    BY <2>2, <2>3, <2>6
  <2>7. CASE Outage /\ UNCHANGED <<issued, held>>
    BY <2>1, <2>2, <2>7 DEF Outage
  <2> QED
    BY <2>4, <2>5, <2>6, <2>7 DEF RefreshAccessToken
<1>5. StoreTokensTypeOK'
  BY <1>0, <1>2, <1>4 DEF TokensInv, StoreTokensTypeOK
<1>6. Undisturbed'
  BY <1>0, <1>2, <1>3, <1>4 DEF TokensInv, Undisturbed, SyncPlaces
<1>7. CopiesKnow'
  BY <1>0, <1>2, <1>3, <1>4 DEF TokensInv, CopiesKnow
<1> QED
  BY <1>5, <1>6, <1>7 DEF TokensInv

(* A copy is saved on the way or at the end of a synchronisation. *)
LEMMA SaveCopyInv ==
  ASSUME TokensInv, NEW h \in Handlers, NEW copy \in StoreRow,
         hpc[h] \in {"refreshed", "refused", "synced", "failed"},
         copy.pair = held[h].pair, copy.status \in {held[h].status, "TOKEN_EXPIRED"},
         copy.seen = held[h].seen,
         store' = Saved(copy), held' = [held EXCEPT ![h] = copy],
         NEW pc \in {"api", "failed", "over"}, Now(h, pc),
         pc = "api" => hpc[h] = "refreshed",
         UNCHANGED <<task, issued, reauth, endings, met, outages, expiries>>
  PROVE  TokensInv'
<1>0. h \in UnderWay /\ hpc[h] \in SyncPlaces
  BY DEF UnderWay, SyncPlaces
<1>1. /\ hpc' \in [Handlers -> HandlerPc]
      /\ \A g \in Handlers : hpc'[g] = IF g = h THEN pc ELSE hpc[g]
      /\ UnderWay' = IF pc = "over" THEN UnderWay \ {h} ELSE UnderWay
  BY NowOnly DEF TokensInv, HandlerPc
<1>2. \A g \in UnderWay : g \in Handlers
  BY DEF UnderWay
<1>3. /\ store' \in StoreRow /\ store'.status = copy.status /\ store'.seen = endings
      /\ store'.pair = IF copy.pair = Undefined THEN store.pair ELSE copy.pair
  BY SavedRow DEF TokensInv
<1>4. /\ held' \in [Handlers -> StoreRow]
      /\ \A g \in Handlers : held'[g] = IF g = h THEN copy ELSE held[g]
  BY DEF TokensInv, StoreTokensTypeOK
<1>5. StoreTokensTypeOK'
  BY <1>1, <1>3, <1>4 DEF TokensInv, StoreTokensTypeOK
<1>6. copy.status \in {"ACTIVE", "TOKEN_EXPIRED"}
  BY <1>0 DEF TokensInv, CopiesKnow
<1>7. Undisturbed'
  <2> SUFFICES ASSUME ~met, outages = 0
               PROVE  Undisturbed'
    BY DEF Undisturbed
  <2>1. /\ UnderWay = {h} /\ held[h].pair = issued /\ hpc[h] # "refused"
        /\ issued # Undefined
    BY <1>0, StoreTokensAssumption
       DEF TokensInv, Undisturbed, StoreTokensTypeOK, StoreTokensAssumption, Undefined
  <2> QED
    BY <1>1, <1>3, <1>4, <2>1 DEF Undisturbed, SyncPlaces
<1>8. CopiesKnow'
  BY <1>0, <1>1, <1>2, <1>3, <1>4, <1>6 DEF TokensInv, CopiesKnow, Ended
<1> QED
  BY <1>5, <1>7, <1>8 DEF TokensInv

LEMMA SyncSavesInv ==
  ASSUME TokensInv, NEW h \in Handlers, SaveTokens(h) \/ SaveExpired(h) \/ SaveSync(h)
  PROVE  TokensInv'
<1>0. held[h] \in StoreRow /\ held \in [Handlers -> StoreRow]
  BY DEF TokensInv, StoreTokensTypeOK
<1>1. CASE SaveTokens(h)
  <2>1. /\ hpc[h] = "refreshed" /\ h \in UnderWay /\ hpc[h] \in SyncPlaces
        /\ UNCHANGED <<task, held, issued, reauth, endings, met, expiries>>
    BY <1>1 DEF SaveTokens, UnderWay, SyncPlaces
  <2>2. CASE store' = Saved(held[h]) /\ Now(h, "api") /\ UNCHANGED outages
    <3>1. held' = [held EXCEPT ![h] = held[h]]
      BY <1>0, <2>1
    <3> QED
      BY <1>0, <2>1, <2>2, <3>1, SaveCopyInv
  <2>3. CASE Outage /\ Now(h, "refused") /\ UNCHANGED store
    <3>1. outages' \in 0..MaxOutages /\ outages' # 0
      BY <2>3, StoreTokensAssumption
         DEF Outage, TokensInv, StoreTokensTypeOK, StoreTokensAssumption
    <3>2. /\ hpc' \in [Handlers -> HandlerPc] /\ UnderWay' = UnderWay
          /\ \A g \in UnderWay : g \in Handlers
          /\ \A g \in Handlers : hpc'[g] = IF g = h THEN "refused" ELSE hpc[g]
      BY <2>1, <2>3, NowOnly DEF TokensInv, HandlerPc, UnderWay
    <3>3. StoreTokensTypeOK'
      BY <2>1, <2>3, <3>1, <3>2 DEF TokensInv, StoreTokensTypeOK
    <3>4. CopiesKnow' /\ Undisturbed'
      BY <2>1, <2>3, <3>1, <3>2 DEF TokensInv, CopiesKnow, Undisturbed
    <3> QED
      BY <3>3, <3>4 DEF TokensInv
  <2> QED
    BY <1>1, <2>2, <2>3 DEF SaveTokens
<1>2. CASE SaveExpired(h)
  <2> DEFINE copy == [held[h] EXCEPT !.status = "TOKEN_EXPIRED"]
  <2>1. /\ copy \in StoreRow /\ copy.pair = held[h].pair /\ copy.seen = held[h].seen
        /\ copy.status = "TOKEN_EXPIRED"
    BY <1>0 DEF StoreRow, StoreStatus
  <2>2. held' = [held EXCEPT ![h] = copy] /\ held'[h] = copy
    BY <1>0, <1>2 DEF SaveExpired
  <2>3. /\ hpc[h] = "refused" /\ store' = Saved(copy) /\ Now(h, "failed")
        /\ UNCHANGED <<task, issued, reauth, endings, met, outages, expiries>>
    BY <1>2, <2>2 DEF SaveExpired
  <2> HIDE DEF copy
  <2> QED
    BY <2>1, <2>2, <2>3, SaveCopyInv
<1>3. CASE SaveSync(h)
  <2>1. held' = [held EXCEPT ![h] = held[h]]
    BY <1>0, <1>3 DEF SaveSync
  <2> QED
    BY <1>0, <1>3, <2>1, SaveCopyInv DEF SaveSync
<1> QED
  BY <1>1, <1>2, <1>3

LEMMA EditedRow ==
  ASSUME TokensInv, NEW h \in Handlers
  PROVE  /\ Edited(h) \in StoreRow
         /\ Edited(h).pair = IF task[h] = "authorize" THEN reauth[h] ELSE held[h].pair
         /\ Edited(h).status # held[h].status /\ Edited(h).status = "ACTIVE"
              => task[h] = "authorize"
<1>1. /\ held[h] \in StoreRow /\ store \in StoreRow /\ task[h] \in Tasks
      /\ reauth[h] \in 0..MaxPairs
  BY DEF TokensInv, StoreTokensTypeOK
<1>2. CASE task[h] = "authorize"
  <2>1. Edited(h) = [held[h] EXCEPT !.status = "ACTIVE", !.pair = reauth[h], !.fresh = TRUE]
    BY <1>2 DEF Edited
  <2> QED
    BY <1>1, <1>2, <2>1 DEF StoreRow, StoreStatus
<1>3. CASE task[h] = "disconnect"
  <2>1. Edited(h) = [held[h] EXCEPT !.status = "DISCONNECTED", !.fresh = store.fresh]
    BY <1>3 DEF Edited
  <2> QED
    BY <1>1, <1>3, <2>1 DEF StoreRow, StoreStatus
<1>4. CASE task[h] \in {"uninstall", "delete"}
  <2>1. Edited(h) = [held[h] EXCEPT !.status = "UNINSTALLED", !.fresh = store.fresh]
    BY <1>4 DEF Edited
  <2> QED
    BY <1>1, <1>4, <2>1 DEF StoreRow, StoreStatus
<1>5. CASE task[h] \notin {"authorize", "disconnect", "uninstall", "delete"}
  <2>1. Edited(h) = held[h]
    BY <1>5 DEF Edited
  <2> QED
    BY <1>1, <1>5, <2>1
<1> QED
  BY <1>2, <1>3, <1>4, <1>5

(* An ending is counted as it is saved, so every copy made before is older. *)
LEMMA SaveEditInv ==
  ASSUME TokensInv, NEW h \in Handlers, SaveEdit(h)
  PROVE  TokensInv'
<1> DEFINE edited == Saved(Edited(h))
<1> DEFINE pc == IF task[h] = "delete" THEN "remove" ELSE "over"
<1>1. /\ hpc[h] = "save" /\ Now(h, pc) /\ h \in UnderWay
      /\ endings' = IF edited.status \in Ended THEN endings + 1 ELSE endings
      /\ store' = [edited EXCEPT !.seen = endings']
      /\ UNCHANGED <<task, held, issued, reauth, met, outages, expiries>>
  BY DEF SaveEdit, UnderWay
<1>2. /\ hpc' \in [Handlers -> HandlerPc]
      /\ \A g \in Handlers : hpc'[g] = IF g = h THEN pc ELSE hpc[g]
      /\ UnderWay' = IF pc = "over" THEN UnderWay \ {h} ELSE UnderWay
  BY <1>1, NowOnly DEF TokensInv, HandlerPc
<1>3. \A g \in UnderWay : g \in Handlers
  BY DEF UnderWay
<1>4. /\ edited \in StoreRow
      /\ edited.pair = IF task[h] = "authorize" /\ reauth[h] # Undefined THEN reauth[h]
                       ELSE IF task[h] # "authorize" /\ held[h].pair # Undefined
                              THEN held[h].pair ELSE store.pair
  BY EditedRow, SavedRow DEF TokensInv
<1>5. endings' \in Nat /\ endings \in Nat /\ endings' \in {endings, endings + 1}
  BY <1>1 DEF TokensInv, StoreTokensTypeOK
<1>6. /\ store' \in StoreRow /\ store'.status = edited.status
      /\ store'.pair = edited.pair /\ store'.seen = endings'
  <2> HIDE DEF edited
  <2> QED
    BY <1>1, <1>4, <1>5 DEF StoreRow
<1>7. StoreTokensTypeOK'
  BY <1>1, <1>2, <1>5, <1>6 DEF TokensInv, StoreTokensTypeOK
<1>8. Undisturbed'
  <2> SUFFICES ASSUME ~met, outages = 0
               PROVE  Undisturbed'
    BY <1>1 DEF Undisturbed
  <2>1. /\ UnderWay = {h} /\ held[h].pair = Undefined /\ issued # Undefined
        /\ IF task[h] = "authorize" THEN reauth[h] = issued ELSE store.pair = issued
    BY <1>1, StoreTokensAssumption
       DEF TokensInv, Undisturbed, StoreTokensTypeOK, StoreTokensAssumption, Undefined
  <2>2. store'.pair = issued
    BY <1>4, <1>6, <2>1
  <2> QED
    BY <1>1, <1>2, <2>1, <2>2 DEF Undisturbed, SyncPlaces
<1>9. CopiesKnow'
  <2>1. /\ \A g \in UnderWay : held[g].seen <= endings /\ held[g].seen \in Nat
        /\ store'.status \in Ended => endings' = endings + 1
    BY <1>1, <1>3, <1>6 DEF TokensInv, CopiesKnow, StoreTokensTypeOK, StoreRow
  <2>2. \A g \in UnderWay' : g \in UnderWay /\ held'[g] = held[g]
                             /\ (hpc'[g] \in SyncPlaces => hpc[g] \in SyncPlaces)
    BY <1>1, <1>2, <1>3 DEF SyncPlaces
  <2>3. \A g \in UnderWay : hpc[g] \in SyncPlaces
                              => held[g].status \in {"ACTIVE", "TOKEN_EXPIRED"}
    BY DEF TokensInv, CopiesKnow
  <2>4. store'.seen = endings'
    BY <1>6
  <2> HIDE DEF edited
  <2> QED
    BY <1>5, <2>1, <2>2, <2>3, <2>4 DEF CopiesKnow
<1> QED
  BY <1>7, <1>8, <1>9 DEF TokensInv

LEMMA SoftRemoveInv ==
  ASSUME TokensInv, NEW h \in Handlers, SoftRemove(h)
  PROVE  TokensInv'
<1>1. /\ hpc[h] = "remove" /\ Now(h, "over") /\ h \in UnderWay
      /\ store' = [store EXCEPT !.deleted = TRUE]
      /\ UNCHANGED <<task, held, issued, reauth, endings, met, outages, expiries>>
  BY DEF SoftRemove, UnderWay
<1>2. /\ hpc' \in [Handlers -> HandlerPc] /\ UnderWay' = UnderWay \ {h}
      /\ \A g \in Handlers : hpc'[g] = IF g = h THEN "over" ELSE hpc[g]
      /\ \A g \in UnderWay : g \in Handlers
  BY <1>1, NowOnly DEF TokensInv, HandlerPc, UnderWay
<1>3. /\ store' \in StoreRow /\ store'.pair = store.pair /\ store'.seen = store.seen
      /\ store'.status = store.status
  BY <1>1 DEF TokensInv, StoreTokensTypeOK, StoreRow
<1>4. StoreTokensTypeOK'
  BY <1>1, <1>2, <1>3 DEF TokensInv, StoreTokensTypeOK
<1>5. Undisturbed'
  BY <1>1, <1>2, <1>3 DEF TokensInv, Undisturbed
<1>6. CopiesKnow'
  BY <1>1, <1>2, <1>3 DEF TokensInv, CopiesKnow
<1> QED
  BY <1>4, <1>5, <1>6 DEF TokensInv

LEMMA RecoverInv ==
  ASSUME TokensInv, Recover
  PROVE  TokensInv'
<1>1. /\ store' = [store EXCEPT !.deleted = FALSE, !.status = "ACTIVE"]
      /\ UNCHANGED <<hpc, task, held, issued, reauth, endings, met, outages, expiries>>
  BY DEF Recover
<1>2. /\ store' \in StoreRow /\ store'.pair = store.pair /\ store'.seen = store.seen
      /\ store'.status = "ACTIVE" /\ UnderWay' = UnderWay
  BY <1>1 DEF TokensInv, StoreTokensTypeOK, StoreRow, StoreStatus, UnderWay
<1>3. StoreTokensTypeOK'
  BY <1>1, <1>2 DEF TokensInv, StoreTokensTypeOK
<1>4. Undisturbed'
  BY <1>1, <1>2 DEF TokensInv, Undisturbed
<1>5. CopiesKnow'
  BY <1>1, <1>2 DEF TokensInv, CopiesKnow, Ended
<1> QED
  BY <1>3, <1>4, <1>5 DEF TokensInv

LEMMA TokenExpiresInv ==
  ASSUME TokensInv, TokenExpires
  PROVE  TokensInv'
<1>1. /\ store' = [store EXCEPT !.fresh = FALSE]
      /\ held' = [h \in Handlers |-> [held[h] EXCEPT !.fresh = FALSE]]
      /\ UNCHANGED <<hpc, task, issued, reauth, endings, met, outages>>
  BY DEF TokenExpires
<1>2. /\ store' \in StoreRow /\ store'.pair = store.pair /\ store'.seen = store.seen
      /\ store'.status = store.status /\ UnderWay' = UnderWay
  BY <1>1 DEF TokensInv, StoreTokensTypeOK, StoreRow, UnderWay
<1>3. \A g \in Handlers : /\ held'[g] \in StoreRow /\ held'[g].pair = held[g].pair
                          /\ held'[g].seen = held[g].seen
                          /\ held'[g].status = held[g].status
  BY <1>1 DEF TokensInv, StoreTokensTypeOK, StoreRow
<1>4. held' \in [Handlers -> StoreRow]
  BY <1>1, <1>3
<1>5. expiries' \in 0..MaxExpiries
  BY StoreTokensAssumption
     DEF TokenExpires, TokensInv, StoreTokensTypeOK, StoreTokensAssumption
<1>6. StoreTokensTypeOK'
  BY <1>1, <1>2, <1>4, <1>5 DEF TokensInv, StoreTokensTypeOK
<1>7. \A g \in UnderWay : g \in Handlers
  BY DEF UnderWay
<1>8. Undisturbed'
  BY <1>1, <1>2, <1>3, <1>7 DEF TokensInv, Undisturbed
<1>9. CopiesKnow'
  BY <1>1, <1>2, <1>3, <1>7 DEF TokensInv, CopiesKnow
<1> QED
  BY <1>6, <1>8, <1>9 DEF TokensInv

LEMMA StoreCrashInv ==
  ASSUME TokensInv, StoreCrash
  PROVE  TokensInv'
<1>1. /\ hpc' = [h \in Handlers |-> IF h \in UnderWay THEN "over" ELSE hpc[h]]
      /\ UNCHANGED <<store, task, held, issued, reauth, endings, met, expiries>>
  BY DEF StoreCrash
<1>2. outages' \in 0..MaxOutages /\ outages' # 0
  BY StoreTokensAssumption
     DEF StoreCrash, Outage, TokensInv, StoreTokensTypeOK, StoreTokensAssumption
<1>3. UnderWay' = {} /\ hpc' \in [Handlers -> HandlerPc]
  BY <1>1 DEF UnderWay, TokensInv, StoreTokensTypeOK, HandlerPc
<1>4. StoreTokensTypeOK'
  BY <1>1, <1>2, <1>3 DEF TokensInv, StoreTokensTypeOK
<1>5. Undisturbed' /\ CopiesKnow'
  BY <1>1, <1>2, <1>3 DEF TokensInv, Undisturbed, CopiesKnow
<1> QED
  BY <1>4, <1>5 DEF TokensInv

LEMMA TokensStutterInv == TokensInv /\ UNCHANGED storeVars => TokensInv'
BY DEF TokensInv, StoreTokensTypeOK, Undisturbed, CopiesKnow, UnderWay, storeVars

LEMMA TokensStepInv == TokensInv /\ [StoreTokensNext]_storeVars => TokensInv'
<1> SUFFICES ASSUME TokensInv, [StoreTokensNext]_storeVars
             PROVE  TokensInv'
  OBVIOUS
<1>1. ASSUME NEW h \in Handlers, NEW k \in Tasks \ {"none"}, Load(h, k)
      PROVE  TokensInv'
  BY <1>1, LoadInv
<1>2. ASSUME NEW h \in Handlers, EnsureValidToken(h) \/ SyncSallaStore(h)
      PROVE  TokensInv'
  <2>1. PICK pc \in {"refreshing", "api", "synced", "failed"} : Now(h, pc)
    BY <1>2 DEF EnsureValidToken, SyncSallaStore
  <2>2. pc \in SyncPlaces \ {"refused", "refreshed"}
    BY DEF SyncPlaces
  <2>3. /\ hpc[h] \in {"loaded", "api"}
        /\ UNCHANGED <<store, task, held, issued, reauth, endings, met, outages, expiries>>
    BY <1>2 DEF EnsureValidToken, SyncSallaStore
  <2> QED
    BY <2>1, <2>2, <2>3, MoveInv
<1>3. ASSUME NEW h \in Handlers, RefreshAccessToken(h)
      PROVE  TokensInv'
  BY <1>3, RefreshInv
<1>4. ASSUME NEW h \in Handlers, SaveTokens(h) \/ SaveExpired(h) \/ SaveSync(h)
      PROVE  TokensInv'
  BY <1>4, SyncSavesInv
<1>5. ASSUME NEW h \in Handlers, SaveEdit(h) \/ SoftRemove(h)
      PROVE  TokensInv'
  BY <1>5, SaveEditInv, SoftRemoveInv
<1>6. CASE Recover \/ TokenExpires \/ StoreCrash \/ UNCHANGED storeVars
  BY <1>6, RecoverInv, TokenExpiresInv, StoreCrashInv, TokensStutterInv
<1> QED
  BY <1>1, <1>2, <1>3, <1>4, <1>5, <1>6 DEF StoreTokensNext

LEMMA TokensSafe == StoreTokensSpec => []TokensInv
BY TokensInitInv, TokensStepInv, PTL DEF StoreTokensSpec

-----------------------------------------------------------------------------
(* A copy as new as the last ending cannot make an ended store ACTIVE.      *)
LEMMA SavedCopyStaysEnded ==
  ASSUME TokensInv, NEW h \in UnderWay, NEW copy \in StoreRow,
         store.status \in Ended, store' = Saved(copy), store'.status = "ACTIVE",
         copy.status = held[h].status
  PROVE  held[h].seen < endings
<1>1. /\ held[h].seen <= endings /\ held[h].status = "ACTIVE"
      /\ held[h].seen # endings
  BY SavedRow DEF TokensInv, CopiesKnow
<1>2. held[h].seen \in Nat /\ endings \in Nat
  BY DEF TokensInv, StoreTokensTypeOK, StoreRow, UnderWay
<1> QED
  BY <1>1, <1>2

LEMMA EndedStep ==
  TokensInv /\ [StoreTokensNext]_storeVars
    => [store.status \in Ended /\ store'.status = "ACTIVE"
          => \/ store.deleted
             \/ \E h \in UnderWay : task[h] = "authorize" \/ held[h].seen < endings
       ]_storeVars
<1> SUFFICES ASSUME TokensInv, StoreTokensNext,
                    store.status \in Ended, store'.status = "ACTIVE", ~store.deleted
             PROVE  \E h \in UnderWay : task[h] = "authorize" \/ held[h].seen < endings
  OBVIOUS
<1>1. store \in StoreRow /\ held \in [Handlers -> StoreRow] /\ store'.status # store.status
  BY DEF TokensInv, StoreTokensTypeOK, Ended
<1>2. ASSUME NEW h \in Handlers, NEW k \in Tasks \ {"none"}, Load(h, k)
      PROVE  FALSE
  BY <1>1, <1>2, LookedRow DEF Load, TokensInv
<1>3. ASSUME NEW h \in Handlers, SaveTokens(h) \/ SaveSync(h)
      PROVE  held[h].seen < endings /\ h \in UnderWay
  <2>1. h \in UnderWay /\ (store' = Saved(held[h]) \/ UNCHANGED store)
    BY <1>3 DEF SaveTokens, SaveSync, UnderWay
  <2> QED
    BY <1>1, <2>1, SavedCopyStaysEnded
<1>4. ASSUME NEW h \in Handlers, SaveExpired(h)
      PROVE  FALSE
  <2>1. held'[h] = [held[h] EXCEPT !.status = "TOKEN_EXPIRED"]
    BY <1>1, <1>4 DEF SaveExpired
  <2>2. held'[h] \in StoreRow /\ held'[h].status = "TOKEN_EXPIRED"
    BY <1>1, <2>1 DEF StoreRow, StoreStatus
  <2> QED
    BY <1>4, <2>2, SavedRow DEF SaveExpired, TokensInv
<1>5. ASSUME NEW h \in Handlers, SaveEdit(h)
      PROVE  h \in UnderWay /\ (task[h] = "authorize" \/ held[h].seen < endings)
  <2>1. h \in UnderWay /\ Saved(Edited(h)) \in StoreRow
    BY <1>5, EditedRow, SavedRow DEF SaveEdit, UnderWay, TokensInv
  <2>2. Saved(Edited(h)).status = "ACTIVE"
    BY <1>5, <2>1 DEF SaveEdit, StoreRow
  <2>3. Edited(h).status = "ACTIVE"
    BY <2>2, EditedRow, SavedRow DEF TokensInv
  <2>4. task[h] = "authorize" \/ held[h].status = "ACTIVE"
    BY <2>3, EditedRow
  <2>5. held[h].status = "ACTIVE" => held[h].seen # endings /\ held[h].seen <= endings
    BY <2>1 DEF TokensInv, CopiesKnow
  <2>6. held[h].seen \in Nat /\ endings \in Nat
    BY DEF TokensInv, StoreTokensTypeOK, StoreRow
  <2> QED
    BY <2>1, <2>4, <2>5, <2>6
<1>6. ASSUME NEW h \in Handlers, SoftRemove(h)
      PROVE  FALSE
  BY <1>1, <1>6 DEF SoftRemove, StoreRow
<1>7. ASSUME NEW h \in Handlers,
             EnsureValidToken(h) \/ RefreshAccessToken(h) \/ SyncSallaStore(h)
      PROVE  FALSE
  BY <1>1, <1>7 DEF EnsureValidToken, RefreshAccessToken, SyncSallaStore
<1>8. CASE Recover
  BY <1>8 DEF Recover
<1>9. CASE TokenExpires
  BY <1>1, <1>9 DEF TokenExpires, StoreRow
<1>10. CASE StoreCrash
  BY <1>1, <1>10 DEF StoreCrash
<1> QED
  BY <1>2, <1>3, <1>4, <1>5, <1>6, <1>7, <1>8, <1>9, <1>10 DEF StoreTokensNext

-----------------------------------------------------------------------------
(* Every variable of the store keeps its type, for any set of handlers.     *)
THEOREM StoreTokensTypeCorrect == StoreTokensSpec => []StoreTokensTypeOK
<1>1. TokensInv => StoreTokensTypeOK
  BY DEF TokensInv
<1> QED
  BY <1>1, TokensSafe, PTL

(* Handlers that never meet, and answers that are never lost, leave the row *)
(* with the pair whose refresh token Salla still honours.                   *)
THEOREM RowHoldsNewestPair == StoreTokensSpec => []TokenStillGood
<1>1. TokensInv => TokenStillGood
  BY DEF TokensInv, Undisturbed, TokenStillGood
<1> QED
  BY <1>1, TokensSafe, PTL

(* However many handlers save copies of the row, an ended store is ACTIVE   *)
(* again only by authorisation, recovery or a copy older than the ending.   *)
THEOREM NoSilentRevival == StoreTokensSpec => EndedStaysEnded
<1>1. StoreTokensSpec => [][StoreTokensNext]_storeVars
  BY PTL DEF StoreTokensSpec
<1> QED
  BY <1>1, TokensSafe, EndedStep, PTL DEF EndedStaysEnded

-----------------------------------------------------------------------------
(* A copy as new as the last ending is not on while the automation is off,  *)
(* and the copy of a run was on when the run began.                         *)
CopiesAreOld ==
    \A h \in AtWork :
      /\ stage[h] # "found" => knows[h] <= offs
      /\ stage[h] # "found" /\ ~On(automation) /\ On(draft[h]) => knows[h] < offs
      /\ stage[h] \in {"act", "failed"} => On(draft[h])
      /\ stage[h] = "save" => draft[h].there

(* A run sends no more than its actions, and nothing before it has begun.   *)
RunsAreBounded ==
    \A h \in Hands : /\ delivered[h] + actionsLeft[h] <= ActionCount
                     /\ stage[h] \in {"idle", "found"} => delivered[h] = 0

AutomationsInv == AutomationsTypeOK /\ CopiesAreOld /\ RunsAreBounded

LEMMA OnType == \A row \in AutomationRow : On(row) \in BOOLEAN
BY DEF AutomationRow, On

LEMMA AutomationsInitInv == AutomationsInit => AutomationsInv
<1> SUFFICES ASSUME AutomationsInit PROVE AutomationsInv
  OBVIOUS
<1>1. NewAutomation \in AutomationRow
  BY DEF NewAutomation, AutomationRow
<1>2. AutomationsTypeOK
  BY <1>1, AutomationsAssumption
     DEF AutomationsAssumption, AutomationsInit, AutomationsTypeOK, Stages, Errands
<1>3. AtWork = {}
  BY DEF AutomationsInit, AtWork
<1> QED
  BY <1>2, <1>3, AutomationsAssumption
     DEF AutomationsAssumption, AutomationsInit, AutomationsInv, CopiesAreOld,
         RunsAreBounded

LEMMA BlunderType == AutomationsTypeOK /\ Blunder => blunders' \in 0..MaxBlunders
BY AutomationsAssumption DEF AutomationsAssumption, AutomationsTypeOK, Blunder

LEMMA GoesType ==
  ASSUME AutomationsTypeOK, NEW h \in Hands, NEW s \in Stages, Goes(h, s)
  PROVE  /\ stage' \in [Hands -> Stages]
         /\ \A g \in Hands : stage'[g] = IF g = h THEN s ELSE stage[g]
BY DEF AutomationsTypeOK, Goes

LEMMA CopyType ==
  ASSUME AutomationsTypeOK, NEW h \in Hands, TakesCopy(h)
  PROVE  /\ draft' \in [Hands -> AutomationRow] /\ knows' \in [Hands -> Nat]
         /\ \A g \in Hands : /\ draft'[g] = IF g = h THEN automation ELSE draft[g]
                             /\ knows'[g] = IF g = h THEN offs ELSE knows[g]
BY DEF AutomationsTypeOK, TakesCopy

(* A row that changes is as a copy says, or goes off. *)
LEMMA BecomesType ==
  ASSUME AutomationsTypeOK, NEW row \in AutomationRow, Becomes(row)
  PROVE  /\ automation' \in AutomationRow /\ offs' \in Nat /\ offs' >= offs
         /\ On(automation) /\ ~On(automation') => offs' = offs + 1
         /\ ~On(automation) => offs' = offs
BY DEF AutomationsTypeOK, Becomes

LEMMA SaveType ==
  ASSUME AutomationsTypeOK, NEW copy \in AutomationRow, Save(copy)
  PROVE  /\ [copy EXCEPT !.there = TRUE] \in AutomationRow
         /\ Becomes([copy EXCEPT !.there = TRUE])
         /\ On(automation') => copy.enabled
<1>1. [copy EXCEPT !.there = TRUE] \in AutomationRow
  BY DEF AutomationRow
<1>2. [copy EXCEPT !.there = TRUE].enabled = copy.enabled
  BY DEF AutomationRow
<1> QED
  BY <1>1, <1>2 DEF Save, Becomes, On

(* When a call has moved on and the rest of the row's copies stand, the     *)
(* copies are still old; so only what the call itself holds is to be shown. *)
LEMMA CopiesStayOld ==
  ASSUME AutomationsInv, NEW h \in Hands, NEW s \in Stages, Goes(h, s),
         AutomationsTypeOK', offs' >= offs,
         On(automation) /\ ~On(automation') => offs' = offs + 1,
         draft' = draft, knows' = knows,
         s \notin {"idle", "found", "over"} =>
           /\ stage[h] \notin {"idle", "found", "over"}
           /\ s \in {"act", "failed"} => stage[h] \in {"act", "failed"}
           /\ s = "save" => stage[h] = "save"
  PROVE  CopiesAreOld'
<1> SUFFICES ASSUME NEW g \in Hands, stage'[g] \notin {"idle", "over"}
             PROVE  /\ stage'[g] # "found" => knows'[g] <= offs'
                    /\ stage'[g] # "found" /\ ~On(automation') /\ On(draft'[g])
                         => knows'[g] < offs'
                    /\ stage'[g] \in {"act", "failed"} => On(draft'[g])
                    /\ stage'[g] = "save" => draft'[g].there
  BY DEF CopiesAreOld, AtWork
<1>1. stage'[g] = IF g = h THEN s ELSE stage[g]
  BY GoesType DEF AutomationsInv
<1>2. CASE stage'[g] = "found"
  BY <1>2
<1>3. CASE stage'[g] # "found"
  <2>1. stage[g] \notin {"idle", "found", "over"}
    BY <1>1, <1>3
  <2>2. g \in AtWork
    BY <2>1 DEF AtWork
  <2>3. /\ knows[g] <= offs
        /\ ~On(automation) /\ On(draft[g]) => knows[g] < offs
        /\ stage[g] \in {"act", "failed"} => On(draft[g])
        /\ stage[g] = "save" => draft[g].there
    BY <2>1, <2>2 DEF AutomationsInv, CopiesAreOld
  <2>4. offs \in Nat /\ offs' \in Nat /\ knows[g] \in Nat
    BY DEF AutomationsInv, AutomationsTypeOK
  <2>5. knows'[g] <= offs'
    BY <2>3, <2>4
  <2>6. ~On(automation') /\ On(draft'[g]) => knows'[g] < offs'
    BY <2>3, <2>4
  <2>7. /\ stage'[g] \in {"act", "failed"} => On(draft'[g])
        /\ stage'[g] = "save" => draft'[g].there
    BY <1>1, <2>3
  <2> QED
    BY <2>5, <2>6, <2>7
<1> QED
  BY <1>2, <1>3

LEMMA TriggerInv ==
  ASSUME AutomationsInv, NEW h \in Hands, TriggerAutomations(h)
  PROVE  AutomationsInv'
<1> "found" \in Stages /\ "execute" \in Errands
  BY DEF Stages, Errands
<1>1. AutomationsTypeOK'
  BY GoesType DEF AutomationsInv, AutomationsTypeOK, TriggerAutomations
<1>2. CopiesAreOld'
  BY <1>1, CopiesStayOld DEF AutomationsInv, AutomationsTypeOK, TriggerAutomations
<1>3. RunsAreBounded'
  BY GoesType DEF AutomationsInv, RunsAreBounded, TriggerAutomations
<1> QED
  BY <1>1, <1>2, <1>3 DEF AutomationsInv

LEMMA TakesCopyInv ==
  ASSUME AutomationsInv, NEW h \in Hands, NEW s \in Stages, Goes(h, s), TakesCopy(h),
         s # "idle", s \in {"act", "failed"} => On(automation),
         s = "save" => automation.there, UNCHANGED <<automation, offs>>
  PROVE  CopiesAreOld'
<1> SUFFICES ASSUME NEW g \in Hands, stage'[g] \notin {"idle", "over"}
             PROVE  /\ stage'[g] # "found" => knows'[g] <= offs'
                    /\ stage'[g] # "found" /\ ~On(automation') /\ On(draft'[g])
                         => knows'[g] < offs'
                    /\ stage'[g] \in {"act", "failed"} => On(draft'[g])
                    /\ stage'[g] = "save" => draft'[g].there
  BY DEF CopiesAreOld, AtWork
<1>1. /\ stage'[g] = IF g = h THEN s ELSE stage[g]
      /\ draft'[g] = IF g = h THEN automation ELSE draft[g]
      /\ knows'[g] = IF g = h THEN offs ELSE knows[g]
  BY GoesType, CopyType DEF AutomationsInv
<1>2. CASE g = h
  <2>1. offs \in Nat
    BY DEF AutomationsInv, AutomationsTypeOK
  <2> QED
    BY <1>1, <1>2, <2>1
<1>3. CASE g # h
  <2>1. g \in AtWork
    BY <1>1, <1>3 DEF AtWork
  <2> QED
    BY <1>1, <1>3, <2>1 DEF AutomationsInv, CopiesAreOld
<1> QED
  BY <1>2, <1>3

LEMMA LoadAutomationInv ==
  ASSUME AutomationsInv, NEW h \in Hands, LoadAutomation(h)
  PROVE  AutomationsInv'
<1> "act" \in Stages /\ "over" \in Stages
  BY DEF Stages
<1>1. stage[h] = "found" /\ delivered[h] = 0 /\ ActionCount \in Nat
  BY AutomationsAssumption
     DEF AutomationsAssumption, AutomationsInv, RunsAreBounded, LoadAutomation
<1>2. CASE On(automation)
  <2>1. /\ TakesCopy(h) /\ Goes(h, "act")
        /\ actionsLeft' = [actionsLeft EXCEPT ![h] = ActionCount]
        /\ UNCHANGED <<automation, errand, delivered, offs, blunders>>
    BY <1>2 DEF LoadAutomation, Begins
  <2>2. AutomationsTypeOK'
    BY <1>1, <2>1, GoesType, CopyType DEF AutomationsInv, AutomationsTypeOK
  <2>3. CopiesAreOld'
    BY <1>2, <2>1, TakesCopyInv
  <2>4. RunsAreBounded'
    BY <1>1, <2>1, GoesType DEF AutomationsInv, AutomationsTypeOK, RunsAreBounded
  <2> QED
    BY <2>2, <2>3, <2>4 DEF AutomationsInv
<1>3. CASE ~On(automation)
  <2>1. Goes(h, "over") /\ UNCHANGED <<automation, errand, draft, actionsLeft,
                                       delivered, offs, knows, blunders>>
    BY <1>3 DEF LoadAutomation, Begins
  <2>2. AutomationsTypeOK'
    BY <2>1, GoesType DEF AutomationsInv, AutomationsTypeOK
  <2>3. CopiesAreOld'
    BY <2>1, <2>2, CopiesStayOld DEF AutomationsInv, AutomationsTypeOK
  <2>4. RunsAreBounded'
    BY <2>1, GoesType DEF AutomationsInv, RunsAreBounded
  <2> QED
    BY <2>2, <2>3, <2>4 DEF AutomationsInv
<1> QED
  BY <1>2, <1>3

LEMMA ActionInv ==
  ASSUME AutomationsInv, NEW h \in Hands, ExecuteAction(h)
  PROVE  AutomationsInv'
<1>1. actionsLeft[h] \in 1..ActionCount /\ delivered[h] \in 0..ActionCount
      /\ ActionCount \in Nat /\ delivered[h] + actionsLeft[h] <= ActionCount
      /\ stage[h] = "act"
  BY AutomationsAssumption
     DEF AutomationsAssumption, AutomationsInv, AutomationsTypeOK, RunsAreBounded,
         ExecuteAction
<1>2. /\ actionsLeft' \in [Hands -> 0..ActionCount]
      /\ \A g \in Hands : actionsLeft'[g] = IF g = h THEN actionsLeft[g] - 1
                                                    ELSE actionsLeft[g]
  BY <1>1 DEF AutomationsInv, AutomationsTypeOK, ExecuteAction
<1>3. /\ delivered' \in [Hands -> 0..ActionCount]
      /\ \A g \in Hands : delivered'[g] = delivered[g]
                           \/ (g = h /\ delivered'[g] = delivered[g] + 1)
  BY <1>1 DEF AutomationsInv, AutomationsTypeOK, ExecuteAction
<1>4. AutomationsTypeOK'
  BY <1>2, <1>3 DEF AutomationsInv, AutomationsTypeOK, ExecuteAction
<1>5. CopiesAreOld'
  BY DEF AutomationsInv, CopiesAreOld, ExecuteAction, AtWork
<1>6. RunsAreBounded'
  <2> SUFFICES ASSUME NEW g \in Hands
               PROVE  /\ delivered'[g] + actionsLeft'[g] <= ActionCount
                      /\ stage'[g] \in {"idle", "found"} => delivered'[g] = 0
    BY DEF RunsAreBounded
  <2>1. /\ delivered[g] + actionsLeft[g] <= ActionCount
        /\ stage[g] \in {"idle", "found"} => delivered[g] = 0
        /\ stage' = stage
        /\ delivered[g] \in Nat /\ actionsLeft[g] \in Nat
    BY DEF AutomationsInv, AutomationsTypeOK, RunsAreBounded, ExecuteAction
  <2> QED
    BY <1>1, <1>2, <1>3, <2>1
<1> QED
  BY <1>4, <1>5, <1>6 DEF AutomationsInv

LEMMA SaveRunInv ==
  ASSUME AutomationsInv, NEW h \in Hands, SaveRun(h)
  PROVE  AutomationsInv'
<1> "failed" \in Stages /\ "over" \in Stages
  BY DEF Stages
<1>1. draft[h] \in AutomationRow /\ stage[h] \in {"act", "failed"}
  BY DEF AutomationsInv, AutomationsTypeOK, SaveRun
<1>2. /\ automation' \in AutomationRow /\ offs' \in Nat /\ offs' >= offs
      /\ On(automation) /\ ~On(automation') => offs' = offs + 1
  <2>1. CASE Save(draft[h])
    BY <1>1, <2>1, SaveType, BecomesType DEF AutomationsInv
  <2>2. CASE Unsaved
    BY <2>2 DEF Unsaved, AutomationsInv, AutomationsTypeOK
  <2> QED
    BY <2>1, <2>2 DEF SaveRun
<1>3. blunders' \in 0..MaxBlunders
  BY BlunderType DEF SaveRun, AutomationsInv, AutomationsTypeOK
<1>4. \E s \in {"failed", "over"} : Goes(h, s)
  BY DEF SaveRun
<1>5. AutomationsTypeOK'
  BY <1>2, <1>3, <1>4, GoesType DEF SaveRun, AutomationsInv, AutomationsTypeOK
<1>6. CopiesAreOld'
  BY <1>1, <1>2, <1>4, <1>5, CopiesStayOld DEF SaveRun
<1>7. RunsAreBounded'
  BY <1>4, GoesType DEF SaveRun, AutomationsInv, RunsAreBounded
<1> QED
  BY <1>5, <1>6, <1>7 DEF AutomationsInv

LEMMA RequestInv ==
  ASSUME AutomationsInv, NEW h \in Hands,
         NEW k \in {"update", "activate", "deactivate", "delete"}, Request(h, k)
  PROVE  AutomationsInv'
<1> "save" \in Stages /\ k \in Errands
  BY DEF Stages, Errands
<1>1. AutomationsTypeOK'
  BY GoesType, CopyType DEF AutomationsInv, AutomationsTypeOK, Request
<1>2. CopiesAreOld'
  BY TakesCopyInv DEF Request
<1>3. RunsAreBounded'
  BY GoesType DEF AutomationsInv, RunsAreBounded, Request
<1> QED
  BY <1>1, <1>2, <1>3 DEF AutomationsInv

LEMMA AnswerType ==
  ASSUME AutomationsInv, NEW h \in Hands,
         Update(h) \/ Activate(h) \/ Deactivate(h) \/ Delete(h)
  PROVE  \E row \in AutomationRow : Becomes(row)
<1>1. draft[h] \in AutomationRow /\ automation \in AutomationRow
  BY DEF AutomationsInv, AutomationsTypeOK
<1>2. /\ [draft[h] EXCEPT !.enabled = TRUE] \in AutomationRow
      /\ [draft[h] EXCEPT !.enabled = FALSE] \in AutomationRow
      /\ [automation EXCEPT !.there = FALSE] \in AutomationRow
  BY <1>1 DEF AutomationRow
<1>3. \A copy \in AutomationRow : [copy EXCEPT !.there = TRUE] \in AutomationRow
  BY DEF AutomationRow
<1> QED
  BY <1>1, <1>2, <1>3 DEF Update, Activate, Deactivate, Delete, Save

LEMMA RespondInv ==
  ASSUME AutomationsInv, NEW h \in Hands, Respond(h)
  PROVE  AutomationsInv'
<1> "over" \in Stages
  BY DEF Stages
<1>1. /\ automation' \in AutomationRow /\ offs' \in Nat /\ offs' >= offs
      /\ On(automation) /\ ~On(automation') => offs' = offs + 1
  BY AnswerType, BecomesType
     DEF Respond, Unsaved, AutomationsInv, AutomationsTypeOK
<1>2. blunders' \in 0..MaxBlunders
  BY BlunderType DEF Respond, AutomationsInv, AutomationsTypeOK
<1>3. AutomationsTypeOK'
  BY <1>1, <1>2, GoesType DEF Respond, AutomationsInv, AutomationsTypeOK
<1>4. CopiesAreOld'
  BY <1>1, <1>3, CopiesStayOld DEF Respond
<1>5. RunsAreBounded'
  BY GoesType DEF Respond, AutomationsInv, RunsAreBounded
<1> QED
  BY <1>3, <1>4, <1>5 DEF AutomationsInv

LEMMA AutomationCrashInv ==
  ASSUME AutomationsInv, AutomationCrash
  PROVE  AutomationsInv'
<1> "over" \in Stages
  BY DEF Stages
<1>1. blunders' \in 0..MaxBlunders
  BY BlunderType DEF AutomationCrash, AutomationsInv
<1>2. AutomationsTypeOK'
  BY <1>1 DEF AutomationCrash, AutomationsInv, AutomationsTypeOK
<1>3. AtWork' = {}
  BY DEF AutomationCrash, AtWork
<1>4. CopiesAreOld'
  BY <1>3 DEF CopiesAreOld
<1>5. RunsAreBounded'
  BY DEF AutomationCrash, AutomationsInv, RunsAreBounded, AtWork
<1> QED
  BY <1>2, <1>4, <1>5 DEF AutomationsInv

LEMMA AutomationsInductive ==
  AutomationsInv /\ [AutomationsNext]_automationVars => AutomationsInv'
<1> SUFFICES ASSUME AutomationsInv, [AutomationsNext]_automationVars
             PROVE  AutomationsInv'
  OBVIOUS
<1>1. CASE UNCHANGED automationVars
  BY <1>1 DEF automationVars, AutomationsInv, AutomationsTypeOK, CopiesAreOld,
              RunsAreBounded, AtWork
<1>2. CASE AutomationsNext
  BY <1>2, TriggerInv, LoadAutomationInv, ActionInv, SaveRunInv, RequestInv,
     RespondInv, AutomationCrashInv DEF AutomationsNext
<1> QED
  BY <1>1, <1>2

(* The variables of Automations keep their types in every behaviour of the  *)
(* calls: no run sends more than its actions.                               *)
THEOREM AutomationsTypeCorrect == AutomationsSpec => []AutomationsTypeOK
<1>1. AutomationsInv => AutomationsTypeOK
  BY DEF AutomationsInv
<1> QED
  BY <1>1, AutomationsInitInv, AutomationsInductive, PTL DEF AutomationsSpec

LEMMA OffStep ==
  ASSUME AutomationsInv, [AutomationsNext]_automationVars, ~On(automation)
  PROVE  /\ On(automation') => \E h \in AtWork : errand[h] = "activate" \/ knows[h] < offs
         /\ \A h \in Hands : delivered'[h] > delivered[h] => knows[h] < offs
<1>1. \A h \in Hands : delivered[h] \in Nat
  BY DEF AutomationsInv, AutomationsTypeOK
<1>2. CASE UNCHANGED <<automation, delivered>>
  BY <1>1, <1>2
<1>3. ASSUME NEW h \in Hands, ExecuteAction(h)
      PROVE  /\ UNCHANGED automation
             /\ \A g \in Hands : delivered'[g] > delivered[g] => knows[g] < offs
  <2>1. stage[h] = "act" /\ h \in AtWork /\ On(draft[h]) /\ knows[h] < offs
    BY <1>3 DEF ExecuteAction, AtWork, AutomationsInv, CopiesAreOld
  <2>2. \A g \in Hands : g # h => delivered'[g] = delivered[g]
    BY <1>3 DEF ExecuteAction, AutomationsInv, AutomationsTypeOK
  <2> QED
    BY <1>1, <1>3, <2>1, <2>2 DEF ExecuteAction
<1>4. ASSUME NEW h \in Hands, SaveRun(h) PROVE h \in AtWork /\ knows[h] < offs
  <2>1. stage[h] \in {"act", "failed"}
    BY <1>4 DEF SaveRun
  <2> QED
    BY <2>1 DEF AtWork, AutomationsInv, CopiesAreOld
<1>5. ASSUME NEW h \in Hands, Respond(h), On(automation')
      PROVE  h \in AtWork /\ (errand[h] = "activate" \/ knows[h] < offs)
  <2>1. stage[h] = "save" /\ h \in AtWork /\ draft[h].there
    BY <1>5 DEF Respond, AtWork, AutomationsInv, CopiesAreOld
  <2>2. draft[h] \in AutomationRow /\ automation \in AutomationRow
    BY DEF AutomationsInv, AutomationsTypeOK
  <2>3. CASE Update(h)
    <3>1. draft[h].enabled
      BY <1>5, <2>2, <2>3, SaveType DEF Update, AutomationsInv
    <3> QED
      BY <2>1, <3>1 DEF On, AutomationsInv, CopiesAreOld
  <2>4. CASE Activate(h)
    BY <2>1, <2>4 DEF Activate
  <2>5. CASE Deactivate(h)
    <3>1. [draft[h] EXCEPT !.enabled = FALSE] \in AutomationRow
          /\ [draft[h] EXCEPT !.enabled = FALSE].enabled = FALSE
      BY <2>2 DEF AutomationRow
    <3> QED
      BY <1>5, <2>5, <3>1, SaveType DEF Deactivate, AutomationsInv
  <2>6. CASE Delete(h)
    BY <1>5, <2>2, <2>6 DEF Delete, Becomes, On, AutomationRow
  <2> QED
    BY <1>5, <2>3, <2>4, <2>5, <2>6 DEF Respond, Unsaved
<1>6. ASSUME NEW h \in Hands, SaveRun(h) \/ Respond(h) PROVE delivered' = delivered
  BY <1>6 DEF SaveRun, Respond
<1>7. ASSUME NEW h \in Hands,
             \/ TriggerAutomations(h) \/ LoadAutomation(h)
             \/ \E k \in {"update", "activate", "deactivate", "delete"} : Request(h, k)
      PROVE  UNCHANGED <<automation, delivered>>
  BY <1>7 DEF TriggerAutomations, LoadAutomation, Request
<1>8. CASE UNCHANGED automationVars \/ AutomationCrash
  BY <1>2, <1>8 DEF automationVars, AutomationCrash
<1>9. CASE AutomationsNext /\ ~AutomationCrash
  <2>1. PICK h \in Hands :
          \/ TriggerAutomations(h) \/ LoadAutomation(h) \/ ExecuteAction(h) \/ SaveRun(h)
          \/ \E k \in {"update", "activate", "deactivate", "delete"} : Request(h, k)
          \/ Respond(h)
    BY <1>9 DEF AutomationsNext
  <2>2. CASE ExecuteAction(h)
    BY <1>3, <2>2
  <2>3. CASE SaveRun(h)
    BY <1>1, <1>4, <1>6, <2>3
  <2>4. CASE Respond(h)
    BY <1>1, <1>5, <1>6, <2>4
  <2> QED
    BY <1>2, <1>7, <2>1, <2>2, <2>3, <2>4
<1> QED
  BY <1>8, <1>9

(* Whatever the calls and the failures do, an automation that is off sends  *)
(* or comes on again only through an activation or a call that loaded the   *)
(* row before it went off.                                                  *)
THEOREM OffStaysOff == AutomationsSpec => OffMeansOff
<1>1. AutomationsInv /\ [AutomationsNext]_automationVars
        => [~On(automation)
             => /\ On(automation')
                     => \E h \in AtWork : errand[h] = "activate" \/ knows[h] < offs
                /\ \A h \in Hands : delivered'[h] > delivered[h] => knows[h] < offs
           ]_automationVars
  BY OffStep
<1> QED
  BY <1>1, AutomationsInitInv, AutomationsInductive, PTL DEF AutomationsSpec, OffMeansOff

-----------------------------------------------------------------------------
(* OtpRelay: what is locked stays available.                                *)

FreeHasNoOwner ==
    \A a \in Accounts : stock[a] \in {"missing", "AVAILABLE"} => owner[a] = {}

LockedAreFree ==
    \A r \in Requests : opc[r] = "locked"
      => /\ taken[r] \subseteq snapshot[r]
         /\ \A a \in snapshot[r] : stock[a] = "AVAILABLE"

LocksApart ==
    \A q, r \in Requests : opc[q] = "locked" /\ opc[r] = "locked" /\ q # r
      => snapshot[q] \intersect snapshot[r] = {}

TakenIsOwned ==
    \A r \in Requests : opc[r] # "locked"
      => \A a \in taken[r] : owner[a] = {r} /\ stock[a] \in {"ASSIGNED", "deleted"}

SoleOwner == \A a \in Accounts : \A q, r \in owner[a] : q = r

OtpInv == /\ OtpRelayTypeOK /\ FreeHasNoOwner /\ LockedAreFree
          /\ LocksApart /\ TakenIsOwned /\ SoleOwner

-----------------------------------------------------------------------------
LEMMA OtpInitInv == OtpRelayInit => OtpInv
<1> SUFFICES ASSUME OtpRelayInit PROVE OtpInv
  OBVIOUS
<1>1. OtpRelayTypeOK
  BY OtpRelayAssumption
     DEF OtpRelayAssumption, OtpRelayInit, OtpRelayTypeOK, OpcStates
<1>2. FreeHasNoOwner /\ LockedAreFree /\ LocksApart /\ TakenIsOwned /\ SoleOwner
  BY DEF OtpRelayInit, FreeHasNoOwner, LockedAreFree, LocksApart, TakenIsOwned,
         SoleOwner
<1> QED
  BY <1>1, <1>2 DEF OtpInv

LEMMA MishapType == OtpRelayTypeOK /\ Mishap => mishaps' \in 0..MaxMishaps
  BY OtpRelayAssumption DEF OtpRelayAssumption, OtpRelayTypeOK, Mishap

LEMMA DeletesType ==
  ASSUME OtpRelayTypeOK, otpDeletes < MaxDeletes, otpDeletes' = otpDeletes + 1
  PROVE  otpDeletes' \in 0..MaxDeletes
  BY OtpRelayAssumption DEF OtpRelayAssumption, OtpRelayTypeOK

LEMMA MoveType ==
  ASSUME OtpRelayTypeOK, NEW r \in Requests, NEW pc \in OpcStates, Move(r, pc)
  PROVE  opc' \in [Requests -> OpcStates]
  BY DEF OtpRelayTypeOK, Move

(* Requests that only move, and not into or out of a transaction. *)
LEMMA OtpMoveInv ==
  ASSUME OtpInv, NEW r \in Requests, NEW pc \in OpcStates \ {"locked"}, Move(r, pc),
         opc[r] # "locked", UNCHANGED <<favour, taken, inventory>>,
         snapshot' = [snapshot EXCEPT ![r] = snapshot'[r]],
         snapshot'[r] \in SUBSET Accounts,
         mishaps' \in 0..MaxMishaps, records' \subseteq Requests
  PROVE  OtpInv'
<1>1. \A q \in Requests : /\ opc'[q] = "locked" <=> opc[q] = "locked"
                          /\ opc[q] = "locked" => snapshot'[q] = snapshot[q]
  BY DEF Move, OtpInv, OtpRelayTypeOK
<1>2. OtpRelayTypeOK'
  BY MoveType DEF OtpInv, OtpRelayTypeOK, inventory
<1>3. FreeHasNoOwner' /\ SoleOwner'
  BY DEF OtpInv, FreeHasNoOwner, SoleOwner, inventory
<1>4. LockedAreFree'
  BY <1>1 DEF OtpInv, LockedAreFree, inventory
<1>5. LocksApart'
  BY <1>1 DEF OtpInv, LocksApart
<1>6. TakenIsOwned'
  BY <1>1 DEF OtpInv, TakenIsOwned, inventory
<1> QED
  BY <1>2, <1>3, <1>4, <1>5, <1>6 DEF OtpInv

LEMMA LockAccountsInv ==
  ASSUME OtpInv, NEW r \in Requests, LockAccounts(r)
  PROVE  OtpInv'
<1> DEFINE free == {a \in snapshot[r] : stock[a] = "AVAILABLE"}
<1>0. free \in SUBSET Accounts /\ opc[r] = "locking"
  BY DEF OtpInv, OtpRelayTypeOK, LockAccounts
<1>1. CASE free = {}
  <2>1. /\ Move(r, "done") /\ snapshot' = [snapshot EXCEPT ![r] = {}]
        /\ UNCHANGED <<favour, taken, inventory, records, mishaps>>
    BY <1>1 DEF LockAccounts
  <2>2. snapshot'[r] = {} /\ snapshot' = [snapshot EXCEPT ![r] = snapshot'[r]]
    BY <2>1 DEF OtpInv, OtpRelayTypeOK
  <2>3. mishaps' \in 0..MaxMishaps /\ records' \subseteq Requests
    BY <2>1 DEF OtpInv, OtpRelayTypeOK
  <2> QED
    BY <1>0, <2>1, <2>2, <2>3, OtpMoveInv DEF OpcStates
<1>2. CASE free # {}
  <2>1. /\ Move(r, "locked") /\ snapshot' = [snapshot EXCEPT ![r] = free]
        /\ taken' = [taken EXCEPT ![r] = Oldest(free)]
        /\ UNCHANGED <<favour, inventory, records, mishaps>>
        /\ snapshot[r] \intersect Held = {}
    BY <1>2 DEF LockAccounts, Take
  <2>2. Oldest(free) \subseteq free
    BY DEF Oldest
  <2>3. /\ opc'[r] = "locked" /\ snapshot'[r] = free /\ taken'[r] = Oldest(free)
        /\ \A q \in Requests \ {r} : /\ opc'[q] = opc[q] /\ taken'[q] = taken[q]
                                     /\ snapshot'[q] = snapshot[q]
    BY <2>1 DEF Move, OtpInv, OtpRelayTypeOK
  <2>4. OtpRelayTypeOK'
    BY <1>0, <2>1, <2>2, MoveType
       DEF OtpInv, OtpRelayTypeOK, OpcStates, inventory
  <2>5. FreeHasNoOwner' /\ SoleOwner'
    BY <2>1 DEF OtpInv, FreeHasNoOwner, SoleOwner, inventory
  <2>6. LockedAreFree'
    BY <2>1, <2>2, <2>3 DEF OtpInv, LockedAreFree, inventory
  <2>7. \A q \in Requests : opc[q] = "locked" => snapshot[q] \intersect free = {}
    BY <2>1 DEF Held
  <2>8. LocksApart'
    BY <2>3, <2>7 DEF OtpInv, LocksApart
  <2>9. TakenIsOwned'
    BY <2>1, <2>3 DEF OtpInv, TakenIsOwned, inventory
  <2> QED
    BY <2>4, <2>5, <2>6, <2>8, <2>9 DEF OtpInv
<1> QED
  BY <1>1, <1>2

LEMMA AssignAccountInv ==
  ASSUME OtpInv, NEW r \in Requests, AssignAccount(r)
  PROVE  OtpInv'
<1>1. /\ opc[r] = "locked" /\ snapshot' = [snapshot EXCEPT ![r] = {}]
      /\ UNCHANGED <<favour, records, deleting, otpDeletes>>
  BY DEF AssignAccount
<1>2. \A a \in taken[r] : /\ a \in snapshot[r] /\ a \in Accounts
                          /\ stock[a] = "AVAILABLE" /\ owner[a] = {}
  BY <1>1 DEF OtpInv, LockedAreFree, FreeHasNoOwner, OtpRelayTypeOK
<1>3. CASE /\ stock' = [a \in Accounts |-> IF a \in taken[r] THEN "ASSIGNED"
                                                             ELSE stock[a]]
           /\ owner' = [a \in Accounts |-> IF a \in taken[r] THEN owner[a] \union {r}
                                                             ELSE owner[a]]
           /\ Move(r, "paid") /\ UNCHANGED <<taken, mishaps>>
  <2>1. \A q \in Requests : /\ opc'[q] = IF q = r THEN "paid" ELSE opc[q]
                            /\ snapshot'[q] = IF q = r THEN {} ELSE snapshot[q]
    BY <1>1, <1>3 DEF Move, OtpInv, OtpRelayTypeOK
  <2>2. OtpRelayTypeOK'
    <3>1. stock' \in [Accounts -> {"missing", "AVAILABLE", "ASSIGNED", "deleted"}]
      BY <1>3 DEF OtpInv, OtpRelayTypeOK
    <3>2. owner' \in [Accounts -> SUBSET Requests]
      BY <1>3 DEF OtpInv, OtpRelayTypeOK
    <3> QED
      BY <1>1, <1>3, <3>1, <3>2, MoveType DEF OtpInv, OtpRelayTypeOK, OpcStates
  <2>3. FreeHasNoOwner'
    BY <1>3 DEF OtpInv, FreeHasNoOwner, OtpRelayTypeOK
  <2>4. SoleOwner'
    BY <1>2, <1>3 DEF OtpInv, SoleOwner, OtpRelayTypeOK
  <2>5. LockedAreFree'
    <3> SUFFICES ASSUME NEW q \in Requests, opc'[q] = "locked"
                 PROVE  /\ taken'[q] \subseteq snapshot'[q]
                        /\ \A a \in snapshot'[q] : stock'[a] = "AVAILABLE"
      BY DEF LockedAreFree
    <3>1. q # r /\ opc[q] = "locked" /\ snapshot'[q] = snapshot[q]
      BY <2>1
    <3>2. \A a \in snapshot[q] : a \notin taken[r] /\ a \in Accounts
      BY <1>1, <1>2, <3>1 DEF OtpInv, LocksApart, OtpRelayTypeOK
    <3> QED
      BY <1>3, <3>1, <3>2 DEF OtpInv, LockedAreFree
  <2>6. LocksApart'
    BY <2>1 DEF OtpInv, LocksApart
  <2>7. TakenIsOwned'
    <3> SUFFICES ASSUME NEW q \in Requests, opc'[q] # "locked", NEW a \in taken'[q]
                 PROVE  owner'[a] = {q} /\ stock'[a] \in {"ASSIGNED", "deleted"}
      BY DEF TakenIsOwned
    <3>1. a \in taken[q] /\ a \in Accounts
      BY <1>3 DEF OtpInv, OtpRelayTypeOK
    <3>2. CASE q = r
      BY <1>2, <1>3, <3>1, <3>2
    <3>3. CASE q # r
      <4>1. owner[a] = {q} /\ stock[a] \in {"ASSIGNED", "deleted"}
        BY <2>1, <3>1, <3>3 DEF OtpInv, TakenIsOwned
      <4>2. a \notin taken[r]
        BY <1>2, <4>1
      <4> QED
        BY <1>3, <3>1, <4>1, <4>2
    <3> QED
      BY <3>2, <3>3
  <2> QED
    BY <2>2, <2>3, <2>4, <2>5, <2>6, <2>7 DEF OtpInv
<1>4. CASE /\ Mishap /\ Move(r, "done")
           /\ taken' = [taken EXCEPT ![r] = {}] /\ UNCHANGED <<stock, owner>>
  <2>1. \A q \in Requests : /\ opc'[q] = IF q = r THEN "done" ELSE opc[q]
                            /\ snapshot'[q] = IF q = r THEN {} ELSE snapshot[q]
                            /\ taken'[q] = IF q = r THEN {} ELSE taken[q]
    BY <1>1, <1>4 DEF Move, OtpInv, OtpRelayTypeOK
  <2>2. OtpRelayTypeOK'
    BY <1>1, <1>4, MishapType, MoveType DEF OtpInv, OtpRelayTypeOK, OpcStates
  <2>3. FreeHasNoOwner' /\ SoleOwner'
    BY <1>4 DEF OtpInv, FreeHasNoOwner, SoleOwner
  <2>4. LockedAreFree' /\ LocksApart' /\ TakenIsOwned'
    BY <1>4, <2>1 DEF OtpInv, LockedAreFree, LocksApart, TakenIsOwned
  <2> QED
    BY <2>2, <2>3, <2>4 DEF OtpInv
<1> QED
  BY <1>3, <1>4 DEF AssignAccount

(* The merchant adds what was missing, and deletes what no open transaction *)
(* has locked.                                                              *)
LEMMA StockInv ==
  ASSUME OtpInv, NEW A \in SUBSET Accounts, NEW s \in {"AVAILABLE", "deleted"},
         stock' = [a \in Accounts |-> IF a \in A THEN s ELSE stock[a]],
         s = "AVAILABLE" => \A a \in A : stock[a] = "missing",
         A \intersect Held = {},
         UNCHANGED <<favour, opc, snapshot, taken, owner, records, mishaps>>,
         deleting' \subseteq Accounts, otpDeletes' \in 0..MaxDeletes
  PROVE  OtpInv'
<1>1. OtpRelayTypeOK'
  BY DEF OtpInv, OtpRelayTypeOK
<1>2. FreeHasNoOwner' /\ SoleOwner' /\ LocksApart'
  BY DEF OtpInv, FreeHasNoOwner, SoleOwner, LocksApart
<1>3. LockedAreFree'
  <2>1. \A r \in Requests : opc[r] = "locked"
          => \A a \in snapshot[r] : a \notin A /\ a \in Accounts
    BY DEF Held, OtpInv, OtpRelayTypeOK
  <2> QED
    BY <2>1 DEF OtpInv, LockedAreFree
<1>4. TakenIsOwned'
  <2>1. \A r \in Requests : taken[r] \subseteq Accounts
    BY DEF OtpInv, OtpRelayTypeOK
  <2> QED
    BY <2>1 DEF OtpInv, TakenIsOwned
<1> QED
  BY <1>1, <1>2, <1>3, <1>4 DEF OtpInv

LEMMA OtpCrashInv == OtpInv /\ OtpCrash => OtpInv'
<1> SUFFICES ASSUME OtpInv, OtpCrash PROVE OtpInv'
  OBVIOUS
<1>1. \A r \in Requests : /\ opc'[r] # "locked" /\ snapshot'[r] = {}
                          /\ taken'[r] = IF opc[r] = "locked" THEN {} ELSE taken[r]
  BY DEF OtpCrash
<1>2. OtpRelayTypeOK'
  BY MishapType DEF OtpCrash, OtpInv, OtpRelayTypeOK, OpcStates
<1>3. FreeHasNoOwner' /\ SoleOwner'
  BY DEF OtpCrash, OtpInv, FreeHasNoOwner, SoleOwner
<1>4. LockedAreFree' /\ LocksApart'
  BY <1>1 DEF LockedAreFree, LocksApart
<1>5. TakenIsOwned'
  BY <1>1 DEF OtpCrash, OtpInv, TakenIsOwned
<1> QED
  BY <1>2, <1>3, <1>4, <1>5 DEF OtpInv

LEMMA OtpStepInv == OtpInv /\ [OtpRelayNext]_otpVars => OtpInv'
<1> SUFFICES ASSUME OtpInv, [OtpRelayNext]_otpVars PROVE OtpInv'
  OBVIOUS
<1> USE DEF OtpInv, OtpRelayTypeOK
<1>1. ASSUME NEW r \in Requests,
             CheckLimit(r) \/ ExtractOtp(r) \/ SelectForUpdate(r) \/ SaveRecord(r)
      PROVE  OtpInv'
  <2>1. PICK pc \in OpcStates \ {"locked"} : Move(r, pc)
    BY <1>1 DEF CheckLimit, ExtractOtp, SelectForUpdate, SaveRecord, OpcStates
  <2>2. opc[r] # "locked" /\ UNCHANGED <<favour, taken, inventory>>
    BY <1>1 DEF CheckLimit, ExtractOtp, SelectForUpdate, SaveRecord
  <2>3. /\ snapshot' = [snapshot EXCEPT ![r] = snapshot'[r]]
        /\ snapshot'[r] \in SUBSET Accounts
    BY <1>1 DEF CheckLimit, ExtractOtp, SelectForUpdate, SaveRecord
  <2>4. mishaps' \in 0..MaxMishaps /\ records' \subseteq Requests
    BY <1>1, MishapType DEF CheckLimit, ExtractOtp, SelectForUpdate, SaveRecord
  <2> QED
    BY <2>1, <2>2, <2>3, <2>4, OtpMoveInv
<1>2. ASSUME NEW r \in Requests, LockAccounts(r) \/ AssignAccount(r) PROVE OtpInv'
  BY <1>2, LockAccountsInv, AssignAccountInv
<1>3. ASSUME NEW a \in Accounts, AddItem(a) PROVE OtpInv'
  <2>1. stock' = [b \in Accounts |-> IF b \in {a} THEN "AVAILABLE" ELSE stock[b]]
    BY <1>3 DEF AddItem
  <2>2. {a} \intersect Held = {}
    BY <1>3 DEF AddItem, Held, LockedAreFree
  <2> QED
    BY <1>3, <2>1, <2>2, StockInv DEF AddItem
<1>4. ASSUME NEW a \in Accounts, LoadForDeletion(a) PROVE OtpInv'
  <2>1. /\ otpDeletes' \in 0..MaxDeletes /\ deleting' \subseteq Accounts
        /\ UNCHANGED <<favour, opc, snapshot, taken, stock, owner, records, mishaps>>
    BY <1>4, DeletesType DEF LoadForDeletion
  <2>2. stock' = [b \in Accounts |-> IF b \in {} THEN "AVAILABLE" ELSE stock[b]]
    BY <2>1
  <2>3. {} \in SUBSET Accounts /\ {} \intersect Held = {} /\ \A b \in {} : stock[b] = "missing"
    OBVIOUS
  <2> QED
    BY <2>1, <2>2, <2>3, StockInv
<1>5. ASSUME NEW a \in Accounts, RemoveItem(a) PROVE OtpInv'
  <2>1. stock' = [b \in Accounts |-> IF b \in {a} THEN "deleted" ELSE stock[b]]
    BY <1>5 DEF RemoveItem
  <2>2. {a} \intersect Held = {} /\ deleting' \subseteq Accounts
    BY <1>5 DEF RemoveItem
  <2>3. UNCHANGED <<favour, opc, snapshot, taken, owner, records, otpDeletes, mishaps>>
    BY <1>5 DEF RemoveItem
  <2> QED
    BY <2>1, <2>2, <2>3, StockInv
<1>6. CASE DeleteAllAvailable
  <2> DEFINE A == {a \in Accounts : stock[a] = "AVAILABLE"}
  <2>1. stock' = [a \in Accounts |-> IF a \in A THEN "deleted" ELSE stock[a]]
    BY <1>6 DEF DeleteAllAvailable
  <2>2. otpDeletes' \in 0..MaxDeletes /\ A \intersect Held = {} /\ A \in SUBSET Accounts
    BY <1>6, DeletesType DEF DeleteAllAvailable
  <2>3. UNCHANGED <<favour, opc, snapshot, taken, owner, records, deleting, mishaps>>
    BY <1>6 DEF DeleteAllAvailable
  <2> HIDE DEF A
  <2> QED
    BY <2>1, <2>2, <2>3, StockInv
<1>7. CASE OtpCrash
  BY <1>7, OtpCrashInv
<1>8. CASE UNCHANGED otpVars
  BY <1>8 DEF otpVars, FreeHasNoOwner, LockedAreFree, LocksApart, TakenIsOwned,
              SoleOwner
<1> QED
  BY <1>1, <1>2, <1>3, <1>4, <1>5, <1>6, <1>7, <1>8 DEF OtpRelayNext

LEMMA OtpSafe == OtpRelaySpec => []OtpInv
  BY OtpInitInv, OtpStepInv, PTL DEF OtpRelaySpec

(* Every variable of OtpRelay keeps its type. *)
THEOREM OtpTypeCorrect == OtpRelaySpec => []OtpRelayTypeOK
<1>1. OtpInv => OtpRelayTypeOK
  BY DEF OtpInv
<1> QED
  BY <1>1, OtpSafe, PTL

LEMMA AtMostOne ==
  ASSUME NEW S, \A q, r \in S : q = r
  PROVE  Cardinality(S) <= 1
<1>1. CASE S = {}
  BY <1>1, FS_EmptySet
<1>2. CASE S # {}
  <2>1. PICK x \in S : TRUE
    BY <1>2
  <2>2. S = {x}
    BY <2>1
  <2> QED
    BY <2>2, FS_Singleton
<1> QED
  BY <1>1, <1>2

(* No account of the inventory is given to two requests, for any number of  *)
(* requests and accounts, whatever the merchant deletes meanwhile           *)
(* (requestCompensation, otp-inventory.service.ts:176).                     *)
THEOREM AccountsGivenOnce == OtpRelaySpec => []OneOwnerPerAccount
<1>1. OtpInv => OneOwnerPerAccount
  <2> SUFFICES ASSUME OtpInv PROVE OneOwnerPerAccount
    OBVIOUS
  <2>1. \A a \in Accounts : Cardinality(owner[a]) <= 1
    BY AtMostOne DEF OtpInv, SoleOwner
  <2>2. ASSUME NEW q \in Requests, NEW r \in Requests, q # r
        PROVE  taken[q] \intersect taken[r] = {}
    BY <2>2 DEF OtpInv, LockedAreFree, LocksApart, TakenIsOwned
  <2> QED
    BY <2>1, <2>2 DEF OneOwnerPerAccount
<1> QED
  BY <1>1, OtpSafe, PTL

-----------------------------------------------------------------------------
(* OrderMirror: types.                                                      *)

Nothing == [id |-> 0, copy |-> NoRow]

LEMMA MirrorBounds ==
  /\ LastHook \in Nat \ {0} /\ MaxOrderSlips \in Nat /\ HistoryChoices \subseteq History
  /\ 0 \in 0..LastHook /\ 0 \in 0..MaxOrderSlips /\ Hooks \subseteq 0..LastHook
  /\ Hooks \subseteq Nat /\ 0 \notin Hooks /\ Rows = Hooks
  BY OrderMirrorAssumption DEF OrderMirrorAssumption, Hooks, Rows

LEMMA StatusTables ==
  /\ MapSallaOrderStatus \in [Slugs -> OrderStatus]
  /\ \A slug \in Slugs : \A unpaid :
       ResolveSpecificStatusEvent(slug, unpaid) \in OrderStatus
  /\ MapZidOrderStatus \in [Slugs -> OrderStatus]
  /\ MapZidStatusToEvent \in [Slugs -> StatusEvents]
  /\ OrderStatus \subseteq StatusEvents /\ "CREATED" \in OrderStatus
<1>1. MapSallaOrderStatus \in [Slugs -> OrderStatus]
  BY DEF MapSallaOrderStatus, Slugs, OrderStatus
<1>2. /\ {"PROCESSING", "CREATED", "PENDING_PAYMENT"} \subseteq OrderStatus
      /\ OrderStatus \subseteq StatusEvents /\ "OTHER" \in StatusEvents
  BY DEF OrderStatus, StatusEvents
<1> QED
  BY <1>1, <1>2 DEF ResolveSpecificStatusEvent, MapZidOrderStatus, MapZidStatusToEvent

LEMMA HookTypes ==
  ASSUME OrderMirrorTypeOK, NEW d \in Hooks
  PROVE  /\ history.platform \in {"salla", "zid"} /\ Hook(d) \in Webhooks
         /\ Hook(d).kind \in HookKinds /\ Hook(d).slug \in Slugs
         /\ Hook(d).named \in Slugs /\ Hook(d).previous \in BOOLEAN /\ MaySend(history.platform, Hook(d))
         /\ MappedStatus(d) \in OrderStatus
         /\ Announced(d) \in StatusEvents \union {"none"}
<1>1. /\ history \in History /\ announced \in StatusEvents \union {"none"}
  BY MirrorBounds DEF OrderMirrorTypeOK
<1>2. /\ history.platform \in {"salla", "zid"} /\ Hook(d) \in Webhooks
      /\ MaySend(history.platform, Hook(d))
  BY <1>1 DEF History, Hook
<1>3. /\ Hook(d).kind \in HookKinds /\ Hook(d).slug \in Slugs
      /\ Hook(d).named \in Slugs /\ Hook(d).previous \in BOOLEAN
  BY <1>2 DEF Webhooks
<1>4. MappedStatus(d) \in OrderStatus
  BY <1>3, StatusTables DEF MappedStatus, RowSlug
<1>5. "CREATED" \in StatusEvents /\ StatusEvent(d) \in StatusEvents
  BY <1>3, StatusTables DEF StatusEvent, Resolved, ZidEventSlug
<1>6. Announced(d) \in StatusEvents \union {"none"}
  BY <1>1, <1>5 DEF Announced
<1> QED
  BY <1>2, <1>3, <1>4, <1>6

LEMMA MirrorInitType == OrderMirrorInit => OrderMirrorTypeOK
<1> SUFFICES ASSUME OrderMirrorInit PROVE OrderMirrorTypeOK
  OBVIOUS
<1>1. NoRow \in OrderRow
  BY MirrorBounds DEF NoRow, OrderRow, OrderStatus, Slugs
<1>2. orders \in [{} -> OrderRow] /\ {} \in SUBSET Rows
  BY DEF OrderMirrorInit
<1>3. /\ mpc \in [Hooks -> MirrorPc] /\ customer \in [Hooks -> 0..LastHook]
      /\ forward \in [Hooks -> BOOLEAN]
  BY MirrorBounds DEF OrderMirrorInit, MirrorPc
<1>4. order \in [Hooks -> [id : 0..LastHook, copy : OrderRow]]
  BY <1>1, MirrorBounds DEF OrderMirrorInit
<1> QED
  BY <1>2, <1>3, <1>4, MirrorBounds DEF OrderMirrorInit, OrderMirrorTypeOK

(* Rows: what is read of them, and a table of them with one more. *)
LEMMA RowsType ==
  ASSUME OrderMirrorTypeOK
  PROVE  /\ DOMAIN orders \subseteq Rows
         /\ \A r \in DOMAIN orders : orders[r] \in OrderRow
         /\ NoRow \in OrderRow
  BY MirrorBounds DEF OrderMirrorTypeOK, NoRow, OrderRow, OrderStatus, Slugs

LEMMA HandlerEnds ==
  ASSUME OrderMirrorTypeOK, NEW d \in Hooks, Emitted(d)
  PROVE  /\ announced' \in StatusEvents \union {"none"} /\ mpc' \in [Hooks -> MirrorPc]
         /\ order' \in [Hooks -> [id : 0..LastHook, copy : OrderRow]]
         /\ customer' \in [Hooks -> 0..LastHook] /\ forward' \in [Hooks -> BOOLEAN]
<1>1. NoRow \in OrderRow /\ "over" \in MirrorPc
  BY RowsType DEF MirrorPc
<1> QED
  BY <1>1, HookTypes, MirrorBounds DEF Emitted, OrderMirrorTypeOK

LEMMA MirrorSlipType ==
  OrderMirrorTypeOK /\ MirrorSlip => mslips' \in 0..MaxOrderSlips /\ mslips' # 0
  BY MirrorBounds DEF OrderMirrorTypeOK, MirrorSlip

LEMMA MirrorSlipDiffers == mslips' = mslips /\ OrderMirrorTypeOK => ~MirrorSlip
  BY MirrorBounds DEF MirrorSlip, OrderMirrorTypeOK

LEMMA AtType ==
  ASSUME OrderMirrorTypeOK, NEW d \in Hooks, NEW pc \in MirrorPc, At(d, pc)
  PROVE  mpc' \in [Hooks -> MirrorPc]
  BY DEF OrderMirrorTypeOK, At

LEMMA BeginType ==
  ASSUME OrderMirrorTypeOK, NEW d \in Hooks, Begin(d)
  PROVE  OrderMirrorTypeOK'
<1>1. First(d) \in MirrorPc
  BY DEF First, MirrorPc
<1>2. mpc' \in [Hooks -> MirrorPc] /\ begun' \in 0..LastHook /\ disordered' \in BOOLEAN
  BY <1>1, AtType, MirrorBounds DEF Begin, OrderMirrorTypeOK
<1> QED
  BY <1>2 DEF Begin, OrderMirrorTypeOK

LEMMA UpdatedType ==
  ASSUME OrderMirrorTypeOK, NEW d \in Hooks, HandleOrderUpdated(d)
  PROVE  OrderMirrorTypeOK'
<1>1. "customer" \in MirrorPc
  BY DEF MirrorPc
<1>2. mpc' \in [Hooks -> MirrorPc] /\ mslips' \in 0..MaxOrderSlips
  BY <1>1, AtType, MirrorSlipType DEF HandleOrderUpdated, OrderMirrorTypeOK
<1>3. forward' \in [Hooks -> BOOLEAN]
  <2>1. \E b \in BOOLEAN : forward' = [forward EXCEPT ![d] = b]
    <3>1. ASSUME NEW b \in BOOLEAN PROVE [forward EXCEPT ![d] = b] \in [Hooks -> BOOLEAN]
      BY DEF OrderMirrorTypeOK
    <3>2. Hook(d).previous \in BOOLEAN
      BY HookTypes
    <3> QED
      BY <3>2 DEF HandleOrderUpdated
  <2> QED
    BY <2>1 DEF OrderMirrorTypeOK
<1> QED
  BY <1>2, <1>3 DEF HandleOrderUpdated, OrderMirrorTypeOK

LEMMA CustomerType ==
  ASSUME OrderMirrorTypeOK, NEW d \in Hooks, FindCustomer(d) \/ SaveCustomer(d)
  PROVE  OrderMirrorTypeOK'
<1>1. "saveCustomer" \in MirrorPc /\ "order" \in MirrorPc
  BY DEF MirrorPc
<1>2. mpc' \in [Hooks -> MirrorPc] /\ mslips' \in 0..MaxOrderSlips
  BY <1>1, AtType, MirrorSlipType DEF FindCustomer, SaveCustomer, OrderMirrorTypeOK
<1>c. /\ customer \in [Hooks -> 0..LastHook] /\ customers \subseteq Hooks
      /\ d \in 0..LastHook
  BY MirrorBounds DEF OrderMirrorTypeOK
<1>3. customer' \in [Hooks -> 0..LastHook] /\ customers' \subseteq Hooks
  <2>1. \/ \E v \in 0..LastHook : customer' = [customer EXCEPT ![d] = v]
        \/ customer' = customer
    BY <1>c, MirrorBounds DEF FindCustomer, SaveCustomer
  <2>2. customer' \in [Hooks -> 0..LastHook]
    BY <1>c, <2>1
  <2> QED
    BY <1>c, <2>2 DEF FindCustomer, SaveCustomer
<1> QED
  BY <1>2, <1>3, MirrorBounds DEF FindCustomer, SaveCustomer, OrderMirrorTypeOK

LEMMA FindOrderType ==
  ASSUME OrderMirrorTypeOK, NEW d \in Hooks, FindOrder(d)
  PROVE  OrderMirrorTypeOK'
<1>u. UNCHANGED <<history, orders, customers, begun, disordered>>
  BY DEF FindOrder
<1>1. "saveOrder" \in MirrorPc /\ "again" \in MirrorPc
  BY DEF MirrorPc
<1>2. CASE MirrorSlip /\ Emitted(d)
  BY <1>u, <1>2, HandlerEnds, MirrorSlipType DEF OrderMirrorTypeOK
<1>3. ASSUME NEW r \in DOMAIN orders,
             order' = [order EXCEPT ![d] = [id |-> r, copy |-> orders[r]]],
             At(d, "saveOrder"), UNCHANGED <<customer, forward, announced, mslips>>
      PROVE  OrderMirrorTypeOK'
  <2>1. r \in 0..LastHook /\ orders[r] \in OrderRow
    BY RowsType, MirrorBounds
  <2>2. order' \in [Hooks -> [id : 0..LastHook, copy : OrderRow]]
    BY <1>3, <2>1 DEF OrderMirrorTypeOK
  <2> QED
    BY <1>u, <1>1, <1>3, <2>2, AtType DEF OrderMirrorTypeOK
<1>4. CASE /\ At(d, IF Syncs(d) THEN "saveOrder" ELSE "again")
           /\ UNCHANGED <<order, customer, forward, announced, mslips>>
  BY <1>u, <1>1, <1>4, AtType DEF OrderMirrorTypeOK
<1> QED
  BY <1>2, <1>3, <1>4 DEF FindOrder

LEMMA WrittenType ==
  ASSUME OrderMirrorTypeOK, NEW d \in Hooks
  PROVE  /\ Written(d) \in OrderRow /\ Written(d).status = MappedStatus(d)
<1>1. /\ order[d].copy \in OrderRow /\ customer[d] \in 0..LastHook
      /\ MappedStatus(d) \in OrderStatus /\ Hook(d).slug \in Slugs
  BY HookTypes DEF OrderMirrorTypeOK
<1>2. Signature(d) \in Slugs
  BY <1>1 DEF Signature, OrderRow
<1> QED
  BY <1>1, <1>2 DEF Written, OrderRow

LEMMA SaveOrderType ==
  ASSUME OrderMirrorTypeOK, NEW d \in Hooks, SaveOrder(d)
  PROVE  OrderMirrorTypeOK'
<1>1. UNCHANGED <<history, customers, begun, disordered>> /\ Emitted(d)
  BY DEF SaveOrder
<1> DEFINE id == IF order[d].id = 0 THEN d ELSE order[d].id
<1>i. id \in Rows
  <2>1. order[d].id \in 0..LastHook
    BY DEF OrderMirrorTypeOK
  <2> QED
    BY <2>1, MirrorBounds DEF Rows, Hooks
<1>2. \/ orders' = orders
      \/ orders' = [r \in DOMAIN orders \union {id} |->
                      IF r = id THEN Written(d) ELSE orders[r]]
  BY DEF SaveOrder
<1>3. \E ids \in SUBSET Rows : orders' \in [ids -> OrderRow]
  <2>1. CASE orders' = orders
    BY <2>1 DEF OrderMirrorTypeOK
  <2>2. CASE orders' = [r \in DOMAIN orders \union {id} |->
                          IF r = id THEN Written(d) ELSE orders[r]]
    <3>1. orders' \in [DOMAIN orders \union {id} -> OrderRow]
      BY <2>2, RowsType, WrittenType
    <3> QED
      BY <1>i, <3>1, RowsType
  <2> QED
    BY <1>2, <2>1, <2>2
<1>4. mslips' \in 0..MaxOrderSlips
  BY MirrorSlipType DEF SaveOrder, OrderMirrorTypeOK
<1> QED
  BY <1>1, <1>3, <1>4, HandlerEnds DEF OrderMirrorTypeOK

LEMMA UpdateStatusType ==
  ASSUME OrderMirrorTypeOK, NEW d \in Hooks, UpdateStatus(d)
  PROVE  OrderMirrorTypeOK'
<1>1. UNCHANGED <<history, customers, begun, disordered>> /\ Emitted(d)
  BY DEF UpdateStatus
<1>2. \A row \in OrderRow : [row EXCEPT !.status = MappedStatus(d)] \in OrderRow
  BY HookTypes DEF OrderRow
<1>3. \E ids \in SUBSET Rows : orders' \in [ids -> OrderRow]
  <2>1. CASE orders' = orders
    BY <2>1 DEF OrderMirrorTypeOK
  <2>2. CASE orders' = [r \in DOMAIN orders |->
                          [orders[r] EXCEPT !.status = MappedStatus(d)]]
    <3>1. orders' \in [DOMAIN orders -> OrderRow]
      BY <1>2, <2>2, RowsType
    <3> QED
      BY <3>1, RowsType
  <2> QED
    BY <2>1, <2>2 DEF UpdateStatus
<1>4. mslips' \in 0..MaxOrderSlips
  BY MirrorSlipType DEF UpdateStatus, OrderMirrorTypeOK
<1> QED
  BY <1>1, <1>3, <1>4, HandlerEnds DEF OrderMirrorTypeOK

LEMMA MirrorCrashType == OrderMirrorTypeOK /\ MirrorCrash => OrderMirrorTypeOK'
<1> SUFFICES ASSUME OrderMirrorTypeOK, MirrorCrash PROVE OrderMirrorTypeOK'
  OBVIOUS
<1>1. /\ mpc' \in [Hooks -> MirrorPc] /\ customer' \in [Hooks -> 0..LastHook]
      /\ forward' \in [Hooks -> BOOLEAN] /\ mslips' \in 0..MaxOrderSlips
  BY MirrorBounds, MirrorSlipType DEF MirrorCrash, OrderMirrorTypeOK, MirrorPc
<1>2. order' \in [Hooks -> [id : 0..LastHook, copy : OrderRow]]
  BY RowsType, MirrorBounds DEF MirrorCrash
<1> QED
  BY <1>1, <1>2 DEF MirrorCrash, OrderMirrorTypeOK

LEMMA MirrorTypeStep ==
  OrderMirrorTypeOK /\ [OrderMirrorNext]_mirrorVars => OrderMirrorTypeOK'
<1>1. OrderMirrorTypeOK /\ UNCHANGED mirrorVars => OrderMirrorTypeOK'
  BY DEF OrderMirrorTypeOK, mirrorVars
<1> QED
  BY <1>1, BeginType, UpdatedType, CustomerType, FindOrderType, SaveOrderType,
     UpdateStatusType, MirrorCrashType DEF OrderMirrorNext

(* The rows of an order and of its customer, the copies of its handlers and the       *)
(* status announced have values the handlers may meet.                                *)
THEOREM MirrorTypeCorrect == OrderMirrorSpec => []OrderMirrorTypeOK
  BY MirrorInitType, MirrorTypeStep, PTL DEF OrderMirrorSpec

-----------------------------------------------------------------------------
(* The statuses of the webhooks do not change, and which one is the newest depends    *)
(* on those that are over.                                                            *)
LEMMA HistoryStays ==
  ASSUME history' = history, NEW d
  PROVE  /\ Hook(d)' = Hook(d) /\ MappedStatus(d)' = MappedStatus(d)
         /\ (TablesAgree(d))' = TablesAgree(d) /\ (ByUpdate(d))' = ByUpdate(d)
         /\ (Resolved(d))' = Resolved(d)
  BY DEF Hook, MappedStatus, RowSlug, TablesAgree, StatusEvent, Resolved, ZidEventSlug,
         ByUpdate, Salla

LEMMA NewestStays ==
  ASSUME history' = history, NEW d \in Hooks, LastHook \in Nat,
         \A e \in Hooks : mpc'[e] = "over" <=> mpc[e] = "over"
  PROVE  /\ (Newest(d))' <=> Newest(d)
         /\ (Announces(d))' <=> Announces(d)
<1>1. (Newest(d))' <=> Newest(d)
  BY DEF Newest
<1>2. \A e \in 1..(d - 1) : e \in Hooks /\ \A f \in e..d : f \in Hooks
  BY DEF Hooks
<1>3. (Repeats(d))' <=> Repeats(d)
  <2>1. /\ (Hook(d)')= Hook(d)
        /\ \A e : (TablesAgree(e))' = TablesAgree(e) /\ MappedStatus(e)' = MappedStatus(e)
    BY HistoryStays
  <2>2. /\ \A e \in 1..(d - 1) : mpc'[e] = "over" <=> mpc[e] = "over"
        /\ \A e \in 1..(d - 1) : \A f \in e..d : mpc'[f] = "over" <=> mpc[f] = "over"
    BY <1>2
  <2>3. (Repeats(d))' <=>
          /\ (Hook(d)').kind = "update"
          /\ \E e \in 1..(d - 1) :
               /\ mpc'[e] = "over" /\ ~(TablesAgree(e))'
               /\ \A f \in e..d : mpc'[f] = "over" => MappedStatus(f)' = MappedStatus(d)'
    BY DEF Repeats
  <2> QED
    BY <2>1, <2>2, <2>3 DEF Repeats
<1> QED
  BY <1>1, <1>3, HistoryStays DEF Announces

LEMMA MirrorInitInv == OrderMirrorInit => MirrorInv
<1> SUFFICES ASSUME OrderMirrorInit PROVE MirrorKnown
  BY DEF MirrorInv
<1>1. OneByOne
  BY MirrorBounds DEF OrderMirrorInit, OneByOne, Handling
<1>2. DOMAIN orders = {} /\ customers = {}
  BY DEF OrderMirrorInit
<1>3. ASSUME NEW d \in Hooks PROVE SavesFound(d) /\ ~Newest(d) /\ mpc[d] # "over"
  BY <1>3 DEF OrderMirrorInit, SavesFound, Newest
<1> QED
  BY <1>1, <1>2, <1>3 DEF MirrorKnown

(* The one at work is the newest that has been taken up. *)
LEMMA HandlerAtWork ==
  ASSUME OneByOne, NEW d \in Hooks, mpc[d] \notin {"new", "over"}
  PROVE  /\ d = begun /\ Handling = {d}
         /\ \A e \in Hooks : e > d => mpc[e] = "new"
         /\ \A e \in Hooks \ {d} : mpc[e] \in {"new", "over"}
  BY DEF OneByOne, Handling

(* A handler that goes on, or begins. *)
LEMMA GoesOn ==
  ASSUME OrderMirrorTypeOK, MirrorKnown, NEW d \in Hooks, mpc[d] # "over",
         NEW pc \in MirrorPc \ {"new", "over"}, At(d, pc),
         UNCHANGED <<history, orders, announced>>,
         \A e \in Hooks \ {d} : mpc[e] \in {"new", "over"},
         \A e \in Hooks \ {d} :
           order'[e] = order[e] /\ customer'[e] = customer[e] /\ forward'[e] = forward[e],
         \A r, s \in customers' : r = s, OneByOne', SavesFound(d)'
  PROVE  MirrorKnown'
<1>1. \A e \in Hooks : /\ e # d => mpc'[e] = mpc[e]
                       /\ mpc'[e] = "over" <=> mpc[e] = "over"
  BY DEF At, OrderMirrorTypeOK
<1>2. ASSUME NEW e \in Hooks, e # d PROVE SavesFound(e)'
  <2>1. SavesFound(e) /\ mpc[e] \in {"new", "over"} /\ mpc'[e] = mpc[e]
    BY <1>1, <1>2 DEF MirrorKnown
  <2> QED
    BY <1>2, <2>1 DEF SavesFound
<1>3. ASSUME NEW e \in Hooks
      PROVE  /\ SavesFound(e)' /\ (Newest(e) => LeftBy(e))'
             /\ (Newest(e))' <=> Newest(e)
  <2>1. ((Newest(e))' <=> Newest(e)) /\ ((Announces(e))' <=> Announces(e))
    BY <1>1, NewestStays, MirrorBounds
  <2>2. (Newest(e) => LeftBy(e))'
    BY <2>1, HistoryStays DEF MirrorKnown, LeftBy
  <2> QED
    BY <1>2, <2>1, <2>2
<1>4. (\E e \in Hooks : mpc[e] = "over" /\ ~ByUpdate(e))' => DOMAIN orders' # {}
  BY <1>1, HistoryStays DEF MirrorKnown
<1>5. \A r, s \in DOMAIN orders' : r = s
  BY DEF MirrorKnown
<1>6. DOMAIN orders' # {} => \E e \in Hooks : (Newest(e))'
  BY <1>3 DEF MirrorKnown
<1>7. \A e \in Hooks : SavesFound(e)' /\ (Newest(e) => LeftBy(e))'
  BY <1>3
<1> QED
  BY <1>4, <1>5, <1>6, <1>7 DEF MirrorKnown

(* A handler that ends with the rows as they should be. *)
LEMMA EndsWell ==
  ASSUME OrderMirrorTypeOK, MirrorKnown, NEW d \in Hooks, mpc[d] \notin {"new", "over"},
         Emitted(d), UNCHANGED <<history, customers, begun>>,
         \A r, s \in DOMAIN orders' : r = s,
         \A r \in DOMAIN orders' : orders'[r].status = MappedStatus(d),
         DOMAIN orders \subseteq DOMAIN orders',
         ~ByUpdate(d) => DOMAIN orders' # {},
         (Announces(d))' => announced' = MappedStatus(d)
  PROVE  MirrorKnown'
<1>1. /\ d = begun /\ \A e \in Hooks : e > d => mpc[e] = "new"
      /\ \A e \in Hooks \ {d} : mpc[e] \in {"new", "over"}
  BY HandlerAtWork DEF MirrorKnown
<1>2. /\ mpc'[d] = "over" /\ order'[d].id = 0 /\ customer'[d] = 0
      /\ \A e \in Hooks \ {d} :
           /\ mpc'[e] = mpc[e] /\ order'[e] = order[e]
           /\ customer'[e] = customer[e]
  BY DEF Emitted, OrderMirrorTypeOK
<1>3. OneByOne'
  BY <1>1, <1>2 DEF OneByOne, Handling, MirrorKnown
<1>4. ASSUME NEW e \in Hooks PROVE SavesFound(e)'
  <2>1. CASE e = d
    BY <1>2, <2>1 DEF SavesFound
  <2>2. CASE e # d
    BY <1>1, <1>2, <2>2 DEF SavesFound, MirrorKnown
  <2> QED
    BY <2>1, <2>2
<1>5. (Newest(d))' /\ \A e \in Hooks : (Newest(e))' => e = d
  <2>1. \A e \in Hooks : mpc'[e] = "over" => e <= d
    BY <1>1, <1>2, MirrorBounds
  <2> QED
    BY <1>2, <2>1, MirrorBounds DEF Newest
<1>6. LeftBy(d)'
  BY HistoryStays DEF LeftBy
<1>7. (\E e \in Hooks : mpc[e] = "over" /\ ~ByUpdate(e))' => DOMAIN orders' # {}
  BY <1>2, HistoryStays DEF MirrorKnown
<1>8. \A e \in Hooks : SavesFound(e)' /\ (Newest(e) => LeftBy(e))'
  BY <1>4, <1>5, <1>6
<1> QED
  BY <1>3, <1>5, <1>7, <1>8 DEF MirrorKnown

(* What it announces is the status it leaves, unless exempt: an update that repeats   *)
(* a status says nothing, and the one before it has announced that status.            *)
LEMMA AnnouncesStatus ==
  ASSUME OrderMirrorTypeOK, MirrorKnown, NEW d \in Hooks,
         mpc[d] \in {"order", "again", "saveOrder"}, Emitted(d), history' = history,
         (Announces(d))'
  PROVE  announced' = MappedStatus(d)
<1>1. TablesAgree(d) /\ MappedStatus(d) # "CREATED" /\ ~(Repeats(d))'
  BY HistoryStays DEF Announces
<1>2. announced' = Announced(d) /\ Hook(d).kind \notin {"create", "paid"}
  BY <1>1 DEF Emitted, TablesAgree
<1>3. CASE Hook(d).kind = "update" /\ ~forward[d]
  <2>1. Salla
    BY <1>3, HookTypes DEF MaySend, Salla
  <2>a. Hook(d).slug # "none"
    BY <1>1, <1>3, <2>1 DEF MappedStatus, RowSlug, MapSallaOrderStatus, Slugs
  <2>2. PICK r \in DOMAIN orders :
          orders[r].status = Resolved(d)
    BY <1>1, <1>3, <2>a DEF MirrorKnown, SavesFound
  <2>3. PICK p \in Hooks : Newest(p)
    BY <2>2 DEF MirrorKnown
  <2>4. orders[r].status = MappedStatus(d) /\ orders[r].status = MappedStatus(p)
    BY <1>1, <1>3, <2>1, <2>2, <2>3 DEF TablesAgree, StatusEvent, MirrorKnown, LeftBy
  <2>5. /\ p \in Nat /\ d \in Nat /\ p < d /\ mpc[p] = "over"
        /\ \A e \in Hooks : e > d => mpc[e] = "new"
    <3>1. \A e \in Hooks : e > d => mpc[e] = "new"
      BY HandlerAtWork DEF MirrorKnown
    <3> QED
      BY <2>3, <3>1, MirrorBounds DEF Newest
  <2>6. /\ mpc'[d] = "over" /\ \A e \in Hooks \ {d} : mpc'[e] = mpc[e]
        /\ \A e : (TablesAgree(e))' = TablesAgree(e) /\ MappedStatus(e)' = MappedStatus(e)
        /\ Hook(d)' = Hook(d)
    BY HistoryStays DEF Emitted, OrderMirrorTypeOK
  <2>7. \A f \in Hooks : f > p /\ mpc'[f] = "over" => f = d
    BY <2>3, <2>6, MirrorBounds DEF Newest
  <2>8. ASSUME NEW e \in 1..p, mpc[e] = "over", ~TablesAgree(e),
               \A f \in e..p : mpc[f] = "over" => MappedStatus(f) = MappedStatus(p)
        PROVE  FALSE
    <3>1. e \in 1..(d - 1) /\ e \in Hooks /\ e # d /\ LastHook \in Nat
      BY <2>5, <2>8, MirrorBounds DEF Hooks
    <3>2. ASSUME NEW f \in e..d, mpc'[f] = "over" PROVE MappedStatus(f) = MappedStatus(d)
      <4>1. f \in Hooks /\ f \in Nat
        BY <3>1 DEF Hooks
      <4>2. CASE f = d
        BY <4>2
      <4>3. CASE f # d
        <5>1. f \in e..p /\ mpc[f] = "over"
          BY <2>5, <2>6, <2>7, <3>2, <4>1, <4>3
        <5> QED
          BY <2>4, <2>8, <5>1
      <4> QED
        BY <4>2, <4>3
    <3>3. mpc'[e] = "over" /\ ~(TablesAgree(e))'
      BY <2>6, <2>8, <3>1
    <3>4. (Repeats(d))' <=>
            /\ (Hook(d)').kind = "update"
            /\ \E x \in 1..(d - 1) :
                 /\ mpc'[x] = "over" /\ ~(TablesAgree(x))'
                 /\ \A f \in x..d : mpc'[f] = "over" => MappedStatus(f)' = MappedStatus(d)'
      BY DEF Repeats
    <3>5. \A f \in e..d : mpc'[f] = "over" => MappedStatus(f)' = MappedStatus(d)'
      BY <2>6, <3>2
    <3> QED
      BY <1>1, <1>3, <2>6, <3>1, <3>3, <3>4, <3>5
  <2>9. TablesAgree(p)
    <3>1. p \in 1..p /\ \A f \in p..p : f = p
      BY <2>5, MirrorBounds DEF Hooks
    <3> QED
      BY <2>5, <2>8, <3>1
  <2>10. ~Repeats(p)
    <3>1. \A e \in 1..(p - 1) : e \in 1..p
      BY <2>5
    <3> QED
      BY <2>8, <3>1 DEF Repeats
  <2>11. announced = orders[r].status
    BY <1>1, <2>3, <2>4, <2>9, <2>10 DEF Announces, MirrorKnown, LeftBy
  <2> QED
    BY <1>2, <1>3, <2>4, <2>11 DEF Announced, TellsNoStatus
<1>4. CASE ~(Hook(d).kind = "update" /\ ~forward[d])
  <2>1. StatusEvent(d) = MappedStatus(d)
    BY <1>1 DEF TablesAgree
  <2>2. ~TellsNoStatus(d)
    BY <1>1, <1>2, <1>4, <2>1 DEF TellsNoStatus
  <2> QED
    BY <1>2, <2>1, <2>2 DEF Announced
<1> QED
  BY <1>3, <1>4

-----------------------------------------------------------------------------
(* Only the one that works can take a step, and none of its statements fails. *)
LEMMA WorksAlone ==
  ASSUME OrderMirrorTypeOK, MirrorKnown, NEW d \in Hooks, mpc[d] \notin {"new", "over"},
         NEW pc \in MirrorPc \ {"new", "over"}, At(d, pc), begun' = begun
  PROVE  /\ OneByOne' /\ mpc'[d] = pc
         /\ \A e \in Hooks \ {d} : mpc[e] \in {"new", "over"}
<1>1. /\ d = begun /\ \A e \in Hooks : e > d => mpc[e] = "new"
      /\ \A e \in Hooks \ {d} : mpc[e] \in {"new", "over"}
  BY HandlerAtWork DEF MirrorKnown
<1>2. mpc'[d] = pc /\ \A e \in Hooks \ {d} : mpc'[e] = mpc[e]
  BY DEF At, OrderMirrorTypeOK
<1>3. ~(d > d)
  BY MirrorBounds
<1> QED
  BY <1>1, <1>2, <1>3 DEF OneByOne, Handling

LEMMA BeginKnown ==
  ASSUME OrderMirrorTypeOK, MirrorKnown, NEW d \in Hooks, Begin(d), ~disordered'
  PROVE  MirrorKnown'
<1>1. /\ mpc[d] = "new" /\ At(d, First(d)) /\ Handling = {} /\ ~(d < begun)
      /\ begun' = (IF d > begun THEN d ELSE begun)
      /\ UNCHANGED <<history, orders, customers, order, customer, forward, announced>>
  BY DEF Begin
<1>2. /\ First(d) \in {"customer", "compare", "order"}
      /\ Hook(d).kind = "update" => First(d) = "compare" \/ Hook(d).slug = "none"
  BY DEF First
<1>3. begun' = d /\ \A e \in Hooks : e > d => e > begun
  <2>1. d # begun /\ begun \in Nat /\ d \in Nat
    BY <1>1, MirrorBounds DEF MirrorKnown, OneByOne, OrderMirrorTypeOK
  <2> QED
    BY <1>1, <2>1, MirrorBounds
<1>4. mpc'[d] = First(d) /\ \A e \in Hooks \ {d} : mpc'[e] = mpc[e]
  BY <1>1 DEF At, OrderMirrorTypeOK
<1>5. \A e \in Hooks \ {d} : mpc[e] \in {"new", "over"}
  BY <1>1 DEF Handling
<1>6. OneByOne'
  BY <1>2, <1>3, <1>4, <1>5, MirrorBounds DEF OneByOne, Handling, MirrorKnown
<1>7. SavesFound(d)'
  BY <1>1, <1>2, <1>4, HistoryStays DEF SavesFound, MirrorKnown
<1>8. First(d) \in MirrorPc \ {"new", "over"}
  BY <1>2 DEF MirrorPc
<1> QED
  BY <1>1, <1>5, <1>6, <1>7, <1>8, GoesOn DEF MirrorKnown

LEMMA UpdatedKnown ==
  ASSUME OrderMirrorTypeOK, MirrorKnown, NEW d \in Hooks, HandleOrderUpdated(d),
         mslips' = mslips
  PROVE  MirrorKnown'
<1> DEFINE change == \/ Hook(d).previous
                     \/ Resolved(d) \in CriticalFallbackEvents
                     \/ DOMAIN orders = {}
                     \/ \E r \in DOMAIN orders : Transition(orders[r], d)
<1>1. /\ mpc[d] = "compare" /\ At(d, "customer")
      /\ forward' = [forward EXCEPT ![d] = change]
      /\ UNCHANGED <<history, orders, customers, order, customer, announced, begun>>
  BY MirrorSlipDiffers DEF HandleOrderUpdated
<1>2. "customer" \in MirrorPc \ {"new", "over"}
  BY DEF MirrorPc
<1>3. /\ OneByOne' /\ mpc'[d] = "customer"
      /\ \A e \in Hooks \ {d} : mpc[e] \in {"new", "over"}
  BY <1>1, <1>2, WorksAlone
<1>4. /\ forward'[d] <=> change
      /\ \A e \in Hooks \ {d} : forward'[e] = forward[e]
  BY <1>1 DEF OrderMirrorTypeOK
<1>5. ~change => \E r \in DOMAIN orders : orders[r].status = Resolved(d)
  BY DEF Transition
<1> HIDE DEF change
<1>6. SavesFound(d)'
  BY <1>1, <1>3, <1>4, <1>5, HistoryStays DEF SavesFound, MirrorKnown
<1> QED
  BY <1>1, <1>2, <1>3, <1>4, <1>6, GoesOn DEF MirrorKnown

LEMMA CustomerKnown ==
  ASSUME OrderMirrorTypeOK, MirrorKnown, NEW d \in Hooks,
         FindCustomer(d) \/ SaveCustomer(d), mslips' = mslips
  PROVE  MirrorKnown'
<1>1. /\ UNCHANGED <<history, orders, order, forward, announced, begun>>
      /\ mpc[d] \in {"customer", "saveCustomer"} /\ order[d].id = 0
  BY DEF FindCustomer, SaveCustomer, MirrorKnown, SavesFound
<1>c. customer \in [Hooks -> 0..LastHook] /\ 0 \notin customers
  BY MirrorBounds DEF OrderMirrorTypeOK
<1>2. CASE FindCustomer(d)
  <2>1. /\ mpc[d] = "customer" /\ At(d, "saveCustomer") /\ UNCHANGED customers
        /\ \/ customers = {} /\ UNCHANGED customer
           \/ \E r \in customers : customer' = [customer EXCEPT ![d] = r]
    BY <1>2, MirrorSlipDiffers DEF FindCustomer
  <2>2. "saveCustomer" \in MirrorPc \ {"new", "over"}
    BY DEF MirrorPc
  <2>3. /\ OneByOne' /\ mpc'[d] = "saveCustomer"
        /\ \A e \in Hooks \ {d} : mpc[e] \in {"new", "over"}
    BY <1>1, <2>1, <2>2, WorksAlone
  <2>4. /\ customer'[d] \in customers' \/ customers' = {}
        /\ \A e \in Hooks \ {d} : customer'[e] = customer[e]
    BY <1>c, <2>1
  <2>5. SavesFound(d)'
    BY <1>1, <2>1, <2>3, <2>4, HistoryStays DEF SavesFound, MirrorKnown
  <2> QED
    BY <1>1, <2>1, <2>2, <2>3, <2>4, <2>5, GoesOn DEF MirrorKnown
<1>3. CASE SaveCustomer(d)
  <2>1. /\ mpc[d] = "saveCustomer" /\ At(d, "order")
        /\ IF customer[d] # 0 THEN UNCHANGED <<customers, customer>>
            ELSE /\ customers' = customers \union {d}
                 /\ customer' = [customer EXCEPT ![d] = d]
    BY <1>3, MirrorSlipDiffers DEF SaveCustomer
  <2>2. "order" \in MirrorPc \ {"new", "over"}
    BY DEF MirrorPc
  <2>3. /\ OneByOne' /\ mpc'[d] = "order"
        /\ \A e \in Hooks \ {d} : mpc[e] \in {"new", "over"}
    BY <1>1, <2>1, <2>2, WorksAlone
  <2>4. customer[d] \in customers \/ customers = {}
    BY <2>1 DEF MirrorKnown, SavesFound
  <2>5. \A r, s \in customers' : r = s
    BY <1>c, <2>1, <2>4 DEF MirrorKnown
  <2>6. \A e \in Hooks \ {d} : customer'[e] = customer[e]
    BY <1>c, <2>1
  <2>7. SavesFound(d)'
    BY <1>1, <2>1, <2>3, HistoryStays DEF SavesFound, MirrorKnown
  <2> QED
    BY <1>1, <2>1, <2>2, <2>3, <2>5, <2>6, <2>7, GoesOn
<1> QED
  BY <1>2, <1>3

LEMMA FindOrderKnown ==
  ASSUME OrderMirrorTypeOK, MirrorKnown, NEW d \in Hooks, FindOrder(d), mslips' = mslips
  PROVE  MirrorKnown'
<1>1. /\ UNCHANGED <<history, orders, customers, customer, forward, announced, begun>>
      /\ mpc[d] \in {"order", "again"} /\ order[d].id = 0
      /\ \/ \E r \in DOMAIN orders :
              /\ order' = [order EXCEPT ![d] = [id |-> r, copy |-> orders[r]]]
              /\ At(d, "saveOrder")
         \/ /\ DOMAIN orders = {} /\ order' = order
            /\ At(d, IF Syncs(d) THEN "saveOrder" ELSE "again")
  BY MirrorSlipDiffers DEF FindOrder, MirrorKnown, SavesFound
<1>2. PICK pc \in {"saveOrder", "again"} :
        /\ At(d, pc)
        /\ \/ \E r \in DOMAIN orders :
                /\ order' = [order EXCEPT ![d] = [id |-> r, copy |-> orders[r]]]
                /\ pc = "saveOrder"
           \/ DOMAIN orders = {} /\ order' = order
  BY <1>1
<1>3. pc \in MirrorPc \ {"new", "over"}
  BY DEF MirrorPc
<1>4. /\ OneByOne' /\ mpc'[d] = pc
      /\ \A e \in Hooks \ {d} : mpc[e] \in {"new", "over"}
  BY <1>1, <1>2, <1>3, WorksAlone
<1>5. /\ \A e \in Hooks \ {d} : order'[e] = order[e]
      /\ \/ order'[d].id \in DOMAIN orders /\ pc = "saveOrder"
         \/ DOMAIN orders = {} /\ order'[d].id = 0
  BY <1>1, <1>2 DEF OrderMirrorTypeOK
<1>6. SavesFound(d)'
  BY <1>1, <1>4, <1>5, HistoryStays DEF SavesFound, MirrorKnown
<1> QED
  BY <1>1, <1>2, <1>3, <1>4, <1>5, <1>6, GoesOn DEF MirrorKnown

LEMMA SaveOrderKnown ==
  ASSUME OrderMirrorTypeOK, MirrorKnown, NEW d \in Hooks, SaveOrder(d), mslips' = mslips
  PROVE  MirrorKnown'
<1> DEFINE id == IF order[d].id = 0 THEN d ELSE order[d].id
<1>1. /\ mpc[d] = "saveOrder" /\ Emitted(d) /\ UNCHANGED <<history, customers, begun>>
      /\ orders' = [r \in DOMAIN orders \union {id} |->
                      IF r = id THEN Written(d) ELSE orders[r]]
  BY MirrorSlipDiffers DEF SaveOrder
<1>2. DOMAIN orders = {} \/ (DOMAIN orders = {id} /\ id = order[d].id)
  <2>1. order[d].id \in DOMAIN orders \/ DOMAIN orders = {}
    BY <1>1 DEF MirrorKnown, SavesFound
  <2>2. 0 \notin DOMAIN orders
    BY RowsType, MirrorBounds
  <2> QED
    BY <2>1, <2>2 DEF MirrorKnown
<1>3. DOMAIN orders' = {id} /\ orders'[id] = Written(d) /\ DOMAIN orders \subseteq {id}
  BY <1>1, <1>2
<1>4. (Announces(d))' => announced' = MappedStatus(d)
  BY <1>1, AnnouncesStatus
<1> HIDE DEF id
<1> QED
  BY <1>1, <1>3, <1>4, WrittenType, EndsWell

LEMMA UpdateStatusKnown ==
  ASSUME OrderMirrorTypeOK, MirrorKnown, NEW d \in Hooks, UpdateStatus(d), mslips' = mslips
  PROVE  MirrorKnown'
<1>1. /\ mpc[d] = "order" /\ ByUpdate(d) /\ Emitted(d)
      /\ UNCHANGED <<history, customers, begun>>
      /\ orders' = [r \in DOMAIN orders |-> [orders[r] EXCEPT !.status = MappedStatus(d)]]
  BY MirrorSlipDiffers DEF UpdateStatus
<1>2. \A row \in OrderRow : [row EXCEPT !.status = MappedStatus(d)].status = MappedStatus(d)
  BY DEF OrderRow
<1>3. /\ DOMAIN orders' = DOMAIN orders
      /\ \A r \in DOMAIN orders' : orders'[r].status = MappedStatus(d)
  BY <1>1, <1>2, RowsType
<1>4. (Announces(d))' => announced' = MappedStatus(d)
  BY <1>1, AnnouncesStatus
<1>5. \A r, s \in DOMAIN orders' : r = s
  BY <1>3 DEF MirrorKnown
<1> QED
  BY <1>1, <1>3, <1>4, <1>5, EndsWell

LEMMA MirrorStays ==
  ASSUME MirrorKnown, UNCHANGED mirrorVars
  PROVE  MirrorKnown'
  BY DEF mirrorVars, MirrorKnown, OneByOne, Handling, SavesFound, Newest, LeftBy,
         Announces, TablesAgree, Repeats, StatusEvent, MappedStatus, RowSlug, Resolved,
         ZidEventSlug, Hook, Salla, ByUpdate

LEMMA MirrorStepInv ==
  OrderMirrorTypeOK /\ MirrorInv /\ [OrderMirrorNext]_mirrorVars => MirrorInv'
<1> SUFFICES ASSUME OrderMirrorTypeOK, MirrorInv, [OrderMirrorNext]_mirrorVars, Orderly'
             PROVE  MirrorKnown'
  BY DEF MirrorInv
<1>1. CASE UNCHANGED mirrorVars
  BY <1>1, MirrorStays DEF MirrorInv, Orderly, mirrorVars
<1>2. ASSUME NEW d \in Hooks, Begin(d) PROVE MirrorKnown'
  <2>1. ~disordered' /\ ~disordered /\ mslips = 0
    BY <1>2 DEF Begin, Orderly
  <2> QED
    BY <1>2, <2>1, BeginKnown DEF MirrorInv, Orderly
<1>3. ASSUME NEW d \in Hooks,
             \/ HandleOrderUpdated(d) \/ FindCustomer(d) \/ SaveCustomer(d)
             \/ FindOrder(d) \/ SaveOrder(d) \/ UpdateStatus(d)
      PROVE  MirrorKnown'
  <2>1. disordered' = disordered /\ (mslips' = mslips \/ MirrorSlip)
    BY <1>3 DEF HandleOrderUpdated, FindCustomer, SaveCustomer, FindOrder, SaveOrder,
                UpdateStatus
  <2>2. MirrorKnown /\ mslips' = mslips
    BY <2>1, MirrorSlipType DEF MirrorInv, Orderly
  <2> QED
    BY <1>3, <2>2, UpdatedKnown, CustomerKnown, FindOrderKnown, SaveOrderKnown,
       UpdateStatusKnown
<1>4. CASE MirrorCrash
  BY <1>4, MirrorSlipType DEF MirrorCrash, Orderly
<1> QED
  BY <1>1, <1>2, <1>3, <1>4 DEF OrderMirrorNext

(* The webhooks of an order, in order and without errors, leave one row of the order  *)
(* and one of its customer, with the status that the newest of them means for the     *)
(* row (CREATED when it has none), and with that status announced unless the event    *)
(* is exempt: for every history a platform may send.                                  *)
THEOREM MirrorFollows == OrderMirrorSpec => []MirrorCurrent
<1>1. OrderMirrorTypeOK /\ MirrorInv => MirrorCurrent
  <2> SUFFICES ASSUME OrderMirrorTypeOK, MirrorKnown, begun # 0, Handling = {}
               PROVE  /\ Cardinality(DOMAIN orders) <= 1 /\ Cardinality(customers) <= 1
                      /\ (\E d \in 1..begun : mpc[d] = "over" /\ ~ByUpdate(d))
                           => DOMAIN orders # {}
                      /\ LeftBy(begun)
    BY DEF MirrorCurrent, MirrorInv, Orderly, LeftBy
  <2>1. begun \in Hooks /\ \A d \in 1..begun : d \in Hooks
    BY MirrorBounds DEF OrderMirrorTypeOK, Hooks
  <2>2. Newest(begun)
    <3>1. mpc[begun] = "over"
      BY <2>1 DEF MirrorKnown, OneByOne, Handling
    <3>2. \A e \in Hooks : mpc[e] = "over" => ~(e > begun)
      BY DEF MirrorKnown, OneByOne
    <3> QED
      BY <2>1, <3>1, <3>2, MirrorBounds DEF Newest
  <2> QED
    BY <2>1, <2>2, AtMostOne DEF MirrorKnown
<1> QED
  BY <1>1, MirrorInitType, MirrorTypeStep, MirrorInitInv, MirrorStepInv, PTL
     DEF OrderMirrorSpec
=============================================================================
