----------------------------- MODULE StoreTokens -----------------------------
(***************************************************************************)
(* The OAuth tokens of one Salla store: the synchronisation, which         *)
(* refreshes them when they are about to expire, the authorisation that    *)
(* brings new ones, the disconnection, the uninstallation, the deletion    *)
(* and the merchant's settings.  Each handler loads the row, waits for the *)
(* platform or not, and saves its copy: TypeORM writes every column in     *)
(* which the copy differs from the row and skips those that are undefined. *)
(* Only the synchronisation loads the tokens.                              *)
(***************************************************************************)
EXTENDS Naturals

CONSTANTS
    Handlers,      \* calls of the handlers
    MaxPairs,      \* bound: pairs of tokens Salla issues
    MaxExpiries,   \* bound: times the access token runs out
    MaxOutages     \* bound: answers lost, statements failed, processes dead

ASSUME StoreTokensAssumption ==
    MaxPairs \in Nat \ {0} /\ MaxExpiries \in Nat /\ MaxOutages \in Nat

VARIABLES
    store,      \* the row: status, deletedAt, the pair of tokens, its expiry
    hpc,        \* where each handler is
    task,       \* what it does
    held,       \* its copy of the row
    issued,     \* the newest pair; Salla honours no other refresh token
    reauth      \* pairs a handler of app.store.authorize has been given

VARIABLES       \* observation only
    endings,    \* times a save left the store disconnected or uninstalled
    met,        \* two handlers were under way at once
    outages, expiries

storeVars == <<store, hpc, task, held, issued, reauth, endings, met, outages, expiries>>

Tasks == {"none", "sync", "authorize", "disconnect", "uninstall", "delete", "settings"}
StoreStatus == {"ACTIVE", "TOKEN_EXPIRED", "DISCONNECTED", "UNINSTALLED"}
Undefined == 0
(* `seen' is the number of endings the copy knows of. *)
StoreRow == [status : StoreStatus, deleted : BOOLEAN, pair : 0..MaxPairs,
             fresh : BOOLEAN, seen : Nat]
HandlerPc == {"idle", "loaded", "refreshing", "refreshed", "refused", "api", "synced",
              "failed", "save", "remove", "over"}

StoreTokensTypeOK ==
    /\ store \in StoreRow /\ held \in [Handlers -> StoreRow]
    /\ hpc \in [Handlers -> HandlerPc] /\ task \in [Handlers -> Tasks]
    /\ issued \in 1..MaxPairs /\ reauth \in [Handlers -> 0..MaxPairs]
    /\ endings \in Nat /\ met \in BOOLEAN
    /\ outages \in 0..MaxOutages /\ expiries \in 0..MaxExpiries

Connected == [status |-> "ACTIVE", deleted |-> FALSE, pair |-> 1, fresh |-> TRUE,
              seen |-> 0]

StoreTokensInit ==
    /\ store = Connected /\ issued = 1
    /\ hpc = [h \in Handlers |-> "idle"] /\ task = [h \in Handlers |-> "none"]
    /\ held = [h \in Handlers |-> Connected]
    /\ reauth = [h \in Handlers |-> 0]
    /\ endings = 0 /\ met = FALSE /\ outages = 0 /\ expiries = 0

Outage == outages < MaxOutages /\ outages' = outages + 1
Now(h, pc) == hpc' = [hpc EXCEPT ![h] = pc]
UnderWay == {h \in Handlers : hpc[h] \notin {"idle", "over"}}

(* save: what is undefined in the copy stays as it is in the row.  deletedAt *)
(* is not: a copy loaded before the deletion brings the row back.           *)
Saved(copy) ==
    [copy EXCEPT !.pair = IF copy.pair = Undefined THEN store.pair ELSE copy.pair,
                 !.seen = endings]

-----------------------------------------------------------------------------
(* The merchant's requests load the row without its tokens; Salla's events  *)
(* bring a deleted store back to life on the way; the synchronisation loads *)
(* the tokens as well and wants an ACTIVE store.                            *)
BySalla == {"authorize", "uninstall"}
(* Mutant: the recovery does not look at deleted_at. *)
LookedRevived(k) == IF k \in BySalla
                      THEN [store EXCEPT !.deleted = FALSE, !.status = "ACTIVE"]
                      ELSE store

Looked(k) == IF k \in BySalla /\ store.deleted
               THEN [store EXCEPT !.deleted = FALSE, !.status = "ACTIVE"] ELSE store

Load(h, k) ==
    /\ hpc[h] = "idle"
    /\ k \notin BySalla => ~store.deleted
    /\ k = "sync" => store.status = "ACTIVE"
    /\ k = "authorize" => issued < MaxPairs
    /\ store' = Looked(k)
    /\ held' = [held EXCEPT ![h] =
                  IF k = "sync" THEN store' ELSE [store' EXCEPT !.pair = Undefined]]
    /\ task' = [task EXCEPT ![h] = k]
    /\ issued' = IF k = "authorize" THEN issued + 1 ELSE issued
    /\ reauth' = [reauth EXCEPT ![h] = IF k = "authorize" THEN issued + 1 ELSE 0]
    /\ met' = (met \/ UnderWay # {})
    /\ Now(h, IF k = "sync" THEN "loaded" ELSE "save")
    /\ UNCHANGED <<endings, outages, expiries>>

-----------------------------------------------------------------------------
(* ensureValidToken *)

EnsureValidToken(h) ==
    /\ hpc[h] = "loaded"
    /\ Now(h, IF held[h].fresh THEN "api" ELSE "refreshing")
    /\ UNCHANGED <<store, task, held, issued, reauth, endings, met, outages, expiries>>

(* Salla takes the newest refresh token once, and answers with a new pair;  *)
(* the answer may be lost, and so may the request: every error is a refusal.*)
RefreshAccessToken(h) ==
    /\ hpc[h] = "refreshing"
    /\ \/ /\ held[h].pair = issued /\ issued < MaxPairs
          /\ issued' = issued + 1
          /\ \/ /\ held' = [held EXCEPT ![h].pair = issued + 1, ![h].fresh = TRUE]
                /\ Now(h, "refreshed") /\ UNCHANGED outages
             \/ Outage /\ Now(h, "refused") /\ UNCHANGED held
       \/ /\ held[h].pair # issued
          /\ Now(h, "refused") /\ UNCHANGED <<issued, held, outages>>
       \/ Outage /\ Now(h, "refused") /\ UNCHANGED <<issued, held>>
    /\ UNCHANGED <<store, task, reauth, endings, met, expiries>>

(* Mutant: the refresh token of the answer is not kept. *)
SaveAccessOnly(h) ==
    /\ hpc[h] = "refreshed"
    /\ store' = Saved([held[h] EXCEPT !.pair = store.pair])
    /\ held' = [held EXCEPT ![h].pair = store.pair]
    /\ Now(h, "api")
    /\ UNCHANGED <<task, issued, reauth, endings, met, outages, expiries>>

(* The new pair is saved; if that fails, the copy that holds it is saved    *)
(* with the status of a failure.                                            *)
SaveTokens(h) ==
    /\ hpc[h] = "refreshed"
    /\ \/ store' = Saved(held[h]) /\ Now(h, "api") /\ UNCHANGED outages
       \/ Outage /\ Now(h, "refused") /\ UNCHANGED store
    /\ UNCHANGED <<task, held, issued, reauth, endings, met, expiries>>

(* The catch of ensureValidToken saves the copy, and so does syncStore's.   *)
SaveExpired(h) ==
    /\ hpc[h] = "refused"
    /\ held' = [held EXCEPT ![h].status = "TOKEN_EXPIRED"]
    /\ store' = Saved(held'[h])
    /\ Now(h, "failed")
    /\ UNCHANGED <<task, issued, reauth, endings, met, outages, expiries>>

(* syncSallaStore: the platform answers or not. *)
SyncSallaStore(h) ==
    /\ hpc[h] = "api"
    /\ Now(h, "synced") \/ Now(h, "failed")
    /\ UNCHANGED <<store, task, held, issued, reauth, endings, met, outages, expiries>>

(* The copy is saved whatever came of it, lastSyncedAt or lastError set. *)
SaveSync(h) ==
    /\ hpc[h] \in {"synced", "failed"}
    /\ store' = Saved(held[h])
    /\ Now(h, "over")
    /\ UNCHANGED <<task, held, issued, reauth, endings, met, outages, expiries>>

-----------------------------------------------------------------------------
(* The other handlers: what the copy says when it is saved.  Tokens that    *)
(* are set to undefined stay in the row.                                    *)
Edited(h) ==
    LET copy == held[h]
    IN CASE task[h] = "authorize" ->
              [copy EXCEPT !.status = "ACTIVE", !.pair = reauth[h], !.fresh = TRUE]
         [] task[h] = "disconnect" ->
              [copy EXCEPT !.status = "DISCONNECTED", !.fresh = store.fresh]
         [] task[h] \in {"uninstall", "delete"} ->
              [copy EXCEPT !.status = "UNINSTALLED", !.fresh = store.fresh]
         [] OTHER -> copy

Ended == {"DISCONNECTED", "UNINSTALLED"}

(* An older copy may end the store a second time. *)
SaveEdit(h) ==
    /\ hpc[h] = "save"
    /\ LET edited == Saved(Edited(h))
       IN /\ endings' = IF edited.status \in Ended THEN endings + 1 ELSE endings
          /\ store' = [edited EXCEPT !.seen = endings']
    /\ Now(h, IF task[h] = "delete" THEN "remove" ELSE "over")
    /\ UNCHANGED <<task, held, issued, reauth, met, outages, expiries>>

(* deleteStorePermanently goes on to softRemove. *)
SoftRemove(h) ==
    /\ hpc[h] = "remove"
    /\ store' = [store EXCEPT !.deleted = TRUE]
    /\ Now(h, "over")
    /\ UNCHANGED <<task, held, issued, reauth, endings, met, outages, expiries>>

(* Any other event of the merchant looks the store up. *)
Recover ==
    /\ store.deleted
    /\ store' = [store EXCEPT !.deleted = FALSE, !.status = "ACTIVE"]
    /\ UNCHANGED <<hpc, task, held, issued, reauth, endings, met, outages, expiries>>

(* tokenExpiresAt comes within ten minutes, in the row and in the copies.   *)
TokenExpires ==
    /\ expiries < MaxExpiries /\ expiries' = expiries + 1
    /\ store' = [store EXCEPT !.fresh = FALSE]
    /\ held' = [h \in Handlers |-> [held[h] EXCEPT !.fresh = FALSE]]
    /\ UNCHANGED <<hpc, task, issued, reauth, endings, met, outages>>

StoreCrash ==
    /\ Outage /\ UnderWay # {}
    /\ hpc' = [h \in Handlers |-> IF h \in UnderWay THEN "over" ELSE hpc[h]]
    /\ UNCHANGED <<store, task, held, issued, reauth, endings, met, expiries>>

StoreTokensNext ==
    \/ \E h \in Handlers : \/ \E k \in Tasks \ {"none"} : Load(h, k)
                           \/ EnsureValidToken(h) \/ RefreshAccessToken(h)
                           \/ SaveTokens(h) \/ SaveExpired(h) \/ SyncSallaStore(h)
                           \/ SaveSync(h) \/ SaveEdit(h) \/ SoftRemove(h)
    \/ Recover \/ TokenExpires \/ StoreCrash

StoreTokensSpec == StoreTokensInit /\ [][StoreTokensNext]_storeVars

-----------------------------------------------------------------------------
(* At rest, the row holds the pair that Salla still honours, unless two     *)
(* handlers met, an answer was lost or the process died: the refresh token  *)
(* is good for one use (ensureValidToken, stores.service.ts:315).           *)
TokenStillGood ==
    UnderWay = {} /\ ~met /\ outages = 0 => store.pair = issued

(* A store that was disconnected, uninstalled or deleted becomes ACTIVE     *)
(* again by an authorisation, by the recovery of a deleted one, or by a     *)
(* handler whose copy is older than the ending (stores.service.ts:262).     *)
EndedStaysEnded ==
    [][store.status \in Ended /\ store'.status = "ACTIVE"
         => \/ store.deleted
            \/ \E h \in UnderWay : task[h] = "authorize" \/ held[h].seen < endings
      ]_storeVars
=============================================================================
