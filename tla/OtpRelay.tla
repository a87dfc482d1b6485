------------------------------ MODULE OtpRelay ------------------------------
(***************************************************************************)
(* What a store's public page gives away for an order: activation codes    *)
(* read from a mailbox, and accounts taken from an inventory as            *)
(* compensation, by hand or automatically.  Both are limited per order by  *)
(* a count of rows that are written after the count.  All requests are for *)
(* one order; its accounts are also edited by the merchant.                *)
(***************************************************************************)
EXTENDS Naturals, FiniteSets

CONSTANTS
    Requests,         \* requests of the customer's page
    KindChoices,      \* what each asks for: functions into Favours
    Accounts,         \* accounts of the inventory, oldest first
    MaxPerOrder,      \* maxCodesPerOrder and maxCompensationsPerOrder
    MaxDeletes,       \* bound: accounts the merchant deletes
    MaxMishaps        \* bound: failed statements and deaths of the process

Favours == {"code", "auto", "manual"}

ASSUME OtpRelayAssumption ==
    /\ KindChoices \subseteq [Requests -> Favours] /\ Accounts \subseteq Nat
    /\ MaxPerOrder \in Nat \ {0} /\ MaxDeletes \in Nat /\ MaxMishaps \in Nat

VARIABLES
    favour,       \* what each request asks for
    opc,          \* where each request is
    snapshot,     \* the accounts its SELECT ... FOR UPDATE has found
    taken,        \* the account it holds: none, or one
    stock,        \* status of each account
    owner,        \* assignedTo, as the request that took it: none, or one
    records,      \* requests with a row in the log or in the compensations
    deleting      \* accounts a deletion has loaded as not assigned

VARIABLES otpDeletes, mishaps     \* what the bounds count

otpVars == <<favour, opc, snapshot, taken, stock, owner, records, deleting, otpDeletes,
             mishaps>>

OpcStates == {"start", "counted", "locking", "locked", "paid", "done"}

OtpRelayTypeOK ==
    /\ favour \in KindChoices /\ opc \in [Requests -> OpcStates]
    /\ snapshot \in [Requests -> SUBSET Accounts]
    /\ taken \in [Requests -> SUBSET Accounts]
    /\ stock \in [Accounts -> {"missing", "AVAILABLE", "ASSIGNED", "deleted"}]
    /\ owner \in [Accounts -> SUBSET Requests]
    /\ records \subseteq Requests /\ deleting \subseteq Accounts
    /\ otpDeletes \in 0..MaxDeletes /\ mishaps \in 0..MaxMishaps

OtpRelayInit ==
    /\ favour \in KindChoices
    /\ opc = [r \in Requests |-> "start"]
    /\ snapshot = [r \in Requests |-> {}] /\ taken = [r \in Requests |-> {}]
    /\ stock \in [Accounts -> {"missing", "AVAILABLE"}]
    /\ owner = [a \in Accounts |-> {}]
    /\ records = {} /\ deleting = {} /\ otpDeletes = 0 /\ mishaps = 0

Mishap == mishaps < MaxMishaps /\ mishaps' = mishaps + 1
Move(r, pc) == opc' = [opc EXCEPT ![r] = pc]
inventory == <<stock, owner, deleting, otpDeletes>>

(* Codes count the successful rows of the log, compensations the rows of    *)
(* either method.                                                           *)
Ledger(r) == IF favour[r] = "code" THEN {"code"} ELSE {"auto", "manual"}
UsedCount(r) == Cardinality({q \in records : favour[q] \in Ledger(r)})

-----------------------------------------------------------------------------
(* The count of rows already written, tested before the row is. *)
LimitReached(r) == UsedCount(r) >= MaxPerOrder

(* requestOtp and requestCompensation: the rate limit, the order, the count. *)
(* What the rate limit or a look-up refuses never gets this far.            *)
CheckLimit(r) ==
    /\ opc[r] = "start"
    /\ \/ ~LimitReached(r) /\ Move(r, "counted")
       \/ Move(r, "done")
    /\ UNCHANGED <<favour, snapshot, taken, inventory, records, mishaps>>

(* The mailbox or the bot yields a code, or none and the request fails.     *)
(* A manual request needs nothing.                                          *)
ExtractOtp(r) ==
    /\ opc[r] = "counted" /\ favour[r] # "auto"
    /\ \/ Move(r, "paid")
       \/ favour[r] = "code" /\ Move(r, "done")
    /\ UNCHANGED <<favour, snapshot, taken, inventory, records, mishaps>>

(* The transaction: SELECT ... FOR UPDATE locks every available account it  *)
(* sees, and waits while another transaction holds one of them.             *)
SelectForUpdate(r) ==
    /\ opc[r] = "counted" /\ favour[r] = "auto"
    /\ snapshot' = [snapshot EXCEPT ![r] = {a \in Accounts : stock[a] = "AVAILABLE"}]
    /\ Move(r, "locking")
    /\ UNCHANGED <<favour, taken, inventory, records, mishaps>>

Held == UNION {snapshot[q] : q \in {p \in Requests : opc[p] = "locked"}}

(* ORDER BY createdAt: the oldest of the free accounts is the one. *)
Oldest(free) == {a \in free : \A b \in free : a <= b}
Take(r, free) == /\ taken' = [taken EXCEPT ![r] = Oldest(free)]
                 /\ Move(r, "locked")

(* Mutant: no lock. *)
LockNothing(r) ==
    /\ opc[r] = "locking"
    /\ LET free == snapshot[r]
       IN IF free = {}
            THEN Move(r, "done") /\ UNCHANGED taken
            ELSE Take(r, free)
    /\ UNCHANGED <<favour, snapshot, inventory, records, mishaps>>

(* Once the rows are free, those no longer available are left out, and the  *)
(* oldest of the others is taken.                                           *)
LockAccounts(r) ==
    /\ opc[r] = "locking" /\ snapshot[r] \intersect Held = {}
    /\ LET free == {a \in snapshot[r] : stock[a] = "AVAILABLE"}
       IN IF free = {}
            THEN /\ Move(r, "done")
                 /\ snapshot' = [snapshot EXCEPT ![r] = {}] /\ UNCHANGED taken
            ELSE snapshot' = [snapshot EXCEPT ![r] = free] /\ Take(r, free)
    /\ UNCHANGED <<favour, inventory, records, mishaps>>

(* The account is assigned and the transaction commits, or rolls back. *)
AssignAccount(r) ==
    /\ opc[r] = "locked"
    /\ snapshot' = [snapshot EXCEPT ![r] = {}]
    /\ \/ /\ stock' = [a \in Accounts |-> IF a \in taken[r] THEN "ASSIGNED"
                                                             ELSE stock[a]]
          /\ owner' = [a \in Accounts |-> IF a \in taken[r] THEN owner[a] \union {r}
                                                             ELSE owner[a]]
          /\ Move(r, "paid") /\ UNCHANGED <<taken, mishaps>>
       \/ /\ Mishap /\ Move(r, "done")
          /\ taken' = [taken EXCEPT ![r] = {}] /\ UNCHANGED <<stock, owner>>
    /\ UNCHANGED <<favour, records, deleting, otpDeletes>>

(* The row is written, the counters after it (before it, for a code), and   *)
(* only then the customer gets what was asked for.  An error leaves an      *)
(* assigned account without a customer, with or without its row; for a code *)
(* the error's own row says success.                                        *)
SaveRecord(r) ==
    /\ opc[r] = "paid"
    /\ \/ records' = records \union {r} /\ UNCHANGED mishaps
       \/ Mishap /\ records' \in {records, records \union {r}}
    /\ Move(r, "done")
    /\ UNCHANGED <<favour, snapshot, taken, inventory>>

-----------------------------------------------------------------------------
(* The merchant. *)

(* addItem and bulkAdd *)
AddItem(a) ==
    /\ stock[a] = "missing"
    /\ stock' = [stock EXCEPT ![a] = "AVAILABLE"]
    /\ UNCHANGED <<favour, opc, snapshot, taken, owner, records, deleting,
                   otpDeletes, mishaps>>

(* deleteItem loads the account, and refuses one that is assigned. *)
LoadForDeletion(a) ==
    /\ stock[a] = "AVAILABLE" /\ otpDeletes < MaxDeletes
    /\ otpDeletes' = otpDeletes + 1
    /\ deleting' = deleting \union {a}
    /\ UNCHANGED <<favour, opc, snapshot, taken, stock, owner, records, mishaps>>

(* The removal is by id, and waits for the lock. *)
RemoveItem(a) ==
    /\ a \in deleting /\ a \notin Held
    /\ stock' = [stock EXCEPT ![a] = "deleted"]
    /\ deleting' = deleting \ {a}
    /\ UNCHANGED <<favour, opc, snapshot, taken, owner, records, otpDeletes, mishaps>>

DeleteAllAvailable ==
    /\ Held = {} /\ otpDeletes < MaxDeletes
    /\ otpDeletes' = otpDeletes + 1
    /\ stock' = [a \in Accounts |-> IF stock[a] = "AVAILABLE" THEN "deleted"
                                                               ELSE stock[a]]
    /\ UNCHANGED <<favour, opc, snapshot, taken, owner, records, deleting, mishaps>>

(* The process dies; an open transaction is rolled back. *)
OtpCrash ==
    /\ Mishap
    /\ opc' = [r \in Requests |-> IF opc[r] = "start" THEN "start" ELSE "done"]
    /\ taken' = [r \in Requests |-> IF opc[r] = "locked" THEN {} ELSE taken[r]]
    /\ snapshot' = [r \in Requests |-> {}] /\ deleting' = {}
    /\ UNCHANGED <<favour, stock, owner, records, otpDeletes>>

OtpRelayNext ==
    \/ \E r \in Requests : \/ CheckLimit(r) \/ ExtractOtp(r) \/ SelectForUpdate(r)
                           \/ LockAccounts(r) \/ AssignAccount(r) \/ SaveRecord(r)
    \/ \E a \in Accounts : AddItem(a) \/ LoadForDeletion(a) \/ RemoveItem(a)
    \/ DeleteAllAvailable \/ OtpCrash

OtpRelaySpec == OtpRelayInit /\ [][OtpRelayNext]_otpVars

-----------------------------------------------------------------------------
(* An account is given to one request, however many ask at once, and is     *)
(* not taken back by a transaction that saw it free                         *)
(* (requestCompensation, otp-inventory.service.ts:176).                     *)
OneOwnerPerAccount ==
    /\ \A a \in Accounts : Cardinality(owner[a]) <= 1
    /\ \A q, r \in Requests : q # r => taken[q] \intersect taken[r] = {}
=============================================================================
