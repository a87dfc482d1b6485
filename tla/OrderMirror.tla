----------------------------- MODULE OrderMirror -----------------------------
(***************************************************************************)
(* The mirror of one order of a store: what the processors of Salla's and  *)
(* Zid's webhooks write of it and of its customer, and which status they   *)
(* announce to the rest of the system.  The webhooks of the order are      *)
(* numbered as the platform sent them; several handlers may run at once    *)
(* and in any order, each reads a row, waits, and saves the whole of its   *)
(* copy.  No unique index keeps two rows of the same order apart.          *)
(***************************************************************************)
EXTENDS Naturals, FiniteSets

CONSTANTS
    LastHook,        \* the webhooks are 1..LastHook
    HistoryChoices,  \* what the platforms may send
    MaxOrderSlips    \* bound: failed statements and deaths of the process

Hooks == 1..LastHook
Rows == 1..LastHook

(* What a webhook says: an order created, updated, changed in status, of a  *)
(* kind that names its status ("fixed": shipped, cancelled, refunded...),   *)
(* or, for Zid, paid.                                                       *)
HookKinds == {"create", "update", "status", "fixed", "paid"}
OrderStatus == {"CREATED", "PROCESSING", "SHIPPED", "CANCELLED", "RESTORING",
                "PENDING_PAYMENT", "PAID"}

(* One slug stands for each way the tables of the code treat a status.      *)
(* "custom" is a status of the merchant's own whose slug is unknown and     *)
(* whose name, or that of its parent, speaks of processing; "none" is what  *)
(* a payload without a status says.                                         *)
Slugs == {"new", "shipped", "cancelled", "custom", "restoring", "unpaid", "paid", "none"}
MapSallaOrderStatus ==
    [slug \in Slugs |-> CASE slug \in {"new", "custom", "none"} -> "CREATED"
                          [] slug = "shipped" -> "SHIPPED"
                          [] slug = "cancelled" -> "CANCELLED"
                          [] slug = "restoring" -> "RESTORING"
                          [] slug = "unpaid" -> "PENDING_PAYMENT"
                          [] slug = "paid" -> "PAID"]

(* What the row takes for CREATED the event may take for something else:    *)
(* for a payment that is due (hasPendingPaymentSignal) or for processing.   *)
ResolveSpecificStatusEvent(slug, unpaid) ==
    IF MapSallaOrderStatus[slug] # "CREATED" THEN MapSallaOrderStatus[slug]
    ELSE IF unpaid THEN "PENDING_PAYMENT"
    ELSE IF slug = "custom" THEN "PROCESSING" ELSE "CREATED"

(* Zid's tables; "OTHER" is the fallback event of a slug they do not know.  *)
MapZidOrderStatus ==
    [MapSallaOrderStatus EXCEPT !["restoring"] = "PROCESSING", !["unpaid"] = "CREATED"]
MapZidStatusToEvent ==
    [MapSallaOrderStatus EXCEPT !["custom"] = "OTHER", !["none"] = "OTHER"]
CriticalFallbackEvents == {"PENDING_PAYMENT", "PROCESSING"}
StatusEvents == OrderStatus \union {"OTHER"}

(* `slug' is the status of the payload: for Zid, order_status or else       *)
(* status.  `named' is the status that a "fixed" or "paid" webhook is named *)
(* after, or Zid's display_status where order_status is missing.  `unpaid'  *)
(* is whether the payload, or the name of the status, speaks of a payment   *)
(* that is due, `previous' whether previous_status comes along.             *)
Webhooks == [kind : HookKinds, slug : Slugs, named : Slugs, unpaid : BOOLEAN,
             previous : BOOLEAN]

(* Zid's updates are all changes of status, and only Zid tells of payments: *)
(* one that is made, since the other changes nothing.  A webhook whose kind *)
(* names the status comes with that one or with none.                       *)
MaySend(platform, hook) ==
    /\ hook.kind = "update" => platform = "salla"
    /\ hook.kind = "paid" => platform = "zid" /\ hook.named = "paid"
    /\ hook.kind = "fixed" =>
         /\ hook.named \in {"cancelled", "shipped"}
         /\ hook.named = "shipped" => platform = "salla"
         /\ hook.slug \in {hook.named, "none"}
History == {h \in [platform : {"salla", "zid"}, hook : [Hooks -> Webhooks]] :
              \A d \in Hooks : MaySend(h.platform, h.hook[d])}

ASSUME OrderMirrorAssumption ==
    /\ LastHook \in Nat \ {0} /\ MaxOrderSlips \in Nat
    /\ HistoryChoices \subseteq History

VARIABLES
    history,    \* what the platform sends
    orders,     \* rows of the order, each a function of its id
    customers,  \* rows of its customer
    mpc,        \* where each handler is
    order,      \* the row it has found: 0 when none, and a copy of it
    customer,   \* the row of the customer it has found or saved, or 0
    forward,    \* order.updated goes on as a change of status
    announced   \* the status of the event last emitted, or "none"

VARIABLES       \* observation only
    begun,      \* the newest webhook that has been taken up
    disordered, \* a handler began beside another, or after a newer webhook
    mslips

mirrorVars == <<history, orders, customers, mpc, order, customer, forward, announced,
                begun, disordered, mslips>>

OrderRow == [status : OrderStatus, signature : Slugs, customer : 0..LastHook]
NoRow == [status |-> "CREATED", signature |-> "none", customer |-> 0]
MirrorPc == {"new", "compare", "customer", "saveCustomer", "order", "again",
             "saveOrder", "over"}

OrderMirrorTypeOK ==
    /\ history \in HistoryChoices
    /\ \E ids \in SUBSET Rows : orders \in [ids -> OrderRow]
    /\ customers \subseteq Rows
    /\ mpc \in [Hooks -> MirrorPc]
    /\ order \in [Hooks -> [id : 0..LastHook, copy : OrderRow]]
    /\ customer \in [Hooks -> 0..LastHook] /\ forward \in [Hooks -> BOOLEAN]
    /\ announced \in StatusEvents \union {"none"}
    /\ begun \in 0..LastHook /\ disordered \in BOOLEAN /\ mslips \in 0..MaxOrderSlips

OrderMirrorInit ==
    /\ history \in HistoryChoices
    /\ orders = [r \in {} |-> NoRow] /\ customers = {}
    /\ mpc = [d \in Hooks |-> "new"]
    /\ order = [d \in Hooks |-> [id |-> 0, copy |-> NoRow]]
    /\ customer = [d \in Hooks |-> 0] /\ forward = [d \in Hooks |-> FALSE]
    /\ announced = "none" /\ begun = 0 /\ disordered = FALSE /\ mslips = 0

Salla == history.platform = "salla"
Hook(d) == history.hook[d]
Handling == {d \in Hooks : mpc[d] \notin {"new", "over"}}
MirrorSlip == mslips < MaxOrderSlips /\ mslips' = mslips + 1
At(d, pc) == mpc' = [mpc EXCEPT ![d] = pc]

(* The status a webhook means for the row. *)
RowSlug(d) == IF Hook(d).kind \in {"fixed", "paid"} THEN Hook(d).named ELSE Hook(d).slug
MappedStatus(d) == IF Salla THEN MapSallaOrderStatus[RowSlug(d)]
                            ELSE MapZidOrderStatus[RowSlug(d)]

(* The event that tells of the status, beside the general ones.  Zid looks  *)
(* at display_status for it, and not for the row.  Salla's `order.created'  *)
(* is left to the creation, and so is what order.updated says of a status   *)
(* that has not changed; Zid's payment tells of none.                       *)
Resolved(d) == ResolveSpecificStatusEvent(Hook(d).slug, Hook(d).unpaid)
ZidEventSlug(d) == IF Hook(d).named = "none" THEN Hook(d).slug ELSE Hook(d).named
StatusEvent(d) == IF Hook(d).kind = "fixed" THEN MapSallaOrderStatus[Hook(d).named]
                  ELSE IF Salla THEN Resolved(d)
                  ELSE MapZidStatusToEvent[ZidEventSlug(d)]
TellsNoStatus(d) == \/ Hook(d).kind = "paid"
                    \/ Hook(d).kind = "update" /\ ~forward[d]
                    \/ Salla /\ StatusEvent(d) = "CREATED"
Announced(d) ==
    CASE Hook(d).kind = "create" -> "CREATED"
      [] Hook(d).kind # "create" /\ TellsNoStatus(d) -> announced
      [] OTHER -> StatusEvent(d)

(* The handler ends: its events are emitted whatever became of the row. *)
Emitted(d) ==
    /\ announced' = Announced(d)
    /\ mpc' = [mpc EXCEPT ![d] = "over"]
    /\ order' = [order EXCEPT ![d] = [id |-> 0, copy |-> NoRow]]
    /\ customer' = [customer EXCEPT ![d] = 0] /\ forward' = [forward EXCEPT ![d] = FALSE]

First(d) ==
    CASE Hook(d).kind = "create" -> "customer"
      [] Hook(d).kind = "update" /\ Hook(d).slug # "none" -> "compare"
      [] Hook(d).kind = "update" /\ Hook(d).slug = "none" -> "customer"
      [] Hook(d).kind = "status" /\ Salla -> "customer"
      [] OTHER -> "order"

Begin(d) ==
    /\ mpc[d] = "new"
    /\ At(d, First(d))
    /\ begun' = IF d > begun THEN d ELSE begun
    /\ disordered' = (disordered \/ Handling # {} \/ d < begun)
    /\ UNCHANGED <<history, orders, customers, order, customer, forward, announced,
                   mslips>>

-----------------------------------------------------------------------------
(* handleOrderUpdated: is this a change of status?  An error says yes.      *)
(* Without a status in the payload nothing is compared.                     *)
Transition(row, d) ==
    \/ row.status # Resolved(d)
    \/ row.signature # Hook(d).slug

HandleOrderUpdated(d) ==
    /\ mpc[d] = "compare"
    /\ \/ /\ forward' = [forward EXCEPT ![d] =
                \/ Hook(d).previous
                \/ Resolved(d) \in CriticalFallbackEvents
                \/ DOMAIN orders = {}
                \/ \E r \in DOMAIN orders : Transition(orders[r], d)]
          /\ UNCHANGED mslips
       \/ MirrorSlip /\ forward' = [forward EXCEPT ![d] = TRUE]
    /\ At(d, "customer")
    /\ UNCHANGED <<history, orders, customers, order, customer, announced, begun,
                   disordered>>

(* syncCustomerToDatabase answers null when a statement fails. *)
FindCustomer(d) ==
    /\ mpc[d] = "customer"
    /\ \/ /\ \/ customers = {} /\ UNCHANGED customer
             \/ \E r \in customers : customer' = [customer EXCEPT ![d] = r]
          /\ At(d, "saveCustomer") /\ UNCHANGED mslips
       \/ MirrorSlip /\ At(d, "order") /\ UNCHANGED customer
    /\ UNCHANGED <<history, orders, customers, order, forward, announced, begun,
                   disordered>>

SaveCustomer(d) ==
    /\ mpc[d] = "saveCustomer"
    /\ \/ /\ UNCHANGED mslips
          /\ IF customer[d] # 0
               THEN UNCHANGED <<customers, customer>>
               ELSE /\ customers' = customers \union {d}
                    /\ customer' = [customer EXCEPT ![d] = d]
       \/ MirrorSlip /\ customer' = [customer EXCEPT ![d] = 0] /\ UNCHANGED customers
    /\ At(d, "order")
    /\ UNCHANGED <<history, orders, order, forward, announced, begun, disordered>>

-----------------------------------------------------------------------------
(* syncOrderToDatabase, which creates the row it does not find, and         *)
(* updateOrderStatusInDatabase, which calls it then.                        *)
Syncs(d) == \/ Hook(d).kind = "create" \/ mpc[d] = "again"
            \/ Hook(d).kind = "update" /\ ~forward[d]

ByUpdate(d) == ~Salla /\ Hook(d).kind \in {"fixed", "paid"}

FindOrder(d) ==
    /\ mpc[d] \in {"order", "again"} /\ ~ByUpdate(d)
    /\ \/ \E r \in DOMAIN orders :
            /\ order' = [order EXCEPT ![d] = [id |-> r, copy |-> orders[r]]]
            /\ At(d, "saveOrder")
            /\ UNCHANGED <<customer, forward, announced, mslips>>
       \/ /\ DOMAIN orders = {}
          /\ At(d, IF Syncs(d) THEN "saveOrder" ELSE "again")
          /\ UNCHANGED <<order, customer, forward, announced, mslips>>
       \/ MirrorSlip /\ Emitted(d)
    /\ UNCHANGED <<history, orders, customers, begun, disordered>>

LinksCustomer(d) == \/ Hook(d).kind = "create"
                    \/ Hook(d).kind = "update" /\ ~forward[d]

(* A payload without a status leaves the signature, and not the status.     *)
Signature(d) == IF Hook(d).slug = "none" THEN order[d].copy.signature ELSE Hook(d).slug

(* Mutant: the status of an existing row is left to the next webhook. *)
WrittenKept(d) ==
    [order[d].copy EXCEPT
       !.status = IF order[d].id = 0 THEN MappedStatus(d) ELSE @,
       !.signature = Signature(d),
       !.customer = IF LinksCustomer(d) /\ customer[d] # 0 THEN customer[d] ELSE @]

Written(d) ==
    [order[d].copy EXCEPT
       !.status = MappedStatus(d), !.signature = Signature(d),
       !.customer = IF LinksCustomer(d) /\ customer[d] # 0 THEN customer[d] ELSE @]

SaveOrder(d) ==
    /\ mpc[d] = "saveOrder"
    /\ LET id == IF order[d].id = 0 THEN d ELSE order[d].id
       IN \/ /\ orders' = [r \in DOMAIN orders \union {id} |->
                             IF r = id THEN Written(d) ELSE orders[r]]
             /\ UNCHANGED mslips
          \/ MirrorSlip /\ UNCHANGED orders
    /\ Emitted(d)
    /\ UNCHANGED <<history, customers, begun, disordered>>

(* Zid's order-cancelled, order-refunded and payment: one UPDATE, of every  *)
(* row of the order and of none that is missing.                            *)
UpdateStatus(d) ==
    /\ mpc[d] = "order" /\ ByUpdate(d)
    /\ \/ /\ orders' = [r \in DOMAIN orders |->
                          [orders[r] EXCEPT !.status = MappedStatus(d)]]
          /\ UNCHANGED mslips
       \/ MirrorSlip /\ UNCHANGED orders
    /\ Emitted(d)
    /\ UNCHANGED <<history, customers, begun, disordered>>

(* The process dies, and the queue runs the handlers again. *)
MirrorCrash ==
    /\ MirrorSlip /\ Handling # {}
    /\ mpc' = [d \in Hooks |-> IF d \in Handling THEN "new" ELSE mpc[d]]
    /\ order' = [d \in Hooks |-> [id |-> 0, copy |-> NoRow]]
    /\ customer' = [d \in Hooks |-> 0] /\ forward' = [d \in Hooks |-> FALSE]
    /\ UNCHANGED <<history, orders, customers, announced, begun, disordered>>

OrderMirrorNext ==
    \/ \E d \in Hooks : \/ Begin(d) \/ HandleOrderUpdated(d) \/ FindCustomer(d)
                        \/ SaveCustomer(d) \/ FindOrder(d) \/ SaveOrder(d)
                        \/ UpdateStatus(d)
    \/ MirrorCrash

OrderMirrorSpec == OrderMirrorInit /\ [][OrderMirrorNext]_mirrorVars

-----------------------------------------------------------------------------
(* When the webhooks of an order are handled one by one, in the order the   *)
(* platform sent them and without errors, the mirror has one row of it and  *)
(* of its customer, the row has the status of the newest one, and that is   *)
(* the status of the event last emitted (updateOrderStatusInDatabase,       *)
(* salla-order.handler.ts:415; zid-webhook.processor.ts:1140).  A payload   *)
(* without the status that the row is read from means CREATED, whatever the *)
(* row said: an order.updated of Salla without one, a change of Zid with no *)
(* more than display_status, whose event tells another status (line 364).   *)
(* The event is exempt at a creation, which announces only itself, at Zid's *)
(* payment, which announces no status, where the code takes one status for  *)
(* the row and another for the event, and at an update that repeats a       *)
(* status which came with one of these.                                     *)
TablesAgree(d) ==
    Hook(d).kind \notin {"create", "paid"} /\ StatusEvent(d) = MappedStatus(d)
Repeats(d) ==
    /\ Hook(d).kind = "update"
    /\ \E e \in 1..(d - 1) :
         /\ mpc[e] = "over" /\ ~TablesAgree(e)
         /\ \A f \in e..d : mpc[f] = "over" => MappedStatus(f) = MappedStatus(d)
Announces(d) == TablesAgree(d) /\ MappedStatus(d) # "CREATED" /\ ~Repeats(d)

MirrorCurrent ==
    begun # 0 /\ Handling = {} /\ ~disordered /\ mslips = 0
      => /\ Cardinality(DOMAIN orders) <= 1 /\ Cardinality(customers) <= 1
         /\ (\E d \in 1..begun : mpc[d] = "over" /\ ~ByUpdate(d)) => DOMAIN orders # {}
         /\ \A r \in DOMAIN orders :
              /\ orders[r].status = MappedStatus(begun)
              /\ Announces(begun) => announced = orders[r].status

-----------------------------------------------------------------------------
(* The inductive invariant behind it.  In order and without errors, the     *)
(* newest webhook is the only one that may be at work, it saves the row it  *)
(* has found or the first, and what the newest one that is over has left    *)
(* stays until then.                                                        *)
OneByOne ==
    /\ begun # 0 => mpc[begun] # "new"
    /\ \A d \in Hooks : d > begun => mpc[d] = "new"
    /\ \A d \in Handling : d = begun
SavesFound(d) ==
    /\ mpc[d] # "saveOrder" => order[d].id = 0
    /\ mpc[d] = "saveOrder" => order[d].id \in DOMAIN orders \/ DOMAIN orders = {}
    /\ mpc[d] \in {"new", "compare", "customer"} => customer[d] = 0
    /\ mpc[d] = "saveCustomer" => customer[d] \in customers \/ customers = {}
    /\ mpc[d] \in {"customer", "saveCustomer", "order", "again", "saveOrder"}
         /\ Hook(d).kind = "update" /\ ~forward[d]
         => \/ Hook(d).slug = "none"
            \/ \E r \in DOMAIN orders : orders[r].status = Resolved(d)
Newest(d) == mpc[d] = "over" /\ \A e \in Hooks : mpc[e] = "over" => e <= d
LeftBy(d) ==
    \A r \in DOMAIN orders :
      /\ orders[r].status = MappedStatus(d)
      /\ Announces(d) => announced = orders[r].status

Orderly == ~disordered /\ mslips = 0
MirrorKnown ==
    /\ OneByOne
    /\ \A r, s \in DOMAIN orders : r = s
    /\ \A r, s \in customers : r = s
    /\ \A d \in Hooks : SavesFound(d) /\ (Newest(d) => LeftBy(d))
    /\ DOMAIN orders # {} => \E d \in Hooks : Newest(d)
    /\ (\E d \in Hooks : mpc[d] = "over" /\ ~ByUpdate(d)) => DOMAIN orders # {}
MirrorInv == Orderly => MirrorKnown
=============================================================================
