----------------------------- MODULE Subscription -----------------------------
(***************************************************************************)
(* The paid life of one tenant: its rows in `subscriptions', its status,   *)
(* plan and end date in `tenants', and the features it has switched on.    *)
(* Three kinds of process write them, one statement at a time and without  *)
(* a transaction: billing requests and listeners, the webhooks of Salla,   *)
(* and the sweep that looks for what has ended, suspends the tenant and    *)
(* switches its features off.                                              *)
(*                                                                         *)
(* Every statement names one tenant, so tenants only meet in the sweep's   *)
(* loop, where one delays the turn of the next: any delay is allowed here. *)
(***************************************************************************)
EXTENDS Integers

CONSTANTS
    Features,    \* what the sweep switches off
    Tested,      \* the features that make it look at a free tenant
    Sweeps,      \* sweeps that can run at once
    Calls,       \* requests and listeners that can run at once
    Terms,       \* lengths of a paid period
    MaxRows,     \* bound: subscriptions of the tenant
    Horizon,     \* bound: the clock
    MaxRequests, \* bound: requests, webhooks and listeners
    MaxFaults    \* bound: failed statements and crashes

ASSUME SubscriptionAssumption ==
    /\ Features # {} /\ Tested \subseteq Features
    /\ Terms \subseteq Nat \ {0}
    /\ MaxRows \in Nat \ {0} /\ Horizon \in Nat
    /\ MaxRequests \in Nat /\ MaxFaults \in Nat

VARIABLES
    now,     \* the clock
    row,     \* the subscriptions, oldest first
    made,    \* how many there are
    tenant,  \* status, plan and subscription_ends_at of the tenant
    on,      \* features switched on
    spc,     \* where each sweep is
    since,   \* the time it began at
    due,     \* it has listed the tenant
    left,    \* features it has yet to switch off
    cpc,     \* where each call is
    held,    \* the row it has read, 0 for none
    copy,    \* what it read
    until,   \* the period end it gives
    wants    \* the feature it switches on

(* Observation only: no action reads these except to respect a bound. *)
VARIABLES
    used,      \* how much of each bound is spent
    paidUntil, \* end of the period the tenant was undisputedly given
    missed,    \* features a suspension could not reach
    stranded   \* a sweep ended the rows and stopped short of the tenant

billingVars == <<row, made, tenant, on>>
sweepVars   == <<spc, since, due, left>>
callVars    == <<cpc, held, copy, until, wants>>
factVars    == <<paidUntil, missed, stranded>>
vars == <<now, billingVars, sweepVars, callVars, used, factVars>>

SubscriptionStatus == {"trialing", "active", "past_due", "cancelling",
                       "cancelled", "expired"}
Subscriptions == 1..MaxRows
NoDate == -1   \* NULL, which no comparison finds past
Dates == Nat \union {NoDate}
Past(date, t) == date # NoDate /\ date < t

Row == [status : SubscriptionStatus \union {"none"}, renew : BOOLEAN,
        periodEnd : Dates, endsAt : Dates]
NoRow == [status |-> "none", renew |-> FALSE, periodEnd |-> NoDate,
          endsAt |-> NoDate]
Tenant == [status : {"trial", "active", "inactive", "suspended"},
           plan : {"free", "paid"}, endsAt : Dates]

Listing == {"periods", "ends", "tenants", "free"}
SweepPc == Listing \union {"idle", "check", "expire", "suspend", "stop"}
CallPc  == {"idle", "save", "grant", "revoke", "insert", "cancel", "change",
            "enable"}

TypeOK ==
    /\ now \in Nat
    /\ row \in [Subscriptions -> Row] /\ made \in 0..MaxRows
    /\ tenant \in Tenant /\ on \subseteq Features
    /\ spc \in [Sweeps -> SweepPc] /\ since \in [Sweeps -> Nat]
    /\ due \in [Sweeps -> BOOLEAN] /\ left \in [Sweeps -> SUBSET Features]
    /\ cpc \in [Calls -> CallPc] /\ held \in [Calls -> 0..MaxRows]
    /\ copy \in [Calls -> Row] /\ until \in [Calls -> Dates]
    /\ wants \in [Calls -> SUBSET Features]
    /\ used \in [requests : Nat, faults : Nat]
    /\ paidUntil \in Dates /\ missed \subseteq Features
    /\ stranded \in BOOLEAN

-----------------------------------------------------------------------------
(* A merchant who installed the app from Salla, or signed up by mail. *)
NewTenant == {[status |-> "trial", plan |-> "paid", endsAt |-> NoDate],
              [status |-> "active", plan |-> "free", endsAt |-> NoDate]}

Init ==
    /\ now = 0
    /\ row = [r \in Subscriptions |-> NoRow] /\ made = 0
    /\ tenant \in NewTenant /\ on = {}
    /\ spc = [s \in Sweeps |-> "idle"] /\ since = [s \in Sweeps |-> 0]
    /\ due = [s \in Sweeps |-> FALSE] /\ left = [s \in Sweeps |-> {}]
    /\ cpc = [c \in Calls |-> "idle"] /\ held = [c \in Calls |-> 0]
    /\ copy = [c \in Calls |-> NoRow] /\ until = [c \in Calls |-> NoDate]
    /\ wants = [c \in Calls |-> {}]
    /\ used = [requests |-> 0, faults |-> 0]
    /\ paidUntil = NoDate /\ missed = {} /\ stranded = FALSE

Tick ==
    /\ now < Horizon
    /\ now' = now + 1
    /\ UNCHANGED <<billingVars, sweepVars, callVars, used, factVars>>

SpendRequest ==
    /\ used.requests < MaxRequests
    /\ used' = [requests |-> used.requests + 1, faults |-> used.faults]
SpendFault ==
    /\ used.faults < MaxFaults
    /\ used' = [requests |-> used.requests, faults |-> used.faults + 1]

-----------------------------------------------------------------------------
(* Requests and listeners that give or change a subscription *)

Begin(c, pc) ==
    /\ cpc[c] = "idle"
    /\ SpendRequest
    /\ cpc' = [cpc EXCEPT ![c] = pc]
Finish(c) ==   \* and its local variables are gone
    /\ cpc' = [cpc EXCEPT ![c] = "idle"]
    /\ held' = [held EXCEPT ![c] = 0] /\ copy' = [copy EXCEPT ![c] = NoRow]
    /\ until' = [until EXCEPT ![c] = NoDate]
    /\ wants' = [wants EXCEPT ![c] = {}]

\* An administrator sets a plan, or the app is installed: the latest row.
Activate(c, t) ==
    /\ Begin(c, "save")
    /\ until' = [until EXCEPT ![c] = now + t]
    /\ held' = [held EXCEPT ![c] = made]
    /\ copy' = [copy EXCEPT ![c] = IF made = 0 THEN NoRow ELSE row[made]]
    /\ paidUntil' = NoDate
    /\ UNCHANGED <<now, billingVars, sweepVars, wants, missed, stranded>>

\* Mutant of Activated: the end of an earlier cancellation stays.
ActivatedStillEnding(c) ==
    [status |-> "active", renew |-> held[c] = 0 \/ copy[c].renew,
     periodEnd |-> until[c], endsAt |-> copy[c].endsAt]
Activated(c) ==
    [status |-> "active", renew |-> held[c] = 0 \/ copy[c].renew,
     periodEnd |-> until[c], endsAt |-> NoDate]

SaveActivation(c) ==
    /\ cpc[c] = "save"
    /\ made < MaxRows \/ held[c] # 0
    /\ cpc' = [cpc EXCEPT ![c] = "grant"]
    /\ LET r == IF held[c] = 0 THEN made + 1 ELSE held[c]
       IN  /\ row' = [row EXCEPT ![r] = Activated(c)]
           /\ held' = [held EXCEPT ![c] = r]
    /\ made' = IF held[c] = 0 THEN made + 1 ELSE made
    /\ UNCHANGED <<now, tenant, on, sweepVars, copy, until, wants, used,
                   factVars>>

Live(r) == row[r].status \in {"trialing", "active", "past_due", "cancelling"}

\* Nothing else is under way that could dispute the period call c gives.
Undisputed(c) ==
    /\ row[held[c]].status = "active" /\ row[held[c]].periodEnd = until[c]
    /\ \A r \in Subscriptions \ {held[c]} : ~Live(r)
    /\ \A s \in Sweeps : spc[s] = "idle"
    /\ \A d \in Calls \ {c} : cpc[d] \in {"idle", "enable"}

Grant(c) ==
    /\ cpc[c] = "grant"
    /\ Finish(c)
    /\ tenant' = [status |-> "active", plan |-> "paid", endsAt |-> until[c]]
    /\ paidUntil' = IF Undisputed(c) THEN until[c] ELSE NoDate
    /\ UNCHANGED <<now, row, made, on, sweepVars, used, missed, stranded>>

Ended(status) ==
    [r \in Subscriptions |->
       IF row[r].status \in status
         THEN [status |-> "cancelled", renew |-> row[r].renew,
               periodEnd |-> row[r].periodEnd, endsAt |-> now]
         ELSE row[r]]

\* An administrator takes the plan away, or the app is uninstalled.
Deactivate(c) ==
    /\ Begin(c, "revoke")
    /\ row' = Ended({"active", "trialing", "past_due"})
    /\ paidUntil' = NoDate
    /\ UNCHANGED <<now, made, tenant, on, sweepVars, held, copy, until, wants,
                   missed, stranded>>

Revoke(c) ==
    /\ cpc[c] = "revoke"
    /\ Finish(c)
    /\ tenant' = [status |-> tenant.status, plan |-> "free", endsAt |-> NoDate]
    /\ UNCHANGED <<now, row, made, on, sweepVars, used, factVars>>

\* The merchant subscribes, unless a row is active. The tenant is not touched.
CreateSubscription(c, t) ==
    /\ \A r \in Subscriptions : row[r].status # "active"
    /\ Begin(c, "insert")
    /\ until' = [until EXCEPT ![c] = now + t]
    /\ UNCHANGED <<now, billingVars, sweepVars, held, copy, wants, factVars>>

Insert(c, status) ==
    /\ cpc[c] = "insert" /\ made < MaxRows
    /\ Finish(c)
    /\ made' = made + 1
    /\ row' = [row EXCEPT ![made + 1] =
                 [status |-> status, renew |-> TRUE, periodEnd |-> until[c],
                  endsAt |-> NoDate]]
    /\ UNCHANGED <<now, tenant, on, sweepVars, used, factVars>>

ReadActive(c, r) ==
    /\ row[r].status = "active"
    /\ held' = [held EXCEPT ![c] = r]
    /\ copy' = [copy EXCEPT ![c] = row[r]]

\* The merchant cancels: the whole entity read is saved, with its new end.
CancelSubscription(c, r) ==
    /\ Begin(c, "cancel") /\ ReadActive(c, r)
    /\ paidUntil' = NoDate
    /\ UNCHANGED <<now, billingVars, sweepVars, until, wants, missed, stranded>>

Cancelled(c, immediate) ==
    [status |-> IF immediate THEN "cancelled" ELSE "cancelling",
     renew |-> immediate /\ copy[c].renew,
     periodEnd |-> copy[c].periodEnd,
     endsAt |-> IF immediate THEN now ELSE copy[c].periodEnd]

SaveCancellation(c, immediate) ==
    /\ cpc[c] = "cancel"
    /\ Finish(c)
    /\ row' = [row EXCEPT ![held[c]] = Cancelled(c, immediate)]
    /\ UNCHANGED <<now, made, tenant, on, sweepVars, used, factVars>>

\* The merchant changes the plan: again the whole entity is saved as read.
ChangePlan(c, r) ==
    /\ Begin(c, "change") /\ ReadActive(c, r)
    /\ UNCHANGED <<now, billingVars, sweepVars, until, wants, factVars>>

SavePlan(c) ==
    /\ cpc[c] = "change"
    /\ Finish(c)
    /\ row' = [row EXCEPT ![held[c]] = copy[c]]
    /\ UNCHANGED <<now, made, tenant, on, sweepVars, used, factVars>>

\* ActiveSubscriptionInterceptor lets a write pass; it lands later.
Allowed ==
    /\ tenant.status \notin {"suspended", "inactive"}
    /\ tenant.plan # "free" \/ tenant.status = "trial"

Enable(c, f) ==
    /\ Allowed
    /\ Begin(c, "enable")
    /\ wants' = [wants EXCEPT ![c] = {f}]
    /\ UNCHANGED <<now, billingVars, sweepVars, held, copy, until, factVars>>

EnableLands(c) ==
    /\ cpc[c] = "enable"
    /\ Finish(c)
    /\ on' = on \union wants[c]
    /\ missed' = IF tenant.status = "suspended" THEN missed \union wants[c]
                                                ELSE missed
    /\ UNCHANGED <<now, row, made, tenant, sweepVars, used, paidUntil, stranded>>

CallFails(c) ==
    /\ cpc[c] # "idle"
    /\ SpendFault
    /\ Finish(c)
    /\ UNCHANGED <<now, billingVars, sweepVars, factVars>>

-----------------------------------------------------------------------------
(* Webhooks of Salla: one statement, on the tenant alone *)

SallaWrites(t) ==
    /\ SpendRequest
    /\ tenant' = t
    /\ paidUntil' = NoDate
    /\ UNCHANGED <<now, row, made, on, sweepVars, callVars, missed, stranded>>

SallaEnded ==
    SallaWrites([status |-> "inactive", plan |-> "free",
                 endsAt |-> tenant.endsAt])
SallaTrial ==
    SallaWrites([status |-> "trial", plan |-> "paid",
                 endsAt |-> tenant.endsAt])
\* Without an end_date the column keeps its old value.
SallaPaid(plan, t) ==
    SallaWrites([status |-> "active", plan |-> plan,
                 endsAt |-> IF t = 0 THEN tenant.endsAt ELSE now + t])

-----------------------------------------------------------------------------
(* The sweep *)

Goes(s, pc) == spc' = [spc EXCEPT ![s] = pc]

\* Every hour, ten seconds after a start, or when an administrator asks.
StartSweep(s) ==
    /\ spc[s] = "idle"
    /\ Goes(s, "periods")
    /\ since' = [since EXCEPT ![s] = now]
    /\ due' = [due EXCEPT ![s] = FALSE]
    /\ UNCHANGED <<now, billingVars, left, callVars, used, factVars>>

\* What each of the four queries is after, at time t.
PeriodOver(t) ==
    \E r \in Subscriptions :
      /\ row[r].status \in {"active", "trialing", "past_due"}
      /\ Past(row[r].periodEnd, t) /\ ~row[r].renew
\* Mutant of EndOver: a cancelled period that ends is not looked for.
EndOverSettled(t) ==
    \E r \in Subscriptions :
      /\ row[r].status \in {"active", "trialing"}
      /\ Past(row[r].endsAt, t)
EndOver(t) ==
    \E r \in Subscriptions :
      /\ row[r].status \in {"active", "trialing", "cancelling"}
      /\ Past(row[r].endsAt, t)
TenantOver(t) ==
    /\ Past(tenant.endsAt, t)
    /\ tenant.status # "suspended" /\ tenant.plan # "free"
    /\ ~ \E r \in Subscriptions :
           /\ row[r].status \in {"active", "trialing"}
           /\ row[r].renew \/ row[r].periodEnd > t
\* Mutant of FreeWithFeatures: only active tenants are looked at.
FreeWithFeaturesActive ==
    /\ tenant.plan = "free" /\ tenant.status = "active"
    /\ on \intersect Tested # {}
FreeWithFeatures ==
    /\ tenant.plan = "free"
    /\ tenant.status # "trial" /\ tenant.status # "suspended"
    /\ on \intersect Tested # {}

List(s, pc, found, next) ==
    /\ spc[s] = pc
    /\ due' = [due EXCEPT ![s] = next \in Listing /\ (due[s] \/ found)]
    /\ since' = [since EXCEPT ![s] = IF next \in Listing THEN since[s] ELSE 0]
    /\ Goes(s, next)
    /\ UNCHANGED <<now, billingVars, left, callVars, used, factVars>>

ListPeriods(s) == List(s, "periods", PeriodOver(since[s]), "ends")
ListEnds(s)    == List(s, "ends", EndOver(since[s]), "tenants")
ListTenants(s) == List(s, "tenants", TenantOver(since[s]), "free")
ListFree(s) ==
    List(s, "free", FreeWithFeatures,
         IF due[s] \/ FreeWithFeatures THEN "check" ELSE "idle")

\* An administrator ends one tenant, whatever it has paid.
ExpireByHand(s) ==
    /\ spc[s] = "idle"
    /\ SpendRequest
    /\ Goes(s, "check")
    /\ paidUntil' = NoDate
    /\ UNCHANGED <<now, billingVars, since, due, left, callVars, missed,
                   stranded>>

Check(s) ==
    /\ spc[s] = "check"
    /\ Goes(s, IF tenant.status = "suspended" THEN "idle" ELSE "expire")
    /\ UNCHANGED <<now, billingVars, since, due, left, callVars, used, factVars>>

Expired ==
    [r \in Subscriptions |->
       IF Live(r) THEN [status |-> "expired", renew |-> row[r].renew,
                        periodEnd |-> row[r].periodEnd, endsAt |-> now]
                  ELSE row[r]]

ExpireRows(s) ==
    /\ spc[s] = "expire"
    /\ Goes(s, "suspend")
    /\ row' = Expired
    /\ UNCHANGED <<now, made, tenant, on, since, due, left, callVars, used,
                   factVars>>

\* Mutant of Deactivations: the list of statements lacks the tested features.
DeactivationsShort == Features \ Tested
Deactivations == Features   \* the list of statements

Suspended ==
    [status |-> "suspended", plan |-> "free", endsAt |-> tenant.endsAt]

Suspend(s) ==
    /\ spc[s] = "suspend"
    /\ Goes(s, "stop")
    /\ tenant' = Suspended
    /\ left' = [left EXCEPT ![s] = Deactivations]
    /\ missed' = {}
    /\ UNCHANGED <<now, row, made, on, since, due, callVars, used, paidUntil,
                   stranded>>

\* One statement per feature; one that throws is logged and passed over.
Strike(s, f) ==
    /\ spc[s] = "stop" /\ f \in left[s]
    /\ left' = [left EXCEPT ![s] = left[s] \ {f}]
    /\ Goes(s, IF left[s] \subseteq {f} THEN "idle" ELSE "stop")
    /\ UNCHANGED <<now, row, made, tenant, since, due, callVars, paidUntil,
                   stranded>>
StopFeature(s, f) ==
    Strike(s, f) /\ on' = on \ {f} /\ UNCHANGED <<used, missed>>
StopFails(s, f) ==
    /\ Strike(s, f) /\ SpendFault
    /\ missed' = missed \union {f} /\ UNCHANGED on

\* A query or one of the two main statements throws.
SweepFails(s) ==
    /\ spc[s] \notin {"idle", "stop"}
    /\ SpendFault
    /\ Goes(s, "idle")
    /\ since' = [since EXCEPT ![s] = 0] /\ due' = [due EXCEPT ![s] = FALSE]
    /\ stranded' = (stranded \/ spc[s] = "suspend")
    /\ UNCHANGED <<now, billingVars, left, callVars, paidUntil, missed>>

\* The process dies, and with it every sweep and call.
Crash ==
    /\ SpendFault
    /\ spc' = [s \in Sweeps |-> "idle"]
    /\ left' = [s \in Sweeps |-> {}]
    /\ since' = [s \in Sweeps |-> 0] /\ due' = [s \in Sweeps |-> FALSE]
    /\ cpc' = [c \in Calls |-> "idle"]
    /\ held' = [c \in Calls |-> 0] /\ copy' = [c \in Calls |-> NoRow]
    /\ until' = [c \in Calls |-> NoDate] /\ wants' = [c \in Calls |-> {}]
    /\ missed' = missed \union UNION {left[s] : s \in Sweeps}
    /\ stranded' = (stranded \/ \E s \in Sweeps : spc[s] = "suspend")
    /\ UNCHANGED <<now, billingVars, paidUntil>>

-----------------------------------------------------------------------------
CallStep(c) ==
    \/ \E t \in Terms : Activate(c, t) \/ CreateSubscription(c, t)
    \/ \E r \in Subscriptions : CancelSubscription(c, r) \/ ChangePlan(c, r)
    \/ \E f \in Features : Enable(c, f)
    \/ \E status \in {"active", "trialing"} : Insert(c, status)
    \/ \E immediate \in BOOLEAN : SaveCancellation(c, immediate)
    \/ SaveActivation(c) \/ Grant(c)
    \/ Deactivate(c) \/ Revoke(c)
    \/ SavePlan(c) \/ EnableLands(c)

Salla ==
    \/ SallaEnded \/ SallaTrial
    \/ \E plan \in {"free", "paid"}, t \in Terms \union {0} : SallaPaid(plan, t)

SweepStep(s) ==
    \/ StartSweep(s)
    \/ ListPeriods(s) \/ ListEnds(s) \/ ListTenants(s) \/ ListFree(s)
    \/ Check(s) \/ ExpireRows(s) \/ Suspend(s)
    \/ \E f \in Features : StopFeature(s, f)

Faulty ==
    \/ \E c \in Calls : CallFails(c)
    \/ \E s \in Sweeps : SweepFails(s) \/ \E f \in Features : StopFails(s, f)
    \/ Crash

Next ==
    \/ Tick
    \/ \E c \in Calls : CallStep(c)
    \/ Salla
    \/ \E s \in Sweeps : SweepStep(s) \/ ExpireByHand(s)
    \/ Faulty

Spec == Init /\ [][Next]_vars

(* The cron fires every hour for ever, and each statement of a sweep       *)
(* returns: while it waits for the database the event loop serves it.      *)
Fairness == \A s \in Sweeps : WF_vars(SweepStep(s))
FairSpec == Spec /\ Fairness

-----------------------------------------------------------------------------
(* Properties *)

\* A suspended tenant keeps no feature: whatever is still on is about to be
\* switched off by a sweep, or one of its statements failed or died with the
\* process, or a request that had passed the interceptor landed too late.
\* (subscription-expiry.service.ts:190-242)
SuspendedIsStopped ==
    tenant.status = "suspended" =>
      on \subseteq missed \union UNION {left[s] : s \in Sweeps}

\* A period given while nothing else was under way, and not taken back by a
\* cancellation, a webhook or an administrator, is enjoyed to its end: no
\* sweep finds the tenant ended before it, whatever its subscription and its
\* dates were before.  (subscription-expiry.service.ts:62-97)
AccessUntilPeriodEnd ==
    now <= paidUntil => tenant.status = "active" /\ tenant.plan = "paid"

CancelledAndOver(r) ==
    row[r].status = "cancelling" /\ Past(row[r].endsAt, now)

\* A cancellation at the end of the period is carried out: once the period is
\* over the tenant is suspended, unless the subscription is taken up again or
\* cancelled at once, or a sweep dies between its two statements.
\* (subscription-expiry.service.ts:72-79)
CancellationEnds ==
    \A r \in Subscriptions :
      CancelledAndOver(r) ~>
        \/ tenant.status = "suspended" \/ stranded
        \/ row[r].status \in {"active", "cancelled"}
        \/ row[r].status = "cancelling" /\ ~Past(row[r].endsAt, now)

EnjoysForFree ==
    /\ tenant.plan = "free" /\ on \intersect Tested # {}
    /\ tenant.status \in {"active", "inactive"}

\* A tenant who is left without a plan does not keep the features it had on,
\* whichever way the plan went.  (subscription-expiry.service.ts:99-113)
FreeIsStopped == EnjoysForFree ~> ~EnjoysForFree
=============================================================================
