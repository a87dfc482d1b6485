-------------------------- MODULE SubscriptionProofs --------------------------
(***************************************************************************)
(* Theorems about Subscription: type correctness, that a suspended tenant  *)
(* keeps no feature but the excused ones, and that a period given and not  *)
(* disputed is never cut short by a sweep.                                 *)
(***************************************************************************)
EXTENDS Subscription, TLAPS

LEMMA NoRowType == NoRow \in Row /\ NoDate \in Dates
  BY DEF NoRow, Row, NoDate, Dates

LEMMA TermDate ==
  ASSUME TypeOK, NEW t \in Terms
  PROVE  now + t \in Nat /\ now + t \in Dates
  BY SubscriptionAssumption DEF SubscriptionAssumption, TypeOK, Dates

LEMMA InitType == Init => TypeOK
<1> SUFFICES ASSUME Init PROVE TypeOK
  OBVIOUS
<1>1. tenant \in Tenant
  BY DEF Init, NewTenant, Tenant, Dates, NoDate
<1>2. made \in 0..MaxRows /\ \A c \in Calls : held[c] \in 0..MaxRows
  BY SubscriptionAssumption DEF SubscriptionAssumption, Init
<1> QED
  BY <1>1, <1>2, NoRowType DEF Init, TypeOK, SweepPc, CallPc

LEMMA BeginType ==
  ASSUME TypeOK, NEW c \in Calls, NEW pc \in CallPc, Begin(c, pc)
  PROVE  /\ cpc' \in [Calls -> CallPc]
         /\ used' \in [requests : Nat, faults : Nat]
  BY DEF Begin, SpendRequest, TypeOK

LEMMA FaultType ==
  ASSUME TypeOK, SpendFault
  PROVE  used' \in [requests : Nat, faults : Nat]
  BY DEF SpendFault, TypeOK

LEMMA FinishType ==
  ASSUME TypeOK, NEW c \in Calls, Finish(c)
  PROVE  /\ cpc' \in [Calls -> CallPc] /\ held' \in [Calls -> 0..MaxRows]
         /\ copy' \in [Calls -> Row] /\ until' \in [Calls -> Dates]
         /\ wants' \in [Calls -> SUBSET Features]
<1>1. 0 \in 0..MaxRows /\ "idle" \in CallPc
  BY SubscriptionAssumption DEF SubscriptionAssumption, CallPc
<1> QED
  BY <1>1, NoRowType DEF Finish, TypeOK

LEMMA GoesType ==
  ASSUME TypeOK, NEW s \in Sweeps, NEW pc \in SweepPc, Goes(s, pc)
  PROVE  spc' \in [Sweeps -> SweepPc]
  BY DEF Goes, TypeOK

LEMMA ReadType ==
  ASSUME TypeOK, NEW c \in Calls, NEW r \in Subscriptions, ReadActive(c, r)
  PROVE  held' \in [Calls -> 0..MaxRows] /\ copy' \in [Calls -> Row]
  BY SubscriptionAssumption
     DEF SubscriptionAssumption, ReadActive, TypeOK, Subscriptions

LEMMA NewestType ==
  ASSUME row \in [Subscriptions -> Row], made \in 0..MaxRows
  PROVE  made # 0 => row[made] \in Row
<1>1. made # 0 => made \in Subscriptions
  BY SubscriptionAssumption DEF SubscriptionAssumption, Subscriptions
<1> QED
  BY <1>1

LEMMA CallType ==
  ASSUME TypeOK, NEW c \in Calls, CallStep(c)
  PROVE  TypeOK'
<1> USE DEF TypeOK, billingVars, sweepVars, callVars, factVars
<1>0. /\ {"save", "revoke", "insert", "cancel", "change", "enable", "grant"}
           \subseteq CallPc
      /\ 0 \in 0..MaxRows /\ Subscriptions \subseteq 0..MaxRows
      /\ {"trialing", "active", "cancelling", "cancelled"} \subseteq SubscriptionStatus
  BY SubscriptionAssumption
     DEF SubscriptionAssumption, CallPc, Subscriptions, SubscriptionStatus
<1>1. ASSUME NEW t \in Terms, Activate(c, t) PROVE TypeOK'
  <2>1. cpc' \in [Calls -> CallPc] /\ used' \in [requests : Nat, faults : Nat]
    BY <1>0, <1>1, BeginType DEF Activate
  <2>2. made # 0 => row[made] \in Row
    BY NewestType
  <2> QED
    BY <1>1, <2>1, <2>2, NoRowType, TermDate DEF Activate
<1>2. ASSUME NEW t \in Terms, CreateSubscription(c, t) PROVE TypeOK'
  <2>1. cpc' \in [Calls -> CallPc] /\ used' \in [requests : Nat, faults : Nat]
    BY <1>0, <1>2, BeginType DEF CreateSubscription
  <2> QED
    BY <1>2, <2>1, TermDate DEF CreateSubscription
<1>3. ASSUME NEW r \in Subscriptions, CancelSubscription(c, r) PROVE TypeOK'
  <2>1. cpc' \in [Calls -> CallPc] /\ used' \in [requests : Nat, faults : Nat]
    BY <1>0, <1>3, BeginType DEF CancelSubscription
  <2>2. held' \in [Calls -> 0..MaxRows] /\ copy' \in [Calls -> Row]
    BY <1>3, ReadType DEF CancelSubscription
  <2> QED
    BY <1>3, <2>1, <2>2, NoRowType DEF CancelSubscription
<1>4. ASSUME NEW r \in Subscriptions, ChangePlan(c, r) PROVE TypeOK'
  <2>1. cpc' \in [Calls -> CallPc] /\ used' \in [requests : Nat, faults : Nat]
    BY <1>0, <1>4, BeginType DEF ChangePlan
  <2>2. held' \in [Calls -> 0..MaxRows] /\ copy' \in [Calls -> Row]
    BY <1>4, ReadType DEF ChangePlan
  <2> QED
    BY <1>4, <2>1, <2>2 DEF ChangePlan
<1>5. ASSUME NEW f \in Features, Enable(c, f) PROVE TypeOK'
  <2>1. cpc' \in [Calls -> CallPc] /\ used' \in [requests : Nat, faults : Nat]
    BY <1>0, <1>5, BeginType DEF Enable
  <2> QED
    BY <1>5, <2>1 DEF Enable
<1>6. ASSUME NEW status \in {"active", "trialing"}, Insert(c, status) PROVE TypeOK'
  <2>1. [status |-> status, renew |-> TRUE, periodEnd |-> until[c],
         endsAt |-> NoDate] \in Row
    BY <1>0, NoRowType DEF Row
  <2>2. made + 1 \in 0..MaxRows
    BY <1>6, SubscriptionAssumption DEF SubscriptionAssumption, Insert
  <2> QED
    BY <1>6, <2>1, <2>2, FinishType DEF Insert
<1>7. ASSUME NEW immediate \in BOOLEAN, SaveCancellation(c, immediate) PROVE TypeOK'
  <2>1. Cancelled(c, immediate) \in Row
    BY <1>0 DEF Cancelled, Row, Dates
  <2> QED
    BY <1>7, <2>1, FinishType DEF SaveCancellation
<1>8. CASE SaveActivation(c)
  <2>1. Activated(c) \in Row
    BY <1>0, NoRowType DEF Activated, Row
  <2>2. (held[c] = 0 => made + 1 \in 0..MaxRows)
    BY <1>8, SubscriptionAssumption DEF SubscriptionAssumption, SaveActivation
  <2>3. cpc' \in [Calls -> CallPc]
    BY <1>0, <1>8 DEF SaveActivation
  <2>4. row' \in [Subscriptions -> Row] /\ held' \in [Calls -> 0..MaxRows]
    BY <1>8, <2>1, <2>2 DEF SaveActivation
  <2> QED
    BY <1>8, <2>2, <2>3, <2>4 DEF SaveActivation
<1>9. CASE Grant(c)
  <2>1. tenant' \in Tenant /\ paidUntil' \in Dates
    BY <1>9, NoRowType DEF Grant, Tenant
  <2> QED
    BY <1>9, <2>1, FinishType DEF Grant
<1>10. CASE Deactivate(c)
  <2>1. cpc' \in [Calls -> CallPc] /\ used' \in [requests : Nat, faults : Nat]
    BY <1>0, <1>10, BeginType DEF Deactivate
  <2>2. row' \in [Subscriptions -> Row]
    BY <1>0, <1>10 DEF Deactivate, Ended, Row, Dates
  <2> QED
    BY <1>10, <2>1, <2>2, NoRowType DEF Deactivate
<1>11. CASE Revoke(c)
  <2>1. tenant' \in Tenant
    BY <1>11, NoRowType DEF Revoke, Tenant
  <2> QED
    BY <1>11, <2>1, FinishType DEF Revoke
<1>12. CASE SavePlan(c)
  BY <1>12, FinishType DEF SavePlan
<1>13. CASE EnableLands(c)
  BY <1>13, FinishType DEF EnableLands
<1> QED
  BY <1>1, <1>2, <1>3, <1>4, <1>5, <1>6, <1>7, <1>8, <1>9, <1>10, <1>11, <1>12,
     <1>13 DEF CallStep

LEMMA SallaType == TypeOK /\ Salla => TypeOK'
<1> SUFFICES ASSUME TypeOK, Salla PROVE TypeOK'
  OBVIOUS
<1>1. PICK t : SallaWrites(t) /\ t \in Tenant
  <2>1. CASE SallaEnded
    BY <2>1 DEF SallaEnded, TypeOK, Tenant
  <2>2. CASE SallaTrial
    BY <2>2 DEF SallaTrial, TypeOK, Tenant
  <2>3. ASSUME NEW plan \in {"free", "paid"}, NEW t \in Terms \union {0},
               SallaPaid(plan, t)
        PROVE  \E u : SallaWrites(u) /\ u \in Tenant
    BY <2>3, TermDate DEF SallaPaid, TypeOK, Tenant
  <2> QED
    BY <2>1, <2>2, <2>3 DEF Salla
<1> QED
  BY <1>1, NoRowType
     DEF SallaWrites, SpendRequest, TypeOK, sweepVars, callVars

LEMMA SweepType ==
  ASSUME TypeOK, NEW s \in Sweeps, SweepStep(s) \/ ExpireByHand(s)
  PROVE  TypeOK'
<1> USE DEF TypeOK, billingVars, sweepVars, callVars, factVars
<1>0. {"periods", "ends", "tenants", "free", "idle", "check", "expire",
       "suspend", "stop"} \subseteq SweepPc
  BY DEF SweepPc, Listing
<1>1. CASE StartSweep(s)
  BY <1>0, <1>1, GoesType DEF StartSweep
<1>2. ASSUME NEW pc, NEW found \in BOOLEAN, NEW next \in SweepPc,
             List(s, pc, found, next)
      PROVE  TypeOK'
  BY <1>2, GoesType DEF List
<1>3. CASE ListPeriods(s) \/ ListEnds(s) \/ ListTenants(s) \/ ListFree(s)
  <2>1. /\ PeriodOver(since[s]) \in BOOLEAN /\ EndOver(since[s]) \in BOOLEAN
        /\ TenantOver(since[s]) \in BOOLEAN /\ FreeWithFeatures \in BOOLEAN
    BY DEF PeriodOver, EndOver, TenantOver, FreeWithFeatures
  <2> QED
    BY <1>0, <1>2, <1>3, <2>1
       DEF ListPeriods, ListEnds, ListTenants, ListFree
<1>4. CASE Check(s)
  BY <1>0, <1>4, GoesType DEF Check
<1>5. CASE ExpireRows(s)
  <2>1. row' \in [Subscriptions -> Row]
    BY <1>5 DEF ExpireRows, Expired, Row, Dates, SubscriptionStatus
  <2> QED
    BY <1>0, <1>5, <2>1, GoesType DEF ExpireRows
<1>6. CASE Suspend(s)
  <2>1. tenant' \in Tenant
    BY <1>6 DEF Suspend, Suspended, Tenant
  <2> QED
    BY <1>0, <1>6, <2>1, GoesType DEF Suspend, Deactivations
<1>7. ASSUME NEW f \in Features, StopFeature(s, f) PROVE TypeOK'
  BY <1>0, <1>7, GoesType DEF StopFeature, Strike
<1>8. CASE ExpireByHand(s)
  <2>1. used' \in [requests : Nat, faults : Nat]
    BY <1>8 DEF ExpireByHand, SpendRequest
  <2> QED
    BY <1>0, <1>8, <2>1, NoRowType, GoesType DEF ExpireByHand
<1> QED
  BY <1>1, <1>3, <1>4, <1>5, <1>6, <1>7, <1>8 DEF SweepStep

LEMMA FaultyType == TypeOK /\ Faulty => TypeOK'
<1> SUFFICES ASSUME TypeOK, Faulty PROVE TypeOK'
  OBVIOUS
<1> USE DEF TypeOK, billingVars, sweepVars, callVars, factVars
<1>0. "idle" \in SweepPc /\ "stop" \in SweepPc /\ "idle" \in CallPc /\ 0 \in 0..MaxRows
  BY SubscriptionAssumption DEF SubscriptionAssumption, SweepPc, CallPc
<1>1. ASSUME NEW c \in Calls, CallFails(c) PROVE TypeOK'
  BY <1>1, FaultType, FinishType DEF CallFails
<1>2. ASSUME NEW s \in Sweeps, SweepFails(s) PROVE TypeOK'
  BY <1>0, <1>2, FaultType, GoesType DEF SweepFails
<1>3. ASSUME NEW s \in Sweeps, NEW f \in Features, StopFails(s, f) PROVE TypeOK'
  BY <1>0, <1>3, FaultType, GoesType DEF StopFails, Strike
<1>4. CASE Crash
  <2>1. missed' \subseteq Features
    BY <1>4 DEF Crash
  <2>2. /\ spc' \in [Sweeps -> SweepPc] /\ since' \in [Sweeps -> Nat]
        /\ due' \in [Sweeps -> BOOLEAN] /\ left' \in [Sweeps -> SUBSET Features]
        /\ cpc' \in [Calls -> CallPc] /\ held' \in [Calls -> 0..MaxRows]
        /\ copy' \in [Calls -> Row] /\ until' \in [Calls -> Dates]
        /\ wants' \in [Calls -> SUBSET Features]
    BY <1>0, <1>4, NoRowType DEF Crash
  <2> QED
    BY <1>4, <2>1, <2>2, FaultType DEF Crash
<1> QED
  BY <1>1, <1>2, <1>3, <1>4 DEF Faulty

LEMMA NextType == TypeOK /\ [Next]_vars => TypeOK'
<1> SUFFICES ASSUME TypeOK, [Next]_vars PROVE TypeOK'
  OBVIOUS
<1>1. CASE Tick
  BY <1>1 DEF Tick, TypeOK, billingVars, sweepVars, callVars, factVars
<1>2. CASE UNCHANGED vars
  BY <1>2 DEF vars, TypeOK, billingVars, sweepVars, callVars, factVars
<1> QED
  BY <1>1, <1>2, CallType, SallaType, SweepType, FaultyType DEF Next

\* Every variable keeps its type, for any features, sweeps, calls and bounds.
THEOREM TypeCorrect == Spec => []TypeOK
  BY InitType, NextType, PTL DEF Spec

-----------------------------------------------------------------------------
(* Suspension *)

LEMMA InitStopped == Init => SuspendedIsStopped
  BY DEF Init, NewTenant, SuspendedIsStopped

LEMMA CallStopped ==
  ASSUME TypeOK, SuspendedIsStopped, NEW c \in Calls, CallStep(c)
  PROVE  SuspendedIsStopped'
<1> USE DEF SuspendedIsStopped, billingVars, sweepVars, factVars
<1>1. CASE Grant(c)
  BY <1>1 DEF Grant
<1>2. CASE Revoke(c)
  BY <1>2 DEF Revoke, TypeOK, Tenant
<1>3. CASE EnableLands(c)
  BY <1>3 DEF EnableLands
<1>4. ASSUME NEW t \in Terms, Activate(c, t) \/ CreateSubscription(c, t)
      PROVE  SuspendedIsStopped'
  BY <1>4 DEF Activate, CreateSubscription
<1>5. ASSUME NEW r \in Subscriptions, CancelSubscription(c, r) \/ ChangePlan(c, r)
      PROVE  SuspendedIsStopped'
  BY <1>5 DEF CancelSubscription, ChangePlan
<1>6. ASSUME NEW f \in Features, Enable(c, f) PROVE SuspendedIsStopped'
  BY <1>6 DEF Enable
<1>7. ASSUME NEW status, Insert(c, status) PROVE SuspendedIsStopped'
  BY <1>7 DEF Insert
<1>8. ASSUME NEW immediate, SaveCancellation(c, immediate) PROVE SuspendedIsStopped'
  BY <1>8 DEF SaveCancellation
<1>9. CASE SaveActivation(c) \/ Deactivate(c) \/ SavePlan(c)
  BY <1>9 DEF SaveActivation, Deactivate, SavePlan
<1> QED
  BY <1>1, <1>2, <1>3, <1>4, <1>5, <1>6, <1>7, <1>8, <1>9 DEF CallStep

LEMMA SweepStopped ==
  ASSUME TypeOK, SuspendedIsStopped, NEW s \in Sweeps,
         SweepStep(s) \/ ExpireByHand(s)
  PROVE  SuspendedIsStopped'
<1> USE DEF SuspendedIsStopped, billingVars, sweepVars, callVars, factVars
<1>1. CASE Suspend(s)
  <2>1. left'[s] = Features
    BY <1>1 DEF Suspend, Deactivations, TypeOK
  <2> QED
    BY <1>1, <2>1 DEF Suspend, TypeOK
<1>2. ASSUME NEW f \in Features, StopFeature(s, f) PROVE SuspendedIsStopped'
  <2>1. \A x \in Sweeps : left[x] \ {f} \subseteq left'[x]
    BY <1>2 DEF StopFeature, Strike, TypeOK
  <2> QED
    BY <1>2, <2>1 DEF StopFeature, Strike
<1>3. CASE StartSweep(s) \/ Check(s) \/ ExpireRows(s) \/ ExpireByHand(s)
  BY <1>3 DEF StartSweep, Check, ExpireRows, ExpireByHand
<1>4. CASE ListPeriods(s) \/ ListEnds(s) \/ ListTenants(s) \/ ListFree(s)
  BY <1>4 DEF ListPeriods, ListEnds, ListTenants, ListFree, List
<1> QED
  BY <1>1, <1>2, <1>3, <1>4 DEF SweepStep

LEMMA FaultyStopped ==
  TypeOK /\ SuspendedIsStopped /\ Faulty => SuspendedIsStopped'
<1> SUFFICES ASSUME TypeOK, SuspendedIsStopped, Faulty PROVE SuspendedIsStopped'
  OBVIOUS
<1> USE DEF SuspendedIsStopped, billingVars, sweepVars, callVars, factVars
<1>1. ASSUME NEW c \in Calls, CallFails(c) PROVE SuspendedIsStopped'
  BY <1>1 DEF CallFails
<1>2. ASSUME NEW s \in Sweeps, SweepFails(s) PROVE SuspendedIsStopped'
  BY <1>2 DEF SweepFails
<1>3. ASSUME NEW s \in Sweeps, NEW f \in Features, StopFails(s, f)
      PROVE  SuspendedIsStopped'
  <2>1. \A x \in Sweeps : left[x] \ {f} \subseteq left'[x]
    BY <1>3 DEF StopFails, Strike, TypeOK
  <2> QED
    BY <1>3, <2>1 DEF StopFails, Strike
<1>4. CASE Crash
  BY <1>4 DEF Crash
<1> QED
  BY <1>1, <1>2, <1>3, <1>4 DEF Faulty

\* A suspended tenant keeps no feature on but those whose statement failed,
\* died with the process or raced with a request: for any set of features,
\* any number of sweeps and calls, and any faults.
\* (subscription-expiry.service.ts:190-242)
THEOREM SuspensionStops == Spec => []SuspendedIsStopped
<1>1. TypeOK /\ SuspendedIsStopped /\ [Next]_vars => SuspendedIsStopped'
  <2> SUFFICES ASSUME TypeOK, SuspendedIsStopped, [Next]_vars
               PROVE  SuspendedIsStopped'
    OBVIOUS
  <2>1. CASE Salla
    BY <2>1 DEF Salla, SallaEnded, SallaTrial, SallaPaid, SallaWrites,
                SuspendedIsStopped
  <2>2. CASE Tick \/ UNCHANGED vars
    BY <2>2 DEF Tick, vars, billingVars, sweepVars, factVars, SuspendedIsStopped
  <2> QED
    BY <2>1, <2>2, CallStopped, SweepStopped, FaultyStopped DEF Next
<1> QED
  BY <1>1, InitStopped, TypeCorrect, PTL DEF Spec

-----------------------------------------------------------------------------
(* The paid period.  While it lasts the tenant, its rows, the sweeps and    *)
(* the calls under way are such that no query of a sweep can list it.       *)

RunningHasNoEnd ==
  /\ \A r \in Subscriptions :
       row[r].status \in {"active", "trialing"} => row[r].endsAt = NoDate
  /\ \A c \in Calls :
       cpc[c] = "change" => copy[c].status = "active" /\ copy[c].endsAt = NoDate

Covers(period) == period.renew \/ period.periodEnd = paidUntil

PeriodHeld ==
  now <= paidUntil =>
    /\ tenant = [status |-> "active", plan |-> "paid", endsAt |-> paidUntil]
    /\ \A r \in Subscriptions :
         Live(r) => row[r].status \in {"active", "trialing"} /\ Covers(row[r])
    /\ \A s \in Sweeps :
         /\ spc[s] \in Listing \union {"idle"}
         /\ spc[s] \in Listing => ~due[s] /\ since[s] <= now
    /\ \A c \in Calls :
         /\ cpc[c] \in {"idle", "enable", "insert", "change"}
         /\ cpc[c] = "change" => Covers(copy[c])

LEMMA InitPaid == Init => RunningHasNoEnd /\ PeriodHeld
  BY DEF Init, RunningHasNoEnd, PeriodHeld, NoRow, NoDate

LEMMA CallRunning ==
  ASSUME TypeOK, RunningHasNoEnd, NEW c \in Calls, CallStep(c)
  PROVE  RunningHasNoEnd'
<1> USE DEF RunningHasNoEnd, TypeOK, billingVars, callVars
<1>1. ASSUME NEW t \in Terms, Activate(c, t) \/ CreateSubscription(c, t)
      PROVE  RunningHasNoEnd'
  BY <1>1 DEF Activate, CreateSubscription, Begin
<1>2. ASSUME NEW r \in Subscriptions, CancelSubscription(c, r)
      PROVE  RunningHasNoEnd'
  BY <1>2 DEF CancelSubscription, ReadActive, Begin
<1>3. ASSUME NEW r \in Subscriptions, ChangePlan(c, r) PROVE RunningHasNoEnd'
  BY <1>3 DEF ChangePlan, ReadActive, Begin
<1>4. ASSUME NEW f \in Features, Enable(c, f) PROVE RunningHasNoEnd'
  BY <1>4 DEF Enable, Begin
<1>5. ASSUME NEW status, Insert(c, status) PROVE RunningHasNoEnd'
  BY <1>5 DEF Insert, Finish
<1>6. ASSUME NEW immediate, SaveCancellation(c, immediate) PROVE RunningHasNoEnd'
  BY <1>6 DEF SaveCancellation, Cancelled, Finish
<1>7. CASE SaveActivation(c)
  BY <1>7 DEF SaveActivation, Activated
<1>8. CASE Deactivate(c)
  BY <1>8 DEF Deactivate, Ended, Begin
<1>9. CASE SavePlan(c)
  BY <1>9 DEF SavePlan, Finish
<1>10. CASE Grant(c) \/ Revoke(c) \/ EnableLands(c)
  BY <1>10 DEF Grant, Revoke, EnableLands, Finish
<1> QED
  BY <1>1, <1>2, <1>3, <1>4, <1>5, <1>6, <1>7, <1>8, <1>9, <1>10 DEF CallStep

LEMMA NextRunning ==
  TypeOK /\ RunningHasNoEnd /\ [Next]_vars => RunningHasNoEnd'
<1> SUFFICES ASSUME TypeOK, RunningHasNoEnd, [Next]_vars PROVE RunningHasNoEnd'
  OBVIOUS
<1> USE DEF RunningHasNoEnd, billingVars, callVars
<1>1. ASSUME NEW s \in Sweeps, SweepStep(s) \/ ExpireByHand(s)
      PROVE  RunningHasNoEnd'
  <2>1. CASE ExpireRows(s)
    BY <2>1 DEF ExpireRows, Expired, Live
  <2>2. UNCHANGED <<cpc, copy>> /\ (row' = row \/ ExpireRows(s))
    BY <1>1 DEF SweepStep, ExpireByHand, StartSweep, ListPeriods, ListEnds,
       ListTenants, ListFree, List, Check, ExpireRows, Suspend, StopFeature,
       Strike
  <2> QED
    BY <2>1, <2>2
<1>2. ASSUME NEW c \in Calls, CallFails(c) PROVE RunningHasNoEnd'
  BY <1>2 DEF CallFails, Finish, TypeOK
<1>3. ASSUME NEW s \in Sweeps, SweepFails(s) \/ \E f \in Features : StopFails(s, f)
      PROVE  RunningHasNoEnd'
  BY <1>3 DEF SweepFails, StopFails, Strike
<1>4. CASE Crash
  BY <1>4 DEF Crash
<1>5. CASE Salla \/ Tick \/ UNCHANGED vars
  BY <1>5 DEF Salla, SallaEnded, SallaTrial, SallaPaid, SallaWrites, Tick, vars
<1> QED
  BY <1>1, <1>2, <1>3, <1>4, <1>5, CallRunning DEF Next, Faulty

LEMMA NoneListed ==
  ASSUME TypeOK, RunningHasNoEnd, PeriodHeld, now <= paidUntil,
         NEW s \in Sweeps, spc[s] \in Listing
  PROVE  /\ ~PeriodOver(since[s]) /\ ~EndOver(since[s])
         /\ ~TenantOver(since[s]) /\ ~FreeWithFeatures
<1> USE DEF PeriodHeld, TypeOK
<1>1. since[s] \in Nat /\ since[s] <= paidUntil /\ paidUntil \in Int
  BY DEF Dates, NoDate
<1>2. ~PeriodOver(since[s])
  BY <1>1 DEF PeriodOver, Past, Live, Covers
<1>3. ~EndOver(since[s])
  BY DEF EndOver, Past, Live, RunningHasNoEnd
<1>4. ~TenantOver(since[s])
  BY <1>1 DEF TenantOver, Past
<1>5. ~FreeWithFeatures
  BY DEF FreeWithFeatures
<1> QED
  BY <1>2, <1>3, <1>4, <1>5

\* Nothing to show where the step takes the period back.
LEMMA TakenBack == TypeOK /\ now' = now /\ paidUntil' = NoDate => PeriodHeld'
  BY DEF TypeOK, PeriodHeld, NoDate

LEMMA CallPaid ==
  ASSUME TypeOK, RunningHasNoEnd, PeriodHeld, NEW c \in Calls, CallStep(c)
  PROVE  PeriodHeld'
<1> USE DEF billingVars, sweepVars, callVars, factVars
<1>1. CASE \/ \E t \in Terms : Activate(c, t)
           \/ \E r \in Subscriptions : CancelSubscription(c, r)
           \/ Deactivate(c)
  BY <1>1, TakenBack DEF Activate, CancelSubscription, Deactivate
<1>2. CASE Grant(c)
  <2>1. CASE ~Undisputed(c)
    BY <1>2, <2>1, TakenBack DEF Grant
  <2>2. CASE Undisputed(c)
    <3>1. /\ paidUntil' = until[c]
          /\ tenant' = [status |-> "active", plan |-> "paid", endsAt |-> until[c]]
          /\ UNCHANGED <<row, spc, due, since, now>>
          /\ cpc' = [cpc EXCEPT ![c] = "idle"]
      BY <1>2, <2>2 DEF Grant, Finish
    <3>2. \A r \in Subscriptions :
            Live(r) => /\ row[r].status = "active"
                       /\ row[r].periodEnd = until[c]
      BY <2>2 DEF Undisputed
    <3>3. \A s \in Sweeps : spc[s] = "idle"
      BY <2>2 DEF Undisputed
    <3>4. \A d \in Calls : cpc'[d] \in {"idle", "enable"}
      BY <2>2, <3>1 DEF Undisputed, TypeOK
    <3> QED
      BY <3>1, <3>2, <3>3, <3>4 DEF PeriodHeld, Live, Covers, Listing
  <2> QED
    BY <2>1, <2>2
<1>3. SUFFICES ASSUME now <= paidUntil, paidUntil' = paidUntil, now' = now
               PROVE  PeriodHeld'
  <2>1. CASE Grant(c)
    BY <1>2, <2>1
  <2>2. CASE ~Grant(c)
    <3>1. now' = now /\ (paidUntil' = paidUntil \/ paidUntil' = NoDate)
      BY <2>2 DEF CallStep, Activate, CreateSubscription, CancelSubscription,
         ChangePlan, Enable, Insert, SaveCancellation, SaveActivation,
         Deactivate, Revoke, SavePlan, EnableLands
    <3>2. paidUntil' = paidUntil /\ ~(now <= paidUntil) => PeriodHeld'
      BY <3>1 DEF PeriodHeld
    <3> QED
      BY <1>3, <3>1, <3>2, TakenBack
  <2> QED
    BY <2>1, <2>2
<1> USE DEF PeriodHeld, Covers, Live, TypeOK
<1>4. ASSUME NEW t \in Terms, CreateSubscription(c, t) PROVE PeriodHeld'
  BY <1>3, <1>4 DEF CreateSubscription, Begin
<1>5. ASSUME NEW r \in Subscriptions, ChangePlan(c, r) PROVE PeriodHeld'
  BY <1>3, <1>5 DEF ChangePlan, ReadActive, Begin
<1>6. ASSUME NEW f \in Features, Enable(c, f) PROVE PeriodHeld'
  BY <1>3, <1>6 DEF Enable, Begin
<1>7. ASSUME NEW status \in {"active", "trialing"}, Insert(c, status)
      PROVE  PeriodHeld'
  BY <1>3, <1>7 DEF Insert, Finish
<1>8. CASE SavePlan(c)
  BY <1>3, <1>8 DEF SavePlan, Finish, RunningHasNoEnd
<1>9. CASE EnableLands(c)
  BY <1>3, <1>9 DEF EnableLands, Finish
<1>10. ~(SaveActivation(c) \/ Revoke(c)
         \/ \E immediate \in BOOLEAN : SaveCancellation(c, immediate))
  BY <1>3 DEF SaveActivation, Revoke, SaveCancellation
<1> QED
  BY <1>1, <1>2, <1>4, <1>5, <1>6, <1>7, <1>8, <1>9, <1>10 DEF CallStep

LEMMA SweepPaid ==
  ASSUME TypeOK, RunningHasNoEnd, PeriodHeld, NEW s \in Sweeps,
         SweepStep(s) \/ ExpireByHand(s)
  PROVE  PeriodHeld'
<1> USE DEF billingVars, sweepVars, callVars, factVars
<1>1. CASE ExpireByHand(s)
  BY <1>1, TakenBack DEF ExpireByHand
<1>2. CASE SweepStep(s)
  <2>0. now' = now /\ paidUntil' = paidUntil
    <3>1. CASE StartSweep(s) \/ Check(s) \/ ExpireRows(s) \/ Suspend(s)
      BY <3>1 DEF StartSweep, Check, ExpireRows, Suspend
    <3>2. CASE ListPeriods(s) \/ ListEnds(s) \/ ListTenants(s) \/ ListFree(s)
      BY <3>2 DEF ListPeriods, ListEnds, ListTenants, ListFree, List
    <3>3. ASSUME NEW f \in Features, StopFeature(s, f)
          PROVE  now' = now /\ paidUntil' = paidUntil
      BY <3>3 DEF StopFeature, Strike
    <3> QED
      BY <1>2, <3>1, <3>2, <3>3 DEF SweepStep
  <2> SUFFICES ASSUME now <= paidUntil PROVE PeriodHeld'
    BY <2>0 DEF PeriodHeld
  <2>1. CASE StartSweep(s)
    <3>1. \A x \in Sweeps : due'[x] => x # s /\ due[x]
      BY <2>1 DEF StartSweep, TypeOK
    <3>2. \A x \in Sweeps : since'[x] = IF x = s THEN now ELSE since[x]
      BY <2>1 DEF StartSweep, TypeOK
    <3>3. \A x \in Sweeps : spc'[x] = IF x = s THEN "periods" ELSE spc[x]
      BY <2>1 DEF StartSweep, Goes, TypeOK
    <3>4. now <= now
      BY DEF TypeOK
    <3>5. UNCHANGED <<now, paidUntil, row, tenant, cpc, copy>>
      BY <2>1 DEF StartSweep
    <3> QED
      BY <3>1, <3>2, <3>3, <3>4, <3>5 DEF PeriodHeld, Live, Covers, Listing
  <2>2. ASSUME NEW pc \in Listing, NEW found, NEW next, ~found,
               List(s, pc, found, next), next \in Listing \union {"idle"}
        PROVE  PeriodHeld'
    BY <2>2 DEF List, Goes, PeriodHeld, TypeOK, Live, Covers
  <2>3. CASE ListPeriods(s) \/ ListEnds(s) \/ ListTenants(s)
    BY <2>2, <2>3, NoneListed
       DEF ListPeriods, ListEnds, ListTenants, List, Listing
  <2>4. CASE ListFree(s)
    <3>1. spc[s] \in Listing /\ ~due[s]
      BY <2>4 DEF ListFree, List, Listing, PeriodHeld
    <3>2. List(s, "free", FreeWithFeatures, "idle") /\ ~FreeWithFeatures
      BY <2>4, <3>1, NoneListed DEF ListFree
    <3> QED
      BY <2>2, <3>2 DEF Listing
  <2>5. ~(Check(s) \/ ExpireRows(s) \/ Suspend(s)
          \/ \E f \in Features : StopFeature(s, f))
    BY DEF PeriodHeld, Listing, Check, ExpireRows, Suspend, StopFeature, Strike
  <2> QED
    BY <1>2, <2>1, <2>3, <2>4, <2>5 DEF SweepStep
<1> QED
  BY <1>1, <1>2

LEMMA FaultyPaid ==
  TypeOK /\ RunningHasNoEnd /\ PeriodHeld /\ Faulty => PeriodHeld'
<1> SUFFICES ASSUME TypeOK, RunningHasNoEnd, PeriodHeld, Faulty PROVE PeriodHeld'
  OBVIOUS
<1> USE DEF billingVars, sweepVars, callVars, factVars, PeriodHeld, TypeOK, Live,
            Covers
<1>1. ASSUME NEW c \in Calls, CallFails(c) PROVE PeriodHeld'
  BY <1>1 DEF CallFails, Finish
<1>2. ASSUME NEW s \in Sweeps, SweepFails(s) PROVE PeriodHeld'
  BY <1>2 DEF SweepFails, Goes, Listing
<1>3. ASSUME NEW s \in Sweeps, NEW f \in Features, StopFails(s, f)
      PROVE  PeriodHeld'
  BY <1>3 DEF StopFails, Strike, Listing
<1>4. CASE Crash
  BY <1>4 DEF Crash, Listing
<1> QED
  BY <1>1, <1>2, <1>3, <1>4 DEF Faulty

\* A period given while nothing else was under way lasts to its end, unless a
\* request, a webhook or an administrator takes it back: for any number of
\* sweeps, calls, subscriptions, and any faults.
\* (subscription-expiry.service.ts:62-97)
THEOREM PaidPeriodLasts == Spec => []AccessUntilPeriodEnd
<1>1. /\ TypeOK /\ RunningHasNoEnd /\ PeriodHeld /\ [Next]_vars => PeriodHeld'
  <2> SUFFICES ASSUME TypeOK, RunningHasNoEnd, PeriodHeld, [Next]_vars
               PROVE  PeriodHeld'
    OBVIOUS
  <2>1. CASE Salla
    BY <2>1, TakenBack
       DEF Salla, SallaEnded, SallaTrial, SallaPaid, SallaWrites
  <2>2. CASE Tick
    BY <2>2 DEF Tick, PeriodHeld, TypeOK, Dates, NoDate, Live, Covers, billingVars,
                sweepVars, callVars, factVars
  <2>3. CASE UNCHANGED vars
    BY <2>3 DEF vars, PeriodHeld, Live, Covers, billingVars, sweepVars, callVars,
                factVars
  <2> QED
    BY <2>1, <2>2, <2>3, CallPaid, SweepPaid, FaultyPaid DEF Next
<1>2. PeriodHeld => AccessUntilPeriodEnd
  BY DEF PeriodHeld, AccessUntilPeriodEnd
<1> QED
  BY <1>1, <1>2, InitPaid, NextRunning, TypeCorrect, PTL DEF Spec
=============================================================================
